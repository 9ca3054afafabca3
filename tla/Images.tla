------------------------------- MODULE Images -------------------------------
(***************************************************************************)
(* Glance images shared by name (openstack/glance/_image.py).  Workers     *)
(* look for the image, create and upload it when there is none, from a     *)
(* file that they keep in a directory they share, and delete their own     *)
(* image when another one is found to be active first.  No lock is taken.  *)
(***************************************************************************)
EXTENDS Integers

LOCAL INSTANCE FiniteSetsExt

CONSTANTS Uploaders,      \* workers that set the image up
          MaxImages,      \* bound: images of the name
          MaxImageSetUps  \* bound: set-ups

ASSUME ImagesAssumption ==
  /\ "stranger" \notin Uploaders
  /\ MaxImages \in Nat \ {0} /\ MaxImageSetUps \in Nat

ImageIds == 1 .. MaxImages

ImageStatuses == {"free", "queued", "saving", "importing", "active", "deactivated", "gone"}
Contents == {"nothing", "part", "whole"}

VARIABLES
  images,     \* status of the images of the name in Glance
  contents,   \* what has been uploaded
  creator,    \* who created an image
  imageFile,  \* image_file, in the directory the workers share
  sized,      \* does the server of the image tell its size?
  preventImageCreate,
  uploadStage,      \* control point of a worker
  known,      \* self.image
  own,        \* created_image_ids
  retries,    \* retries left
  fetched,    \* what the worker has downloaded, or has opened
  imageClean, \* workers whose _cleanup_executed is set
  setUps,     \* set-ups begun
  undeleted   \* history: images that could not be deleted

glance == <<images, contents, creator>>
source == <<imageFile, sized, preventImageCreate>>
uploading == <<own, retries, fetched>>
imageVars == <<glance, source, uploadStage, known, uploading, imageClean, setUps, undeleted>>

\* No image is seen as one that is deleted.
NoImage == [id |-> 0, status |-> "deleted"]

ImagesTypeOK ==
  /\ images \in [ImageIds -> ImageStatuses] /\ contents \in [ImageIds -> Contents]
  /\ creator \in [ImageIds -> Uploaders \cup {"stranger"}]
  /\ imageFile \in Contents /\ sized \in BOOLEAN /\ preventImageCreate \in BOOLEAN
  /\ uploadStage \in [Uploaders -> {"idle", "find", "getting", "delete", "create", "data", "download",
                              "downloading", "rename", "open", "upload", "sending", "active",
                              "tidy", "raise", "failed", "done", "dead"}]
  /\ known \in [Uploaders -> [id : ImageIds, status : ImageStatuses \ {"free", "gone"}] \cup {NoImage}]
  /\ own \in [Uploaders -> ImageIds \cup {0}]
  /\ retries \in [Uploaders -> {0, 1}]
  /\ fetched \in [Uploaders -> Contents]
  /\ imageClean \in SUBSET Uploaders
  /\ setUps \in 0 .. MaxImageSetUps
  /\ undeleted \in SUBSET ImageIds

\* There may be an image already, in any state.
ImagesInit ==
  /\ \E s \in {"free", "queued", "importing", "active", "deactivated"} :
       images = [i \in ImageIds |-> IF i = 1 THEN s ELSE "free"]
  /\ contents = [i \in ImageIds |-> "nothing"]
  /\ creator = [i \in ImageIds |-> "stranger"]
  /\ imageFile = "nothing" /\ sized \in BOOLEAN /\ preventImageCreate \in BOOLEAN
  /\ uploadStage = [w \in Uploaders |-> "idle"] /\ known = [w \in Uploaders |-> NoImage]
  /\ own = [w \in Uploaders |-> 0] /\ retries = [w \in Uploaders |-> 1]
  /\ fetched = [w \in Uploaders |-> "nothing"]
  /\ imageClean = {} /\ setUps = 0 /\ undeleted = {}

At(w, s) == uploadStage[w] = s
GoOn(w, s) == uploadStage' = [uploadStage EXCEPT ![w] = s]
-----------------------------------------------------------------------------
(***************************************************************************)
(* Glance: it lists the newest image first, and images created in the same *)
(* second in any order, so that a new one may take any place in the list.  *)
(***************************************************************************)
Listed == {i \in ImageIds : images[i] \notin {"free", "gone"}}

Found == IF Listed = {} THEN NoImage ELSE [id |-> Max(Listed), status |-> images[Max(Listed)]]

ShowStatus(i, s) == images' = [images EXCEPT ![i] = s]

GlanceImports ==
  /\ \E i \in ImageIds : images[i] = "importing" /\ ShowStatus(i, "active")
  /\ UNCHANGED <<contents, creator, source, uploadStage, known, uploading, imageClean, setUps, undeleted>>

\* An image that is not there is deleted already.
Delete(i) == IF i \in Listed THEN ShowStatus(i, "gone") ELSE UNCHANGED images
-----------------------------------------------------------------------------
(***************************************************************************)
(* wait_for_image_status: it begins with the image that is remembered, and *)
(* ends when the status is as expected or is not about to change.          *)
(***************************************************************************)
CHANGING_STATUS == {"queued", "saving", "importing"}
GETTING_ACTIVE_STATUS == {"queued", "saving", "active"}

Waits(w, expected) == known[w].status \in CHANGING_STATUS \ expected

LookAgain(w, s, expected) ==
  /\ At(w, s) /\ Waits(w, expected)
  /\ known' = [known EXCEPT ![w] = Found]
  /\ UNCHANGED <<glance, source, uploadStage, uploading, imageClean, setUps, undeleted>>

SetUpImage(w) ==
  /\ At(w, "idle")
  /\ setUps < MaxImageSetUps /\ setUps' = setUps + 1
  /\ GoOn(w, "find")
  /\ UNCHANGED <<glance, source, known, uploading, imageClean, undeleted>>

Find(w) ==
  /\ At(w, "find")
  /\ known' = [known EXCEPT ![w] = IF @ = NoImage THEN Found ELSE @]
  /\ GoOn(w, "getting")
  /\ UNCHANGED <<glance, source, uploading, imageClean, setUps, undeleted>>

\* create_image, after wait_for_getting_active_image
Choose(w) ==
  /\ At(w, "getting") /\ ~Waits(w, GETTING_ACTIVE_STATUS)
  /\ IF known[w].status \in GETTING_ACTIVE_STATUS
     THEN /\ GoOn(w, IF known[w].id = own[w] THEN "data" ELSE "active")
          /\ UNCHANGED retries
     ELSE /\ GoOn(w, IF retries[w] = 0 THEN "raise"
                    ELSE IF preventImageCreate THEN "find"
                    ELSE IF known[w] = NoImage THEN "create" ELSE "delete")
          /\ retries' = [retries EXCEPT ![w] = 0]
  /\ UNCHANGED <<glance, source, known, own, fetched, imageClean, setUps, undeleted>>

\* The wait for the deletion, too, begins with the image that is remembered, and
\* so fails, also when the image is gone.
DeleteUnfit(w) ==
  /\ At(w, "delete")
  /\ Delete(known[w].id) \/ UNCHANGED images
  /\ GoOn(w, "raise")
  /\ UNCHANGED <<contents, creator, source, known, uploading, imageClean, setUps, undeleted>>

CreateImage(w) ==
  /\ At(w, "create")
  /\ known' = [known EXCEPT ![w] = NoImage]
  /\ \/ \E i \in ImageIds :
          /\ images[i] = "free" /\ ShowStatus(i, "queued")
          /\ creator' = [creator EXCEPT ![i] = w]
          /\ own' = [own EXCEPT ![w] = i]
          /\ GoOn(w, "find")
     \/ GoOn(w, "raise") /\ UNCHANGED <<images, creator, own>>
  /\ UNCHANGED <<contents, source, retries, fetched, imageClean, setUps, undeleted>>
-----------------------------------------------------------------------------
(***************************************************************************)
(* upload_image and get_image_data                                         *)
(***************************************************************************)
GetData(w) ==
  /\ At(w, "data")
  /\ GoOn(w, IF known[w].status # "queued" THEN "raise"
             ELSE IF imageFile # "nothing" THEN "open" ELSE "download")
  /\ UNCHANGED <<glance, source, known, uploading, imageClean, setUps, undeleted>>

\* Variant: what is downloaded is written to the file itself.
WrittenInPlace == IF imageFile = "nothing" THEN "part" ELSE imageFile

\* A temporary file is written.
FileWhileWritten == imageFile

\* The size of the file is compared with the one the server tells, if it does.
BeginDownload(w) ==
  /\ At(w, "download")
  /\ \/ GoOn(w, "raise") /\ UNCHANGED imageFile
     \/ /\ sized /\ imageFile = "whole"
        /\ GoOn(w, "open") /\ UNCHANGED imageFile
     \/ /\ ~(sized /\ imageFile = "whole")
        /\ GoOn(w, "downloading") /\ imageFile' = FileWhileWritten
  /\ UNCHANGED <<glance, sized, preventImageCreate, known, uploading, imageClean, setUps, undeleted>>

\* The connection may break; what is short of the size it should have is refused.
EndDownload(w) ==
  /\ At(w, "downloading")
  /\ \E c \in {"part", "whole"} :
       /\ fetched' = [fetched EXCEPT ![w] = c]
       /\ GoOn(w, IF sized /\ c = "part" THEN "raise" ELSE "rename")
  /\ UNCHANGED <<glance, source, known, own, retries, imageClean, setUps, undeleted>>

Rename(w) ==
  /\ At(w, "rename")
  /\ imageFile' = fetched[w]
  /\ GoOn(w, "open")
  /\ UNCHANGED <<glance, sized, preventImageCreate, known, uploading, imageClean, setUps, undeleted>>

\* get_image_from_file: the file that was opened is read whatever replaces it.
Open(w) ==
  /\ At(w, "open")
  /\ fetched' = [fetched EXCEPT ![w] = imageFile]
  /\ GoOn(w, "upload")
  /\ UNCHANGED <<glance, source, known, own, retries, imageClean, setUps, undeleted>>

BeginUpload(w) ==
  /\ At(w, "upload")
  /\ IF images[known[w].id] = "queued"
     THEN ShowStatus(known[w].id, "saving") /\ GoOn(w, "sending")
     ELSE GoOn(w, "raise") /\ UNCHANGED images
  /\ UNCHANGED <<contents, creator, source, known, uploading, imageClean, setUps, undeleted>>

EndUpload(w) ==
  /\ At(w, "sending")
  /\ \/ /\ images[known[w].id] = "saving"
        /\ ShowStatus(known[w].id, "active")
        /\ contents' = [contents EXCEPT ![known[w].id] = fetched[w]]
        /\ GoOn(w, "active")
     \/ /\ IF images[known[w].id] = "saving" THEN ShowStatus(known[w].id, "queued") ELSE UNCHANGED images
        /\ GoOn(w, "raise") /\ UNCHANGED contents
  /\ UNCHANGED <<creator, source, known, uploading, imageClean, setUps, undeleted>>
-----------------------------------------------------------------------------
(***************************************************************************)
(* The end of create_image, and _cleanup_image_ids                         *)
(***************************************************************************)
WaitEnds(w) ==
  /\ At(w, "active") /\ ~Waits(w, {"active"})
  /\ GoOn(w, IF known[w].status = "active" THEN "tidy" ELSE "raise")
  /\ own' = [own EXCEPT ![w] = IF known[w].status = "active" /\ known[w].id = @ THEN 0 ELSE @]
  /\ UNCHANGED <<glance, source, known, retries, fetched, imageClean, setUps, undeleted>>

\* What this process has created is deleted; an error is only logged.
Tidy(w) ==
  /\ uploadStage[w] \in {"tidy", "raise"}
  /\ \/ /\ IF own[w] = 0 THEN UNCHANGED images ELSE Delete(own[w])
        /\ UNCHANGED undeleted
     \/ own[w] # 0 /\ undeleted' = undeleted \cup {own[w]} /\ UNCHANGED images
  /\ own' = [own EXCEPT ![w] = 0]
  /\ retries' = [retries EXCEPT ![w] = 1] /\ fetched' = [fetched EXCEPT ![w] = "nothing"]
  /\ IF At(w, "tidy")
     THEN GoOn(w, "done") /\ imageClean' = imageClean \ {w}
     ELSE GoOn(w, "failed") /\ UNCHANGED imageClean
  /\ UNCHANGED <<contents, creator, source, known, setUps>>

\* SharedFixture.cleanUp, of a set-up that failed or by a test: the image is the
\* one remembered, or else whatever has the name.
CleanUpImage(w) ==
  /\ uploadStage[w] \in {"failed", "done"}
  /\ IF preventImageCreate \/ w \in imageClean
     THEN GoOn(w, "idle") /\ imageClean' = imageClean \cup {w} /\ UNCHANGED <<images, known>>
     ELSE /\ known' = [known EXCEPT ![w] = NoImage]
          /\ \/ /\ Delete(IF known[w] = NoImage THEN Found.id ELSE known[w].id)
                /\ GoOn(w, "idle") /\ imageClean' = imageClean \cup {w}
             \/ /\ GoOn(w, IF At(w, "failed") THEN "idle" ELSE "done")
                /\ UNCHANGED <<images, imageClean>>
  /\ UNCHANGED <<contents, creator, source, uploading, setUps, undeleted>>

\* A worker dies in the middle of a set-up.
UploaderDies(w) ==
  /\ uploadStage[w] \notin {"idle", "done", "dead"}
  /\ GoOn(w, "dead")
  /\ UNCHANGED <<glance, source, known, uploading, imageClean, setUps, undeleted>>
-----------------------------------------------------------------------------
ImagesNext ==
  \/ GlanceImports
  \/ \E w \in Uploaders :
       \/ LookAgain(w, "getting", GETTING_ACTIVE_STATUS) \/ LookAgain(w, "active", {"active"})
       \/ SetUpImage(w) \/ Find(w) \/ Choose(w) \/ DeleteUnfit(w) \/ CreateImage(w)
       \/ GetData(w) \/ BeginDownload(w) \/ EndDownload(w) \/ Rename(w) \/ Open(w)
       \/ BeginUpload(w) \/ EndUpload(w) \/ WaitEnds(w) \/ Tidy(w)
       \/ CleanUpImage(w) \/ UploaderDies(w)

ImagesSpec == ImagesInit /\ [][ImagesNext]_imageVars
-----------------------------------------------------------------------------
\* An image that a worker has created is whole once it can be used, or else its
\* creator is still at work on it: whatever fails, and however the downloads and
\* uploads of the workers overlap, none is left on its way, for which all later
\* set-ups would wait for ever, and none is active in part.  Excepted are images
\* that could not be deleted, those of a worker that died, and downloads whose
\* size the server did not tell (create_image, _cleanup_image_ids,
\* _download_image_file).
ImagesAreWholeOrOnTheirWay ==
  \A i \in Listed :
    \/ creator[i] = "stranger" \/ own[creator[i]] = i \/ i \in undeleted
    \/ images[i] = "active" /\ (sized => contents[i] = "whole")
=============================================================================
