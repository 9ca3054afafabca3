---------------------------- MODULE ShellProcess ----------------------------
(***************************************************************************)
(* tobiko/shell/sh: execute() of a local command (_execute.py,             *)
(* _process.py, _io.py, _local.py): the process, the three pipes between   *)
(* it and tobiko, the loop that moves the data, and the end of the         *)
(* process.  Data is counted in units; tobiko's end of a pipe has a        *)
(* buffer, of which select knows nothing.                                  *)
(***************************************************************************)
EXTENDS Integers

CONSTANTS Programs, \* what a command does (external)
          Calls,    \* the input and the timeout it is executed with
          Capacity, \* units a pipe holds
          Buffer    \* units the buffer of a stream holds (buffer_size)

Outputs == {"stdout", "stderr"}
Streams == Outputs \cup {"stdin"}

ASSUME ShellAssumption ==
  /\ Programs \subseteq
       [output : [Outputs -> Nat], \* units it writes
        reads : BOOLEAN,           \* it reads its input to the end
        hangs : BOOLEAN,           \* it never exits
        lingers : BOOLEAN,         \* it leaves a child that keeps its output
        root : BOOLEAN,            \* it is run with sudo
        status : {"zero", "nonzero"}]
  /\ Calls \subseteq [input : Nat, timed : BOOLEAN]
  /\ Capacity \in Nat \ {0}
  /\ Buffer \in Nat \ {0}

VARIABLES
  program, \* the command
  call,    \* the parameters of execute()
  left,    \* units the process still has to write
  taken,   \* units of input the process has read
  exit,    \* exit status of the process
  pipe,    \* units in each pipe
  open,    \* streams tobiko has not closed
  data,    \* units of input not yet given to the stream
  pending, \* units in the buffer of stdin
  held,    \* units in the buffers of stdout and stderr
  got,     \* units read: ShellIOBase._data_chunks
  pc,      \* control point of execute_process
  mode,    \* the call of communicate: of send_all or of wait
  streams, \* streams communicate still attends to
  ready,   \* streams select found ready, not yet attended to
  late,    \* the timeout has passed since the present wait began
  expired, \* attempt.elapsed_time has reached the timeout
  error    \* exception being raised

processVars == <<left, taken, exit>>
dataVars == <<data, pending, held, got>>
loopVars == <<mode, streams, ready, expired>>
setting == <<program, call>>
vars == <<setting, processVars, pipe, open, dataVars, pc, loopVars, late, error>>

TypeOK ==
  /\ program \in Programs /\ call \in Calls
  /\ left \in [Outputs -> Nat]
  /\ taken \in Nat
  /\ exit \in {"none", "zero", "nonzero", "signal"}
  /\ pipe \in [Streams -> 0 .. Capacity]
  /\ open \subseteq Streams
  /\ data \in Nat /\ pending \in 0 .. Buffer
  /\ held \in [Outputs -> 0 .. 2 * Buffer]
  /\ got \in [Outputs -> Nat]
  /\ pc \in {"start", "check", "select", "idle", "status", "again",
             "flush", "close", "terminate", "reap", "done"} \cup Streams
  /\ mode \in {"send", "wait"}
  /\ streams \subseteq Streams /\ ready \subseteq Streams
  /\ late \in BOOLEAN /\ expired \in BOOLEAN
  /\ late \/ expired => call.timed
  /\ error \in {"none", "ShellTimeoutExpired", "RetryTimeLimitError",
                "BrokenPipeError"}

Init ==
  /\ program \in Programs /\ call \in Calls
  /\ program.reads => call.input > 0
  /\ left = program.output
  /\ taken = 0
  /\ exit = "none"
  /\ pipe = [s \in Streams |-> 0]
  /\ open = Outputs \cup (IF call.input > 0 THEN {"stdin"} ELSE {})
  /\ data = call.input
  /\ pending = 0
  /\ held = [s \in Outputs |-> 0]
  /\ got = [s \in Outputs |-> 0]
  /\ pc = "start"
  /\ mode = "send"
  /\ streams = {} /\ ready = {}
  /\ late = FALSE /\ expired = FALSE
  /\ error = "none"
-----------------------------------------------------------------------------
(***************************************************************************)
(* The process (external).  It may write and read in any order; a write    *)
(* waits for room, and kills it when tobiko has closed the stream.         *)
(***************************************************************************)
Running == exit = "none"

\* The writing end of an output is closed.
AtEnd(s) == ~Running /\ ~program.lingers /\ pipe[s] = 0

ProcessWrite(s) ==
  /\ Running /\ left[s] > 0
  /\ s \in open /\ pipe[s] < Capacity
  /\ left' = [left EXCEPT ![s] = @ - 1]
  /\ pipe' = [pipe EXCEPT ![s] = @ + 1]
  /\ UNCHANGED <<taken, exit>>

BrokenPipe(s) ==
  /\ Running /\ left[s] > 0
  /\ s \notin open
  /\ exit' = "signal"
  /\ UNCHANGED <<left, taken, pipe>>

ProcessRead ==
  /\ Running /\ program.reads
  /\ pipe["stdin"] > 0
  /\ pipe' = [pipe EXCEPT !["stdin"] = @ - 1]
  /\ taken' = taken + 1
  /\ UNCHANGED <<left, exit>>

Exit ==
  /\ Running /\ ~program.hangs
  /\ \A s \in Outputs : left[s] = 0
  /\ program.reads => "stdin" \notin open /\ pipe["stdin"] = 0
  /\ exit' = program.status
  /\ UNCHANGED <<left, taken, pipe>>

ProcessStep ==
  /\ \/ \E s \in Outputs : ProcessWrite(s) \/ BrokenPipe(s)
     \/ ProcessRead
     \/ Exit
  /\ UNCHANGED <<setting, open, dataVars, pc, loopVars, late, error>>

\* Time passes while communicate loops or while the exit status is awaited.
Clock ==
  /\ call.timed /\ ~late
  /\ pc \notin {"start", "flush", "close", "terminate", "done"}
  /\ late' = TRUE
  /\ UNCHANGED <<setting, processVars, pipe, open, dataVars, pc, loopVars, error>>
-----------------------------------------------------------------------------
(***************************************************************************)
(* communicate(): attempts until there is nothing left to attend to.  An   *)
(* attempt knows whether the time was over when it began.                  *)
(***************************************************************************)
Quiet == UNCHANGED <<setting, processVars>>

Communicate(m, s) ==
  /\ pc' = "check"
  /\ mode' = m
  /\ streams' = s
  /\ ready' = {}
  /\ late' = FALSE /\ expired' = FALSE

\* The body of `with process`, or its end when there is nothing to send.
Start ==
  /\ pc = "start"
  /\ IF data > 0
     THEN Communicate("send", open)
     ELSE pc' = "close" /\ UNCHANGED <<loopVars, late>>
  /\ Quiet /\ UNCHANGED <<pipe, open, dataVars, error>>

\* Variant: the loop ends with the first stream that does.
EitherOpen ==
  \/ mode = "send" /\ data > 0 /\ "stdin" \in streams
  \/ mode = "wait" /\ Outputs \subseteq streams

IsCommunicating ==
  \/ mode = "send" /\ data > 0 /\ "stdin" \in streams
  \/ mode = "wait" /\ streams \cap Outputs # {}

Check ==
  /\ pc = "check"
  /\ pc' = IF IsCommunicating THEN "select"
           ELSE IF mode = "send" THEN "flush" ELSE "terminate"
  /\ Quiet /\ UNCHANGED <<pipe, open, dataVars, loopVars, late, error>>

IsReady(s) ==
  IF s = "stdin" THEN pipe[s] < Capacity \/ ~Running
                 ELSE pipe[s] > 0 \/ AtEnd(s)

\* The streams are attended to in this order.
Turn(r) ==
  IF "stdin" \in r THEN "stdin"
  ELSE IF "stdout" \in r THEN "stdout"
  ELSE IF "stderr" \in r THEN "stderr" ELSE "again"

Select ==
  /\ pc = "select"
  /\ streams' = streams \cap open
  /\ ready' = {s \in streams' : IsReady(s)}
  /\ pc' = IF ready' = {} THEN "idle" ELSE Turn(ready')
  /\ Quiet /\ UNCHANGED <<pipe, open, dataVars, mode, late, expired, error>>

Attended(s) ==
  /\ ready' = ready \ {s}
  /\ pc' = Turn(ready')
-----------------------------------------------------------------------------
(***************************************************************************)
(* Input: the stream is a BufferedWriter.  A write that does not fit, a    *)
(* flush and a close wait for room in the pipe, whatever the timeout; with *)
(* nobody left to read they raise BrokenPipeError.                         *)
(***************************************************************************)
Drain ==
  /\ pending > 0 /\ Running /\ pipe["stdin"] < Capacity
  /\ pending' = pending - 1
  /\ pipe' = [pipe EXCEPT !["stdin"] = @ + 1]
  /\ Quiet /\ UNCHANGED <<open, data, held, got, pc, loopVars, late, error>>

NobodyReads == pending > 0 /\ ~Running

RaiseBrokenPipe ==
  /\ NobodyReads
  /\ error' = "BrokenPipeError"
  /\ pc' = "close"
  /\ Quiet /\ UNCHANGED <<pipe, open, dataVars, loopVars, late>>

\* _write_to_stdin
Fill ==
  /\ data > 0 /\ pending < Buffer
  /\ data' = data - 1
  /\ pending' = pending + 1
  /\ Quiet /\ UNCHANGED <<pipe, open, held, got, pc, loopVars, late, error>>

Written ==
  /\ data = 0
  /\ streams' = streams \ {"stdin"}
  /\ Attended("stdin")
  /\ Quiet /\ UNCHANGED <<pipe, open, dataVars, mode, late, expired, error>>

WriteToStdin ==
  /\ pc = "stdin"
  /\ \/ Fill
     \/ data > 0 /\ pending = Buffer /\ (Drain \/ RaiseBrokenPipe)
     \/ Written

\* Variant: what does not fit in the pipe is dropped.
FlushOnce ==
  /\ pc = "flush"
  /\ pending' = 0
  /\ pipe' = [pipe EXCEPT !["stdin"] =
                IF @ + pending > Capacity THEN Capacity ELSE @ + pending]
  /\ pc' = "close"
  /\ Quiet /\ UNCHANGED <<open, data, held, got, loopVars, late, error>>

Flushed ==
  /\ pending = 0
  /\ pc' = "close"
  /\ Quiet /\ UNCHANGED <<pipe, open, dataVars, loopVars, late, error>>

\* send_all
Flush ==
  /\ pc = "flush"
  /\ Drain \/ RaiseBrokenPipe \/ Flushed
-----------------------------------------------------------------------------
(***************************************************************************)
(* Output: the stream is a BufferedReader.  A read of buffer_size bytes    *)
(* waits until it has that many or the pipe is at its end, whatever the    *)
(* timeout; what it reads beyond them stays in its buffer.                 *)
(***************************************************************************)
\* Variant: a read is taken to return what it was asked for.
AsAsked(a, b) == b

Least(a, b) == IF a < b THEN a ELSE b

Fetch(s) ==
  /\ held[s] < Buffer /\ pipe[s] > 0
  /\ LET n == Least(pipe[s], Buffer)
     IN /\ pipe' = [pipe EXCEPT ![s] = @ - n]
        /\ held' = [held EXCEPT ![s] = @ + n]
  /\ Quiet /\ UNCHANGED <<open, data, pending, got, pc, loopVars, late, error>>

Chunk(s) ==
  /\ held[s] > 0
  /\ held[s] >= Buffer \/ AtEnd(s)
  /\ LET n == Least(held[s], Buffer)
     IN /\ held' = [held EXCEPT ![s] = @ - n]
        /\ got' = [got EXCEPT ![s] = @ + n]
  /\ Attended(s)
  /\ Quiet
  /\ UNCHANGED <<pipe, open, data, pending, mode, streams, late, expired, error>>

ClosedByPeer(s) ==
  /\ held[s] = 0 /\ AtEnd(s)
  /\ open' = open \ {s}
  /\ streams' = streams \ {s}
  /\ Attended(s)
  /\ Quiet /\ UNCHANGED <<pipe, dataVars, mode, late, expired, error>>

\* _read_from_stdout, _read_from_stderr
Read(s) ==
  /\ pc = s
  /\ Fetch(s) \/ Chunk(s) \/ ClosedByPeer(s)
-----------------------------------------------------------------------------
(***************************************************************************)
(* The limit of the attempts.  Both checks raise the exception that is     *)
(* being handled, if there is one: the one of the body, when wait is       *)
(* called by the end of `with process`.                                    *)
(***************************************************************************)
Leave == pc' = IF mode = "send" THEN "close" ELSE "terminate"

RaiseLimit == error' = IF error = "none" THEN "RetryTimeLimitError" ELSE error

\* Variant: every attempt measures its own time.
AgainAfresh ==
  /\ pc = "again"
  /\ pc' = "check"
  /\ expired' = FALSE
  /\ Quiet
  /\ UNCHANGED <<pipe, open, dataVars, mode, streams, ready, late, error>>

Again ==
  /\ pc = "again"
  /\ IF expired
     THEN RaiseLimit /\ Leave /\ UNCHANGED expired
     ELSE expired' = late /\ pc' = "check" /\ UNCHANGED error
  /\ Quiet /\ UNCHANGED <<pipe, open, dataVars, mode, streams, ready, late>>

\* _check_communicate_timeout: what is not a RetryTimeLimitError it lets pass.
Idle ==
  /\ pc = "idle"
  /\ IF ~expired
     THEN pc' = "again" /\ UNCHANGED <<late, error>>
     ELSE IF error \in {"none", "RetryTimeLimitError"}
     THEN pc' = "status" /\ late' = FALSE /\ RaiseLimit
     ELSE Leave /\ UNCHANGED <<late, error>>
  /\ Quiet /\ UNCHANGED <<pipe, open, dataVars, loopVars>>

\* get_exit_status, called by _check_communicate_timeout.
Status ==
  /\ pc = "status"
  /\ \/ ~Running /\ UNCHANGED error
     \/ Running /\ late /\ error' = "ShellTimeoutExpired"
  /\ Leave
  /\ Quiet /\ UNCHANGED <<pipe, open, dataVars, loopVars, late>>
-----------------------------------------------------------------------------
(***************************************************************************)
(* The end of `with process`: close() closes the input, drains the output  *)
(* and terminates the process.                                             *)
(***************************************************************************)
\* close_stdin: an error of the stream is only logged.  It finds the buffer
\* empty, or nobody left to read it.
Close ==
  /\ pc = "close"
  /\ pending = 0 \/ NobodyReads
  /\ open' = open \ {"stdin"}
  /\ Communicate("wait", open \cap Outputs)
  /\ Quiet /\ UNCHANGED <<pipe, dataVars, error>>

Terminate ==
  /\ pc = "terminate"
  /\ open' = open \ Outputs
  /\ pc' = "reap"
  /\ late' = FALSE
  /\ Quiet /\ UNCHANGED <<pipe, dataVars, loopVars, error>>

\* Variant: _terminate without its finally clause.
NoKill == exit' = exit

\* kill() may not kill what sudo runs; it only logs the error.
Kill == exit' = IF Running /\ ~program.root THEN "signal" ELSE exit

Reap ==
  /\ pc = "reap"
  /\ \/ ~Running /\ UNCHANGED <<exit, error>>
     \/ Running /\ late /\ Kill /\ error' = "ShellTimeoutExpired"
  /\ pc' = "done"
  /\ UNCHANGED <<setting, left, taken, pipe, open, dataVars, loopVars, late>>

Execute ==
  \/ Start \/ Check \/ Select \/ WriteToStdin
  \/ \E s \in Outputs : Read(s)
  \/ Again \/ Idle \/ Status
  \/ Flush \/ Close \/ Terminate \/ Reap

Next == Execute \/ ProcessStep \/ Clock

Spec == Init /\ [][Next]_vars

FairSpec ==
  Spec /\ WF_vars(Execute) /\ WF_vars(ProcessStep) /\ WF_vars(Clock)
-----------------------------------------------------------------------------
\* What execute() returns or raises (execute_process).
Result ==
  IF error # "none" THEN error
  ELSE IF exit = "zero" THEN "SUCCEEDED" ELSE "FAILED"

Completed == pc = "done" /\ Result \in {"SUCCEEDED", "FAILED"}

\* A result has all that the process wrote, and the status it exited with:
\* communicate goes on until both streams are at their end.
OutputComplete ==
  Completed => got = program.output /\ exit = program.status

\* The process was given all of its input, if it reads it (send_all).
InputComplete ==
  Completed /\ program.reads => taken = call.input

\* However execute() ends, the process has ended too (_terminate), except
\* what sudo runs.
NothingLeftRunning == pc = "done" => ~Running \/ program.root

\* execute() ends if the command exits and never has to wait for tobiko, or
\* if it is silent and there is a timeout.
Exits == ~program.hangs /\ ~program.lingers
Undemanding ==
  /\ call.input > 0 => \A s \in Outputs : program.output[s] = 0
  /\ \/ \E s \in Outputs : program.output[s] = 0
     \/ \A s \in Outputs : program.output[s] <= Capacity
Silent == call.input = 0 /\ \A s \in Outputs : program.output[s] = 0

EndsIfSimple ==
  (Exits /\ Undemanding) \/ (Silent /\ call.timed) => <>(pc = "done")

\* _execute.py: "ShellTimeoutExpired: when timeout expires before command
\* execution terminates".
TimeoutEnds == call.timed => <>(pc = "done")
=============================================================================
