------------------------- MODULE ShellProcessProofs -------------------------
(***************************************************************************)
(* ShellProcess for every command, input and size of the pipes and the     *)
(* buffers: its types, what is left running, and that a result comes with  *)
(* all of the output and after all of the input.                           *)
(***************************************************************************)
EXTENDS ShellProcess, TLAPS

USE ShellAssumption DEF Outputs, Streams, ShellAssumption

LEMMA Setting ==
  ASSUME program \in Programs, call \in Calls
  PROVE  /\ program.output \in [Outputs -> Nat]
         /\ program.reads \in BOOLEAN /\ program.hangs \in BOOLEAN
         /\ program.lingers \in BOOLEAN /\ program.root \in BOOLEAN
         /\ program.status \in {"zero", "nonzero"}
         /\ call.input \in Nat /\ call.timed \in BOOLEAN
  OBVIOUS

LEMMA TypeInit == Init => TypeOK
<1> SUFFICES ASSUME Init PROVE TypeOK
  OBVIOUS
<1> USE DEF Init
<1>1. left \in [Outputs -> Nat] /\ data \in Nat
  BY Setting
<1>2. /\ pipe \in [Streams -> 0 .. Capacity]
      /\ held \in [Outputs -> 0 .. 2 * Buffer]
      /\ got \in [Outputs -> Nat]
      /\ pending \in 0 .. Buffer
  OBVIOUS
<1>3. open \subseteq Streams
  OBVIOUS
<1>4. QED  BY <1>1, <1>2, <1>3 DEF TypeOK

LEMMA TypeProcess ==
  ASSUME TypeOK, ProcessStep PROVE TypeOK'
<1> USE DEF TypeOK, ProcessStep, setting, dataVars, loopVars, Running
<1>1. ASSUME NEW s \in Outputs, ProcessWrite(s) PROVE TypeOK'
  BY <1>1 DEF ProcessWrite
<1>2. ASSUME NEW s \in Outputs, BrokenPipe(s) PROVE TypeOK'
  BY <1>2 DEF BrokenPipe
<1>3. CASE ProcessRead
  BY <1>3 DEF ProcessRead
<1>4. CASE Exit
  BY <1>4 DEF Exit
<1>5. QED  BY <1>1, <1>2, <1>3, <1>4

LEMMA TypeClock ==
  ASSUME TypeOK, Clock PROVE TypeOK'
  BY
     DEF TypeOK, Clock, setting, processVars, dataVars, loopVars

LEMMA TypeCommunicate ==
  ASSUME TypeOK, Start \/ Check \/ Select PROVE TypeOK'
<1> USE DEF TypeOK, Quiet, setting, processVars, dataVars, loopVars
<1>1. CASE Start
  BY <1>1 DEF Start, Communicate
<1>2. CASE Check
  BY <1>2 DEF Check
<1>3. CASE Select
  BY <1>3 DEF Select, Turn
<1>4. QED  BY <1>1, <1>2, <1>3

LEMMA TypeInput ==
  ASSUME TypeOK, WriteToStdin \/ Flush \/ Close PROVE TypeOK'
<1> USE DEF TypeOK, Quiet, setting, processVars, dataVars, loopVars
<1>1. CASE Drain /\ pc' = pc
  BY <1>1 DEF Drain
<1>2. CASE RaiseBrokenPipe
  BY <1>2 DEF RaiseBrokenPipe
<1>3. CASE Fill
  BY <1>3 DEF Fill
<1>4. CASE Written
  BY <1>4 DEF Written, Attended, Turn
<1>5. CASE Flushed
  BY <1>5 DEF Flushed
<1>6. CASE Close
  BY <1>6 DEF Close, Communicate
<1>7. QED
  BY <1>1, <1>2, <1>3, <1>4, <1>5, <1>6
     DEF WriteToStdin, Flush, Close, Drain, loopVars

LEMMA TypeOutput ==
  ASSUME TypeOK, NEW s \in Outputs, Read(s) PROVE TypeOK'
<1> USE DEF TypeOK, Quiet, setting, processVars, dataVars, loopVars
<1>1. CASE Fetch(s)
  BY <1>1 DEF Fetch, Least
<1>2. CASE Chunk(s)
  BY <1>2 DEF Chunk, Least, Attended, Turn
<1>3. CASE ClosedByPeer(s)
  BY <1>3 DEF ClosedByPeer, Attended, Turn
<1>4. QED  BY <1>1, <1>2, <1>3 DEF Read

LEMMA TypeEnd ==
  ASSUME TypeOK, Again \/ Idle \/ Status \/ Terminate \/ Reap PROVE TypeOK'
<1> USE DEF TypeOK, Quiet, setting, processVars, dataVars, loopVars
<1>1. CASE Again
  BY <1>1 DEF Again, RaiseLimit, Leave
<1>2. CASE Idle
  BY <1>2 DEF Idle, RaiseLimit, Leave
<1>3. CASE Status
  BY <1>3 DEF Status, Leave
<1>4. CASE Terminate
  BY <1>4 DEF Terminate
<1>5. CASE Reap
  BY <1>5 DEF Reap, Kill
<1>6. QED  BY <1>1, <1>2, <1>3, <1>4, <1>5

LEMMA TypeStep == TypeOK /\ [Next]_vars => TypeOK'
<1>1. CASE UNCHANGED vars
  BY <1>1 DEF vars, setting, processVars, dataVars, loopVars, TypeOK
<1>2. QED
  BY <1>1, TypeProcess, TypeClock, TypeCommunicate, TypeInput, TypeOutput, TypeEnd
     DEF Next, Execute

\* Every variable keeps its type, and only a call with a timeout is ever late.
THEOREM TypeCorrect == Spec => []TypeOK
  BY TypeInit, TypeStep, PTL DEF Spec
-----------------------------------------------------------------------------
(***************************************************************************)
(* execute() ends with Reap, which has seen the process exit or killed it. *)
(***************************************************************************)
LEMMA ReapStep ==
  ASSUME TypeOK, NothingLeftRunning, Reap PROVE NothingLeftRunning'
  BY DEF TypeOK, NothingLeftRunning, Running, Reap, Kill, setting

LEMMA DoneStep ==
  ASSUME TypeOK, [Next]_vars PROVE pc' = "done" => pc = "done" \/ Reap
<1>1. CASE ProcessStep \/ Clock \/ UNCHANGED vars
  BY <1>1 DEF ProcessStep, Clock, vars
<1>2. CASE Start \/ Check \/ Select \/ Again \/ Idle \/ Status \/ Terminate \/ Reap
  BY <1>2 DEF Start, Check, Select, Again, Idle, Status, Terminate,
              Communicate, Turn, Leave
<1>3. CASE WriteToStdin \/ Flush \/ Close
  BY <1>3 DEF WriteToStdin, Flush, Close, Drain, RaiseBrokenPipe, Fill, Written,
              Flushed, Communicate, Attended, Turn
<1>4. ASSUME NEW s \in Outputs, Read(s) PROVE pc' # "done"
  BY <1>4 DEF Read, Fetch, Chunk, ClosedByPeer, Attended, Turn
<1>5. QED  BY <1>1, <1>2, <1>3, <1>4 DEF Next, Execute

\* Nobody starts the process again, nor changes what it is.
LEMMA ExitStep ==
  ASSUME TypeOK, [Next]_vars, ~Running PROVE exit' = exit /\ program' = program
<1> USE DEF Running, Quiet, setting, processVars
<1>1. CASE ProcessStep \/ Clock \/ UNCHANGED vars
  BY <1>1 DEF ProcessStep, ProcessWrite, BrokenPipe, ProcessRead, Exit, Clock, vars
<1>2. CASE Start \/ Check \/ Select \/ Again \/ Idle \/ Status \/ Terminate \/ Reap
  BY <1>2 DEF Start, Check, Select, Again, Idle, Status, Terminate, Reap, Kill
<1>3. CASE WriteToStdin \/ Flush \/ Close
  BY <1>3 DEF WriteToStdin, Flush, Close, Drain, RaiseBrokenPipe, Fill, Written,
              Flushed
<1>4. ASSUME NEW s \in Outputs, Read(s) PROVE exit' = exit /\ program' = program
  BY <1>4 DEF Read, Fetch, Chunk, ClosedByPeer
<1>5. QED  BY <1>1, <1>2, <1>3, <1>4 DEF Next, Execute

LEMMA SettingStep == [Next]_vars => UNCHANGED setting
  BY DEF Next, Execute, vars, Quiet, ProcessStep, Clock, Start, Check, Select,
         WriteToStdin, Fill, Drain, RaiseBrokenPipe, Written, Read, Fetch,
         Chunk, ClosedByPeer, Again, Idle, Status, Flush, Flushed, Close, Terminate, Reap

LEMMA NothingLeftStep ==
  TypeOK /\ NothingLeftRunning /\ [Next]_vars => NothingLeftRunning'
<1> SUFFICES ASSUME TypeOK, NothingLeftRunning, [Next]_vars, pc' = "done"
             PROVE  ~Running' \/ program.root'
  BY DEF NothingLeftRunning
<1>1. CASE Reap
  BY <1>1, ReapStep DEF NothingLeftRunning
<1>2. CASE pc = "done"
  BY <1>2, ExitStep, SettingStep DEF NothingLeftRunning, Running, setting
<1>3. QED  BY <1>1, <1>2, DoneStep

\* Whatever execute() returns or raises, the process has ended, unless it is
\* run by sudo and could not be killed.
THEOREM NothingIsLeftRunning == Spec => []NothingLeftRunning
<1>1. Init => NothingLeftRunning
  BY DEF Init, NothingLeftRunning
<1>2. QED  BY <1>1, NothingLeftStep, TypeCorrect, PTL DEF Spec
-----------------------------------------------------------------------------
(***************************************************************************)
(* While nothing is raised, every unit the process had to write is with    *)
(* the process, in the pipe, in the buffer of the stream or read; a stream *)
(* is closed, before the end, only when they are all read.                 *)
(***************************************************************************)
Looping == pc \in {"check", "select", "idle", "status", "again"} \cup Streams

Conserved ==
  \A s \in open \cap Outputs :
    got[s] + held[s] + pipe[s] + left[s] = program.output[s]

ClosedAtEnd ==
  \A s \in Outputs \ open :
    /\ got[s] = program.output[s]
    /\ held[s] = 0 /\ pipe[s] = 0 /\ left[s] = 0
    /\ ~Running

ExitsItself ==
  ~Running => exit = program.status /\ \A s \in Outputs : left[s] = 0

Attends ==
  /\ Looping /\ mode = "wait" => open \cap Outputs \subseteq streams
  /\ pc \in {"terminate", "reap", "done"} => open \cap Outputs = {}
  /\ pc # "status"

OutputInv == error = "none" => Conserved /\ ClosedAtEnd /\ ExitsItself /\ Attends

LEMMA OutputInit == Init => OutputInv
  BY Setting
     DEF Init, OutputInv, Conserved, ClosedAtEnd, ExitsItself, Attends, Looping, Running

LEMMA OutputProcess ==
  ASSUME TypeOK, OutputInv, ProcessStep PROVE OutputInv'
<1> SUFFICES ASSUME error = "none"
             PROVE  (Conserved /\ ClosedAtEnd /\ ExitsItself /\ Attends)'
  BY DEF OutputInv, ProcessStep
<1> USE DEF TypeOK, OutputInv, Conserved, ClosedAtEnd, ExitsItself, Running,
            setting, dataVars
<1>0. UNCHANGED <<setting, open, dataVars, pc, loopVars, late, error>>
  BY DEF ProcessStep
<1>1. Attends'
  BY <1>0 DEF Attends, Looping, loopVars
<1>2. ASSUME NEW s \in Outputs, ProcessWrite(s)
      PROVE  (Conserved /\ ClosedAtEnd /\ ExitsItself)'
  BY <1>0, <1>2, Setting DEF ProcessWrite
<1>3. ASSUME NEW s \in Outputs, BrokenPipe(s) PROVE FALSE
  BY <1>3 DEF BrokenPipe
<1>4. CASE ProcessRead
  <2>1. /\ UNCHANGED <<program, open, got, held, left, exit>>
        /\ \A s \in Outputs : pipe'[s] = pipe[s]
    BY <1>0, <1>4 DEF ProcessRead
  <2>2. QED  BY <1>1, <2>1
<1>5. CASE Exit
  <2>1. /\ UNCHANGED <<program, open, got, held, left, pipe>>
        /\ exit' = program.status
        /\ \A s \in Outputs : left[s] = 0
    BY <1>0, <1>5 DEF Exit
  <2>2. ClosedAtEnd' /\ Conserved'
    BY <2>1, Setting, <1>5 DEF Exit
  <2>3. ExitsItself'
    BY <2>1
  <2>4. QED  BY <1>1, <2>2, <2>3
<1>6. QED  BY <1>1, <1>2, <1>3, <1>4, <1>5 DEF ProcessStep

LEMMA OutputRead ==
  ASSUME TypeOK, OutputInv, NEW s \in Outputs, Read(s) PROVE OutputInv'
<1> SUFFICES ASSUME error = "none"
             PROVE  (Conserved /\ ClosedAtEnd /\ ExitsItself /\ Attends)'
  BY DEF OutputInv, Read, Fetch, Chunk, ClosedByPeer
<1> USE DEF TypeOK, OutputInv, Conserved, ClosedAtEnd, ExitsItself, Running,
            Quiet, setting, processVars
<1>1. CASE Fetch(s)
  <2>1. Attends'
    BY <1>1 DEF Fetch, Attends, Looping, loopVars
  <2>2. (Conserved /\ ClosedAtEnd /\ ExitsItself)'
    BY <1>1, Setting DEF Fetch, Least
  <2>3. QED  BY <2>1, <2>2
<1>2. CASE Chunk(s)
  <2>1. Attends'
    BY <1>2 DEF Chunk, Attends, Looping, Read, Attended, Turn
  <2>2. (Conserved /\ ClosedAtEnd /\ ExitsItself)'
    BY <1>2, Setting DEF Chunk, Least
  <2>3. QED  BY <2>1, <2>2
<1>3. CASE ClosedByPeer(s)
  <2>1. Attends'
    BY <1>3 DEF ClosedByPeer, Attends, Looping, Read, Attended, Turn
  <2>2. (Conserved /\ ClosedAtEnd /\ ExitsItself)'
    BY <1>3, Setting DEF ClosedByPeer, AtEnd, dataVars
  <2>3. QED  BY <2>1, <2>2
<1>4. QED  BY <1>1, <1>2, <1>3 DEF Read

LEMMA OutputOther ==
  ASSUME TypeOK, OutputInv,
         \/ Start \/ Check \/ Select \/ Again \/ Idle \/ Status \/ Terminate
         \/ Reap \/ WriteToStdin \/ Flush \/ Close
  PROVE  OutputInv'
<1> USE DEF OutputInv, Quiet, setting, processVars
<1>1. ASSUME error' = "none" PROVE error = "none" /\ exit' = exit
  <2> USE <1>1
  <2>1. CASE Start \/ Check \/ Select \/ Again \/ Idle \/ Status \/ Terminate
    BY <2>1 DEF Start, Check, Select, Again, Idle, Status, Terminate, RaiseLimit
  <2>2. CASE Reap
    BY <2>2 DEF Reap
  <2>3. CASE WriteToStdin \/ Flush \/ Close
    BY <2>3 DEF WriteToStdin, Flush, Close, Drain, RaiseBrokenPipe, Fill,
                Written, Flushed
  <2>4. QED  BY <2>1, <2>2, <2>3
<1> SUFFICES ASSUME error' = "none", error = "none"
             PROVE  (Conserved /\ ClosedAtEnd /\ ExitsItself /\ Attends)'
  BY <1>1
<1>2. Attends'
  <2> USE DEF TypeOK, Attends, Looping
  <2>1. CASE Start \/ Select
    BY <2>1 DEF Start, Select, Communicate, Turn
  <2>2. CASE Check
    BY <2>2 DEF Check, IsCommunicating, loopVars
  <2>3. CASE Again \/ Idle \/ Status
    BY <2>3 DEF Again, Idle, Status, RaiseLimit, Leave, loopVars
  <2>4. CASE Terminate \/ Reap
    BY <2>4 DEF Terminate, Reap, loopVars
  <2>5. CASE WriteToStdin
    BY <2>5 DEF WriteToStdin, Fill, Drain, RaiseBrokenPipe, Written, Attended,
                Turn, loopVars
  <2>6. CASE Flush \/ Close
    BY <2>6 DEF Flush, Close, Flushed, Drain, RaiseBrokenPipe,
                Communicate, loopVars
  <2>7. QED  BY <2>1, <2>2, <2>3, <2>4, <2>5, <2>6
<1>3. /\ UNCHANGED <<got, held, left, program, exit>>
      /\ \A s \in Outputs : pipe'[s] = pipe[s]
      /\ open' \cap Outputs = open \cap Outputs
  <2> USE DEF TypeOK, dataVars
  <2>1. CASE Start \/ Check \/ Select \/ Again \/ Idle \/ Status
    BY <2>1 DEF Start, Check, Select, Again, Idle, Status
  <2>2. CASE Terminate \/ Reap
    BY <2>2, <1>1 DEF Terminate, Reap, Attends
  <2>3. CASE WriteToStdin \/ Flush \/ Close
    BY <2>3 DEF WriteToStdin, Flush, Close, Drain, RaiseBrokenPipe, Fill,
                Written, Flushed
  <2>4. QED  BY <2>1, <2>2, <2>3
<1>4. (Conserved /\ ClosedAtEnd /\ ExitsItself)'
  BY <1>3 DEF Conserved, ClosedAtEnd, ExitsItself, Running
<1>5. QED  BY <1>2, <1>4

LEMMA OutputStep == TypeOK /\ OutputInv /\ [Next]_vars => OutputInv'
<1>1. CASE UNCHANGED vars \/ Clock
  BY <1>1 DEF vars, Clock, setting, processVars, dataVars, loopVars, OutputInv,
              Conserved, ClosedAtEnd, ExitsItself, Attends, Looping, Running
<1>2. QED
  BY <1>1, OutputProcess, OutputRead, OutputOther DEF Next, Execute

LEMMA OutputImplies == TypeOK /\ OutputInv => OutputComplete
<1> SUFFICES ASSUME TypeOK, OutputInv, Completed
             PROVE  got = program.output /\ exit = program.status
  BY DEF OutputComplete
<1>1. error = "none"
  BY DEF TypeOK, Completed, Result
<1>2. \A s \in Outputs : got[s] = program.output[s] /\ ~Running
  BY <1>1 DEF OutputInv, Attends, ClosedAtEnd, Completed
<1>3. got = program.output
  BY <1>2, Setting DEF TypeOK
<1>4. QED  BY <1>1, <1>2, <1>3 DEF OutputInv, ExitsItself

\* A result of execute() has all of the output of the command, and the status
\* it exited with, however large the pipes and the buffers are.
THEOREM ResultHasTheOutput == Spec => []OutputComplete
<1>1. Spec => []OutputInv
  BY OutputInit, OutputStep, TypeCorrect, PTL DEF Spec
<1>2. QED  BY <1>1, TypeCorrect, OutputImplies, PTL
-----------------------------------------------------------------------------
(***************************************************************************)
(* While nothing is raised, every unit of input of a process that reads it *)
(* is with tobiko, in the buffer of the stream, in the pipe or read; the   *)
(* stream is closed only when the first two are empty.                     *)
(***************************************************************************)
InputConserved == taken + pipe["stdin"] + pending + data = call.input

ClosedWhenSent ==
  /\ "stdin" \notin open => pending = 0 /\ data = 0
  /\ ~Running => "stdin" \notin open /\ pipe["stdin"] = 0

Sends ==
  /\ pc = "start" => mode = "send"
  /\ pc \in {"flush", "close"} => data = 0
  /\ Looping /\ mode = "send" /\ data > 0 => "stdin" \in streams
  /\ mode = "wait" \/ pc \in {"terminate", "reap", "done"} => "stdin" \notin open

InputInv ==
  error = "none" /\ program.reads => InputConserved /\ ClosedWhenSent /\ Sends

LEMMA InputInit == Init => InputInv
  BY Setting
     DEF Init, InputInv, InputConserved, ClosedWhenSent, Sends, Looping, Running

LEMMA InputProcess ==
  ASSUME TypeOK, OutputInv, InputInv, ProcessStep PROVE InputInv'
<1> SUFFICES ASSUME error = "none", program.reads
             PROVE  (InputConserved /\ ClosedWhenSent /\ Sends)'
  BY DEF InputInv, ProcessStep, setting
<1>0. UNCHANGED <<setting, open, dataVars, pc, loopVars, late, error>>
  BY DEF ProcessStep
<1> USE DEF TypeOK, InputInv, InputConserved, ClosedWhenSent, Running, setting,
            dataVars
<1>1. Sends'
  BY <1>0 DEF Sends, Looping, loopVars
<1>2. ASSUME NEW s \in Outputs, ProcessWrite(s)
      PROVE  (InputConserved /\ ClosedWhenSent)'
  BY <1>0, <1>2 DEF ProcessWrite
<1>3. ASSUME NEW s \in Outputs, BrokenPipe(s) PROVE FALSE
  BY <1>3 DEF BrokenPipe, OutputInv, ClosedAtEnd
<1>4. CASE ProcessRead
  BY <1>0, <1>1, <1>4, Setting DEF ProcessRead
<1>5. CASE Exit
  BY <1>0, <1>1, <1>5 DEF Exit
<1>6. QED  BY <1>1, <1>2, <1>3, <1>4, <1>5 DEF ProcessStep

\* What moves the input.
LEMMA InputMoves ==
  ASSUME TypeOK, InputInv, WriteToStdin \/ Flush \/ Close PROVE InputInv'
<1> SUFFICES ASSUME error = "none", error' = "none", program.reads
             PROVE  (InputConserved /\ ClosedWhenSent /\ Sends)'
  BY DEF InputInv, WriteToStdin, Flush, Close, Drain, RaiseBrokenPipe, Fill,
         Written, Flushed, Quiet, setting
<1> USE Setting DEF TypeOK, InputInv, InputConserved, ClosedWhenSent, Sends,
            Looping, Running, Quiet, setting, processVars, dataVars, loopVars
<1>1. CASE Drain /\ pc \in {"stdin", "flush", "close"}
  BY <1>1 DEF Drain
<1>2. CASE Fill /\ pc = "stdin"
  BY <1>2 DEF Fill
<1>3. CASE Written /\ pc = "stdin"
  BY <1>3 DEF Written, Attended, Turn
<1>4. CASE Flushed /\ pc = "flush"
  BY <1>4 DEF Flushed
<1>5. CASE Close
  BY <1>5 DEF Close, NobodyReads, Communicate
<1>6. QED
  BY <1>1, <1>2, <1>3, <1>4, <1>5
     DEF WriteToStdin, Flush, Close, RaiseBrokenPipe

LEMMA InputOther ==
  ASSUME TypeOK, OutputInv, InputInv,
         \/ Start \/ Check \/ Select \/ Again \/ Idle \/ Status \/ Terminate
         \/ Reap \/ \E s \in Outputs : Read(s)
  PROVE  InputInv'
<1> USE DEF InputInv, Quiet, setting, processVars
<1>1. ASSUME error' = "none"
      PROVE  /\ error = "none"
             /\ UNCHANGED <<exit, program, call, taken, pending, data>>
             /\ pipe'["stdin"] = pipe["stdin"]
             /\ "stdin" \in open' <=> "stdin" \in open
  <2> USE <1>1 DEF dataVars
  <2>1. CASE Start \/ Check \/ Select \/ Again \/ Idle \/ Status \/ Terminate
    BY <2>1 DEF Start, Check, Select, Again, Idle, Status, Terminate, RaiseLimit
  <2>2. CASE Reap
    BY <2>2 DEF Reap
  <2>3. ASSUME NEW s \in Outputs, Read(s)
        PROVE  /\ error = "none"
               /\ UNCHANGED <<exit, program, call, taken, pending, data>>
               /\ pipe'["stdin"] = pipe["stdin"]
               /\ "stdin" \in open' <=> "stdin" \in open
    BY <2>3 DEF TypeOK, Read, Fetch, Chunk, ClosedByPeer
  <2>4. QED  BY <2>1, <2>2, <2>3
<1> SUFFICES ASSUME error' = "none", error = "none", program.reads
             PROVE  (InputConserved /\ ClosedWhenSent /\ Sends)'
  BY <1>1
<1>2. InputConserved' /\ ClosedWhenSent'
  BY <1>1 DEF InputConserved, ClosedWhenSent, Running
<1>3. Sends'
  <2> USE <1>1 DEF TypeOK, Sends, Looping
  <2>1. CASE Start \/ Select
    BY <2>1 DEF Start, Select, Communicate, Turn, ClosedWhenSent, loopVars
  <2>2. CASE Check
    BY <2>2 DEF Check, IsCommunicating, loopVars
  <2>3. CASE Again \/ Idle \/ Status
    BY <2>3 DEF Again, Idle, Status, RaiseLimit, Leave, loopVars, OutputInv, Attends
  <2>4. CASE Terminate \/ Reap
    BY <2>4 DEF Terminate, Reap, loopVars
  <2>5. ASSUME NEW s \in Outputs, Read(s) PROVE Sends'
    BY <2>5 DEF Read, Fetch, Chunk, ClosedByPeer, Attended, Turn, loopVars
  <2>6. QED  BY <2>1, <2>2, <2>3, <2>4, <2>5
<1>4. QED  BY <1>2, <1>3

LEMMA InputStep == TypeOK /\ OutputInv /\ InputInv /\ [Next]_vars => InputInv'
<1>1. CASE UNCHANGED vars \/ Clock
  BY <1>1 DEF vars, Clock, setting, processVars, dataVars, loopVars, InputInv,
              InputConserved, ClosedWhenSent, Sends, Looping, Running
<1>2. QED
  BY <1>1, InputProcess, InputMoves, InputOther DEF Next, Execute

LEMMA InputImplies == TypeOK /\ OutputInv /\ InputInv => InputComplete
<1> SUFFICES ASSUME TypeOK, OutputInv, InputInv, Completed, program.reads
             PROVE  taken = call.input
  BY DEF InputComplete
<1>1. error = "none"
  BY DEF TypeOK, Completed, Result
<1>2. ~Running
  BY <1>1 DEF OutputInv, Attends, ClosedAtEnd, Completed
<1>3. QED
  BY <1>1, <1>2
     DEF InputInv, InputConserved, ClosedWhenSent, Sends, Completed, TypeOK

\* A process that reads its input and a result is returned for has been given
\* all of it.
THEOREM ResultHasTheInput == Spec => []InputComplete
<1>1. Spec => []OutputInv
  BY OutputInit, OutputStep, TypeCorrect, PTL DEF Spec
<1>2. Spec => []InputInv
  BY <1>1, InputInit, InputStep, TypeCorrect, PTL DEF Spec
<1>3. QED  BY <1>1, <1>2, TypeCorrect, InputImplies, PTL
=============================================================================
