--------------------------- MODULE MCShellProcess ---------------------------
EXTENDS ShellProcess

MCOutput == [{"stdout", "stderr"} -> {0, 1, 5}]

\* Of a command that hangs its end does not matter.
MCPrograms ==
  {p \in [output : MCOutput, reads : BOOLEAN, hangs : BOOLEAN,
          lingers : BOOLEAN, root : BOOLEAN, status : {"zero", "nonzero"}] :
     p.hangs => ~p.lingers /\ p.status = "zero"}

MCCalls == [input : {0, 1, 6}, timed : BOOLEAN]

\* Without input nothing but a read can block, and a command that hangs is still
\* being executed when its timeout expires.
MCHanging == {p \in MCPrograms : p.hangs}

MCWithoutInput == [input : {0}, timed : BOOLEAN]
=============================================================================
