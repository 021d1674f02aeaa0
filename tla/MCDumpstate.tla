----------------------------- MODULE MCDumpstate -----------------------------
(***************************************************************************)
(* Values for the model checking of Dumpstate.                             *)
(***************************************************************************)
EXTENDS Dumpstate

\* A dump with and without a pipe for the modem, and what is refused.
SomeCalls ==
    {[fds |-> 2, fdValid |-> TRUE, mode |-> "DEFAULT"],
     [fds |-> 1, fdValid |-> TRUE, mode |-> "DEFAULT"],
     [fds |-> 0, fdValid |-> TRUE, mode |-> "DEFAULT"],
     [fds |-> 2, fdValid |-> TRUE, mode |-> "WEAR"]}
PlainCalls == {c \in SomeCalls : c.fds = 1}
OnlyRil == {RilLog}
AllOrOne == {-1, 1}
==============================================================================
