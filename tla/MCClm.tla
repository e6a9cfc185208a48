-------------------------------- MODULE MCClm --------------------------------
(***************************************************************************)
(* Small instances of Clm for TLC.                                         *)
(***************************************************************************)
EXTENDS Clm

TwoKeys == {"a", "b"}
Commands == {"p", "q", "d", "s", "t"}
OneDeletes == {"d"}
Manifests == [p |-> {"a"}, q |-> {"b"}, d |-> {}, s |-> {"a", "b"}, t |-> {}]

\* Two sets of commands, of which one is run: two that undo each other's work, and
\* one that deletes; or one that applies all, one that removes all, and a third.
Sets3 == {{"p", "q", "d"}, {"q", "s", "t"}}

MCInit ==
    /\ Pristine
    /\ \E run \in Sets3 : pc = [p \in Processes |-> IF p \in run THEN "start" ELSE "done"]
MCSpec == MCInit /\ [][Next]_vars /\ \A p \in Processes : WF_vars(Step(p))
=============================================================================
