------------------------------ MODULE MCServices ------------------------------
(***************************************************************************)
(* A small instance of Services: two components of one namespace, with the *)
(* same service account, and each with a target cluster of its own.  They  *)
(* are interchangeable.                                                    *)
(***************************************************************************)
EXTENDS Services, TLC

CONSTANTS c1, c2

TwoComponents == {c1, c2}
OneNamespace == [c \in TwoComponents |-> "ns"]
OwnTarget == [c \in TwoComponents |-> c]
OpenAccount == [c \in TwoComponents |-> ServiceAccount(NoName, "default")]
TwoActivities == {"Processing", "Suspended"}
Swaps == Permutations(TwoComponents)
=============================================================================
