----------------------------- MODULE MCComponent -----------------------------
(***************************************************************************)
(* A small instance of ComponentReconciler for TLC: a reference that may   *)
(* change what is rendered, and one content that never gets ready.         *)
(***************************************************************************)
EXTENDS ComponentProperties

TwoKeys == {"a", "b"}
XY == {"x", "y"}
FromXY == [x |-> {"a"}, y |-> {"b"}]
OnlyY == {"y"}
Gone == {Missing}
=============================================================================
