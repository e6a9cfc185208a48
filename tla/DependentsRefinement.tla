------------------------- MODULE DependentsRefinement -------------------------
(***************************************************************************)
(* Dependents implements OwnershipLedger.                                  *)
(***************************************************************************)
EXTENDS DependentsProperties

OwnedKeys == {k \in Keys : Ours(cluster, k)}
KnownKeys == DOMAIN saved
ExcusedKeys == released \cup resurrected

Ledger == INSTANCE OwnershipLedger
          WITH owned <- OwnedKeys, known <- KnownKeys, excused <- ExcusedKeys

\* Every step of Apply, Delete, their caller and of everybody else is a step of
\* the write-ahead ledger, or none: what Apply and Delete promise their callers.
ImplementsLedger == Ledger!Spec
=============================================================================
