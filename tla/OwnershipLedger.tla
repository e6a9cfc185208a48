--------------------------- MODULE OwnershipLedger ---------------------------
(***************************************************************************)
(* What a caller of pkg/reconciler may rely on, without knowing how Apply  *)
(* and Delete work: the persisted inventory is a write-ahead ledger of the *)
(* objects that carry our owner id.  A key is recorded before its object   *)
(* is acquired, and struck off only after the object is no longer ours, or *)
(* has been excused from being accounted for: orphaned by policy, or one   *)
(* of those that Dependents calls resurrected.                             *)
(***************************************************************************)
CONSTANT Keys

VARIABLES
    owned,    \* keys of the objects that carry our owner id
    known,    \* keys in the persisted inventory
    excused   \* keys that need not be in it

vars == <<owned, known, excused>>

TypeOK == owned \subseteq Keys /\ known \subseteq Keys /\ excused \subseteq Keys

Init == owned = {} /\ known = {} /\ excused = {}

\* Objects are created or taken over; those in E are excused at once.
Acquire(S, E) ==
    /\ S \subseteq known /\ E \subseteq S
    /\ owned' = owned \cup S
    /\ excused' = excused \cup E
    /\ UNCHANGED known

\* Objects are deleted, or taken over by others.
Lose(S) ==
    /\ owned' = owned \ S
    /\ UNCHANGED <<known, excused>>

\* An object is left to itself.
Excuse(k) ==
    /\ k \in known
    /\ excused' = excused \cup {k}
    /\ UNCHANGED <<owned, known>>

\* What was excused, but is still in the inventory, is accounted for again.
Reclaim(S) ==
    /\ S \subseteq excused \cap known
    /\ excused' = excused \ S
    /\ UNCHANGED <<owned, known>>

\* The inventory is saved.  It covers what is owned and not excused.
Record(K, S) ==
    /\ owned \ S \subseteq K
    /\ S \subseteq excused
    /\ known' = K /\ excused' = S
    /\ UNCHANGED owned

Next ==
    \/ \E S, E \in SUBSET Keys : Acquire(S, E)
    \/ \E S \in SUBSET Keys : Lose(S) \/ Reclaim(S)
    \/ \E k \in Keys : Excuse(k)
    \/ \E K, S \in SUBSET Keys : Record(K, S)

Spec == Init /\ [][Next]_vars

\* Nothing owned is forgotten: the ledger's own invariant.
Accounted == owned \subseteq known \cup excused
=============================================================================
