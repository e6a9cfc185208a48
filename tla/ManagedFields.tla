---------------------------- MODULE ManagedFields ----------------------------
(***************************************************************************)
(* pkg/reconciler/ssa.go, and its use by an update with server-side apply: *)
(* who manages which fields of an object.  Before the apply request a      *)
(* patch moves the fields of other managers to the reconciler, so that the *)
(* API server removes what is not applied any more.                        *)
(***************************************************************************)
EXTENDS Integers, Sequences, FiniteSetsExt

\* The reconciler as a field manager, and those with the prefix "kubectl".
Us == "us"
Kubectl == {"kubectl", "kubectl-edit"}

\* An entry of an object's managed fields: [manager, operation, subresource, fields].
\* A list of entries is a function from positions, which stay when others are removed;
\* positions are used where the code compares entries, which hold pointers.
Behind(entries) == Max({0} \cup DOMAIN entries) + 1

\* UpdatePolicySsaOverride reclaims what was set with kubectl; any policy reclaims
\* what was set by the reconciler itself with ordinary updates.
Reclaimed(override) == {Us} \cup (IF override THEN Kubectl ELSE {})

AllFields(entries, S) == UNION {entries[i].fields : i \in S}

OwnEntries(entries) ==
    {i \in DOMAIN entries : entries[i].manager = Us /\ entries[i].operation = "Apply"}

\* The last one of our own is the one that others are merged into.
OwnEntry(entries) ==
    IF OwnEntries(entries) = {} THEN 0
    ELSE CHOOSE i \in OwnEntries(entries) : \A j \in OwnEntries(entries) : j =< i

\* Mutant of Moved: entries of subresources are moved as well.
MovedAll(entries, override) ==
    {i \in DOMAIN entries \ {OwnEntry(entries)} :
        entries[i].manager \in Reclaimed(override)}

Moved(entries, override) ==
    {i \in DOMAIN entries \ {OwnEntry(entries)} :
        entries[i].subresource = "" /\ entries[i].manager \in Reclaimed(override)}

\* What remains of the entries, without those that are merged.
Others(entries, override) ==
    DOMAIN entries \ (Moved(entries, override) \cup {OwnEntry(entries)})

\* The entry that all are merged into; without one, the first that is reclaimed.
Merged(entries, override) ==
    LET own == OwnEntry(entries)
        moved == Moved(entries, override)
    IN  [manager |-> Us, operation |-> "Apply",
         subresource |-> IF own = 0 THEN "" ELSE entries[own].subresource,
         fields |-> AllFields(entries, moved \cup ({own} \ {0}))]

\* replaceFieldManager; nothing is patched if nothing is changed.
Prepared(entries, override) ==
    IF Moved(entries, override) = {} THEN entries
    ELSE [i \in Others(entries, override) \cup {Behind(entries)} |->
            IF i = Behind(entries) THEN Merged(entries, override) ELSE entries[i]]

-----------------------------------------------------------------------------
(* The API server *)

\* A forced apply of the desired fields: those with another value than before, the
\* conflicting ones, are taken from the other managers.
ApplyEntries(entries) ==
    {i \in DOMAIN entries :
        entries[i].manager = Us /\ entries[i].operation = "Apply" /\ entries[i].subresource = ""}

AppliedEntries(entries, desired, conflicting) ==
    [i \in (DOMAIN entries \ ApplyEntries(entries)) \cup {Behind(entries)} |->
        IF i = Behind(entries)
        THEN [manager |-> Us, operation |-> "Apply", subresource |-> "", fields |-> desired]
        ELSE [entries[i] EXCEPT !.fields = @ \ (desired \cap conflicting)]]

\* What was applied before, is not desired any more and nobody else's, is removed.
AppliedObject(present, entries, desired) ==
    LET dropped == AllFields(entries, ApplyEntries(entries)) \ desired
        rest == DOMAIN entries \ ApplyEntries(entries)
    IN  (present \cup desired) \ (dropped \ AllFields(entries, rest))

-----------------------------------------------------------------------------
\* The fields of an object that an update leaves.
Updated(present, entries, desired, override) ==
    AppliedObject(present, Prepared(entries, override), desired)

\* The entries as they are read; the reconciler itself applies no subresources.
IsList(entries) ==
    /\ entries \in Seq({entries[i] : i \in DOMAIN entries})
    /\ \A i \in DOMAIN entries :
          /\ entries[i] = [manager |-> entries[i].manager, operation |-> entries[i].operation,
                           subresource |-> entries[i].subresource, fields |-> entries[i].fields]
          /\ i \in OwnEntries(entries) => entries[i].subresource = ""

\* Who is nobody that the reconciler reclaims fields from.
Foreign(entries, override) ==
    {i \in DOMAIN entries :
        entries[i].subresource # "" \/ entries[i].manager \notin Reclaimed(override)}
=============================================================================
