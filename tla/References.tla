------------------------------ MODULE References ------------------------------
(***************************************************************************)
(* pkg/component/reference.go and internal/walk: what a component refers   *)
(* to is loaded at the beginning of every call of Reconcile, reference by  *)
(* reference, each with a request of its own, and goes into the digest of  *)
(* the component.  Config maps and secrets are treated alike.              *)
(***************************************************************************)
EXTENDS Sequences, SequencesExt

\* A reference to a whole object, or to one of its keys: a given one, or the first
\* fallback key that is there.
NoKey == "nokey"
References(Keys, Fallbacks) ==
    [whole : BOOLEAN, key : Keys \cup {NoKey}, fallbackKeys : Fallbacks,
     ignoreOnDeletion : BOOLEAN]

\* What a request for the object finds: nothing, an error, or its data.
Findings == {"nothing", "error", "object"}
NotFound == [found |-> "nothing", data |-> <<>>]
Unavailable == [found |-> "error", data |-> <<>>]
Object(data) == [found |-> "object", data |-> data]

-----------------------------------------------------------------------------
\* A reference after an attempt to load it.
Loaded(value) == [state |-> "loaded", value |-> value]
Unloaded == [state |-> "unloaded", value |-> <<>>]
Retriable == [state |-> "retriable", value |-> <<>>]
Failed == [state |-> "failed", value |-> <<>>]

KeysTried(ref) == IF ref.key # NoKey THEN <<ref.key>> ELSE ref.fallbackKeys

\* The positions of the keys that are there; the first one counts.
Hits(ref, object) == {n \in DOMAIN KeysTried(ref) : KeysTried(ref)[n] \in DOMAIN object.data}

\* A missing object may be ignored, a missing key never is.
Load(ref, object, ignoreNotFound) ==
    CASE object.found = "nothing" -> IF ignoreNotFound THEN Unloaded ELSE Retriable
      [] object.found = "error" -> Failed
      [] object.found = "object" /\ ref.whole -> Loaded(object.data)
      [] object.found = "object" /\ ~ ref.whole ->
            IF Hits(ref, object) = {} THEN Retriable
            ELSE Loaded(object.data[KeysTried(ref)[Min(Hits(ref, object))]])

\* Mutant of IgnoresNotFound: a missing object is ignored in any case.
IgnoresAlways(ref, deleting) == ref.ignoreOnDeletion

IgnoresNotFound(ref, deleting) == deleting /\ ref.ignoreOnDeletion

\* The digest of a reference, taken as injective; nothing if it is not loaded.
Digest(l) == IF l.state = "loaded" THEN <<l.value>> ELSE <<>>

\* What generators and hooks get from a reference; access to one that is not loaded
\* is a panic.
Panic == <<>>
Value(l) == IF l.state = "loaded" THEN <<l.value>> ELSE Panic

\* All references are tried, also after an error.  objects[i] is what is found for the
\* i-th reference.
Walk(refs, objects, deleting) ==
    [i \in DOMAIN refs |-> Load(refs[i], objects[i], IgnoresNotFound(refs[i], deleting))]

\* A retriable error among others makes all of them retriable.
ResolveReferences(refs, objects, deleting) ==
    LET loads == Walk(refs, objects, deleting)
        states == {loads[i].state : i \in DOMAIN refs}
    IN  [error |-> CASE "retriable" \in states -> "retriable"
                     [] "retriable" \notin states /\ "failed" \in states -> "failed"
                     [] OTHER -> "none",
         digest |-> [i \in DOMAIN refs |-> Digest(loads[i])],
         values |-> [i \in DOMAIN refs |-> Value(loads[i])]]
=============================================================================
