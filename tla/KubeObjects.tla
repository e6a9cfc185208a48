----------------------------- MODULE KubeObjects -----------------------------
(***************************************************************************)
(* The part of a Kubernetes cluster that pkg/reconciler relies on: which   *)
(* requests the API server accepts and what the cluster does with objects  *)
(* on its own.  None of this is code of the repository; it is modelled     *)
(* from how pkg/reconciler uses it through client.Client.                  *)
(*                                                                         *)
(* A cluster is a function from object keys (group kind, namespace, name)  *)
(* to objects.  All operators are pure: they take a cluster and return a   *)
(* value or the next cluster.                                              *)
(***************************************************************************)
EXTENDS Integers

CONSTANTS
    Keys,         \* the keys of all objects of the model (strings)
    Kind,         \* Kind[k]: the class of objects that k belongs to
    NamespaceOf,  \* NamespaceOf[k]: the Namespace object containing k, or NoKey
    TypeOf,       \* TypeOf[k]: the CRD or APIService that serves k, or NoKey
    Contents,     \* what a rendered object may contain (strings)
    Revisions     \* the states of the component's spec (strings)

\* No object: NamespaceOf a cluster-scoped object (or of one in a namespace
\* that is always there), TypeOf an instance of a builtin type.
NoKey == ""

\* The group kinds that the code distinguishes.  "Class" stands for Ingress-,
\* Runtime-, Priority- and StorageClass, "Config" for ConfigMap and Secret,
\* "Role" and "Binding" also for their cluster-wide counterparts.
Kinds == {"Namespace", "CRD", "APIService", "Webhook", "Class", "Role",
          "Binding", "Config", "Service", "Other"}

ASSUME KeysAssumption == NoKey \notin Keys
ASSUME KindAssumption == Kind \in [Keys -> Kinds]
ASSUME NamespaceAssumption ==
    /\ NamespaceOf \in [Keys -> Keys \cup {NoKey}]
    /\ \A k \in Keys : NamespaceOf[k] # NoKey => Kind[NamespaceOf[k]] = "Namespace"
ASSUME TypeAssumption ==
    /\ TypeOf \in [Keys -> Keys \cup {NoKey}]
    /\ \A k \in Keys : TypeOf[k] # NoKey => /\ Kind[TypeOf[k]] \in {"CRD", "APIService"}
                                          /\ Kind[k] # "Namespace"   \* builtin

\* Value of the owner label: ours, that of another component, or none.
Owners == {"me", "other", "none"}

\* Value of the digest annotation: the content of the manifest, and the digest
\* of the component if the reconcile policy asks for it.
Digests == (Contents \cup {"", "__once__"}) \X (Revisions \cup {""})
NoDigest == <<"", "">>
OnceDigest == <<"__once__", "">>

ASSUME DigestsAssumption ==
    Contents \cap {"", "__once__"} = {} /\ "" \notin Revisions

Objects == [exists    : BOOLEAN,
            owner     : Owners,
            digest    : Digests,
            ready     : BOOLEAN,    \* kstatus computes Current
            deleting  : BOOLEAN,    \* has a deletion timestamp
            finalizer : BOOLEAN]    \* carries the reconciler's finalizer

Absent == [exists |-> FALSE, owner |-> "none", digest |-> NoDigest,
           ready |-> FALSE, deleting |-> FALSE, finalizer |-> FALSE]

IsNamespace(k) == Kind[k] = "Namespace"
IsType(k) == Kind[k] \in {"CRD", "APIService"}

Ours(c, k) == c[k].exists /\ c[k].owner = "me"

Inhabitants(c, n) == {k \in Keys : NamespaceOf[k] = n /\ c[k].exists}
Instances(c, t) == {k \in Keys : TypeOf[k] = t /\ c[k].exists}

-----------------------------------------------------------------------------
(* Requests *)

\* A create request for k is served: its namespace is there and not being
\* terminated, its type is established.  A CRD that is being terminated serves no
\* more creations, an APIService does until it is gone.
Admits(c, k) ==
    /\ NamespaceOf[k] # NoKey =>
          c[NamespaceOf[k]].exists /\ ~ c[NamespaceOf[k]].deleting
    /\ TypeOf[k] # NoKey =>
          /\ c[TypeOf[k]].exists /\ c[TypeOf[k]].ready
          /\ Kind[TypeOf[k]] = "CRD" => ~ c[TypeOf[k]].deleting

Put(c, k, owner, digest, finalizer) ==
    [c EXCEPT ![k] = [exists |-> TRUE, owner |-> owner, digest |-> digest,
                      ready |-> FALSE, deleting |-> c[k].deleting,
                      finalizer |-> finalizer]]

\* A delete request (background propagation) sets the deletion timestamp; the
\* object goes away later.
MarkDeleting(c, k) == [c EXCEPT ![k].deleting = TRUE]

DropFinalizer(c, k) == [c EXCEPT ![k].finalizer = FALSE]

-----------------------------------------------------------------------------
(* What the cluster does by itself *)

\* Deleting a namespace deletes its contents, deleting a CRD its instances.
Doomed(c, k) ==
    /\ c[k].exists /\ ~ c[k].deleting
    /\ \/ NamespaceOf[k] # NoKey /\ c[NamespaceOf[k]].deleting
       \/ TypeOf[k] # NoKey /\ Kind[TypeOf[k]] = "CRD" /\ c[TypeOf[k]].deleting

\* A deleting object is removed once nothing holds it back any more.
Collectable(c, k) ==
    /\ c[k].exists /\ c[k].deleting /\ ~ c[k].finalizer
    /\ Kind[k] = "Namespace" => Inhabitants(c, k) = {}
    /\ Kind[k] = "CRD" => Instances(c, k) = {}

\* Without its APIService an instance cannot be reached any more.
Collect(c, k) ==
    [j \in Keys |-> IF j = k \/ (Kind[k] = "APIService" /\ TypeOf[j] = k)
                    THEN Absent ELSE c[j]]
=============================================================================
