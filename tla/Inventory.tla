------------------------------ MODULE Inventory ------------------------------
(***************************************************************************)
(* Manifests and inventories: the data pkg/reconciler computes with before *)
(* and between its calls to the API server.  A manifest is what the        *)
(* generator renders for one revision of the component; an inventory is a  *)
(* function from the keys of dependent objects to inventory items.  Items  *)
(* that the code keeps in a list, at most one per key, are kept here in a  *)
(* function; the order the list has is given by DeleteBefore.              *)
(***************************************************************************)
EXTENDS KubeObjects

CONSTANTS
    Manifest,      \* Manifest[r]: rendered keys -> effective spec of the object
    ExtraManaged   \* keys of instances of the AdditionalManagedTypes

minOrder == -32768
maxOrder == 32767
Orders == minOrder .. maxOrder

AdoptionPolicies == {"Never", "IfUnowned", "Always"}
ReconcilePolicies == {"OnObjectChange", "OnObjectOrComponentChange", "Once"}
UpdatePolicies == {"Recreate", "Replace", "SsaMerge", "SsaOverride"}
DeletePolicies == {"Delete", "Orphan", "OrphanOnApply", "OrphanOnDelete"}

\* A rendered object with its policies and orders, annotations and the
\* reconciler's defaults already evaluated.  No purge order is maxOrder + 1.
Specs == [content     : Contents,
          adoption    : AdoptionPolicies,
          reconcile   : ReconcilePolicies,
          update      : UpdatePolicies,
          delete      : DeletePolicies,
          applyOrder  : Orders,
          purgeOrder  : Orders \cup {maxOrder + 1},
          deleteOrder : Orders]

Rendered(r) == DOMAIN Manifest[r]

ASSUME ManifestAssumption ==
    \A r \in Revisions : /\ Rendered(r) \subseteq Keys
                         /\ \A k \in Rendered(r) : Manifest[r][k] \in Specs
ASSUME ExtraManagedAssumption == ExtraManaged \subseteq Keys

\* The empty phase marks an item that is to be dropped from the inventory.
Phases == {"", "ScheduledForApplication", "Creating", "Updating", "Ready",
           "ScheduledForCompletion", "Completing", "Completed",
           "ScheduledForDeletion", "Deleting"}

Items == [digest      : Digests,
          phase       : Phases,
          deletePolicy: DeletePolicies,
          applyOrder  : Orders,
          deleteOrder : Orders,
          applied     : BOOLEAN]   \* applied within the reapply interval

IsInventory(inv) ==
    /\ DOMAIN inv \subseteq Keys
    /\ inv = [k \in DOMAIN inv |-> inv[k]]
    /\ \A k \in DOMAIN inv : inv[k] \in Items

EmptyInventory == [k \in {} |-> NoDigest]

Mark(inv, k, phase, applied) ==
    [inv EXCEPT ![k].phase = phase, ![k].applied = applied]

SetPhase(inv, k, phase) == Mark(inv, k, phase, inv[k].applied)

-----------------------------------------------------------------------------
(* The target inventory of a manifest *)

Digest(r, k) ==
    LET spec == Manifest[r][k]
    IN  CASE spec.reconcile = "Once" -> OnceDigest
          [] spec.reconcile = "OnObjectOrComponentChange" -> <<spec.content, r>>
          [] OTHER -> <<spec.content, "">>

\* The item of a rendered object: scheduled if its digest is not the known one.
Renewed(inv, r, k) ==
    LET spec == Manifest[r][k]
        known == k \in DOMAIN inv /\ inv[k].digest = Digest(r, k)
    IN  [digest       |-> Digest(r, k),
         phase        |-> IF known THEN inv[k].phase ELSE "ScheduledForApplication",
         deletePolicy |-> spec.delete,
         applyOrder   |-> spec.applyOrder,
         deleteOrder  |-> spec.deleteOrder,
         applied      |-> k \in DOMAIN inv /\ inv[k].applied]

\* Mutant of Obsolete: the deletion is not scheduled.
ObsoleteUnscheduled(item) == [item EXCEPT !.digest = NoDigest]

\* The item of an object that is no longer rendered; an item whose digest is
\* empty has been marked before.
Obsolete(item) ==
    IF item.digest = NoDigest THEN item
    ELSE [item EXCEPT !.digest = NoDigest, !.phase = "ScheduledForDeletion"]

\* Mutant of Target: what is not rendered any more is forgotten.
TargetForgetting(inv, r) == [k \in Rendered(r) |-> Renewed(inv, r, k)]

Target(inv, r) ==
    [k \in DOMAIN inv \cup Rendered(r) |->
        IF k \in Rendered(r) THEN Renewed(inv, r, k) ELSE Obsolete(inv[k])]

-----------------------------------------------------------------------------
(* Validations *)

PurgeOrdersValid(r) ==
    \A k \in Rendered(r) :
        IsNamespace(k) \/ IsType(k) => Manifest[r][k].purgeOrder > maxOrder

\* May an existing object of this owner be taken over?
Adoptable(policy, owner) ==
    \/ owner = "me"
    \/ owner = "none" /\ policy \in {"IfUnowned", "Always"}
    \/ owner = "other" /\ policy = "Always"

\* Mutant of OwnersAccepted: IfUnowned is taken for Always.
OwnersAcceptedUnlessNever(inv, r, c) ==
    \A k \in Rendered(r) \ DOMAIN inv :
        c[k].exists /\ Manifest[r][k].adoption = "Never" => c[k].owner = "me"

\* The owner check is made for objects that are new to the inventory.
OwnersAccepted(inv, r, c) ==
    \A k \in Rendered(r) \ DOMAIN inv :
        c[k].exists => Adoptable(Manifest[r][k].adoption, c[k].owner)

\* k needs h: h is its type or its namespace.
Needs(k, h) == h = TypeOf[k] \/ h = NamespaceOf[k]

OrdersValid(inv) ==
    \A k, h \in DOMAIN inv :
        Needs(k, h) =>
            /\ inv[k].applyOrder >= inv[h].applyOrder
            /\ inv[k].deleteOrder =< inv[h].deleteOrder
            /\ inv[h].digest = NoDigest => inv[k].digest = NoDigest

\* Mutant of MissingNamespaces: cluster-scoped objects are overlooked.
MissingNamespacesOfAll(r) == {NamespaceOf[k] : k \in Rendered(r)} \ Rendered(r)

\* Namespaces used by rendered objects but not rendered themselves.
MissingNamespaces(r) ==
    {NamespaceOf[k] : k \in Rendered(r)} \ (Rendered(r) \cup {NoKey})

-----------------------------------------------------------------------------
(* Orders in which objects and items are processed *)

ApplyPriority ==
    [Namespace |-> -4, Webhook |-> -3, CRD |-> -2, Class |-> -2, Role |-> -2,
     Config |-> -1, Binding |-> -1, Service |-> 0, Other |-> 0, APIService |-> 1]

DeletePriority ==
    [CRD |-> -1, APIService |-> -1, Role |-> 0, Binding |-> 0, Other |-> 0,
     Webhook |-> 1, Service |-> 2, Config |-> 2, Namespace |-> 3, Class |-> 4]

Before(order1, priority1, order2, priority2) ==
    \/ order1 < order2
    \/ order1 = order2 /\ priority1 < priority2

ApplyOrder(r, k) == Manifest[r][k].applyOrder

ApplyBefore(r, j, k) ==
    Before(ApplyOrder(r, j), ApplyPriority[Kind[j]],
           ApplyOrder(r, k), ApplyPriority[Kind[k]])

DeleteBefore(inv, j, k) ==
    Before(inv[j].deleteOrder, DeletePriority[Kind[j]],
           inv[k].deleteOrder, DeletePriority[Kind[k]])

-----------------------------------------------------------------------------
(* Roles of a key, given the inventory *)

\* An instance of a type that the inventory or the configuration declares.
Managed(inv, k) == k \in ExtraManaged \/ TypeOf[k] \in DOMAIN inv

IsLate(k) == Kind[k] = "APIService"
IsRegular(inv, k) == ~ IsLate(k) /\ ~ Managed(inv, k)

\* Mutant of UsedNamespace: what is being deleted does not count.
UsedNamespaceUndeleted(inv, k) ==
    IsNamespace(k) /\ \E j \in DOMAIN inv :
                        NamespaceOf[j] = k /\ inv[j].phase # "Deleting"

UsedNamespace(inv, k) ==
    IsNamespace(k) /\ \E j \in DOMAIN inv : NamespaceOf[j] = k

\* Mutant of OutOfSync: only the reapply interval counts.
OutOfSyncByAge(item, object) ==
    /\ ~ object.deleting
    /\ object.digest # OnceDigest \/ item.digest # OnceDigest
    /\ ~ item.applied

\* Does the object in the cluster have to be updated?
OutOfSync(item, object) ==
    /\ ~ object.deleting
    /\ object.digest # OnceDigest \/ item.digest # OnceDigest
    /\ object.digest # item.digest \/ ~ item.applied

\* Orphaning policies are honoured when an item becomes redundant ("apply")
\* or when the whole component is deleted ("delete").
OrphansBy(op, policy) ==
    \/ policy = "Orphan"
    \/ op = "apply" /\ policy = "OrphanOnApply"
    \/ op = "delete" /\ policy = "OrphanOnDelete"

\* Deletion is refused while foreign instances of our types exist, or cannot be
\* looked for, except that types in the inventory do not count if nothing is going
\* to be deleted.
DeletionAllowed(inv, c) ==
    /\ \A k \in ExtraManaged : c[k].exists => c[k].owner = "me"
    /\ \/ \A k \in DOMAIN inv : OrphansBy("delete", inv[k].deletePolicy)
       \/ \A t \in DOMAIN inv :
             IsType(t) /\ c[t].exists =>
                 c[t].ready /\ \A k \in Instances(c, t) : c[k].owner = "me"
=============================================================================
