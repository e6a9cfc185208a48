------------------------------ MODULE Dependents ------------------------------
(***************************************************************************)
(* The reconciler of dependent objects (pkg/reconciler): Apply and Delete, *)
(* at the granularity of their calls to the API server, for one component  *)
(* whose inventory is loaded before and saved after every call.            *)
(*                                                                         *)
(* The reconciler is a single thread.  Around it the cluster goes on: other*)
(* actors create, take over, change and delete objects, the component is   *)
(* edited or deleted, the process crashes, requests fail or their replies  *)
(* get lost, and the status update that saves the inventory is rejected if *)
(* the component was changed in the meantime.                              *)
(***************************************************************************)
EXTENDS Inventory

CONSTANTS
    CreateMissingNamespaces, \* MissingNamespacesPolicy is Create
    Preexisting,             \* keys of objects that may be there before we are
    Disturbances,            \* which kinds of disturbance may happen ...
    MaxDisturbances,         \* ... how many of them altogether (a bound),
    MaxEdits                 \* and of changes of the component (a bound)

DisturbanceKinds ==
    {"crash", "fail", "lose", "create", "takeover", "delete", "flicker", "expire"}

ASSUME PolicyAssumption == CreateMissingNamespaces \in BOOLEAN
ASSUME PreexistingAssumption == Preexisting \subseteq Keys
ASSUME DisturbancesAssumption == Disturbances \subseteq DisturbanceKinds
ASSUME BoundsAssumption == MaxDisturbances \in Nat /\ MaxEdits \in Nat

VARIABLES
    cluster,    \* the objects
    component,  \* the component: "live", "deleting" or "gone"
    manifest,   \* the revision its spec is in
    stale,      \* it was changed since the running call loaded it
    saved,      \* its status: the inventory as persisted
    \* the running call of Apply or Delete
    op,         \* "apply" or "delete"
    rev,        \* the revision it was called with
    mem,        \* its inventory in memory
    pc,         \* the stage it is in
    todo,       \* the keys it has not yet handled in this stage
    wave,       \* the order being processed, NoWave between waves
    blockers,   \* what was pending when the wave began
    waiting,    \* something handled so far is not yet finished
    cur,        \* the key being handled, NoKey if none
    seen,       \* the object as read
    fresh,      \* the object has not changed since (its resource version)
    step,       \* next for cur: "act", "finalize" or "release"; "read" if none
    result,     \* what the call has returned: "done", "again" or "error"
    \* history: keys of owned objects the reconciler need not account for
    released,   \* orphaned by policy
    resurrected,\* acquired while saved has the key as about to be dropped
    \* history: what excuses an object from being as the running call has left it
    revived,    \* acquired while saved has the key as completed
    unguarded,  \* types of ours that have lost the finalizer by being orphaned
    latecomers, \* instances created since the reconciler has looked for them
    spoiled,    \* was in sync, and was changed by others during the call
    \* bookkeeping of the bounds
    disturbed, edits

NoWave == maxOrder + 1

componentVars == <<component, manifest, stale>>
cursorVars == <<cur, seen, fresh, step>>
waveVars == <<todo, wave, blockers, waiting>>
callVars == <<op, rev, spoiled>>
historyVars == <<released, resurrected, revived, unguarded, latecomers>>
boundVars == <<disturbed, edits>>
vars == <<cluster, componentVars, saved, callVars, mem, pc, waveVars, cursorVars,
          result, historyVars, boundVars>>

StateTypeOK ==
    /\ cluster \in [Keys -> Objects]
    /\ component \in {"live", "deleting", "gone"}
    /\ manifest \in Revisions /\ rev \in Revisions
    /\ stale \in BOOLEAN
    /\ IsInventory(saved) /\ IsInventory(mem)
    /\ op \in {"apply", "delete"}
    /\ pc \in {"idle", "namespaces", "complete", "apply", "delete", "save"}
    /\ todo \subseteq Keys
    /\ wave \in Orders \cup {NoWave}
    /\ blockers \subseteq {"regular", "late", "managed"}
    /\ waiting \in BOOLEAN
    /\ cur \in Keys \cup {NoKey}
    /\ seen \in Objects
    /\ fresh \in BOOLEAN
    /\ step \in {"read", "act", "finalize", "release"}
    /\ result \in {"done", "again", "error"}
    /\ released \subseteq Keys /\ resurrected \subseteq Keys
    /\ disturbed \in 0 .. MaxDisturbances /\ edits \in 0 .. MaxEdits

TypeOK ==
    /\ StateTypeOK
    /\ revived \subseteq Keys /\ spoiled \subseteq Keys
    /\ unguarded \subseteq Keys /\ latecomers \subseteq Keys

Unowned == {Absent} \cup
    {[Absent EXCEPT !.exists = TRUE, !.owner = o] : o \in {"none", "other"}}

\* Foreign objects may exist before the component does.
Init ==
    /\ cluster \in [Keys -> Unowned]
    /\ \A k \in Keys \ Preexisting : cluster[k] = Absent
    /\ component = "live" /\ manifest \in Revisions /\ stale = FALSE
    /\ saved = EmptyInventory /\ mem = EmptyInventory
    /\ op = "apply" /\ rev = manifest /\ pc = "idle"
    /\ todo = {} /\ wave = NoWave /\ blockers = {} /\ waiting = FALSE
    /\ cur = NoKey /\ seen = Absent /\ fresh = TRUE /\ step = "read"
    /\ result = "again"
    /\ released = {} /\ resurrected = {} /\ revived = {} /\ unguarded = {}
    /\ latecomers = {} /\ spoiled = {}
    /\ disturbed = 0 /\ edits = 0

Disturb(kind) ==
    /\ kind \in Disturbances
    /\ disturbed < MaxDisturbances
    /\ disturbed' = disturbed + 1
    /\ UNCHANGED edits

-----------------------------------------------------------------------------
(* Steps that all stages share *)

\* The call returns; what was local to it is gone, what it did to the
\* inventory in memory stays, also if it returns an error.
Return(r) ==
    /\ pc' = "save" /\ result' = r
    /\ todo' = {} /\ wave' = NoWave /\ blockers' = {} /\ waiting' = FALSE
    /\ cur' = NoKey /\ seen' = Absent /\ fresh' = TRUE /\ step' = "read"

Fail == Return("error") /\ UNCHANGED mem

\* Object k has been handled, leaving the inventory inv; w: it is not finished.
Handled(k, inv, w) ==
    /\ mem' = inv
    /\ todo' = todo \ {k}
    /\ waiting' = (waiting \/ w)
    /\ cur' = NoKey /\ seen' = Absent /\ fresh' = TRUE /\ step' = "read"
    /\ UNCHANGED <<pc, wave, blockers, result>>

Enter(stage, keys) ==
    /\ pc' = stage /\ todo' = keys
    /\ wave' = NoWave /\ blockers' = {} /\ waiting' = FALSE
    /\ UNCHANGED <<mem, cursorVars, result>>

\* The reconciler does not look for instances of t any more, before it is gone.
LookedFor(t) ==
    /\ Kind[t] = "APIService" /\ cluster[t].deleting
    /\ ~ cluster[t].finalizer \/ (step = "release" /\ cur = t)

\* The cluster becomes c.
Latecomers(c) ==
    {k \in Keys : /\ c[k].exists
                  /\ \/ k \in latecomers
                     \/ /\ ~ cluster[k].exists
                        /\ \E t \in Keys : TypeOf[k] = t /\ LookedFor(t)}

\* The API server carries out a write of the reconciler.
Write(c) ==
    /\ cluster' = c
    /\ resurrected' = resurrected \cup
          {k \in DOMAIN saved : /\ Ours(c, k) /\ ~ Ours(cluster, k)
                                /\ saved[k].phase = ""}
    /\ revived' = revived \cup
          {k \in DOMAIN saved : /\ Ours(c, k) /\ ~ Ours(cluster, k)
                                /\ saved[k].phase = "Completed"}
    /\ unguarded' = {t \in Keys : /\ IsType(t) /\ Ours(c, t) /\ ~ c[t].finalizer
                                  /\ \/ t \in unguarded
                                     \/ /\ pc = "delete" /\ step = "act"
                                        /\ cluster[t].finalizer}
    /\ latecomers' = Latecomers(c)

\* A write and its outcomes: it succeeds, its reply gets lost, it never
\* happens.  The last two are errors for the reconciler.
Request(c, Success) ==
    \/ Write(c) /\ Success /\ UNCHANGED boundVars
    \/ Write(c) /\ Disturb("lose") /\ Fail
    \/ /\ UNCHANGED <<cluster, resurrected, revived, unguarded, latecomers>>
       /\ Disturb("fail") /\ Fail

\* A step that writes nothing.
Locally(Step) ==
    Step /\ UNCHANGED <<cluster, resurrected, revived, unguarded, latecomers, boundVars>>

\* The request is refused (conflict, not found, forbidden), or not even made.
Refused == Locally(Fail)

\* The frame of every step of a running call.
InCall(stage) ==
    /\ pc = stage
    /\ UNCHANGED <<componentVars, saved, callVars>>

\* The object of the key to be handled next has been read.
HaveRead(stage) ==
    /\ InCall(stage)
    /\ step = "act"
    /\ UNCHANGED released

\* What comes next in the current stage or wave; the order among equals is open.
Upcoming ==
    CASE pc = "complete" ->
            {k \in todo : \A j \in todo : ~ DeleteBefore(mem, j, k)}
      [] pc = "apply" ->
            {k \in todo : /\ ApplyOrder(rev, k) = wave
                          /\ \A j \in todo : ~ ApplyBefore(rev, j, k)}
      [] pc = "delete" ->
            {k \in todo : /\ mem[k].deleteOrder = wave
                          /\ \A j \in todo : ~ DeleteBefore(mem, j, k)}
      [] OTHER -> {}

\* Mutant of HeldBack: instances do not wait for APIServices.
HeldBackByRegular(k) ==
    /\ ~ IsRegular(mem, k)
    /\ "regular" \in blockers

\* Instances wait for what their types may need to work, such as webhooks.
HeldBack(k) ==
    /\ ~ IsRegular(mem, k)
    /\ ~ (IsLate(k) /\ "regular" \notin blockers)
    /\ ~ (Managed(mem, k) /\ blockers = {})

\* In the apply stage some objects are not even looked at.
Skipped(k) ==
    pc = "apply" /\ (mem[k].phase = "Completed" \/ HeldBack(k))

ReadObject(k) ==
    /\ InCall(pc)
    /\ cur = NoKey /\ k \in Upcoming /\ ~ Skipped(k)
    /\ \/ /\ cur' = k /\ seen' = cluster[k] /\ fresh' = TRUE /\ step' = "act"
          /\ UNCHANGED <<mem, pc, waveVars, result, boundVars>>
       \/ Disturb("fail") /\ Fail
    /\ UNCHANGED <<cluster, historyVars>>

\* The phase of an item after a successful deleteObject.
PhaseAfterDelete ==
    [complete |-> "Completing", apply |-> "Updating", delete |-> "Deleting"]

\* Mutant of Deleted: the object is not waited for.
DeletedUnawaited ==
    Handled(cur,
            Mark(mem, cur, PhaseAfterDelete[pc], mem[cur].applied \/ pc = "apply"),
            FALSE)

Deleted ==
    Handled(cur,
            Mark(mem, cur, PhaseAfterDelete[pc], mem[cur].applied \/ pc = "apply"),
            TRUE)

\* deleteObject, first part: the delete request.  If there is an object it has to
\* be ours, and the one that was read; if there was none, that is not checked.
SeenAsOurs == seen.exists => seen.owner = "me"

\* Mutant of PreconditionHolds: no precondition.
NoPrecondition == TRUE

PreconditionHolds == seen.exists => fresh

RequestDeletion ==
    \/ /\ ~ SeenAsOurs
       /\ Refused
    \/ /\ SeenAsOurs
       /\ cluster[cur].exists /\ ~ PreconditionHolds
       /\ Refused
    \/ /\ SeenAsOurs
       /\ ~ cluster[cur].exists
       /\ Request(cluster, Deleted)
    \/ /\ SeenAsOurs
       /\ cluster[cur].exists /\ PreconditionHolds
       /\ Request(MarkDeleting(cluster, cur),
                  IF IsType(cur)
                  THEN /\ step' = "finalize"
                       /\ UNCHANGED <<mem, pc, waveVars, cur, seen, fresh, result>>
                  ELSE Deleted)

\* The API server serves t, and there are no instances.
Unused(t) == cluster[t].ready /\ Instances(cluster, t) = {}

\* As long as the finalizer is there, instances are noticed by looking for them.
NotNoticed == latecomers \ {k \in Keys : TypeOf[k] = cur /\ cluster[cur].finalizer}

BeginRelease ==
    /\ step' = "release" /\ seen' = cluster[cur] /\ fresh' = TRUE
    /\ UNCHANGED <<mem, pc, waveVars, cur, result>>

\* Mutant of FinalizeType: nobody looks for instances.
FinalizeTypeBlindly ==
    /\ InCall(pc)
    /\ step = "finalize"
    /\ IF cluster[cur].exists /\ cluster[cur].finalizer THEN BeginRelease ELSE Deleted
    /\ latecomers' = NotNoticed
    /\ UNCHANGED <<cluster, released, resurrected, revived, unguarded, boundVars>>

\* deleteObject, second part, for types: the type is read again, and its instances
\* are looked for, which fails if it does not serve them.
FinalizeType ==
    /\ InCall(pc)
    /\ step = "finalize"
    /\ \/ /\ ~ cluster[cur].exists
          /\ Deleted
       \/ /\ cluster[cur].exists /\ ~ Unused(cur)
          /\ Fail
       \/ /\ cluster[cur].exists /\ Unused(cur)
          /\ IF cluster[cur].finalizer THEN BeginRelease ELSE Deleted
    /\ latecomers' = NotNoticed
    /\ UNCHANGED <<cluster, released, resurrected, revived, unguarded, boundVars>>

\* deleteObject, third part: our finalizer is removed from the type as it was read,
\* whatever has been created meanwhile.  After a conflict all this is repeated; the
\* third conflict is an error.
ReleaseType ==
    /\ InCall(pc)
    /\ step = "release"
    /\ \/ /\ fresh
          /\ Request(DropFinalizer(cluster, cur), Deleted)
       \/ /\ ~ fresh
          /\ Refused
       \/ /\ ~ fresh /\ cluster[cur].exists
          /\ Locally(/\ step' = "finalize"
                     /\ UNCHANGED <<mem, pc, waveVars, cur, seen, fresh, result>>)
    /\ UNCHANGED released

-----------------------------------------------------------------------------
(* Apply: the inventory *)

\* The caller loads the component.  What was orphaned and is still in the
\* inventory (because that was not saved) is accounted for again.
Load(operation) ==
    /\ pc = "idle"
    /\ op' = operation /\ rev' = manifest /\ stale' = FALSE
    /\ released' = {k \in released : k \in DOMAIN saved => saved[k].phase = ""}
    /\ UNCHANGED <<cluster, component, manifest, saved, cursorVars, resurrected,
                   revived, unguarded, latecomers, spoiled, boundVars>>

Planned == Target(saved, manifest)

Accepted ==
    /\ PurgeOrdersValid(manifest)
    /\ OwnersAccepted(saved, manifest, cluster)
    /\ OrdersValid(Planned)

\* Mutant of Known: Apply goes on without having saved.
KnownAnyway == TRUE

Known == Rendered(manifest) \subseteq DOMAIN saved

\* A validation fails: the inventory stays as it was.
PlanRejected ==
    /\ component = "live" /\ ~ Accepted
    /\ Load("apply")
    /\ mem' = saved /\ pc' = "save" /\ result' = "error"
    /\ UNCHANGED waveVars

\* Objects are new to the inventory: it has to be saved before anything is done.
PlanExtended ==
    /\ component = "live" /\ Accepted /\ ~ Known
    /\ Load("apply")
    /\ mem' = Planned /\ pc' = "save" /\ result' = "again"
    /\ UNCHANGED waveVars

PlanAccepted ==
    /\ component = "live" /\ Accepted /\ Known
    /\ Load("apply")
    /\ mem' = Planned /\ pc' = "namespaces"
    /\ todo' = IF CreateMissingNamespaces THEN MissingNamespaces(manifest) ELSE {}
    /\ UNCHANGED <<wave, blockers, waiting, result>>

-----------------------------------------------------------------------------
(* Apply: missing namespaces and due completions *)

\* Namespaces are created without an owner and never enter the inventory.
CreateMissingNamespace(n) ==
    /\ InCall("namespaces")
    /\ n \in todo
    /\ Request(IF cluster[n].exists THEN cluster
               ELSE Put(cluster, n, "none", NoDigest, FALSE),
               Handled(n, mem, FALSE))
    /\ UNCHANGED released

NamespacesDone ==
    /\ InCall("namespaces")
    /\ todo = {}
    /\ Locally(Enter("complete",
                     {k \in DOMAIN mem :
                        mem[k].phase \in {"ScheduledForCompletion", "Completing"}}))
    /\ UNCHANGED released

CompleteObject ==
    /\ HaveRead("complete")
    /\ mem[cur].phase = "ScheduledForCompletion"
    /\ RequestDeletion

CheckCompletion ==
    /\ HaveRead("complete")
    /\ mem[cur].phase = "Completing"
    /\ Locally(IF seen.exists THEN Handled(cur, mem, TRUE)
               ELSE Handled(cur, SetPhase(mem, cur, "Completed"), FALSE))

CompletionsDone ==
    /\ InCall("complete")
    /\ cur = NoKey /\ todo = {}
    /\ Locally(IF waiting THEN Return("again") /\ UNCHANGED mem
               ELSE Enter("apply", Rendered(rev)))
    /\ UNCHANGED released

-----------------------------------------------------------------------------
(* Apply: the waves of creations and updates *)

PendingIn(o) ==
    LET pending == {k \in Rendered(rev) :
                      /\ ApplyOrder(rev, k) = o
                      /\ mem[k].phase \notin {"Ready", "Completed"}}
    IN  {c \in {"regular", "late"} :
            \E k \in pending : IF c = "late" THEN IsLate(k) ELSE IsRegular(mem, k)}

BeginApplyWave ==
    /\ InCall("apply")
    /\ wave = NoWave
    /\ \E k \in todo :
          /\ \A j \in todo : ApplyOrder(rev, k) =< ApplyOrder(rev, j)
          /\ wave' = ApplyOrder(rev, k)
          /\ blockers' = PendingIn(ApplyOrder(rev, k))
    /\ Locally(UNCHANGED <<mem, pc, todo, waiting, cursorVars, result>>)
    /\ UNCHANGED released

SkipObject(k) ==
    /\ InCall("apply")
    /\ cur = NoKey /\ k \in Upcoming /\ Skipped(k)
    /\ Locally(Handled(k, mem, mem[k].phase # "Completed"))
    /\ UNCHANGED released

Applied(phase) == Mark(mem, cur, phase, TRUE)

CreateObject ==
    /\ HaveRead("apply")
    /\ ~ seen.exists
    /\ IF ~ cluster[cur].exists /\ Admits(cluster, cur)
       THEN Request(Put(cluster, cur, "me", mem[cur].digest, IsType(cur)),
                    Handled(cur, Applied("Creating"), TRUE))
       ELSE Refused

\* No owner check is made here, only that the object is still the one read.
UpdateObject ==
    /\ HaveRead("apply")
    /\ seen.exists /\ OutOfSync(mem[cur], seen)
    /\ Manifest[rev][cur].update # "Recreate"
    /\ IF fresh
       THEN Request(Put(cluster, cur, "me", mem[cur].digest,
                        seen.finalizer \/ IsType(cur)),
                    Handled(cur, Applied("Updating"), TRUE))
       ELSE Refused

RecreateObject ==
    /\ HaveRead("apply")
    /\ seen.exists /\ OutOfSync(mem[cur], seen)
    /\ Manifest[rev][cur].update = "Recreate"
    /\ RequestDeletion

\* Mutant of ObserveObject: nobody looks whether it is ready.
ObserveObjectHastily ==
    /\ HaveRead("apply")
    /\ seen.exists /\ ~ OutOfSync(mem[cur], seen)
    /\ Locally(Handled(cur, SetPhase(mem, cur, "Ready"), FALSE))

\* Nothing to be done but to see whether the object is ready.
ObserveObject ==
    /\ HaveRead("apply")
    /\ seen.exists /\ ~ OutOfSync(mem[cur], seen)
    /\ Locally(IF seen.ready /\ ~ seen.deleting
               THEN Handled(cur, SetPhase(mem, cur, "Ready"), FALSE)
               ELSE Handled(cur, mem, TRUE))

\* Mutant of Purgeable: only the objects of this wave are considered.
PurgeableOfWave ==
    {k \in Rendered(rev) :
        /\ ApplyOrder(rev, k) = wave
        /\ mem[k].phase # "Completed"
        /\ Manifest[rev][k].purgeOrder =< wave}

\* Objects to be purged at the end of this wave.
Purgeable ==
    {k \in Rendered(rev) :
        /\ ApplyOrder(rev, k) =< wave
        /\ mem[k].phase # "Completed"
        /\ \/ Manifest[rev][k].purgeOrder =< wave
           \/ todo = {} /\ Manifest[rev][k].purgeOrder =< maxOrder}

EndApplyWave ==
    /\ InCall("apply")
    /\ wave # NoWave /\ cur = NoKey
    /\ \A k \in todo : ApplyOrder(rev, k) # wave
    /\ \/ /\ waiting
          /\ Return("again") /\ UNCHANGED mem
       \/ /\ ~ waiting /\ Purgeable # {}
          /\ mem' = [k \in DOMAIN mem |->
                        IF k \in Purgeable
                        THEN [mem[k] EXCEPT !.phase = "ScheduledForCompletion"]
                        ELSE mem[k]]
          /\ Return("again")
       \/ /\ ~ waiting /\ Purgeable = {}
          /\ Enter("apply", todo)
    /\ UNCHANGED <<cluster, historyVars, boundVars>>

ApplyDone ==
    /\ InCall("apply")
    /\ wave = NoWave /\ todo = {}
    /\ Locally(Enter("delete",
                     {k \in DOMAIN mem :
                        mem[k].phase \in {"ScheduledForDeletion", "Deleting"}}))
    /\ UNCHANGED released

-----------------------------------------------------------------------------
(* The waves of deletions: redundant objects in Apply, all objects in Delete *)

StartDelete ==
    /\ component = "deleting" /\ DeletionAllowed(saved, cluster)
    /\ Load("delete")
    /\ mem' = saved /\ pc' = "delete" /\ todo' = DOMAIN saved
    /\ UNCHANGED <<wave, blockers, waiting, result>>

\* Instances of our types whose deletion the rest of the wave waits for.
ManagedIn(o) ==
    {k \in DOMAIN mem :
        /\ mem[k].deleteOrder = o /\ Managed(mem, k)
        /\ op = "apply" => mem[k].phase \in {"ScheduledForDeletion", "Deleting"}}

BeginDeleteWave ==
    /\ InCall("delete")
    /\ wave = NoWave
    /\ \E k \in todo :
          /\ \A j \in todo : mem[k].deleteOrder =< mem[j].deleteOrder
          /\ wave' = mem[k].deleteOrder
          /\ blockers' = IF ManagedIn(mem[k].deleteOrder) = {} THEN {} ELSE {"managed"}
    /\ Locally(UNCHANGED <<mem, pc, todo, waiting, cursorVars, result>>)
    /\ UNCHANGED released

\* Deletion was requested before.  An object that is not being deleted although
\* it is ours is an error; one that is not ours was recreated by someone else.
CheckDeletion ==
    /\ HaveRead("delete")
    /\ mem[cur].phase = "Deleting"
    /\ \/ /\ ~ seen.exists
          /\ Locally(Handled(cur, SetPhase(mem, cur, ""), FALSE))
       \/ /\ seen.exists /\ seen.deleting
          /\ Locally(Handled(cur, mem, TRUE))
       \/ /\ seen.exists /\ ~ seen.deleting /\ seen.owner # "me"
          /\ Locally(Handled(cur, SetPhase(mem, cur, ""), FALSE))
       \/ /\ seen.exists /\ ~ seen.deleting /\ seen.owner = "me"
          /\ Refused

\* Mutant of Postponed: types do not wait for instances.
PostponedNamespace(k) == UsedNamespace(mem, k)

\* Namespaces go after their contents, everything else after the instances.
Postponed(k) ==
    \/ UsedNamespace(mem, k)
    \/ blockers # {} /\ ~ Managed(mem, k)

ToBeDeleted == HaveRead("delete") /\ mem[cur].phase # "Deleting"

PostponeObject ==
    /\ ToBeDeleted
    /\ Postponed(cur)
    /\ Locally(Handled(cur, mem, TRUE))

OrphanedByPolicy == OrphansBy(op, mem[cur].deletePolicy)
Foreign == seen.exists /\ seen.owner # "me"

\* The object stays in the cluster, as it is, except that a type of ours loses
\* our finalizer.
OrphanObject ==
    /\ InCall("delete")
    /\ step = "act" /\ mem[cur].phase # "Deleting"
    /\ ~ Postponed(cur)
    /\ OrphanedByPolicy \/ Foreign
    /\ IF seen.exists /\ ~ Foreign /\ IsType(cur) /\ seen.finalizer
       THEN IF fresh
            THEN Request(DropFinalizer(cluster, cur),
                         Handled(cur, SetPhase(mem, cur, ""), FALSE))
            ELSE Refused
       ELSE Locally(Handled(cur, SetPhase(mem, cur, ""), FALSE))
    /\ released' = IF OrphanedByPolicy THEN released \cup {cur} ELSE released

DeleteObject ==
    /\ ToBeDeleted
    /\ ~ Postponed(cur)
    /\ ~ OrphanedByPolicy /\ ~ Foreign
    /\ RequestDeletion

\* Mutants of Remaining: items leave too early, or never.
RemainingUndeleted ==
    [k \in {j \in DOMAIN mem : mem[j].phase \notin {"", "Deleting"}} |-> mem[k]]
RemainingAll == mem

\* Items without a phase leave the inventory.
Remaining == [k \in {j \in DOMAIN mem : mem[j].phase # ""} |-> mem[k]]

EndDeleteWave ==
    /\ InCall("delete")
    /\ wave # NoWave /\ cur = NoKey
    /\ \A k \in todo : mem[k].deleteOrder # wave
    /\ IF waiting
       THEN mem' = Remaining /\ Return("again")
       ELSE Enter("delete", todo)
    /\ UNCHANGED <<cluster, historyVars, boundVars>>

DeleteDone ==
    /\ InCall("delete")
    /\ wave = NoWave /\ todo = {}
    /\ mem' = Remaining
    /\ Return(IF op = "apply" \/ DOMAIN Remaining = {} THEN "done" ELSE "again")
    /\ UNCHANGED <<cluster, historyVars, boundVars>>

-----------------------------------------------------------------------------
(* The caller saves the inventory with the component's status *)

BackToIdle ==
    /\ pc' = "idle" /\ result' = "again" /\ stale' = FALSE
    /\ spoiled' = {}
    /\ UNCHANGED <<cluster, manifest, op, rev, waveVars, cursorVars, released>>

NothingLeft == op = "delete" /\ result = "done"

Save ==
    /\ pc = "save" /\ ~ stale /\ ~ NothingLeft
    /\ BackToIdle
    /\ saved' = mem
    /\ resurrected' = {k \in resurrected :
                          /\ Ours(cluster, k)
                          /\ k \in DOMAIN mem => mem[k].phase = ""}
    /\ revived' = {k \in revived :
                      /\ Ours(cluster, k)
                      /\ k \in DOMAIN mem /\ mem[k].phase = "Completed"}
    /\ UNCHANGED <<component, mem, unguarded, latecomers, boundVars>>

\* A conflict with a change of the component, or a failure.
SaveLost ==
    /\ pc = "save"
    /\ \/ stale /\ UNCHANGED boundVars
       \/ Disturb("fail")
    /\ BackToIdle
    /\ mem' = saved
    /\ UNCHANGED <<component, saved, resurrected, revived, unguarded, latecomers>>

\* Nothing is left: the component's finalizer is removed.
Finish ==
    /\ pc = "save" /\ ~ stale /\ NothingLeft
    /\ BackToIdle
    /\ component' = "gone" /\ saved' = mem
    /\ UNCHANGED <<mem, resurrected, revived, unguarded, latecomers, boundVars>>

Crash ==
    /\ pc # "idle"
    /\ Disturb("crash")
    /\ pc' = "idle" /\ mem' = saved /\ result' = "again" /\ stale' = FALSE
    /\ todo' = {} /\ wave' = NoWave /\ blockers' = {} /\ waiting' = FALSE
    /\ cur' = NoKey /\ seen' = Absent /\ fresh' = TRUE /\ step' = "read"
    /\ spoiled' = {}
    /\ UNCHANGED <<cluster, component, manifest, saved, op, rev, historyVars>>

Apply ==
    \/ PlanRejected \/ PlanExtended \/ PlanAccepted
    \/ \E n \in Keys : CreateMissingNamespace(n)
    \/ NamespacesDone
    \/ CompleteObject \/ CheckCompletion \/ CompletionsDone
    \/ BeginApplyWave
    \/ \E k \in Keys : SkipObject(k)
    \/ CreateObject \/ UpdateObject \/ RecreateObject \/ ObserveObject
    \/ EndApplyWave \/ ApplyDone

Delete ==
    \/ StartDelete
    \/ BeginDeleteWave
    \/ CheckDeletion \/ PostponeObject \/ OrphanObject \/ DeleteObject
    \/ EndDeleteWave \/ DeleteDone

Reconcile ==
    \/ \E k \in Keys : ReadObject(k)
    \/ FinalizeType \/ ReleaseType
    \/ Apply \/ Delete
    \/ Save \/ SaveLost \/ Finish

-----------------------------------------------------------------------------
(* The environment *)

\* The object is in the state that a manifest asks for.
AsRendered(object, r, k) ==
    /\ object.exists /\ object.owner = "me" /\ ~ object.deleting
    /\ object.digest = Digest(r, k)
    /\ object.ready

Elsewhere(c) ==
    /\ cluster' = c
    /\ fresh' = (fresh /\ (cur = NoKey \/ c[cur] = cluster[cur]))
    /\ spoiled' = spoiled \cup
          {k \in Rendered(rev) :
              /\ pc # "idle" /\ op = "apply"
              /\ AsRendered(cluster[k], rev, k) /\ ~ AsRendered(c[k], rev, k)}
    /\ latecomers' = Latecomers(c)
    /\ UNCHANGED <<componentVars, saved, op, rev, mem, pc, waveVars, cur, seen,
                   step, result, released, resurrected, revived, unguarded>>

\* A type may be established also while it is being deleted.
BecomeReady(k) ==
    /\ cluster[k].exists /\ ~ cluster[k].ready
    /\ ~ cluster[k].deleting \/ IsType(k)
    /\ Elsewhere([cluster EXCEPT ![k].ready = TRUE])
    /\ UNCHANGED boundVars

FinishDeletion(k) ==
    /\ Collectable(cluster, k)
    /\ Elsewhere(Collect(cluster, k))
    /\ UNCHANGED boundVars

CascadeDeletion(k) ==
    /\ Doomed(cluster, k)
    /\ Elsewhere(MarkDeleting(cluster, k))
    /\ UNCHANGED boundVars

ForeignCreate(k, owner) ==
    /\ ~ cluster[k].exists /\ Admits(cluster, k)
    /\ Disturb("create")
    /\ Elsewhere(Put(cluster, k, owner, NoDigest, FALSE))

Takeover(k, owner) ==
    /\ Ours(cluster, k) /\ ~ cluster[k].deleting
    /\ Disturb("takeover")
    /\ Elsewhere([cluster EXCEPT ![k].owner = owner, ![k].digest = NoDigest])

ForeignDelete(k) ==
    /\ cluster[k].exists /\ ~ cluster[k].deleting
    /\ Disturb("delete")
    /\ Elsewhere(MarkDeleting(cluster, k))

Flicker(k) ==
    /\ cluster[k].ready
    /\ Disturb("flicker")
    /\ Elsewhere([cluster EXCEPT ![k].ready = FALSE])

\* The reapply interval of an item passes.
Aged(inv, k) == IF k \in DOMAIN inv THEN [inv EXCEPT ![k].applied = FALSE] ELSE inv

Expire(k) ==
    /\ k \in DOMAIN saved /\ saved[k].applied
    /\ Disturb("expire")
    /\ saved' = Aged(saved, k) /\ mem' = Aged(mem, k)
    /\ UNCHANGED <<cluster, componentVars, callVars, pc, waveVars, cursorVars,
                   result, historyVars>>

\* The component's spec is changed, or the component is deleted.
ChangeComponent(state, r) ==
    /\ component = "live"
    /\ component' = state /\ manifest' = r
    /\ edits < MaxEdits /\ edits' = edits + 1
    /\ stale' = (pc # "idle")
    /\ UNCHANGED <<cluster, saved, callVars, mem, pc, waveVars, cursorVars,
                   result, historyVars, disturbed>>

Edit(r) ==
    /\ r # manifest
    /\ ChangeComponent("live", r)

DeleteComponent == ChangeComponent("deleting", manifest)

Environment ==
    \/ \E k \in Keys : \/ BecomeReady(k) \/ FinishDeletion(k) \/ CascadeDeletion(k)
                       \/ \E o \in {"none", "other"} : ForeignCreate(k, o)
                       \/ \E o \in {"none", "other"} : Takeover(k, o)
                       \/ ForeignDelete(k) \/ Flicker(k) \/ Expire(k)
    \/ \E r \in Revisions : Edit(r)
    \/ DeleteComponent

Next == Reconcile \/ Crash \/ Environment

\* The component is requeued after every call, and the cluster makes progress.
Fairness ==
    /\ WF_vars(Reconcile)
    /\ \A k \in Keys : /\ WF_vars(BecomeReady(k))
                       /\ WF_vars(FinishDeletion(k))
                       /\ WF_vars(CascadeDeletion(k))

Spec == Init /\ [][Next]_vars
FairSpec == Spec /\ Fairness
=============================================================================
