-------------------------- MODULE ComponentReconciler --------------------------
(***************************************************************************)
(* The reconciler of components (pkg/component): Reconcile with its        *)
(* deferred status handler, for one component, one queue entry and one     *)
(* reference.  A call loads the component, resolves the reference, sets    *)
(* the finalizer or calls Apply or Delete, and saves the status.           *)
(*                                                                         *)
(* Apply and Delete are modelled by what they promise: they write ahead    *)
(* (see OwnershipLedger), they proceed with every call, and they return    *)
(* true only when everything is there and ready, or nothing is left.       *)
(*                                                                         *)
(* Around a call users edit and delete the component, the referenced       *)
(* object changes, the process crashes and requests fail.  Time passes     *)
(* between calls only; a tick stands for the time after which a requeue    *)
(* with a delay comes due.                                                 *)
(***************************************************************************)
EXTENDS Integers

CONSTANTS
    Keys,             \* keys of dependent objects
    Contents,         \* what the referenced object may contain (strings)
    Absences,         \* in which ways it may be missing
    RenderedFrom,     \* RenderedFrom[v]: the keys rendered if it contains v
    NeverReady,       \* with what contents the objects do not become ready
    IgnoreOnDeletion, \* notFoundPolicy=ignoreOnDeletion of the reference
    Timeout,          \* the processing timeout, in ticks
    Disturbances,     \* kinds of disturbance that may happen ...
    MaxDisturbances,  \* ... how many of them altogether (a bound),
    MaxEdits,         \* and of changes of the component (a bound)
    MaxChanges        \* and of the referenced object (a bound)

\* The referenced object is not there, or has not got the key.
Missing == "missing"
KeyMissing == "keymissing"

DisturbanceKinds == {"crash", "retriable", "error", "lost", "flicker", "trigger"}

ASSUME ContentsAssumption ==
    /\ Absences \subseteq {Missing, KeyMissing}
    /\ Contents \cap {Missing, KeyMissing} = {}
    /\ RenderedFrom \in [Contents -> SUBSET Keys]
    /\ NeverReady \subseteq Contents
ASSUME OptionsAssumption == IgnoreOnDeletion \in BOOLEAN /\ Timeout \in Nat \ {0}
ASSUME BudgetAssumption ==
    /\ Disturbances \subseteq DisturbanceKinds
    /\ MaxDisturbances \in Nat /\ MaxEdits \in Nat /\ MaxChanges \in Nat

VARIABLES
    component,  \* the component as in the API server, without its status
    status,     \* its status there
    reference,  \* what the referenced object contains
    owned,      \* the dependent objects in the cluster that are ours
    content,    \* the digest they were last applied with
    ready,      \* all of them are ready
    queue,      \* the component's entry in the work queue
    \* the running call
    pc,         \* what comes next: "idle" if no call is running
    loaded,     \* the component as loaded
    mem,        \* its status in memory
    digest,     \* the component digest
    err,        \* the error to be handled by the status handler
    requeue,    \* the result: when to come back
    stale,      \* the component has changed since it was loaded
    \* history
    last,       \* the revision and digest of the latest call of Apply
    age,        \* ticks since the processing digest in the status has changed
    \* bookkeeping of the bounds
    disturbed, edits, changes

clusterVars == <<owned, content, ready>>
callVars == <<loaded, mem, digest, err, requeue>>
boundVars == <<disturbed, edits, changes>>
vars == <<component, status, reference, clusterVars, queue, pc, callVars, stale,
          last, age, boundVars>>

References == Contents \cup Absences

\* Generations of the component start with 1.
Generations == 1 .. MaxEdits + 1

\* resolveReferences: the digest covers the generation and what was loaded.
ComponentDigests == Generations \X References
NoDigest == <<0, Missing>>

States == {"", "Pending", "Processing", "Ready", "Error", "DeletionPending", "Deleting"}
Reasons == {"", "FirstSeen", "Suspended", "Restarting", "Processing", "Ready",
            "Retrying", "Timeout", "Error", "DeletionRetrying", "DeletionBlocked",
            "DeletionProcessing"}

\* ProcessingSince is kept as an age, which does not matter beyond the timeout.
NotProcessing == -1
Ages == 0 .. Timeout

Components == [exists : BOOLEAN, generation : Generations, suspended : BOOLEAN,
               deleting : BOOLEAN, finalizer : BOOLEAN, foreignFinalizer : BOOLEAN]

Statuses == [observedGeneration   : Generations \cup {0},
             state                : States,
             reason               : Reasons,
             processingSince      : Ages \cup {NotProcessing},
             processingDigest     : ComponentDigests \cup {NoDigest},
             lastProcessingDigest : ComponentDigests \cup {NoDigest},
             revision             : Nat,
             appliedGeneration    : Generations \cup {0},
             inventory            : SUBSET Keys]

TypeOK ==
    /\ component \in Components /\ loaded \in Components
    /\ status \in Statuses /\ mem \in Statuses
    /\ reference \in References
    /\ owned \subseteq Keys
    /\ content \in ComponentDigests \cup {NoDigest}
    /\ ready \in BOOLEAN
    /\ queue \in {"now", "later", "none"} /\ requeue \in {"now", "later", "none"}
    /\ pc \in {"idle", "resolve", "reconcile", "status"}
    /\ digest \in ComponentDigests \cup {NoDigest}
    /\ err \in {"none", "retriable", "error"}
    /\ stale \in BOOLEAN
    /\ last \in [revision : Nat, digest : ComponentDigests \cup {NoDigest}]
    /\ age \in Ages
    /\ disturbed \in 0 .. MaxDisturbances /\ edits \in 0 .. MaxEdits
    /\ changes \in 0 .. MaxChanges

InitialStatus ==
    [observedGeneration |-> 0, state |-> "", reason |-> "",
     processingSince |-> NotProcessing, processingDigest |-> NoDigest,
     lastProcessingDigest |-> NoDigest, revision |-> 0, appliedGeneration |-> 0,
     inventory |-> {}]

\* Between calls nothing is in memory.
NoComponent == [exists |-> FALSE, generation |-> 1, suspended |-> FALSE,
                deleting |-> FALSE, finalizer |-> FALSE, foreignFinalizer |-> FALSE]

Init ==
    /\ component \in [exists : {TRUE}, generation : {1}, suspended : BOOLEAN,
                      deleting : {FALSE}, finalizer : {FALSE},
                      foreignFinalizer : BOOLEAN]
    /\ status = InitialStatus
    /\ reference \in References
    /\ owned = {} /\ content = NoDigest /\ ready = FALSE
    /\ queue = "now" /\ pc = "idle"
    /\ loaded = NoComponent /\ mem = InitialStatus /\ digest = NoDigest
    /\ err = "none" /\ requeue = "none" /\ stale = FALSE
    /\ last = [revision |-> 0, digest |-> NoDigest]
    /\ age = 0
    /\ disturbed = 0 /\ edits = 0 /\ changes = 0

Disturb(kind) ==
    /\ kind \in Disturbances
    /\ disturbed < MaxDisturbances
    /\ disturbed' = disturbed + 1
    /\ UNCHANGED <<edits, changes>>

\* SetState, as far as it is not the wording.
SetState(s, state, reason) == [s EXCEPT !.state = state, !.reason = reason]

Rendered(d) == RenderedFrom[d[2]]

-----------------------------------------------------------------------------
(* Steps of a call *)

\* The call proceeds to the status handler, with status s.
Leave(s, error, result) ==
    /\ pc' = "status"
    /\ mem' = s /\ err' = error /\ requeue' = result

Proceed(s) ==
    /\ pc' = "reconcile" /\ mem' = s
    /\ UNCHANGED <<err, requeue>>

InCall(stage) ==
    /\ pc = stage
    /\ UNCHANGED <<status, reference, queue, age>>

\* The call goes on, with what it has loaded.
Goes == UNCHANGED <<loaded, stale>>

\* The call is over.
Ends ==
    /\ pc' = "idle" /\ stale' = FALSE
    /\ loaded' = NoComponent /\ mem' = InitialStatus /\ digest' = NoDigest
    /\ err' = "none" /\ requeue' = "none"

\* An error with no further effect, from a hook, a client or a request.
Fails(stage) ==
    \E kind \in {"retriable", "error"} :
        /\ InCall(stage) /\ Goes
        /\ Disturb(kind)
        /\ Leave(mem, kind, "none")
        /\ UNCHANGED <<component, clusterVars, digest, last>>

\* The component is gone; nothing is queued any more.
LoadNothing ==
    /\ pc = "idle" /\ queue = "now" /\ ~ component.exists
    /\ queue' = "none"
    /\ UNCHANGED <<component, status, reference, clusterVars, pc, callVars, stale,
                   last, age, boundVars>>

\* A status is written first; this is not seen by the watch.
Unseen == status.observedGeneration = 0

\* Mutant of Halted: suspension comes first, also for a component in deletion.
HaltedAnyway == component.suspended

Halted == component.suspended /\ ~ component.deleting

\* Mutant of Begin: a component is processed when it is first seen.
BeginAtOnce ==
    IF Halted
    THEN Leave(SetState(status, "Pending", "Suspended"), "none", "later")
    ELSE pc' = "resolve" /\ mem' = status /\ err' = "none" /\ requeue' = "none"

\* Mutant of Begin: nobody comes back after the first status.
BeginOnce ==
    \/ Unseen /\ Leave(SetState(status, "Pending", "FirstSeen"), "none", "none")
    \/ ~ Unseen /\ BeginAtOnce

Begin ==
    \/ Unseen /\ Leave(SetState(status, "Pending", "FirstSeen"), "none", "now")
    \/ /\ ~ Unseen /\ Halted
       /\ Leave(SetState(status, "Pending", "Suspended"), "none", "later")
    \/ /\ ~ Unseen /\ ~ Halted
       /\ pc' = "resolve" /\ mem' = status /\ err' = "none" /\ requeue' = "none"

Load ==
    /\ pc = "idle" /\ queue = "now" /\ component.exists
    /\ queue' = "none" /\ loaded' = component /\ stale' = FALSE /\ digest' = NoDigest
    /\ Begin
    /\ UNCHANGED <<component, status, reference, clusterVars, last, age, boundVars>>

\* A missing object may be ignored during deletion, but not a missing key.
Resolvable ==
    \/ reference \in Contents
    \/ reference = Missing /\ loaded.deleting /\ IgnoreOnDeletion

ResolveMissing ==
    /\ InCall("resolve") /\ Goes
    /\ ~ Resolvable
    /\ Leave(mem, "retriable", "none")
    /\ UNCHANGED <<component, clusterVars, digest, last, boundVars>>

\* Mutant of Restarted: the processing timeout runs on.
RestartedLate(s, d) == [SetState(s, "Processing", "Restarting") EXCEPT !.processingDigest = d]

\* A new component digest starts a new processing cycle.
Restarted(s, d) ==
    [SetState(s, "Processing", "Restarting") EXCEPT
        !.processingSince = NotProcessing, !.processingDigest = d]

\* Mutant of Changed: the generation does not count.
ChangedReference(d) == mem.processingDigest[2] # d[2]

Changed(d) == mem.processingDigest # d

Resolve ==
    /\ InCall("resolve") /\ Goes
    /\ Resolvable
    /\ LET d == <<loaded.generation, reference>>
       IN  /\ digest' = d
           /\ \/ /\ loaded.deleting
                 /\ Proceed([mem EXCEPT !.processingSince = NotProcessing,
                                                     !.processingDigest = NoDigest])
              \/ /\ ~ loaded.deleting /\ mem.processingDigest = NoDigest
                 /\ Proceed([mem EXCEPT !.processingSince = NotProcessing,
                                                     !.processingDigest = d])
              \/ /\ ~ loaded.deleting /\ mem.processingDigest # NoDigest /\ Changed(d)
                 /\ Leave(Restarted(mem, d), "none", "now")
              \/ /\ ~ loaded.deleting /\ mem.processingDigest # NoDigest /\ ~ Changed(d)
                 /\ Proceed(mem)
    /\ UNCHANGED <<component, clusterVars, last, boundVars>>

-----------------------------------------------------------------------------
(* Creation and update *)

Reconciles ==
    /\ InCall("reconcile") /\ Goes
    /\ ~ loaded.deleting
    /\ UNCHANGED digest

\* Nothing else is done in this call; the patch insists on the resource version.
AddFinalizer ==
    /\ Reconciles
    /\ ~ loaded.finalizer
    /\ IF stale \/ ~ component.exists
       THEN Leave(mem, "error", "none") /\ UNCHANGED component
       ELSE Leave(mem, "none", "now") /\ component' = [component EXCEPT !.finalizer = TRUE]
    /\ UNCHANGED <<clusterVars, last, boundVars>>

\* Mutant of Numbered: every call counts.
NumberedAlways(s) ==
    [s EXCEPT !.revision = @ + 1, !.lastProcessingDigest = s.processingDigest]

\* The revision counts the digests that are applied.
Numbered(s) ==
    IF s.processingDigest # s.lastProcessingDigest
    THEN [s EXCEPT !.revision = @ + 1, !.lastProcessingDigest = s.processingDigest]
    ELSE s

\* Mutant of MayApply: nobody cares about the finalizer.
MayApplyAnyway == TRUE

MayApply == loaded.finalizer

\* The frame of a call of Apply with status s.
Applies(s) ==
    /\ Reconciles
    /\ MayApply
    /\ s = Numbered(mem)
    /\ last' = [revision |-> s.revision, digest |-> digest]
    /\ UNCHANGED component

\* What remains to be done when Apply returns false.
Unfinished(s) ==
    Leave([SetState(s, "Processing", "Processing") EXCEPT
              !.processingSince = IF @ = NotProcessing THEN 0 ELSE @],
          "none", "later")

Finished(s) ==
    [SetState(s, "Ready", "Ready") EXCEPT !.appliedGeneration = loaded.generation,
                                          !.inventory = Rendered(digest)]

\* Mutant of Adds: what is rendered is written at once.
AddsNothing == FALSE

\* There is something rendered that is not in the inventory.
Adds == ~ Rendered(digest) \subseteq mem.inventory

\* Apply only adds to the inventory, which has to be saved first.
ApplyPlans ==
    LET s == Numbered(mem)
    IN  /\ Applies(s)
        /\ Adds
        /\ Unfinished([s EXCEPT !.inventory = @ \cup Rendered(digest)])
        /\ UNCHANGED <<clusterVars, boundVars>>

UpToDate == Rendered(digest) \subseteq owned /\ content = digest

\* What is still there of the inventory.
Left == mem.inventory \cap owned

Write ==
    /\ owned' = owned \cup Rendered(digest)
    /\ content' = digest
    /\ ready' = (Rendered(digest) = {})

\* Objects are created or updated, then waited for, then the others deleted.
ApplyWorks ==
    LET s == Numbered(mem)
    IN  /\ Applies(s)
        /\ ~ Adds
        /\ \/ ~ UpToDate /\ Write
           \/ /\ UpToDate /\ ~ ready
              /\ UNCHANGED clusterVars
           \/ /\ UpToDate /\ ready /\ ~ Left \subseteq Rendered(digest)
              /\ owned' = owned \ (Left \ Rendered(digest))
              /\ UNCHANGED <<content, ready>>
        /\ Unfinished(s)
        /\ UNCHANGED boundVars

\* Apply returns true.
ApplyDone ==
    LET s == Numbered(mem)
    IN  /\ Applies(s)
        /\ ~ Adds /\ UpToDate /\ ready /\ Left \subseteq Rendered(digest)
        /\ Leave(Finished(s), "none", "later")
        /\ UNCHANGED <<clusterVars, boundVars>>

\* Apply, a hook before it or a hook after it fails; what was done is done.
ApplyFails ==
    LET s == Numbered(mem)
    IN  /\ Applies(s)
        /\ \E kind \in {"retriable", "error"} : Disturb(kind) /\ Leave(s, kind, "none")
        /\ \/ UNCHANGED clusterVars
           \/ ~ Adds /\ ~ UpToDate /\ Write

-----------------------------------------------------------------------------
(* Deletion *)

Deletes ==
    /\ InCall("reconcile") /\ Goes
    /\ loaded.deleting
    /\ UNCHANGED <<digest, last>>

\* Foreign instances of managed types are not modelled; they block likewise.
DeletionBlocked ==
    /\ Deletes
    /\ loaded.foreignFinalizer
    /\ Leave(SetState(mem, "Deleting", "DeletionBlocked"), "none", "later")
    /\ UNCHANGED <<component, clusterVars, boundVars>>

\* What is gone is struck off the inventory, the deletion of the rest requested;
\* requested objects are gone by the next call.
DeleteWorks ==
    /\ Deletes
    /\ ~ loaded.foreignFinalizer
    /\ Left # {}
    /\ owned' = owned \ Left
    /\ Leave([SetState(mem, "Deleting", "DeletionProcessing") EXCEPT !.inventory = Left],
             "none", "later")
    /\ UNCHANGED <<component, content, ready, boundVars>>

NothingLeft == Left = {}

\* The finalizer is removed, without a status update; the component goes away.
RemoveFinalizer ==
    /\ InCall("reconcile") /\ loaded.deleting
    /\ ~ loaded.foreignFinalizer
    /\ NothingLeft
    /\ \/ /\ loaded.finalizer /\ (stale \/ ~ component.exists)
          /\ Leave([mem EXCEPT !.inventory = {}], "error", "none")
          /\ Goes /\ UNCHANGED <<component, digest>>
       \/ /\ loaded.finalizer => ~ stale /\ component.exists
          /\ component' = IF loaded.finalizer
                          THEN [component EXCEPT !.finalizer = FALSE, !.exists = FALSE]
                          ELSE component
          /\ Ends
    /\ UNCHANGED <<clusterVars, last, boundVars>>

-----------------------------------------------------------------------------
(* The status handler *)

HaveTimeout == mem.processingSince = Timeout

\* Mutant of Outcome: nobody watches the time.
OutcomeTimeless ==
    LET failed == IF loaded.deleting THEN SetState(mem, "DeletionPending", "DeletionRetrying")
                  ELSE SetState(mem, "Pending", "Retrying")
    IN  CASE err = "retriable" -> failed
          [] err = "error" -> SetState(mem, "Error", "Error")
          [] OTHER -> IF mem.state = "Ready" /\ ~ loaded.deleting
                      THEN [mem EXCEPT !.processingSince = NotProcessing] ELSE mem

\* Mutant of Outcome: an error ends the processing cycle.
OutcomeForgetful ==
    CASE err = "retriable" /\ loaded.deleting ->
            SetState(mem, "DeletionPending", "DeletionRetrying")
      [] err = "retriable" /\ ~ loaded.deleting ->
            [SetState(mem, "Pending", IF HaveTimeout THEN "Timeout" ELSE "Retrying")
                EXCEPT !.processingSince = NotProcessing]
      [] err = "error" ->
            SetState(mem, "Error", IF HaveTimeout /\ ~ loaded.deleting
                                   THEN "Timeout" ELSE "Error")
      [] err = "none" /\ ~ loaded.deleting /\ mem.state = "Ready" ->
            [mem EXCEPT !.processingSince = NotProcessing]
      [] err = "none" /\ ~ loaded.deleting /\ mem.state = "Processing" /\ HaveTimeout ->
            SetState(mem, "Error", "Timeout")
      [] OTHER -> mem

\* The status that the handler makes of the one in memory.
Outcome ==
    CASE err = "retriable" /\ loaded.deleting ->
            SetState(mem, "DeletionPending", "DeletionRetrying")
      [] err = "retriable" /\ ~ loaded.deleting ->
            SetState(mem, "Pending", IF HaveTimeout THEN "Timeout" ELSE "Retrying")
      [] err = "error" ->
            SetState(mem, "Error", IF HaveTimeout /\ ~ loaded.deleting
                                   THEN "Timeout" ELSE "Error")
      [] err = "none" /\ ~ loaded.deleting /\ mem.state = "Ready" ->
            [mem EXCEPT !.processingSince = NotProcessing]
      [] err = "none" /\ ~ loaded.deleting /\ mem.state = "Processing" /\ HaveTimeout ->
            SetState(mem, "Error", "Timeout")
      [] OTHER -> mem

\* After processing, ready components are looked at once more; errors and
\* retriable errors come back after a delay.
Delay ==
    CASE err # "none" -> "later"
      [] err = "none" /\ ~ loaded.deleting /\ mem.state = "Ready"
            /\ mem.processingSince # NotProcessing -> "now"
      [] OTHER -> requeue

\* The call returns; the queue may have got a new entry meanwhile.
Done(result) ==
    /\ Ends
    /\ queue' = IF queue = "now" THEN "now" ELSE result
    /\ UNCHANGED <<component, reference, clusterVars>>

SaveStatus ==
    /\ pc = "status" /\ ~ stale /\ component.exists
    /\ status' = [Outcome EXCEPT !.observedGeneration = loaded.generation]
    /\ age' = IF status'.processingDigest = status.processingDigest THEN age ELSE 0
    /\ Done(Delay)
    /\ UNCHANGED <<last, boundVars>>

\* A conflict with a change of the component, which may be gone, or a failure.
StatusLost ==
    /\ pc = "status"
    /\ \/ (stale \/ ~ component.exists) /\ UNCHANGED boundVars
       \/ Disturb("lost")
    /\ Done("later")
    /\ UNCHANGED <<status, last, age>>

Reconcile ==
    \/ LoadNothing \/ Load
    \/ ResolveMissing \/ Resolve
    \/ AddFinalizer \/ ApplyPlans \/ ApplyWorks \/ ApplyDone
    \/ DeletionBlocked \/ DeleteWorks \/ RemoveFinalizer
    \/ SaveStatus \/ StatusLost

Failure ==
    \/ Fails("resolve") \/ Fails("reconcile")
    \/ ApplyFails

Crash ==
    /\ pc # "idle"
    /\ Disturb("crash")
    /\ Ends /\ queue' = "now"
    /\ UNCHANGED <<component, status, reference, clusterVars, last, age>>

-----------------------------------------------------------------------------
(* The environment *)

\* A running call works with an outdated resource version.
Outdates == stale' = (pc # "idle")

callAndClusterVars == <<status, clusterVars, pc, callVars, last, age>>

\* Users change the spec, which is a new generation and is watched.
Edit(suspended) ==
    /\ component.exists /\ ~ component.deleting
    /\ edits < MaxEdits /\ edits' = edits + 1
    /\ component' = [component EXCEPT !.generation = @ + 1, !.suspended = suspended]
    /\ Outdates /\ queue' = "now"
    /\ UNCHANGED <<callAndClusterVars, reference, disturbed, changes>>

\* Without a finalizer the component is gone at once.
DeleteComponent ==
    /\ component.exists /\ ~ component.deleting
    /\ component' = [component EXCEPT
                        !.deleting = TRUE,
                        !.exists = component.finalizer \/ component.foreignFinalizer]
    /\ Outdates /\ queue' = "now"
    /\ UNCHANGED <<callAndClusterVars, reference, boundVars>>

ReleaseForeignFinalizer ==
    /\ component.exists /\ component.foreignFinalizer
    /\ component' = [component EXCEPT
                        !.foreignFinalizer = FALSE,
                        !.exists = component.finalizer \/ ~ component.deleting]
    /\ Outdates
    /\ UNCHANGED <<callAndClusterVars, reference, queue, boundVars>>

\* References are not watched.
ChangeReference(value) ==
    /\ value # reference
    /\ changes < MaxChanges /\ changes' = changes + 1
    /\ reference' = value
    /\ UNCHANGED <<callAndClusterVars, component, stale, queue, disturbed, edits>>

BecomeReady ==
    /\ owned # {} /\ ~ ready /\ content[2] \notin NeverReady
    /\ ready' = TRUE
    /\ UNCHANGED <<component, status, reference, owned, content, queue, pc, callVars,
                   stale, last, age, boundVars>>

Flicker ==
    /\ ready /\ ready' = FALSE
    /\ Disturb("flicker")
    /\ UNCHANGED <<component, status, reference, owned, content, queue, pc, callVars,
                   stale, last, age>>

\* Trigger asks for a call out of turn.
Trigger ==
    /\ component.exists /\ queue # "now"
    /\ Disturb("trigger")
    /\ queue' = "now"
    /\ UNCHANGED <<callAndClusterVars, component, reference, stale>>

Older(a) == IF a = NotProcessing \/ a = Timeout THEN a ELSE a + 1

Tick ==
    /\ pc = "idle" /\ queue # "now"
    /\ component.exists \/ queue = "later"
    /\ status' = [status EXCEPT !.processingSince = Older(@)]
    /\ age' = Older(age)
    /\ queue' = IF queue = "later" THEN "now" ELSE queue
    /\ UNCHANGED <<component, reference, clusterVars, pc, callVars, stale, last, boundVars>>

Environment ==
    \/ \E suspended \in BOOLEAN : Edit(suspended)
    \/ DeleteComponent \/ ReleaseForeignFinalizer
    \/ \E value \in References : ChangeReference(value)
    \/ BecomeReady \/ Flicker \/ Trigger \/ Tick

Next == Reconcile \/ Failure \/ Crash \/ Environment

\* Calls run and end, delays pass, dependents become ready, others let go.
Fairness ==
    /\ WF_vars(Reconcile) /\ WF_vars(Tick)
    /\ WF_vars(BecomeReady) /\ WF_vars(ReleaseForeignFinalizer)

Spec == Init /\ [][Next]_vars
FairSpec == Spec /\ Fairness
=============================================================================
