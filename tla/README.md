# A TLA+ model of component-operator-runtime

This directory holds the formal model of the component-operator-runtime: TLA+
modules that model its core, TLC configurations that check the modules on small
instances, and theorems that TLAPS proves for instances of every size.
`PROJECT.json` is the machine-readable index: which definition models which
lines, which run checks which property, which mutant of the code each property
detects, which hazards the properties are for.

To repeat the checks, in this directory:

    tlc -workers 2 -config Churn.cfg MCDependents     # and so on, see "Runs"
    tlapm DependentsProofs.tla                        # and the other *Proofs.tla

Contents: [the system](#the-system), [the modules](#the-modules),
[the dependents model](#the-dependents-model),
[the ledger](#the-ownership-ledger),
[the component model](#the-component-model),
[the shared services](#the-shared-services), [clm](#clm),
[the algorithms](#the-algorithms), [properties](#properties), [runs](#runs), [fairness](#fairness),
[proofs](#proofs), [findings](#findings),
[limits of the properties](#limits-of-the-properties),
[what is not modelled](#what-is-not-modelled), [plan](#plan).

## The system

The framework builds Kubernetes operators. An operator watches *components*
(custom resources); for each, a *generator* renders a manifest of *dependent
objects*, and the framework makes the cluster match the manifest: it creates and
updates what is rendered, deletes what is not rendered any more, and deletes
everything when the component is deleted. The component's status holds the
*inventory*, one item per dependent object, which is all that survives a call.

### Components

| component (source) | state | operations | what makes it correct |
|---|---|---|---|
| **Reconciler of dependent objects** (`pkg/reconciler`) | the inventory it is given: per object a digest, a phase, the effective policies and orders, the time of the last apply; nothing between calls | `Apply`, `Delete`, `IsDeletionAllowed`; below them `createObject`, `updateObject`, `deleteObject`, `readObject`, `orphanObject` | no owned object is ever lost track of; foreign objects are left alone; apply, purge and delete orders hold; types outlive instances; success means in sync; repeating it converges |
| Managed fields (`ssa.go`) | none; the entries are the object's | `replaceFieldManager` and helpers | an update leaves what is desired or managed by others, and nothing that was reclaimed; a failure in between changes nothing of this |
| **Reconciler of components** (`pkg/component/reconciler.go`, `target.go`) | the component: finalizer, state, conditions, processing digest and since, inventory; per process a backoff | `Reconcile`: load, hooks, references, `Apply` or `IsDeletionAllowed` and `Delete`, save the status | the finalizer outlives the dependents; `Ready` tells of what was applied; the timeout is deserved and its clock runs on; every outcome is requeued; the component settles or goes away |
| Component types (`component.go`, `types.go`, `context.go`, `util.go`) | conditions of the status | `SetState`, accessors | `Ready` condition and state agree |
| References (`reference.go`, `internal/walk`) | none | load config maps and secrets, digest of the component | the digest tells exactly what was loaded; nothing unloaded is used; deletion waits only for what it must |
| Status analyzer (`pkg/status`) | none | `ComputeStatus` | only what says so itself, up to date and with its hints met, is current |
| Backoff (`internal/backoff`) | activities per item, a rate limiter per item and activity | `Next`, `Forget` | the delay depends on the delays in a row for the same activity only |
| Client factory (`internal/clientfactory`) | cache of clients, their validity; a sweeper goroutine | `Get`, sweep | a client is not shut down while it is in use, and nobody gets another's |
| Event recorder (`internal/events`) | last digest per object | `Event` and variants | equal events are sent once, until the last one is long ago |
| Manifest generators (`pkg/manifests`, `internal/helm`, `internal/kustomize`, `internal/templatex`) | parsed charts and templates | `Generate`; `MergeMaps` | helm hooks keep their meaning when they become orders and policies; a subchart sees the most specific values |
| `clm` (`clm`) | a release: revision, state, inventory in a config map | `apply`, `delete`; `list`, `status`, `template`, `version` | nothing is lost without an error; concurrent commands notice each other; a success leaves what was rendered |
| Utilities, metrics, public types, scaffold, test environment | none, or counters | | |

### Interaction

The controller's work queue calls `component.Reconciler.Reconcile`, never twice
at the same time for the same component. It loads the component, renders the
manifest through the generator (`target.go`), hands the status's inventory to
`pkg/reconciler`'s `Apply` or `Delete`, and in a deferred function saves the
status with the inventory, whatever the result. `Apply` and `Delete` return
`false` when they have done what could be done without waiting; the component is
then requeued. All the rest is communication through the cluster: read, create,
update and delete requests, each of which can fail or lose its reply, and
objects that anybody may change in the meantime. `clm apply` drives the same
reconciler from a command line loop.

### What is hard

* **Crashes and lost saves.** What `Apply` did to the cluster and what the
  persisted inventory says are written in separate requests. The status update
  is refused whenever the component was edited during the call, so that a whole
  call's worth of inventory changes gets lost without anything having failed.
* **Requests and their replies.** A request that was carried out may look
  failed; error returns persist half-updated inventories.
* **Other actors.** Objects are created, taken over and deleted by others between
  a read and the write that relies on it.
* **Orders and waiting.** Apply waves, late kinds, instances of managed types,
  purges, delete waves, namespaces and types wait for each other: too little is
  a wrong order, too much is a deadlock.
* **Liveness.** Every call does a bit; progress is a property of the sequence.

`PROJECT.json` lists these, line by line, under `hazards`.

## The modules

    KubeObjects            the cluster: what the API server accepts, what the
       |                   cluster does by itself (external to the repository)
    Inventory              manifests, inventories, validations, orders,
       |                   out-of-sync and deletion checks (pure operators)
    Dependents             the state machine: Apply, Delete, the caller's load
       |                   and save, crashes, failures, other actors
    DependentsProperties   invariants, action and liveness properties, the
       |        \          inductive invariants
       |    DependentsProofs ---------.------------ CallProofs
    DependentsRefinement --------- LedgerProofs
       |          \
    MCDependents   OwnershipLedger    what the callers may rely on (INSTANCE)
                  /
    ComponentReconciler    Reconcile of pkg/component and its status handler
       |         /
    ComponentProperties    its properties, and the ledger it keeps
       |        \
    MCComponent  ComponentProofs

    Adoption               extends DependentsProperties by a history of who
       |        \          made objects unacceptable
    MCAdoption  AdoptionProofs         (with MCDependents, over DependentsProofs)

    Backoff   ClientFactory   DeduplicatingRecorder
          \        |          /                          (INSTANCE)
               Services       concurrent calls of Reconcile that share them
               |      \
         MCServices   ServicesProofs

    Clm                    clm apply and clm delete as concurrent commands
     |   \
    MCClm ClmProofs

    HelmHooks  ChartValues  StatusAnalysis  ManagedFields  References
          \          \          |           /            /
                          Algorithms          one step per algorithm
                          |        \
                    MCAlgorithms   AlgorithmsProofs

The modules are layered with EXTENDS; `Services` and `Algorithms` compose the
modules above them with INSTANCE, and the ledger is instantiated by a mapping.
Constants are declared where they are first needed, each with a named assumption.
The `MC` modules hold the instances for TLC, the `Proofs` modules the theorems. No
module uses a RECURSIVE operator.

`Dependents` and `ComponentReconciler` model the same caller at two levels.
`Dependents` has the API requests of one call of `Apply` or `Delete` and of the
caller only the loading and saving; `ComponentReconciler` has all of the caller
and of `Apply` and `Delete` only what they promise. `OwnershipLedger` is what
connects them: both are shown to implement it, so what the one assumes of
`Apply` is what the other shows of it, as far as the ownership of objects and
the inventory are concerned. That `Apply` returns true only if everything is in
sync, which `ComponentReconciler` assumes as well, is `DoneMeansSynced`.

## The dependents model

### State

| variable | in the code |
|---|---|
| `cluster` | the objects in the API server: existence, owner label, digest annotation, readiness, deletion timestamp, the reconciler's finalizer |
| `component`, `manifest` | the component resource: whether it is there and being deleted, and its spec (a *revision*, standing for what its generator renders and for its digest) |
| `saved` | `status.inventory` as persisted |
| `stale` | the running call loaded the component before its latest change: the status update will conflict |
| `op`, `rev`, `mem` | the running call, what it was called with, the inventory in memory |
| `pc`, `todo`, `wave`, `blockers`, `waiting` | position in `Apply`/`Delete`: the loop, its remaining objects, the order being processed, the numbers of pending late and managed objects, and whether anything handled so far is not finished (`numUnready`, `numToBeCompleted`, `numToBeDeleted`) |
| `cur`, `seen`, `fresh`, `step` | the object being handled, as it was read, whether it is still that (its resource version), and what is next for it; deleting a type takes three steps |
| `result` | what the call returns |
| `released`, `resurrected`, `revived` | history: objects orphaned by policy; objects acquired while their persisted item had an empty phase, or was completed |
| `unguarded` | history: types of ours that have lost the reconciler's finalizer by being orphaned |
| `latecomers` | history: instances of APIServices that others have created since the reconciler has looked for instances and before the APIService is gone |
| `spoiled` | history: objects that others have changed, after they were in sync, during the running call |
| `disturbed`, `edits` | counters bounding the environment |

An inventory is a function from keys to items; the code keeps a list with at most
one item per key. An object's key stands for group kind, namespace and name.
`Kind`, `NamespaceOf` and `TypeOf` say what the code derives from them.

### Actions

One action is one request to the API server together with the computation up to
the next one, so other actors can interfere exactly where they can in reality.

* *Apply* (`reconciler.go`, `Apply`): `PlanRejected`, `PlanExtended`,
  `PlanAccepted` load the component, compute the target inventory and validate
  (`PlanExtended` is the return that makes the caller save before anything is
  written); `CreateMissingNamespace`, `NamespacesDone`; `CompleteObject`,
  `CheckCompletion`, `CompletionsDone` (purges); `BeginApplyWave`, `SkipObject`,
  `CreateObject`, `UpdateObject`, `RecreateObject`, `ObserveObject`,
  `EndApplyWave`, `ApplyDone`.
* *Delete* (`Delete`, and the last part of `Apply`, which has the same loop over
  the redundant items): `StartDelete`, `BeginDeleteWave`, `CheckDeletion`,
  `PostponeObject`, `OrphanObject`, `DeleteObject`, `EndDeleteWave`,
  `DeleteDone`.
* *Shared*: `ReadObject`; `FinalizeType` and `ReleaseType`, the second and third part
  of `deleteObject` for CRDs and APIServices: looking for instances, and removing the
  finalizer, which is refused and repeated if the type has changed in between.
* *The caller* (`pkg/component/reconciler.go`): `Load` is part of the first
  action of a call; `Save`, `SaveLost`, `Finish`.
* *Environment*: `Crash`; `BecomeReady`, `FinishDeletion`, `CascadeDeletion`
  (controllers of the cluster); `ForeignCreate`, `Takeover`, `ForeignDelete`,
  `Flicker` (other actors); `Expire` (the reapply interval passes); `Edit`,
  `DeleteComponent` (the user).

Every write goes through `Request`: it succeeds; or it is carried out and its
reply gets lost; or it never happens. The last two return an error, leaving the
inventory in memory as it is, and the caller saves that.

### Abstractions

* A digest is the pair of the content and, if the reconcile policy asks for it,
  the revision. Policies and orders are those in effect: annotations and defaults
  are already evaluated in `Manifest`.
* Items of equal order and kind priority are processed in list order by the
  code and in any order by the model.
* An object is ready or not; `Put` makes it unready, `BecomeReady` ready. A
  change by others that matters only through its resource version is the
  failure of the request.
* Reading a type and listing its instances are one step, and removing the type's
  finalizer is another. Listing the instances of a type that is not served is an
  error, in `deleteObject` and in `IsDeletionAllowed`. A terminating CRD serves no
  creations any more, a terminating APIService does until it is gone (`Admits`). The read
  and the creation of a missing namespace are one step.
* The third conflict in removing a finalizer is an error; the model may give up at any
  conflict, and may go on for ever.
* When an APIService goes away its instances cannot be seen any more.
* An update is one request, whatever the update policy; the preparing patch of
  server-side apply changes managed fields only.
* `LastAppliedAt` is reduced to "within the reapply interval".
* An error return that leaves the inventory as it was loaded, such as a failed read
  in the owner check, has no action of its own: it has the effect of
  `PlanRejected`, or of not having been called.
* Events, metrics, logging and status texts are left out.

## The ownership ledger

`OwnershipLedger` says what `Apply` and `Delete` promise to a caller that does
not know how they work: the persisted inventory is a *write-ahead ledger*. A key
is recorded before its object is acquired, and struck off only when the object
is not ours any more or was excused. Its state is three sets of keys, its steps
are `Acquire`, `Lose`, `Excuse`, `Reclaim` and `Record`. `DependentsRefinement`
maps `Dependents` to it (`cluster` to what is owned, `saved` to what is known,
`released` and `resurrected` to what is excused); `ComponentProperties` maps
`ComponentReconciler` to it, with nothing excused.

## The component model

`ComponentReconciler` models `Reconcile` of `pkg/component/reconciler.go` with
its deferred status handler, for one component, its queue entry and one
reference.

| variable | in the code |
|---|---|
| `component`, `status` | the component in the API server (existence, generation, suspension, deletion timestamp, finalizers) and its status subresource: state, reason of the `Ready` condition, processing digest and since, last processing digest, revision, applied generation, inventory |
| `reference` | what the referenced config map or secret contains |
| `owned`, `content`, `ready` | the dependent objects, the digest they were applied with, whether all are ready |
| `queue`, `requeue` | the queue entry: due now, after a delay, or none; the result of the running call |
| `pc`, `loaded`, `mem`, `digest`, `err` | the running call: where it is, the component and status as loaded and changed in memory, the component digest, the error that the status handler will see |
| `stale` | the resource version has changed since the component was loaded |
| `last`, `age` | history: revision and digest of the latest `Apply`; ticks since the processing digest has changed |

The actions are the returns of `Reconcile`: `LoadNothing`; `Load` (first seen,
suspended, or on to the references); `ResolveMissing`, `Resolve` (a new digest
restarts the cycle and returns); `AddFinalizer`; `ApplyPlans`, `ApplyWorks`,
`ApplyDone`, `ApplyFails`; `DeletionBlocked`, `DeleteWorks`, `RemoveFinalizer`;
`Fails` (an error of a hook, a client or a request); then `SaveStatus` or
`StatusLost`. `Outcome` is the switch of the status handler, `Delay` what
becomes of the result. Around them: `Edit`, `DeleteComponent`,
`ChangeReference`, `ReleaseForeignFinalizer`, `BecomeReady`, `Flicker`,
`Trigger`, `Tick` and `Crash`.

Abstractions:

* `Apply` proceeds with every call: it adds to the inventory and returns; it
  writes all objects; it waits; it deletes the redundant ones; it returns true.
  `Delete` likewise. An error may come before or after the writing. Dependents
  of one digest are ready or not ready together.
* An edit stands for a change of the spec or of the annotations; the digest covers
  both. Specs of a component in deletion are not edited.
* Time passes between calls, and `processingSince` is kept as an age, up to the
  timeout. A retriable error comes back after a delay, and so does an error.
* Existing instances of managed types block a deletion like foreign finalizers.
* A failing read of the component itself is a retry without any effect, and has
  no action.
* The patch that adds the finalizer overwrites the component in memory with the
  response; nothing but its status is used afterwards, which the patch leaves alone.

## The shared services

One `component.Reconciler` works on several components at a time, never twice on
the same one. `Services` composes what these calls share. A call gets a client
for the local cluster and one for the target (`GetLocalClient`,
`GetTargetClient`), works for any time, tells the backoff (`EndCall`), and
records an event (`LookUpTime`, `RecordEvent`, in two steps because the time is taken
before the lock). `Sweep` and `Tick` run beside them.

* `Backoff`: the latest activity of an item and how often the limiter was asked for
  it, up to the number beyond which the answer does not change. `Next` forgets
  the previous activity. A call that made progress forgets and asks, in one step:
  both are made by the same call, for its own component.
* `ClientFactory`: the cache, with the time until which each client is valid;
  clients are numbered, so that one that was swept and the one created for the
  same key after it are different. Get and a sweep hold the mutex.
* `DeduplicatingRecorder`: the last event per object with its time.

Which clients a call asks for (`LocalConfig`, `TargetConfig`) is modelled from
`component/reconciler.go`: impersonation, the default service account, the
namespace completed from the component, kubeconfig. The cache key is the
pair of configuration and user, for the hash in the code.

## clm

`Clm` models `clm apply` and `clm delete` as commands that anybody may run at the
same time on the same release. `release` is its config map, with a finalizer that
goes when it is deleted and its inventory is empty; each command has its own copy
(`mem`), which may still be written if nobody else has written the release since
(`fresh`, the resource version).

An item of the inventory is `kept` (it has a digest), or obsolete: `scheduled` for deletion,
`deleting`, or `blank`. `Apply` clears the phase of an item whose object is gone
(reconciler.go:891), and filters such items out only at its end (reconciler.go:919). An
error return before that leaves them in the copy, and the deferred update of the command
(apply.go:106-113) persists them. A later `Apply` does not look at a blank again, as its
digest is empty (reconciler.go:535), and drops it; `Delete` deletes its object. So a blank
is no record of its object: `Held` leaves it out, and the properties use `Held`.

`StartApply`, `CreateRelease`, `StartDelete`, `DeleteRelease`, `GetAgain` are the
beginnings of the commands; `BeginCall`, `ApplyObject`, `BeginPrune`,
`PruneObject`, `EndCall`, `CallFails` a call of `Apply` or `Delete`; `Save` and
`Wait` the loop around it; `Finish` the deferred update, whose failure makes the
command fail. A conflict in a call is put up with `MaxErrCount` times in a row,
without saving; any other error ends the command. All commands have the same
owner id, so they take each other's objects for their own, and objects are ready at
once and gone when deleted: what is at stake is the inventory. An object that is there
again while its item is `deleting` fails the command (reconciler.go:902). `Crash` kills a
command at any step.

## The algorithms

Five pure algorithms have a module each; `Algorithms` is a state machine of one
step per input, so that all are checked in one run.

* `HelmHooks` (`pkg/manifests/helm/generator.go`, `internal/helm/hooks.go`):
  types, weight and delete policies of a hook to reconcile, update and delete
  policy, apply and purge order, for an install and for an upgrade. The default
  delete policy is part of the input.
* `ChartValues` (`internal/helm/chart.go`, `pkg/manifests/util.go`): `MergeMaps`
  with Go's nil maps; what a subchart gets, from its own defaults, its parent's
  defaults, the user, global values and tags; whether it is enabled, by
  conditions and tags. Aliases and imported values are left out.
* `StatusAnalysis` (`pkg/status/analyzer.go`): hints, conditions, jobs; kstatus is
  external.
* `ManagedFields` (`pkg/reconciler/ssa.go`): the entries as merged before a
  server-side apply, and what the API server (external) then makes of the object.
* `References` (`pkg/component/reference.go`, `internal/walk`): each reference is
  loaded with a request of its own; keys, fallback keys, the policy for missing
  objects, several errors, the digest.

## Properties

Of the dependents, stated in `DependentsProperties`, and `ImplementsLedger` in
`DependentsRefinement`:

| property | kind | says |
|---|---|---|
| `TypeOK` | invariant | the types |
| `IndInv` | invariant | types, and the relations that make the ownership properties inductive |
| `CallInv` | invariant | what the call knows of what it has handled, which makes the properties of orders and results inductive |
| `OwnedIsTracked` | invariant | whatever carries our owner id is in the persisted inventory |
| `WriteAhead` | action | the key was persisted before the object became ours |
| `AdoptionRespected` (`Adoption`) | action | others' objects are taken over only as the adoption policy allows, unless others made them unacceptable after their keys were accepted |
| `DeletesOnlyOwned` | action | no delete request hits an object of others, except one that appeared after it was found absent |
| `AppliesInOrder` | action | nothing is created before everything of lower apply order is completed, or in sync and ready, or in `spoiled` |
| `InstancesLast` | action | in a wave, APIServices follow regular objects and instances of managed types follow both, in the same sense, or as the persisted inventory says |
| `DeletesInOrder` | action | nothing is deleted before everything of lower delete order, its instances, its contents are gone |
| `TypeOutlivesInstances` | invariant | a terminating type keeps the finalizer while there are instances, unless it is in `unguarded`; an APIService may have lost it to instances in `latecomers`, a CRD to none |
| `DoneMeansSynced` | invariant | `Apply` returned true: what is purged is completed, what else is rendered is in sync and ready or in `spoiled`, nothing redundant is left |
| `PurgedIsGone` | invariant | `Apply` returned true: purged objects are gone, unless they are in `revived` |
| `NothingRedundant` | invariant, violated | `Apply` returned true: nothing redundant is left, without the exception for `resurrected` |
| `NeverAlreadyDeleted` | invariant, violated | no deleted object is found alive and ours |
| `Converges` | liveness | eventually the cluster is and stays in sync |
| `DeletionCompletes` | liveness | a deleted component goes away, with everything it owns |
| `ImplementsLedger` | refinement | every step is one of the write-ahead ledger, or none |

`released` excuses objects that were orphaned on purpose. `resurrected` excuses
exactly the objects of the first finding; it is there so that the ownership
properties say something precise about all others. `spoiled`,
`revived`, `unguarded` and `latecomers` excuse in the same way what a call cannot know: that
others have changed or created an object behind its back, and that a save was lost.

Of the component, stated in `ComponentProperties`:

| property | kind | says |
|---|---|---|
| `FinalizerGuards` | invariant | while there are dependents, the component exists and has the finalizer |
| `ReadyMeansApplied` | invariant | a persisted `Ready` tells of the generation and the digest that were applied |
| `NeverPanics` | invariant | the states the status handler calls impossible do not occur, and `Apply` gets the digest in the status |
| `TimeoutDeserved` | invariant | a timeout is told only if the digest has been processed for the full time |
| `NeverForgotten` | invariant | a component that exists is queued between calls |
| `KeepsLedger` | refinement | the status is a write-ahead ledger of the dependents |
| `TimeoutRunsOn` | action | only readiness, a new digest or deletion sets back the clock |
| `RevisionCountsDigests` | action | the next `Apply` has the same digest and revision or another digest and the next revision, provided the status in between was saved |
| `Settles` | liveness | once the disturbances end: ready, or timed out, or pending for a missing reference, or suspended, as it fits |
| `DeletionEnds` | liveness | a deleted component goes away unless its reference cannot be resolved |

Of the shared services, stated in `Services`:

| property | kind | says |
|---|---|---|
| `InUseNotShutDown` | invariant | no client is shut down during a call that is not older than the validity, whoever else uses it |
| `RightClients` | invariant | a call has clients that were created for its own configuration |
| `DelaysCountInARow` | invariant | the delay is determined by the delays in a row for the same activity |
| `RepeatedAfterExpiration` | action | equal events are dropped only within the expiration, repeated only after it |

Of `clm`, stated in `Clm`:

| property | kind | says |
|---|---|---|
| `NoSilentLoss` | invariant | what is in the cluster and in the release not, or as a cleared item only, is known to a command that is running, has failed or was killed |
| `SuccessesAreNumbered` | invariant | two successful applies of a release have different revisions |
| `SuccessCleansUp` | action | a success that nobody interfered with leaves exactly what was rendered, whatever was left undone before, except for objects in `leaked`: those of which the release had no item, or a cleared one only, when the command started |
| `CommandsEnd` | liveness | commands do not undo each other's work for ever |

Of the algorithms, stated in `Algorithms` with the expectations in the modules:

| property | says |
|---|---|
| `HooksInOrder` | hooks run before and after, in the order of weights, are purged in time, and stay rendered in upgrades |
| `SubchartSees` | a subchart sees the value of the most specific source, also when it is rendered again; conditions, then tags, enable it |
| `CurrentDeserved` | `Current` only if told by the object itself, up to date, with hints and well-known conditions met |
| `FieldsReclaimed` | an update leaves what is desired or managed by others, also after a failure in the middle, and the next one has nothing to prepare |
| `ReferencesTold` | the digest changes if and only if what is referenced does (`Content`), not because of other keys of the same objects; what is used is what is referenced; nothing unloaded is used outside deletion; missing objects hinder a deletion only if they must |

`EnabledAsAsked` is the part of `SubchartSees` about conditions and tags, with a theorem
of its own.

## Runs

Where no module is named, a run instantiates `MCDependents`.
Deadlock is not checked: a component that is
gone is not reconciled any more, and a component whose deletion is refused, in
a cluster where nothing moves, waits. Commands end, time and
calls of `Services` are bounded, and an algorithm has one step. Whether the
system stops where it should not is the question of the liveness properties.

| run | instance | disturbances | what it shows |
|---|---|---|---|
| `Churn` | two objects, three revisions: both; one, changed; the other, to be orphaned | crash, fail or lose (1), edits 2 | `IndInv`, `OwnedIsTracked`, `DoneMeansSynced`, `WriteAhead`, `ImplementsLedger` through every interleaving of edits, saves and one failure |
| `Foreign` (`MCAdoption`) | two objects of different delete orders, in three revisions: rendered; removed; one never to be adopted, the other always | create, takeover, delete (2), edit 1 | `DeletesOnlyOwned`, `AdoptionRespected` and `CallInv` against other actors and changes of the policies |
| `Hooks` | three apply orders; a purged job, an application, an object that is recreated with each revision | lose or expire (1), edit 1 | `AppliesInOrder`, `PurgedIsGone` |
| `Types` | a CRD, an instance, an operator, an APIService, an instance of it that only others create; all but the operator removed by an edit | crash, lose, create, takeover or flicker (1), edit 1 | `TypeOutlivesInstances`, `InstancesLast`, `DeletesInOrder` |
| `Spaces` | a namespace that may exist before, its content, content of a missing namespace | crash or delete (1), edit 1 | `TypeOK`, `DeletesInOrder` |
| `Live` | a CRD and its instance | crash, lose or flicker (2), edit 1; fairness | `Converges`, `DeletionCompletes` |
| `Redundant` | two objects, rendered by one revision and not by the other | fail (1), edits 3 | `NothingRedundant` is violated (a finding) |
| `Already` | the same | none; edits 3 | `NeverAlreadyDeleted` is violated (a finding) |
| `Lifecycle` (`MCComponent`) | two contents of the reference with different dependents, one of them never ready; or it is missing; timeout of two ticks; suspension and a foreign finalizer at will | one of crash, retriable error, error, lost status update, flicker, trigger; edit 1, reference change 1; fairness | all properties of the component |
| `Services` (`MCServices`) | two interchangeable components with one service account and a target each | time 3, calls 4, validity and expiration 1 | the properties of the shared services |
| `Commands` (`MCClm`) | two applies that render one key each, and one delete; or three applies that render one key, both, none | conflict, fail, timeout or crash of one apply of the first set (2); fairness | the properties of `clm` |
| `Algorithms` (`MCAlgorithms`) | sets of inputs, see the module | | the properties of the algorithms |

**Bounds.** `MaxDisturbances` bounds crashes, failing requests and foreign actors
together, `MaxEdits` the changes of the component, its deletion among them. The
reconciler itself is not bounded: calls repeat for ever, and the state space is
finite because inventories, phases and objects are. One crash or failure can
hit at any point of any call, and the calls after it must repair it; the edits
decide whether the saves in between are lost. Two objects are enough for the
order between them, for one item failing after another one has been handled,
and for an order's wave being empty or not; where three or four roles meet (a type, its
instance, something unrelated, a late object, an instance of that) the run has one
object of each. In `Types`, one creation by others is enough for the races with
the look for instances, before and after it. The ownership properties are proved for all bounds.

`Lifecycle`: one edit and one change of the reference give three digests, among
them one that returns; a single disturbance can hit any step of any call, and
calls repeat for ever. A timeout of two ticks tells a clock that runs on from one
that starts again. `Services`: five clients suffice for each of the three
configurations to be created, swept and created again within three ticks; four
calls for a second activity and a return to the first; `FastDelays` and
`MediumDelays` of one let the limiter reach its limit. `Commands`: an apply that
takes over what another has left, and a delete between them; one conflict is put
up with, the second is not. The second set, which nothing disturbs, is the one in which
cleared items are persisted, created again and dropped (`MCInit` chooses the set). The bounds of time, calls, disturbances and commands
are gone in the theorems. `Algorithms`: both ends and the middle of the weights;
every source of a value sets nothing, a leaf, or any entries of a map with two
(the theorem is about any number of entries); all combinations of the
conditions of a kind; every combination of managers of two fields; pairs of
references and of what is found for them.

Each property of a passing run has a mutant of a mapped definition in
`PROJECT.json` (the mutated operator precedes the original in the module, marked
"Mutant of") which makes the same run fail: for example, not awaiting deletions breaks
`DeletesInOrder`, going on without saving breaks `WriteAhead`.

## Fairness

`FairSpec` assumes:

* `WF_vars(Reconcile)`: the running call goes on, and a new one starts. Every
  return of `component.Reconciler.Reconcile` for a component with a finalizer
  leads to another call: with an error, through the queue's rate limiter; while
  processing or deleting, through `RequeueAfter`; when ready, through the
  requeue interval; and edits trigger watches.
* `WF_vars` of `BecomeReady(k)`, `FinishDeletion(k)`, `CascadeDeletion(k)`: the
  cluster's controllers make an object ready some day and remove what is
  deleted and not held back. Without it no operator could promise anything.

Weak fairness is enough: none of these is disabled and enabled for ever by others,
once disturbances and edits have ended. That they end is the bound's part: a
component edited for ever during every call never saves anything, and
`Converges` would be wrong. No fairness is assumed of crashes, failures, users
and foreign actors.

For the component (`ComponentReconciler!FairSpec`): `WF_vars(Reconcile)`, as above;
`WF_vars(Tick)`, delays come to an end; `WF_vars(BecomeReady)`, dependents become
ready unless their content is one that never does; and
`WF_vars(ReleaseForeignFinalizer)`, others let go of the component. Retriable
errors, crashes and lost updates are bounded, not fair; a reference stays missing
if nobody creates it, and `Settles` and `DeletionEnds` say what happens then. For
`clm`: `WF_vars(Step(p))`, a command that was started runs, until it ends or is
killed.

## Proofs

Eight modules hold proofs. Every theorem holds for all values of the constants that
satisfy the named assumptions of the modules: any sets of keys, components or
commands, any manifests and configurations, any bounds.

| module | theorem | statement |
|---|---|---|
| `DependentsProofs` | `InductiveInvariant` | `Spec => []IndInv` |
| | `Tracking` | `Spec => []OwnedIsTracked` |
| | `WritesAhead` | `Spec => WriteAhead` |
| | `DeletionOfOwned` | `Spec => DeletesOnlyOwned` |
| | `TypesOutlive` | `Spec => []TypeOutlivesInstances` |
| `CallProofs` | `CallInvariant` | `Spec => [](IndInv /\ CallInv)` |
| | `TypeCorrectness` | `Spec => []TypeOK` |
| | `SuccessMeansSynced` | `Spec => []DoneMeansSynced` |
| | `SuccessMeansPurged` | `Spec => []PurgedIsGone` |
| | `OrderOfCreations` | `Spec => AppliesInOrder` |
| | `OrderInWave` | `Spec => InstancesLast` |
| | `OrderOfDeletions` | `Spec => DeletesInOrder` |
| `AdoptionProofs` | `AdoptionInvariant` | `AdoptionSpec => []AdoptionInv` |
| | `AdoptionPolicy` | `AdoptionSpec => AdoptionRespected` |
| `LedgerProofs` | `Refinement` | `Spec => ImplementsLedger` |
| `ComponentProofs` | `TypeCorrect` | `Spec => []TypeOK` |
| | `FinalizerIsGuarding` | `Spec => []FinalizerGuards` |
| | `ReadyIsApplied` | `Spec => []ReadyMeansApplied` |
| | `NoPanic` | `Spec => []NeverPanics` |
| | `TimeoutIsDeserved` | `Spec => []TimeoutDeserved` |
| | `NothingForgotten` | `Spec => []NeverForgotten` |
| | `ClockRunsOn` | `Spec => TimeoutRunsOn` |
| | `RevisionsCount` | `Spec => RevisionCountsDigests` |
| | `LedgerKept` | `Spec => KeepsLedger` |
| `ServicesProofs` | `NotShutDown` | `Spec => []InUseNotShutDown` |
| | `ClientsAreRight` | `Spec => []RightClients` |
| | `DelaysCount` | `Spec => []DelaysCountInARow` |
| | `EventsRepeated` | `Spec => RepeatedAfterExpiration` |
| `ClmProofs` | `NothingLostSilently` | `Spec => []NoSilentLoss` |
| | `SuccessesNumbered` | `Spec => []SuccessesAreNumbered` |
| | `SuccessIsClean` | `Spec => SuccessCleansUp` |
| `AlgorithmsProofs` | `HookOrders` | `Spec => []HooksInOrder` |
| | `CurrentOnlyIfDeserved` | `Spec => []CurrentDeserved` |
| | `DigestsAreTrue` | `Spec => []ReferencesTold` |
| | `UpdatesReclaim` | `Spec => []FieldsReclaimed` |
| | `SubchartsEnabled` | `Spec => []EnabledAsAsked` |
| | `SubchartsSee` | `Spec => []SubchartSees` |

In all of them there is one lemma per action that preserves the inductive
invariant, over lemmas for the steps that actions share, and the theorems follow
from the invariant.

**Dependents.** `OwnedIsTracked` is not inductive: that an object of ours is in
`saved` does not say that it stays there when `mem` is saved, nor that the item
survives the dropping of items without a phase. `IndInv` adds what is needed:

* `TrackedInv`: an object of ours has an item *with a phase* in `saved` and in
  `mem`; then neither saving nor losing `mem` forgets it, and `Remaining`, which
  drops items without a phase, does not drop it.
* `PersistedInv`: while the cluster is written, every key in memory is in the
  persisted inventory (what the early return of `Apply` is for), and an item
  without a phase in memory was loaded without one, until deletions begin.
  An object that becomes ours is therefore covered, or recorded in
  `resurrected`.
* `CursorInv`: what the call is working on is in its inventory; if the resource
  version has not changed, the object is as it was read, and an object that was
  not ours when it was read is not ours now, because nobody else gives it our
  owner id. So an item may lose its phase: the object is gone or foreign.

Steps that many actions share have lemmas of their own (`Return`, `Handled`, `Enter`,
`Request`, `RequestDeletion`, a change elsewhere), stated over the frame they
have in common. `NextIndInv` puts them together by the structure of `Next`. The
action properties follow from `IndInv` and one look at each action that can make
an object ours or delete it.

**Types and instances.** `TypesInv` strengthens `TypeOutlivesInstances`: a type of ours
without the finalizer is being deleted and has no instances but `latecomers`; the type
that is looked at (`FinalizeType`, `ReleaseType`, after the deletion request) is
being deleted; and if it has not changed since its instances were looked for, it
has none but `latecomers`. What is created after the look is an instance of an
APIService, because a terminating CRD refuses it, and is recorded; what was created
before was found. Only `OrphanObject` takes the finalizer from a type that may have
other instances, which `unguarded` records.

**Orders and results of a call.** What was handled first must still hold when
something later is created or deleted, and that is not said by the position in
the loop alone. `CallInv` is inductive relative to `IndInv`:

* `PhaseInv`: the inventory of an `Apply` has the digests of what is rendered, and the
  phases tell what is redundant, in memory and as persisted. With `Delete` this is
  not so, which is harmless as no `Apply` follows.
* `ApplyInv`: everything of lower apply order than what is left to do is settled
  (completed, or in sync and ready, or spoiled by others in between); of the current
  wave, only if nothing has set `waiting`. What the call has read tells about the
  cluster now, or others have changed it since. `BlockersInv` is the same for the
  classes within a wave, up to the trust in a phase that was persisted before.
* `DeleteInv`: what remains is in the rest of the loop, or in the current wave with
  `waiting` set; everything that is rendered is still settled when deletions
  begin.
* `RevivedInv` and `DigestInv`: an object of ours is not completed, and an object
  with our digest is ours, unless a save was lost in between.

`spoiled` was found this way: without it `DoneMeansSynced` is not invariant, as others
can change an object between its turn in the loop and the return.

**Adoption.** `Apply` checks the owner of an object in one call and writes it in a
later one, after the inventory was saved. `Adoption` adds a history variable to
`Dependents` (`AdoptionIsHistory`: its behaviours are behaviours of `Dependents`, so
`IndInv` holds of them): `contested`, the keys of the inventories whose objects others
have made unacceptable to the policies, be it by creating or taking over the object or by
changing the component. `AdoptionInv` says that every other key in the persisted
inventory or in memory is acceptable, under the policies of the component and of the
running call. The reconciler keeps this, as it lists a key only after the check
(`PlanAdopts`), and later changes no owner of a listed object but to its own
(`HarmlessInv`, with one lemma each for requests, local steps and the steps around
calls). The one step for which that is not plain creates missing namespaces, without an
owner: such a namespace is never listed, since the validation of orders accepts no
rendered content in a namespace that is about to be deleted.

**Ledger.** Under `IndInv` every action is mapped to a step of the ledger: a save
to `Record` (by `TrackedInv`), a write to `Acquire` (by `PersistedInv`), an
orphaning to `Excuse`, what others do to `Lose`. The history variables move with
the steps that the ledger excuses them in.

**Component.** None of the properties is inductive. `Guarded` is the heart: there
are dependents only with a finalizer, and they are in the persisted inventory.
For it to be preserved, a call must know things of what it has loaded
(`Running`): the finalizer that it has seen is still there, because only the
call itself removes it; a component that was being deleted still is; what is
owned is in the inventory in memory, too. `Stored` and `Handling` carry what a
`Ready` means from `ApplyDone` through the status handler into the API server, and
`Clock` relates the time in memory to the history `age`. `KeepsLedger` is proved
like the other refinement, from `Guarded` and `Running`.

**Services.** `CacheInv`: a key tells its configuration, and no two keys share a
client. `InUse`: the client of a running call is cached until `since + Validity`
at least, unless the call is older than that; a sweep drops only what has expired, and
a `Get` of another call only extends. `EventInv`: the recorder remembers the last
shown event, or that one is older than the expiration by the real time `now`, which
never is before a time taken earlier: so taking the time before the lock does no
harm.

**clm.** `MindedInv`: an object that the release does not hold (in the sense of `Held`) is
held by a command that has not succeeded, and also one that a command about to
write the release would strike off or persist as cleared. `NumberInv`: a copy that may be written has a
revision above those of all successes of the same release. `AloneInv`: as long as a
command has the cluster for itself (`alone`), all that is there was not held by the
release when it started or is held by its copy, what it has applied is its own, and
what it has cleared or struck off is gone; during the loop over the objects its copy
has what is rendered, and other items only if they are obsolete. `DeletingInv`
relates its copy to a release in deletion.

**Algorithms.** Case distinctions over the hook types, hints and findings. For managed
fields, `Tidy` says what a list of entries looks like after the preparation (`PreparedTidy`)
and after an update (`AppliedTidy`): one entry of ours behind all others, nothing
else to reclaim; such a list is left alone by the next preparation. The last of our
entries, the first condition that is found and the state of the loop over the tags are
numbers and functions on them, and so is the first of the keys of a reference that is
there (`Hits`); for references, `LoadsContent` says that what is loaded is the
`Content`, from which `DigestsTellContents` follows, over all references. What
induction would give follows from the least
counterexample (`LeastNumber`), as the natural numbers are well-founded by a library
theorem without an operator parameter. So `SubchartsEnabled` holds for any number of
tags, and the existence of the recursive function `TagLoop` is a lemma (`LoopExists`).

The values of subcharts result from several merges of maps within maps. `Part` is what
some of the sources set at a path, by the definition of `Expected`. `Join` says that
merging what the sources in `I` set with what those in `J` set gives what both set, if
those of `J` that are not in `I` come after all of `I` and no leaf is set over a
map; sources that occur on both sides do no harm, which is why a second rendering, with the
user's values changed by the first, comes to the same. `UnderMerges`, `SubMerges` and
`TopMerges` lift this through the levels of the maps, `DepValuesMerge` through the
sharing of global values and tags, and `RenderedAsExpected` follows the code from merge to
merge. There may be any number of entries below a path; the depth of the maps and the paths are
those of the model.

TLC checks `IndInv` of `Dependents` in run `Churn` and `CallInv` in `Foreign`. Every
safety property of a passing run is a theorem. Left to TLC alone is all liveness, which
is out of this prover's reach.

## Findings

Both come from one cause: `Apply` returns early, in order to be saved, when it
has *added* items (`numAdded`, reconciler.go:586), but not when it has given
existing items a new phase. A persisted inventory can therefore contradict a
cluster that `Apply` has written meanwhile, if the status update is refused
because the component was edited.

1. `Redundant` (reconciler.go:535). A failing read in the deletion loop makes
   `Apply` return with items whose phase was already cleared, because their objects are
   gone; these are persisted. The object is rendered again and created, the
   save of that call is refused, and the object is no longer rendered. The item
   has an empty digest, so it is taken for one already scheduled for deletion;
   it has no phase, so it is dropped. `Apply` returns true and the object stays,
   owned and in no inventory. `clm` gets there without any disturbance, by three
   `clm apply`: one fails in the deletion loop and persists the cleared item, a
   slower one has created the object again and then fails to save, and a third
   one drops the item and succeeds. If `leaked` did not include the objects of
   cleared items, TLC would find this in run `Commands`.
2. `Already` (reconciler.go:901). The same with an item persisted as `Deleting`.
   The next call finds the object alive, owned and not deleting, which the code
   calls "really strange", and every further call returns that error. It takes
   edits at unlucky moments only; nothing has to fail. With `clm`, where each
   command ends with that error, it takes two commands at the same time.

Observed on the way and not the subject of a run of its own:

* The documentation (`website/docs`, dependents) says that delete policies have no
  effect on redundant objects, while the code honours `OrphanOnApply`.
* The revision is raised in memory (component/reconciler.go:538) and handed to the
  generator before it is saved. If the status update is lost, the next call may
  render another digest with the same revision, against helm.md:31 and
  kustomize.md:57 of the documentation. This is the proviso of
  `RevisionCountsDigests`.
* The timeout clock starts with the first unfinished `Apply`
  (component/reconciler.go:569). A component whose reference is missing, or whose
  hooks fail, from the beginning never gets there: it stays `Pending` for ever, which
  `Settles` states, although reconciler.md:194-201 describes a timeout for such states.
* The clock also starts again when a component flips from ready to processing,
  in spite of the comment at component/reconciler.go:297.
* `notFoundPolicy=ignoreOnDeletion` ignores a missing object, not a missing key in
  it; and a component in deletion whose reference is missing, without the policy, is
  not deleted until it is there again.
* References in map entries that are no pointers are not addressable for `Walk`,
  and are not loaded.
* Merging a value that is no map over a map writes a nil map instead
  (`pkg/manifests/util.go:36`), and merging further entries into that one would be a
  write to a nil map.
* The backoff of a component is not forgotten when it has been deleted
  (component/reconciler.go:274): the next one of the same name inherits its delay.
* Two `clm` commands: an object created by one while another removes the release is
  left owned and unrecorded. The first command reports an error, which is what
  `NoSilentLoss` states.
* A hook whose purge order is -1 is deleted at the end of the first wave from there
  on, which may come after the regular objects.
* `formatTimestamp` of `clm/cmd/util.go` divides by 24 before multiplying by an hour.

## Limits of the properties

Some properties hold under conditions narrower than one might wish. The runs are
bounded so that the condition holds, and here is what lies beyond:

* `AdoptionRespected` excepts contested objects. The code checks the owner when a key is
  new to the inventory (reconciler.go:474), not when an object is updated (the TODOs at
  reconciler.go:475 and 760 say so), against the doc of `Apply` (reconciler.go:239).
  Without the exception TLC shows an object of ours that another owner takes over, and
  the next call updates and so takes back, whatever its adoption policy is; and, with
  nobody else involved, an object without an owner that was accepted, and is taken over
  although the component has meanwhile been changed to the policy `Never`. Deletions do
  check, see `DeletesOnlyOwned`.
* `PurgedIsGone`: with two edits and lost saves, an item persisted as
  `Completed` may describe an object that was created again (the findings'
  cause); these are in `revived`.
* `InstancesLast`: decided by phases, which may say `Ready` of an object that
  others have deleted since, or that a lost save did not mark: hence the case of an
  object that was ready when the inventory was saved last.
* `AppliesInOrder`, `DoneMeansSynced`: an object changed by others after it was found
  ready is not in sync any more; it is in `spoiled` until the call ends.
* `Converges`: a CRD with update policy `Recreate` and an instance in the same
  component does not converge: the instance waits for the type, the type's
  removal for the finalizer, the finalizer for the instance's removal, while
  `Apply` does not delete it. The same holds for a CRD deleted by hand.
* `DeletesOnlyOwned`: without an object there is no resource version to insist
  on; comments in the code concede it.
* `TypeOutlivesInstances`: a type that was orphaned by policy loses its finalizer.
  If that save is lost and the type is rendered again with the same digest, it is
  ours without the finalizer until it is applied again. And between the look for the
  instances of an APIService and its end, others may create an instance, which the
  code does not notice: listing and removing the finalizer are two requests
  (reconciler.go:1341 and 1350). The property excepts these instances only.
* `SuccessCleansUp`: an object of which the release has a cleared item only when the
  command starts is forgotten by it, see the first finding. `NoSilentLoss` says that a
  command has reported an error, or was killed, before that.
* `SubchartSees` leaves out a leaf merged over a map, see the nil maps above.
* `FieldsReclaimed` supposes that our own entry has no subresource, which the
  reconciler never applies.
* `ReadyMeansApplied` speaks of the persisted status: dependents may have changed
  since, and references are not watched.
* `RepeatedAfterExpiration` is about the recorder: an event may still be lost on its
  way to the API server.

## What is not modelled

In the modelled parts:

* Two reconcilers of dependent objects with different owners, which meet at a missing
  namespace (reconciler.go:618): the other one is a foreign creation or a failing
  request in `Dependents`.
* Versions of types (a type is one object), the wording of the status, events as far
  as they are not deduplicated, metrics.
* Generic references: `Load` is code of the user.
* A failure to create a client, which returns an error and changes nothing.
* Edits of a component in deletion.

Whole components: the rendering of templates, charts and kustomizations, and the
transformers, produce text from text and keep no state; the read-only commands of
`clm`, the metrics, the public types and their accessors, the scaffold and the test
environment keep none either.

## Plan

Done: the core with its ledger; the component; the shared services; `clm`; the
algorithms; the proofs above, of all safety properties that the runs check.

What would come next: two instances of `Dependents` over one cluster, for namespaces
created on the fly and for objects that change hands.
