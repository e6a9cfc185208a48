------------------------- MODULE ComponentProperties -------------------------
(***************************************************************************)
(* What the reconciler of components promises.                             *)
(***************************************************************************)
EXTENDS ComponentReconciler

KnownKeys == IF component.exists THEN status.inventory ELSE {}

Ledger == INSTANCE OwnershipLedger WITH known <- KnownKeys, excused <- {}

\* The status of the component, as it is loaded, saved and lost by Reconcile, is
\* a write-ahead ledger of the dependent objects, which ends with the component.
KeepsLedger == Ledger!Spec

\* As long as there are dependent objects the component is there to clean them
\* up: nobody got the chance to delete it without the finalizer being waited for.
FinalizerGuards == owned # {} => component.exists /\ component.finalizer

\* A component that says Ready has been applied: in the generation that it says
\* it has observed, and with the digest whose processing it has watched.
ReadyMeansApplied ==
    status.state = "Ready" =>
        /\ status.appliedGeneration = status.observedGeneration
        /\ status.lastProcessingDigest = status.processingDigest
        /\ status.processingDigest[1] = status.observedGeneration

\* What the code calls impossible: a component that is not being deleted and has
\* got no state, or one of deletion, when the status handler starts; and an Apply
\* whose digest is not the one in the status.  Each would end in a panic.
NeverPanics ==
    /\ pc = "status" /\ err = "none" /\ ~ loaded.deleting =>
          mem.state \in {"Ready", "Processing", "Pending", "Error"}
    /\ pc = "reconcile" /\ ~ loaded.deleting => mem.processingDigest = digest

\* The timeout counts from a moment at which the current digest was already
\* being processed, so a component that changes is given its full time again.
TimeoutDeserved ==
    /\ status.processingSince =< age
    /\ status.reason = "Timeout" => age = Timeout

\* The clock of the timeout runs on, through errors, retries, suspensions and
\* crashes, until the component is ready, changed or deleted.
TimeoutRunsOn ==
    [][status.processingSince # NotProcessing /\ status'.processingSince < status.processingSince
          => \/ status'.state = "Ready"
             \/ status'.processingDigest # status.processingDigest
             \/ loaded.deleting]_vars

\* Calls of Apply are numbered by the digests they are given: the number is the
\* same for the same digest and the next one for another, provided that the
\* status of the call before was saved, or that of a call with its number.
RevisionCountsDigests ==
    [][last' # last /\ status.revision = last.revision
            /\ status.lastProcessingDigest = last.digest
          => last'.digest # last.digest /\ last'.revision = last.revision + 1]_vars

\* A component that exists is never forgotten: every return that leaves it in the
\* cluster has arranged for another call.
NeverForgotten == component.exists /\ pc = "idle" => queue # "none"

\* Deletion waits for the reference.
Unresolvable ==
    \/ reference = KeyMissing
    \/ reference = Missing /\ ~ (component.deleting /\ IgnoreOnDeletion)

Settled ==
    \/ component.suspended /\ status.reason = "Suspended"
    \/ ~ component.suspended /\ Unresolvable /\ status.state = "Pending"
    \/ /\ ~ component.suspended /\ reference \in NeverReady
       /\ status.state = "Error" /\ status.reason = "Timeout"
    \/ /\ ~ component.suspended /\ reference \in Contents \ NeverReady
       /\ status.state = "Ready" /\ status.processingDigest[2] = reference
       /\ owned = RenderedFrom[reference]

\* Once changes and disturbances have ended, the component gets into the state
\* that fits and stays in it: Ready, or Error if its dependents do not become
\* ready in time, or Pending while its reference is missing or it is suspended.
Settles ==
    <>[](component.exists /\ ~ component.deleting =>
            Settled /\ status.observedGeneration = component.generation)

\* A deleted component goes away, suspended or not, unless its reference cannot be
\* resolved.
DeletionEnds == <>[](component.exists /\ component.deleting => Unresolvable)
=============================================================================
