---------------------------- MODULE AdoptionProofs ----------------------------
(***************************************************************************)
(* Proof that the reconciler takes over only what the adoption policies    *)
(* allow, unless others interfere, for all values of the constants.        *)
(***************************************************************************)
EXTENDS Adoption, DependentsProofs

\* What a step of the reconciler may make of the cluster: among the listed objects, it
\* changes the owner of none but those that become ours.
Gentle(c) ==
    \A k \in Listed : c[k].exists =>
        c[k].owner = "me" \/ (cluster[k].exists /\ c[k].owner = cluster[k].owner)

\* What it may make of the inventories, the policies and the missing namespaces.
Narrower ==
    /\ DOMAIN saved' \subseteq Listed /\ DOMAIN mem' \subseteq Listed
    /\ manifest' = manifest /\ rev' \in {manifest, rev}
    /\ pc' = "namespaces" => pc = "namespaces" /\ todo' \subseteq todo

\* A step of this kind keeps the invariant.
LEMMA HarmlessInv ==
  ASSUME AdoptionInv, Narrower, Gentle(cluster'), contested' = contested \cap Listed'
  PROVE  AdoptionInv'
  <1>1. Listed' \subseteq Listed
    BY DEF Narrower, Listed
  <1>2. contested' \subseteq Listed'
    OBVIOUS
  <1>3. ASSUME NEW k \in Listed' \ contested'
        PROVE  Acceptable(k)'
    <2>1. k \in Listed /\ Acceptable(k)
      BY <1>1, <1>3 DEF AdoptionInv
    <2> SUFFICES ASSUME cluster'[k].exists, NEW r \in {manifest', rev'}, k \in Rendered(r)
                 PROVE  Adoptable(Manifest[r][k].adoption, cluster'[k].owner)
      BY DEF Acceptable
    <2>2. CASE cluster'[k].owner = "me"
      BY <2>2 DEF Adoptable
    <2>3. CASE cluster[k].exists /\ cluster'[k].owner = cluster[k].owner
      <3>1. r \in {manifest, rev}
        BY DEF Narrower
      <3> QED
        BY <2>1, <2>3, <3>1 DEF Acceptable
    <2> QED
      BY <2>1, <2>2, <2>3 DEF Gentle
  <1>4. pc' = "namespaces" => todo' \cap Listed' = {}
    BY <1>1 DEF Narrower, AdoptionInv
  <1> QED
    BY <1>2, <1>3, <1>4 DEF AdoptionInv

\* Requests that change no owner are gentle.
LEMMA GentleRequests ==
  ASSUME cluster \in [Keys -> Objects], Listed \subseteq Keys, NEW k \in Keys
  PROVE  /\ Gentle(cluster) /\ Gentle(MarkDeleting(cluster, k))
         /\ Gentle(DropFinalizer(cluster, k))
         /\ \A digest, finalizer : Gentle(Put(cluster, k, "me", digest, finalizer))
         /\ k \notin Listed =>
               \A digest, finalizer : Gentle(Put(cluster, k, "none", digest, finalizer))
  <1>1. Gentle(cluster)
    BY DEF Gentle
  <1>2. Gentle(MarkDeleting(cluster, k))
    BY DEF Gentle, MarkDeleting, Objects
  <1>3. Gentle(DropFinalizer(cluster, k))
    BY DEF Gentle, DropFinalizer, Objects
  <1>4. ASSUME NEW digest, NEW finalizer
        PROVE  Gentle(Put(cluster, k, "me", digest, finalizer))
    BY DEF Gentle, Put
  <1>5. ASSUME k \notin Listed, NEW digest, NEW finalizer
        PROVE  Gentle(Put(cluster, k, "none", digest, finalizer))
    BY <1>5 DEF Gentle, Put
  <1> QED
    BY <1>1, <1>2, <1>3, <1>4, <1>5

\* The inventory after marking an item has the same keys.
LEMMA MarkedKeys ==
  /\ \A inv, k, phase, applied : DOMAIN Mark(inv, k, phase, applied) = DOMAIN inv
  /\ \A inv, k, phase : DOMAIN SetPhase(inv, k, phase) = DOMAIN inv
  /\ \A phase : DOMAIN Applied(phase) = DOMAIN mem
  BY DEF Mark, SetPhase, Applied

\* How the handling of a key ends.
Onward ==
    /\ DOMAIN mem' \subseteq DOMAIN mem
    /\ \/ pc' = pc /\ todo' \subseteq todo
       \/ pc' = "save"

\* Returning, or handling a key, goes on with the call.
LEMMA OnwardSteps ==
  ASSUME NEW k
  PROVE  /\ \A r : Return(r) /\ UNCHANGED mem => Onward
         /\ \A inv, w : Handled(k, inv, w) /\ DOMAIN inv = DOMAIN mem => Onward
         /\ Deleted => Onward
  <1>1. \A r : Return(r) /\ UNCHANGED mem => Onward
    BY DEF Return, Onward
  <1>2. \A j, inv, w : Handled(j, inv, w) /\ DOMAIN inv = DOMAIN mem => Onward
    BY DEF Handled, Onward
  <1>3. ASSUME Deleted
        PROVE  Onward
    <2> DEFINE inv == Mark(mem, cur, PhaseAfterDelete[pc],
                           mem[cur].applied \/ pc = "apply")
    <2>1. Handled(cur, inv, TRUE)
      BY <1>3 DEF Deleted
    <2>2. DOMAIN inv = DOMAIN mem
      BY DEF Mark
    <2> HIDE DEF inv
    <2> QED
      BY <1>2, <2>1, <2>2
  <1> QED
    BY <1>1, <1>2, <1>3

\* The running call goes on with the frame of all its steps.
LEMMA OnwardNarrower ==
  ASSUME NEW stage, InCall(stage), Onward
  PROVE  Narrower
  BY DEF InCall, Onward, Narrower, Listed, componentVars, callVars

\* A request to delete is harmless.
LEMMA RequestDeletionHarmless ==
  ASSUME IndInv, Listed \subseteq Keys, step = "act", RequestDeletion
  PROVE  Onward /\ Gentle(cluster')
  <1>1. cur \in Keys /\ cluster \in [Keys -> Objects]
    BY InMemory, SameCluster
  <1>2. Fail => Onward
    BY OnwardSteps DEF Fail
  <1>3. Onward
    <2>1. UNCHANGED <<mem, pc, waveVars, cur, seen, fresh, result>> => Onward
      BY DEF Onward, waveVars
    <2> QED
      BY <1>2, <2>1, OnwardSteps DEF RequestDeletion, Refused, Locally, Request
  <1>4. cluster' \in {cluster, MarkDeleting(cluster, cur)}
    BY DEF RequestDeletion, Refused, Locally, Request, Write
  <1> QED
    BY <1>1, <1>3, <1>4, GentleRequests

\* The steps of the reconciler that extend no inventory: requests, local steps of the
\* running call, and those around it.
Requests ==
    \/ CompleteObject \/ RecreateObject \/ DeleteObject
    \/ FinalizeType \/ ReleaseType \/ OrphanObject \/ CreateObject \/ UpdateObject
    \/ \E n \in Keys : CreateMissingNamespace(n)

LocalSteps ==
    \/ \E k \in Keys : ReadObject(k) \/ SkipObject(k)
    \/ NamespacesDone \/ CheckCompletion \/ CompletionsDone
    \/ BeginApplyWave \/ ObserveObject \/ EndApplyWave \/ ApplyDone
    \/ BeginDeleteWave \/ CheckDeletion \/ PostponeObject
    \/ EndDeleteWave \/ DeleteDone

AroundCalls == PlanRejected \/ StartDelete \/ Save \/ SaveLost \/ Finish \/ Crash

\* The requests of a running call are harmless.
LEMMA RequestsHarmless ==
  ASSUME IndInv, AdoptionInv, Listed \subseteq Keys, Requests
  PROVE  Narrower /\ Gentle(cluster')
  <1>1. cluster \in [Keys -> Objects] /\ (step # "read" => cur \in Keys)
    BY InMemory, SameCluster
  <1>2. Fail => Onward
    BY OnwardSteps DEF Fail
  <1>3. CASE CompleteObject \/ RecreateObject \/ DeleteObject
    <2>1. step = "act" /\ RequestDeletion /\ \E stage : InCall(stage)
      BY <1>3 DEF CompleteObject, RecreateObject, DeleteObject, ToBeDeleted, HaveRead
    <2> QED
      BY <2>1, RequestDeletionHarmless, OnwardNarrower
  <1>4. CASE FinalizeType \/ ReleaseType \/ OrphanObject
    <2>1. step # "read" /\ \E stage : InCall(stage)
      BY <1>4 DEF FinalizeType, ReleaseType, OrphanObject
    <2>2. cluster' \in {cluster, DropFinalizer(cluster, cur)}
      BY <1>4 DEF FinalizeType, ReleaseType, OrphanObject, Request, Write, Refused, Locally
    <2>3. /\ Handled(cur, SetPhase(mem, cur, ""), FALSE) => Onward
          /\ UNCHANGED <<mem, pc, waveVars, cur, result>> => Onward
      BY OnwardSteps, MarkedKeys DEF Onward, waveVars
    <2>4. Onward
      <3>1. CASE FinalizeType
        BY <1>2, <2>3, <3>1, OnwardSteps DEF FinalizeType, BeginRelease
      <3>2. CASE ReleaseType
        BY <1>2, <2>3, <3>2, OnwardSteps DEF ReleaseType, Request, Refused, Locally
      <3>3. CASE OrphanObject
        BY <1>2, <2>3, <3>3, OnwardSteps DEF OrphanObject, Request, Refused, Locally
      <3> QED
        BY <1>4, <3>1, <3>2, <3>3
    <2> QED
      BY <1>1, <2>1, <2>2, <2>4, GentleRequests, OnwardNarrower
  <1>5. CASE CreateObject \/ UpdateObject
    <2>1. step # "read" /\ \E stage : InCall(stage)
      BY <1>5 DEF CreateObject, UpdateObject, HaveRead
    <2>2. \/ cluster' = cluster
          \/ \E finalizer : cluster' = Put(cluster, cur, "me", mem[cur].digest, finalizer)
      BY <1>5 DEF CreateObject, UpdateObject, Request, Write, Refused, Locally
    <2>3. /\ Handled(cur, Applied("Creating"), TRUE) => Onward
          /\ Handled(cur, Applied("Updating"), TRUE) => Onward
      BY OnwardSteps, MarkedKeys
    <2>4. Onward
      BY <1>2, <1>5, <2>3 DEF CreateObject, UpdateObject, Request, Refused, Locally
    <2> QED
      BY <1>1, <2>1, <2>2, <2>4, GentleRequests, OnwardNarrower
  <1>6. ASSUME NEW n \in Keys, CreateMissingNamespace(n)
        PROVE  Narrower /\ Gentle(cluster')
    <2>1. InCall("namespaces") /\ n \in todo
      BY <1>6 DEF CreateMissingNamespace
    <2>2. n \notin Listed
      BY <2>1 DEF AdoptionInv, InCall
    <2>3. cluster' = cluster \/ cluster' = Put(cluster, n, "none", NoDigest, FALSE)
      BY <1>6 DEF CreateMissingNamespace, Request, Write
    <2>4. Handled(n, mem, FALSE) => Onward
      BY OnwardSteps
    <2>5. Onward
      BY <1>2, <1>6, <2>4 DEF CreateMissingNamespace, Request
    <2> QED
      BY <1>1, <2>1, <2>2, <2>3, <2>5, GentleRequests, OnwardNarrower
  <1> QED
    BY <1>3, <1>4, <1>5, <1>6 DEF Requests

\* So are the other steps of a running call, which leave the cluster alone.
LEMMA LocalHarmless ==
  ASSUME IndInv, Listed \subseteq Keys, LocalSteps
  PROVE  Narrower /\ Gentle(cluster')
  <1>1. cluster' = cluster
    BY DEF LocalSteps, ReadObject, SkipObject, NamespacesDone, CheckCompletion,
           CompletionsDone,
           BeginApplyWave, ObserveObject, EndApplyWave, ApplyDone, BeginDeleteWave,
           CheckDeletion, PostponeObject, EndDeleteWave, DeleteDone, Locally, Refused
  <1>2. \E stage : InCall(stage)
    BY DEF LocalSteps, ReadObject, SkipObject, NamespacesDone, CheckCompletion,
           CompletionsDone,
           BeginApplyWave, ObserveObject, EndApplyWave, ApplyDone, BeginDeleteWave,
           CheckDeletion, PostponeObject, EndDeleteWave, DeleteDone, HaveRead, ToBeDeleted
  <1>3. DOMAIN mem' \subseteq DOMAIN mem
    <2>1. \A k, inv, w : Handled(k, inv, w) => mem' = inv
      BY DEF Handled
    <2>2. \A phase : DOMAIN SetPhase(mem, cur, phase) = DOMAIN mem
      BY MarkedKeys
    <2>3. \A stage, keys : Enter(stage, keys) => mem' = mem
      BY DEF Enter
    <2>4. DOMAIN Remaining \subseteq DOMAIN mem
      BY DEF Remaining
    <2>5. CASE \/ \E k \in Keys : ReadObject(k) \/ SkipObject(k)
               \/ NamespacesDone \/ CompletionsDone
               \/ BeginApplyWave \/ ApplyDone \/ BeginDeleteWave \/ PostponeObject
      BY <2>1, <2>3, <2>5
         DEF ReadObject, SkipObject, NamespacesDone, CompletionsDone, BeginApplyWave,
             ApplyDone, BeginDeleteWave, PostponeObject, Locally, Fail
    <2>6. CASE CheckCompletion \/ ObserveObject \/ CheckDeletion
      BY <2>1, <2>2, <2>6
         DEF CheckCompletion, ObserveObject, CheckDeletion, Locally, Refused, Fail
    <2>7. CASE EndApplyWave \/ EndDeleteWave \/ DeleteDone
      BY <2>3, <2>4, <2>7 DEF EndApplyWave, EndDeleteWave, DeleteDone
    <2> QED
      BY <2>5, <2>6, <2>7 DEF LocalSteps
  <1>4. pc' # "namespaces"
    <2>1. /\ \A k, inv, w : Handled(k, inv, w) => pc' = pc
          /\ \A stage, keys : Enter(stage, keys) => pc' = stage
          /\ \A r : Return(r) => pc' = "save"
      BY DEF Handled, Enter, Return
    <2>2. CASE \/ SkipObject(cur) \/ NamespacesDone \/ CheckCompletion \/ CompletionsDone
               \/ ObserveObject \/ EndApplyWave \/ ApplyDone \/ CheckDeletion
               \/ PostponeObject \/ EndDeleteWave \/ DeleteDone
      BY <2>1, <2>2
         DEF SkipObject, NamespacesDone, CheckCompletion, CompletionsDone,
             ObserveObject, EndApplyWave, ApplyDone, CheckDeletion, PostponeObject,
             EndDeleteWave, DeleteDone, Locally, Refused, Fail, InCall, HaveRead,
             ToBeDeleted
    <2>3. CASE BeginApplyWave \/ BeginDeleteWave
      BY <2>3 DEF BeginApplyWave, BeginDeleteWave, Locally, InCall
    <2>4. CASE \E k \in Keys : ReadObject(k) \/ SkipObject(k)
      BY <2>1, <2>4 DEF ReadObject, SkipObject, Upcoming, Locally, InCall, Fail
    <2> QED
      BY <2>2, <2>3, <2>4 DEF LocalSteps
  <1> QED
    BY <1>1, <1>2, <1>3, <1>4 DEF Gentle, Narrower, Listed, InCall, componentVars, callVars

\* So are the end of a call, and the beginning of one that extends no inventory.
LEMMA AroundHarmless ==
  ASSUME IndInv, AroundCalls
  PROVE  Narrower /\ Gentle(cluster')
  <1>1. CASE PlanRejected \/ StartDelete
    BY <1>1 DEF PlanRejected, StartDelete, Load, Narrower, Listed, Gentle
  <1>2. CASE Save \/ SaveLost \/ Finish \/ Crash
    BY <1>2 DEF Save, SaveLost, Finish, Crash, BackToIdle, Narrower, Listed, Gentle,
                historyVars
  <1> QED
    BY <1>1, <1>2 DEF AroundCalls

\* The owner check answers for the keys that are new, and no missing namespace has been
\* rendered before.
LEMMA PlanAdopts ==
  ASSUME IndInv, AdoptionInv, PlanExtended \/ PlanAccepted,
         contested' = contested \cap Listed'
  PROVE  AdoptionInv'
  <1>1. /\ cluster' = cluster /\ saved' = saved /\ manifest' = manifest /\ rev' = manifest
        /\ mem' = Planned /\ Accepted
    BY DEF PlanExtended, PlanAccepted, Load
  <1>2. Listed' = DOMAIN saved \cup Rendered(manifest)
    BY <1>1 DEF Listed, Planned, Target
  <1>3. ASSUME NEW k \in Listed' \ contested'
        PROVE  Acceptable(k)'
    <2> SUFFICES ASSUME cluster[k].exists, k \in Rendered(manifest)
                 PROVE  Adoptable(Manifest[manifest][k].adoption, cluster[k].owner)
      BY <1>1 DEF Acceptable
    <2>1. CASE k \in DOMAIN saved
      BY <1>3, <2>1 DEF AdoptionInv, Acceptable, Listed
    <2>2. CASE k \notin DOMAIN saved
      BY <1>1, <2>2 DEF Accepted, OwnersAccepted
    <2> QED
      BY <2>1, <2>2
  <1>4. ASSUME pc' = "namespaces", NEW n \in todo', n \in Listed'
        PROVE  FALSE
    <2>1. PlanAccepted
      BY <1>4 DEF PlanExtended
    <2>2. n \in MissingNamespaces(manifest)
      BY <1>4, <2>1 DEF PlanAccepted
    <2>3. PICK k \in Rendered(manifest) : n = NamespaceOf[k]
      BY <2>2 DEF MissingNamespaces
    <2>4. n \notin Rendered(manifest) /\ n \in DOMAIN saved
      BY <1>2, <1>4, <2>2 DEF MissingNamespaces
    <2>5. DOMAIN Planned = DOMAIN saved \cup Rendered(manifest)
      BY DEF Planned, Target
    <2>6. Planned[n].digest = NoDigest => Planned[k].digest = NoDigest
      <3>1. OrdersValid(Planned)
        BY <1>1 DEF Accepted
      <3> QED
        BY <2>3, <2>4, <2>5, <3>1 DEF OrdersValid, Needs
    <2>7. Planned[n].digest = NoDigest
      BY <2>4, <2>5 DEF Planned, Target, Obsolete, IndInv, StateTypeOK, IsInventory, Items
    <2>8. Planned[k].digest = Digest(manifest, k)
      BY <2>3, <2>5 DEF Planned, Target, Renewed
    <2> QED
      BY <2>3, <2>6, <2>7, <2>8, RenderedDigest DEF IndInv, StateTypeOK
  <1> QED
    BY <1>3, <1>4 DEF AdoptionInv

\* The environment leaves the stage and the keys of the inventories alone.
LEMMA EnvironmentLists ==
  ASSUME Environment
  PROVE  Listed' = Listed /\ UNCHANGED <<pc, todo>>
  <1> DEFINE Same == /\ DOMAIN saved' = DOMAIN saved /\ DOMAIN mem' = DOMAIN mem
                     /\ UNCHANGED <<pc, todo>>
  <1>1. \A c : Elsewhere(c) => Same
    BY DEF Elsewhere, waveVars
  <1>2. \A state, r : ChangeComponent(state, r) => Same
    BY DEF ChangeComponent, waveVars
  <1>3. \A k : Expire(k) => Same
    BY DEF Expire, Aged, waveVars
  <1> HIDE DEF Same
  <1>4. Same
    BY <1>1, <1>2, <1>3
       DEF Environment, BecomeReady, FinishDeletion, CascadeDeletion, ForeignCreate,
           Takeover, ForeignDelete, Flicker, Edit, DeleteComponent
  <1> QED
    BY <1>4 DEF Listed, Same

\* A step of the reconciler keeps the invariant.
LEMMA UndisputedInv ==
  ASSUME IndInv, AdoptionInv, Undisputed
  PROVE  AdoptionInv'
  <1>1. Listed \subseteq Keys
    BY InMemory DEF Listed
  <1>2. contested' = contested \cap Listed'
    BY DEF Undisputed
  <1>3. CASE PlanExtended \/ PlanAccepted
    BY <1>2, <1>3, PlanAdopts
  <1>4. CASE ~ (PlanExtended \/ PlanAccepted)
    <2>1. Requests \/ LocalSteps \/ AroundCalls
      BY <1>4 DEF Undisputed, Reconcile, Apply, Delete, Requests, LocalSteps, AroundCalls
    <2>2. Narrower /\ Gentle(cluster')
      BY <1>1, <2>1, AroundHarmless, RequestsHarmless, LocalHarmless
    <2> QED
      BY <1>2, <2>2, HarmlessInv
  <1> QED
    BY <1>3, <1>4

\* What others make unacceptable is contested by definition.
LEMMA DisputedInv ==
  ASSUME AdoptionInv, Disputed
  PROVE  AdoptionInv'
  <1>1. contested' = {k \in Listed' : k \in contested \/ ~ Acceptable(k)'}
    BY DEF Disputed
  <1>2. Listed' = Listed /\ UNCHANGED <<pc, todo>>
    BY EnvironmentLists DEF Disputed
  <1>3. \A k \in Listed' \ contested' : Acceptable(k)'
    BY <1>1
  <1>4. pc' = "namespaces" => todo' \cap Listed' = {}
    BY <1>2 DEF AdoptionInv
  <1> QED
    BY <1>1, <1>3, <1>4 DEF AdoptionInv

\* Every step keeps the invariant.
LEMMA AdoptionStep == IndInv /\ AdoptionInv /\ [AdoptionNext]_adoptionVars => AdoptionInv'
  <1> SUFFICES ASSUME IndInv, AdoptionInv, [AdoptionNext]_adoptionVars
               PROVE  AdoptionInv'
    OBVIOUS
  <1>1. CASE UNCHANGED adoptionVars
    BY <1>1 DEF adoptionVars, vars, componentVars, callVars, waveVars, AdoptionInv, Listed,
                Acceptable
  <1> QED
    BY <1>1, UndisputedInv, DisputedInv DEF AdoptionNext

\* The history variable does not matter to the rest.
LEMMA AdoptionIsHistory == AdoptionSpec => Spec
  <1>1. AdoptionInit => Init
    BY DEF AdoptionInit
  <1>2. [AdoptionNext]_adoptionVars => [Next]_vars
    BY DEF AdoptionNext, Undisputed, Disputed, Next, adoptionVars
  <1> QED
    BY <1>1, <1>2, PTL DEF AdoptionSpec, Spec

\* What is listed and was not contested by others is acceptable, in all reachable states:
\* Apply checks the owner before it lists a key, and nothing the reconciler does later
\* makes a listed object unacceptable.
THEOREM AdoptionInvariant == AdoptionSpec => []AdoptionInv
  <1>1. AdoptionInit => AdoptionInv
    BY DEF AdoptionInit, Init, AdoptionInv, Listed, EmptyInventory
  <1> QED
    BY <1>1, AdoptionStep, AdoptionIsHistory, InductiveInvariant, PTL DEF AdoptionSpec

\* The reconciler takes over an existing object of another owner only as the adoption
\* policy allows, or if others made it unacceptable after its key was listed.
THEOREM AdoptionPolicy == AdoptionSpec => AdoptionRespected
  <1> DEFINE Respected ==
               \A k \in Keys :
                 cluster[k].exists /\ ~ Ours(cluster, k) /\ Ours(cluster', k) =>
                     \/ Adoptable(Manifest[rev][k].adoption, cluster[k].owner)
                     \/ k \in contested
  <1>1. IndInv /\ AdoptionInv /\ [AdoptionNext]_adoptionVars => [Respected]_adoptionVars
    <2> SUFFICES ASSUME IndInv, AdoptionInv, AdoptionNext, NEW k \in Keys,
                        cluster[k].exists, ~ Ours(cluster, k), Ours(cluster', k),
                        k \notin contested
                 PROVE  Adoptable(Manifest[rev][k].adoption, cluster[k].owner)
      OBVIOUS
    <2>1. [Next]_vars
      BY DEF AdoptionNext, Undisputed, Disputed, Next
    <2>2. k \in DOMAIN saved /\ k \in Rendered(rev)
      BY <2>1, Effects
    <2>3. Acceptable(k)
      BY <2>2 DEF AdoptionInv, Listed
    <2> QED
      BY <2>2, <2>3 DEF Acceptable
  <1> QED
    BY <1>1, AdoptionInvariant, AdoptionIsHistory, InductiveInvariant, PTL
       DEF AdoptionSpec, AdoptionRespected
=============================================================================
