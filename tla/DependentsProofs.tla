--------------------------- MODULE DependentsProofs ---------------------------
(***************************************************************************)
(* Proofs about Dependents.  IndInv holds initially (InitIndInv) and every *)
(* step keeps it (NextIndInv).  The steps of a call are put together from  *)
(* a few operators (Return, Handled, Request, Enter); the lemmas about     *)
(* these do most of the work, and each action adds what is particular to   *)
(* it.  The action properties follow from the invariant and the Effects of *)
(* a step.                                                                 *)
(***************************************************************************)
EXTENDS DependentsProperties, TLAPS

\* What readObject returns for a missing object has the type of an object.
LEMMA AbsentIsObject == Absent \in Objects
  BY DEF Absent, Objects, Owners, Digests, NoDigest

\* A call that returns resets its cursor and its wave, with the right types.
LEMMA ReturnTypes ==
  ASSUME NEW r \in {"done", "again", "error"}, Return(r)
  PROVE  /\ pc' = "save" /\ todo' = {} /\ cur' = NoKey /\ step' = "read"
         /\ todo' \subseteq Keys /\ wave' \in Orders \cup {NoWave}
         /\ blockers' \subseteq {"regular", "late", "managed"} /\ waiting' \in BOOLEAN
         /\ cur' \in Keys \cup {NoKey} /\ seen' \in Objects /\ fresh' \in BOOLEAN
         /\ result' \in {"done", "again", "error"}
  BY AbsentIsObject DEF Return

\* Pairs of members of two sets are members of their product.
LEMMA PairType ==
  ASSUME NEW S, NEW T, NEW x \in S, NEW y \in T
  PROVE  <<x, y>> \in S \X T
  OBVIOUS

\* calculateObjectDigest returns a digest for every reconcile policy.
LEMMA DigestType ==
  ASSUME NEW r \in Revisions, NEW k \in Rendered(r)
  PROVE  Digest(r, k) \in Digests
  <1> DEFINE C == Contents \cup {"", "__once__"}
             R == Revisions \cup {""}
  <1>1. Manifest[r][k].content \in C
    BY ManifestAssumption DEF Specs
  <1>2. "__once__" \in C /\ r \in R /\ "" \in R
    OBVIOUS
  <1>3. /\ OnceDigest \in C \X R
        /\ <<Manifest[r][k].content, r>> \in C \X R
        /\ <<Manifest[r][k].content, "">> \in C \X R
    BY <1>1, <1>2, PairType DEF OnceDigest
  <1> HIDE DEF C, R
  <1>4. Digest(r, k) \in C \X R
    BY <1>3 DEF Digest
  <1> QED
    BY <1>4 DEF Digests, C, R

\* Rendered objects have a digest.
LEMMA RenderedDigest ==
  ASSUME NEW r \in Revisions, NEW k \in Rendered(r)
  PROVE  Digest(r, k) # NoDigest
  <1>1. Manifest[r][k].content \in Contents
    BY ManifestAssumption DEF Specs
  <1>2. Manifest[r][k].content # ""
    BY <1>1, DigestsAssumption
  <1>3. /\ OnceDigest # NoDigest
        /\ <<Manifest[r][k].content, r>> # NoDigest
        /\ <<Manifest[r][k].content, "">> # NoDigest
    BY <1>2 DEF OnceDigest, NoDigest
  <1> QED
    BY <1>3 DEF Digest

\* The inventory that Apply prepares for a manifest is an inventory.
LEMMA TargetType ==
  ASSUME NEW inv, IsInventory(inv), NEW r \in Revisions
  PROVE  IsInventory(Target(inv, r))
  <1> DEFINE T == Target(inv, r)
  <1>0. Rendered(r) \subseteq Keys
    BY ManifestAssumption
  <1>1. DOMAIN T = DOMAIN inv \cup Rendered(r)
    BY DEF Target
  <1>2. ASSUME NEW k \in Rendered(r)
        PROVE  Renewed(inv, r, k) \in Items
    <2>1. Manifest[r][k] \in Specs
      BY ManifestAssumption
    <2>2. k \in DOMAIN inv => inv[k].phase \in Phases /\ inv[k].applied \in BOOLEAN
      BY DEF IsInventory, Items
    <2> DEFINE spec == Manifest[r][k]
               known == k \in DOMAIN inv /\ inv[k].digest = Digest(r, k)
               phase == IF known THEN inv[k].phase ELSE "ScheduledForApplication"
               applied == k \in DOMAIN inv /\ inv[k].applied
    <2>3. Digest(r, k) \in Digests
      BY DigestType
    <2>4. phase \in Phases
      BY <2>2 DEF Phases
    <2>5. applied \in BOOLEAN
      BY <2>2
    <2>6. /\ spec.delete \in DeletePolicies
          /\ spec.applyOrder \in Orders /\ spec.deleteOrder \in Orders
      BY <2>1 DEF Specs
    <2>7. Renewed(inv, r, k) =
            [digest |-> Digest(r, k), phase |-> phase, deletePolicy |-> spec.delete,
             applyOrder |-> spec.applyOrder, deleteOrder |-> spec.deleteOrder,
             applied |-> applied]
      BY DEF Renewed
    <2> HIDE DEF spec, known, phase, applied
    <2>8. [digest |-> Digest(r, k), phase |-> phase, deletePolicy |-> spec.delete,
           applyOrder |-> spec.applyOrder, deleteOrder |-> spec.deleteOrder,
           applied |-> applied] \in Items
      BY <2>3, <2>4, <2>5, <2>6 DEF Items
    <2> QED
      BY <2>7, <2>8
  <1>3. ASSUME NEW k \in DOMAIN inv
        PROVE  Obsolete(inv[k]) \in Items
    <2>1. inv[k] \in Items
      BY DEF IsInventory
    <2>2. NoDigest \in Digests /\ "ScheduledForDeletion" \in Phases
      BY DEF Phases, Digests, NoDigest
    <2> QED
      BY <2>1, <2>2 DEF Obsolete, Items
  <1>4. ASSUME NEW k \in DOMAIN T
        PROVE  T[k] \in Items
    BY <1>1, <1>2, <1>3, <1>4 DEF Target
  <1>5. T = [k \in DOMAIN T |-> T[k]]
    BY DEF Target
  <1> QED
    BY <1>0, <1>1, <1>4, <1>5 DEF IsInventory

\* Preparing the inventory gives no item an empty phase that had one before.
LEMMA TargetPhase ==
  ASSUME NEW inv, IsInventory(inv), NEW r \in Revisions,
         NEW k \in DOMAIN Target(inv, r),
         Target(inv, r)[k].phase = ""
  PROVE  k \in DOMAIN inv /\ inv[k].phase = ""
  <1>1. CASE k \in Rendered(r)
    <2>1. Renewed(inv, r, k).phase = ""
      BY <1>1 DEF Target
    <2> QED
      BY <2>1 DEF Renewed
  <1>2. CASE k \notin Rendered(r)
    <2>1. k \in DOMAIN inv /\ Obsolete(inv[k]).phase = ""
      BY <1>2 DEF Target
    <2>2. inv[k].digest = NoDigest
      BY <2>1 DEF Obsolete, IsInventory, Items
    <2> QED
      BY <2>1, <2>2 DEF Obsolete
  <1> QED
    BY <1>1, <1>2

\* Changing the phase of an item, and when it was applied, gives an inventory.
LEMMA MarkType ==
  ASSUME NEW inv, IsInventory(inv), NEW k \in DOMAIN inv, NEW phase \in Phases,
         NEW applied, applied \in BOOLEAN
  PROVE  /\ IsInventory(Mark(inv, k, phase, applied))
         /\ DOMAIN Mark(inv, k, phase, applied) = DOMAIN inv
         /\ Mark(inv, k, phase, applied)[k].phase = phase
         /\ \A j \in DOMAIN inv \ {k} : Mark(inv, k, phase, applied)[j] = inv[j]
  <1> DEFINE marked == Mark(inv, k, phase, applied)
  <1>1. /\ DOMAIN marked = DOMAIN inv /\ marked = [j \in DOMAIN marked |-> marked[j]]
        /\ \A j \in DOMAIN inv \ {k} : marked[j] = inv[j]
    BY DEF Mark, IsInventory
  <1>2. inv[k] \in Items
    BY DEF IsInventory
  <1>3. marked[k] \in Items /\ marked[k].phase = phase
    <2>1. marked[k] = [inv[k] EXCEPT !.phase = phase, !.applied = applied]
      BY DEF Mark
    <2> QED
      BY <1>2, <2>1 DEF Items
  <1> HIDE DEF marked
  <1>4. IsInventory(marked)
    BY <1>1, <1>3 DEF IsInventory
  <1> QED
    BY <1>1, <1>3, <1>4 DEF marked

\* Changing the phase of an item gives an inventory with the same keys.
LEMMA SetPhaseType ==
  ASSUME NEW inv, IsInventory(inv), NEW k \in DOMAIN inv, NEW phase \in Phases
  PROVE  /\ IsInventory(SetPhase(inv, k, phase))
         /\ DOMAIN SetPhase(inv, k, phase) = DOMAIN inv
         /\ SetPhase(inv, k, phase)[k].phase = phase
         /\ \A j \in DOMAIN inv \ {k} : SetPhase(inv, k, phase)[j] = inv[j]
  <1>1. inv[k].applied \in BOOLEAN
    BY DEF IsInventory, Items
  <1> QED
    BY <1>1, MarkType DEF SetPhase

\* Marking an item after a create or update gives an inventory.
LEMMA AppliedType ==
  ASSUME IsInventory(mem), cur \in DOMAIN mem, NEW phase \in Phases
  PROVE  /\ IsInventory(Applied(phase))
         /\ DOMAIN Applied(phase) = DOMAIN mem
         /\ Applied(phase)[cur].phase = phase
         /\ \A j \in DOMAIN mem \ {cur} : Applied(phase)[j] = mem[j]
  <1>1. TRUE \in BOOLEAN
    OBVIOUS
  <1> QED
    BY <1>1, MarkType DEF Applied

\* A create or update request gives a cluster; only its key changes the owner.
LEMMA PutType ==
  ASSUME NEW c \in [Keys -> Objects], NEW k \in Keys, NEW owner \in Owners,
         NEW digest \in Digests, NEW finalizer \in BOOLEAN
  PROVE  /\ Put(c, k, owner, digest, finalizer) \in [Keys -> Objects]
         /\ \A j \in Keys \ {k} : Put(c, k, owner, digest, finalizer)[j] = c[j]
         /\ Ours(Put(c, k, owner, digest, finalizer), k) <=> owner = "me"
  BY DEF Put, Objects, Ours

\* A delete request gives a cluster and changes no owner.
LEMMA MarkDeletingType ==
  ASSUME NEW c \in [Keys -> Objects], NEW k \in Keys
  PROVE  /\ MarkDeleting(c, k) \in [Keys -> Objects]
         /\ \A j \in Keys : Ours(MarkDeleting(c, k), j) <=> Ours(c, j)
  BY DEF MarkDeleting, Objects, Ours

\* Removing a finalizer gives a cluster and changes no owner.
LEMMA DropFinalizerType ==
  ASSUME NEW c \in [Keys -> Objects], NEW k \in Keys
  PROVE  /\ DropFinalizer(c, k) \in [Keys -> Objects]
         /\ \A j \in Keys : Ours(DropFinalizer(c, k), j) <=> Ours(c, j)
  BY DEF DropFinalizer, Objects, Ours

\* The removal of an object gives a cluster and makes no object ours.
LEMMA CollectType ==
  ASSUME NEW c \in [Keys -> Objects], NEW k \in Keys
  PROVE  /\ Collect(c, k) \in [Keys -> Objects]
         /\ \A j \in Keys : Ours(Collect(c, k), j) => Ours(c, j)
  <1>1. Collect(c, k) \in [Keys -> Objects]
    BY AbsentIsObject DEF Collect
  <1>2. \A j \in Keys : Collect(c, k)[j] \in {Absent, c[j]}
    BY DEF Collect
  <1> QED
    BY <1>1, <1>2 DEF Ours, Absent

\* Before the first call there are foreign objects at most.
LEMMA InitUnowned ==
  ASSUME Init
  PROVE  cluster \in [Keys -> Objects] /\ \A k \in Keys : ~ Ours(cluster, k)
  <1>1. Unowned \subseteq Objects
    BY AbsentIsObject DEF Unowned, Absent, Objects, Owners
  <1>2. \A o \in Unowned : o.owner # "me"
    <2>1. "none" # "me" /\ "other" # "me" /\ Absent.owner = "none"
      BY DEF Absent
    <2>2. \A x \in {"none", "other"} :
             [Absent EXCEPT !.exists = TRUE, !.owner = x].owner = x
      BY DEF Absent
    <2> QED
      BY <2>1, <2>2 DEF Unowned
  <1>3. cluster \in [Keys -> Unowned]
    BY DEF Init
  <1> QED
    BY <1>1, <1>2, <1>3 DEF Ours

\* The invariant holds before the first call.
LEMMA InitIndInv == Init => IndInv
  <1> SUFFICES ASSUME Init PROVE IndInv
    OBVIOUS
  <1>2. cluster \in [Keys -> Objects] /\ \A k \in Keys : ~ Ours(cluster, k)
    BY InitUnowned
  <1>3. IsInventory(EmptyInventory) /\ DOMAIN EmptyInventory = {}
    BY DEF IsInventory, EmptyInventory
  <1>4. StateTypeOK
    <2>1. disturbed \in 0 .. MaxDisturbances /\ edits \in 0 .. MaxEdits
      BY BoundsAssumption DEF Init
    <2> QED
      BY <1>2, <1>3, <2>1, AbsentIsObject DEF Init, StateTypeOK
  <1>5. CursorInv /\ PersistedInv
    BY <1>3 DEF Init, CursorInv, PersistedInv, InStage
  <1>6. TrackedInv
    BY <1>2 DEF TrackedInv
  <1> QED
    BY <1>4, <1>5, <1>6 DEF IndInv

Surroundings ==
    /\ cluster \in [Keys -> Objects]
    /\ released \subseteq Keys /\ resurrected \subseteq Keys
    /\ disturbed \in 0 .. MaxDisturbances /\ edits \in 0 .. MaxEdits

Calling == pc \in {"namespaces", "complete", "apply", "delete"}

CallFrame == UNCHANGED <<componentVars, saved, callVars>>

\* A disturbance keeps the types of the bounds.
LEMMA DisturbType ==
  ASSUME StateTypeOK, NEW kind, Disturb(kind)
  PROVE  disturbed' \in 0 .. MaxDisturbances /\ edits' \in 0 .. MaxEdits
  BY BoundsAssumption DEF Disturb, StateTypeOK

\* The key being handled is a key of the inventory in memory.
LEMMA InMemory ==
  ASSUME IndInv
  PROVE  /\ DOMAIN mem \subseteq Keys /\ DOMAIN saved \subseteq Keys
         /\ Calling => DOMAIN mem \subseteq DOMAIN saved
         /\ step # "read" => Calling /\ cur \in DOMAIN mem /\ cur \in Keys /\ cur # NoKey
  BY KeysAssumption DEF IndInv, StateTypeOK, IsInventory, PersistedInv, CursorInv, Calling,
     InStage

\* What is ours stays accounted for if no object becomes ours and no item that
\* accounts for one loses its phase.
LEMMA KeepsTracked ==
  ASSUME IndInv, saved' = saved,
         released \subseteq released', resurrected \subseteq resurrected',
         \A k \in Keys : Ours(cluster', k) /\ ~ Ours(cluster, k) =>
             /\ pc = "apply" /\ k \in DOMAIN mem
             /\ saved[k].phase = "" => k \in resurrected',
         \A k \in DOMAIN mem :
             k \notin released' /\ Ours(cluster', k) /\ mem[k].phase # "" =>
                 Covers(mem', k)
  PROVE  TrackedInv'
  <1> SUFFICES ASSUME NEW k \in Keys \ (released' \cup resurrected'),
                      Ours(cluster', k)
               PROVE  Covers(saved, k) /\ Covers(mem', k)
    BY DEF TrackedInv, Covers
  <1>1. CASE Ours(cluster, k)
    <2>1. Covers(saved, k) /\ Covers(mem, k)
      BY <1>1 DEF IndInv, TrackedInv
    <2> QED
      BY <2>1 DEF Covers
  <1>2. CASE ~ Ours(cluster, k)
    <2>1. pc = "apply" /\ k \in DOMAIN mem /\ saved[k].phase # ""
      BY <1>2
    <2>2. k \in DOMAIN saved /\ mem[k].phase # ""
      BY <2>1 DEF IndInv, PersistedInv
    <2> QED
      BY <2>1, <2>2 DEF Covers
  <1> QED
    BY <1>1, <1>2

\* The end of a call keeps the invariant if the inventory it leaves does.
LEMMA ReturnInv ==
  ASSUME IndInv, CallFrame, NEW r \in {"done", "again", "error"}, Return(r),
         IsInventory(mem'), Surroundings', TrackedInv'
  PROVE  IndInv'
  <1>1. StateTypeOK'
    BY ReturnTypes
    DEF IndInv, StateTypeOK, Surroundings, CallFrame, componentVars, callVars
  <1>2. CursorInv' /\ PersistedInv'
    BY DEF Return, CursorInv, PersistedInv, InStage
  <1> QED
    BY <1>1, <1>2 DEF IndInv

\* An error return keeps the invariant: the inventory in memory is unchanged.
LEMMA FailInv ==
  ASSUME IndInv, CallFrame, Fail, Surroundings', TrackedInv'
  PROVE  IndInv'
  <1>1. IsInventory(mem')
    BY DEF Fail, IndInv, StateTypeOK
  <1> QED
    BY <1>1, ReturnInv DEF Fail

\* Going on to the next key keeps the invariant if the inventory does.
LEMMA HandledInv ==
  ASSUME IndInv, CallFrame, Calling, NEW k, NEW w \in BOOLEAN,
         NEW inv, IsInventory(inv), DOMAIN inv = DOMAIN mem, Handled(k, inv, w),
         pc # "delete" => \A j \in DOMAIN mem : inv[j].phase = "" => mem[j].phase = "",
         Surroundings', TrackedInv'
  PROVE  IndInv'
  <1>1. StateTypeOK'
    <2>1. waiting' \in BOOLEAN
      BY DEF Handled, IndInv, StateTypeOK
    <2> QED
      BY <2>1, AbsentIsObject
      DEF Handled, IndInv, StateTypeOK, Surroundings, CallFrame, componentVars, callVars
  <1>2. CursorInv'
    BY DEF Handled, IndInv, CursorInv, InStage, CallFrame, callVars
  <1>3. PersistedInv'
    BY DEF Handled, IndInv, PersistedInv, CallFrame, Calling
  <1> QED
    BY <1>1, <1>2, <1>3 DEF IndInv

\* What a write of a cluster with the same owners leaves as it was.
LEMMA WriteKeeps ==
  ASSUME IndInv, NEW c \in [Keys -> Objects], Write(c)
  PROVE  /\ cluster' \in [Keys -> Objects] /\ cluster' = c
         /\ resurrected \subseteq resurrected' /\ resurrected' \subseteq Keys
         /\ \A k \in DOMAIN saved :
                Ours(c, k) /\ ~ Ours(cluster, k) /\ saved[k].phase = "" =>
                    k \in resurrected'
  <1> DEFINE New == {k \in DOMAIN saved : /\ Ours(c, k) /\ ~ Ours(cluster, k)
                                          /\ saved[k].phase = ""}
  <1>1. DOMAIN saved \subseteq Keys /\ resurrected \subseteq Keys
    BY InMemory DEF IndInv, StateTypeOK
  <1>2. cluster' = c /\ resurrected' = resurrected \cup New
    BY DEF Write
  <1>3. New \subseteq Keys
    BY <1>1
  <1>4. \A k \in DOMAIN saved :
           Ours(c, k) /\ ~ Ours(cluster, k) /\ saved[k].phase = "" => k \in New
    OBVIOUS
  <1> HIDE DEF New
  <1> QED
    BY <1>1, <1>2, <1>3, <1>4

\* The two ways in which a request fails keep the invariant.
LEMMA FailedRequestInv ==
  ASSUME IndInv, CallFrame, Calling, NEW c \in [Keys -> Objects],
         Write(c) \/ UNCHANGED <<cluster, resurrected>>,
         NEW kind, Disturb(kind), Fail,
         released \subseteq released', released' \subseteq Keys,
         \A k \in Keys : Ours(c, k) /\ ~ Ours(cluster, k) => pc = "apply" /\ k \in DOMAIN mem
  PROVE  IndInv'
  <1>1. \/ cluster' = c
        \/ cluster' = cluster
    BY DEF Write
  <1>2. /\ cluster' \in [Keys -> Objects]
        /\ resurrected \subseteq resurrected' /\ resurrected' \subseteq Keys
    BY WriteKeeps DEF IndInv, StateTypeOK
  <1>3. Surroundings'
    BY <1>2, DisturbType DEF Surroundings, IndInv
  <1>4. TrackedInv'
    <2>1. saved' = saved /\ mem' = mem
      BY DEF CallFrame, Fail
    <2>2. \A k \in Keys : Ours(cluster', k) /\ ~ Ours(cluster, k) =>
             /\ pc = "apply" /\ k \in DOMAIN mem
             /\ saved[k].phase = "" => k \in resurrected'
      BY <1>1, WriteKeeps, InMemory
    <2> QED
      BY <1>2, <2>1, <2>2, KeepsTracked DEF Covers
  <1> QED
    BY <1>3, <1>4, FailInv

\* A step that writes nothing keeps the types of its surroundings, and what is
\* tracked stays tracked if the inventory in memory still covers it.
LEMMA LocalInv ==
  ASSUME IndInv, UNCHANGED <<cluster, resurrected, boundVars>>, saved' = saved,
         released \subseteq released', released' \subseteq Keys
  PROVE  /\ Surroundings'
         /\ ( \A k \in DOMAIN mem :
                k \notin released' /\ Ours(cluster, k) /\ mem[k].phase # "" =>
                    Covers(mem', k) ) => TrackedInv'
  <1>1. Surroundings'
    BY DEF Surroundings, IndInv, StateTypeOK, boundVars
  <1>2. ASSUME \A k \in DOMAIN mem :
                  k \notin released' /\ Ours(cluster, k) /\ mem[k].phase # "" =>
                      Covers(mem', k)
        PROVE  TrackedInv'
    BY <1>2, KeepsTracked
  <1> QED
    BY <1>1, <1>2

\* A request that is refused keeps the invariant.
LEMMA RefusedInv ==
  ASSUME IndInv, CallFrame, Refused, released \subseteq released', released' \subseteq Keys
  PROVE  IndInv'
  <1>1. Fail /\ UNCHANGED <<cluster, resurrected, boundVars>> /\ mem' = mem
    BY DEF Refused, Locally, Fail
  <1>2. Surroundings' /\ TrackedInv'
    BY <1>1, LocalInv DEF CallFrame, Covers
  <1> QED
    BY <1>1, <1>2, FailInv

\* A key that is handled such that no item loses its phase.
LEMMA HandledQuietlyInv ==
  ASSUME IndInv, CallFrame, Calling, NEW k, NEW w \in BOOLEAN,
         NEW inv, IsInventory(inv), DOMAIN inv = DOMAIN mem,
         Handled(k, inv, w), UNCHANGED <<cluster, resurrected, boundVars>>,
         pc # "delete" => \A j \in DOMAIN mem : inv[j].phase = "" => mem[j].phase = "",
         released \subseteq released', released' \subseteq Keys,
         \A j \in DOMAIN mem :
             j \notin released' /\ Ours(cluster, j) /\ mem[j].phase # "" =>
                 inv[j].phase # ""
  PROVE  IndInv'
  <1>1. mem' = inv /\ saved' = saved
    BY DEF Handled, CallFrame
  <1>2. Surroundings' /\ TrackedInv'
    BY <1>1, LocalInv DEF Covers
  <1> QED
    BY <1>1, <1>2, HandledInv

\* It is handled quietly if there is no request.
LEMMA HandledLocallyInv ==
  ASSUME IndInv, CallFrame, Calling, NEW k, NEW w \in BOOLEAN,
         NEW inv, IsInventory(inv), DOMAIN inv = DOMAIN mem,
         Locally(Handled(k, inv, w)),
         pc # "delete" => \A j \in DOMAIN mem : inv[j].phase = "" => mem[j].phase = "",
         released \subseteq released', released' \subseteq Keys,
         \A j \in DOMAIN mem :
             j \notin released' /\ Ours(cluster, j) /\ mem[j].phase # "" =>
                 inv[j].phase # ""
  PROVE  IndInv'
  <1>1. Handled(k, inv, w) /\ UNCHANGED <<cluster, resurrected, boundVars>>
    BY DEF Locally
  <1> QED
    BY <1>1, HandledQuietlyInv

\* A key that is handled by a successful write such that its item has a phase.
LEMMA HandledWriteInv ==
  ASSUME IndInv, CallFrame, Calling, NEW k \in DOMAIN mem, NEW w \in BOOLEAN,
         NEW c \in [Keys -> Objects], Write(c), UNCHANGED boundVars, UNCHANGED released,
         \A j \in Keys : Ours(c, j) /\ ~ Ours(cluster, j) => pc = "apply" /\ j = k,
         NEW inv, IsInventory(inv), DOMAIN inv = DOMAIN mem, Handled(k, inv, w),
         \A j \in DOMAIN mem \ {k} : inv[j] = mem[j],
         inv[k].phase # ""
  PROVE  IndInv'
  <1>1. mem' = inv /\ saved' = saved
    BY DEF Handled, CallFrame
  <1>2. Surroundings'
    BY WriteKeeps DEF Surroundings, IndInv, StateTypeOK, boundVars
  <1>3. TrackedInv'
    <2>1. \A j \in Keys : Ours(cluster', j) /\ ~ Ours(cluster, j) =>
             /\ pc = "apply" /\ j \in DOMAIN mem
             /\ saved[j].phase = "" => j \in resurrected'
      BY WriteKeeps, InMemory
    <2>2. resurrected \subseteq resurrected'
      BY WriteKeeps
    <2>3. \A j \in DOMAIN mem : mem[j].phase # "" => Covers(mem', j)
      BY <1>1 DEF Covers
    <2> QED
      BY <1>1, <2>1, <2>2, <2>3, KeepsTracked
  <1>4. \A j \in DOMAIN mem : inv[j].phase = "" => mem[j].phase = ""
    OBVIOUS
  <1> QED
    BY <1>2, <1>3, <1>4, HandledInv

\* After deleteObject the item has a phase, in whatever stage it was called.
LEMMA DeletedItem ==
  ASSUME IndInv, pc \in {"complete", "apply", "delete"}, step # "read", Deleted
  PROVE  \E inv : /\ Handled(cur, inv, TRUE)
                  /\ IsInventory(inv) /\ DOMAIN inv = DOMAIN mem
                  /\ \A j \in DOMAIN mem \ {cur} : inv[j] = mem[j]
                  /\ inv[cur].phase # ""
  <1> DEFINE phase == PhaseAfterDelete[pc]
             applied == mem[cur].applied \/ pc = "apply"
             inv == Mark(mem, cur, phase, applied)
  <1>1. cur \in DOMAIN mem
    BY InMemory
  <1>2. phase \in Phases /\ phase # "" /\ applied \in BOOLEAN
    <2>1. phase \in Phases /\ phase # ""
      <3>1. phase \in {"Completing", "Updating", "Deleting"}
        BY DEF PhaseAfterDelete
      <3> QED
        BY <3>1 DEF Phases
    <2>2. mem[cur].applied \in BOOLEAN
      BY <1>1 DEF IndInv, StateTypeOK, IsInventory, Items
    <2> QED
      BY <2>1, <2>2
  <1>3. Handled(cur, inv, TRUE)
    BY DEF Deleted
  <1>4. IsInventory(mem)
    BY DEF IndInv, StateTypeOK
  <1> HIDE DEF phase, applied
  <1>5. /\ IsInventory(inv) /\ DOMAIN inv = DOMAIN mem
        /\ \A j \in DOMAIN mem \ {cur} : inv[j] = mem[j]
        /\ inv[cur].phase = phase
    <2>1. phase \in Phases /\ applied \in BOOLEAN
      BY <1>2
    <2> QED
      BY <1>1, <1>4, <2>1, MarkType
  <1> HIDE DEF inv
  <1> QED
    BY <1>2, <1>3, <1>5

\* A successful deleteObject keeps the invariant.
LEMMA DeletedWriteInv ==
  ASSUME IndInv, CallFrame, pc \in {"complete", "apply", "delete"}, step # "read",
         NEW c \in [Keys -> Objects], Write(c), UNCHANGED boundVars, UNCHANGED released,
         \A j \in Keys : Ours(c, j) => Ours(cluster, j), Deleted
  PROVE  IndInv'
  <1>1. PICK inv : /\ Handled(cur, inv, TRUE)
                   /\ IsInventory(inv) /\ DOMAIN inv = DOMAIN mem
                   /\ \A j \in DOMAIN mem \ {cur} : inv[j] = mem[j]
                   /\ inv[cur].phase # ""
    BY DeletedItem
  <1>2. Calling /\ cur \in DOMAIN mem
    BY InMemory DEF Calling
  <1> QED
    BY <1>1, <1>2, HandledWriteInv

\* The cluster is a function from keys to objects.
LEMMA SameCluster == IndInv => cluster \in [Keys -> Objects]
  BY DEF IndInv, StateTypeOK

\* A write after which every object has the owner it had, and its failures.
LEMMA RequestDeletedInv ==
  ASSUME IndInv, CallFrame, pc \in {"complete", "apply", "delete"}, step # "read",
         UNCHANGED released, NEW c \in [Keys -> Objects],
         \A j \in Keys : Ours(c, j) => Ours(cluster, j), Request(c, Deleted)
  PROVE  IndInv'
  <1>1. Calling /\ released \subseteq released' /\ released' \subseteq Keys
    BY DEF Calling, IndInv, StateTypeOK
  <1>2. CASE Write(c) /\ Deleted /\ UNCHANGED boundVars
    BY <1>2, DeletedWriteInv
  <1>3. CASE Write(c) /\ Disturb("lose") /\ Fail
    BY <1>1, <1>3, FailedRequestInv
  <1>4. CASE UNCHANGED <<cluster, resurrected>> /\ Disturb("fail") /\ Fail
    BY <1>1, <1>4, FailedRequestInv
  <1> QED
    BY <1>2, <1>3, <1>4 DEF Request

\* The delete request of deleteObject keeps the invariant in all its outcomes.
LEMMA RequestDeletionInv ==
  ASSUME IndInv, CallFrame, pc \in {"complete", "apply", "delete"}, step = "act",
         UNCHANGED released, RequestDeletion
  PROVE  IndInv'
  <1>1. Calling /\ released \subseteq released' /\ released' \subseteq Keys
    BY DEF Calling, IndInv, StateTypeOK
  <1>2. cur \in DOMAIN mem /\ cur \in Keys /\ cur # NoKey
    BY InMemory
  <1>3. CASE Refused
    BY <1>1, <1>3, RefusedInv
  <1>4. CASE Request(cluster, Deleted)
    BY <1>4, SameCluster, RequestDeletedInv
  <1> DEFINE Started ==
               IF IsType(cur)
               THEN /\ step' = "finalize"
                    /\ UNCHANGED <<mem, pc, waveVars, cur, seen, fresh, result>>
               ELSE Deleted
             c == MarkDeleting(cluster, cur)
  <1>5. CASE Request(c, Started)
    <2>1. c \in [Keys -> Objects] /\ \A j \in Keys : Ours(c, j) <=> Ours(cluster, j)
      BY <1>2, SameCluster, MarkDeletingType
    <2> HIDE DEF c
    <2>2. CASE Write(c) /\ Started /\ UNCHANGED boundVars
      <3>1. CASE IsType(cur)
        <4>1. Surroundings'
          BY <2>1, <2>2, WriteKeeps DEF Surroundings, IndInv, StateTypeOK, boundVars
        <4>2. mem' = mem /\ saved' = saved /\ pc' = pc /\ todo' = todo /\ cur' = cur
              /\ rev' = rev /\ step' = "finalize" /\ UNCHANGED <<seen, fresh, result, waveVars>>
          BY <2>2, <3>1 DEF CallFrame, callVars, waveVars
        <4>3. TrackedInv'
          <5>1. resurrected \subseteq resurrected' /\ cluster' = c
            BY <2>1, <2>2, WriteKeeps
          <5> QED
            BY <1>1, <2>1, <4>2, <5>1, KeepsTracked DEF Covers
        <4>4. StateTypeOK'
          BY <4>1, <4>2 DEF IndInv, StateTypeOK, Surroundings, CallFrame, componentVars,
             callVars, waveVars
        <4>5. CursorInv' /\ PersistedInv'
          BY <1>2, <4>2 DEF IndInv, CursorInv, PersistedInv, InStage, waveVars
        <4> QED
          BY <4>3, <4>4, <4>5 DEF IndInv
      <3>2. CASE ~ IsType(cur)
        BY <2>1, <2>2, <3>2, DeletedWriteInv
      <3> QED
        BY <3>1, <3>2
    <2>3. CASE Write(c) /\ Disturb("lose") /\ Fail
      BY <1>1, <2>1, <2>3, FailedRequestInv
    <2>4. CASE UNCHANGED <<cluster, resurrected>> /\ Disturb("fail") /\ Fail
      BY <1>1, <2>1, <2>4, FailedRequestInv
    <2> QED
      BY <1>5, <2>2, <2>3, <2>4 DEF Request
  <1> QED
    BY <1>3, <1>4, <1>5 DEF RequestDeletion

\* The treatment of types by deleteObject goes to another step, and back.
LEMMA TypeStepInv ==
  ASSUME IndInv, CallFrame, step # "read", step' \in {"finalize", "release"},
         UNCHANGED <<cluster, resurrected, boundVars, released>>,
         UNCHANGED <<mem, pc, waveVars, cur, result>>,
         seen' \in Objects, fresh' \in BOOLEAN
  PROVE  IndInv'
  <1>1. mem' = mem /\ saved' = saved /\ pc' = pc /\ todo' = todo /\ cur' = cur
        /\ wave' = wave /\ rev' = rev /\ released' \subseteq Keys
    BY DEF CallFrame, callVars, waveVars, IndInv, StateTypeOK
  <1>2. Surroundings' /\ TrackedInv'
    BY <1>1, LocalInv DEF Covers
  <1>3. StateTypeOK'
    BY <1>1, <1>2 DEF IndInv, StateTypeOK, Surroundings, CallFrame, componentVars,
       callVars, waveVars
  <1>4. CursorInv' /\ PersistedInv'
    BY <1>1, InMemory DEF IndInv, CursorInv, PersistedInv, InStage
  <1> QED
    BY <1>2, <1>3, <1>4 DEF IndInv

\* Looking for the instances of a type and removing its finalizer keep the invariant.
LEMMA FinalizeTypeInv ==
  ASSUME IndInv, FinalizeType \/ ReleaseType
  PROVE  IndInv'
  <1>1. step # "read" /\ released' = released
        /\ CallFrame /\ Calling /\ pc \in {"complete", "apply", "delete"}
    BY DEF FinalizeType, ReleaseType, InCall, CallFrame, IndInv, CursorInv, InStage,
       Calling
  <1>2. cur \in Keys /\ cluster \in [Keys -> Objects] /\ released' \subseteq Keys
    BY <1>1, InMemory, SameCluster DEF IndInv, StateTypeOK
  <1>3. CASE Deleted /\ UNCHANGED <<cluster, resurrected, boundVars>>
    <2>1. PICK inv : /\ Handled(cur, inv, TRUE)
                     /\ IsInventory(inv) /\ DOMAIN inv = DOMAIN mem
                     /\ \A j \in DOMAIN mem \ {cur} : inv[j] = mem[j]
                     /\ inv[cur].phase # ""
      BY <1>1, <1>3, DeletedItem
    <2> QED
      BY <1>1, <1>2, <1>3, <2>1, HandledQuietlyInv
  <1>4. CASE Fail /\ UNCHANGED <<cluster, resurrected, boundVars>>
    <2>1. Surroundings' /\ TrackedInv'
      BY <1>1, <1>2, <1>4, LocalInv DEF CallFrame, Fail, Covers
    <2> QED
      BY <1>1, <1>4, <2>1, FailInv
  <1>5. CASE BeginRelease /\ UNCHANGED <<cluster, resurrected, boundVars>>
    <2>1. seen' \in Objects /\ fresh' \in BOOLEAN /\ step' = "release"
      BY <1>2, <1>5 DEF BeginRelease
    <2> QED
      BY <1>1, <1>5, <2>1, TypeStepInv DEF BeginRelease
  <1>6. CASE FinalizeType
    BY <1>3, <1>4, <1>5, <1>6 DEF FinalizeType
  <1>7. CASE ReleaseType
    <2>1. CASE Request(DropFinalizer(cluster, cur), Deleted)
      BY <1>1, <1>2, <2>1, DropFinalizerType, RequestDeletedInv
    <2>2. CASE Refused
      BY <1>1, <1>2, <2>2, RefusedInv
    <2>3. CASE Locally(/\ step' = "finalize"
                       /\ UNCHANGED <<mem, pc, waveVars, cur, seen, fresh, result>>)
      <3>1. seen' \in Objects /\ fresh' \in BOOLEAN /\ step' = "finalize"
        BY <2>3 DEF Locally, IndInv, StateTypeOK
      <3>2. /\ UNCHANGED <<cluster, resurrected, boundVars>>
            /\ UNCHANGED <<mem, pc, waveVars, cur, result>>
        BY <2>3 DEF Locally
      <3> QED
        BY <1>1, <3>1, <3>2, TypeStepInv
    <2> QED
      BY <1>7, <2>1, <2>2, <2>3 DEF ReleaseType
  <1> QED
    BY <1>6, <1>7

-----------------------------------------------------------------------------
(* The steps of a call *)

\* What comes next is a key of the stage, with an item, within a wave.
LEMMA ReadableType ==
  ASSUME IndInv, NEW k \in Upcoming
  PROVE  InStage /\ k \in todo /\ (pc # "complete" => wave # NoWave)
  <1>1. InStage /\ k \in todo
    BY DEF Upcoming, InStage
  <1>2. NoWave \notin Orders
    BY DEF NoWave, Orders, minOrder, maxOrder
  <1>3. CASE pc = "apply"
    <2>1. k \in Rendered(rev) /\ rev \in Revisions
      BY <1>1, <1>3 DEF IndInv, StateTypeOK, CursorInv
    <2>2. Manifest[rev][k] \in Specs
      BY <2>1, ManifestAssumption
    <2>3. wave \in Orders
      BY <1>3, <2>2 DEF Upcoming, ApplyOrder, Specs
    <2> QED
      BY <1>1, <1>2, <2>3
  <1>4. CASE pc = "delete"
    <2>1. mem[k] \in Items
      BY <1>1 DEF IndInv, StateTypeOK, CursorInv, IsInventory
    <2>2. wave \in Orders
      BY <1>4, <2>1 DEF Upcoming, Items
    <2> QED
      BY <1>1, <1>2, <2>2
  <1> QED
    BY <1>1, <1>3, <1>4 DEF InStage

\* Reading an object keeps the invariant: what was read is true at that moment.
LEMMA ReadObjectInv ==
  ASSUME IndInv, NEW k \in Keys, ReadObject(k)
  PROVE  IndInv'
  <1>1. CallFrame /\ released' = released /\ UNCHANGED <<cluster, historyVars>>
    BY DEF ReadObject, InCall, CallFrame, historyVars
  <1>2. k \in DOMAIN mem /\ Calling /\ InStage /\ k # NoKey
    <2>1. k \in Upcoming
      BY DEF ReadObject
    <2>2. InStage /\ k \in todo
      BY <2>1 DEF Upcoming, InStage
    <2> QED
      BY <2>2, KeysAssumption DEF IndInv, CursorInv, Calling, InStage
  <1>3. CASE /\ cur' = k /\ seen' = cluster[k] /\ fresh' = TRUE /\ step' = "act"
             /\ UNCHANGED <<mem, pc, waveVars, result, boundVars>>
    <2>1. StateTypeOK'
      <3>1. cluster[k] \in Objects
        BY SameCluster
      <3> QED
        BY <1>1, <1>3, <3>1 DEF IndInv, StateTypeOK, CallFrame, componentVars, callVars,
           waveVars, boundVars, historyVars
    <2>2. CursorInv'
      <3>1. cur' \in todo'
        BY <1>3, ReadableType DEF ReadObject, waveVars
      <3>2. pc # "complete" => wave # NoWave
        BY ReadableType DEF ReadObject
      <3> QED
        BY <1>1, <1>2, <1>3, <3>1, <3>2
        DEF IndInv, CursorInv, InStage, Ours, CallFrame, callVars, waveVars
    <2>3. PersistedInv' /\ TrackedInv'
      BY <1>1, <1>3 DEF IndInv, PersistedInv, TrackedInv, Covers, Ours, CallFrame,
         historyVars
    <2> QED
      BY <2>1, <2>2, <2>3 DEF IndInv
  <1>4. CASE Disturb("fail") /\ Fail
    <2>1. \A j \in Keys : Ours(cluster, j) /\ ~ Ours(cluster, j) => pc = "apply" /\ j \in DOMAIN mem
      OBVIOUS
    <2>2. UNCHANGED <<cluster, resurrected>> /\ released \subseteq released' /\ released' \subseteq Keys
      BY <1>1 DEF historyVars, IndInv, StateTypeOK
    <2> QED
      BY <1>1, <1>2, <1>4, <2>1, <2>2, SameCluster, FailedRequestInv
  <1> QED
    BY <1>3, <1>4 DEF ReadObject

\* Entering a stage with keys of the inventory.
LEMMA EnterInv ==
  ASSUME IndInv, CallFrame, Calling, step = "read", UNCHANGED released,
         UNCHANGED <<cluster, resurrected, boundVars>>,
         NEW stage \in {"complete", "apply", "delete"}, NEW keys \in SUBSET DOMAIN mem,
         Enter(stage, keys),
         stage # "delete" => pc # "delete",
         stage = "apply" => keys \subseteq Rendered(rev)
  PROVE  IndInv'
  <1>1. /\ pc' = stage /\ todo' = keys /\ mem' = mem /\ saved' = saved /\ rev' = rev
        /\ wave' = NoWave /\ blockers' = {} /\ waiting' = FALSE
        /\ cur' = cur /\ seen' = seen /\ fresh' = fresh /\ step' = step
        /\ result' = result
    BY DEF Enter, cursorVars, CallFrame, callVars
  <1>2. StateTypeOK'
    <2>1. keys \subseteq Keys
      BY InMemory
    <2> QED
      BY <1>1, <2>1 DEF IndInv, StateTypeOK, CallFrame, componentVars, callVars, boundVars
  <1>3. CursorInv' /\ PersistedInv'
    BY <1>1 DEF IndInv, CursorInv, PersistedInv, InStage, Calling
  <1>4. TrackedInv'
    BY <1>1 DEF IndInv, TrackedInv, Covers, Ours
  <1> QED
    BY <1>2, <1>3, <1>4 DEF IndInv

\* The beginning of a wave keeps the invariant.
LEMMA BeginWaveInv ==
  ASSUME IndInv, CallFrame, Calling, step = "read", UNCHANGED released,
         UNCHANGED <<cluster, resurrected, boundVars>>,
         UNCHANGED <<mem, pc, todo, waiting, cursorVars, result>>,
         wave' \in Orders, blockers' \subseteq {"regular", "late", "managed"}
  PROVE  IndInv'
  <1>1. /\ pc' = pc /\ todo' = todo /\ mem' = mem /\ saved' = saved /\ rev' = rev
        /\ waiting' = waiting /\ result' = result
        /\ cur' = cur /\ seen' = seen /\ fresh' = fresh /\ step' = step
    BY DEF cursorVars, CallFrame, callVars
  <1>2. StateTypeOK'
    BY <1>1 DEF IndInv, StateTypeOK, CallFrame, componentVars, callVars, boundVars
  <1>3. CursorInv' /\ PersistedInv'
    BY <1>1 DEF IndInv, CursorInv, PersistedInv, InStage, Calling
  <1>4. TrackedInv'
    BY <1>1 DEF IndInv, TrackedInv, Covers, Ours
  <1> QED
    BY <1>2, <1>3, <1>4 DEF IndInv

\* Outside the three stages no key is being handled.
LEMMA IdleCursor ==
  ASSUME IndInv, pc \in {"idle", "namespaces", "save"}
  PROVE  step = "read" /\ cur = NoKey
  BY DEF IndInv, CursorInv, InStage

\* Loading the inventory accounts for what was orphaned without being saved.
LEMMA LoadTracked ==
  ASSUME IndInv, NEW operation, Load(operation), NEW inv, mem' = inv,
         \A k \in DOMAIN saved : saved[k].phase # "" => Covers(inv, k)
  PROVE  TrackedInv'
  <1>1. /\ cluster' = cluster /\ saved' = saved /\ resurrected' = resurrected
        /\ released' = {k \in released : k \in DOMAIN saved => saved[k].phase = ""}
    BY DEF Load
  <1> SUFFICES ASSUME NEW k \in Keys \ (released' \cup resurrected'), Ours(cluster, k)
               PROVE  Covers(saved, k) /\ Covers(inv, k)
    BY <1>1 DEF TrackedInv, Covers, Ours
  <1>2. Covers(saved, k)
    <2>1. CASE k \in released
      BY <1>1, <2>1 DEF Covers
    <2>2. CASE k \notin released
      BY <1>1, <2>2 DEF IndInv, TrackedInv
    <2> QED
      BY <2>1, <2>2
  <1> QED
    BY <1>2 DEF Covers

\* The preparation of the inventory keeps the invariant, whether it is rejected,
\* saved first, or acted upon; in the last case it covers no more keys than the
\* persisted one.
LEMMA PlanInv ==
  ASSUME IndInv, PlanRejected \/ PlanExtended \/ PlanAccepted
  PROVE  IndInv'
  <1>0. /\ Load("apply") /\ pc = "idle" /\ step = "read" /\ cur = NoKey
        /\ saved' = saved /\ rev' = manifest
        /\ mem' \in {saved, Planned}
    BY IdleCursor DEF PlanRejected, PlanExtended, PlanAccepted, Load
  <1>1. IsInventory(saved) /\ manifest \in Revisions /\ Rendered(manifest) \subseteq Keys
    BY ManifestAssumption DEF IndInv, StateTypeOK
  <1>2. IsInventory(Planned)
    BY <1>1, TargetType DEF Planned
  <1>3. DOMAIN Planned = DOMAIN saved \cup Rendered(manifest)
    BY DEF Planned, Target
  <1>4. \A k \in DOMAIN Planned : Planned[k].phase = "" => k \in DOMAIN saved /\ saved[k].phase = ""
    BY <1>1, TargetPhase DEF Planned
  <1>5. TrackedInv'
    <2>1. \A k \in DOMAIN saved : saved[k].phase # "" => Covers(mem', k)
      BY <1>0, <1>3, <1>4 DEF Covers
    <2> QED
      BY <1>0, <2>1, LoadTracked
  <1>6. CASE PlanRejected \/ PlanExtended
    <2>1. pc' = "save" /\ UNCHANGED <<waveVars, cursorVars>> /\ result' \in {"again", "error"}
      BY <1>6 DEF PlanRejected, PlanExtended, Load
    <2>2. StateTypeOK'
      BY <1>0, <1>1, <1>2, <2>1 DEF IndInv, StateTypeOK, Load, waveVars, cursorVars, boundVars
    <2>3. CursorInv' /\ PersistedInv'
      BY <1>0, <2>1 DEF CursorInv, PersistedInv, InStage, cursorVars
    <2> QED
      BY <1>5, <2>2, <2>3 DEF IndInv
  <1>7. CASE PlanAccepted
    <2>1. /\ pc' = "namespaces" /\ mem' = Planned
          /\ UNCHANGED <<wave, blockers, waiting, result, cursorVars>>
          /\ Rendered(manifest) \subseteq DOMAIN saved
      BY <1>7 DEF PlanAccepted, Known, Load
    <2>2. todo' \subseteq Keys
      BY <1>1, <1>7, NamespaceAssumption DEF PlanAccepted, MissingNamespaces
    <2>3. StateTypeOK'
      BY <1>0, <1>1, <1>2, <2>1, <2>2 DEF IndInv, StateTypeOK, Load, cursorVars, boundVars
    <2>4. CursorInv' /\ PersistedInv'
      <3>1. Rendered(rev') = Rendered(manifest)
        BY <1>0
      <3> QED
        BY <1>0, <1>3, <1>4, <2>1, <3>1 DEF CursorInv, PersistedInv, InStage, cursorVars, Rendered
    <2> QED
      BY <1>5, <2>3, <2>4 DEF IndInv
  <1> QED
    BY <1>6, <1>7

\* The creation of missing namespaces keeps the invariant: they are not ours.
LEMMA NamespacesInv ==
  ASSUME IndInv, NamespacesDone \/ \E n \in Keys : CreateMissingNamespace(n)
  PROVE  IndInv'
  <1>1. pc = "namespaces" /\ CallFrame /\ Calling /\ step = "read" /\ cur = NoKey
        /\ released' = released /\ released' \subseteq Keys
    BY IdleCursor DEF NamespacesDone, CreateMissingNamespace, InCall, CallFrame, Calling,
       IndInv, StateTypeOK
  <1>2. CASE NamespacesDone
    <2> DEFINE keys == {k \in DOMAIN mem :
                          mem[k].phase \in {"ScheduledForCompletion", "Completing"}}
    <2>1. keys \in SUBSET DOMAIN mem
      OBVIOUS
    <2>2. Enter("complete", keys) /\ UNCHANGED <<cluster, resurrected, boundVars>>
      BY <1>2 DEF NamespacesDone, Locally
    <2> HIDE DEF keys
    <2> QED
      BY <1>1, <2>1, <2>2, EnterInv
  <1>3. ASSUME NEW n \in Keys, CreateMissingNamespace(n)
        PROVE  IndInv'
    <2> DEFINE c == IF cluster[n].exists THEN cluster
                    ELSE Put(cluster, n, "none", NoDigest, FALSE)
    <2>1. c \in [Keys -> Objects] /\ \A j \in Keys : Ours(c, j) => Ours(cluster, j)
      <3>1. NoDigest \in Digests
        BY PairType DEF Digests, NoDigest
      <3>2. cluster \in [Keys -> Objects] /\ "none" \in Owners /\ "none" # "me"
        BY SameCluster DEF Owners
      <3> DEFINE p == Put(cluster, n, "none", NoDigest, FALSE)
      <3>3. /\ p \in [Keys -> Objects]
            /\ \A j \in Keys \ {n} : p[j] = cluster[j]
            /\ ~ Ours(p, n)
        BY <3>1, <3>2 DEF Put, Objects, Ours, Owners
      <3> HIDE DEF p
      <3> QED
        BY <3>2, <3>3 DEF Ours, p
    <2>2. Request(c, Handled(n, mem, FALSE))
      BY <1>3 DEF CreateMissingNamespace
    <2> HIDE DEF c
    <2>3. CASE Write(c) /\ Handled(n, mem, FALSE) /\ UNCHANGED boundVars
      <3>1. mem' = mem /\ saved' = saved /\ IsInventory(mem)
        BY <1>1, <2>3 DEF Handled, CallFrame, IndInv, StateTypeOK
      <3>2. Surroundings' /\ resurrected \subseteq resurrected' /\ cluster' = c
        BY <1>1, <2>1, <2>3, WriteKeeps DEF Surroundings, IndInv, StateTypeOK, boundVars
      <3>3. TrackedInv'
        BY <1>1, <2>1, <3>1, <3>2, KeepsTracked DEF Covers
      <3> QED
        BY <1>1, <2>3, <3>1, <3>2, <3>3, HandledInv
    <2>4. CASE Write(c) /\ Disturb("lose") /\ Fail
      BY <1>1, <2>1, <2>4, FailedRequestInv
    <2>5. CASE UNCHANGED <<cluster, resurrected>> /\ Disturb("fail") /\ Fail
      BY <1>1, <2>1, <2>5, FailedRequestInv
    <2> QED
      BY <2>2, <2>3, <2>4, <2>5 DEF Request
  <1> QED
    BY <1>2, <1>3

\* The steps that complete purged objects keep the invariant.
LEMMA CompletionInv ==
  ASSUME IndInv, CompleteObject \/ CheckCompletion \/ CompletionsDone
  PROVE  IndInv'
  <1>1. pc = "complete" /\ CallFrame /\ Calling
        /\ released' = released /\ released' \subseteq Keys /\ IsInventory(mem)
    BY DEF CompleteObject, CheckCompletion, CompletionsDone, HaveRead, InCall, CallFrame,
       Calling, IndInv, StateTypeOK
  <1>2. CASE CompleteObject
    BY <1>1, <1>2, RequestDeletionInv DEF CompleteObject, HaveRead
  <1>3. CASE CheckCompletion
    <2>1. cur \in DOMAIN mem
      BY <1>3, InMemory DEF CheckCompletion, HaveRead
    <2>2. CASE seen.exists
      <3>1. Locally(Handled(cur, mem, TRUE))
        BY <1>3, <2>2 DEF CheckCompletion
      <3> QED
        BY <1>1, <3>1, HandledLocallyInv
    <2>3. CASE ~ seen.exists
      <3> DEFINE inv == SetPhase(mem, cur, "Completed")
      <3>1. "Completed" \in Phases /\ "Completed" # ""
        BY DEF Phases
      <3>2. Locally(Handled(cur, inv, FALSE))
        BY <1>3, <2>3 DEF CheckCompletion
      <3>3. /\ IsInventory(inv) /\ DOMAIN inv = DOMAIN mem
            /\ \A j \in DOMAIN mem \ {cur} : inv[j] = mem[j]
            /\ inv[cur].phase = "Completed"
        BY <1>1, <2>1, <3>1, SetPhaseType
      <3> HIDE DEF inv
      <3>4. \A j \in DOMAIN mem : inv[j].phase = "" => mem[j].phase = ""
        BY <3>1, <3>3
      <3> QED
        BY <1>1, <3>2, <3>3, <3>4, HandledLocallyInv
    <2> QED
      BY <2>2, <2>3
  <1>4. CASE CompletionsDone
    <2>1. step = "read" /\ UNCHANGED <<cluster, resurrected, boundVars>>
      BY <1>4 DEF CompletionsDone, Locally, IndInv, CursorInv
    <2>2. CASE waiting
      <3>1. Return("again") /\ mem' = mem
        BY <1>4, <2>2 DEF CompletionsDone, Locally
      <3>2. Surroundings' /\ TrackedInv'
        BY <1>1, <2>1, <3>1, LocalInv DEF CallFrame, Covers
      <3> QED
        BY <1>1, <3>1, <3>2, ReturnInv
    <2>3. CASE ~ waiting
      <3>1. Enter("apply", Rendered(rev))
        BY <1>4, <2>3 DEF CompletionsDone, Locally
      <3>2. Rendered(rev) \in SUBSET DOMAIN mem
        BY <1>1 DEF IndInv, CursorInv
      <3> QED
        BY <1>1, <2>1, <3>1, <3>2, EnterInv
    <2> QED
      BY <2>2, <2>3
  <1> QED
    BY <1>2, <1>3, <1>4

\* The steps of the apply stage that handle the key that has been read.
LEMMA ApplyObjectInv ==
  ASSUME IndInv, CreateObject \/ UpdateObject \/ RecreateObject \/ ObserveObject
  PROVE  IndInv'
  <1>1. pc = "apply" /\ step = "act" /\ CallFrame /\ Calling /\ released' = released
        /\ released \subseteq released' /\ released' \subseteq Keys
    BY DEF CreateObject, UpdateObject, RecreateObject, ObserveObject, HaveRead, InCall,
       CallFrame, Calling, IndInv, StateTypeOK
  <1>2. cur \in DOMAIN mem /\ cur \in Keys /\ IsInventory(mem) /\ mem[cur].digest \in Digests
    BY <1>1, InMemory DEF IndInv, StateTypeOK, IsInventory, Items
  <1>3. ASSUME NEW phase \in {"Creating", "Updating"}, NEW finalizer \in BOOLEAN,
               Request(Put(cluster, cur, "me", mem[cur].digest, finalizer),
                       Handled(cur, Applied(phase), TRUE))
        PROVE  IndInv'
    <2> DEFINE c == Put(cluster, cur, "me", mem[cur].digest, finalizer)
               inv == Applied(phase)
    <2>1. c \in [Keys -> Objects] /\ \A j \in Keys \ {cur} : c[j] = cluster[j]
      BY <1>2, SameCluster DEF Put, Objects, Owners
    <2>2. \A j \in Keys : Ours(c, j) /\ ~ Ours(cluster, j) => j = cur
      BY <2>1 DEF Ours
    <2>3. phase \in Phases
      BY DEF Phases
    <2>4. /\ IsInventory(inv) /\ DOMAIN inv = DOMAIN mem
          /\ \A j \in DOMAIN mem \ {cur} : inv[j] = mem[j]
          /\ inv[cur].phase = phase
      BY <1>2, <2>3, AppliedType
    <2>5. phase # ""
      OBVIOUS
    <2> HIDE DEF c, inv
    <2>6. Request(c, Handled(cur, inv, TRUE))
      BY <1>3 DEF c, inv
    <2>7. CASE Write(c) /\ Handled(cur, inv, TRUE) /\ UNCHANGED boundVars
      BY <1>1, <1>2, <2>1, <2>2, <2>4, <2>5, <2>7, HandledWriteInv
    <2>8. CASE Write(c) /\ Disturb("lose") /\ Fail
      BY <1>1, <1>2, <2>1, <2>2, <2>8, FailedRequestInv
    <2>9. CASE UNCHANGED <<cluster, resurrected>> /\ Disturb("fail") /\ Fail
      BY <1>1, <1>2, <2>1, <2>2, <2>9, FailedRequestInv
    <2> QED
      BY <2>6, <2>7, <2>8, <2>9 DEF Request
  <1>4. CASE Refused
    BY <1>1, <1>4, RefusedInv
  <1>5. CASE CreateObject
    <2>1. IsType(cur) \in BOOLEAN
      BY DEF IsType
    <2> QED
      BY <1>3, <1>4, <1>5, <2>1 DEF CreateObject
  <1>6. CASE UpdateObject
    <2>1. (seen.finalizer \/ IsType(cur)) \in BOOLEAN
      BY DEF IndInv, StateTypeOK, Objects, IsType
    <2> QED
      BY <1>3, <1>4, <1>6, <2>1 DEF UpdateObject
  <1>7. CASE RecreateObject
    BY <1>1, <1>7, RequestDeletionInv DEF RecreateObject
  <1>8. CASE ObserveObject
    <2>1. CASE Locally(Handled(cur, mem, TRUE))
      BY <1>1, <1>2, <2>1, HandledLocallyInv
    <2>2. CASE Locally(Handled(cur, SetPhase(mem, cur, "Ready"), FALSE))
      <3> DEFINE inv == SetPhase(mem, cur, "Ready")
      <3>1. "Ready" \in Phases /\ "Ready" # ""
        BY DEF Phases
      <3>2. /\ IsInventory(inv) /\ DOMAIN inv = DOMAIN mem
            /\ \A j \in DOMAIN mem \ {cur} : inv[j] = mem[j]
            /\ inv[cur].phase = "Ready"
        BY <1>2, <3>1, SetPhaseType
      <3> HIDE DEF inv
      <3>3. \A j \in DOMAIN mem : inv[j].phase = "" => mem[j].phase = ""
        BY <3>1, <3>2
      <3>4. Locally(Handled(cur, inv, FALSE))
        BY <2>2 DEF inv
      <3> QED
        BY <1>1, <3>2, <3>3, <3>4, HandledLocallyInv
    <2> QED
      BY <1>8, <2>1, <2>2 DEF ObserveObject
  <1> QED
    BY <1>5, <1>6, <1>7, <1>8

\* The other steps of the apply stage.
LEMMA ApplyWaveInv ==
  ASSUME IndInv,
         BeginApplyWave \/ (\E k \in Keys : SkipObject(k)) \/ EndApplyWave \/ ApplyDone
  PROVE  IndInv'
  <1>1. /\ pc = "apply" /\ CallFrame /\ Calling /\ released' = released
        /\ released \subseteq released' /\ released' \subseteq Keys
        /\ IsInventory(mem) /\ UNCHANGED <<cluster, resurrected, boundVars>>
    BY DEF BeginApplyWave, SkipObject, EndApplyWave, ApplyDone, InCall, Locally,
       historyVars, CallFrame, Calling, IndInv, StateTypeOK
  <1>2. Rendered(rev) \subseteq DOMAIN mem /\ todo \subseteq DOMAIN mem
    BY <1>1 DEF IndInv, CursorInv, InStage
  <1>3. CASE BeginApplyWave
    <2>1. step = "read" /\ UNCHANGED <<mem, pc, todo, waiting, cursorVars, result>>
      BY <1>3, <1>1 DEF BeginApplyWave, Locally, IndInv, CursorInv
    <2>2. \A k \in todo : ApplyOrder(rev, k) \in Orders
      BY <1>1, ManifestAssumption
      DEF IndInv, StateTypeOK, CursorInv, InStage, ApplyOrder, Specs
    <2>3. \A o : PendingIn(o) \subseteq {"regular", "late", "managed"}
      BY DEF PendingIn
    <2>4. wave' \in Orders /\ blockers' \subseteq {"regular", "late", "managed"}
      BY <1>3, <2>2, <2>3 DEF BeginApplyWave
    <2> QED
      BY <1>1, <2>1, <2>4, BeginWaveInv
  <1>4. ASSUME NEW k \in Keys, SkipObject(k)
        PROVE  IndInv'
    <2>1. Locally(Handled(k, mem, mem[k].phase # "Completed"))
      BY <1>4 DEF SkipObject
    <2>2. (mem[k].phase # "Completed") \in BOOLEAN
      OBVIOUS
    <2> QED
      BY <1>1, <2>1, <2>2, HandledLocallyInv
  <1>5. CASE EndApplyWave
    <2>1. cur = NoKey /\ step = "read"
      BY <1>5 DEF EndApplyWave, IndInv, CursorInv
    <2>2. CASE Return("again") /\ UNCHANGED mem
      <3>1. Surroundings' /\ TrackedInv'
        BY <1>1, <2>2, LocalInv DEF CallFrame, Covers
      <3> QED
        BY <1>1, <2>2, <3>1, ReturnInv
    <2>3. CASE /\ mem' = [k \in DOMAIN mem |->
                            IF k \in Purgeable
                            THEN [mem[k] EXCEPT !.phase = "ScheduledForCompletion"]
                            ELSE mem[k]]
               /\ Return("again")
      <3>1. \A k \in DOMAIN mem :
               LET item == IF k \in Purgeable
                           THEN [mem[k] EXCEPT !.phase = "ScheduledForCompletion"]
                           ELSE mem[k]
               IN  item \in Items /\ (item.phase = "" => mem[k].phase = "")
        BY <1>1 DEF IsInventory, Items, Phases
      <3>2. IsInventory(mem')
        BY <1>1, <2>3, <3>1 DEF IsInventory
      <3>3. \A k \in DOMAIN mem : mem[k].phase # "" => Covers(mem', k)
        BY <2>3, <3>1 DEF Covers
      <3>4. Surroundings' /\ TrackedInv'
        BY <1>1, <3>3, LocalInv DEF CallFrame
      <3> QED
        BY <1>1, <2>3, <3>2, <3>4, ReturnInv
    <2>4. CASE Enter("apply", todo)
      BY <1>1, <1>2, <2>1, <2>4, EnterInv DEF IndInv, CursorInv
    <2> QED
      BY <1>5, <2>2, <2>3, <2>4 DEF EndApplyWave
  <1>6. CASE ApplyDone
    <2> DEFINE keys == {k \in DOMAIN mem :
                          mem[k].phase \in {"ScheduledForDeletion", "Deleting"}}
    <2>1. keys \in SUBSET DOMAIN mem
      OBVIOUS
    <2>2. Enter("delete", keys) /\ wave = NoWave /\ todo = {}
      BY <1>6 DEF ApplyDone, Locally
    <2>3. step = "read"
      BY <1>1, <1>6 DEF ApplyDone, IndInv, CursorInv, InStage
    <2> HIDE DEF keys
    <2> QED
      BY <1>1, <2>1, <2>2, <2>3, EnterInv
  <1> QED
    BY <1>3, <1>4, <1>5, <1>6

\* The start of Delete keeps the invariant: the inventory is the persisted one.
LEMMA StartDeleteInv ==
  ASSUME IndInv, StartDelete
  PROVE  IndInv'
  <1>1. /\ Load("delete") /\ step = "read" /\ cur = NoKey
        /\ saved' = saved /\ mem' = saved /\ pc' = "delete" /\ todo' = DOMAIN saved
        /\ UNCHANGED <<wave, blockers, waiting, result, cursorVars>>
    BY IdleCursor DEF StartDelete, Load
  <1>2. TrackedInv'
    <2>1. \A k \in DOMAIN saved : saved[k].phase # "" => Covers(mem', k)
      BY <1>1 DEF Covers
    <2> QED
      BY <1>1, <2>1, LoadTracked
  <1>3. StateTypeOK'
    BY <1>1, InMemory DEF IndInv, StateTypeOK, Load, cursorVars, boundVars
  <1>4. CursorInv' /\ PersistedInv'
    BY <1>1 DEF CursorInv, PersistedInv, InStage, cursorVars
  <1> QED
    BY <1>2, <1>3, <1>4 DEF IndInv

\* An item loses its phase only if its object is not ours, or has been released.
LEMMA DroppedInv ==
  ASSUME IndInv, CallFrame, pc = "delete", step = "act",
         released \subseteq released', released' \subseteq Keys,
         cur \in released' \/ ~ Ours(cluster, cur)
  PROVE  /\ Locally(Handled(cur, SetPhase(mem, cur, ""), FALSE)) => IndInv'
         /\ Request(DropFinalizer(cluster, cur),
                    Handled(cur, SetPhase(mem, cur, ""), FALSE)) => IndInv'
  <1> DEFINE inv == SetPhase(mem, cur, "")
             c == DropFinalizer(cluster, cur)
  <1>1. Calling /\ cur \in DOMAIN mem /\ cur \in Keys /\ IsInventory(mem)
    BY InMemory DEF IndInv, StateTypeOK, Calling
  <1>2. "" \in Phases
    BY DEF Phases
  <1>3. /\ IsInventory(inv) /\ DOMAIN inv = DOMAIN mem
        /\ \A j \in DOMAIN mem \ {cur} : inv[j] = mem[j]
    BY <1>1, <1>2, SetPhaseType
  <1>4. c \in [Keys -> Objects] /\ \A j \in Keys : Ours(c, j) <=> Ours(cluster, j)
    BY <1>1, SameCluster, DropFinalizerType
  <1> HIDE DEF inv, c
  <1>5. ASSUME Locally(Handled(cur, inv, FALSE))
        PROVE  IndInv'
    <2>1. \A j \in DOMAIN mem :
             j \notin released' /\ Ours(cluster, j) /\ mem[j].phase # "" =>
                 inv[j].phase # ""
      BY <1>3
    <2> QED
      BY <1>1, <1>3, <1>5, <2>1, HandledLocallyInv
  <1>6. ASSUME Request(c, Handled(cur, inv, FALSE))
        PROVE  IndInv'
    <2>1. CASE Write(c) /\ Handled(cur, inv, FALSE) /\ UNCHANGED boundVars
      <3>1. mem' = inv /\ saved' = saved
        BY <2>1 DEF Handled, CallFrame
      <3>2. Surroundings' /\ resurrected \subseteq resurrected' /\ cluster' = c
        BY <1>4, <2>1, WriteKeeps DEF Surroundings, IndInv, StateTypeOK, boundVars
      <3>3. \A j \in DOMAIN mem :
               j \notin released' /\ Ours(cluster', j) /\ mem[j].phase # "" =>
                   Covers(mem', j)
        <4>1. \A j \in DOMAIN mem : Ours(cluster', j) <=> Ours(cluster, j)
          BY <1>4, <3>2, InMemory
        <4> QED
          BY <1>3, <3>1, <4>1 DEF Covers
      <3>4. TrackedInv'
        BY <1>4, <3>1, <3>2, <3>3, KeepsTracked
      <3> QED
        BY <1>1, <1>3, <2>1, <3>2, <3>4, HandledInv
    <2>2. CASE Write(c) /\ Disturb("lose") /\ Fail
      BY <1>1, <1>4, <2>2, FailedRequestInv
    <2>3. CASE UNCHANGED <<cluster, resurrected>> /\ Disturb("fail") /\ Fail
      BY <1>1, <1>4, <2>3, FailedRequestInv
    <2> QED
      BY <1>6, <2>1, <2>2, <2>3 DEF Request
  <1> QED
    BY <1>5, <1>6 DEF inv, c

\* The steps of the delete stage that handle the key that has been read.
LEMMA DeleteObjectInv ==
  ASSUME IndInv, CheckDeletion \/ PostponeObject \/ OrphanObject \/ DeleteObject
  PROVE  IndInv'
  <1>1. pc = "delete" /\ step = "act" /\ CallFrame /\ Calling
        /\ released \subseteq released' /\ released' \subseteq Keys
    <2>1. pc = "delete" /\ step = "act" /\ CallFrame
      BY DEF CheckDeletion, PostponeObject, OrphanObject, DeleteObject, ToBeDeleted,
         HaveRead, InCall, CallFrame
    <2>2. released' = released \/ released' = released \cup {cur}
      BY DEF CheckDeletion, PostponeObject, OrphanObject, DeleteObject, ToBeDeleted, HaveRead
    <2>3. cur \in Keys /\ released \subseteq Keys
      BY <2>1, InMemory DEF IndInv, StateTypeOK
    <2> QED
      BY <2>1, <2>2, <2>3 DEF Calling
  <1>2. IsInventory(mem)
    BY DEF IndInv, StateTypeOK
  <1>3. ~ (seen.exists /\ seen.owner = "me") => ~ Ours(cluster, cur)
    BY <1>1 DEF IndInv, CursorInv
  <1>4. CASE Refused
    BY <1>1, <1>4, RefusedInv
  <1>5. CASE Locally(Handled(cur, mem, TRUE))
    BY <1>1, <1>2, <1>5, HandledLocallyInv
  <1>6. CASE CheckDeletion
    <2>1. \/ Refused
          \/ Locally(Handled(cur, mem, TRUE))
          \/ /\ ~ (seen.exists /\ seen.owner = "me")
             /\ Locally(Handled(cur, SetPhase(mem, cur, ""), FALSE))
      BY <1>6 DEF CheckDeletion
    <2> QED
      BY <1>1, <1>3, <1>4, <1>5, <2>1, DroppedInv
  <1>7. CASE PostponeObject
    BY <1>5, <1>7 DEF PostponeObject
  <1>8. CASE OrphanObject
    <2>1. cur \in released' \/ ~ Ours(cluster, cur)
      BY <1>3, <1>8 DEF OrphanObject, Foreign
    <2>2. \/ Refused
          \/ Locally(Handled(cur, SetPhase(mem, cur, ""), FALSE))
          \/ Request(DropFinalizer(cluster, cur),
                     Handled(cur, SetPhase(mem, cur, ""), FALSE))
      BY <1>8 DEF OrphanObject
    <2> QED
      BY <1>1, <1>4, <2>1, <2>2, DroppedInv
  <1>9. CASE DeleteObject
    BY <1>1, <1>9, RequestDeletionInv DEF DeleteObject, ToBeDeleted, HaveRead
  <1> QED
    BY <1>6, <1>7, <1>8, <1>9

\* The filter at the end of Apply and Delete gives an inventory without items
\* that have no phase.
LEMMA RemainingType ==
  ASSUME IndInv
  PROVE  /\ IsInventory(Remaining)
         /\ \A k \in DOMAIN mem : mem[k].phase # "" => Covers(Remaining, k)
  <1> DEFINE K == {j \in DOMAIN mem : mem[j].phase # ""}
  <1>1. DOMAIN Remaining = K /\ \A k \in K : Remaining[k] = mem[k]
    BY DEF Remaining
  <1>2. Remaining = [k \in DOMAIN Remaining |-> Remaining[k]]
    BY DEF Remaining
  <1>3. IsInventory(mem)
    BY DEF IndInv, StateTypeOK
  <1> QED
    BY <1>1, <1>2, <1>3 DEF IsInventory, Covers

\* The other steps of the delete stage.
LEMMA DeleteWaveInv ==
  ASSUME IndInv, BeginDeleteWave \/ EndDeleteWave \/ DeleteDone
  PROVE  IndInv'
  <1>1. /\ pc = "delete" /\ CallFrame /\ Calling /\ released' = released
        /\ released \subseteq released' /\ released' \subseteq Keys
        /\ IsInventory(mem) /\ UNCHANGED <<cluster, resurrected, boundVars>>
    BY DEF BeginDeleteWave, EndDeleteWave, DeleteDone, InCall, Locally,
       historyVars, CallFrame, Calling, IndInv, StateTypeOK
  <1>2. step = "read" /\ todo \subseteq DOMAIN mem
    BY <1>1 DEF BeginDeleteWave, EndDeleteWave, DeleteDone, IndInv, CursorInv, InStage
  <1>3. ASSUME mem' = Remaining, NEW r \in {"done", "again"}, Return(r)
        PROVE  IndInv'
    <2>1. IsInventory(mem')
      BY <1>3, RemainingType
    <2>2. Surroundings' /\ TrackedInv'
      BY <1>1, <1>3, RemainingType, LocalInv DEF CallFrame
    <2> QED
      BY <1>1, <1>3, <2>1, <2>2, ReturnInv
  <1>4. CASE BeginDeleteWave
    <2>1. \A k \in todo : mem[k].deleteOrder \in Orders
      BY <1>1, <1>2 DEF IsInventory, Items
    <2>2. wave' \in Orders /\ blockers' \subseteq {"regular", "late", "managed"}
          /\ UNCHANGED <<mem, pc, todo, waiting, cursorVars, result>>
      BY <1>4, <2>1 DEF BeginDeleteWave, Locally
    <2> QED
      BY <1>1, <1>2, <2>2, BeginWaveInv
  <1>5. CASE EndDeleteWave
    BY <1>1, <1>2, <1>3, <1>5, EnterInv DEF EndDeleteWave
  <1>6. CASE DeleteDone
    BY <1>3, <1>6 DEF DeleteDone
  <1> QED
    BY <1>4, <1>5, <1>6

\* The end of a round, saved, lost or final, keeps the invariant.
LEMMA SaveInv ==
  ASSUME IndInv, Save \/ SaveLost \/ Finish
  PROVE  IndInv'
  <1>1. step = "read" /\ cur = NoKey
    BY IdleCursor DEF Save, SaveLost, Finish
  <1>2. /\ pc' = "idle" /\ result' = "again" /\ stale' = FALSE
        /\ UNCHANGED <<cluster, manifest, op, rev, waveVars, cursorVars, released>>
        /\ saved' \in {saved, mem} /\ mem' \in {saved, mem}
        /\ component' \in {component, "gone"}
        /\ resurrected' \subseteq resurrected
    BY DEF Save, SaveLost, Finish, BackToIdle
  <1>3. disturbed' \in 0 .. MaxDisturbances /\ edits' \in 0 .. MaxEdits
    <2>1. CASE UNCHANGED boundVars
      BY <2>1 DEF IndInv, StateTypeOK, boundVars
    <2>2. CASE Disturb("fail")
      BY <2>2, DisturbType DEF IndInv
    <2> QED
      BY <2>1, <2>2 DEF Save, SaveLost, Finish
  <1>4. StateTypeOK'
    <2>1. StateTypeOK
      BY DEF IndInv
    <2>2. IsInventory(saved)' /\ IsInventory(mem)'
      BY <1>2, <2>1 DEF StateTypeOK
    <2>3. /\ component' \in {"live", "deleting", "gone"}
          /\ pc' = "idle" /\ result' = "again" /\ stale' = FALSE
      BY <1>2, <2>1 DEF StateTypeOK
    <2>4. UNCHANGED <<cluster, manifest, op, rev, wave, blockers, waiting, todo,
                      cur, step, seen, fresh, released>>
      BY <1>2 DEF waveVars, cursorVars
    <2>5. resurrected' \subseteq Keys
      BY <1>2, <2>1 DEF StateTypeOK
    <2> QED
      BY <1>3, <2>1, <2>2, <2>3, <2>4, <2>5 DEF StateTypeOK
  <1>5. CursorInv' /\ PersistedInv'
    BY <1>1, <1>2 DEF CursorInv, PersistedInv, InStage, cursorVars
  <1>6. TrackedInv'
    <2> SUFFICES ASSUME NEW k \in Keys \ (released \cup resurrected'), Ours(cluster, k)
                 PROVE  Covers(saved', k) /\ Covers(mem', k)
      BY <1>2 DEF TrackedInv, Covers, Ours
    <2>1. CASE k \notin resurrected
      BY <1>2, <2>1 DEF IndInv, TrackedInv, Covers
    <2>2. CASE k \in resurrected
      <3>1. saved' = mem /\ mem' = mem /\ Covers(mem, k)
        BY <2>2 DEF Save, SaveLost, Finish, Covers
      <3> QED
        BY <3>1 DEF Covers
    <2> QED
      BY <2>1, <2>2
  <1> QED
    BY <1>4, <1>5, <1>6 DEF IndInv

\* A crash keeps the invariant: the persisted inventory accounts for everything.
LEMMA CrashInv ==
  ASSUME IndInv, Crash
  PROVE  IndInv'
  <1>1. disturbed' \in 0 .. MaxDisturbances /\ edits' \in 0 .. MaxEdits
    BY DisturbType DEF Crash, IndInv
  <1>2. StateTypeOK'
    BY <1>1, AbsentIsObject DEF Crash, IndInv, StateTypeOK, callVars, historyVars
  <1>3. CursorInv' /\ PersistedInv'
    BY DEF Crash, CursorInv, PersistedInv, InStage
  <1>4. TrackedInv'
    BY DEF Crash, IndInv, TrackedInv, Covers, Ours, historyVars
  <1> QED
    BY <1>2, <1>3, <1>4 DEF IndInv

-----------------------------------------------------------------------------
(* The environment *)

\* Nothing that happens elsewhere makes an object ours.
LEMMA ElsewhereInv ==
  ASSUME IndInv, NEW c \in [Keys -> Objects], Elsewhere(c),
         \A j \in Keys : Ours(c, j) => Ours(cluster, j),
         disturbed' \in 0 .. MaxDisturbances, edits' \in 0 .. MaxEdits
  PROVE  IndInv'
  <1>1. /\ cluster' = c /\ fresh' = (fresh /\ (cur = NoKey \/ c[cur] = cluster[cur]))
        /\ UNCHANGED <<componentVars, saved, op, rev, mem, pc, waveVars, cur, seen,
                       step, result, released, resurrected>>
    BY DEF Elsewhere
  <1>2. StateTypeOK'
    <2>1. fresh' \in BOOLEAN
      BY <1>1 DEF IndInv, StateTypeOK
    <2> QED
      BY <1>1, <2>1 DEF IndInv, StateTypeOK, componentVars, callVars, waveVars, historyVars
  <1>3. CursorInv'
    <2>1. step = "act" => cur \in Keys /\ cur # NoKey
      BY InMemory
    <2>2. step = "act" /\ ~ (seen.exists /\ seen.owner = "me") => ~ Ours(c, cur)
      BY <2>1 DEF IndInv, CursorInv
    <2>3. step = "act" /\ fresh' => seen = c[cur]
      BY <1>1, <2>1 DEF IndInv, CursorInv
    <2> QED
      BY <1>1, <2>2, <2>3 DEF IndInv, CursorInv, InStage, callVars, waveVars
  <1>4. PersistedInv' /\ TrackedInv'
    BY <1>1 DEF IndInv, PersistedInv, TrackedInv, Covers, historyVars
  <1> QED
    BY <1>2, <1>3, <1>4 DEF IndInv

\* What the cluster, others and the users do keeps the invariant.
LEMMA EnvironmentInv ==
  ASSUME IndInv, Environment
  PROVE  IndInv'
  <1>1. cluster \in [Keys -> Objects] /\ disturbed \in 0 .. MaxDisturbances
        /\ edits \in 0 .. MaxEdits
    BY DEF IndInv, StateTypeOK
  <1>2. ASSUME NEW k \in Keys, BecomeReady(k) \/ Flicker(k)
        PROVE  IndInv'
    <2>1. PICK b \in BOOLEAN : Elsewhere([cluster EXCEPT ![k].ready = b])
      BY <1>2 DEF BecomeReady, Flicker
    <2> DEFINE c == [cluster EXCEPT ![k].ready = b]
    <2>2. c \in [Keys -> Objects] /\ \A j \in Keys : Ours(c, j) <=> Ours(cluster, j)
      BY <1>1 DEF Objects, Ours
    <2>3. disturbed' \in 0 .. MaxDisturbances /\ edits' \in 0 .. MaxEdits
      BY <1>1, <1>2, DisturbType DEF IndInv, BecomeReady, Flicker, boundVars
    <2> HIDE DEF c
    <2>4. Elsewhere(c)
      BY <2>1 DEF c
    <2> QED
      BY <2>2, <2>3, <2>4, ElsewhereInv
  <1>3. ASSUME NEW k \in Keys, FinishDeletion(k)
        PROVE  IndInv'
    <2>1. disturbed' \in 0 .. MaxDisturbances /\ edits' \in 0 .. MaxEdits
          /\ Elsewhere(Collect(cluster, k))
      BY <1>1, <1>3 DEF FinishDeletion, boundVars
    <2> QED
      BY <1>1, <2>1, CollectType, ElsewhereInv
  <1>4. ASSUME NEW k \in Keys, CascadeDeletion(k) \/ ForeignDelete(k)
        PROVE  IndInv'
    <2>1. disturbed' \in 0 .. MaxDisturbances /\ edits' \in 0 .. MaxEdits
          /\ Elsewhere(MarkDeleting(cluster, k))
      BY <1>1, <1>4, DisturbType DEF IndInv, CascadeDeletion, ForeignDelete, boundVars
    <2> QED
      BY <1>1, <2>1, MarkDeletingType, ElsewhereInv
  <1>5. ASSUME NEW k \in Keys, NEW o \in {"none", "other"}, ForeignCreate(k, o)
        PROVE  IndInv'
    <2> DEFINE c == Put(cluster, k, o, NoDigest, FALSE)
    <2>1. NoDigest \in Digests
      BY PairType DEF Digests, NoDigest
    <2>2. c \in [Keys -> Objects] /\ \A j \in Keys \ {k} : c[j] = cluster[j]
      BY <1>1, <2>1 DEF Put, Objects, Owners
    <2>3. ~ Ours(c, k)
      BY <1>1 DEF Put, Ours
    <2>4. disturbed' \in 0 .. MaxDisturbances /\ edits' \in 0 .. MaxEdits /\ Elsewhere(c)
      BY <1>5, DisturbType DEF IndInv, ForeignCreate
    <2> HIDE DEF c
    <2>5. \A j \in Keys : Ours(c, j) => Ours(cluster, j)
      BY <2>2, <2>3 DEF Ours
    <2> QED
      BY <2>2, <2>4, <2>5, ElsewhereInv
  <1>6. ASSUME NEW k \in Keys, NEW o \in {"none", "other"}, Takeover(k, o)
        PROVE  IndInv'
    <2> DEFINE c == [cluster EXCEPT ![k].owner = o, ![k].digest = NoDigest]
    <2>1. NoDigest \in Digests
      BY PairType DEF Digests, NoDigest
    <2>2. c \in [Keys -> Objects] /\ \A j \in Keys \ {k} : c[j] = cluster[j]
      BY <1>1, <2>1 DEF Objects, Owners
    <2>3. ~ Ours(c, k)
      BY <1>1 DEF Ours, Objects
    <2>4. disturbed' \in 0 .. MaxDisturbances /\ edits' \in 0 .. MaxEdits /\ Elsewhere(c)
      BY <1>6, DisturbType DEF IndInv, Takeover
    <2> HIDE DEF c
    <2>5. \A j \in Keys : Ours(c, j) => Ours(cluster, j)
      BY <2>2, <2>3 DEF Ours
    <2> QED
      BY <2>2, <2>4, <2>5, ElsewhereInv
  <1>7. ASSUME NEW k \in Keys, Expire(k)
        PROVE  IndInv'
    <2>1. /\ saved' = Aged(saved, k) /\ mem' = Aged(mem, k)
          /\ UNCHANGED <<cluster, componentVars, callVars, pc, waveVars, cursorVars,
                         result, historyVars>>
          /\ disturbed' \in 0 .. MaxDisturbances /\ edits' \in 0 .. MaxEdits
      BY <1>7, DisturbType DEF IndInv, Expire
    <2>2. ASSUME NEW inv, IsInventory(inv)
          PROVE  /\ IsInventory(Aged(inv, k)) /\ DOMAIN Aged(inv, k) = DOMAIN inv
                 /\ \A j \in DOMAIN inv : Aged(inv, k)[j].phase = inv[j].phase
      <3>1. CASE k \in DOMAIN inv
        <4>1. /\ Aged(inv, k) = [inv EXCEPT ![k].applied = FALSE]
              /\ \A j \in DOMAIN inv : inv[j] \in Items
          BY <2>2, <3>1 DEF Aged, IsInventory
        <4> DEFINE aged == Aged(inv, k)
        <4>2. /\ DOMAIN aged = DOMAIN inv /\ aged = [j \in DOMAIN aged |-> aged[j]]
              /\ \A j \in DOMAIN inv \ {k} : aged[j] = inv[j]
          BY <2>2, <4>1 DEF IsInventory
        <4>3. aged[k] = [inv[k] EXCEPT !.applied = FALSE]
          BY <3>1, <4>1
        <4>4. aged[k] \in Items /\ aged[k].phase = inv[k].phase
          BY <3>1, <4>1, <4>3 DEF Items
        <4> HIDE DEF aged
        <4>5. \A j \in DOMAIN inv : aged[j] \in Items /\ aged[j].phase = inv[j].phase
          BY <4>1, <4>2, <4>4
        <4>6. IsInventory(aged)
          BY <2>2, <4>2, <4>5 DEF IsInventory
        <4> QED
          BY <4>2, <4>5, <4>6 DEF aged
      <3>2. CASE k \notin DOMAIN inv
        BY <2>2, <3>2 DEF Aged
      <3> QED
        BY <3>1, <3>2
    <2>3. IsInventory(saved) /\ IsInventory(mem)
      BY DEF IndInv, StateTypeOK
    <2>4. StateTypeOK'
      BY <2>1, <2>2, <2>3 DEF IndInv, StateTypeOK, componentVars, callVars, waveVars, cursorVars,
         historyVars
    <2>5. CursorInv'
      BY <2>1, <2>2, <2>3 DEF IndInv, CursorInv, InStage, callVars, waveVars, cursorVars
    <2>6. PersistedInv'
      BY <2>1, <2>2, <2>3 DEF IndInv, PersistedInv
    <2>7. TrackedInv'
      BY <2>1, <2>2, <2>3 DEF IndInv, TrackedInv, Covers, Ours, historyVars
    <2> QED
      BY <2>4, <2>5, <2>6, <2>7 DEF IndInv
  <1>8. ASSUME NEW state \in {"live", "deleting"}, NEW r \in Revisions,
               ChangeComponent(state, r)
        PROVE  IndInv'
    <2>1. /\ component' = state /\ manifest' = r /\ stale' \in BOOLEAN
          /\ edits' \in 0 .. MaxEdits
          /\ UNCHANGED <<cluster, saved, callVars, mem, pc, waveVars, cursorVars,
                         result, historyVars, disturbed>>
      BY <1>1, <1>8, BoundsAssumption DEF ChangeComponent
    <2>2. StateTypeOK'
      BY <2>1 DEF IndInv, StateTypeOK, callVars, waveVars, cursorVars, historyVars
    <2>3. CursorInv' /\ PersistedInv'
      BY <2>1 DEF IndInv, CursorInv, PersistedInv, InStage, callVars, waveVars, cursorVars
    <2>4. TrackedInv'
      BY <2>1 DEF IndInv, TrackedInv, Covers, Ours, historyVars
    <2> QED
      BY <2>2, <2>3, <2>4 DEF IndInv
  <1>9. manifest \in Revisions
    BY DEF IndInv, StateTypeOK
  <1> QED
    BY <1>2, <1>3, <1>4, <1>5, <1>6, <1>7, <1>8, <1>9
    DEF Environment, Edit, DeleteComponent

-----------------------------------------------------------------------------
(* The theorems *)

\* Every step keeps the invariant.
LEMMA NextIndInv == IndInv /\ [Next]_vars => IndInv'
  <1> SUFFICES ASSUME IndInv, [Next]_vars PROVE IndInv'
    OBVIOUS
  <1>1. CASE UNCHANGED vars
    <2>1. StateTypeOK'
      BY <1>1 DEF IndInv, StateTypeOK, vars, componentVars, callVars, waveVars, cursorVars,
         historyVars, boundVars
    <2>2. CursorInv' /\ PersistedInv'
      BY <1>1 DEF IndInv, CursorInv, PersistedInv, InStage, vars, callVars, waveVars,
         cursorVars
    <2>3. TrackedInv'
      BY <1>1 DEF IndInv, TrackedInv, Covers, Ours, vars, historyVars
    <2> QED
      BY <2>1, <2>2, <2>3 DEF IndInv
  <1>2. CASE Reconcile
    <2>1. CASE Apply
      BY <2>1, PlanInv, NamespacesInv, CompletionInv, ApplyWaveInv, ApplyObjectInv DEF Apply
    <2>2. CASE Delete
      BY <2>2, StartDeleteInv, DeleteWaveInv, DeleteObjectInv DEF Delete
    <2> QED
      BY <1>2, <2>1, <2>2, ReadObjectInv, FinalizeTypeInv, SaveInv DEF Reconcile
  <1>3. CASE Crash
    BY <1>3, CrashInv
  <1>4. CASE Environment
    BY <1>4, EnvironmentInv
  <1> QED
    BY <1>1, <1>2, <1>3, <1>4 DEF Next

\* The invariant holds in every reachable state, for all values of the constants.
THEOREM InductiveInvariant == Spec => []IndInv
  BY InitIndInv, NextIndInv, PTL DEF Spec

\* No object with our owner id is ever missing in the persisted inventory, unless
\* it was released on purpose or acquired while its persisted item was about to be
\* dropped (the early return of Apply after additions is what this rests on).
THEOREM Tracking == Spec => []OwnedIsTracked
  <1>1. IndInv => OwnedIsTracked
    BY DEF IndInv, TrackedInv, Covers, OwnedIsTracked
  <1> QED
    BY <1>1, InductiveInvariant, PTL

-----------------------------------------------------------------------------
(* What a step does to objects *)

\* What a request to delete does to an object.
LEMMA RequestDeletionEffect ==
  ASSUME IndInv, step = "act", RequestDeletion, NEW k \in Keys
  PROVE  /\ Ours(cluster', k) => Ours(cluster, k)
         /\ Deletes(k) => cluster[k].owner = "me" \/ ~ seen.exists
  <1>1. cur \in Keys /\ cluster \in [Keys -> Objects]
    BY InMemory, SameCluster
  <1>2. CASE cluster' = cluster
    BY <1>2 DEF Ours, Deletes
  <1>3. CASE /\ seen.exists => seen.owner = "me" /\ fresh
             /\ cluster' = MarkDeleting(cluster, cur)
    <2>1. fresh => seen = cluster[cur]
      BY DEF IndInv, CursorInv
    <2>2. Ours(cluster', k) => Ours(cluster, k)
      BY <1>1, <1>3, MarkDeletingType
    <2> QED
      BY <1>3, <2>1, <2>2 DEF Deletes
  <1>4. cluster' = cluster \/ /\ seen.exists => seen.owner = "me" /\ fresh
                              /\ cluster' = MarkDeleting(cluster, cur)
    BY DEF RequestDeletion, SeenAsOurs, PreconditionHolds, Request, Write, Refused, Locally
  <1> QED
    BY <1>2, <1>3, <1>4

\* What a step may do to an object: it becomes ours only in the apply stage, if it is
\* rendered and with its key in the persisted inventory, and the deletion of a foreign object is
\* requested only if there was no object when it was read.
LEMMA Effects ==
  ASSUME IndInv, [Next]_vars, NEW k \in Keys
  PROVE  /\ Ours(cluster', k) /\ ~ Ours(cluster, k) =>
               pc = "apply" /\ k \in DOMAIN saved /\ k \in Rendered(rev)
         /\ Deletes(k) => cluster[k].owner = "me" \/ ~ seen.exists
  <1> DEFINE Goal ==
               /\ Ours(cluster', k) /\ ~ Ours(cluster, k) =>
                    pc = "apply" /\ k \in DOMAIN saved /\ k \in Rendered(rev)
               /\ Deletes(k) => cluster[k].owner = "me" \/ ~ seen.exists
  <1>1. cluster \in [Keys -> Objects] /\ (step # "read" => cur \in Keys /\ cur # NoKey)
    BY InMemory, SameCluster
  <1>2. ASSUME cluster' = cluster
        PROVE  Goal
    BY <1>2 DEF Ours, Deletes
  <1>3. CASE CompleteObject \/ RecreateObject \/ DeleteObject
    <2>1. step = "act" /\ RequestDeletion
      BY <1>3 DEF CompleteObject, RecreateObject, DeleteObject, ToBeDeleted, HaveRead
    <2> QED
      BY <2>1, RequestDeletionEffect
  <1>4. CASE FinalizeType \/ ReleaseType \/ OrphanObject
    <2> DEFINE c == DropFinalizer(cluster, cur)
    <2>1. cur \in Keys /\ (cluster' = c \/ cluster' = cluster)
      BY <1>1, <1>4
      DEF FinalizeType, ReleaseType, OrphanObject, Request, Write, Refused, Locally
    <2>2. c \in [Keys -> Objects] /\ (Ours(c, k) => Ours(cluster, k))
      BY <1>1, <2>1, DropFinalizerType
    <2>3. c[k].deleting = cluster[k].deleting
      BY <1>1, <2>1 DEF DropFinalizer, Objects
    <2> HIDE DEF c
    <2> QED
      BY <2>1, <2>2, <2>3 DEF Ours, Deletes
  <1>5. CASE \E n \in Keys : CreateMissingNamespace(n)
    <2>1. PICK n \in Keys : CreateMissingNamespace(n)
      BY <1>5
    <2> DEFINE c == Put(cluster, n, "none", NoDigest, FALSE)
    <2>2. step = "read" /\ (cluster' = c \/ cluster' = cluster)
      BY <2>1, IdleCursor DEF CreateMissingNamespace, InCall, Request, Write
    <2>3. c \in [Keys -> Objects] /\ (Ours(c, k) => Ours(cluster, k))
      <3>1. NoDigest \in Digests
        BY PairType DEF Digests, NoDigest
      <3> QED
        BY <1>1, <2>1, <3>1 DEF Put, Objects, Owners, Ours
    <2> HIDE DEF c
    <2> QED
      BY <2>2, <2>3 DEF Ours, Deletes
  <1>6. CASE CreateObject \/ UpdateObject
    <2>1. PICK finalizer : \/ cluster' = Put(cluster, cur, "me", mem[cur].digest, finalizer)
                           \/ cluster' = cluster
      BY <1>6 DEF CreateObject, UpdateObject, Request, Write, Refused, Locally
    <2>2. pc = "apply" /\ step = "act"
      BY <1>6 DEF CreateObject, UpdateObject, HaveRead, InCall
    <2>3. cur \in DOMAIN saved /\ cur \in Keys /\ cur \in Rendered(rev)
      <3>1. cur \in todo /\ todo \subseteq Rendered(rev)
        BY <2>2 DEF IndInv, CursorInv
      <3> QED
        BY <2>2, <3>1, InMemory DEF Calling
    <2>4. CASE cluster' = Put(cluster, cur, "me", mem[cur].digest, finalizer)
      BY <1>1, <2>2, <2>3, <2>4 DEF Put, Ours, Deletes
    <2> HIDE DEF Goal
    <2> QED
      BY <1>2, <2>1, <2>4 DEF Goal
  <1>7. CASE Environment
    <2>1. CASE cluster' = cluster
      BY <1>2, <2>1
    <2>2. CASE cluster' # cluster
      <3>1. PICK c : Elsewhere(c) /\ (Ours(c, k) => Ours(cluster, k))
        <4>1. ASSUME NEW j \in Keys, FinishDeletion(j)
              PROVE  \E c : Elsewhere(c) /\ (Ours(c, k) => Ours(cluster, k))
          BY <1>1, <4>1, CollectType DEF FinishDeletion
        <4>2. ASSUME NEW j \in Keys, CascadeDeletion(j) \/ ForeignDelete(j)
              PROVE  \E c : Elsewhere(c) /\ (Ours(c, k) => Ours(cluster, k))
          BY <1>1, <4>2, MarkDeletingType DEF CascadeDeletion, ForeignDelete
        <4>3. ASSUME NEW j \in Keys, BecomeReady(j) \/ Flicker(j)
              PROVE  \E c : Elsewhere(c) /\ (Ours(c, k) => Ours(cluster, k))
          <5>1. \A b \in BOOLEAN : Ours([cluster EXCEPT ![j].ready = b], k) => Ours(cluster, k)
            BY <1>1 DEF Ours, Objects
          <5> QED
            BY <4>3, <5>1 DEF BecomeReady, Flicker
        <4>4. ASSUME NEW j \in Keys, NEW o \in {"none", "other"}, ForeignCreate(j, o)
              PROVE  \E c : Elsewhere(c) /\ (Ours(c, k) => Ours(cluster, k))
          <5>1. Ours(Put(cluster, j, o, NoDigest, FALSE), k) => Ours(cluster, k)
            BY <1>1 DEF Put, Ours
          <5> QED
            BY <4>4, <5>1 DEF ForeignCreate
        <4>5. ASSUME NEW j \in Keys, NEW o \in {"none", "other"}, Takeover(j, o)
              PROVE  \E c : Elsewhere(c) /\ (Ours(c, k) => Ours(cluster, k))
          <5>1. Ours([cluster EXCEPT ![j].owner = o, ![j].digest = NoDigest], k)
                   => Ours(cluster, k)
            BY <1>1 DEF Ours, Objects
          <5> QED
            BY <4>5, <5>1 DEF Takeover
        <4> QED
          BY <1>7, <2>2, <4>1, <4>2, <4>3, <4>4, <4>5
          DEF Environment, Expire, Edit, DeleteComponent, ChangeComponent
      <3> QED
        BY <3>1 DEF Elsewhere, Deletes
    <2> QED
      BY <2>1, <2>2
  <1>8. CASE \/ UNCHANGED vars \/ Crash
             \/ \E j \in Keys : ReadObject(j) \/ SkipObject(j)
             \/ PlanRejected \/ PlanExtended \/ PlanAccepted \/ NamespacesDone
             \/ CheckCompletion \/ CompletionsDone
             \/ BeginApplyWave \/ ObserveObject \/ EndApplyWave \/ ApplyDone
             \/ StartDelete \/ BeginDeleteWave \/ CheckDeletion \/ PostponeObject
             \/ EndDeleteWave \/ DeleteDone
             \/ Save \/ SaveLost \/ Finish
    <2>1. cluster' = cluster
      BY <1>8 DEF vars, Crash, ReadObject, SkipObject, PlanRejected, PlanExtended,
         PlanAccepted, Load, NamespacesDone, CheckCompletion, CompletionsDone,
         BeginApplyWave, ObserveObject, EndApplyWave, ApplyDone, StartDelete,
         BeginDeleteWave, CheckDeletion, PostponeObject, EndDeleteWave, DeleteDone,
         Save, SaveLost, Finish, BackToIdle, Locally, Refused
    <2> QED
      BY <1>2, <2>1
  <1> HIDE DEF Goal
  <1>9. Goal
    BY <1>3, <1>4, <1>5, <1>6, <1>7, <1>8 DEF Next, Reconcile, Apply, Delete, Goal
  <1> QED
    BY <1>9 DEF Goal

\* Apply creates and adopts only what the persisted inventory already has.
THEOREM WritesAhead == Spec => WriteAhead
  <1>1. IndInv /\ [Next]_vars =>
          [\A k \in Keys :
              Ours(cluster', k) /\ ~ Ours(cluster, k) => k \in DOMAIN saved]_vars
    BY Effects
  <1> QED
    BY <1>1, InductiveInvariant, PTL DEF Spec, WriteAhead

\* Apply and Delete never delete a foreign object, unless there was no object when
\* they looked (owner check and resource version precondition of deleteObject).
THEOREM DeletionOfOwned == Spec => DeletesOnlyOwned
  <1>1. IndInv /\ [Next]_vars =>
          [\A k \in Keys :
              Deletes(k) => cluster[k].owner = "me" \/ ~ seen.exists]_vars
    BY Effects
  <1> QED
    BY <1>1, InductiveInvariant, PTL DEF Spec, DeletesOnlyOwned
-----------------------------------------------------------------------------
(* Types and their instances *)

\* What is unnoticed of the instances of t after the cluster has become c.
Late(c, t) == IF Kind[t] = "APIService" THEN Latecomers(c) ELSE {}

\* What the reconciler may make of the cluster without breaking TypesInv.
Stands(c) ==
    \A t \in Keys \ unguarded :
        IsType(t) /\ Ours(c, t) /\ ~ c[t].finalizer =>
            \/ c[t].deleting /\ Instances(c, t) \subseteq Late(c, t)
            \/ pc = "delete" /\ step = "act" /\ cluster[t].finalizer

\* The objects of c that are new are not instances of types being deleted, unless
\* of an APIService.
Admitted(c) ==
    \A j \in Keys : TypeOf[j] # NoKey /\ c[j].exists /\ ~ cluster[j].exists =>
        Kind[TypeOf[j]] = "APIService" \/ ~ cluster[TypeOf[j]].deleting

\* What appears of the instances of a type is late, once they are not looked for.
LEMMA LateInstances ==
  ASSUME NEW c, Admitted(c), NEW t \in Keys, cluster[t].deleting,
         Kind[t] = "APIService" => LookedFor(t),
         Instances(cluster, t) \subseteq Unnoticed(t)
  PROVE  Instances(c, t) \subseteq Late(c, t)
  <1> SUFFICES ASSUME NEW j \in Keys, TypeOf[j] = t, c[j].exists
               PROVE  j \in Late(c, t)
    BY DEF Instances
  <1>1. CASE cluster[j].exists
    <2>1. j \in Unnoticed(t)
      BY <1>1 DEF Instances
    <2> QED
      BY <2>1 DEF Unnoticed, Late, Latecomers
  <1>2. CASE ~ cluster[j].exists
    <2>1. Kind[t] = "APIService" /\ LookedFor(t)
      BY <1>2, KeysAssumption DEF Admitted
    <2> QED
      BY <1>2, <2>1 DEF Late, Latecomers
  <1> QED
    BY <1>1, <1>2

\* The invariant stands if no type of ours loses its finalizer or is saved from its
\* deletion.
LEMMA StandsStill ==
  ASSUME TypesInv, NEW c, Admitted(c),
         \A t \in Keys : IsType(t) /\ Ours(c, t) /\ ~ c[t].finalizer =>
             /\ Ours(cluster, t) /\ ~ cluster[t].finalizer
             /\ cluster[t].deleting => c[t].deleting
  PROVE  \A t \in Keys \ unguarded :
             IsType(t) /\ Ours(c, t) /\ ~ c[t].finalizer =>
                 c[t].deleting /\ Instances(c, t) \subseteq Late(c, t)
  <1> SUFFICES ASSUME NEW t \in Keys \ unguarded, IsType(t), Ours(c, t), ~ c[t].finalizer
               PROVE  c[t].deleting /\ Instances(c, t) \subseteq Late(c, t)
    OBVIOUS
  <1>1. /\ cluster[t].deleting /\ ~ cluster[t].finalizer /\ c[t].deleting
        /\ Instances(cluster, t) \subseteq Unnoticed(t)
    BY DEF TypesInv
  <1> QED
    BY <1>1, LateInstances DEF LookedFor

\* A step that does not change the objects.
LEMMA TypesKept ==
  ASSUME TypesInv, cluster' = cluster, unguarded' = unguarded, latecomers' = latecomers,
         step' = "finalize" => step \in {"finalize", "release"} /\ cur' = cur,
         step' = "release" => step = "release" /\ cur' = cur /\ fresh' = fresh,
         pc' = "namespaces" => \A n \in todo' : IsNamespace(n)
  PROVE  TypesInv'
  BY DEF TypesInv, Ours, Instances, Unnoticed

\* A write of the reconciler.
LEMMA TypesWritten ==
  ASSUME TypesInv, NEW c, Stands(c), Write(c),
         step' = "finalize" /\ Ours(c, cur') => c[cur'].deleting, step' # "release",
         pc' = "namespaces" => \A n \in todo' : IsNamespace(n)
  PROVE  TypesInv'
  <1>1. cluster' = c /\ latecomers' = Latecomers(c) /\ latecomers' \subseteq Keys
    BY DEF Write, Latecomers
  <1>2. /\ unguarded' \subseteq Keys
        /\ \A t \in Keys : IsType(t) /\ Ours(c, t) /\ ~ c[t].finalizer =>
              (t \in unguarded' <=> \/ t \in unguarded
                                   \/ /\ pc = "delete" /\ step = "act"
                                      /\ cluster[t].finalizer)
    BY DEF Write
  <1>3. \A t \in Keys \ unguarded' :
            IsType(t) /\ Ours(c, t) /\ ~ c[t].finalizer =>
                c[t].deleting /\ Instances(c, t) \subseteq Late(c, t)
    BY <1>2 DEF Stands
  <1>4. \A t \in Keys : Unnoticed(t)' = Late(c, t)
    BY <1>1 DEF Unnoticed, Late
  <1> HIDE DEF Stands
  <1> QED
    BY <1>1, <1>2, <1>3, <1>4 DEF TypesInv, Ours, Instances

\* A request after which the next object is turned to, and its failures.
LEMMA TypesRequest ==
  ASSUME TypesInv, NEW c, Stands(c), step' = "read",
         Write(c) \/ UNCHANGED <<cluster, unguarded, latecomers>>,
         pc' = "namespaces" => \A n \in todo' : IsNamespace(n)
  PROVE  TypesInv'
  BY TypesKept, TypesWritten

\* What others or the cluster itself do.
LEMMA TypesElsewhere ==
  ASSUME TypesInv, NEW c, Elsewhere(c), Admitted(c),
         \A t \in Keys : Ours(c, t) =>
             /\ Ours(cluster, t) /\ c[t].finalizer = cluster[t].finalizer
             /\ cluster[t].deleting => c[t].deleting,
         step # "read" => cur \in Keys /\ cur # NoKey
  PROVE  TypesInv'
  <1>1. /\ cluster' = c /\ UNCHANGED <<step, cur, unguarded, pc, todo>>
        /\ latecomers' = Latecomers(c) /\ latecomers' \subseteq Keys
        /\ fresh' => fresh /\ (cur = NoKey \/ c[cur] = cluster[cur])
    BY DEF Elsewhere, waveVars, Latecomers
  <1>2. \A t \in Keys \ unguarded :
            IsType(t) /\ Ours(c, t) /\ ~ c[t].finalizer =>
                c[t].deleting /\ Instances(c, t) \subseteq Late(c, t)
    BY StandsStill
  <1>3. step \in {"finalize", "release"} /\ Ours(c, cur) => c[cur].deleting
    BY DEF TypesInv
  <1>4. step = "release" /\ fresh' /\ Ours(c, cur) =>
            Instances(c, cur) \subseteq Late(c, cur)
    <2> SUFFICES ASSUME step = "release", fresh', Ours(c, cur)
                 PROVE  Instances(c, cur) \subseteq Late(c, cur)
      OBVIOUS
    <2>1. cur \in Keys /\ cluster[cur].deleting /\ Instances(cluster, cur) \subseteq Unnoticed(cur)
      BY <1>1 DEF TypesInv
    <2> QED
      BY <2>1, LateInstances DEF LookedFor
  <1>5. \A t \in Keys : Unnoticed(t)' = Late(c, t)
    BY <1>1 DEF Unnoticed, Late
  <1>6. TypesInv => unguarded \subseteq Keys /\ (pc = "namespaces" => \A n \in todo : IsNamespace(n))
    BY DEF TypesInv
  <1> QED
    BY <1>1, <1>2, <1>3, <1>4, <1>5, <1>6 DEF TypesInv, Ours, Instances

\* The cluster as it is.
LEMMA TypesStand ==
  ASSUME TypesInv
  PROVE  Stands(cluster)
  <1>1. Admitted(cluster)
    BY DEF Admitted
  <1> QED
    BY <1>1, StandsStill DEF Stands, TypesInv

\* Requests to delete: the finalizer is dealt with afterwards.
LEMMA RequestDeletionTypes ==
  ASSUME IndInv, TypesInv, step = "act", pc # "namespaces", RequestDeletion
  PROVE  TypesInv'
  <1>1. cur \in Keys /\ cluster \in [Keys -> Objects]
    BY InMemory, SameCluster
  <1>2. Stands(cluster)
    BY TypesStand
  <1> DEFINE c == MarkDeleting(cluster, cur)
  <1>3. \A j \in Keys :
           /\ c[j].exists = cluster[j].exists /\ c[j].owner = cluster[j].owner
           /\ c[j].finalizer = cluster[j].finalizer
           /\ j = cur \/ cluster[j].deleting => c[j].deleting
    BY <1>1 DEF MarkDeleting, Objects
  <1> HIDE DEF c
  <1>4. Stands(c)
    BY <1>3, StandsStill DEF Stands, Ours, Admitted
  <1>5. pc' # "namespaces"
    BY DEF RequestDeletion, Refused, Locally, Request, Deleted, Handled, Fail, Return
  <1>6. CASE /\ step' = "read"
             /\ Write(cluster) \/ Write(c) \/ UNCHANGED <<cluster, unguarded, latecomers>>
    BY <1>2, <1>4, <1>5, <1>6, TypesRequest
  <1>7. CASE Write(c) /\ cur' = cur /\ step' = "finalize"
    BY <1>1, <1>3, <1>4, <1>5, <1>7, TypesWritten
  <1> QED
    BY <1>6, <1>7 DEF RequestDeletion, Refused, Locally, Request, Deleted, Handled, Fail,
       Return, c

\* Instances are looked for, and are noticed unless the finalizer is gone already.
LEMMA FinalizeTypes ==
  ASSUME IndInv, TypesInv, FinalizeType
  PROVE  TypesInv'
  <1>1. /\ cur \in Keys /\ step = "finalize"
        /\ UNCHANGED <<cluster, unguarded>> /\ latecomers' = NotNoticed
    BY InMemory DEF FinalizeType
  <1>2. /\ pc' # "namespaces"
        /\ \/ step' = "read"
           \/ step' = "release" /\ cur' = cur /\ Instances(cluster, cur) = {}
    <2>1. pc # "namespaces"
      BY <1>1 DEF IndInv, CursorInv, InStage
    <2> QED
      BY <2>1 DEF FinalizeType, BeginRelease, Unused, Deleted, Handled, Fail, Return
  <1>3. \A t \in Keys \ unguarded :
            IsType(t) /\ Ours(cluster, t) /\ ~ cluster[t].finalizer =>
                Instances(cluster, t) \cap latecomers \subseteq latecomers'
    <2> SUFFICES ASSUME NEW t \in Keys, ~ cluster[t].finalizer,
                        NEW k \in Instances(cluster, t) \cap latecomers
                 PROVE  k \in latecomers'
      OBVIOUS
    <2>1. TypeOf[k] = t
      BY DEF Instances
    <2> QED
      BY <1>1, <2>1 DEF NotNoticed
  <1>4. \A t \in Keys \ unguarded :
            IsType(t) /\ Ours(cluster, t) /\ ~ cluster[t].finalizer =>
                /\ cluster[t].deleting
                /\ Instances(cluster, t) \subseteq
                      IF Kind[t] = "APIService" THEN latecomers' ELSE {}
    BY <1>3 DEF TypesInv, Unnoticed
  <1>5. unguarded' \subseteq Keys /\ latecomers' \subseteq Keys
    BY <1>1 DEF TypesInv, NotNoticed
  <1> QED
    BY <1>1, <1>2, <1>4, <1>5 DEF TypesInv, Ours, Instances, Unnoticed

\* The finalizer is removed from a type without instances but those created since
\* they were looked for, or by orphaning it.
LEMMA DropTypes ==
  ASSUME IndInv, TypesInv, ReleaseType \/ OrphanObject
  PROVE  TypesInv'
  <1>1. cur \in Keys /\ cluster \in [Keys -> Objects]
    BY InMemory, SameCluster DEF ReleaseType, OrphanObject
  <1> DEFINE c == DropFinalizer(cluster, cur)
  <1>2. \A j \in Keys :
           /\ c[j].exists = cluster[j].exists /\ c[j].owner = cluster[j].owner
           /\ c[j].deleting = cluster[j].deleting
           /\ j # cur => c[j].finalizer = cluster[j].finalizer
    BY <1>1 DEF DropFinalizer, Objects
  <1> HIDE DEF c
  <1>3. \A t \in Keys :
           /\ Instances(c, t) = Instances(cluster, t)
           /\ Instances(cluster, t) \subseteq Unnoticed(t) => Instances(c, t) \subseteq Late(c, t)
    BY <1>2 DEF Instances, Unnoticed, Late, Latecomers
  <1>4. /\ pc' # "namespaces"
        /\ step' = "read" \/ /\ step' = "finalize" /\ step = "release" /\ cur' = cur
                             /\ UNCHANGED <<cluster, unguarded, latecomers>>
    <2>1. pc # "namespaces"
      BY DEF ReleaseType, OrphanObject, InCall, IndInv, CursorInv, InStage
    <2>2. CASE ReleaseType
      BY <2>1, <2>2
      DEF ReleaseType, Request, Locally, Refused, Deleted, Handled, Fail, Return
    <2>3. CASE OrphanObject
      BY <2>1, <2>3
      DEF OrphanObject, Request, Locally, Refused, Deleted, Handled, Fail, Return
    <2> QED
      BY <2>2, <2>3
  <1>5. CASE UNCHANGED <<cluster, unguarded, latecomers>>
    BY <1>4, <1>5, TypesKept
  <1>6. CASE step = "release" /\ fresh /\ Write(c)
    <2>1. Stands(c)
      BY <1>2, <1>3, <1>6 DEF Stands, TypesInv, Ours
    <2> QED
      BY <1>4, <1>5, <1>6, <2>1, TypesRequest
  <1>7. CASE /\ pc = "delete" /\ step = "act"
             /\ seen.exists /\ fresh /\ seen.finalizer
             /\ Write(c)
    <2>1. cluster[cur].finalizer
      BY <1>7 DEF IndInv, CursorInv
    <2>2. Stands(c)
      BY <1>2, <1>3, <1>7, <2>1 DEF Stands, TypesInv, Ours
    <2> QED
      BY <1>4, <1>5, <1>7, <2>2, TypesRequest
  <1> QED
    BY <1>5, <1>6, <1>7 DEF ReleaseType, OrphanObject, InCall, Request, Locally, Refused, c

\* A new object with this key would be no instance of a CRD that is being deleted.
Served(k) ==
    ~ cluster[k].exists /\ TypeOf[k] # NoKey =>
        Kind[TypeOf[k]] = "APIService" \/ ~ cluster[TypeOf[k]].deleting

\* The API server creates no others.
LEMMA AdmitsServed ==
  ASSUME NEW k \in Keys, Admits(cluster, k)
  PROVE  Served(k)
  BY TypeAssumption DEF Admits, Served

\* Objects are created, of CRDs only if these are not being deleted.
LEMMA CreationTypes ==
  ASSUME IndInv, TypesInv,
         CreateObject \/ UpdateObject \/ \E n \in Keys : CreateMissingNamespace(n)
  PROVE  TypesInv'
  <1>1. cluster \in [Keys -> Objects]
    BY SameCluster
  <1>2. ASSUME NEW k \in Keys, NEW owner \in Owners, NEW digest, NEW finalizer \in BOOLEAN,
               owner = "me" /\ IsType(k) => finalizer,
               Served(k)
        PROVE  Stands(Put(cluster, k, owner, digest, finalizer))
    <2> DEFINE c == Put(cluster, k, owner, digest, finalizer)
    <2>1. /\ \A j \in Keys \ {k} : c[j] = cluster[j]
          /\ c[k].owner = owner /\ c[k].finalizer = finalizer
      BY <1>1 DEF Put
    <2> HIDE DEF c
    <2>2. Admitted(c)
      BY <1>2, <2>1 DEF Admitted, Served
    <2>3. Stands(c)
      BY <1>2, <2>1, <2>2, StandsStill DEF Stands, Ours
    <2> QED
      BY <2>3 DEF c
  <1>3. CASE CreateObject \/ UpdateObject
    <2>1. cur \in Keys /\ pc = "apply" /\ step = "act"
      BY <1>3, InMemory DEF CreateObject, UpdateObject, HaveRead, InCall
    <2>2. /\ step' = "read" /\ pc' # "namespaces"
          /\ \/ UNCHANGED <<cluster, unguarded, latecomers>>
             \/ \E finalizer \in BOOLEAN :
                   /\ IsType(cur) => finalizer
                   /\ Served(cur)
                   /\ Write(Put(cluster, cur, "me", mem[cur].digest, finalizer))
      <3>1. CASE CreateObject
        <4>1. IsType(cur) \in BOOLEAN
          BY DEF IsType
        <4> QED
          BY <2>1, <3>1, <4>1, AdmitsServed
          DEF CreateObject, Request, Refused, Locally, Handled, Fail, Return
      <3>2. CASE UpdateObject
        <4>1. (seen.finalizer \/ IsType(cur)) \in BOOLEAN
          BY DEF IsType
        <4>2. fresh => Served(cur)
          BY <2>1, <3>2 DEF UpdateObject, IndInv, CursorInv, Served
        <4> QED
          BY <2>1, <3>2, <4>1, <4>2 DEF UpdateObject, Request, Refused, Locally, Handled, Fail, Return
      <3> QED
        BY <1>3, <3>1, <3>2
    <2>3. CASE UNCHANGED <<cluster, unguarded, latecomers>>
      BY <2>2, <2>3, TypesKept
    <2>4. ASSUME NEW finalizer \in BOOLEAN, IsType(cur) => finalizer, Served(cur),
                 Write(Put(cluster, cur, "me", mem[cur].digest, finalizer))
          PROVE  TypesInv'
      <3>1. "me" \in Owners
        BY DEF Owners
      <3>2. Stands(Put(cluster, cur, "me", mem[cur].digest, finalizer))
        BY <1>2, <2>1, <2>4, <3>1
      <3> QED
        BY <2>2, <2>4, <3>2, TypesRequest
    <2> QED
      BY <2>2, <2>3, <2>4
  <1>4. ASSUME NEW n \in Keys, CreateMissingNamespace(n)
        PROVE  TypesInv'
    <2> DEFINE c == Put(cluster, n, "none", NoDigest, FALSE)
    <2>1. /\ step' = "read" /\ pc = "namespaces"
          /\ todo' \subseteq todo \/ pc' # "namespaces"
      BY <1>4 DEF CreateMissingNamespace, InCall, Request, Handled, Fail, Return
    <2>2. \A m \in todo : IsNamespace(m)
      BY <2>1 DEF TypesInv
    <2>3. IsNamespace(n) /\ (pc' = "namespaces" => \A m \in todo' : IsNamespace(m))
      BY <1>4, <2>1, <2>2 DEF CreateMissingNamespace
    <2>4. TypeOf[n] = NoKey
      BY <2>3, TypeAssumption DEF IsNamespace
    <2>5. Stands(c)
      BY <1>2, <2>4 DEF Owners, Served
    <2>6. Stands(cluster)
      BY TypesStand
    <2>7. Write(c) \/ Write(cluster) \/ UNCHANGED <<cluster, unguarded, latecomers>>
      BY <1>4 DEF CreateMissingNamespace, Request
    <2> HIDE DEF c
    <2> QED
      BY <2>1, <2>3, <2>5, <2>6, <2>7, TypesRequest
  <1> QED
    BY <1>3, <1>4

\* What the cluster, others and the users do.
LEMMA EnvironmentTypes ==
  ASSUME IndInv, TypesInv, Environment
  PROVE  TypesInv'
  <1>1. /\ cluster \in [Keys -> Objects]
        /\ step # "read" => cur \in Keys /\ cur # NoKey
    BY InMemory, SameCluster
  <1>2. ASSUME NEW j \in Keys, FinishDeletion(j) PROVE TypesInv'
    <2>1. \A k \in Keys : Collect(cluster, j)[k] \in {Absent, cluster[k]}
      BY DEF Collect
    <2> QED
      BY <1>1, <1>2, <2>1, TypesElsewhere DEF FinishDeletion, Ours, Absent, Admitted
  <1>3. ASSUME NEW j \in Keys, CascadeDeletion(j) \/ ForeignDelete(j) PROVE TypesInv'
    <2>1. \A k \in Keys :
             /\ MarkDeleting(cluster, j)[k].exists = cluster[k].exists
             /\ MarkDeleting(cluster, j)[k].owner = cluster[k].owner
             /\ MarkDeleting(cluster, j)[k].finalizer = cluster[k].finalizer
             /\ cluster[k].deleting => MarkDeleting(cluster, j)[k].deleting
      BY <1>1 DEF MarkDeleting, Objects
    <2> QED
      BY <1>1, <1>3, <2>1, TypesElsewhere DEF CascadeDeletion, ForeignDelete, Ours, Admitted
  <1>4. ASSUME NEW j \in Keys, BecomeReady(j) \/ Flicker(j) PROVE TypesInv'
    <2>1. PICK b \in BOOLEAN : Elsewhere([cluster EXCEPT ![j].ready = b])
      BY <1>4 DEF BecomeReady, Flicker
    <2> DEFINE c == [cluster EXCEPT ![j].ready = b]
    <2>2. \A k \in Keys :
             /\ c[k].exists = cluster[k].exists /\ c[k].owner = cluster[k].owner
             /\ c[k].finalizer = cluster[k].finalizer
             /\ c[k].deleting = cluster[k].deleting
      BY <1>1 DEF Objects
    <2> HIDE DEF c
    <2> QED
      BY <1>1, <2>1, <2>2, TypesElsewhere DEF Ours, Admitted, c
  <1>5. ASSUME NEW j \in Keys, NEW o \in {"none", "other"}, ForeignCreate(j, o)
        PROVE  TypesInv'
    <2> DEFINE c == Put(cluster, j, o, NoDigest, FALSE)
    <2>1. /\ \A k \in Keys \ {j} : c[k] = cluster[k]
          /\ c[j].owner # "me"
      BY <1>1 DEF Put
    <2>2. Elsewhere(c) /\ Served(j)
      BY <1>5, AdmitsServed DEF ForeignCreate
    <2> HIDE DEF c
    <2>3. Admitted(c)
      BY <2>1, <2>2 DEF Admitted, Served
    <2> QED
      BY <1>1, <2>1, <2>2, <2>3, TypesElsewhere DEF Ours
  <1>6. ASSUME NEW j \in Keys, NEW o \in {"none", "other"}, Takeover(j, o)
        PROVE  TypesInv'
    <2> DEFINE c == [cluster EXCEPT ![j].owner = o, ![j].digest = NoDigest]
    <2>1. /\ \A k \in Keys \ {j} : c[k] = cluster[k]
          /\ c[j].owner # "me" /\ c[j].exists = cluster[j].exists
      BY <1>1 DEF Objects
    <2>2. Elsewhere(c)
      BY <1>6 DEF Takeover
    <2> HIDE DEF c
    <2> QED
      BY <1>1, <2>1, <2>2, TypesElsewhere DEF Ours, Admitted
  <1>7. CASE (\E j \in Keys : Expire(j)) \/ (\E r \in Revisions : Edit(r)) \/ DeleteComponent
    <2>1. UNCHANGED <<cluster, unguarded, latecomers, step, cur, fresh, pc, todo>>
      BY <1>7 DEF Expire, Edit, DeleteComponent, ChangeComponent, historyVars, cursorVars,
         waveVars
    <2> QED
      BY <2>1, TypesKept DEF TypesInv
  <1> QED
    BY <1>2, <1>3, <1>4, <1>5, <1>6, <1>7 DEF Environment

\* Every step keeps the invariant.
LEMMA NextTypes == IndInv /\ TypesInv /\ [Next]_vars => TypesInv'
  <1> SUFFICES ASSUME IndInv, TypesInv, [Next]_vars PROVE TypesInv'
    OBVIOUS
  <1>1. CASE CompleteObject \/ RecreateObject \/ DeleteObject
    <2>1. step = "act" /\ pc # "namespaces" /\ RequestDeletion
      BY <1>1 DEF CompleteObject, RecreateObject, DeleteObject, ToBeDeleted, HaveRead, InCall
    <2> QED
      BY <2>1, RequestDeletionTypes
  <1>2. CASE PlanAccepted
    <2>1. /\ UNCHANGED <<cluster, unguarded, latecomers, step, cur, fresh>>
          /\ todo' \subseteq MissingNamespaces(manifest)
          /\ manifest \in Revisions
      BY <1>2 DEF PlanAccepted, Load, cursorVars, IndInv, StateTypeOK
    <2>2. \A n \in MissingNamespaces(manifest) : IsNamespace(n)
      BY <2>1, ManifestAssumption, NamespaceAssumption DEF MissingNamespaces, IsNamespace
    <2> QED
      BY <2>1, <2>2, TypesKept DEF TypesInv
  <1>3. CASE \E k \in Keys : ReadObject(k)
    <2>1. /\ UNCHANGED <<cluster, unguarded, latecomers>> /\ step' \in {"act", "read"}
          /\ UNCHANGED <<pc, todo>> \/ pc' # "namespaces"
      BY <1>3 DEF ReadObject, historyVars, waveVars, Fail, Return
    <2> QED
      BY <2>1, TypesKept DEF TypesInv
  <1>4. CASE \/ UNCHANGED vars \/ Crash
             \/ \E k \in Keys : SkipObject(k)
             \/ PlanRejected \/ PlanExtended \/ NamespacesDone
             \/ CheckCompletion \/ CompletionsDone
             \/ BeginApplyWave \/ ObserveObject \/ EndApplyWave \/ ApplyDone
             \/ StartDelete \/ BeginDeleteWave \/ CheckDeletion \/ PostponeObject
             \/ EndDeleteWave \/ DeleteDone
             \/ Save \/ SaveLost \/ Finish
    <2>1. UNCHANGED <<cluster, unguarded, latecomers>>
      BY <1>4 DEF vars, historyVars, Crash, SkipObject, PlanRejected, PlanExtended,
         Load, NamespacesDone, CheckCompletion, CompletionsDone,
         BeginApplyWave, ObserveObject, EndApplyWave, ApplyDone, StartDelete,
         BeginDeleteWave, CheckDeletion, PostponeObject, EndDeleteWave, DeleteDone,
         Save, SaveLost, Finish, BackToIdle, Locally, Refused
    <2>2. /\ step' = "read" \/ UNCHANGED <<step, cur, fresh>>
          /\ pc' # "namespaces" \/ UNCHANGED <<pc, todo>>
      BY <1>4 DEF vars, cursorVars, waveVars, Crash, SkipObject, PlanRejected, PlanExtended,
         Load, InCall, HaveRead, ToBeDeleted, NamespacesDone, CheckCompletion, CompletionsDone,
         BeginApplyWave, ObserveObject, EndApplyWave, ApplyDone, StartDelete,
         BeginDeleteWave, CheckDeletion, PostponeObject, EndDeleteWave, DeleteDone,
         Save, SaveLost, Finish, BackToIdle, Locally, Refused, Handled, Enter, Fail, Return
    <2> QED
      BY <2>1, <2>2, TypesKept DEF TypesInv
  <1> QED
    BY <1>1, <1>2, <1>3, <1>4, FinalizeTypes, DropTypes, CreationTypes, EnvironmentTypes
    DEF Next, Reconcile, Apply, Delete

\* Before the first call nothing is ours.
LEMMA InitTypes == Init => TypesInv
  <1> SUFFICES ASSUME Init PROVE TypesInv
    OBVIOUS
  <1>1. \A k \in Keys : ~ Ours(cluster, k)
    BY InitUnowned
  <1> QED
    BY <1>1 DEF Init, TypesInv

\* What is known of types holds in every reachable state.
LEMMA TypesInvariant == Spec => [](IndInv /\ TypesInv)
  BY InitIndInv, InitTypes, NextIndInv, NextTypes, PTL DEF Spec

\* A type of ours does not lose our finalizer, and so does not go away, while there
\* are instances of it, unless it was orphaned; of an APIService there may be some
\* that were created after they had been looked for (deleteObject).
THEOREM TypesOutlive == Spec => []TypeOutlivesInstances
  <1>1. TypesInv => TypeOutlivesInstances
    BY DEF TypesInv, TypeOutlivesInstances
  <1> QED
    BY <1>1, TypesInvariant, PTL
=============================================================================
