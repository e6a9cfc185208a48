----------------------------- MODULE LedgerProofs -----------------------------
(***************************************************************************)
(* Dependents implements OwnershipLedger: the initial states are mapped to *)
(* an empty ledger, and under the inductive invariant every step of        *)
(* Dependents is mapped to a step of the ledger or leaves it unchanged.    *)
(***************************************************************************)
EXTENDS DependentsProofs, DependentsRefinement

\* A step of the ledger, or none.
LedgerStep == [Ledger!Next]_(Ledger!vars)

-----------------------------------------------------------------------------
(* Ways to take a step of the ledger *)

\* Objects may stop being ours, without any request of the reconciler.
LEMMA LoseStep ==
  ASSUME OwnedKeys' \subseteq OwnedKeys, KnownKeys' = KnownKeys,
         ExcusedKeys' = ExcusedKeys
  PROVE  LedgerStep
  <1> DEFINE S == OwnedKeys \ OwnedKeys'
  <1>1. S \in SUBSET Keys
    BY DEF OwnedKeys
  <1>2. Ledger!Lose(S)
    BY DEF Ledger!Lose
  <1> HIDE DEF S
  <1> QED
    BY <1>1, <1>2 DEF LedgerStep, Ledger!Next

\* An object whose key is persisted may become ours.
LEMMA AcquireStep ==
  ASSUME NEW k \in Keys, k \in KnownKeys, KnownKeys' = KnownKeys,
         OwnedKeys' = OwnedKeys \cup {k},
         ExcusedKeys' = ExcusedKeys \/ ExcusedKeys' = ExcusedKeys \cup {k}
  PROVE  LedgerStep
  <1>1. \E S, E \in SUBSET Keys : Ledger!Acquire(S, E)
    <2>1. CASE ExcusedKeys' = ExcusedKeys
      <3>1. Ledger!Acquire({k}, {})
        BY <2>1 DEF Ledger!Acquire
      <3>2. {k} \in SUBSET Keys /\ {} \in SUBSET Keys
        OBVIOUS
      <3> QED
        BY <3>1, <3>2, Zenon
    <2>2. CASE ExcusedKeys' = ExcusedKeys \cup {k}
      <3>1. Ledger!Acquire({k}, {k})
        BY <2>2 DEF Ledger!Acquire
      <3>2. {k} \in SUBSET Keys
        OBVIOUS
      <3> QED
        BY <3>1, <3>2, Zenon
    <2> QED
      BY <2>1, <2>2
  <1> QED
    BY <1>1 DEF LedgerStep, Ledger!Next

\* An object whose key is persisted may be left to itself.
LEMMA ExcuseStep ==
  ASSUME NEW k \in Keys, k \in KnownKeys, KnownKeys' = KnownKeys,
         OwnedKeys' = OwnedKeys, ExcusedKeys' = ExcusedKeys \cup {k}
  PROVE  LedgerStep
  <1>1. Ledger!Excuse(k)
    BY DEF Ledger!Excuse
  <1> QED
    BY <1>1 DEF LedgerStep, Ledger!Next

\* Keys that are persisted may lose their excuse.
LEMMA ReclaimStep ==
  ASSUME ExcusedKeys \subseteq Keys, KnownKeys' = KnownKeys, OwnedKeys' = OwnedKeys,
         ExcusedKeys' \subseteq ExcusedKeys,
         ExcusedKeys \ ExcusedKeys' \subseteq KnownKeys
  PROVE  LedgerStep
  <1> DEFINE S == ExcusedKeys \ ExcusedKeys'
  <1>1. S \in SUBSET Keys
    OBVIOUS
  <1>2. Ledger!Reclaim(S)
    BY DEF Ledger!Reclaim
  <1> HIDE DEF S
  <1> QED
    BY <1>1, <1>2 DEF LedgerStep, Ledger!Next

\* An inventory that covers what is owned and not excused may be saved.
LEMMA RecordStep ==
  ASSUME KnownKeys' \subseteq Keys, ExcusedKeys' \subseteq Keys,
         OwnedKeys' = OwnedKeys, ExcusedKeys' \subseteq ExcusedKeys,
         OwnedKeys \ ExcusedKeys' \subseteq KnownKeys'
  PROVE  LedgerStep
  <1>1. Ledger!Record(KnownKeys', ExcusedKeys')
    BY DEF Ledger!Record
  <1> QED
    BY <1>1 DEF LedgerStep, Ledger!Next

-----------------------------------------------------------------------------
(* The steps of Dependents *)

\* A write that makes no object ours, and all its failures.
LEMMA HarmlessRequest ==
  ASSUME IndInv, saved' = saved, released' = released, NEW c, NEW Success,
         \A k \in Keys : Ours(c, k) => Ours(cluster, k),
         \/ Request(c, Success) \/ Refused \/ Locally(Success)
  PROVE  LedgerStep
  <1>1. DOMAIN saved \subseteq Keys
    BY InMemory
  <1>2. cluster' \in {c, cluster} /\ resurrected' = resurrected
    BY <1>1 DEF Request, Write, Refused, Locally
  <1> QED
    BY <1>2, LoseStep DEF OwnedKeys, KnownKeys, ExcusedKeys, Ours

\* The delete request of deleteObject makes no object ours.
LEMMA RequestDeletionStep ==
  ASSUME IndInv, step = "act", saved' = saved, released' = released, RequestDeletion
  PROVE  LedgerStep
  <1> DEFINE c == MarkDeleting(cluster, cur)
  <1>1. cur \in Keys /\ cluster \in [Keys -> Objects] /\ DOMAIN saved \subseteq Keys
    BY InMemory, SameCluster
  <1>2. \A k \in Keys : Ours(c, k) <=> Ours(cluster, k)
    BY <1>1, MarkDeletingType
  <1>3. cluster' \in {c, cluster}
    BY DEF RequestDeletion, Request, Write, Refused, Locally
  <1>4. resurrected' = resurrected
    <2> HIDE DEF c
    <2>1. \/ UNCHANGED resurrected
          \/ \E d \in {c, cluster} : Write(d)
      BY DEF RequestDeletion, Request, Refused, Locally, c
    <2>2. ASSUME NEW d \in {c, cluster}, Write(d)
          PROVE  resurrected' = resurrected
      <3>1. resurrected' = resurrected \cup
              {k \in DOMAIN saved : /\ Ours(d, k) /\ ~ Ours(cluster, k)
                                    /\ saved[k].phase = ""}
        BY <2>2 DEF Write
      <3>2. \A k \in DOMAIN saved : ~ (Ours(d, k) /\ ~ Ours(cluster, k))
        BY <1>1, <1>2
      <3> QED
        BY <3>1, <3>2
    <2> QED
      BY <2>1, <2>2
  <1> HIDE DEF c
  <1> QED
    BY <1>2, <1>3, <1>4, LoseStep DEF OwnedKeys, KnownKeys, ExcusedKeys, Ours

\* Looking for the instances of a type and removing its finalizer make no object ours.
LEMMA FinalizeStep ==
  ASSUME IndInv, FinalizeType \/ ReleaseType
  PROVE  LedgerStep
  <1> DEFINE c == DropFinalizer(cluster, cur)
             again == /\ step' = "finalize"
                      /\ UNCHANGED <<mem, pc, waveVars, cur, seen, fresh, result>>
  <1>1. saved' = saved /\ released' = released /\ step # "read"
    BY DEF FinalizeType, ReleaseType, InCall
  <1>2. cur \in Keys /\ cluster \in [Keys -> Objects]
    BY <1>1, InMemory, SameCluster
  <1>3. \A k \in Keys : Ours(c, k) => Ours(cluster, k)
    BY <1>2, DropFinalizerType
  <1>4. CASE FinalizeType
    <2>1. UNCHANGED <<cluster, saved, released, resurrected>>
      BY <1>1, <1>4 DEF FinalizeType
    <2>2. DOMAIN saved \subseteq Keys
      BY InMemory
    <2> QED
      BY <2>1, <2>2, LoseStep DEF OwnedKeys, KnownKeys, ExcusedKeys, Ours
  <1>5. CASE ReleaseType
    <2>1. Request(c, Deleted) \/ Refused \/ Locally(again)
      BY <1>5 DEF ReleaseType
    <2>2. DOMAIN saved \subseteq Keys /\ \A k \in Keys : Ours(cluster, k) => Ours(cluster, k)
      BY InMemory
    <2> HIDE DEF c, again
    <2>3. CASE Request(c, Deleted) \/ Refused
      BY <1>1, <1>3, <2>3, HarmlessRequest
    <2>4. CASE Locally(again)
      BY <1>1, <2>2, <2>4, HarmlessRequest
    <2> QED
      BY <2>1, <2>3, <2>4
  <1> QED
    BY <1>4, <1>5

\* A missing namespace is created without an owner.
LEMMA NamespaceStep ==
  ASSUME IndInv, NEW n \in Keys, CreateMissingNamespace(n)
  PROVE  LedgerStep
  <1> DEFINE c == IF cluster[n].exists THEN cluster
                  ELSE Put(cluster, n, "none", NoDigest, FALSE)
  <1>1. saved' = saved /\ released' = released
    BY DEF CreateMissingNamespace, InCall
  <1>2. NoDigest \in Digests /\ cluster \in [Keys -> Objects]
    BY PairType, SameCluster DEF Digests, NoDigest
  <1>3. \A k \in Keys : Ours(c, k) => Ours(cluster, k)
    BY <1>2 DEF Put, Objects, Owners, Ours
  <1>4. Request(c, Handled(n, mem, FALSE))
    BY DEF CreateMissingNamespace
  <1> HIDE DEF c
  <1> QED
    BY <1>1, <1>3, <1>4, HarmlessRequest

\* Creating or updating an object acquires a key that is persisted.
LEMMA ApplyObjectStep ==
  ASSUME IndInv, CreateObject \/ UpdateObject
  PROVE  LedgerStep
  <1>1. /\ saved' = saved /\ released' = released
        /\ pc = "apply" /\ step = "act"
    BY DEF CreateObject, UpdateObject, HaveRead, InCall
  <1>2. cur \in DOMAIN saved /\ cur \in Keys /\ DOMAIN saved \subseteq Keys
    BY <1>1, InMemory DEF Calling
  <1>3. PICK finalizer :
          LET c == Put(cluster, cur, "me", mem[cur].digest, finalizer)
          IN  Write(c) \/ UNCHANGED <<cluster, resurrected>>
    BY DEF CreateObject, UpdateObject, Request, Refused, Locally
  <1> DEFINE c == Put(cluster, cur, "me", mem[cur].digest, finalizer)
  <1>4. CASE UNCHANGED <<cluster, resurrected>>
    BY <1>1, <1>4, LoseStep DEF OwnedKeys, KnownKeys, ExcusedKeys, Ours
  <1>5. CASE Write(c)
    <2>1. \A k \in Keys : Ours(c, k) <=> Ours(cluster, k) \/ k = cur
      BY <1>2, SameCluster DEF Put, Ours
    <2> HIDE DEF c
    <2>2. cluster' = c /\ (resurrected' = resurrected \/ resurrected' = resurrected \cup {cur})
      BY <1>2, <1>5, <2>1 DEF Write
    <2>3. OwnedKeys' = OwnedKeys \cup {cur}
      BY <1>2, <2>1, <2>2 DEF OwnedKeys, Ours
    <2> QED
      BY <1>1, <1>2, <2>2, <2>3, AcquireStep DEF KnownKeys, ExcusedKeys
  <1> QED
    BY <1>3, <1>4, <1>5

\* Orphaning an object excuses it, if it is the policy that asks for it.
LEMMA OrphanStep ==
  ASSUME IndInv, OrphanObject
  PROVE  LedgerStep
  <1> DEFINE c == DropFinalizer(cluster, cur)
  <1>1. saved' = saved /\ step = "act" /\ (released' = released \/ released' = released \cup {cur})
    BY DEF OrphanObject, InCall
  <1>2. /\ cur \in Keys /\ cluster \in [Keys -> Objects]
        /\ cur \in DOMAIN saved /\ DOMAIN saved \subseteq Keys
    BY <1>1, InMemory, SameCluster
  <1>3. \A k \in Keys : Ours(c, k) <=> Ours(cluster, k)
    BY <1>2, DropFinalizerType
  <1>4. Write(c) \/ UNCHANGED <<cluster, resurrected>>
    BY DEF OrphanObject, Request, Refused, Locally
  <1> HIDE DEF c
  <1>5. resurrected' = resurrected /\ cluster' \in {c, cluster}
    BY <1>2, <1>3, <1>4 DEF Write
  <1>6. OwnedKeys' = OwnedKeys /\ KnownKeys' = KnownKeys
    BY <1>1, <1>3, <1>5 DEF OwnedKeys, KnownKeys, Ours
  <1>7. ExcusedKeys' = ExcusedKeys \/ ExcusedKeys' = ExcusedKeys \cup {cur}
    BY <1>1, <1>5 DEF ExcusedKeys
  <1> QED
    BY <1>2, <1>6, <1>7, LoseStep, ExcuseStep DEF KnownKeys

\* Loading the inventory takes back excuses of persisted keys.
LEMMA LoadStep ==
  ASSUME IndInv, NEW operation, Load(operation)
  PROVE  LedgerStep
  <1>1. ExcusedKeys \subseteq Keys
    BY DEF IndInv, StateTypeOK, ExcusedKeys
  <1>2. /\ cluster' = cluster /\ saved' = saved /\ resurrected' = resurrected
        /\ released' = {k \in released : k \in DOMAIN saved => saved[k].phase = ""}
    BY DEF Load
  <1> QED
    BY <1>1, <1>2, ReclaimStep DEF OwnedKeys, KnownKeys, ExcusedKeys, Ours

\* Saving the inventory records what it accounts for; the invariant after the step
\* says that it is enough.
LEMMA SaveStep ==
  ASSUME IndInv, IndInv', Save \/ Finish
  PROVE  LedgerStep
  <1>1. KnownKeys' \subseteq Keys /\ ExcusedKeys' \subseteq Keys
    BY DEF IndInv, StateTypeOK, IsInventory, KnownKeys, ExcusedKeys
  <1>2. cluster' = cluster /\ released' = released /\ resurrected' \subseteq resurrected
    BY DEF Save, Finish, BackToIdle
  <1>3. OwnedKeys' = OwnedKeys /\ ExcusedKeys' \subseteq ExcusedKeys
    BY <1>2 DEF OwnedKeys, ExcusedKeys, Ours
  <1>4. OwnedKeys' \ ExcusedKeys' \subseteq KnownKeys'
    BY DEF IndInv, TrackedInv, Covers, OwnedKeys, KnownKeys, ExcusedKeys
  <1> QED
    BY <1>1, <1>3, <1>4, RecordStep

\* What happens elsewhere makes no object ours.
LEMMA ElsewhereStep ==
  ASSUME IndInv, NEW c, Elsewhere(c), \A k \in Keys : Ours(c, k) => Ours(cluster, k)
  PROVE  LedgerStep
  BY LoseStep DEF Elsewhere, historyVars, OwnedKeys, KnownKeys, ExcusedKeys, Ours

\* The environment acquires nothing and saves nothing.
LEMMA EnvironmentStep ==
  ASSUME IndInv, Environment
  PROVE  LedgerStep
  <1>1. cluster \in [Keys -> Objects]
    BY SameCluster
  <1>2. ASSUME NEW j \in Keys, FinishDeletion(j) PROVE LedgerStep
    BY <1>1, <1>2, CollectType, ElsewhereStep DEF FinishDeletion
  <1>3. ASSUME NEW j \in Keys, CascadeDeletion(j) \/ ForeignDelete(j) PROVE LedgerStep
    BY <1>1, <1>3, MarkDeletingType, ElsewhereStep DEF CascadeDeletion, ForeignDelete
  <1>4. ASSUME NEW j \in Keys, BecomeReady(j) \/ Flicker(j) PROVE LedgerStep
    <2>1. \A k \in Keys, b \in BOOLEAN :
            Ours([cluster EXCEPT ![j].ready = b], k) => Ours(cluster, k)
      BY <1>1 DEF Ours, Objects
    <2> QED
      BY <1>4, <2>1, ElsewhereStep DEF BecomeReady, Flicker
  <1>5. ASSUME NEW j \in Keys, NEW o \in {"none", "other"}, ForeignCreate(j, o)
        PROVE  LedgerStep
    <2>1. \A k \in Keys : Ours(Put(cluster, j, o, NoDigest, FALSE), k) => Ours(cluster, k)
      BY <1>1 DEF Put, Ours
    <2> QED
      BY <1>5, <2>1, ElsewhereStep DEF ForeignCreate
  <1>6. ASSUME NEW j \in Keys, NEW o \in {"none", "other"}, Takeover(j, o)
        PROVE  LedgerStep
    <2>1. \A k \in Keys :
            Ours([cluster EXCEPT ![j].owner = o, ![j].digest = NoDigest], k)
              => Ours(cluster, k)
      BY <1>1 DEF Ours, Objects
    <2> QED
      BY <1>6, <2>1, ElsewhereStep DEF Takeover
  <1>7. ASSUME NEW j \in Keys, Expire(j) PROVE LedgerStep
    <2>1. DOMAIN saved' = DOMAIN saved
      BY <1>7 DEF Expire, Aged
    <2> QED
      BY <1>7, <2>1, LoseStep
      DEF Expire, historyVars, OwnedKeys, KnownKeys, ExcusedKeys, Ours
  <1>8. CASE DeleteComponent \/ \E r \in Revisions : Edit(r)
    BY <1>8, LoseStep DEF DeleteComponent, Edit, ChangeComponent, historyVars,
       OwnedKeys, KnownKeys, ExcusedKeys, Ours
  <1> QED
    BY <1>2, <1>3, <1>4, <1>5, <1>6, <1>7, <1>8 DEF Environment

\* Steps that touch neither the cluster nor what is persisted.
LEMMA SilentStep ==
  ASSUME \/ UNCHANGED vars \/ Crash \/ SaveLost
         \/ \E j \in Keys : ReadObject(j) \/ SkipObject(j)
         \/ NamespacesDone \/ CheckCompletion \/ CompletionsDone
         \/ BeginApplyWave \/ ObserveObject \/ EndApplyWave \/ ApplyDone
         \/ BeginDeleteWave \/ CheckDeletion \/ PostponeObject
         \/ EndDeleteWave \/ DeleteDone
  PROVE  LedgerStep
  <1>1. cluster' = cluster /\ saved' = saved /\ released' = released
          /\ resurrected' = resurrected
    BY DEF vars, historyVars, Crash, SaveLost, BackToIdle, ReadObject, SkipObject,
       NamespacesDone, CheckCompletion, CompletionsDone, BeginApplyWave,
       ObserveObject, EndApplyWave, ApplyDone, BeginDeleteWave, CheckDeletion,
       PostponeObject, ToBeDeleted, EndDeleteWave, DeleteDone, HaveRead, InCall,
       Locally, Refused
  <1> QED
    BY <1>1, LoseStep DEF OwnedKeys, KnownKeys, ExcusedKeys, Ours

\* Every step of Dependents is a step of the ledger, or none.
LEMMA NextLedger == IndInv /\ IndInv' /\ [Next]_vars => LedgerStep
  <1> SUFFICES ASSUME IndInv, IndInv', [Next]_vars PROVE LedgerStep
    OBVIOUS
  <1>1. CASE CompleteObject \/ RecreateObject \/ DeleteObject
    <2>1. step = "act" /\ saved' = saved /\ released' = released /\ RequestDeletion
      BY <1>1 DEF CompleteObject, RecreateObject, DeleteObject, ToBeDeleted, HaveRead,
         InCall
    <2> QED
      BY <2>1, RequestDeletionStep
  <1>2. CASE PlanRejected \/ PlanExtended \/ PlanAccepted \/ StartDelete
    BY <1>2, LoadStep DEF PlanRejected, PlanExtended, PlanAccepted, StartDelete
  <1>3. CASE \E n \in Keys : CreateMissingNamespace(n)
    BY <1>3, NamespaceStep
  <1> QED
    BY <1>1, <1>2, <1>3, FinalizeStep, ApplyObjectStep, OrphanStep, SaveStep,
       EnvironmentStep, SilentStep DEF Next, Reconcile, Apply, Delete

\* The ledger is empty in the beginning: nothing carries our owner id yet.
LEMMA InitLedger == Init => Ledger!Init
  <1> SUFFICES ASSUME Init PROVE Ledger!Init
    OBVIOUS
  <1>1. ASSUME NEW k \in Keys PROVE cluster[k].owner # "me"
    <2>1. cluster[k] \in Unowned
      BY DEF Init
    <2>2. ASSUME NEW o \in {"none", "other"}
          PROVE  [Absent EXCEPT !.exists = TRUE, !.owner = o].owner = o
      BY DEF Absent
    <2>3. Absent.owner = "none"
      BY DEF Absent
    <2> QED
      BY <2>1, <2>2, <2>3 DEF Unowned
  <1>2. OwnedKeys = {}
    BY <1>1 DEF OwnedKeys, Ours
  <1>3. KnownKeys = {} /\ ExcusedKeys = {}
    BY DEF Init, EmptyInventory, KnownKeys, ExcusedKeys
  <1> QED
    BY <1>2, <1>3 DEF Ledger!Init

\* Apply and Delete, with their caller, implement the write-ahead ledger, for every
\* cluster and manifest and any number of crashes, failures and edits.
THEOREM Refinement == Spec => ImplementsLedger
  BY InitLedger, InductiveInvariant, NextLedger, PTL
  DEF Spec, ImplementsLedger, Ledger!Spec, LedgerStep
=============================================================================
