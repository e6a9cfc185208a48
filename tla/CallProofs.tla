------------------------------ MODULE CallProofs ------------------------------
(***************************************************************************)
(* Proofs about what the calls of Apply and Delete do in which order, and  *)
(* what they have achieved when they return.  CallInv is inductive         *)
(* relative to IndInv.  Most steps of a call handle a key (HandledCall) or *)
(* return (ReturnCall); what happens around the call is in AroundCall.     *)
(***************************************************************************)
EXTENDS DependentsProofs

\* Inventories that differ in nothing but when items were applied, or also in the
\* phase of k.
SimilarBut(inv1, inv2, k) ==
    /\ DOMAIN inv1 = DOMAIN inv2
    /\ \A j \in DOMAIN inv1 :
          /\ inv1[j].digest = inv2[j].digest /\ inv1[j].deleteOrder = inv2[j].deleteOrder
          /\ j # k => inv1[j].phase = inv2[j].phase

Similar(inv1, inv2) ==
    /\ SimilarBut(inv1, inv2, NoKey)
    /\ \A j \in DOMAIN inv1 : inv1[j].phase = inv2[j].phase

\* Marking an item leaves everything but its phase as it was.
LEMMA MarkSimilar ==
  ASSUME NEW inv, IsInventory(inv), NEW k \in DOMAIN inv, NEW phase, NEW applied
  PROVE  /\ SimilarBut(inv, Mark(inv, k, phase, applied), k)
         /\ Mark(inv, k, phase, applied)[k].phase = phase
  <1> DEFINE marked == Mark(inv, k, phase, applied)
  <1>1. /\ DOMAIN marked = DOMAIN inv
        /\ \A j \in DOMAIN inv \ {k} : marked[j] = inv[j]
        /\ marked[k] = [inv[k] EXCEPT !.phase = phase, !.applied = applied]
    BY DEF Mark, IsInventory
  <1>2. inv[k] \in Items
    BY DEF IsInventory
  <1>3. /\ marked[k].phase = phase /\ marked[k].digest = inv[k].digest
        /\ marked[k].deleteOrder = inv[k].deleteOrder
    BY <1>1, <1>2 DEF Items
  <1> HIDE DEF marked
  <1> QED
    BY <1>1, <1>3 DEF SimilarBut, marked

\* An inventory is similar to itself.
LEMMA SelfSimilar ==
  ASSUME NEW inv, NEW k
  PROVE  SimilarBut(inv, inv, k)
  BY DEF SimilarBut

\* Orders are numbers.
LEMMA OrderTypes ==
  ASSUME IndInv
  PROVE  /\ \A k \in Rendered(rev) : ApplyOrder(rev, k) \in Orders
         /\ \A k \in DOMAIN mem : mem[k].deleteOrder \in Orders
         /\ Orders \subseteq Int /\ NoWave \notin Orders
         /\ wave # NoWave => wave \in Orders
  <1>1. rev \in Revisions /\ IsInventory(mem) /\ wave \in Orders \cup {NoWave}
    BY DEF IndInv, StateTypeOK
  <1>2. \A k \in Rendered(rev) : ApplyOrder(rev, k) \in Orders
    BY <1>1, ManifestAssumption DEF ApplyOrder, Specs
  <1>3. \A k \in DOMAIN mem : mem[k].deleteOrder \in Orders
    BY <1>1 DEF IsInventory, Items
  <1>4. Orders \subseteq Int /\ NoWave \notin Orders
    BY DEF Orders, NoWave, minOrder, maxOrder
  <1> QED
    BY <1>1, <1>2, <1>3, <1>4

-----------------------------------------------------------------------------
(* Parts of the invariant *)

\* What is completed stays without an object of ours.
LEMMA RevivedKept ==
  ASSUME RevivedInv, saved' = saved, revived \subseteq revived', revived' \subseteq Keys,
         \A k \in Keys : Ours(cluster', k) /\ ~ Ours(cluster, k) =>
             (NotCompleted(saved, k) \/ k \in revived') /\ NotCompleted(mem', k),
         \A k \in Keys : Ours(cluster', k) /\ NotCompleted(mem, k) => NotCompleted(mem', k)
  PROVE  RevivedInv'
  <1> SUFFICES ASSUME NEW k \in Keys \ revived', Ours(cluster', k)
               PROVE  NotCompleted(saved, k) /\ NotCompleted(mem', k)
    BY DEF RevivedInv, NotCompleted
  <1>1. CASE Ours(cluster, k)
    <2>1. NotCompleted(saved, k) /\ NotCompleted(mem, k)
      BY <1>1 DEF RevivedInv
    <2> QED
      BY <2>1
  <1>2. CASE ~ Ours(cluster, k)
    BY <1>2
  <1> QED
    BY <1>1, <1>2

\* A digest tells about the phase, in the same way for inventories that are similar.
LEMMA PhasesSimilar ==
  ASSUME NEW inv1, NEW inv2, NEW k, SimilarBut(inv1, inv2, k), PhasesTell(inv1),
         k \in DOMAIN inv1 =>
             (inv2[k].phase \in ObsoletePhases <=> inv1[k].phase \in ObsoletePhases)
  PROVE  PhasesTell(inv2)
  BY DEF PhasesTell, SimilarBut

\* A rendered item of Apply has none of the obsolete phases, any other item has one.
LEMMA PhaseOfItem ==
  ASSUME IndInv, CallInv, Applying, NEW k \in DOMAIN mem
  PROVE  /\ mem[k].digest = NoDigest <=> k \notin Rendered(rev)
         /\ mem[k].phase \in ObsoletePhases <=> k \notin Rendered(rev)
  <1>1. PhasesTell(mem) /\ Matches(mem, rev) /\ rev \in Revisions
    BY DEF IndInv, StateTypeOK, CallInv, PhaseInv, Applying
  <1>2. mem[k].digest = NoDigest <=> k \notin Rendered(rev)
    BY <1>1, RenderedDigest DEF Matches
  <1> QED
    BY <1>1, <1>2 DEF PhasesTell

\* Handling a key keeps what Apply knows of the phases.
LEMMA HandledPhases ==
  ASSUME IndInv, PhaseInv, CallFrame, Calling, NEW k, NEW inv, NEW w, Handled(k, inv, w),
         SimilarBut(mem, inv, k),
         op = "apply" /\ k \in DOMAIN mem =>
             (inv[k].phase \in ObsoletePhases <=> mem[k].phase \in ObsoletePhases),
         pc \in {"namespaces", "complete"} /\ k \in DOMAIN mem =>
             inv = mem \/ inv[k].phase # "Ready"
  PROVE  PhaseInv'
  <1>1. /\ op' = op /\ rev' = rev /\ saved' = saved /\ component' = component
        /\ pc' = pc /\ mem' = inv /\ todo' = todo \ {k} /\ result' = result
    BY DEF CallFrame, callVars, componentVars, Handled
  <1>2. DOMAIN mem' = DOMAIN mem /\ \A j \in DOMAIN mem : ReadyBefore(j)' <=> ReadyBefore(j)
    BY <1>1 DEF ReadyBefore, SimilarBut
  <1>3. IF op' = "apply" THEN PhasesTell(saved') /\ PhasesTell(mem') ELSE component' # "live"
    <2>1. op = "apply" => PhasesTell(mem')
      BY <1>1, PhasesSimilar DEF PhaseInv
    <2> QED
      BY <1>1, <2>1 DEF PhaseInv
  <1>4. Applying' \/ ReturnsDone' => Matches(mem', rev')
    BY <1>1 DEF PhaseInv, Matches, SimilarBut, Applying, ReturnsDone, Calling
  <1>5. pc' = "complete" => \A j \in todo' : mem'[j].phase \notin ObsoletePhases
    BY <1>1 DEF PhaseInv, SimilarBut, IndInv, CursorInv, InStage
  <1>6. \A j \in DOMAIN mem' :
          /\ pc' \in {"namespaces", "complete"} \/ (pc' = "apply" /\ j \in todo')
          /\ mem'[j].phase = "Ready"
          => ReadyBefore(j)'
    BY <1>1, <1>2 DEF PhaseInv, SimilarBut
  <1> QED
    BY <1>1, <1>3, <1>4, <1>5, <1>6 DEF PhaseInv

\* What has been settled stays so as long as its object does not change.
LEMMA SettledKept ==
  ASSUME rev' = rev, spoiled \subseteq spoiled', NEW j, Settled(j),
         mem'[j].phase = mem[j].phase, cluster'[j] = cluster[j]
  PROVE  Settled(j)'
  BY DEF Settled, InSync, AsRendered

\* Handling a key of the current wave keeps what is known about the order of Apply.
LEMMA HandledApply ==
  ASSUME IndInv, CallInv, CallFrame, NEW k \in todo, NEW inv, NEW w \in BOOLEAN,
         Handled(k, inv, w), SimilarBut(mem, inv, k),
         pc = "apply" =>
             /\ wave # NoWave /\ ApplyOrder(rev, k) = wave
             /\ w \/ Settled(k)'
             /\ mem[k].phase = "Completed" => inv[k].phase = "Completed",
         \A j \in Keys \ {k} : cluster'[j] = cluster[j]
  PROVE  ApplyInv'
  <1> SUFFICES ASSUME pc = "apply" PROVE ApplyInv'
    BY DEF ApplyInv, Handled
  <1> USE DEF CallInv, ApplyInv
  <1>1. /\ rev' = rev /\ saved' = saved /\ spoiled' = spoiled /\ pc' = pc /\ mem' = inv
        /\ todo' = todo \ {k} /\ waiting' = (waiting \/ w) /\ step' = "read"
        /\ wave' = wave /\ blockers' = blockers
    BY DEF CallFrame, callVars, Handled
  <1>2. /\ DOMAIN mem' = DOMAIN mem /\ Rendered(rev) \subseteq DOMAIN mem
        /\ Rendered(rev) \subseteq Keys /\ todo \subseteq Rendered(rev)
    BY <1>1, ManifestAssumption DEF SimilarBut, IndInv, StateTypeOK, CursorInv
  <1>3. ApplyOrderInv'
    <2>1. \A j \in Rendered(rev) \ todo' : ApplyOrder(rev, j) =< wave
      BY <1>1, OrderTypes DEF ApplyOrderInv
    <2>2. \A j \in todo' : wave =< ApplyOrder(rev, j)
      BY <1>1 DEF ApplyOrderInv
    <2> QED
      BY <1>1, <2>1, <2>2 DEF ApplyOrderInv
  <1>4. BlockersInv'
    <2> SUFFICES ASSUME NEW j \in Rendered(rev), ApplyOrder(rev, j) = wave,
                        \/ IsRegular(mem, j) /\ "regular" \notin blockers
                        \/ IsLate(j) /\ "late" \notin blockers
                 PROVE  mem'[j].phase = "Completed" \/ ReadyBefore(j)'
      BY <1>1, <1>2 DEF BlockersInv, IsRegular, Managed
    <2>1. mem[j].phase = "Completed" \/ ReadyBefore(j)
      BY DEF BlockersInv
    <2> QED
      BY <1>1, <1>2, <2>1 DEF ReadyBefore, SimilarBut
  <1>5. ASSUME NEW j \in Rendered(rev) \ todo'
        PROVE  \/ Settled(j)'
               \/ waiting' /\ wave' # NoWave /\ ApplyOrder(rev, j) = wave'
    <2>1. CASE j = k
      BY <1>1, <2>1
    <2>2. CASE j # k
      <3>1. \/ Settled(j)
            \/ waiting /\ wave # NoWave /\ ApplyOrder(rev, j) = wave
        BY <1>1, <2>2
      <3>2. Settled(j) => Settled(j)'
        <4>1. mem'[j].phase = mem[j].phase /\ cluster'[j] = cluster[j]
          BY <1>1, <1>2, <2>2 DEF SimilarBut
        <4> QED
          BY <1>1, <4>1, SettledKept
      <3> QED
        BY <1>1, <3>1, <3>2
    <2> QED
      BY <2>1, <2>2
  <1> QED
    BY <1>1, <1>3, <1>4, <1>5

\* Handling a key of the current wave keeps what is known about the order of Delete.
LEMMA HandledDelete ==
  ASSUME IndInv, CallInv, CallFrame, NEW k \in todo, NEW inv, NEW w \in BOOLEAN,
         Handled(k, inv, w), SimilarBut(mem, inv, k),
         released \subseteq released', resurrected \subseteq resurrected',
         pc = "delete" =>
             /\ wave # NoWave /\ mem[k].deleteOrder = wave
             /\ Ours(cluster', k) => Ours(cluster, k)
             /\ w \/ ~ Ours(cluster', k) \/ k \in released' \cup resurrected',
         \A j \in Keys \ {k} : cluster'[j] = cluster[j]
  PROVE  DeleteInv'
  <1> SUFFICES ASSUME pc = "delete" PROVE DeleteInv'
    BY DEF DeleteInv, Handled
  <1> USE DEF CallInv, DeleteInv
  <1>1. /\ op' = op /\ rev' = rev /\ spoiled' = spoiled /\ pc' = pc /\ mem' = inv
        /\ todo' = todo \ {k} /\ waiting' = (waiting \/ w) /\ step' = "read"
        /\ wave' = wave /\ blockers' = blockers
    BY DEF CallFrame, callVars, Handled
  <1>2. /\ DOMAIN mem' = DOMAIN mem /\ todo \subseteq DOMAIN mem
        /\ DOMAIN mem \subseteq Keys
        /\ \A j \in DOMAIN mem : /\ mem'[j].deleteOrder = mem[j].deleteOrder
                                 /\ mem'[j].digest = mem[j].digest
    BY <1>1, InMemory DEF SimilarBut, IndInv, CursorInv, InStage
  <1>3. ASSUME op = "apply"
        PROVE  /\ \A j \in todo' : mem'[j].digest = NoDigest
               /\ Purged(rev)' /\ \A j \in Rendered(rev) : Settled(j)'
    <2>1. Applying /\ Rendered(rev) \subseteq DOMAIN mem
      BY <1>3 DEF Applying, PhaseInv, Matches
    <2>2. k \notin Rendered(rev)
      BY <1>2, <1>3, <2>1, PhaseOfItem
    <2>3. \A j \in Rendered(rev) :
             mem'[j].phase = mem[j].phase /\ cluster'[j] = cluster[j]
      BY <1>1, <1>2, <2>1, <2>2 DEF SimilarBut
    <2>4. \A j \in Rendered(rev) : Settled(j)'
      BY <1>1, <1>3, <2>3, SettledKept
    <2>5. Purged(rev)'
      BY <1>1, <1>3, <2>3 DEF Purged
    <2> QED
      BY <1>1, <1>2, <1>3, <2>4, <2>5
  <1>4. wave' # NoWave => \A j \in todo' : wave' =< mem'[j].deleteOrder
    BY <1>1, <1>2
  <1>5. ASSUME NEW j \in DOMAIN mem' \ (released' \cup resurrected'), Remains(j)'
        PROVE  /\ \/ j \in todo'
                  \/ waiting' /\ wave' # NoWave /\ mem'[j].deleteOrder = wave'
               /\ wave' # NoWave /\ blockers' = {} /\ mem'[j].deleteOrder = wave' =>
                     ~ Managed(mem', j)
    <2>1. Ours(cluster', j) /\ (op = "apply" => mem[j].digest = NoDigest)
      BY <1>1, <1>2, <1>5 DEF Remains
    <2>2. Ours(cluster, j)
      <3>1. CASE j = k
        BY <2>1, <3>1
      <3>2. CASE j # k
        BY <1>2, <2>1, <3>2 DEF Ours
      <3> QED
        BY <3>1, <3>2
    <2>3. /\ j \in todo \/ (waiting /\ wave # NoWave /\ mem[j].deleteOrder = wave)
          /\ wave # NoWave /\ blockers = {} /\ mem[j].deleteOrder = wave =>
                ~ Managed(mem, j)
      BY <1>2, <2>1, <2>2 DEF Remains
    <2>4. j = k => w
      BY <1>5, <2>1
    <2>5. Managed(mem', j) = Managed(mem, j)
      BY <1>2 DEF Managed
    <2> QED
      BY <1>1, <1>2, <2>3, <2>4, <2>5
  <1> HIDE DEF CallInv, DeleteInv
  <1> QED
    BY <1>1, <1>3, <1>4, <1>5 DEF DeleteInv

\* Handling a key keeps the invariant.
LEMMA HandledCall ==
  ASSUME IndInv, CallInv, CallFrame, Calling, NEW k \in todo, NEW inv, NEW w \in BOOLEAN,
         Handled(k, inv, w), SimilarBut(mem, inv, k),
         released \subseteq released', resurrected \subseteq resurrected',
         op = "apply" /\ k \in DOMAIN mem =>
             (inv[k].phase \in ObsoletePhases <=> mem[k].phase \in ObsoletePhases),
         pc \in {"namespaces", "complete"} /\ k \in DOMAIN mem =>
             inv = mem \/ inv[k].phase # "Ready",
         pc = "apply" =>
             /\ wave # NoWave /\ ApplyOrder(rev, k) = wave
             /\ w \/ Settled(k)'
             /\ mem[k].phase = "Completed" => inv[k].phase = "Completed",
         pc = "delete" =>
             /\ wave # NoWave /\ mem[k].deleteOrder = wave
             /\ Ours(cluster', k) => Ours(cluster, k)
             /\ w \/ ~ Ours(cluster', k) \/ k \in released' \cup resurrected',
         \A j \in Keys \ {k} : cluster'[j] = cluster[j],
         DigestInv', RevivedInv'
  PROVE  CallInv'
  <1>1. PhaseInv'
    BY HandledPhases DEF CallInv
  <1>2. ApplyInv' /\ DeleteInv'
    BY HandledApply, HandledDelete
  <1>3. spoiled' = spoiled /\ pc' = pc
    BY DEF CallFrame, callVars, Handled
  <1>4. DoneMeansSynced'
    BY <1>3 DEF DoneMeansSynced, ReturnsDone, Calling
  <1> QED
    BY <1>1, <1>2, <1>3, <1>4 DEF CallInv, Calling

\* The end of a call that has not succeeded keeps the invariant.
LEMMA ReturnCall ==
  ASSUME CallInv, CallFrame, NEW r \in {"again", "error"}, Return(r),
         op = "apply" => PhasesTell(mem'), DigestInv', RevivedInv'
  PROVE  CallInv'
  <1>1. /\ pc' = "save" /\ result' # "done" /\ wave' = NoWave
        /\ op' = op /\ saved' = saved /\ component' = component /\ spoiled' = spoiled
    BY DEF Return, CallFrame, callVars, componentVars
  <1>2. PhaseInv'
    BY <1>1 DEF CallInv, PhaseInv, Applying, ReturnsDone
  <1> QED
    BY <1>1, <1>2 DEF CallInv, ApplyInv, DeleteInv, DoneMeansSynced, ReturnsDone

\* Inventories that are similar tell the same.
LEMMA SimilarTells ==
  ASSUME IndInv, Similar(saved, saved'), Similar(mem, mem'),
         UNCHANGED <<op, rev, pc, todo, wave, blockers, result>>
  PROVE  /\ DOMAIN mem' = DOMAIN mem
         /\ PhasesTell(saved) => PhasesTell(saved')
         /\ PhasesTell(mem) => PhasesTell(mem')
         /\ \A r : Matches(mem, r) => Matches(mem', r)
         /\ \A k : ReadyBefore(k) => ReadyBefore(k)'
         /\ \A k : /\ NotCompleted(saved, k) => NotCompleted(saved', k)
                   /\ NotCompleted(mem, k) => NotCompleted(mem', k)
         /\ \A k : IsRegular(mem', k) = IsRegular(mem, k) /\ Managed(mem', k) = Managed(mem, k)
         /\ \A k \in DOMAIN mem : Skipped(k)' => Skipped(k)
  <1>1. /\ DOMAIN mem' = DOMAIN mem /\ DOMAIN saved' = DOMAIN saved
        /\ \A k \in DOMAIN mem : /\ mem'[k].phase = mem[k].phase
                                 /\ mem'[k].digest = mem[k].digest
        /\ \A k \in DOMAIN saved : /\ saved'[k].phase = saved[k].phase
                                   /\ saved'[k].digest = saved[k].digest
    BY DEF Similar, SimilarBut
  <1>2. \A k : IsRegular(mem', k) = IsRegular(mem, k) /\ Managed(mem', k) = Managed(mem, k)
    BY <1>1 DEF IsRegular, Managed
  <1>3. \A k \in DOMAIN mem : Skipped(k)' => Skipped(k)
    BY <1>1, <1>2 DEF Skipped, HeldBack
  <1>4. \A k : ReadyBefore(k) => ReadyBefore(k)'
    BY <1>1 DEF ReadyBefore
  <1>5. \A r : Matches(mem, r) => Matches(mem', r)
    BY <1>1 DEF Matches
  <1>6. /\ PhasesTell(saved) => PhasesTell(saved')
        /\ PhasesTell(mem) => PhasesTell(mem')
    BY <1>1 DEF PhasesTell
  <1>7. \A k : /\ NotCompleted(saved, k) => NotCompleted(saved', k)
               /\ NotCompleted(mem, k) => NotCompleted(mem', k)
    BY <1>1 DEF NotCompleted
  <1> QED
    BY <1>1, <1>2, <1>3, <1>4, <1>5, <1>6, <1>7

\* What happens around a call, and what goes on within it without a change of the
\* inventory, keeps the invariant: the object that it changes out of sync is either
\* the one being handled, or it is noted.
LEMMA AroundCall ==
  ASSUME IndInv, CallInv, IndInv', Similar(saved, saved'), Similar(mem, mem'),
         UNCHANGED <<op, rev, pc, todo, wave, blockers, waiting, result>>,
         component # "live" => component' # "live",
         spoiled \subseteq spoiled', spoiled' \subseteq Keys,
         revived \subseteq revived', revived' \subseteq Keys,
         released \subseteq released', resurrected \subseteq resurrected',
         \A k \in Keys : Ours(cluster', k) => Ours(cluster, k),
         \A k \in Rendered(rev) :
             op = "apply" /\ pc # "idle" /\ InSync(rev, k) =>
                 InSync(rev, k)' \/ k \in spoiled' \/ (Calling /\ k \in todo),
         step' # "read" =>
             /\ pc = "apply" => ApplyOrder(rev, cur') = wave /\ ~ Skipped(cur')
             /\ pc = "delete" => mem[cur'].deleteOrder = wave,
         step' = "act" /\ pc = "apply" /\ AsRendered(seen', rev, cur') =>
             InSync(rev, cur)' \/ cur' \in spoiled',
         DigestInv'
  PROVE  CallInv'
  <1>1. /\ DOMAIN mem' = DOMAIN mem
        /\ \A k \in DOMAIN mem : /\ mem'[k].phase = mem[k].phase
                                 /\ mem'[k].digest = mem[k].digest
                                 /\ mem'[k].deleteOrder = mem[k].deleteOrder
    BY DEF Similar, SimilarBut
  <1>2. /\ DOMAIN mem \subseteq Keys
        /\ pc \in {"complete", "apply", "delete"} => todo \subseteq DOMAIN mem
        /\ pc = "apply" => Rendered(rev) \subseteq DOMAIN mem
        /\ pc \in {"complete", "apply", "delete"} /\ step' # "read" => cur' \in todo
        /\ rev \in Revisions /\ Rendered(rev) \subseteq Keys
    BY InMemory, ManifestAssumption DEF IndInv, CursorInv, InStage, StateTypeOK
  <1>3. PhaseInv'
    <2>1. ReturnsDone' <=> ReturnsDone
      BY DEF ReturnsDone
    <2>2. Applying' <=> Applying
      BY DEF Applying
    <2> QED
      BY <1>1, <1>2, <2>1, <2>2, SimilarTells DEF CallInv, PhaseInv
  <1>4. RevivedInv'
    BY SimilarTells DEF CallInv, RevivedInv
  <1>5. ASSUME NEW k \in Rendered(rev) \cap DOMAIN mem, Settled(k), op = "apply", pc # "idle",
               Calling => k \notin todo
        PROVE  Settled(k)'
    BY <1>1, <1>5 DEF Settled
  <1>6. ApplyInv'
    <2> SUFFICES ASSUME pc = "apply" PROVE ApplyInv'
      BY DEF ApplyInv
    <2>1. op = "apply"
      BY DEF CallInv, PhaseInv
    <2>2. ApplyOrderInv'
      <3>1. step' # "read" => ~ Skipped(cur)'
        BY <1>1, <1>2, SimilarTells DEF Skipped, HeldBack
      <3> QED
        BY <3>1 DEF CallInv, ApplyInv, ApplyOrderInv
    <2>3. BlockersInv'
      BY <1>1, <1>2, SimilarTells DEF CallInv, ApplyInv, BlockersInv
    <2>4. \A j \in Rendered(rev) \ todo :
             \/ Settled(j)'
             \/ waiting /\ wave # NoWave /\ ApplyOrder(rev, j) = wave
      BY <1>2, <1>5, <2>1 DEF CallInv, ApplyInv
    <2>5. wave = NoWave /\ todo = {} => Purged(rev)'
      BY <1>1, <1>2 DEF CallInv, ApplyInv, Purged
    <2> QED
      BY <2>2, <2>3, <2>4, <2>5 DEF ApplyInv
  <1>7. DeleteInv'
    <2> SUFFICES ASSUME pc = "delete" PROVE DeleteInv'
      BY DEF DeleteInv
    <2>1. ASSUME op = "apply"
          PROVE  Purged(rev)' /\ \A k \in Rendered(rev) : Settled(k)'
      <3>1. Applying /\ Rendered(rev) \subseteq DOMAIN mem
        BY <2>1 DEF Applying, CallInv, PhaseInv, Matches
      <3>2. Purged(rev)'
        BY <1>1, <2>1, <3>1 DEF CallInv, DeleteInv, Purged
      <3>3. \A k \in todo : k \notin Rendered(rev)
        BY <1>2, <2>1, <3>1, PhaseOfItem DEF CallInv, DeleteInv
      <3>4. \A k \in Rendered(rev) : Settled(k)'
        BY <1>5, <2>1, <3>1, <3>3 DEF CallInv, DeleteInv
      <3> QED
        BY <3>2, <3>4
    <2>2. \A j \in DOMAIN mem : Remains(j)' => Remains(j)
      BY <1>1, <1>2 DEF Remains
    <2>3. step' # "read" => mem'[cur'].deleteOrder = wave
      BY <1>1, <1>2
    <2>4. /\ op = "apply" => \A k \in todo : mem'[k].digest = NoDigest
          /\ wave # NoWave => \A k \in todo : wave =< mem'[k].deleteOrder
      BY <1>1, <1>2 DEF CallInv, DeleteInv
    <2>5. \A j \in DOMAIN mem' \ (released' \cup resurrected') :
            Remains(j)' =>
                /\ j \in todo \/ (waiting /\ wave # NoWave /\ mem'[j].deleteOrder = wave)
                /\ wave # NoWave /\ blockers = {} /\ mem'[j].deleteOrder = wave =>
                      ~ Managed(mem', j)
      BY <1>1, <2>2, SimilarTells DEF CallInv, DeleteInv
    <2> QED
      BY <2>1, <2>3, <2>4, <2>5 DEF DeleteInv
  <1>8. DoneMeansSynced'
    <2> SUFFICES ASSUME ReturnsDone PROVE DoneMeansSynced'
      BY DEF DoneMeansSynced, ReturnsDone
    <2>1. Rendered(rev) \subseteq DOMAIN mem /\ op = "apply" /\ pc = "save"
      BY DEF CallInv, PhaseInv, Matches, ReturnsDone
    <2>2. \A k \in Rendered(rev) : Settled(k) => Settled(k)'
      BY <1>5, <2>1 DEF Calling
    <2> QED
      BY <1>1, <2>1, <2>2 DEF CallInv, DoneMeansSynced
  <1>9. spoiled' \subseteq Keys /\ (pc' \in {"idle", "save"} => wave' = NoWave)
    BY DEF CallInv, NoWave
  <1> QED
    BY <1>3, <1>4, <1>6, <1>7, <1>8, <1>9 DEF CallInv

-----------------------------------------------------------------------------
(* The requests of a call *)

\* Only objects of ours have a digest.
Digested(c) ==
    \A k \in Keys : c[k].exists /\ c[k].digest # NoDigest => c[k].owner = "me"

\* What has been read has a digest only if it is ours, and absent objects have none.
LEMMA DigestsKept ==
  ASSUME DigestInv, Digested(cluster'),
         \/ seen' = seen
         \/ seen' = Absent
         \/ \E k \in Keys : seen' = cluster[k]
  PROVE  DigestInv'
  <1>1. ~ Absent.exists
    BY DEF Absent
  <1>2. seen'.exists /\ seen'.digest # NoDigest => seen'.owner = "me"
    BY <1>1 DEF DigestInv
  <1> QED
    BY <1>2 DEF DigestInv, Digested

\* Deletions and the removal of finalizers change no owner and no digest.
LEMMA HarmlessRequests ==
  ASSUME IndInv, DigestInv, NEW k \in Keys,
         NEW c \in {cluster, MarkDeleting(cluster, k), DropFinalizer(cluster, k)}
  PROVE  /\ c \in [Keys -> Objects] /\ Digested(c)
         /\ \A j \in Keys \ {k} : c[j] = cluster[j]
         /\ \A j \in Keys : Ours(c, j) <=> Ours(cluster, j)
  <1>1. cluster \in [Keys -> Objects]
    BY DEF IndInv, StateTypeOK
  <1>2. /\ c \in [Keys -> Objects]
        /\ \A j \in Keys : Ours(c, j) <=> Ours(cluster, j)
    BY <1>1, MarkDeletingType, DropFinalizerType
  <1>3. \A j \in Keys \ {k} : c[j] = cluster[j]
    BY <1>1 DEF MarkDeleting, DropFinalizer
  <1>4. /\ c[k].exists = cluster[k].exists /\ c[k].digest = cluster[k].digest
        /\ c[k].owner = cluster[k].owner
    BY <1>1 DEF MarkDeleting, DropFinalizer, Objects
  <1>5. Digested(c)
    <2>1. Digested(cluster)
      BY DEF DigestInv, Digested
    <2> QED
      BY <1>3, <1>4, <2>1 DEF Digested
  <1> QED
    BY <1>2, <1>3, <1>5

\* Apply handles rendered objects before it deletes what is not.
LEMMA StageClass ==
  ASSUME IndInv, CallInv, step # "read", op = "apply"
  PROVE  mem[cur].phase \in ObsoletePhases <=> pc = "delete"
  <1>1. InStage /\ cur \in todo /\ cur \in DOMAIN mem
    BY DEF IndInv, CursorInv
  <1>2. CASE pc = "complete"
    BY <1>1, <1>2 DEF CallInv, PhaseInv
  <1>3. CASE pc \in {"apply", "delete"}
    <2>1. Applying
      BY <1>3 DEF Applying
    <2>2. pc = "delete" => mem[cur].digest = NoDigest
      BY <1>1 DEF CallInv, DeleteInv
    <2>3. pc = "apply" => cur \in Rendered(rev)
      BY <1>1 DEF IndInv, CursorInv
    <2> QED
      BY <1>1, <1>3, <2>1, <2>2, <2>3, PhaseOfItem
  <1> QED
    BY <1>1, <1>2, <1>3 DEF InStage

\* What a write notes about the objects that become ours by it.
LEMMA WriteNotes ==
  ASSUME IndInv, CallInv, NEW c, Write(c)
  PROVE  /\ cluster' = c /\ resurrected \subseteq resurrected'
         /\ revived \subseteq revived' /\ revived' \subseteq Keys
         /\ \A k \in Keys : Ours(c, k) /\ ~ Ours(cluster, k) =>
                NotCompleted(saved, k) \/ k \in revived'
  <1> DEFINE New == {k \in DOMAIN saved : /\ Ours(c, k) /\ ~ Ours(cluster, k)
                                          /\ saved[k].phase = "Completed"}
  <1>1. New \subseteq Keys /\ revived \subseteq Keys
    BY InMemory DEF CallInv, RevivedInv
  <1>2. cluster' = c /\ revived' = revived \cup New /\ resurrected \subseteq resurrected'
    BY DEF Write
  <1>3. \A k \in Keys : Ours(c, k) /\ ~ Ours(cluster, k) => NotCompleted(saved, k) \/ k \in New
    BY DEF NotCompleted
  <1> HIDE DEF New
  <1> QED
    BY <1>1, <1>2, <1>3

\* A step without a request, that notes nothing.
Unnoted(Step) == Step /\ UNCHANGED <<cluster, resurrected, revived>>

\* A step that handles the key that has been read keeps the invariant, whether its
\* request succeeds or not.
LEMMA StepCall ==
  ASSUME IndInv, CallInv, CallFrame, step # "read", released \subseteq released',
         NEW c, Digested(c), \A j \in Keys \ {cur} : c[j] = cluster[j],
         Ours(c, cur) /\ ~ Ours(cluster, cur) => pc = "apply",
         NEW inv, NEW w \in BOOLEAN, SimilarBut(mem, inv, cur),
         op = "apply" => (inv[cur].phase \in ObsoletePhases <=> pc = "delete"),
         inv[cur].phase = "Completed" => inv = mem \/ ~ Ours(c, cur),
         pc = "complete" => inv = mem \/ inv[cur].phase # "Ready",
         pc = "apply" => w \/ (c = cluster /\ (InSync(rev, cur) \/ cur \in spoiled)),
         pc = "delete" => w \/ ~ Ours(c, cur) \/ cur \in released',
         \/ Request(c, Handled(cur, inv, w))
         \/ c = cluster /\ Locally(Handled(cur, inv, w))
         \/ c = cluster /\ Unnoted(Handled(cur, inv, w))
         \/ Refused
         \/ Unnoted(Fail)
  PROVE  CallInv'
  <1>1. /\ Calling /\ InStage /\ cur \in todo /\ cur \in DOMAIN mem /\ cur \in Keys
        /\ pc # "complete" => wave # NoWave
        /\ pc = "apply" => mem[cur].phase # "Completed" /\ ApplyOrder(rev, cur) = wave
        /\ pc = "delete" => mem[cur].deleteOrder = wave
    BY InMemory DEF IndInv, CursorInv, Calling, InStage, CallInv, ApplyInv, ApplyOrderInv,
       Skipped, DeleteInv
  <1>2. DigestInv /\ Digested(cluster)
    BY DEF CallInv, DigestInv, Digested
  <1>3. /\ saved' = saved /\ op' = op /\ rev' = rev /\ spoiled' = spoiled
    BY DEF CallFrame, callVars
  <1>4. /\ revived \subseteq revived' /\ revived' \subseteq Keys
        /\ resurrected \subseteq resurrected'
        /\ cluster' = c \/ cluster' = cluster
        /\ \A k \in Keys : Ours(cluster', k) /\ ~ Ours(cluster, k) =>
               NotCompleted(saved, k) \/ k \in revived'
    <2>1. CASE Write(c)
      BY <2>1, WriteNotes
    <2>2. CASE UNCHANGED <<cluster, resurrected, revived>>
      BY <2>2 DEF CallInv, RevivedInv
    <2> QED
      BY <2>1, <2>2 DEF Request, Locally, Refused, Unnoted
  <1>5. ASSUME Handled(cur, inv, w), cluster' = c
        PROVE  CallInv'
    <2>1. seen' = Absent /\ mem' = inv /\ pc' = pc
      BY <1>5 DEF Handled
    <2>2. DigestInv'
      BY <1>2, <1>5, <2>1, DigestsKept
    <2>3. RevivedInv'
      <3>1. ASSUME NEW k \in Keys, Ours(c, k), ~ Ours(cluster, k)
            PROVE  NotCompleted(inv, k)
        <4>1. k = cur /\ pc = "apply"
          BY <3>1 DEF Ours
        <4>2. inv[cur].phase # "Completed"
          BY <1>1, <3>1, <4>1
        <4> QED
          BY <4>1, <4>2 DEF NotCompleted
      <3>2. ASSUME NEW k \in Keys, Ours(c, k), NotCompleted(mem, k)
            PROVE  NotCompleted(inv, k)
        BY <3>2, <1>1 DEF NotCompleted, SimilarBut
      <3> QED
        BY <1>3, <1>4, <1>5, <2>1, <3>1, <3>2, RevivedKept DEF CallInv
    <2>4. op = "apply" => (mem[cur].phase \in ObsoletePhases <=> pc = "delete")
      BY StageClass
    <2>5. PICK k : k = cur
      OBVIOUS
    <2>6. pc = "apply" => w \/ Settled(k)'
      BY <1>3, <1>5, <2>5 DEF Settled, InSync
    <2>7. pc = "delete" => /\ Ours(cluster', k) => Ours(cluster, k)
                           /\ w \/ ~ Ours(cluster', k) \/ k \in released' \cup resurrected'
      BY <1>5, <2>5
    <2>8. \A j \in Keys \ {k} : cluster'[j] = cluster[j]
      BY <1>5, <2>5
    <2>9. /\ Handled(k, inv, w) /\ SimilarBut(mem, inv, k) /\ k \in todo
          /\ op = "apply" => (inv[k].phase \in ObsoletePhases <=> mem[k].phase \in ObsoletePhases)
          /\ pc \in {"namespaces", "complete"} => inv = mem \/ inv[k].phase # "Ready"
          /\ pc = "apply" => wave # NoWave /\ ApplyOrder(rev, k) = wave /\ mem[k].phase # "Completed"
          /\ pc = "delete" => wave # NoWave /\ mem[k].deleteOrder = wave
      BY <1>1, <1>5, <2>4, <2>5 DEF InStage
    <2> QED
      BY <1>1, <1>4, <2>2, <2>3, <2>6, <2>7, <2>8, <2>9, HandledCall
  <1>6. ASSUME Fail
        PROVE  CallInv'
    <2>1. seen' = Absent /\ mem' = mem /\ Return("error")
      BY <1>6 DEF Fail, Return
    <2>2. DigestInv'
      BY <1>2, <1>4, <2>1, DigestsKept
    <2>3. RevivedInv'
      <3>1. ASSUME NEW k \in Keys, Ours(cluster', k), ~ Ours(cluster, k)
            PROVE  NotCompleted(mem, k)
        <4>1. k = cur /\ pc = "apply"
          BY <1>4, <3>1 DEF Ours
        <4> QED
          BY <1>1, <4>1 DEF NotCompleted
      <3> QED
        BY <1>3, <1>4, <2>1, <3>1, RevivedKept DEF CallInv
    <2>4. op = "apply" => PhasesTell(mem')
      BY <2>1 DEF CallInv, PhaseInv
    <2> QED
      BY <2>1, <2>2, <2>3, <2>4, ReturnCall
  <1> QED
    BY <1>5, <1>6 DEF Request, Locally, Refused, Unnoted, Write

\* The inventory after a successful deleteObject.
MarkedDeleted(k) == Mark(mem, k, PhaseAfterDelete[pc], mem[k].applied \/ pc = "apply")

\* The item of an object whose deletion has been requested waits for the object to go.
LEMMA DeletedSimilar ==
  ASSUME IndInv, step # "read"
  PROVE  /\ SimilarBut(mem, MarkedDeleted(cur), cur)
         /\ MarkedDeleted(cur)[cur].phase \in {"Completing", "Updating", "Deleting"}
         /\ MarkedDeleted(cur)[cur].phase = "Deleting" <=> pc = "delete"
  <1>1. cur \in DOMAIN mem /\ IsInventory(mem) /\ pc \in {"complete", "apply", "delete"}
    BY InMemory DEF IndInv, StateTypeOK, CursorInv, InStage
  <1>2. SimilarBut(mem, MarkedDeleted(cur), cur)
        /\ MarkedDeleted(cur)[cur].phase = PhaseAfterDelete[pc]
    BY <1>1, MarkSimilar DEF MarkedDeleted
  <1>3. /\ PhaseAfterDelete[pc] \in {"Completing", "Updating", "Deleting"}
        /\ PhaseAfterDelete[pc] = "Deleting" <=> pc = "delete"
    BY <1>1 DEF PhaseAfterDelete
  <1> QED
    BY <1>2, <1>3

\* A new phase for the key being handled changes nothing else.
LEMMA NewPhaseSimilar ==
  ASSUME IndInv, step # "read", NEW phase
  PROVE  /\ SimilarBut(mem, SetPhase(mem, cur, phase), cur)
         /\ SetPhase(mem, cur, phase)[cur].phase = phase
         /\ SimilarBut(mem, Applied(phase), cur) /\ Applied(phase)[cur].phase = phase
  <1>1. cur \in DOMAIN mem /\ IsInventory(mem)
    BY InMemory DEF IndInv, StateTypeOK
  <1>2. SimilarBut(mem, SetPhase(mem, cur, phase), cur)
        /\ SetPhase(mem, cur, phase)[cur].phase = phase
    BY <1>1, MarkSimilar DEF SetPhase
  <1>3. SimilarBut(mem, Applied(phase), cur) /\ Applied(phase)[cur].phase = phase
    <2>1. PICK applied \in BOOLEAN : Applied(phase) = Mark(mem, cur, phase, applied)
      BY DEF Applied
    <2> QED
      BY <1>1, <2>1, MarkSimilar
  <1> QED
    BY <1>2, <1>3

\* A refused request keeps the invariant.
LEMMA RefusedCall ==
  ASSUME IndInv, CallInv, CallFrame, step # "read", released \subseteq released',
         Refused \/ Unnoted(Fail)
  PROVE  CallInv'
  <1>1. /\ op = "apply" => (mem[cur].phase \in ObsoletePhases <=> pc = "delete")
        /\ SimilarBut(mem, mem, cur) /\ TRUE \in BOOLEAN
        /\ Digested(cluster)
    BY StageClass, SelfSimilar DEF CallInv, DigestInv, Digested
  <1> QED
    BY <1>1, StepCall

\* A step that observes only keeps the invariant, if more is to be waited for.
LEMMA WaitingCall ==
  ASSUME IndInv, CallInv, CallFrame, step # "read", released \subseteq released',
         Locally(Handled(cur, mem, TRUE))
  PROVE  CallInv'
  <1>1. /\ op = "apply" => (mem[cur].phase \in ObsoletePhases <=> pc = "delete")
        /\ SimilarBut(mem, mem, cur) /\ TRUE \in BOOLEAN
        /\ Digested(cluster)
    BY StageClass, SelfSimilar DEF CallInv, DigestInv, Digested
  <1> QED
    BY <1>1, StepCall

\* A step that leaves the object deleting keeps the invariant.
LEMMA DeletedCall ==
  ASSUME IndInv, CallInv, CallFrame, step # "read", released' = released,
         NEW c \in {cluster, MarkDeleting(cluster, cur), DropFinalizer(cluster, cur)},
         Request(c, Deleted) \/ (c = cluster /\ Unnoted(Deleted))
  PROVE  CallInv'
  <1>1. cur \in Keys
    BY InMemory
  <1>2. /\ Digested(c) /\ \A j \in Keys \ {cur} : c[j] = cluster[j]
        /\ Ours(c, cur) => Ours(cluster, cur)
    BY <1>1, HarmlessRequests DEF CallInv
  <1>3. \/ Request(c, Handled(cur, MarkedDeleted(cur), TRUE))
        \/ c = cluster /\ Unnoted(Handled(cur, MarkedDeleted(cur), TRUE))
    BY DEF Deleted, MarkedDeleted
  <1>4. /\ SimilarBut(mem, MarkedDeleted(cur), cur)
        /\ MarkedDeleted(cur)[cur].phase \notin {"Completed", "Ready"}
        /\ MarkedDeleted(cur)[cur].phase \in ObsoletePhases <=> pc = "delete"
    BY DeletedSimilar DEF ObsoletePhases
  <1> QED
    BY <1>2, <1>3, <1>4, StepCall

\* A request to delete the object that has been read keeps the invariant.
LEMMA RequestDeletionCall ==
  ASSUME IndInv, CallInv, IndInv', CallFrame, step = "act", released' = released,
         RequestDeletion
  PROVE  CallInv'
  <1> DEFINE c == MarkDeleting(cluster, cur)
  <1>1. /\ cur \in Keys /\ Calling /\ cur \in todo
        /\ pc = "apply" => ApplyOrder(rev, cur) = wave /\ ~ Skipped(cur)
        /\ pc = "delete" => mem[cur].deleteOrder = wave
    BY InMemory DEF IndInv, CursorInv, CallInv, ApplyInv, ApplyOrderInv, DeleteInv
  <1>2. CASE Refused
    BY <1>2, RefusedCall
  <1>3. CASE Request(cluster, Deleted) \/ Request(c, Deleted)
    BY <1>3, DeletedCall
  <1>4. CASE /\ Write(c)
             /\ step' = "finalize"
             /\ UNCHANGED <<mem, pc, waveVars, cur, seen, fresh, result>>
    <2>1. /\ Digested(c) /\ \A j \in Keys \ {cur} : c[j] = cluster[j]
          /\ \A j \in Keys : Ours(c, j) => Ours(cluster, j)
      BY <1>1, HarmlessRequests DEF CallInv
    <2>2. /\ cluster' = c /\ resurrected \subseteq resurrected'
          /\ revived \subseteq revived' /\ revived' \subseteq Keys
      BY <1>4, WriteNotes
    <2>3. /\ UNCHANGED <<op, rev, pc, todo, wave, blockers, waiting, result, component>>
          /\ saved' = saved /\ mem' = mem /\ spoiled' = spoiled /\ seen' = seen /\ cur' = cur
      BY <1>4 DEF CallFrame, callVars, componentVars, waveVars
    <2>4. Similar(saved, saved') /\ Similar(mem, mem')
      BY <2>3, SelfSimilar DEF Similar
    <2>5. DigestInv'
      BY <2>1, <2>2, <2>3, DigestsKept DEF CallInv
    <2>6. ASSUME NEW k \in Rendered(rev), InSync(rev, k)
          PROVE  InSync(rev, k)' \/ (Calling /\ k \in todo)
      <3>1. k \in Keys
        BY ManifestAssumption DEF IndInv, StateTypeOK
      <3>2. CASE k = cur
        BY <1>1, <3>2
      <3>3. CASE k # cur
        BY <2>1, <2>2, <2>3, <2>6, <3>1, <3>3 DEF InSync
      <3> QED
        BY <3>2, <3>3
    <2>7. spoiled \subseteq Keys
      BY DEF CallInv
    <2> HIDE DEF c
    <2>8. \A k \in Keys : Ours(cluster', k) => Ours(cluster, k)
      BY <2>1, <2>2
    <2>9. /\ step' # "read" =>
             /\ pc = "apply" => ApplyOrder(rev, cur') = wave /\ ~ Skipped(cur')
             /\ pc = "delete" => mem[cur'].deleteOrder = wave
          /\ step' # "act"
      BY <1>1, <1>4, <2>3
    <2> QED
      BY <2>2, <2>3, <2>4, <2>5, <2>6, <2>7, <2>8, <2>9, AroundCall
  <1>5. \/ Refused \/ Request(cluster, Deleted) \/ Request(c, Deleted)
        \/ /\ Write(c)
           /\ step' = "finalize"
           /\ UNCHANGED <<mem, pc, waveVars, cur, seen, fresh, result>>
    BY DEF RequestDeletion, Request
  <1> QED
    BY <1>2, <1>3, <1>4, <1>5

-----------------------------------------------------------------------------
(* The steps of a call *)

\* The steps that handle the key that has been read leave the frame of the call alone.
LEMMA ReadFrame ==
  ASSUME NEW stage, HaveRead(stage)
  PROVE  CallFrame /\ pc = stage /\ step = "act" /\ step # "read" /\ released' = released
  BY DEF HaveRead, InCall, CallFrame

\* The treatment of types by deleteObject goes to another step, and back.
LEMMA TypeStepCall ==
  ASSUME IndInv, CallInv, IndInv', CallFrame, step # "read", step' \in {"finalize", "release"},
         UNCHANGED <<cluster, resurrected, revived, released>>,
         UNCHANGED <<mem, pc, waveVars, cur, result>>,
         seen' = seen \/ seen' = cluster[cur]
  PROVE  CallInv'
  <1>1. /\ cur \in Keys
        /\ pc = "apply" => ApplyOrder(rev, cur) = wave /\ ~ Skipped(cur)
        /\ pc = "delete" => mem[cur].deleteOrder = wave
    BY InMemory DEF CallInv, ApplyInv, ApplyOrderInv, DeleteInv
  <1>2. /\ UNCHANGED <<op, rev, pc, todo, wave, blockers, waiting, result, component>>
        /\ saved' = saved /\ mem' = mem /\ spoiled' = spoiled /\ cur' = cur
        /\ UNCHANGED <<cluster, resurrected, revived, released>>
    BY DEF CallFrame, callVars, componentVars, waveVars
  <1>3. Similar(saved, saved') /\ Similar(mem, mem')
    BY <1>2, SelfSimilar DEF Similar
  <1>4. DigestInv'
    BY <1>1, <1>2, DigestsKept DEF CallInv, DigestInv, Digested
  <1>5. spoiled \subseteq Keys /\ revived \subseteq Keys
    BY DEF CallInv, RevivedInv
  <1>6. /\ \A k \in Keys : Ours(cluster', k) => Ours(cluster, k)
        /\ \A k \in Rendered(rev) : InSync(rev, k) => InSync(rev, k)'
    BY <1>2 DEF InSync
  <1>7. step' # "act" /\ step' # "read"
    OBVIOUS
  <1> QED
    BY <1>1, <1>2, <1>3, <1>4, <1>5, <1>6, <1>7, AroundCall

\* Looking for the instances of a type and removing its finalizer keep the invariant.
LEMMA FinalizeTypeCall ==
  ASSUME IndInv, CallInv, IndInv', FinalizeType \/ ReleaseType
  PROVE  CallInv'
  <1>1. CallFrame /\ step # "read" /\ released' = released
    BY DEF FinalizeType, ReleaseType, InCall, CallFrame
  <1>2. CASE Refused \/ Unnoted(Fail)
    BY <1>1, <1>2, RefusedCall
  <1>3. CASE Unnoted(Deleted) \/ Request(DropFinalizer(cluster, cur), Deleted)
    BY <1>1, <1>3, DeletedCall
  <1>4. CASE Unnoted(BeginRelease)
    BY <1>1, <1>4, TypeStepCall DEF Unnoted, BeginRelease
  <1>5. CASE Locally(/\ step' = "finalize"
                     /\ UNCHANGED <<mem, pc, waveVars, cur, seen, fresh, result>>)
    BY <1>1, <1>5, TypeStepCall DEF Locally
  <1>6. CASE FinalizeType
    BY <1>2, <1>3, <1>4, <1>6 DEF FinalizeType, Unnoted
  <1>7. CASE ReleaseType
    BY <1>2, <1>3, <1>5, <1>7 DEF ReleaseType
  <1> QED
    BY <1>6, <1>7

\* The steps that complete purged objects keep the invariant.
LEMMA CompletionCall ==
  ASSUME IndInv, CallInv, IndInv', CompleteObject \/ CheckCompletion
  PROVE  CallInv'
  <1>1. CallFrame /\ pc = "complete" /\ step = "act" /\ step # "read" /\ released' = released
    BY ReadFrame DEF CompleteObject, CheckCompletion
  <1>2. CASE CompleteObject
    BY <1>1, <1>2, RequestDeletionCall DEF CompleteObject
  <1>3. CASE CheckCompletion /\ seen.exists
    BY <1>1, <1>3, WaitingCall DEF CheckCompletion
  <1>4. CASE CheckCompletion /\ ~ seen.exists
    <2> DEFINE inv == SetPhase(mem, cur, "Completed")
    <2>1. Locally(Handled(cur, inv, FALSE))
      BY <1>4 DEF CheckCompletion
    <2>2. SimilarBut(mem, inv, cur) /\ inv[cur].phase = "Completed"
      BY <1>1, NewPhaseSimilar
    <2>3. ~ Ours(cluster, cur) /\ Digested(cluster)
      BY <1>1, <1>4 DEF IndInv, CursorInv, CallInv, DigestInv, Digested
    <2> HIDE DEF inv
    <2>4. /\ inv[cur].phase \notin ObsoletePhases /\ inv[cur].phase # "Ready"
          /\ FALSE \in BOOLEAN
      BY <2>2 DEF ObsoletePhases
    <2> QED
      BY <1>1, <2>1, <2>2, <2>3, <2>4, StepCall
  <1> QED
    BY <1>2, <1>3, <1>4

\* An object that is in sync and ready is so for the running call.
LEMMA ObservedInSync ==
  ASSUME IndInv, CallInv, pc = "apply", step = "act",
         seen.exists, ~ OutOfSync(mem[cur], seen), seen.ready, ~ seen.deleting
  PROVE  InSync(rev, cur) \/ cur \in spoiled
  <1>1. /\ cur \in Rendered(rev) /\ cur \in DOMAIN mem /\ rev \in Revisions
        /\ Matches(mem, rev) /\ op = "apply"
    <2>1. cur \in Rendered(rev) /\ cur \in DOMAIN mem /\ rev \in Revisions
      BY InMemory DEF IndInv, CursorInv, StateTypeOK
    <2>2. op = "apply"
      BY DEF CallInv, PhaseInv
    <2> QED
      BY <2>1, <2>2 DEF CallInv, PhaseInv, Applying
  <1>2. seen.digest = Digest(rev, cur)
    BY <1>1 DEF OutOfSync, Matches
  <1>3. seen.owner = "me"
    BY <1>1, <1>2, RenderedDigest DEF CallInv, DigestInv
  <1>4. AsRendered(seen, rev, cur)
    BY <1>2, <1>3 DEF AsRendered
  <1> QED
    BY <1>4 DEF CallInv, ApplyInv

\* The steps of the apply stage that handle the key that has been read.
LEMMA ApplyObjectCall ==
  ASSUME IndInv, CallInv, IndInv',
         CreateObject \/ UpdateObject \/ RecreateObject \/ ObserveObject
  PROVE  CallInv'
  <1>1. /\ CallFrame /\ pc = "apply" /\ step = "act" /\ step # "read"
        /\ released' = released /\ released \subseteq released'
    BY ReadFrame DEF CreateObject, UpdateObject, RecreateObject, ObserveObject
  <1>2. cluster \in [Keys -> Objects] /\ cur \in Keys /\ cur \in DOMAIN mem
        /\ IsInventory(mem) /\ Digested(cluster)
    BY <1>1, InMemory DEF IndInv, StateTypeOK, CallInv, DigestInv, Digested
  <1>3. ASSUME NEW phase \in {"Creating", "Updating"}, NEW finalizer,
               Request(Put(cluster, cur, "me", mem[cur].digest, finalizer),
                       Handled(cur, Applied(phase), TRUE))
        PROVE  CallInv'
    <2> DEFINE c == Put(cluster, cur, "me", mem[cur].digest, finalizer)
               inv == Applied(phase)
    <2>1. Request(c, Handled(cur, inv, TRUE))
      BY <1>3
    <2>2. \A j \in Keys \ {cur} : c[j] = cluster[j]
      BY <1>2 DEF Put
    <2>3. c[cur].owner = "me"
      BY <1>2 DEF Put
    <2>4. SimilarBut(mem, inv, cur) /\ inv[cur].phase = phase
      BY <1>1, NewPhaseSimilar
    <2> HIDE DEF c, inv
    <2>5. Digested(c)
      BY <1>2, <2>2, <2>3 DEF Digested
    <2>6. inv[cur].phase \notin ObsoletePhases /\ inv[cur].phase # "Completed"
          /\ TRUE \in BOOLEAN
      BY <2>4 DEF ObsoletePhases
    <2> QED
      BY <1>1, <2>1, <2>2, <2>4, <2>5, <2>6, StepCall
  <1>4. CASE CreateObject
    BY <1>1, <1>3, <1>4, RefusedCall DEF CreateObject
  <1>5. CASE UpdateObject
    BY <1>1, <1>3, <1>5, RefusedCall DEF UpdateObject
  <1>6. CASE RecreateObject
    BY <1>1, <1>6, RequestDeletionCall DEF RecreateObject
  <1>7. CASE ObserveObject /\ ~ (seen.ready /\ ~ seen.deleting)
    BY <1>1, <1>7, WaitingCall DEF ObserveObject
  <1>8. CASE ObserveObject /\ seen.ready /\ ~ seen.deleting
    <2> DEFINE inv == SetPhase(mem, cur, "Ready")
    <2>1. Locally(Handled(cur, inv, FALSE)) /\ seen.exists /\ ~ OutOfSync(mem[cur], seen)
      BY <1>8 DEF ObserveObject
    <2>2. SimilarBut(mem, inv, cur) /\ inv[cur].phase = "Ready"
      BY <1>1, NewPhaseSimilar
    <2>3. InSync(rev, cur) \/ cur \in spoiled
      BY <1>1, <1>8, <2>1, ObservedInSync
    <2> HIDE DEF inv
    <2>4. /\ inv[cur].phase \notin ObsoletePhases /\ inv[cur].phase # "Completed"
          /\ FALSE \in BOOLEAN
      BY <2>2 DEF ObsoletePhases
    <2> QED
      BY <1>1, <1>2, <2>1, <2>2, <2>3, <2>4, StepCall
  <1> QED
    BY <1>4, <1>5, <1>6, <1>7, <1>8

\* The steps of the delete stage that handle the key that has been read.
LEMMA DeleteObjectCall ==
  ASSUME IndInv, CallInv, IndInv',
         CheckDeletion \/ PostponeObject \/ OrphanObject \/ DeleteObject
  PROVE  CallInv'
  <1>1. CallFrame /\ pc = "delete" /\ step = "act" /\ step # "read"
    BY DEF CheckDeletion, PostponeObject, OrphanObject, DeleteObject, ToBeDeleted, HaveRead,
       InCall, CallFrame
  <1>2. cur \in Keys /\ cur \in DOMAIN mem /\ IsInventory(mem) /\ Digested(cluster)
        /\ cluster \in [Keys -> Objects]
    BY <1>1, InMemory DEF IndInv, StateTypeOK, CallInv, DigestInv, Digested
  <1>3. ASSUME released \subseteq released', NEW c \in {cluster, DropFinalizer(cluster, cur)},
               \/ Request(c, Handled(cur, SetPhase(mem, cur, ""), FALSE))
               \/ c = cluster /\ Locally(Handled(cur, SetPhase(mem, cur, ""), FALSE)),
               ~ Ours(cluster, cur) \/ cur \in released'
        PROVE  CallInv'
    <2> DEFINE inv == SetPhase(mem, cur, "")
    <2>1. SimilarBut(mem, inv, cur) /\ inv[cur].phase = ""
      BY <1>1, NewPhaseSimilar
    <2>2. /\ Digested(c) /\ \A j \in Keys \ {cur} : c[j] = cluster[j]
          /\ Ours(c, cur) => Ours(cluster, cur)
      BY <1>2, <1>3, HarmlessRequests DEF CallInv
    <2>3. \/ Request(c, Handled(cur, inv, FALSE))
          \/ c = cluster /\ Locally(Handled(cur, inv, FALSE))
      BY <1>3
    <2> HIDE DEF inv
    <2>4. /\ inv[cur].phase \in ObsoletePhases /\ inv[cur].phase # "Completed"
          /\ FALSE \in BOOLEAN
      BY <2>1 DEF ObsoletePhases
    <2> QED
      BY <1>1, <1>3, <2>1, <2>2, <2>3, <2>4, StepCall
  <1>4. CASE CheckDeletion
    <2>1. released' = released
      BY <1>4 DEF CheckDeletion, HaveRead
    <2>2. CASE Refused
      BY <1>1, <2>1, <2>2, RefusedCall
    <2>3. CASE Locally(Handled(cur, mem, TRUE))
      BY <1>1, <2>1, <2>3, WaitingCall
    <2>4. CASE /\ ~ (seen.exists /\ seen.owner = "me")
               /\ Locally(Handled(cur, SetPhase(mem, cur, ""), FALSE))
      <3>1. ~ Ours(cluster, cur)
        BY <1>1, <2>4 DEF IndInv, CursorInv
      <3> QED
        BY <1>3, <2>1, <2>4, <3>1
    <2> QED
      BY <1>4, <2>2, <2>3, <2>4 DEF CheckDeletion
  <1>5. CASE PostponeObject
    BY <1>1, <1>5, WaitingCall DEF PostponeObject, ToBeDeleted, HaveRead
  <1>6. CASE DeleteObject
    BY <1>1, <1>6, RequestDeletionCall DEF DeleteObject, ToBeDeleted, HaveRead
  <1>7. CASE OrphanObject
    <2>1. released \subseteq released'
      BY <1>7 DEF OrphanObject
    <2>2. CASE Refused
      BY <1>1, <2>1, <2>2, RefusedCall
    <2>3. ~ Ours(cluster, cur) \/ cur \in released'
      <3>1. CASE OrphanedByPolicy
        BY <1>7, <3>1 DEF OrphanObject
      <3>2. CASE Foreign
        BY <1>1, <3>2 DEF Foreign, IndInv, CursorInv
      <3> QED
        BY <1>7, <3>1, <3>2 DEF OrphanObject
    <2>4. CASE \/ Request(DropFinalizer(cluster, cur),
                          Handled(cur, SetPhase(mem, cur, ""), FALSE))
               \/ Locally(Handled(cur, SetPhase(mem, cur, ""), FALSE))
      BY <1>3, <2>1, <2>3, <2>4
    <2> QED
      BY <1>7, <2>2, <2>4 DEF OrphanObject
  <1> QED
    BY <1>4, <1>5, <1>6, <1>7

\* Reading an object keeps the invariant, whether it can be read or not.
LEMMA ReadObjectCall ==
  ASSUME IndInv, CallInv, IndInv', NEW k \in Keys, ReadObject(k)
  PROVE  CallInv'
  <1>1. /\ CallFrame /\ UNCHANGED <<cluster, historyVars>> /\ k \in Upcoming
        /\ ~ Skipped(k)
    BY DEF ReadObject, InCall, CallFrame
  <1>2. /\ op' = op /\ rev' = rev /\ saved' = saved /\ spoiled' = spoiled
        /\ component' = component /\ cluster' = cluster
        /\ revived' = revived /\ released' = released /\ resurrected' = resurrected
    BY <1>1 DEF CallFrame, callVars, componentVars, historyVars
  <1>3. Digested(cluster) /\ revived \subseteq Keys /\ spoiled \subseteq Keys
    BY DEF CallInv, DigestInv, Digested, RevivedInv
  <1>4. CASE /\ cur' = k /\ seen' = cluster[k] /\ fresh' = TRUE /\ step' = "act"
             /\ UNCHANGED <<mem, pc, waveVars, result, boundVars>>
    <2>1. UNCHANGED <<pc, todo, wave, blockers, waiting, result>> /\ mem' = mem
      BY <1>4 DEF waveVars
    <2>2. Similar(saved, saved') /\ Similar(mem, mem')
      BY <1>2, <2>1, SelfSimilar DEF Similar
    <2>3. DigestInv'
      BY <1>2, <1>3, <1>4, DigestsKept DEF CallInv
    <2>4. /\ pc = "apply" => ApplyOrder(rev, cur') = wave /\ ~ Skipped(cur')
          /\ pc = "delete" => mem[cur'].deleteOrder = wave
      BY <1>1, <1>4 DEF Upcoming
    <2>5. AsRendered(seen', rev, cur') => InSync(rev, cur)'
      BY <1>2, <1>4 DEF InSync
    <2>6. /\ \A j \in Rendered(rev) : InSync(rev, j) => InSync(rev, j)'
          /\ \A j \in Keys : Ours(cluster', j) => Ours(cluster, j)
      BY <1>2 DEF InSync
    <2> QED
      BY <1>2, <1>3, <2>1, <2>2, <2>3, <2>4, <2>5, <2>6, AroundCall
  <1>5. CASE Fail
    <2>1. Return("error") /\ mem' = mem /\ seen' = Absent
      BY <1>5 DEF Fail, Return
    <2>2. DigestInv'
      BY <1>2, <1>3, <2>1, DigestsKept DEF CallInv
    <2>3. RevivedInv' /\ (op = "apply" => PhasesTell(mem'))
      BY <1>2, <2>1 DEF CallInv, RevivedInv, PhaseInv
    <2> QED
      BY <1>1, <2>1, <2>2, <2>3, ReturnCall
  <1> QED
    BY <1>4, <1>5 DEF ReadObject

\* The creation of missing namespaces keeps the invariant: they are not ours.
LEMMA NamespacesCall ==
  ASSUME IndInv, CallInv, NEW n \in Keys, CreateMissingNamespace(n)
  PROVE  CallInv'
  <1> DEFINE c == Put(cluster, n, "none", NoDigest, FALSE)
  <1>1. /\ CallFrame /\ pc = "namespaces" /\ n \in todo /\ Calling /\ step = "read"
        /\ released' = released /\ cluster \in [Keys -> Objects]
    BY IdleCursor
    DEF CreateMissingNamespace, InCall, CallFrame, Calling, IndInv, StateTypeOK
  <1>2. /\ saved' = saved /\ op' = op /\ op = "apply"
        /\ revived \subseteq Keys /\ Digested(cluster) /\ PhasesTell(mem)
    BY <1>1 DEF CallFrame, callVars, CallInv, RevivedInv, DigestInv, Digested, PhaseInv
  <1>3. /\ \A j \in Keys \ {n} : c[j] = cluster[j]
        /\ c[n].owner = "none" /\ c[n].digest = NoDigest
    BY <1>1 DEF Put
  <1> HIDE DEF c
  <1>4. Digested(c) /\ \A j \in Keys : Ours(c, j) => Ours(cluster, j)
    BY <1>2, <1>3 DEF Digested, Ours
  <1>5. PICK d \in {cluster, c} : Request(d, Handled(n, mem, FALSE))
    BY DEF CreateMissingNamespace, c
  <1>6. /\ Digested(d) /\ \A j \in Keys : Ours(d, j) => Ours(cluster, j)
        /\ \A j \in Keys \ {n} : d[j] = cluster[j]
    BY <1>2, <1>3, <1>4
  <1>7. /\ cluster' \in {cluster, d} /\ resurrected \subseteq resurrected'
        /\ revived \subseteq revived' /\ revived' \subseteq Keys
    BY <1>2, <1>5, WriteNotes DEF Request
  <1>8. mem' = mem /\ seen' = Absent
    BY <1>5 DEF Request, Handled, Fail, Return
  <1>9. DigestInv'
    BY <1>2, <1>6, <1>7, <1>8, DigestsKept DEF CallInv
  <1>10. RevivedInv'
    BY <1>2, <1>6, <1>7, <1>8, RevivedKept DEF CallInv
  <1>11. CASE Handled(n, mem, FALSE)
    <2>1. SimilarBut(mem, mem, n) /\ FALSE \in BOOLEAN
      BY SelfSimilar
    <2>2. \A j \in Keys \ {n} : cluster'[j] = cluster[j]
      BY <1>6, <1>7
    <2> QED
      BY <1>1, <1>7, <1>9, <1>10, <1>11, <2>1, <2>2, HandledCall
  <1>12. CASE Fail
    BY <1>1, <1>2, <1>8, <1>9, <1>10, <1>12, ReturnCall DEF Fail
  <1> QED
    BY <1>5, <1>11, <1>12 DEF Request

\* An object that is not looked at is completed, or waited for.
LEMMA SkipObjectCall ==
  ASSUME IndInv, CallInv, NEW k \in Keys, SkipObject(k)
  PROVE  CallInv'
  <1>1. /\ CallFrame /\ pc = "apply" /\ Calling /\ released' = released /\ k \in Upcoming
        /\ Locally(Handled(k, mem, mem[k].phase # "Completed"))
    BY DEF SkipObject, InCall, CallFrame, Calling
  <1>2. PICK w \in BOOLEAN : w = (mem[k].phase # "Completed")
    OBVIOUS
  <1>3. /\ Handled(k, mem, w) /\ UNCHANGED <<cluster, resurrected, revived>>
        /\ mem' = mem /\ seen' = Absent
    BY <1>1, <1>2 DEF Locally, Handled
  <1>4. k \in todo /\ wave # NoWave /\ ApplyOrder(rev, k) = wave
    BY <1>1, ReadableType DEF Upcoming
  <1>5. w \/ Settled(k)'
    BY <1>2, <1>3 DEF Settled
  <1>6. DigestInv' /\ RevivedInv'
    <2>1. Digested(cluster') /\ saved' = saved
      BY <1>1, <1>3 DEF CallInv, DigestInv, Digested, CallFrame
    <2> QED
      BY <1>3, <2>1, DigestsKept DEF CallInv, RevivedInv
  <1>7. SimilarBut(mem, mem, k)
    BY SelfSimilar
  <1> QED
    BY <1>1, <1>3, <1>4, <1>5, <1>6, <1>7, HandledCall

\* Between keys nothing has been read, and nothing that was written is touched.
LEMMA BetweenKeys ==
  ASSUME IndInv, CallInv, CallFrame, UNCHANGED <<cluster, historyVars>>, mem' = mem,
         seen' \in {seen, Absent}
  PROVE  DigestInv' /\ RevivedInv'
  <1>1. /\ Digested(cluster') /\ saved' = saved /\ revived' = revived
    BY DEF CallInv, DigestInv, Digested, CallFrame, historyVars
  <1> QED
    BY <1>1, DigestsKept DEF CallInv, RevivedInv

\* The end of the first two stages, after which no item is known that was not
\* ready before.
LEMMA FirstStagesCall ==
  ASSUME IndInv, CallInv, NamespacesDone \/ CompletionsDone
  PROVE  CallInv'
  <1>1. /\ CallFrame /\ UNCHANGED <<cluster, historyVars>>
        /\ pc \in {"namespaces", "complete"} /\ step = "read" /\ mem' = mem
        /\ seen' \in {seen, Absent}
    BY IdleCursor
    DEF NamespacesDone, CompletionsDone, InCall, CallFrame, Locally, historyVars, Enter,
        Return, cursorVars, IndInv, CursorInv
  <1>2. DigestInv' /\ RevivedInv'
    BY <1>1, BetweenKeys
  <1>3. CASE Return("again")
    <2>1. op = "apply" => PhasesTell(mem')
      BY <1>1 DEF CallInv, PhaseInv
    <2> QED
      BY <1>1, <1>2, <1>3, <2>1, ReturnCall
  <1>4. ASSUME NEW stage \in {"complete", "apply"}, NEW keys, Enter(stage, keys),
               stage = "complete" => \A k \in keys : mem[k].phase \notin ObsoletePhases,
               stage = "apply" => keys = Rendered(rev)
        PROVE  CallInv'
    <2>1. /\ pc' = stage /\ todo' = keys /\ wave' = NoWave /\ result' = result
          /\ step' = "read"
          /\ op' = op /\ rev' = rev /\ saved' = saved /\ component' = component
          /\ spoiled' = spoiled
      BY <1>1, <1>4 DEF Enter, cursorVars, CallFrame, callVars, componentVars
    <2>2. PhaseInv'
      <3>1. /\ Applying /\ op = "apply" /\ Matches(mem, rev)
            /\ PhasesTell(saved) /\ PhasesTell(mem)
            /\ \A k \in DOMAIN mem : mem[k].phase = "Ready" => ReadyBefore(k)
        BY <1>1 DEF CallInv, PhaseInv, Applying
      <3>2. \A k \in DOMAIN mem : mem[k].phase = "Ready" => ReadyBefore(k)'
        BY <2>1, <3>1 DEF ReadyBefore
      <3> QED
        BY <1>1, <1>4, <2>1, <3>1, <3>2 DEF PhaseInv
    <2>3. ApplyInv'
      <3> SUFFICES ASSUME stage = "apply" PROVE ApplyInv'
        BY <2>1 DEF ApplyInv
      <3>1. todo' = Rendered(rev')
        BY <1>4, <2>1
      <3>2. ApplyOrderInv' /\ BlockersInv'
        BY <2>1, <3>1 DEF ApplyOrderInv, BlockersInv, NoWave
      <3>3. todo' = {} => Purged(rev)'
        BY <2>1, <3>1 DEF Purged
      <3> QED
        BY <2>1, <3>1, <3>2, <3>3 DEF ApplyInv
    <2> QED
      BY <1>2, <2>1, <2>2, <2>3
      DEF CallInv, DeleteInv, DoneMeansSynced, ReturnsDone
  <1>5. CASE NamespacesDone
    <2> DEFINE keys == {k \in DOMAIN mem :
                          mem[k].phase \in {"ScheduledForCompletion", "Completing"}}
    <2>1. Enter("complete", keys)
      BY <1>5 DEF NamespacesDone, Locally
    <2>2. \A k \in keys : mem[k].phase \notin ObsoletePhases
      BY DEF ObsoletePhases
    <2> HIDE DEF keys
    <2> QED
      BY <1>4, <2>1, <2>2
  <1>6. CASE CompletionsDone
    BY <1>3, <1>4, <1>6 DEF CompletionsDone, Locally
  <1> QED
    BY <1>5, <1>6

\* What Apply does not have to wait for in a wave that begins was ready before.
LEMMA PendingBlocks ==
  ASSUME IndInv, CallInv, pc = "apply", wave = NoWave, NEW o, o = wave',
         wave' # NoWave, blockers' = PendingIn(o), UNCHANGED <<saved, rev, mem>>,
         \A k \in Rendered(rev) : ApplyOrder(rev, k) = o => k \in todo
  PROVE  BlockersInv'
  <1> SUFFICES ASSUME NEW j \in Rendered(rev), ApplyOrder(rev, j) = o,
                      \/ IsRegular(mem, j) /\ "regular" \notin PendingIn(o)
                      \/ IsLate(j) /\ "late" \notin PendingIn(o)
               PROVE  mem[j].phase = "Completed" \/ ReadyBefore(j)
    BY DEF BlockersInv, ReadyBefore
  <1>1. mem[j].phase \in {"Ready", "Completed"}
    BY DEF PendingIn
  <1>2. mem[j].phase = "Ready" => ReadyBefore(j)
    <2>1. j \in todo /\ j \in DOMAIN mem
      BY DEF IndInv, CursorInv
    <2> QED
      BY <2>1 DEF CallInv, PhaseInv
  <1> QED
    BY <1>1, <1>2

\* The first object of a wave has the lowest order of all that are left.
LEMMA BeginApplyWaveCall ==
  ASSUME IndInv, CallInv, BeginApplyWave
  PROVE  CallInv'
  <1>1. /\ CallFrame /\ pc = "apply" /\ wave = NoWave /\ UNCHANGED <<cluster, historyVars>>
        /\ UNCHANGED <<mem, pc, todo, waiting, cur, seen, fresh, step, result>>
    BY DEF BeginApplyWave, InCall, CallFrame, Locally, historyVars, cursorVars
  <1>2. /\ saved' = saved /\ op' = op /\ rev' = rev /\ component' = component
        /\ spoiled' = spoiled
    BY <1>1 DEF CallFrame, callVars, componentVars
  <1>3. step = "read" /\ todo \subseteq Rendered(rev)
    BY <1>1 DEF IndInv, CursorInv
  <1>4. PICK k \in todo : /\ \A j \in todo : ApplyOrder(rev, k) =< ApplyOrder(rev, j)
                          /\ wave' = ApplyOrder(rev, k)
                          /\ blockers' = PendingIn(ApplyOrder(rev, k))
    BY DEF BeginApplyWave
  <1>5. wave' \in Orders /\ wave' # NoWave
    BY <1>3, <1>4, OrderTypes
  <1>6. \A j \in Rendered(rev) \ todo : ApplyOrder(rev, j) < wave'
    BY <1>1, <1>4 DEF CallInv, ApplyInv, ApplyOrderInv
  <1>7. ApplyInv'
    <2>1. ApplyOrderInv'
      <3>1. \A j \in Rendered(rev) \ todo : ApplyOrder(rev, j) =< wave'
        BY <1>5, <1>6, OrderTypes
      <3> QED
        BY <1>1, <1>2, <1>3, <1>4, <1>5, <3>1 DEF ApplyOrderInv
    <2>2. BlockersInv'
      <3>1. \A j \in Rendered(rev) : ApplyOrder(rev, j) = wave' => j \in todo
        BY <1>5, <1>6, OrderTypes
      <3>2. PICK o : o = wave'
        OBVIOUS
      <3> QED
        BY <1>1, <1>2, <1>4, <1>5, <3>1, <3>2, PendingBlocks
    <2>3. \A j \in Rendered(rev) \ todo : Settled(j)'
      <3>1. \A j \in Rendered(rev) \ todo : Settled(j)
        BY <1>1 DEF CallInv, ApplyInv
      <3> QED
        BY <1>1, <1>2, <3>1 DEF Settled, InSync
    <2> QED
      BY <1>1, <1>2, <1>3, <1>5, <2>1, <2>2, <2>3 DEF ApplyInv
  <1>8. DigestInv' /\ RevivedInv'
    BY <1>1, BetweenKeys
  <1>9. PhaseInv'
    BY <1>1, <1>2 DEF CallInv, PhaseInv, Applying, ReturnsDone, ReadyBefore
  <1> QED
    BY <1>1, <1>2, <1>7, <1>8, <1>9
    DEF CallInv, DeleteInv, DoneMeansSynced, ReturnsDone

\* When a wave ends without anything to wait for, everything up to it is settled, and
\* with the last wave everything that is to be purged is completed.
LEMMA EndApplyWaveCall ==
  ASSUME IndInv, CallInv, EndApplyWave
  PROVE  CallInv'
  <1>1. /\ CallFrame /\ pc = "apply" /\ wave # NoWave /\ cur = NoKey
        /\ UNCHANGED <<cluster, historyVars>> /\ step = "read"
        /\ \A k \in todo : ApplyOrder(rev, k) # wave
    BY DEF EndApplyWave, InCall, CallFrame, IndInv, CursorInv
  <1>2. /\ saved' = saved /\ op' = op /\ rev' = rev /\ component' = component
        /\ spoiled' = spoiled /\ revived' = revived /\ cluster' = cluster
        /\ op = "apply" /\ Applying
    BY <1>1 DEF CallFrame, callVars, componentVars, historyVars, CallInv, PhaseInv, Applying
  <1>3. Digested(cluster') /\ todo \subseteq Rendered(rev) /\ Rendered(rev) \subseteq DOMAIN mem
    BY <1>1 DEF CallInv, DigestInv, Digested, IndInv, CursorInv
  <1>4. CASE waiting /\ Return("again") /\ mem' = mem
    <2>1. PhasesTell(mem') /\ seen' = Absent
      BY <1>2, <1>4 DEF CallInv, PhaseInv, Return
    <2>2. DigestInv' /\ RevivedInv'
      BY <1>1, <1>4, <2>1, BetweenKeys
    <2> QED
      BY <1>1, <1>4, <2>1, <2>2, ReturnCall
  <1>5. CASE /\ mem' = [k \in DOMAIN mem |->
                          IF k \in Purgeable
                          THEN [mem[k] EXCEPT !.phase = "ScheduledForCompletion"]
                          ELSE mem[k]]
             /\ Return("again")
    <2>1. DOMAIN mem' = DOMAIN mem /\ \A k \in DOMAIN mem : mem[k] \in Items
      BY <1>5 DEF IndInv, StateTypeOK, IsInventory
    <2>2. \A k \in DOMAIN mem :
            /\ k \in Purgeable => /\ k \in Rendered(rev)
                                  /\ mem'[k].phase = "ScheduledForCompletion"
            /\ k \notin Purgeable => mem'[k].phase = mem[k].phase
            /\ mem'[k].digest = mem[k].digest
      BY <1>5, <2>1 DEF Items, Purgeable
    <2>3. PhasesTell(mem')
      <3>1. PhasesTell(mem)
        BY <1>2 DEF CallInv, PhaseInv
      <3>2. \A k \in Rendered(rev) : mem[k].phase \notin ObsoletePhases
        BY <1>2, <1>3, PhaseOfItem
      <3> QED
        BY <2>1, <2>2, <3>1, <3>2 DEF PhasesTell, ObsoletePhases
    <2>4. RevivedInv'
      <3>1. \A k : NotCompleted(mem, k) => NotCompleted(mem', k)
        BY <2>1, <2>2 DEF NotCompleted
      <3> QED
        BY <1>2, <3>1 DEF CallInv, RevivedInv
    <2>5. DigestInv'
      BY <1>3, <1>5, DigestsKept DEF Return, CallInv
    <2> QED
      BY <1>1, <1>5, <2>3, <2>4, <2>5, ReturnCall
  <1>6. CASE ~ waiting /\ Purgeable = {} /\ Enter("apply", todo)
    <2>1. /\ pc' = "apply" /\ todo' = todo /\ wave' = NoWave /\ mem' = mem
          /\ seen' = seen /\ step' = "read" /\ cur' = cur /\ result' = result
      BY <1>1, <1>6 DEF Enter, cursorVars
    <2>2. DigestInv' /\ RevivedInv'
      BY <1>1, <2>1, BetweenKeys
    <2>3. PhaseInv'
      BY <1>1, <1>2, <2>1 DEF CallInv, PhaseInv, Applying, ReturnsDone, ReadyBefore
    <2>4. ApplyInv'
      <3>1. ApplyOrderInv'
        <4>1. ASSUME NEW j \in Rendered(rev) \ todo, NEW k \in todo
              PROVE  ApplyOrder(rev, j) < ApplyOrder(rev, k)
          <5>1. /\ ApplyOrder(rev, j) =< wave /\ wave =< ApplyOrder(rev, k)
                /\ ApplyOrder(rev, k) # wave
            BY <1>1 DEF CallInv, ApplyInv, ApplyOrderInv
          <5>2. /\ ApplyOrder(rev, j) \in Int /\ ApplyOrder(rev, k) \in Int /\ wave \in Int
            BY <1>1, <1>3, OrderTypes
          <5> QED
            BY <5>1, <5>2
        <4> QED
          BY <1>2, <2>1, <4>1 DEF ApplyOrderInv
      <3>2. BlockersInv'
        BY <2>1 DEF BlockersInv, NoWave
      <3>3. \A j \in Rendered(rev) \ todo : Settled(j)'
        <4>1. \A j \in Rendered(rev) \ todo : Settled(j)
          BY <1>1, <1>6 DEF CallInv, ApplyInv
        <4> QED
          BY <1>2, <2>1, <4>1 DEF Settled, InSync
      <3>4. todo = {} => Purged(rev)
        <4> SUFFICES ASSUME todo = {}, NEW k \in Rendered(rev), IsPurged(rev, k),
                            mem[k].phase # "Completed"
                     PROVE  FALSE
          BY DEF Purged
        <4>1. ApplyOrder(rev, k) =< wave
          BY <1>1 DEF CallInv, ApplyInv, ApplyOrderInv
        <4>2. k \in Purgeable
          BY <4>1 DEF Purgeable, IsPurged
        <4> QED
          BY <1>6, <4>2
      <3>5. todo = {} => Purged(rev)'
        BY <1>2, <2>1, <3>4 DEF Purged
      <3> QED
        BY <1>2, <2>1, <3>1, <3>2, <3>3, <3>5 DEF ApplyInv
    <2> QED
      BY <1>2, <2>1, <2>2, <2>3, <2>4
      DEF CallInv, DeleteInv, DoneMeansSynced, ReturnsDone
  <1> QED
    BY <1>4, <1>5, <1>6 DEF EndApplyWave

\* When the apply stage ends, all that is not rendered is left to be deleted.
LEMMA ApplyDoneCall ==
  ASSUME IndInv, CallInv, ApplyDone
  PROVE  CallInv'
  <1> DEFINE keys == {k \in DOMAIN mem :
                        mem[k].phase \in {"ScheduledForDeletion", "Deleting"}}
  <1>1. /\ CallFrame /\ pc = "apply" /\ wave = NoWave /\ todo = {}
        /\ UNCHANGED <<cluster, historyVars>> /\ step = "read" /\ Enter("delete", keys)
    BY DEF ApplyDone, InCall, CallFrame, IndInv, CursorInv, Locally, historyVars
  <1> HIDE DEF keys
  <1>2. /\ saved' = saved /\ op' = op /\ rev' = rev /\ component' = component
        /\ spoiled' = spoiled /\ cluster' = cluster
        /\ released' = released /\ resurrected' = resurrected
        /\ op = "apply" /\ Applying
    BY <1>1 DEF CallFrame, callVars, componentVars, historyVars, CallInv, PhaseInv, Applying
  <1>3. /\ pc' = "delete" /\ todo' = keys /\ wave' = NoWave /\ mem' = mem
        /\ seen' = seen /\ step' = "read" /\ result' = result
    BY <1>1 DEF Enter, cursorVars
  <1>4. DigestInv' /\ RevivedInv'
    BY <1>1, <1>3, BetweenKeys
  <1>5. PhaseInv'
    BY <1>2, <1>3 DEF CallInv, PhaseInv, Applying, ReturnsDone
  <1>6. PhasesTell(mem)
    BY <1>2 DEF CallInv, PhaseInv
  <1>7. DeleteInv'
    <2>1. \A k \in keys : mem[k].digest = NoDigest
      BY <1>6 DEF keys, PhasesTell, ObsoletePhases
    <2>2. Purged(rev)' /\ \A k \in Rendered(rev) : Settled(k)'
      <3>1. Purged(rev) /\ \A k \in Rendered(rev) : Settled(k)
        BY <1>1 DEF CallInv, ApplyInv
      <3> QED
        BY <1>2, <1>3, <3>1 DEF Purged, Settled, InSync
    <2>3. ASSUME NEW j \in DOMAIN mem \ (released \cup resurrected), Remains(j)'
          PROVE  j \in keys
      <3>1. mem[j].digest = NoDigest /\ Ours(cluster, j) /\ j \in Keys
        BY <1>2, <1>3, <2>3, InMemory DEF Remains
      <3>2. mem[j].phase \in ObsoletePhases /\ mem[j].phase # ""
        BY <1>6, <3>1 DEF PhasesTell, IndInv, TrackedInv, Covers
      <3> QED
        BY <3>2 DEF ObsoletePhases, keys
    <2> QED
      BY <1>2, <1>3, <2>1, <2>2, <2>3 DEF DeleteInv, NoWave
  <1> QED
    BY <1>2, <1>3, <1>4, <1>5, <1>7 DEF CallInv, ApplyInv, DoneMeansSynced, ReturnsDone

\* The instances of types in a wave of deletions are looked for when it begins.
LEMMA BeginDeleteWaveCall ==
  ASSUME IndInv, CallInv, BeginDeleteWave
  PROVE  CallInv'
  <1>1. /\ CallFrame /\ pc = "delete" /\ wave = NoWave /\ UNCHANGED <<cluster, historyVars>>
        /\ UNCHANGED <<mem, pc, todo, waiting, cur, seen, fresh, step, result>>
    BY DEF BeginDeleteWave, InCall, CallFrame, Locally, historyVars, cursorVars
  <1>2. /\ saved' = saved /\ op' = op /\ rev' = rev /\ component' = component
        /\ spoiled' = spoiled /\ cluster' = cluster
        /\ released' = released /\ resurrected' = resurrected
    BY <1>1 DEF CallFrame, callVars, componentVars, historyVars
  <1>3. step = "read"
    BY <1>1 DEF IndInv, CursorInv
  <1>4. PICK k \in todo :
          /\ \A j \in todo : mem[k].deleteOrder =< mem[j].deleteOrder
          /\ wave' = mem[k].deleteOrder
          /\ blockers' = IF ManagedIn(mem[k].deleteOrder) = {} THEN {} ELSE {"managed"}
    BY DEF BeginDeleteWave
  <1>5. DigestInv' /\ RevivedInv'
    BY <1>1, BetweenKeys
  <1>6. PhaseInv'
    BY <1>1, <1>2 DEF CallInv, PhaseInv, Applying, ReturnsDone
  <1>7. DeleteInv'
    <2>1. op = "apply" => /\ \A j \in todo : mem[j].digest = NoDigest
                          /\ Purged(rev)' /\ \A j \in Rendered(rev) : Settled(j)'
      BY <1>1, <1>2 DEF CallInv, DeleteInv, Purged, Settled, InSync
    <2>2. ASSUME NEW j \in DOMAIN mem \ (released \cup resurrected), Remains(j)',
                 blockers' = {}, mem[j].deleteOrder = wave'
          PROVE  ~ Managed(mem, j)
      <3>1. j \notin ManagedIn(mem[k].deleteOrder)
        BY <1>4, <2>2
      <3>2. ASSUME op = "apply"
            PROVE  mem[j].phase \in {"ScheduledForDeletion", "Deleting"}
        <4>1. mem[j].digest = NoDigest /\ Ours(cluster, j) /\ j \in Keys
          BY <1>1, <1>2, <2>2, <3>2, InMemory DEF Remains
        <4>2. mem[j].phase \in ObsoletePhases /\ mem[j].phase # ""
          BY <3>2, <4>1 DEF CallInv, PhaseInv, PhasesTell, IndInv, TrackedInv, Covers
        <4> QED
          BY <4>2 DEF ObsoletePhases
      <3> QED
        BY <1>4, <2>2, <3>1, <3>2 DEF ManagedIn
    <2>3. ASSUME NEW j \in DOMAIN mem \ (released \cup resurrected), Remains(j)'
          PROVE  j \in todo
      BY <1>1, <1>2, <2>3 DEF CallInv, DeleteInv, Remains
    <2> QED
      BY <1>1, <1>2, <1>3, <1>4, <2>1, <2>2, <2>3 DEF DeleteInv, Managed
  <1> QED
    BY <1>1, <1>2, <1>5, <1>6, <1>7
    DEF CallInv, ApplyInv, DoneMeansSynced, ReturnsDone

\* What is dropped from the inventory has no phase.
LEMMA RemainingTells ==
  ASSUME IndInv
  PROVE  /\ PhasesTell(mem) => PhasesTell(Remaining)
         /\ \A k : NotCompleted(mem, k) => NotCompleted(Remaining, k)
         /\ \A k \in DOMAIN mem : mem[k].phase # "" =>
                k \in DOMAIN Remaining /\ Remaining[k] = mem[k]
         /\ \A k \in DOMAIN Remaining : k \in DOMAIN mem /\ Remaining[k] = mem[k]
  BY DEF Remaining, PhasesTell, NotCompleted

\* A wave of deletions that nothing has to wait for has left nothing behind.
LEMMA EndDeleteWaveCall ==
  ASSUME IndInv, CallInv, EndDeleteWave
  PROVE  CallInv'
  <1>1. /\ CallFrame /\ pc = "delete" /\ wave # NoWave /\ cur = NoKey
        /\ UNCHANGED <<cluster, historyVars>> /\ step = "read"
        /\ \A k \in todo : mem[k].deleteOrder # wave
    BY DEF EndDeleteWave, InCall, CallFrame, IndInv, CursorInv
  <1>2. /\ saved' = saved /\ op' = op /\ rev' = rev /\ component' = component
        /\ spoiled' = spoiled /\ cluster' = cluster /\ revived' = revived
        /\ released' = released /\ resurrected' = resurrected
    BY <1>1 DEF CallFrame, callVars, componentVars, historyVars
  <1>3. CASE mem' = Remaining /\ Return("again")
    <2>1. op = "apply" => PhasesTell(mem')
      BY <1>3, RemainingTells DEF CallInv, PhaseInv
    <2>2. DigestInv'
      <3>1. Digested(cluster') /\ seen' = Absent
        BY <1>2, <1>3 DEF CallInv, DigestInv, Digested, Return
      <3> QED
        BY <3>1, DigestsKept DEF CallInv
    <2>3. RevivedInv'
      BY <1>2, <1>3, RemainingTells DEF CallInv, RevivedInv
    <2> QED
      BY <1>1, <1>3, <2>1, <2>2, <2>3, ReturnCall
  <1>4. CASE ~ waiting /\ Enter("delete", todo)
    <2>1. /\ pc' = "delete" /\ todo' = todo /\ wave' = NoWave /\ mem' = mem
          /\ seen' = seen /\ step' = "read" /\ result' = result
      BY <1>1, <1>4 DEF Enter, cursorVars
    <2>2. DigestInv' /\ RevivedInv'
      BY <1>1, <2>1, BetweenKeys
    <2>3. PhaseInv'
      BY <1>1, <1>2, <2>1 DEF CallInv, PhaseInv, Applying, ReturnsDone
    <2>4. DeleteInv'
      <3>1. op = "apply" => /\ \A j \in todo : mem[j].digest = NoDigest
                            /\ Purged(rev)' /\ \A j \in Rendered(rev) : Settled(j)'
        BY <1>1, <1>2, <2>1 DEF CallInv, DeleteInv, Purged, Settled, InSync
      <3>2. ASSUME NEW j \in DOMAIN mem \ (released \cup resurrected), Remains(j)'
            PROVE  j \in todo
        BY <1>1, <1>2, <1>4, <2>1, <3>2 DEF CallInv, DeleteInv, Remains
      <3> QED
        BY <1>2, <2>1, <3>1, <3>2 DEF DeleteInv, NoWave
    <2> QED
      BY <1>2, <2>1, <2>2, <2>3, <2>4
      DEF CallInv, ApplyInv, DoneMeansSynced, ReturnsDone
  <1> QED
    BY <1>3, <1>4 DEF EndDeleteWave

\* When Apply succeeds, what is rendered is settled, and nothing else remains.
LEMMA DeleteDoneCall ==
  ASSUME IndInv, CallInv, DeleteDone
  PROVE  CallInv'
  <1>1. /\ CallFrame /\ pc = "delete" /\ wave = NoWave /\ todo = {}
        /\ UNCHANGED <<cluster, historyVars>> /\ mem' = Remaining
    BY DEF DeleteDone, InCall, CallFrame
  <1>2. PICK r \in {"done", "again"} : Return(r)
    BY DEF DeleteDone
  <1>3. /\ saved' = saved /\ op' = op /\ rev' = rev /\ component' = component
        /\ spoiled' = spoiled /\ cluster' = cluster /\ revived' = revived
        /\ released' = released /\ resurrected' = resurrected
    BY <1>1 DEF CallFrame, callVars, componentVars, historyVars
  <1>4. /\ pc' = "save" /\ wave' = NoWave /\ seen' = Absent
    BY <1>2 DEF Return
  <1>5. DigestInv'
    <2>1. Digested(cluster')
      BY <1>3 DEF CallInv, DigestInv, Digested
    <2> QED
      BY <1>4, <2>1, DigestsKept DEF CallInv
  <1>6. RevivedInv'
    BY <1>1, <1>3, RemainingTells DEF CallInv, RevivedInv
  <1>7. ASSUME op = "apply"
        PROVE  /\ Applying /\ Matches(mem, rev)
               /\ \A k \in Rendered(rev) :
                     k \in DOMAIN Remaining /\ Remaining[k] = mem[k]
    <2>1. Applying /\ Matches(mem, rev) /\ Rendered(rev) \subseteq DOMAIN mem
      BY <1>1, <1>7 DEF CallInv, PhaseInv, Applying, Matches
    <2>2. \A k \in Rendered(rev) : mem[k].phase # ""
      BY <2>1, PhaseOfItem DEF ObsoletePhases
    <2> QED
      BY <2>1, <2>2, RemainingTells
  <1>8. PhaseInv'
    <2>1. op = "apply" => PhasesTell(mem') /\ PhasesTell(saved')
      BY <1>1, <1>3, RemainingTells DEF CallInv, PhaseInv
    <2>2. op = "apply" => Matches(mem', rev)
      BY <1>1, <1>7, RemainingTells DEF Matches
    <2>3. op # "apply" => component' # "live"
      BY <1>3 DEF CallInv, PhaseInv
    <2> QED
      BY <1>3, <1>4, <2>1, <2>2, <2>3 DEF PhaseInv, Applying, ReturnsDone
  <1>9. DoneMeansSynced'
    <2> SUFFICES ASSUME op = "apply", NEW k \in Keys
                 PROVE  IF k \in Rendered(rev)
                        THEN IF IsPurged(rev, k) THEN mem'[k].phase = "Completed"
                                                 ELSE Settled(k)'
                        ELSE Ours(cluster, k) => k \in released \cup resurrected
      BY <1>3 DEF DoneMeansSynced, ReturnsDone
    <2>1. CASE k \in Rendered(rev)
      <3>1. Purged(rev) /\ Settled(k) /\ mem'[k] = mem[k]
        BY <1>1, <1>7, <2>1 DEF CallInv, DeleteInv
      <3> QED
        BY <1>3, <2>1, <3>1 DEF Purged, Settled, InSync
    <2>2. CASE k \notin Rendered(rev)
      <3> SUFFICES ASSUME Ours(cluster, k), k \notin released \cup resurrected
                   PROVE  FALSE
        BY <2>2
      <3>1. k \in DOMAIN mem
        BY DEF IndInv, TrackedInv, Covers
      <3>2. Remains(k)
        BY <1>7, <2>2, <3>1 DEF Remains, Matches
      <3> QED
        BY <1>1, <3>1, <3>2 DEF CallInv, DeleteInv
    <2> QED
      BY <2>1, <2>2
  <1> QED
    BY <1>3, <1>4, <1>5, <1>6, <1>8, <1>9 DEF CallInv, ApplyInv, DeleteInv

-----------------------------------------------------------------------------
(* The beginning and the end of a call *)

\* The prepared inventory tells what the manifest renders, with phases to match.
LEMMA TargetTells ==
  ASSUME NEW inv, IsInventory(inv), PhasesTell(inv), NEW r \in Revisions
  PROVE  /\ PhasesTell(Target(inv, r)) /\ Matches(Target(inv, r), r)
         /\ \A k : NotCompleted(inv, k) => NotCompleted(Target(inv, r), k)
         /\ \A k \in DOMAIN Target(inv, r) :
               Target(inv, r)[k].phase = "Ready" =>
                  k \in DOMAIN inv /\ inv[k].phase = "Ready" /\ inv[k].digest = Digest(r, k)
  <1> DEFINE T == Target(inv, r)
  <1>1. DOMAIN T = DOMAIN inv \cup Rendered(r)
    BY DEF Target
  <1>2. ASSUME NEW k \in Rendered(r)
        PROVE  /\ T[k].digest = Digest(r, k) /\ T[k].phase \notin ObsoletePhases
               /\ \/ T[k].phase = "ScheduledForApplication"
                  \/ /\ k \in DOMAIN inv /\ inv[k].digest = Digest(r, k)
                     /\ T[k].phase = inv[k].phase
    <2>1. T[k] = Renewed(inv, r, k)
      BY DEF Target
    <2>2. /\ T[k].digest = Digest(r, k)
          /\ \/ T[k].phase = "ScheduledForApplication"
             \/ /\ k \in DOMAIN inv /\ inv[k].digest = Digest(r, k)
                /\ T[k].phase = inv[k].phase
      BY <2>1 DEF Renewed
    <2>3. Digest(r, k) # NoDigest
      BY RenderedDigest
    <2> QED
      BY <2>2, <2>3 DEF PhasesTell, ObsoletePhases
  <1>3. ASSUME NEW k \in DOMAIN inv \ Rendered(r)
        PROVE  /\ T[k].digest = NoDigest /\ T[k].phase \in ObsoletePhases
    <2>1. T[k] = Obsolete(inv[k]) /\ inv[k] \in Items
      BY DEF Target, IsInventory
    <2> QED
      BY <2>1 DEF Obsolete, Items, PhasesTell, ObsoletePhases
  <1> HIDE DEF T
  <1>4. PhasesTell(T)
    <2>1. \A k \in Rendered(r) : Digest(r, k) # NoDigest
      BY RenderedDigest
    <2> QED
      BY <1>1, <1>2, <1>3, <2>1 DEF PhasesTell
  <1>5. Matches(T, r)
    BY <1>1, <1>2, <1>3 DEF Matches
  <1>6. ASSUME NEW k, NotCompleted(inv, k)
        PROVE  NotCompleted(T, k)
    BY <1>1, <1>2, <1>3, <1>6 DEF NotCompleted, ObsoletePhases
  <1>7. \A k \in DOMAIN T : T[k].phase = "Ready" =>
           k \in DOMAIN inv /\ inv[k].phase = "Ready" /\ inv[k].digest = Digest(r, k)
    BY <1>1, <1>2, <1>3 DEF ObsoletePhases
  <1> QED
    BY <1>4, <1>5, <1>6, <1>7 DEF T

\* The preparation of the inventory keeps the invariant.
LEMMA PlanCall ==
  ASSUME IndInv, CallInv, PlanRejected \/ PlanExtended \/ PlanAccepted
  PROVE  CallInv'
  <1>1. /\ component = "live" /\ pc = "idle" /\ Load("apply") /\ step = "read"
        /\ wave' = wave /\ mem' \in {saved, Planned}
        /\ \/ pc' = "save" /\ result' # "done"
           \/ pc' = "namespaces" /\ mem' = Planned
    BY IdleCursor DEF PlanRejected, PlanExtended, PlanAccepted, Load, waveVars
  <1>2. /\ op' = "apply" /\ rev' = manifest /\ cluster' = cluster /\ component' = component
        /\ saved' = saved /\ seen' = seen /\ revived' = revived /\ spoiled' = spoiled
    BY <1>1 DEF Load, cursorVars
  <1>3. manifest \in Revisions /\ IsInventory(saved) /\ PhasesTell(saved)
    BY <1>1 DEF IndInv, StateTypeOK, CallInv, PhaseInv
  <1>4. /\ PhasesTell(Planned) /\ Matches(Planned, manifest)
        /\ \A k : NotCompleted(saved, k) => NotCompleted(Planned, k)
        /\ \A k \in DOMAIN Planned :
              Planned[k].phase = "Ready" =>
                 /\ k \in DOMAIN saved /\ saved[k].phase = "Ready"
                 /\ saved[k].digest = Digest(manifest, k)
    BY <1>3, TargetTells DEF Planned
  <1>5. PhaseInv'
    <2>1. PhasesTell(saved') /\ PhasesTell(mem')
      BY <1>1, <1>2, <1>3, <1>4
    <2>2. pc' = "namespaces" =>
            /\ Matches(mem', rev')
            /\ \A k \in DOMAIN mem' : mem'[k].phase = "Ready" => ReadyBefore(k)'
      BY <1>1, <1>2, <1>4 DEF ReadyBefore
    <2> QED
      BY <1>1, <1>2, <2>1, <2>2 DEF PhaseInv, Applying, ReturnsDone
  <1>6. RevivedInv'
    BY <1>1, <1>2, <1>4 DEF CallInv, RevivedInv
  <1>7. DigestInv'
    BY <1>2 DEF CallInv, DigestInv
  <1>8. pc' \in {"idle", "save"} => wave' = NoWave
    BY <1>1 DEF CallInv
  <1> QED
    BY <1>1, <1>2, <1>5, <1>6, <1>7, <1>8
    DEF CallInv, ApplyInv, DeleteInv, DoneMeansSynced, ReturnsDone, NoWave

\* The start of Delete keeps the invariant: everything is to be handled.
LEMMA StartDeleteCall ==
  ASSUME IndInv, CallInv, StartDelete
  PROVE  CallInv'
  <1>1. /\ component = "deleting" /\ pc = "idle" /\ Load("delete") /\ step = "read"
        /\ mem' = saved /\ pc' = "delete" /\ todo' = DOMAIN saved /\ wave' = wave
    BY IdleCursor DEF StartDelete, Load
  <1>2. /\ op' = "delete" /\ cluster' = cluster /\ component' = component
        /\ saved' = saved /\ seen' = seen /\ revived' = revived /\ spoiled' = spoiled
        /\ step' = "read"
    BY <1>1 DEF Load, cursorVars
  <1>3. wave = NoWave
    BY <1>1 DEF CallInv
  <1>4. RevivedInv' /\ DigestInv'
    BY <1>1, <1>2 DEF CallInv, RevivedInv, DigestInv
  <1>5. PhaseInv'
    BY <1>1, <1>2 DEF PhaseInv, Applying, ReturnsDone
  <1>6. DeleteInv'
    BY <1>1, <1>2, <1>3 DEF DeleteInv, NoWave
  <1> QED
    BY <1>1, <1>2, <1>4, <1>5, <1>6
    DEF CallInv, ApplyInv, DoneMeansSynced, ReturnsDone

\* The end of a round, saved, lost, final or by a crash, keeps the invariant.
LEMMA EndOfCall ==
  ASSUME IndInv, CallInv, Save \/ SaveLost \/ Finish \/ Crash
  PROVE  CallInv'
  <1>1. /\ pc' = "idle" /\ cluster' = cluster /\ op' = op /\ spoiled' = {}
        /\ mem' = saved'
        /\ \/ saved' = mem /\ pc = "save"
           \/ saved' = saved
        /\ component' = component \/ component' = "gone"
        /\ seen' \in {seen, Absent}
    BY DEF Save, SaveLost, Finish, Crash, BackToIdle, cursorVars
  <1>2. wave' = NoWave
    <2>1. CASE Crash
      BY <2>1 DEF Crash
    <2>2. CASE pc = "save" /\ wave' = wave
      BY <2>2 DEF CallInv
    <2> QED
      BY <2>1, <2>2 DEF Save, SaveLost, Finish, BackToIdle, waveVars
  <1>3. PhaseInv'
    <2>1. op = "apply" => PhasesTell(saved) /\ PhasesTell(mem)
      BY DEF CallInv, PhaseInv
    <2>2. op # "apply" => component' # "live"
      BY <1>1 DEF CallInv, PhaseInv
    <2> QED
      BY <1>1, <2>1, <2>2 DEF PhaseInv, Applying, ReturnsDone
  <1>4. DigestInv'
    <2>1. Digested(cluster')
      BY <1>1 DEF CallInv, DigestInv, Digested
    <2> QED
      BY <1>1, <2>1, DigestsKept DEF CallInv
  <1>5. RevivedInv'
    <2>1. ASSUME revived' = revived
          PROVE  RevivedInv'
      BY <1>1, <2>1 DEF CallInv, RevivedInv
    <2>2. CASE Save
      <3> DEFINE K == {k \in revived : /\ Ours(cluster, k)
                                       /\ k \in DOMAIN mem /\ mem[k].phase = "Completed"}
      <3>1. revived' = K /\ saved' = mem /\ mem' = mem
        BY <2>2 DEF Save
      <3>2. \A k \in Keys \ K : Ours(cluster, k) => NotCompleted(mem, k)
        BY DEF CallInv, RevivedInv, NotCompleted
      <3>3. K \subseteq Keys
        BY DEF CallInv, RevivedInv
      <3> HIDE DEF K
      <3> QED
        BY <1>1, <3>1, <3>2, <3>3 DEF RevivedInv
    <2> QED
      BY <2>1, <2>2 DEF SaveLost, Finish, Crash, historyVars
  <1> QED
    BY <1>1, <1>2, <1>3, <1>4, <1>5
    DEF CallInv, ApplyInv, DeleteInv, DoneMeansSynced, ReturnsDone

-----------------------------------------------------------------------------
(* Around the calls *)

\* What happens elsewhere keeps the invariant: it makes no object ours, and what it
\* changes of the objects that are in sync is noted.
LEMMA ElsewhereCall ==
  ASSUME IndInv, CallInv, IndInv', NEW c, Elsewhere(c), Digested(c),
         \A k \in Keys : Ours(c, k) => Ours(cluster, k)
  PROVE  CallInv'
  <1>1. /\ cluster' = c /\ step' = step /\ seen' = seen /\ cur' = cur
        /\ UNCHANGED <<op, rev, pc, todo, wave, blockers, waiting, result, component>>
        /\ saved' = saved /\ mem' = mem
        /\ UNCHANGED <<released, resurrected, revived>>
    BY DEF Elsewhere, componentVars, waveVars, historyVars
  <1> DEFINE New == {k \in Rendered(rev) :
                       /\ pc # "idle" /\ op = "apply"
                       /\ AsRendered(cluster[k], rev, k) /\ ~ AsRendered(c[k], rev, k)}
  <1>2. spoiled' = spoiled \cup New
    BY DEF Elsewhere
  <1>3. Rendered(rev) \subseteq Keys
    BY ManifestAssumption DEF IndInv, StateTypeOK
  <1>4. \A k \in Rendered(rev) :
           op = "apply" /\ pc # "idle" /\ InSync(rev, k) => InSync(rev, k)' \/ k \in New
    BY <1>1 DEF InSync
  <1>5. New \subseteq Keys
    BY <1>3
  <1> HIDE DEF New
  <1>6. DigestInv'
    BY <1>1, DigestsKept DEF CallInv
  <1>7. Similar(saved, saved') /\ Similar(mem, mem')
    BY <1>1, SelfSimilar DEF Similar
  <1>8. /\ spoiled \subseteq spoiled' /\ spoiled' \subseteq Keys
        /\ revived \subseteq revived' /\ revived' \subseteq Keys
    BY <1>1, <1>2, <1>5 DEF CallInv, RevivedInv
  <1>9. step' # "read" =>
           /\ pc = "apply" => ApplyOrder(rev, cur') = wave /\ ~ Skipped(cur')
           /\ pc = "delete" => mem[cur'].deleteOrder = wave
    BY <1>1 DEF CallInv, ApplyInv, ApplyOrderInv, DeleteInv
  <1>10. step' = "act" /\ pc = "apply" /\ AsRendered(seen', rev, cur') =>
           InSync(rev, cur)' \/ cur' \in spoiled'
    <2> SUFFICES ASSUME step = "act", pc = "apply", AsRendered(seen, rev, cur)
                 PROVE  InSync(rev, cur)' \/ cur' \in spoiled'
      BY <1>1
    <2>1. cur \in Rendered(rev) /\ op = "apply"
      BY DEF IndInv, CursorInv, CallInv, PhaseInv
    <2>2. InSync(rev, cur) \/ cur \in spoiled
      BY DEF CallInv, ApplyInv
    <2>3. InSync(rev, cur) => InSync(rev, cur)' \/ cur \in New
      BY <1>1, <1>4, <2>1 DEF InSync
    <2> QED
      BY <1>1, <1>2, <2>2, <2>3
  <1>11. \A k \in Rendered(rev) :
           op = "apply" /\ pc # "idle" /\ InSync(rev, k) => InSync(rev, k)' \/ k \in spoiled'
    BY <1>2, <1>4
  <1>12. \A k \in Keys : Ours(cluster', k) => Ours(cluster, k)
    BY <1>1
  <1> QED
    BY <1>1, <1>6, <1>7, <1>8, <1>9, <1>10, <1>11, <1>12, AroundCall

\* The passing of time and changes of the component touch nothing that counts.
LEMMA AsideCall ==
  ASSUME IndInv, CallInv, IndInv', Similar(saved, saved'), Similar(mem, mem'),
         UNCHANGED <<cluster, callVars, pc, waveVars, cursorVars, result, historyVars>>,
         component # "live" => component' # "live"
  PROVE  CallInv'
  <1>1. /\ cluster' = cluster /\ step' = step /\ seen' = seen /\ cur' = cur
        /\ spoiled' = spoiled /\ revived' = revived
        /\ UNCHANGED <<op, rev, pc, todo, wave, blockers, waiting, result>>
        /\ UNCHANGED <<released, resurrected>>
    BY DEF callVars, waveVars, cursorVars, historyVars
  <1>2. DigestInv'
    BY <1>1 DEF CallInv, DigestInv
  <1>3. spoiled \subseteq Keys /\ revived \subseteq Keys
    BY DEF CallInv, RevivedInv
  <1>4. /\ step' # "read" =>
              /\ pc = "apply" => ApplyOrder(rev, cur') = wave /\ ~ Skipped(cur')
              /\ pc = "delete" => mem[cur'].deleteOrder = wave
        /\ step' = "act" /\ pc = "apply" /\ AsRendered(seen', rev, cur') =>
              InSync(rev, cur)' \/ cur' \in spoiled'
    BY <1>1 DEF CallInv, ApplyInv, ApplyOrderInv, DeleteInv, InSync
  <1>5. /\ \A k \in Rendered(rev) : InSync(rev, k) => InSync(rev, k)'
        /\ \A k \in Keys : Ours(cluster', k) => Ours(cluster, k)
    BY <1>1 DEF InSync
  <1> QED
    BY <1>1, <1>2, <1>3, <1>4, <1>5, AroundCall

\* What happens elsewhere to the objects makes none of them ours, and leaves only ours
\* with a digest.
LEMMA ElsewhereEffect ==
  ASSUME IndInv, Digested(cluster), NEW k \in Keys,
         NEW b \in BOOLEAN, NEW o \in {"none", "other"},
         NEW c \in {[cluster EXCEPT ![k].ready = b], Collect(cluster, k),
                    MarkDeleting(cluster, k), Put(cluster, k, o, NoDigest, FALSE),
                    [cluster EXCEPT ![k].owner = o, ![k].digest = NoDigest]}
  PROVE  Digested(c) /\ \A j \in Keys : Ours(c, j) => Ours(cluster, j)
  <1>1. cluster \in [Keys -> Objects]
    BY SameCluster
  <1>2. Absent.exists = FALSE
    BY DEF Absent
  <1>3. ASSUME NEW j \in Keys
        PROVE  \/ c[j] = cluster[j]
               \/ ~ c[j].exists
               \/ c[j].owner = o /\ c[j].digest = NoDigest
               \/ /\ c[j].exists = cluster[j].exists /\ c[j].owner = cluster[j].owner
                  /\ c[j].digest = cluster[j].digest
    <2>1. CASE c = Collect(cluster, k)
      BY <1>2, <2>1 DEF Collect
    <2>2. CASE c = Put(cluster, k, o, NoDigest, FALSE)
      BY <1>1, <2>2 DEF Put
    <2>3. CASE c = [cluster EXCEPT ![k].ready = b] \/ c = MarkDeleting(cluster, k)
      BY <1>1, <2>3 DEF MarkDeleting, Objects
    <2>4. CASE c = [cluster EXCEPT ![k].owner = o, ![k].digest = NoDigest]
      BY <1>1, <2>4 DEF Objects
    <2> QED
      BY <2>1, <2>2, <2>3, <2>4
  <1> QED
    BY <1>3 DEF Digested, Ours

\* An item that ages differs in nothing else.
LEMMA AgedSimilar ==
  ASSUME NEW inv, IsInventory(inv), NEW k
  PROVE  Similar(inv, Aged(inv, k))
  <1>1. CASE k \in DOMAIN inv
    <2> DEFINE aged == Aged(inv, k)
    <2>1. /\ aged = [inv EXCEPT ![k].applied = FALSE]
          /\ \A j \in DOMAIN inv : inv[j] \in Items
      BY <1>1 DEF Aged, IsInventory
    <2>2. /\ DOMAIN aged = DOMAIN inv
          /\ \A j \in DOMAIN inv \ {k} : aged[j] = inv[j]
      BY <2>1 DEF IsInventory
    <2>3. aged[k] = [inv[k] EXCEPT !.applied = FALSE]
      BY <1>1, <2>1
    <2>4. /\ aged[k].phase = inv[k].phase /\ aged[k].digest = inv[k].digest
          /\ aged[k].deleteOrder = inv[k].deleteOrder
      BY <1>1, <2>1, <2>3 DEF Items
    <2> HIDE DEF aged
    <2>5. Similar(inv, aged)
      BY <2>2, <2>4 DEF Similar, SimilarBut
    <2> QED
      BY <2>5 DEF aged
  <1>2. CASE k \notin DOMAIN inv
    BY <1>2 DEF Aged, Similar, SimilarBut
  <1> QED
    BY <1>1, <1>2

\* What the cluster, others and the users do keeps the invariant.
LEMMA EnvironmentCall ==
  ASSUME IndInv, CallInv, IndInv', Environment
  PROVE  CallInv'
  <1>1. Digested(cluster) /\ IsInventory(saved) /\ IsInventory(mem)
    BY DEF CallInv, DigestInv, Digested, IndInv, StateTypeOK
  <1>2. ASSUME NEW k \in Keys,
               BecomeReady(k) \/ Flicker(k) \/ FinishDeletion(k) \/ CascadeDeletion(k)
               \/ ForeignDelete(k)
        PROVE  CallInv'
    <2>1. PICK b \in BOOLEAN :
             \/ Elsewhere([cluster EXCEPT ![k].ready = b])
             \/ Elsewhere(Collect(cluster, k))
             \/ Elsewhere(MarkDeleting(cluster, k))
      BY <1>2 DEF BecomeReady, Flicker, FinishDeletion, CascadeDeletion, ForeignDelete
    <2>2. PICK c \in {[cluster EXCEPT ![k].ready = b], Collect(cluster, k),
                      MarkDeleting(cluster, k)} : Elsewhere(c)
      BY <2>1
    <2>3. Digested(c) /\ \A j \in Keys : Ours(c, j) => Ours(cluster, j)
      BY <1>1, <2>2, ElsewhereEffect
    <2> QED
      BY <2>2, <2>3, ElsewhereCall
  <1>3. ASSUME NEW k \in Keys, NEW o \in {"none", "other"},
               ForeignCreate(k, o) \/ Takeover(k, o)
        PROVE  CallInv'
    <2>1. PICK c \in {Put(cluster, k, o, NoDigest, FALSE),
                      [cluster EXCEPT ![k].owner = o, ![k].digest = NoDigest]} :
             Elsewhere(c)
      BY <1>3 DEF ForeignCreate, Takeover
    <2>2. Digested(c) /\ \A j \in Keys : Ours(c, j) => Ours(cluster, j)
      <3>1. TRUE \in BOOLEAN
        OBVIOUS
      <3>2. c \in {[cluster EXCEPT ![k].ready = TRUE], Collect(cluster, k),
                   MarkDeleting(cluster, k), Put(cluster, k, o, NoDigest, FALSE),
                   [cluster EXCEPT ![k].owner = o, ![k].digest = NoDigest]}
        BY <2>1
      <3> QED
        BY <1>1, <3>1, <3>2, ElsewhereEffect
    <2> QED
      BY <2>1, <2>2, ElsewhereCall
  <1>4. ASSUME NEW k \in Keys, Expire(k)
        PROVE  CallInv'
    <2>1. Similar(saved, saved') /\ Similar(mem, mem')
      BY <1>1, <1>4, AgedSimilar DEF Expire
    <2> QED
      BY <1>4, <2>1, AsideCall DEF Expire, componentVars
  <1>5. ASSUME NEW state, NEW r, ChangeComponent(state, r)
        PROVE  CallInv'
    <2>1. Similar(saved, saved') /\ Similar(mem, mem')
      BY <1>5, SelfSimilar DEF ChangeComponent, Similar
    <2> QED
      BY <1>5, <2>1, AsideCall DEF ChangeComponent
  <1> QED
    BY <1>2, <1>3, <1>4, <1>5 DEF Environment, Edit, DeleteComponent

-----------------------------------------------------------------------------
(* The theorems *)

\* The invariant holds before the first call.
LEMMA InitCallInv == Init => CallInv
  <1> SUFFICES ASSUME Init PROVE CallInv
    OBVIOUS
  <1>1. DOMAIN saved = {} /\ DOMAIN mem = {}
    BY DEF Init, EmptyInventory
  <1>2. \A k \in Keys : cluster[k].owner # "me" /\ cluster[k].digest = NoDigest
    <2>1. \A object \in Unowned : object.owner # "me" /\ object.digest = NoDigest
      <3>1. Absent.owner = "none" /\ Absent.digest = NoDigest
        BY DEF Absent
      <3>2. \A x \in {"none", "other"} :
               /\ [Absent EXCEPT !.exists = TRUE, !.owner = x].owner = x
               /\ [Absent EXCEPT !.exists = TRUE, !.owner = x].digest = NoDigest
        BY DEF Absent
      <3> QED
        BY <3>1, <3>2 DEF Unowned
    <2>2. cluster \in [Keys -> Unowned]
      BY DEF Init
    <2> QED
      BY <2>1, <2>2
  <1>3. DigestInv /\ RevivedInv
    BY <1>2 DEF Init, DigestInv, RevivedInv, Ours, Absent
  <1>4. PhaseInv
    BY <1>1 DEF Init, PhaseInv, PhasesTell, Applying, ReturnsDone
  <1> QED
    BY <1>3, <1>4 DEF Init, CallInv, ApplyInv, DeleteInv, DoneMeansSynced, ReturnsDone

\* Every step keeps the invariant.
LEMMA NextCallInv == IndInv /\ CallInv /\ [Next]_vars => CallInv'
  <1> SUFFICES ASSUME IndInv, CallInv, [Next]_vars PROVE CallInv'
    OBVIOUS
  <1>1. IndInv'
    BY NextIndInv
  <1>2. CASE Apply
    BY <1>1, <1>2, PlanCall, NamespacesCall, FirstStagesCall, CompletionCall,
       BeginApplyWaveCall, SkipObjectCall, ApplyObjectCall, EndApplyWaveCall, ApplyDoneCall
    DEF Apply
  <1>3. CASE Delete
    BY <1>1, <1>3, StartDeleteCall, BeginDeleteWaveCall, DeleteObjectCall,
       EndDeleteWaveCall, DeleteDoneCall
    DEF Delete
  <1>4. CASE Reconcile
    BY <1>1, <1>2, <1>3, <1>4, ReadObjectCall, FinalizeTypeCall, EndOfCall DEF Reconcile
  <1>5. CASE UNCHANGED vars
    <2>1. Similar(saved, saved') /\ Similar(mem, mem')
      BY <1>5, SelfSimilar DEF vars, Similar
    <2> QED
      BY <1>1, <1>5, <2>1, AsideCall DEF vars, componentVars
  <1> QED
    BY <1>1, <1>4, <1>5, EndOfCall, EnvironmentCall DEF Next

\* The invariant of the calls holds in every reachable state.
THEOREM CallInvariant == Spec => [](IndInv /\ CallInv)
  BY InitIndInv, InitCallInv, NextIndInv, NextCallInv, PTL DEF Spec

\* Every variable keeps its type.
THEOREM TypeCorrectness == Spec => []TypeOK
  <1>1. IndInv /\ CallInv /\ TypesInv => TypeOK
    BY DEF IndInv, CallInv, RevivedInv, TypesInv, TypeOK
  <1> QED
    BY <1>1, CallInvariant, TypesInvariant, PTL

\* Apply returns success only when everything that is to be purged is completed, what
\* else is rendered is settled, and nothing is left that is not rendered.
THEOREM SuccessMeansSynced == Spec => []DoneMeansSynced
  <1>1. CallInv => DoneMeansSynced
    BY DEF CallInv
  <1> QED
    BY <1>1, CallInvariant, PTL

\* When Apply returns success, no object that is to be purged is there, unless it was
\* created again while the persisted inventory had it as completed.
THEOREM SuccessMeansPurged == Spec => []PurgedIsGone
  <1>1. IndInv /\ CallInv => PurgedIsGone
    <2> SUFFICES ASSUME IndInv, CallInv, ReturnsDone, NEW k \in Rendered(rev),
                        IsPurged(rev, k), Ours(cluster, k), k \notin revived
                 PROVE  FALSE
      BY DEF PurgedIsGone
    <2>1. k \in Keys
      BY ManifestAssumption DEF IndInv, StateTypeOK
    <2>2. k \in DOMAIN mem
      BY DEF CallInv, PhaseInv, Matches
    <2>3. mem[k].phase = "Completed"
      BY <2>1 DEF CallInv, DoneMeansSynced
    <2> QED
      BY <2>1, <2>2, <2>3 DEF CallInv, RevivedInv, NotCompleted
  <1> QED
    BY <1>1, CallInvariant, PTL

\* No object is created before all of lower apply order are settled.
THEOREM OrderOfCreations == Spec => AppliesInOrder
  <1>1. ASSUME IndInv, CallInv, NEW k \in Keys, Creates(k), NEW j \in Rendered(rev),
               ApplyOrder(rev, j) < ApplyOrder(rev, k)
        PROVE  Settled(j)
    <2>1. cur = k /\ pc = "apply" /\ step # "read" /\ cur \in todo /\ wave # NoWave
      BY <1>1, KeysAssumption DEF Creates, IndInv, CursorInv
    <2>2. ApplyOrder(rev, k) = wave /\ k \in Rendered(rev)
      BY <1>1, <2>1 DEF CallInv, ApplyInv, ApplyOrderInv, IndInv, CursorInv
    <2>3. /\ ApplyOrder(rev, j) \in Int /\ wave \in Int
      BY <1>1, <2>2, OrderTypes
    <2>4. ~ (wave =< ApplyOrder(rev, j)) /\ ApplyOrder(rev, j) # wave
      BY <1>1, <2>2, <2>3
    <2>5. j \notin todo
      BY <1>1, <2>1, <2>4 DEF CallInv, ApplyInv, ApplyOrderInv
    <2> QED
      BY <1>1, <2>1, <2>4, <2>5 DEF CallInv, ApplyInv
  <1>2. IndInv /\ CallInv =>
          [\A k \in Keys : Creates(k) =>
              \A j \in Rendered(rev) :
                  ApplyOrder(rev, j) < ApplyOrder(rev, k) => Settled(j)]_vars
    BY <1>1
  <1> QED
    BY <1>2, CallInvariant, PTL DEF Spec, AppliesInOrder

\* In a wave, APIServices are created after regular objects, and instances after what
\* their types may need to work.
THEOREM OrderInWave == Spec => InstancesLast
  <1>1. ASSUME IndInv, CallInv, NEW k \in Keys, Creates(k), NEW j \in Rendered(rev),
               ApplyOrder(rev, j) = ApplyOrder(rev, k),
               ~ IsRegular(mem, k), ~ Managed(mem, j),
               IsRegular(mem, j) \/ ~ IsLate(k)
        PROVE  Settled(j) \/ ReadyBefore(j)
    <2>1. cur = k /\ pc = "apply" /\ step # "read" /\ wave # NoWave
      BY <1>1, KeysAssumption DEF Creates, IndInv, CursorInv
    <2>2. ApplyOrder(rev, k) = wave /\ ~ HeldBack(k)
      BY <1>1, <2>1 DEF CallInv, ApplyInv, ApplyOrderInv, Skipped
    <2>3. \/ IsRegular(mem, j) /\ "regular" \notin blockers
          \/ IsLate(j) /\ "late" \notin blockers
      BY <1>1, <2>2 DEF HeldBack, IsRegular
    <2>4. mem[j].phase = "Completed" \/ ReadyBefore(j)
      BY <1>1, <2>1, <2>2, <2>3 DEF CallInv, ApplyInv, BlockersInv
    <2> QED
      BY <2>4 DEF Settled
  <1>2. IndInv /\ CallInv =>
          [\A k \in Keys : Creates(k) =>
              \A j \in Rendered(rev) :
                  /\ ApplyOrder(rev, j) = ApplyOrder(rev, k)
                  /\ ~ IsRegular(mem, k) /\ ~ Managed(mem, j)
                  /\ IsRegular(mem, j) \/ ~ IsLate(k)
                  => Settled(j) \/ ReadyBefore(j)]_vars
    BY <1>1
  <1> QED
    BY <1>2, CallInvariant, PTL DEF Spec, InstancesLast

\* In the delete stage, nothing but DeleteObject requests a deletion.
LEMMA DeletingAction ==
  ASSUME IndInv, [Next]_vars, NEW k \in Keys, pc = "delete", Deletes(k)
  PROVE  DeleteObject
  <1>1. /\ cur = k /\ step = "act" /\ step' # "act"
        /\ cluster'[k].deleting /\ ~ cluster[k].deleting
        /\ cluster \in [Keys -> Objects]
    BY SameCluster DEF Deletes
  <1>2. ~ OrphanObject
    <2> SUFFICES ASSUME OrphanObject PROVE FALSE
      OBVIOUS
    <2>1. cluster' = cluster \/ cluster' = DropFinalizer(cluster, k)
      BY <1>1 DEF OrphanObject, Request, Write, Refused, Locally
    <2>2. DropFinalizer(cluster, k)[k].deleting = cluster[k].deleting
      BY <1>1 DEF DropFinalizer, Objects
    <2> QED
      BY <1>1, <2>1, <2>2
  <1>3. ~ Environment
    <2>1. \A c : Elsewhere(c) => step' = step
      BY DEF Elsewhere
    <2>2. \A state, r : ChangeComponent(state, r) => step' = step
      BY DEF ChangeComponent, cursorVars
    <2>3. \A j : Expire(j) => step' = step
      BY DEF Expire, cursorVars
    <2>4. Environment => step' = step
      BY <2>1, <2>2, <2>3
         DEF Environment, BecomeReady, FinishDeletion, CascadeDeletion, ForeignCreate,
             Takeover, ForeignDelete, Flicker, Edit, DeleteComponent
    <2> QED
      BY <1>1, <2>4
  <1>4. ~ Apply
    BY DEF Apply, PlanRejected, PlanExtended, PlanAccepted, Load, CreateMissingNamespace,
       NamespacesDone, CompleteObject, CheckCompletion, CompletionsDone, BeginApplyWave,
       SkipObject, CreateObject, UpdateObject, RecreateObject, ObserveObject,
       EndApplyWave, ApplyDone, InCall, HaveRead
  <1>5. ~ (\/ UNCHANGED vars \/ Crash \/ \E j \in Keys : ReadObject(j)
           \/ StartDelete \/ BeginDeleteWave \/ CheckDeletion \/ PostponeObject
           \/ EndDeleteWave \/ DeleteDone
           \/ Save \/ SaveLost \/ Finish)
    <2> SUFFICES ASSUME cluster' = cluster PROVE FALSE
      BY DEF vars, Crash, ReadObject, StartDelete, Load, BeginDeleteWave, CheckDeletion,
         PostponeObject, EndDeleteWave, DeleteDone, Save, SaveLost, Finish, BackToIdle,
         Locally, Refused
    <2> QED
      BY <1>1
  <1>6. ~ (FinalizeType \/ ReleaseType)
    BY <1>1 DEF FinalizeType, ReleaseType
  <1> QED
    BY <1>2, <1>3, <1>4, <1>5, <1>6 DEF Next, Reconcile, Delete

\* Deletions follow the delete order, instances go before everything else of their
\* wave, and namespaces after their contents.
THEOREM OrderOfDeletions == Spec => DeletesInOrder
  <1>1. ASSUME IndInv, CallInv, [Next]_vars, NEW k \in Keys, pc = "delete", Deletes(k),
               NEW j \in DOMAIN mem \ (released \cup resurrected),
               op = "apply" => mem[j].digest = NoDigest, GoesBefore(j, k),
               Ours(cluster, j)
        PROVE  FALSE
    <2>1. DeleteObject
      BY <1>1, DeletingAction
    <2>2. cur = k /\ step # "read" /\ wave # NoWave /\ cur \in DOMAIN mem
      BY <1>1, InMemory DEF Deletes, IndInv, CursorInv
    <2>3. ~ UsedNamespace(mem, k) /\ (blockers = {} \/ Managed(mem, k))
      BY <2>1, <2>2 DEF DeleteObject, Postponed
    <2>4. mem[k].deleteOrder = wave
      BY <1>1, <2>2 DEF CallInv, DeleteInv
    <2>5. /\ j \in todo \/ mem[j].deleteOrder = wave
          /\ blockers = {} /\ mem[j].deleteOrder = wave => ~ Managed(mem, j)
          /\ j \in todo => wave =< mem[j].deleteOrder
      BY <1>1, <2>2 DEF CallInv, DeleteInv, Remains
    <2>6. ~ (mem[j].deleteOrder < mem[k].deleteOrder)
      <3>1. wave \in Int /\ mem[j].deleteOrder \in Int
        BY <1>1, <2>2, OrderTypes
      <3> QED
        BY <2>4, <2>5, <3>1
    <2>7. NamespaceOf[j] # k
      <3>1. j \in Keys
        BY <1>1, InMemory
      <3>2. NamespaceOf[j] = k => Kind[k] = "Namespace"
        BY <3>1, KeysAssumption, NamespaceAssumption
      <3> QED
        BY <2>3, <3>2 DEF UsedNamespace, IsNamespace
    <2> QED
      BY <1>1, <2>3, <2>4, <2>5, <2>6, <2>7 DEF GoesBefore
  <1>2. IndInv /\ CallInv /\ [Next]_vars =>
          [\A k \in Keys : pc = "delete" /\ Deletes(k) =>
              \A j \in DOMAIN mem \ (released \cup resurrected) :
                  (op = "apply" => mem[j].digest = NoDigest) /\ GoesBefore(j, k)
                      => ~ Ours(cluster, j)]_vars
    BY <1>1
  <1> QED
    BY <1>2, CallInvariant, PTL DEF Spec, DeletesInOrder
=============================================================================
