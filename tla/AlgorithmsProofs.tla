--------------------------- MODULE AlgorithmsProofs ---------------------------
(***************************************************************************)
(* Proofs about Algorithms: the properties of hooks, of the analysis of    *)
(* the status, of references, of managed fields, of the tags and           *)
(* conditions of subcharts, and of their values, for all inputs.           *)
(***************************************************************************)
EXTENDS Algorithms, TLAPS, WellFoundedInduction

\* What is scheduled has orders that are numbers, according to the hooks.
LEMMA ScheduledOrders ==
  ASSUME NEW o \in ChartObjects, NEW a \in Metadata, NEW pre, NEW post,
         NEW policy \in ReconcilePolicies
  PROVE  /\ Scheduled(a, o, pre, post, policy) \in Metadata
         /\ pre \in o.types =>
               Scheduled(a, o, pre, post, policy).applyOrder = o.weight - 101
         /\ pre \notin o.types /\ post \in o.types =>
               Scheduled(a, o, pre, post, policy).applyOrder = o.weight + 101
         /\ pre \notin o.types /\ post \notin o.types =>
               Scheduled(a, o, pre, post, policy) = a
  <1> DEFINE succeeded == "hook-succeeded" \in o.deletePolicies
             early == IF ~ succeeded THEN a.purgeOrder
                      ELSE IF post \in o.types THEN LatePurge ELSE -1
             late == IF ~ succeeded THEN a.purgeOrder ELSE LatePurge
  <1>1. /\ o.weight \in Int
        /\ PreOrder(o.weight) \in Int /\ PreOrder(o.weight) = o.weight - 101
        /\ PostOrder(o.weight) \in Int /\ PostOrder(o.weight) = o.weight + 101
        /\ LatePurge \in Int
    BY DEF ChartObjects, Weights, HookMinWeight, HookMaxWeight, PreOrder, PostOrder, LatePurge
  <1>2. early \in Int /\ late \in Int
    BY <1>1 DEF Metadata
  <1>3. CASE pre \in o.types
    <2>1. Scheduled(a, o, pre, post, policy) =
            [a EXCEPT !.reconcile = policy, !.applyOrder = PreOrder(o.weight),
                      !.purgeOrder = early]
      BY <1>3 DEF Scheduled
    <2> HIDE DEF early
    <2> QED
      BY <1>1, <1>2, <1>3, <2>1 DEF Metadata
  <1>4. CASE pre \notin o.types /\ post \in o.types
    <2>1. Scheduled(a, o, pre, post, policy) =
            [a EXCEPT !.reconcile = policy, !.applyOrder = PostOrder(o.weight),
                      !.purgeOrder = late]
      BY <1>4 DEF Scheduled
    <2> HIDE DEF late
    <2> QED
      BY <1>1, <1>2, <1>4, <2>1 DEF Metadata
  <1>5. CASE pre \notin o.types /\ post \notin o.types
    BY <1>5 DEF Scheduled
  <1> QED
    BY <1>3, <1>4, <1>5

\* The annotations of a hook have a record type; all orders are numbers.
LEMMA AnnotationsType ==
  ASSUME NEW o \in ChartObjects, NEW isInstall \in BOOLEAN
  PROVE  Annotations(o, isInstall) \in Metadata
  <1>1. Kept(o) \in Metadata
    BY DEF Kept, Plain, Unset, maxOrder, Metadata, ReconcilePolicies
  <1>2. Recreated(Kept(o), o) \in Metadata
    BY <1>1 DEF Recreated, Metadata
  <1>3. "Once" \in ReconcilePolicies /\ "OnObjectOrComponentChange" \in ReconcilePolicies
    BY DEF ReconcilePolicies
  <1>4. AtInstall(o) \in Metadata
    BY <1>2, <1>3, ScheduledOrders DEF AtInstall
  <1> QED
    BY <1>1, <1>3, <1>4, ScheduledOrders DEF Annotations

\* Where a hook goes that runs before, or after, what is no hook.
LEMMA OrderOfHook ==
  ASSUME NEW o \in ChartObjects, NEW isInstall \in BOOLEAN
  PROVE  /\ RunsBefore(o, isInstall) =>
               Annotations(o, isInstall).applyOrder = o.weight - 101
         /\ RunsAfter(o, isInstall) =>
               Annotations(o, isInstall).applyOrder = o.weight + 101
         /\ ~ IsHook(o) => Annotations(o, isInstall).applyOrder = 0
  <1>1. o.weight \in Int /\ o.weight - 100 - 1 = o.weight - 101
        /\ o.weight - (-100) + 1 = o.weight + 101
    BY DEF ChartObjects, Weights, HookMinWeight, HookMaxWeight
  <1>2. Kept(o) \in Metadata /\ Kept(o).applyOrder = 0
    BY DEF Kept, Plain, Unset, maxOrder, Metadata, ReconcilePolicies
  <1>3. Recreated(Kept(o), o) \in Metadata
    BY <1>2 DEF Recreated, Metadata
  <1>4. "Once" \in ReconcilePolicies /\ "OnObjectOrComponentChange" \in ReconcilePolicies
    BY DEF ReconcilePolicies
  <1>5. AtInstall(o) \in Metadata
    BY <1>3, <1>4, ScheduledOrders DEF AtInstall
  <1>6. CASE ~ IsHook(o)
    BY <1>2, <1>6 DEF Annotations, IsHook, RunsBefore, RunsAfter
  <1>7. CASE IsHook(o) /\ isInstall
    BY <1>3, <1>4, <1>7, ScheduledOrders DEF Annotations, AtInstall, RunsBefore, RunsAfter
  <1>8. CASE IsHook(o) /\ ~ isInstall
    BY <1>4, <1>5, <1>8, ScheduledOrders DEF Annotations, RunsBefore, RunsAfter
  <1> QED
    BY <1>6, <1>7, <1>8

\* Annotations whose orders are in the range of those of hooks, and in time.
InTime(a, o) ==
  /\ a \in Metadata
  /\ a.applyOrder \in -201 .. 201 /\ a.purgeOrder \in {-1, 201, Unset}
  /\ a.applyOrder =< a.purgeOrder
  /\ "hook-succeeded" \notin o.deletePolicies => a.purgeOrder = Unset

\* Scheduling a hook in time leaves it in time; a hook both before and after is late.
LEMMA ScheduledInTime ==
  ASSUME NEW o \in ChartObjects, NEW a, InTime(a, o), NEW pre, NEW post,
         NEW policy \in ReconcilePolicies
  PROVE  /\ InTime(Scheduled(a, o, pre, post, policy), o)
         /\ {pre, post} \subseteq o.types =>
               Scheduled(a, o, pre, post, policy).purgeOrder \in {201, Unset}
  <1> DEFINE succeeded == "hook-succeeded" \in o.deletePolicies
             early == IF ~ succeeded THEN a.purgeOrder
                      ELSE IF post \in o.types THEN LatePurge ELSE -1
             late == IF ~ succeeded THEN a.purgeOrder ELSE LatePurge
             s == Scheduled(a, o, pre, post, policy)
  <1>1. /\ o.weight \in -100 .. 100
        /\ PreOrder(o.weight) = o.weight - 101 /\ PreOrder(o.weight) \in -201 .. -1
        /\ PostOrder(o.weight) = o.weight + 101 /\ PostOrder(o.weight) \in 1 .. 201
        /\ LatePurge = 201 /\ Unset = 32768
    BY DEF ChartObjects, Weights, HookMinWeight, HookMaxWeight, PreOrder, PostOrder,
           LatePurge, Unset, maxOrder
  <1>2. a \in Metadata /\ s \in Metadata
    BY ScheduledOrders DEF InTime
  <1>3. CASE pre \in o.types
    <2>1. s = [a EXCEPT !.reconcile = policy, !.applyOrder = PreOrder(o.weight),
                        !.purgeOrder = early]
      BY <1>3 DEF Scheduled
    <2>2. early \in {-1, 201, Unset} /\ (~ succeeded => early = Unset)
          /\ (post \in o.types => early \in {201, Unset})
      BY <1>1 DEF InTime
    <2> HIDE DEF early
    <2>3. s.applyOrder = PreOrder(o.weight) /\ s.purgeOrder = early
      BY <1>2, <2>1 DEF Metadata
    <2>4. InTime(s, o)
      BY <1>1, <1>2, <2>2, <2>3 DEF InTime
    <2> QED
      BY <2>2, <2>3, <2>4
  <1>4. CASE pre \notin o.types /\ post \in o.types
    <2>1. s = [a EXCEPT !.reconcile = policy, !.applyOrder = PostOrder(o.weight),
                        !.purgeOrder = late]
      BY <1>4 DEF Scheduled
    <2>2. late \in {201, Unset} /\ (~ succeeded => late = Unset)
      BY <1>1 DEF InTime
    <2> HIDE DEF late
    <2>3. s.applyOrder = PostOrder(o.weight) /\ s.purgeOrder = late
      BY <1>2, <2>1 DEF Metadata
    <2>4. InTime(s, o)
      BY <1>1, <1>2, <2>2, <2>3 DEF InTime
    <2> QED
      BY <1>4, <2>4
  <1>5. CASE pre \notin o.types /\ post \notin o.types
    BY <1>5, ScheduledOrders DEF InTime
  <1> QED
    BY <1>3, <1>4, <1>5

\* The annotations of every object of a chart are in time.
LEMMA AnnotationsInTime ==
  ASSUME NEW o \in ChartObjects, NEW isInstall \in BOOLEAN
  PROVE  /\ InTime(Annotations(o, isInstall), o)
         /\ (IF isInstall THEN {"pre-install", "post-install"}
             ELSE {"pre-upgrade", "post-upgrade"}) \subseteq o.types =>
               Annotations(o, isInstall).purgeOrder \in {201, Unset}
  <1>1. Kept(o) \in Metadata /\ Kept(o).applyOrder = 0 /\ Kept(o).purgeOrder = Unset
    BY DEF Kept, Plain, Unset, maxOrder, Metadata, ReconcilePolicies
  <1>2. /\ Recreated(Kept(o), o) \in Metadata
        /\ Recreated(Kept(o), o).applyOrder = 0 /\ Recreated(Kept(o), o).purgeOrder = Unset
    BY <1>1 DEF Recreated, Metadata
  <1>3. InTime(Kept(o), o) /\ InTime(Recreated(Kept(o), o), o)
    BY <1>1, <1>2 DEF InTime, Unset, maxOrder
  <1>4. "Once" \in ReconcilePolicies /\ "OnObjectOrComponentChange" \in ReconcilePolicies
    BY DEF ReconcilePolicies
  <1>5. /\ InTime(AtInstall(o), o)
        /\ {"pre-install", "post-install"} \subseteq o.types =>
              AtInstall(o).purgeOrder \in {201, Unset}
    BY <1>3, <1>4, ScheduledInTime DEF AtInstall
  <1>6. CASE ~ IsHook(o)
    BY <1>3, <1>6 DEF Annotations, IsHook
  <1>7. CASE IsHook(o) /\ isInstall
    BY <1>5, <1>7 DEF Annotations
  <1>8. CASE IsHook(o) /\ ~ isInstall
    BY <1>4, <1>5, <1>8, ScheduledInTime DEF Annotations
  <1> QED
    BY <1>6, <1>7, <1>8

\* An install hook that is no upgrade hook is left alone by upgrades.
LEMMA InstallHooksStay ==
  ASSUME NEW o \in ChartObjects
  PROVE  StaysRendered(o)
  <1> SUFFICES ASSUME Valid(o, TRUE)
               PROVE  /\ Valid(o, FALSE)
                      /\ IsHook(o) /\ o.types \subseteq InstallTypes =>
                            Annotations(o, FALSE) = Annotations(o, TRUE)
    BY DEF StaysRendered
  <1>1. Valid(o, FALSE)
    BY DEF Valid, Rendered
  <1>2. ASSUME IsHook(o), o.types \subseteq InstallTypes
        PROVE  Annotations(o, FALSE) = Annotations(o, TRUE)
    <2>1. "pre-upgrade" \notin o.types /\ "post-upgrade" \notin o.types
      BY <1>2 DEF InstallTypes
    <2>2. AtInstall(o) \in Metadata
      BY <1>2, AnnotationsType DEF Annotations
    <2>3. "OnObjectOrComponentChange" \in ReconcilePolicies
      BY DEF ReconcilePolicies
    <2> QED
      BY <1>2, <2>1, <2>2, <2>3, ScheduledOrders DEF Annotations
  <1> QED
    BY <1>1, <1>2

\* The reconciler accepts orders that are not far from zero.
LEMMA OrdersInRange ==
  ASSUME NEW n
  PROVE  /\ n \in Int /\ -201 =< n /\ n =< 201 => n \in minOrder .. maxOrder
         /\ n = -1 \/ n = 201 \/ n = 32768 => n \in minOrder .. Unset
  <1>1. n \in Int /\ -201 =< n /\ n =< 201 => n \in minOrder .. maxOrder
    <2> SUFFICES ASSUME n \in Int, -201 =< n, n =< 201
                 PROVE  n \in minOrder .. maxOrder
      OBVIOUS
    <2>1. minOrder \in Int /\ maxOrder \in Int /\ minOrder =< -201 /\ 201 =< maxOrder
      BY DEF minOrder, maxOrder
    <2>2. minOrder =< n /\ n =< maxOrder
      BY <2>1
    <2> QED
      BY <2>1, <2>2
  <1>2. n = -1 \/ n = 201 \/ n = 32768 => n \in minOrder .. Unset
    <2>1. minOrder = -32768
      BY DEF minOrder
    <2>2. Unset = 32768
      BY DEF maxOrder, Unset
    <2>3. -1 \in minOrder .. Unset /\ 201 \in minOrder .. Unset
      BY <2>1, <2>2
    <2>4. 32768 \in minOrder .. Unset
      BY <2>1, <2>2
    <2> QED
      BY <2>3, <2>4
  <1> QED
    BY <1>1, <1>2

\* The orders of two objects of a chart are those of their hooks and weights.
LEMMA OrderedInTime ==
  ASSUME NEW o \in ChartObjects, NEW p \in ChartObjects, NEW isInstall \in BOOLEAN
  PROVE  Ordered(o, p, isInstall) /\ PurgedInTime(o, p, isInstall)
  <1>1. /\ o.weight \in Int /\ -100 =< o.weight /\ o.weight =< 100
        /\ p.weight \in Int /\ -100 =< p.weight /\ p.weight =< 100
    BY DEF ChartObjects, Weights, HookMinWeight, HookMaxWeight
  <1>2. Ordered(o, p, isInstall)
    <2>1. /\ RunsBefore(o, isInstall) => Annotations(o, isInstall).applyOrder = o.weight - 101
          /\ RunsAfter(o, isInstall) => Annotations(o, isInstall).applyOrder = o.weight + 101
      BY OrderOfHook
    <2>2. /\ RunsBefore(p, isInstall) => Annotations(p, isInstall).applyOrder = p.weight - 101
          /\ RunsAfter(p, isInstall) => Annotations(p, isInstall).applyOrder = p.weight + 101
          /\ ~ IsHook(p) => Annotations(p, isInstall).applyOrder = 0
      BY OrderOfHook
    <2> DEFINE x == Annotations(o, isInstall).applyOrder
               y == Annotations(p, isInstall).applyOrder
    <2> HIDE DEF x, y
    <2>3. RunsBefore(o, isInstall) /\ (~ IsHook(p) \/ RunsAfter(p, isInstall)) => x < y
      <3> SUFFICES ASSUME RunsBefore(o, isInstall), ~ IsHook(p) \/ RunsAfter(p, isInstall)
                   PROVE  x < y
        OBVIOUS
      <3>1. x = o.weight - 101 /\ (y = 0 \/ y = p.weight + 101)
        BY <2>1, <2>2 DEF x, y
      <3> QED
        BY <1>1, <3>1
    <2>4. RunsAfter(o, isInstall) /\ ~ IsHook(p) => y < x
      <3> SUFFICES ASSUME RunsAfter(o, isInstall), ~ IsHook(p)
                   PROVE  y < x
        OBVIOUS
      <3>1. x = o.weight + 101 /\ y = 0
        BY <2>1, <2>2 DEF x, y
      <3> QED
        BY <1>1, <3>1
    <2>5. \/ RunsBefore(o, isInstall) /\ RunsBefore(p, isInstall)
          \/ RunsAfter(o, isInstall) /\ RunsAfter(p, isInstall)
          => (o.weight < p.weight <=> x < y)
      <3> SUFFICES ASSUME \/ RunsBefore(o, isInstall) /\ RunsBefore(p, isInstall)
                          \/ RunsAfter(o, isInstall) /\ RunsAfter(p, isInstall)
                   PROVE  o.weight < p.weight <=> x < y
        OBVIOUS
      <3>1. \/ x = o.weight - 101 /\ y = p.weight - 101
            \/ x = o.weight + 101 /\ y = p.weight + 101
        BY <2>1, <2>2 DEF x, y
      <3>2. CASE x = o.weight - 101 /\ y = p.weight - 101
        BY <1>1, <3>2
      <3>3. CASE x = o.weight + 101 /\ y = p.weight + 101
        BY <1>1, <3>3
      <3> QED
        BY <3>1, <3>2, <3>3
    <2> QED
      BY <2>3, <2>4, <2>5 DEF Ordered, x, y
  <1>3. PurgedInTime(o, p, isInstall)
    <2> DEFINE a == Annotations(o, isInstall)
               b == Annotations(p, isInstall)
               both == IF isInstall THEN {"pre-install", "post-install"}
                       ELSE {"pre-upgrade", "post-upgrade"}
    <2>1. /\ a.applyOrder \in -201 .. 201 /\ a.purgeOrder \in {-1, 201, Unset}
          /\ a.applyOrder =< a.purgeOrder
          /\ both \subseteq o.types => a.purgeOrder \in {201, Unset}
      BY AnnotationsInTime DEF InTime
    <2>2. b.applyOrder \in -201 .. 201
      BY AnnotationsInTime DEF InTime
    <2>3. Unset = 32768 /\ minOrder = -32768 /\ maxOrder = 32767
      BY DEF Unset, minOrder, maxOrder
    <2> HIDE DEF a, b, both
    <2>4. both \subseteq o.types => b.applyOrder =< a.purgeOrder
      BY <2>1, <2>2, <2>3
    <2>5. a.applyOrder \in minOrder .. maxOrder /\ a.purgeOrder \in minOrder .. Unset
      <3>1. a.applyOrder \in Int /\ -201 =< a.applyOrder /\ a.applyOrder =< 201
        BY <2>1
      <3>2. a.purgeOrder = -1 \/ a.purgeOrder = 201 \/ a.purgeOrder = 32768
        BY <2>1, <2>3
      <3> QED
        BY <3>1, <3>2, OrdersInRange DEF Unset, maxOrder
    <2> QED
      BY <2>1, <2>4, <2>5 DEF PurgedInTime, a, b, both
  <1> QED
    BY <1>2, <1>3

\* For all weights and combinations of hook types, the orders are those of the chart.
THEOREM HookOrders == Spec => []HooksInOrder
  <1>1. Init => HooksInOrder
    <2> SUFFICES ASSUME Init, asked = "hooks"
                 PROVE  HooksInOrder
      BY DEF HooksInOrder
    <2> DEFINE o == input.first
               p == input.second
               isInstall == input.isInstall
    <2>1. o \in ChartObjects /\ p \in ChartObjects /\ isInstall \in BOOLEAN
      BY InputsAssumption DEF Init
    <2> HIDE DEF o, p, isInstall
    <2>3. Ordered(o, p, isInstall) /\ PurgedInTime(o, p, isInstall)
      BY <2>1, OrderedInTime
    <2>5. StaysRendered(o)
      BY <2>1, InstallHooksStay
    <2> QED
      BY <2>3, <2>5 DEF HooksInOrder, o, p, isInstall
  <1>2. HooksInOrder /\ [Next]_vars => HooksInOrder'
    <2> SUFFICES ASSUME HooksInOrder, [Next]_vars
                 PROVE  HooksInOrder'
      OBVIOUS
    <2>1. asked' = asked /\ input' = input
      BY DEF Next, vars, Answer, AnnotateHooks, RenderChart, EnableSubchart,
             AnalyzeStatus, UpdateObject, ResolveReferences
    <2> QED
      BY <2>1 DEF HooksInOrder
  <1> QED
    BY <1>1, <1>2, PTL DEF Spec

\* An object is called Current only if it deserves it.
LEMMA CurrentIsDeserved ==
  ASSUME NEW o, NEW hints, NEW extra, Status!IsObject(o, Generations),
         Status!ComputeStatus(o, hints, extra) = "Current"
  PROVE  Status!Deserved(o, hints, extra)
  <1> DEFINE e == Status!Enhanced(o, hints)
             ready == Status!Told(o, "Ready")
  <1>1. /\ o.kind \in Status!Kinds /\ o.generation \in Nat
        /\ o.observed \in Nat \cup {-2}
    BY InputsAssumption DEF Status!IsObject, Status!Untold
  <1>2. /\ e.observed = IF "has-observed-generation" \in hints /\ o.observed = -2
                        THEN Status!ObservedOf(o) ELSE o.observed
        /\ e.conditions = IF "has-ready-condition" \in hints /\ ~ ready
                          THEN [t \in DOMAIN o.conditions \cup {"Ready"} |->
                                  IF t \in DOMAIN o.conditions THEN o.conditions[t]
                                  ELSE [status |-> "Unknown", observed |-> -2]]
                          ELSE o.conditions
        /\ e.kind = o.kind /\ e.generation = o.generation /\ e.verdict = o.verdict
    BY DEF Status!IsObject, Status!Enhanced, Status!Untold
  <1>3. Status!Kstatus(e) = "Current" /\ Status!ConditionsMet(o, extra) /\ Status!JobDone(o)
    BY DEF Status!ComputeStatus
  <1>4. /\ ~ (e.observed # -2 /\ e.observed # o.generation)
        /\ ~ (Status!UsesReady(o) /\ Status!Told(e, "Ready") /\ ~ Status!IsTrue(e, "Ready"))
        /\ o.verdict = "Current"
    BY <1>2, <1>3 DEF Status!Kstatus, Status!UsesReady, Status!Untold
  <1> HIDE DEF e
  <1>5. "has-observed-generation" \in hints =>
          \/ o.observed = o.generation
          \/ o.observed = -2 /\ ready /\ o.conditions["Ready"].observed = o.generation
    BY <1>1, <1>2, <1>4 DEF Status!ObservedOf, Status!Impossible, Status!Untold
  <1>6. Status!UsesReady(o) /\ ready => Status!IsTrue(o, "Ready")
    BY <1>2, <1>4 DEF Status!Told, Status!IsTrue
  <1>7. "has-ready-condition" \in hints /\ Status!UsesReady(o) => ready
    BY <1>2, <1>4 DEF Status!Told, Status!IsTrue
  <1>8. Status!ComputeStatus(o, {}, {}) = "Current"
    <2>1. Status!Enhanced(o, {}) = o
      BY DEF Status!Enhanced, Status!IsObject
    <2>2. o.observed = -2 \/ o.observed = o.generation
      BY <1>1, <1>2, <1>4
    <2>3. Status!Kstatus(o) = "Current"
      BY <1>4, <1>6, <2>2 DEF Status!Kstatus, Status!Untold
    <2>4. Status!ConditionsMet(o, {})
      BY <1>3 DEF Status!ConditionsMet
    <2> QED
      BY <1>3, <2>1, <2>3, <2>4 DEF Status!ComputeStatus
  <1>9. /\ \A t \in extra : Status!IsTrue(o, t)
        /\ o.kind = "CustomResourceDefinition" =>
              Status!IsTrue(o, "Established") /\ Status!IsTrue(o, "NamesAccepted")
        /\ o.kind = "Job" => Status!IsTrue(o, "Complete") \/ Status!IsTrue(o, "Failed")
    BY <1>3 DEF Status!ConditionsMet, Status!WellKnown, Status!JobDone
  <1> QED
    BY <1>5, <1>6, <1>7, <1>8, <1>9 DEF Status!Deserved, Status!Untold

\* For all objects, conditions and hints, what is called Current deserves it.
THEOREM CurrentOnlyIfDeserved == Spec => []CurrentDeserved
  <1> DEFINE Inv == /\ asked = "status" => Status!IsObject(input.object, Generations)
                    /\ CurrentDeserved
  <1>1. Init => Inv
    BY InputsAssumption DEF Init, CurrentDeserved, Answered
  <1>2. Inv /\ [Next]_vars => Inv'
    <2> SUFFICES ASSUME Inv, [Next]_vars
                 PROVE  Inv'
      OBVIOUS
    <2>1. asked' = asked /\ input' = input
      BY DEF Next, vars, Answer, AnnotateHooks, RenderChart, EnableSubchart,
             AnalyzeStatus, UpdateObject, ResolveReferences
    <2>2. CASE UNCHANGED vars \/ asked # "status"
      BY <2>1, <2>2 DEF CurrentDeserved, Answered, vars
    <2>3. CASE asked = "status" /\ Next
      <3>1. result' = <<Status!ComputeStatus(input.object, input.hints, input.extra)>>
        BY <2>3 DEF Next, Answer, AnnotateHooks, RenderChart, EnableSubchart,
                    AnalyzeStatus, UpdateObject, ResolveReferences
      <3>2. result'[1] = "Current" => Status!Deserved(input.object, input.hints, input.extra)
        BY <2>3, <3>1, CurrentIsDeserved
      <3> QED
        BY <2>1, <3>2 DEF CurrentDeserved, Answered
    <2> QED
      BY <2>2, <2>3
  <1>3. Inv => CurrentDeserved
    OBVIOUS
  <1> QED
    BY <1>1, <1>2, <1>3, PTL DEF Spec

(***************************************************************************)
(* Numbers: what stands in for induction                                   *)
(***************************************************************************)

\* The order of the naturals as a relation.
LEMMA NatOrder == \A x, y \in Nat : x < y => <<x, y>> \in OpToRel(<, Nat)
  BY DEF OpToRel

\* A set of naturals has a least element.
LEMMA LeastNumber ==
  ASSUME NEW T \in SUBSET Nat, T # {}
  PROVE  \E m \in T : \A k \in T : m =< k
  <1>1. PICK m \in T : \A k \in T : ~ (<<k, m>> \in OpToRel(<, Nat))
    BY NatLessThanWellFounded, WFMin
  <1>2. \A k \in T : ~ (k < m)
    BY <1>1, NatOrder
  <1> QED
    BY <1>2

(***************************************************************************)
(* References                                                              *)
(***************************************************************************)

\* A resolution without an error has loaded everything, but what may be ignored; and it
\* ends without an error if nothing is found and everything may be ignored.
LEMMA LoadedOrIgnored ==
  ASSUME NEW refs, NEW objects, NEW deleting \in BOOLEAN,
         \A j \in DOMAIN refs : objects[j].found \in Refs!Findings
  PROVE  LET resolved == Refs!ResolveReferences(refs, objects, deleting)
         IN  /\ resolved.error = "none" =>
                  \A i \in DOMAIN refs : \/ resolved.values[i] # Refs!Panic
                                         \/ Refs!IgnoresNotFound(refs[i], deleting)
             /\ (\A i \in DOMAIN refs : objects[i] = Refs!NotFound) =>
                  (resolved.error = "none" <=>
                     \A i \in DOMAIN refs : Refs!IgnoresNotFound(refs[i], deleting))
  <1> DEFINE resolved == Refs!ResolveReferences(refs, objects, deleting)
             ignores(j) == Refs!IgnoresNotFound(refs[j], deleting)
             load(j) == Refs!Load(refs[j], objects[j], ignores(j))
             states == {load(j).state : j \in DOMAIN refs}
  <1>1. resolved.error = "none" <=> "retriable" \notin states /\ "failed" \notin states
    BY DEF Refs!ResolveReferences, Refs!Walk
  <1>2. \A i \in DOMAIN refs : resolved.values[i] = Refs!Value(load(i))
    BY DEF Refs!ResolveReferences, Refs!Walk
  <1>3. ASSUME resolved.error = "none", NEW i \in DOMAIN refs
        PROVE  resolved.values[i] # Refs!Panic \/ ignores(i)
    <2>1. load(i).state # "retriable" /\ load(i).state # "failed"
      BY <1>1, <1>3
    <2>2. load(i).state = "loaded" \/ ignores(i)
      BY <2>1 DEF Refs!Load, Refs!Loaded, Refs!Unloaded, Refs!Retriable, Refs!Failed,
                  Refs!Findings
    <2>3. load(i).state = "loaded" => Refs!Value(load(i)) # Refs!Panic
      BY DEF Refs!Value, Refs!Panic
    <2> QED
      BY <1>2, <2>2, <2>3
  <1>4. ASSUME \A i \in DOMAIN refs : objects[i] = Refs!NotFound
        PROVE  resolved.error = "none" <=> \A i \in DOMAIN refs : ignores(i)
    <2>1. \A i \in DOMAIN refs :
             load(i).state = IF ignores(i) THEN "unloaded" ELSE "retriable"
      BY <1>4 DEF Refs!Load, Refs!Unloaded, Refs!Retriable, Refs!NotFound
    <2> QED
      BY <1>1, <2>1
  <1> QED
    BY <1>3, <1>4

\* A reference is loaded with what it is about; what is not loaded and no error is not
\* there.
LEMMA LoadsContent ==
  ASSUME NEW ref, ref.fallbackKeys \in Seq(STRING), NEW object, object.found \in Refs!Findings,
         NEW ignore, NEW l, l = Refs!Load(ref, object, ignore),
         l.state \notin {"retriable", "failed"}
  PROVE  \/ l.state = "loaded" /\ Content(ref, object) = {l.value}
         \/ l.state = "unloaded" /\ Content(ref, object) = {}
  <1> DEFINE tried == Refs!KeysTried(ref)
             hits == Refs!Hits(ref, object)
             first == Refs!Min(hits)
             isFirst(n) == /\ tried[n] \in DOMAIN object.data
                           /\ \A m \in DOMAIN tried : m < n => tried[m] \notin DOMAIN object.data
  <1>1. CASE object.found # "object"
    BY <1>1 DEF Refs!Load, Refs!Findings, Refs!Unloaded, Refs!Retriable, Refs!Failed, Content
  <1>2. CASE object.found = "object" /\ ref.whole
    BY <1>2 DEF Refs!Load, Refs!Loaded, Content
  <1>3. CASE object.found = "object" /\ ~ ref.whole
    <2>1. hits # {} /\ l = Refs!Loaded(object.data[tried[first]])
      BY <1>3 DEF Refs!Load, Refs!Retriable
    <2>2. tried = IF ref.key # Refs!NoKey THEN <<ref.key>> ELSE ref.fallbackKeys
      BY DEF Refs!KeysTried
    <2>3. DOMAIN tried \subseteq Nat
      BY <2>2
    <2>4. hits \subseteq Nat
      BY <2>3 DEF Refs!Hits
    <2>5. first \in hits /\ \A n \in hits : first =< n
      BY <2>1, <2>4, LeastNumber DEF Refs!Min
    <2> DEFINE m == first
    <2>6. m \in hits /\ m \in Nat /\ \A n \in hits : n \in Nat /\ m =< n
      BY <2>4, <2>5
    <2> HIDE DEF m, tried
    <2>7. ASSUME NEW n \in DOMAIN tried
          PROVE  isFirst(n) <=> n = m
      BY <2>3, <2>6 DEF Refs!Hits, tried
    <2>8. m \in DOMAIN tried
      BY <2>6 DEF Refs!Hits, tried
    <2>9. {n \in DOMAIN tried : isFirst(n)} = {m}
      BY <2>7, <2>8
    <2>10. Content(ref, object) = {object.data[tried[n]] : n \in {n \in DOMAIN tried : isFirst(n)}}
      BY <1>3, <2>2 DEF Content
    <2> QED
      BY <2>1, <2>9, <2>10 DEF Refs!Loaded, m
  <1> QED
    BY <1>1, <1>2, <1>3

\* A sequence and a set of the same element, or of none.
SameOne(d, c) ==
    \/ d = <<>> /\ c = {}
    \/ \E v : d = <<v>> /\ c = {v}

\* The value and the digest of a reference tell what it is about.
Tells(value, digest, ref, object) ==
    /\ value # Refs!Panic => Content(ref, object) = {value[1]}
    /\ SameOne(digest, Content(ref, object))

\* A resolution without an error gives such values and digests.
LEMMA DigestsTellContents ==
  ASSUME NEW refs, \A j \in DOMAIN refs : refs[j].fallbackKeys \in Seq(STRING),
         NEW objects, \A j \in DOMAIN refs : objects[j].found \in Refs!Findings,
         NEW deleting
  PROVE  LET resolved == Refs!ResolveReferences(refs, objects, deleting)
         IN  resolved.error = "none" =>
               \A i \in DOMAIN refs :
                  Tells(resolved.values[i], resolved.digest[i], refs[i], objects[i])
  <1> DEFINE resolved == Refs!ResolveReferences(refs, objects, deleting)
             load(j) == Refs!Load(refs[j], objects[j], Refs!IgnoresNotFound(refs[j], deleting))
             states == {load(j).state : j \in DOMAIN refs}
  <1> SUFFICES ASSUME resolved.error = "none", NEW i \in DOMAIN refs
               PROVE  Tells(resolved.values[i], resolved.digest[i], refs[i], objects[i])
    OBVIOUS
  <1>1. "retriable" \notin states /\ "failed" \notin states
    BY DEF Refs!ResolveReferences, Refs!Walk
  <1>2. load(i).state \notin {"retriable", "failed"}
    BY <1>1
  <1>3. /\ resolved.values[i] = Refs!Value(load(i))
        /\ resolved.digest[i] = Refs!Digest(load(i))
    BY DEF Refs!ResolveReferences, Refs!Walk
  <1>4. \/ load(i).state = "loaded" /\ Content(refs[i], objects[i]) = {load(i).value}
        \/ load(i).state = "unloaded" /\ Content(refs[i], objects[i]) = {}
    BY <1>2, LoadsContent
  <1> HIDE DEF load, resolved
  <1> QED
    BY <1>3, <1>4 DEF Refs!Value, Refs!Digest, Refs!Panic, Tells, SameOne

\* Sequences and sets of one at most tell the same.
LEMMA OfOne ==
  ASSUME NEW d1, NEW c1, SameOne(d1, c1), NEW d2, NEW c2, SameOne(d2, c2)
  PROVE  d1 = d2 <=> c1 = c2
  <1>1. ASSUME NEW v, NEW w
        PROVE  <<v>> # <<>> /\ (<<v>> = <<w>> <=> {v} = {w})
    <2>1. <<v>> # <<>> /\ (<<v>> = <<w>> <=> v = w)
      OBVIOUS
    <2>2. {v} = {w} <=> v = w
      BY Zenon
    <2> QED
      BY <2>1, <2>2
  <1>2. CASE d1 = <<>> /\ c1 = {}
    BY <1>1, <1>2 DEF SameOne
  <1>3. ASSUME NEW v, d1 = <<v>>, c1 = {v}
        PROVE  d1 = d2 <=> c1 = c2
    BY <1>1, <1>3 DEF SameOne
  <1> QED
    BY <1>2, <1>3 DEF SameOne

\* For all references and objects, whatever happens between the requests: digest and
\* values tell what is referenced, and a deletion is hindered only by what is not to be ignored.
THEOREM DigestsAreTrue == Spec => []ReferencesTold
  <1> DEFINE Resolved(objects) == Refs!ResolveReferences(input.refs, objects, input.deleting)
             Inv == asked = "references" =>
                      /\ input \in ReferenceInputs
                      /\ \/ result = <<>>
                         \/ result = <<[first |-> Resolved(input.first),
                                        second |-> Resolved(input.second)]>>
  <1>1. Init => Inv
    BY DEF Init
  <1>2. Inv /\ [Next]_vars => Inv'
    <2> SUFFICES ASSUME Inv, [Next]_vars
                 PROVE  Inv'
      OBVIOUS
    <2>1. asked' = asked /\ input' = input
      BY DEF Next, vars, Answer, AnnotateHooks, RenderChart, EnableSubchart,
             AnalyzeStatus, UpdateObject, ResolveReferences
    <2>2. CASE UNCHANGED vars \/ asked # "references"
      BY <2>1, <2>2 DEF vars
    <2>3. CASE asked = "references" /\ Next
      <3>1. result' = <<[first |-> Resolved(input.first), second |-> Resolved(input.second)]>>
        BY <2>3 DEF Next, Answer, AnnotateHooks, RenderChart, EnableSubchart,
                    AnalyzeStatus, UpdateObject, ResolveReferences
      <3> QED
        BY <2>1, <3>1
    <2> QED
      BY <2>2, <2>3
  <1>3. Inv => ReferencesTold
    <2> SUFFICES ASSUME Inv, Answered("references")
                 PROVE  ReferencesTold
      BY DEF ReferencesTold
    <2>1. /\ input \in ReferenceInputs
          /\ result[1].first = Resolved(input.first)
          /\ result[1].second = Resolved(input.second)
      BY DEF Answered
    <2>2. /\ input.deleting \in BOOLEAN
          /\ \A r \in DOMAIN input.refs : /\ input.first[r].found \in Refs!Findings
                                          /\ input.second[r].found \in Refs!Findings
                                          /\ input.refs[r].fallbackKeys \in Seq(STRING)
      BY <2>1, InputsAssumption
    <2>3. ASSUME NEW objects \in {input.first, input.second}, Resolved(objects).error = "none",
                 NEW i \in DOMAIN input.refs
          PROVE  Tells(Resolved(objects).values[i], Resolved(objects).digest[i],
                       input.refs[i], objects[i])
      <3>1. \A j \in DOMAIN input.refs : objects[j].found \in Refs!Findings
        BY <2>2, <2>3
      <3>2. \A j \in DOMAIN input.refs : input.refs[j].fallbackKeys \in Seq(STRING)
        BY <2>2
      <3> HIDE <2>2
      <3> QED
        BY <2>3, <3>1, <3>2, DigestsTellContents
    <2>4. ASSUME NEW objects \in {input.first, input.second}
          PROVE  /\ Resolved(objects).error = "none" /\ ~ input.deleting =>
                      \A i \in DOMAIN input.refs : Resolved(objects).values[i] # Refs!Panic
                 /\ (\A i \in DOMAIN input.refs : objects[i] = Refs!NotFound) =>
                      (Resolved(objects).error = "none" <=>
                         \A i \in DOMAIN input.refs :
                            Refs!IgnoresNotFound(input.refs[i], input.deleting))
      BY <2>2, LoadedOrIgnored DEF Refs!IgnoresNotFound
    <2> HIDE DEF Resolved
    <2>5. ASSUME NEW call \in {<<Resolved(input.first), input.first>>,
                               <<Resolved(input.second), input.second>>}
          PROVE  /\ call[1].error = "none" =>
                      \A i \in DOMAIN input.refs :
                         call[1].values[i] # Refs!Panic =>
                            Content(input.refs[i], call[2][i]) = {call[1].values[i][1]}
                 /\ call[1].error = "none" /\ ~ input.deleting =>
                      \A i \in DOMAIN input.refs : call[1].values[i] # Refs!Panic
                 /\ (\A i \in DOMAIN input.refs : call[2][i] = Refs!NotFound) =>
                      (call[1].error = "none" <=>
                         \A i \in DOMAIN input.refs :
                            input.deleting /\ input.refs[i].ignoreOnDeletion)
      <3>1. PICK objects \in {input.first, input.second} :
              call[1] = Resolved(objects) /\ call[2] = objects
        OBVIOUS
      <3>2. ASSUME Resolved(objects).error = "none", NEW i \in DOMAIN input.refs
            PROVE  Resolved(objects).values[i] # Refs!Panic =>
                      Content(input.refs[i], objects[i]) = {Resolved(objects).values[i][1]}
        BY <2>3, <3>2 DEF Tells
      <3> QED
        BY <2>4, <3>1, <3>2 DEF Refs!IgnoresNotFound
    <2>6. ASSUME Resolved(input.first).error = "none", Resolved(input.second).error = "none"
          PROVE  Resolved(input.first).digest = Resolved(input.second).digest
                   <=> \A i \in DOMAIN input.refs :
                          Content(input.refs[i], input.first[i])
                            = Content(input.refs[i], input.second[i])
      <3>1. Resolved(input.first).digest = Resolved(input.second).digest
              <=> \A i \in DOMAIN input.refs :
                     Resolved(input.first).digest[i] = Resolved(input.second).digest[i]
        BY DEF Resolved, Refs!ResolveReferences
      <3>2. ASSUME NEW i \in DOMAIN input.refs
            PROVE  Resolved(input.first).digest[i] = Resolved(input.second).digest[i]
                     <=> Content(input.refs[i], input.first[i])
                           = Content(input.refs[i], input.second[i])
        <4> DEFINE d1 == Resolved(input.first).digest[i]
                   d2 == Resolved(input.second).digest[i]
                   c1 == Content(input.refs[i], input.first[i])
                   c2 == Content(input.refs[i], input.second[i])
        <4>1. SameOne(d1, c1) /\ SameOne(d2, c2)
          BY <2>3, <2>6 DEF Tells
        <4> HIDE DEF d1, d2, c1, c2
        <4>2. d1 = d2 <=> c1 = c2
          BY <4>1, OfOne
        <4> QED
          BY <4>2 DEF d1, d2, c1, c2
      <3> QED
        BY <3>1, <3>2
    <2> USE <2>1
    <2>7. result[1].first.error = "none" /\ result[1].second.error = "none" =>
            (result[1].first.digest = result[1].second.digest
               <=> \A i \in DOMAIN input.refs :
                      Content(input.refs[i], input.first[i])
                        = Content(input.refs[i], input.second[i]))
      BY <2>6
    <2>8. {<<result[1].first, input.first>>, <<result[1].second, input.second>>}
            = {<<Resolved(input.first), input.first>>, <<Resolved(input.second), input.second>>}
      OBVIOUS
    <2> QED
      BY <2>5, <2>7, <2>8 DEF ReferencesTold
  <1> QED
    BY <1>1, <1>2, <1>3, PTL DEF Spec

(***************************************************************************)
(* Managed fields                                                          *)
(***************************************************************************)

\* Numbers can be compared, so a set of them that is bounded has a largest element.
LEMMA LargestPosition ==
  ASSUME NEW n \in Nat, NEW S \in SUBSET (0 .. n), S # {}
  PROVE  /\ Fields!Max(S) \in S
         /\ \A i \in S : i =< Fields!Max(S)
  <1> DEFINE T == {n - i : i \in S}
  <1>1. T \subseteq Nat /\ T # {}
    <2>1. PICK i : i \in S
      OBVIOUS
    <2>2. n - i \in T
      BY <2>1
    <2>3. \A j \in S : j \in Int /\ j =< n
      OBVIOUS
    <2> QED
      BY <2>2, <2>3
  <1>2. PICK m \in T : \A k \in T : m =< k
    <2> HIDE DEF T
    <2> QED
      BY <1>1, LeastNumber
  <1>3. \A j \in S : m =< n - j
    BY <1>2
  <1>4. PICK i \in S : m = n - i
    BY <1>2
  <1>5. \A j \in S : i >= j
    BY <1>3, <1>4
  <1> QED
    BY <1>4, <1>5 DEF Fields!Max

\* Where the next entry is put.
LEMMA BehindAll ==
  ASSUME NEW e, NEW n \in Nat, DOMAIN e \subseteq 1 .. n
  PROVE  /\ Fields!Behind(e) \in 1 .. n + 1
         /\ \A i \in DOMAIN e : i < Fields!Behind(e)
  <1> DEFINE S == {0} \cup DOMAIN e
  <1>1. S \in SUBSET (0 .. n) /\ S # {}
    OBVIOUS
  <1>2. Fields!Max(S) \in S /\ \A i \in S : i =< Fields!Max(S)
    <2> HIDE DEF S
    <2> QED
      BY <1>1, LargestPosition
  <1> QED
    BY <1>2 DEF Fields!Behind

\* The last of our own entries.
LEMMA OwnEntryIsLast ==
  ASSUME NEW e, NEW n \in Nat, DOMAIN e \subseteq 1 .. n
  PROVE  /\ Fields!OwnEntries(e) = {} => Fields!OwnEntry(e) = 0
         /\ Fields!OwnEntries(e) # {} =>
               /\ Fields!OwnEntry(e) \in Fields!OwnEntries(e)
               /\ \A i \in Fields!OwnEntries(e) : i =< Fields!OwnEntry(e)
  <1>1. Fields!OwnEntries(e) \subseteq 0 .. n
    BY DEF Fields!OwnEntries
  <1>2. ASSUME Fields!OwnEntries(e) # {}
        PROVE  \E i \in Fields!OwnEntries(e) : \A j \in Fields!OwnEntries(e) : j =< i
    BY <1>1, <1>2, LargestPosition
  <1> QED
    BY <1>1, <1>2 DEF Fields!OwnEntry

\* Entries are records.
Whole(e) ==
    \A i \in DOMAIN e :
        e[i] = [manager |-> e[i].manager, operation |-> e[i].operation,
                subresource |-> e[i].subresource, fields |-> e[i].fields]

\* A list of entries as an update leaves it: one of ours, nothing else to be reclaimed.
Tidy(e, override, own) ==
    /\ own \in DOMAIN e
    /\ Fields!ApplyEntries(e) = {own}
    /\ DOMAIN e \ {own} = Fields!Foreign(e, override)
    /\ own \in Fields!OwnEntries(e) /\ e[own].subresource = ""
    /\ \A i \in Fields!OwnEntries(e) : i =< own

\* Nothing is left to be prepared in it.
LEMMA TidyPrepared ==
  ASSUME NEW e, NEW override, NEW own, NEW n \in Nat, DOMAIN e \subseteq 1 .. n,
         Tidy(e, override, own)
  PROVE  Fields!Prepared(e, override) = e
  <1>1. /\ own \in Fields!OwnEntries(e) /\ Fields!OwnEntries(e) \subseteq 1 .. n
        /\ \A i \in Fields!OwnEntries(e) : i =< own
    BY DEF Tidy, Fields!OwnEntries
  <1>2. Fields!OwnEntry(e) = own
    <2>1. Fields!OwnEntry(e) \in Fields!OwnEntries(e) /\ own =< Fields!OwnEntry(e)
      BY <1>1, OwnEntryIsLast
    <2> QED
      BY <1>1, <2>1
  <1>3. Fields!Moved(e, override) = {}
    BY <1>2 DEF Tidy, Fields!Moved, Fields!Foreign
  <1> QED
    BY <1>3 DEF Fields!Prepared

\* The list p has the entries F of e, unchanged, and at most one more, of ours, with
\* all other fields.
Reclaims(e, override, p, F) ==
    /\ Len(e) \in Nat /\ DOMAIN p \subseteq 1 .. Len(e) + 1
    /\ Whole(p) /\ F \subseteq DOMAIN e
    /\ \A i \in F : i \in DOMAIN p /\ p[i] = e[i]
    /\ \/ Fields!ApplyEntries(p) = {} /\ DOMAIN p = F /\ F = DOMAIN e /\ p = e
       \/ \E own \in DOMAIN p \ F :
             /\ Tidy(p, override, own) /\ DOMAIN p = F \cup {own}
             /\ p[own].fields = Fields!AllFields(e, DOMAIN e \ F)

\* What the preparation makes of a list of entries.
LEMMA PreparedIsTidy ==
  ASSUME NEW e, Fields!IsList(e), NEW override,
         NEW p, p = Fields!Prepared(e, override),
         NEW F, F = Fields!Foreign(e, override)
  PROVE  Reclaims(e, override, p, F)
  <1> DEFINE own == Fields!OwnEntry(e)
             M == Fields!Moved(e, override)
             next == Fields!Behind(e)
  <1>1. DOMAIN e = 1 .. Len(e) /\ Len(e) \in Nat
    <2>1. e \in Seq({e[i] : i \in DOMAIN e})
      BY DEF Fields!IsList
    <2> QED
      BY <2>1
  <1>2. /\ next \in 1 .. Len(e) + 1
        /\ \A i \in DOMAIN e : i < next
        /\ next \notin DOMAIN e
    <2>1. next \in 1 .. Len(e) + 1 /\ \A i \in DOMAIN e : i < next
      BY <1>1, BehindAll
    <2> QED
      BY <1>1, <2>1
  <1>3. \/ own = 0 /\ Fields!OwnEntries(e) = {}
        \/ /\ own \in Fields!OwnEntries(e)
           /\ \A i \in Fields!OwnEntries(e) : i =< own
    BY <1>1, OwnEntryIsLast
  <1>4. Fields!Us \in Fields!Reclaimed(override)
    BY DEF Fields!Reclaimed
  <1>5. \A i \in Fields!OwnEntries(e) : e[i].subresource = "" /\ i \notin F
    BY <1>4 DEF Fields!IsList, Fields!OwnEntries, Fields!Foreign
  <1>6. /\ F \subseteq DOMAIN e
        /\ DOMAIN e \ F = M \cup ({own} \ {0})
        /\ own \notin F
    <2>1. F \subseteq DOMAIN e
      BY DEF Fields!Foreign
    <2>2. own \notin F /\ own \in {0} \cup (DOMAIN e \ F) /\ 0 \notin DOMAIN e
      <3>1. Fields!OwnEntries(e) \subseteq DOMAIN e /\ 0 \notin DOMAIN e
        BY <1>1 DEF Fields!OwnEntries
      <3> HIDE DEF own
      <3> QED
        BY <1>3, <1>5, <2>1, <3>1
    <2>3. M = (DOMAIN e \ F) \ {own}
      BY DEF Fields!Moved, Fields!Foreign
    <2> QED
      BY <2>1, <2>2, <2>3
  <1>9. Whole(e)
    BY DEF Fields!IsList, Whole
  <1>7. CASE M = {}
    <2>1. p = e /\ DOMAIN p \subseteq 1 .. Len(e) + 1
      BY <1>1, <1>7 DEF Fields!Prepared
    <2>2. CASE own = 0
      <3>1. Fields!OwnEntries(e) = {}
        BY <1>1, <1>3, <2>2 DEF Fields!OwnEntries
      <3>2. Fields!ApplyEntries(e) = {}
        BY <3>1 DEF Fields!ApplyEntries, Fields!OwnEntries
      <3>3. F = DOMAIN e
        BY <1>6, <1>7, <2>2
      <3> QED
        BY <1>1, <1>9, <2>1, <3>2, <3>3 DEF Reclaims
    <2>3. CASE own # 0
      <3>1. own \in Fields!OwnEntries(e) /\ own \in DOMAIN e /\ DOMAIN e = F \cup {own}
        BY <1>3, <1>6, <1>7, <2>3 DEF Fields!OwnEntries
      <3>2. Fields!ApplyEntries(e) = {own}
        BY <1>4, <1>5, <3>1 DEF Fields!ApplyEntries, Fields!OwnEntries, Fields!Foreign
      <3>3. Tidy(p, override, own)
        BY <1>3, <1>5, <1>6, <2>1, <3>1, <3>2 DEF Tidy
      <3>4. p[own].fields = Fields!AllFields(e, DOMAIN e \ F)
        <4>1. DOMAIN e \ F = {own}
          BY <1>6, <3>1
        <4> QED
          BY <2>1, <4>1 DEF Fields!AllFields
      <3> HIDE DEF own
      <3>5. own \in DOMAIN p \ F /\ DOMAIN p = F \cup {own}
        BY <1>6, <2>1, <3>1
      <3> QED
        BY <1>1, <1>6, <1>9, <2>1, <3>3, <3>4, <3>5 DEF Reclaims
    <2> QED
      BY <2>2, <2>3
  <1>8. CASE M # {}
    <2> DEFINE merged == Fields!Merged(e, override)
    <2>1. /\ DOMAIN p = F \cup {next}
          /\ p[next] = merged
          /\ \A i \in F : p[i] = e[i]
      <3>1. Fields!Others(e, override) = F
        BY <1>1, <1>6 DEF Fields!Others
      <3> QED
        BY <1>2, <1>6, <1>8, <3>1 DEF Fields!Prepared
    <2>2. /\ merged = [manager |-> merged.manager, operation |-> merged.operation,
                       subresource |-> merged.subresource, fields |-> merged.fields]
          /\ merged.manager = Fields!Us /\ merged.operation = "Apply"
          /\ merged.fields = Fields!AllFields(e, DOMAIN e \ F)
      BY <1>6 DEF Fields!Merged
    <2>3. merged.subresource = ""
      BY <1>3, <1>5 DEF Fields!Merged
    <2>4. Fields!OwnEntries(p) \subseteq DOMAIN p /\ next \in Fields!OwnEntries(p)
      BY <2>1, <2>2 DEF Fields!OwnEntries
    <2>5. Fields!ApplyEntries(p) = {next}
      BY <1>4, <2>1, <2>2, <2>3 DEF Fields!ApplyEntries, Fields!Foreign
    <2>6. Fields!Foreign(p, override) = F
      BY <1>4, <1>6, <2>1, <2>2, <2>3 DEF Fields!Foreign
    <2>7. Tidy(p, override, next)
      <3>1. \A i \in DOMAIN p : i =< next
        BY <1>1, <1>2, <1>6, <2>1
      <3>2. next \notin F
        BY <1>2, <1>6
      <3> HIDE DEF next, merged
      <3> QED
        BY <2>1, <2>3, <2>4, <2>5, <2>6, <3>1, <3>2 DEF Tidy
    <2> HIDE DEF merged
    <2>8. Whole(p)
      BY <1>6, <1>9, <2>1, <2>2 DEF Whole
    <2>9. DOMAIN p \subseteq 1 .. Len(e) + 1
      BY <1>1, <1>2, <1>6, <2>1
    <2> QED
      BY <1>1, <1>2, <1>6, <2>1, <2>2, <2>7, <2>8, <2>9 DEF Reclaims
  <1> QED
    BY <1>7, <1>8

\* The preparation leaves a tidy list.
LEMMA PreparedTidy ==
  ASSUME NEW e, Fields!IsList(e), NEW override
  PROVE  Reclaims(e, override, Fields!Prepared(e, override), Fields!Foreign(e, override))
  BY PreparedIsTidy

\* The list is prepared once: a failure after that changes nothing.
LEMMA PreparedOnce ==
  ASSUME NEW e, Fields!IsList(e), NEW override
  PROVE  Fields!Prepared(Fields!Prepared(e, override), override) = Fields!Prepared(e, override)
  <1>1. PICK p : p = Fields!Prepared(e, override)
    OBVIOUS
  <1>2. PICK F : F = Fields!Foreign(e, override)
    OBVIOUS
  <1>r. Reclaims(e, override, p, F)
    BY <1>1, <1>2, PreparedTidy
  <1>3. PICK n \in Nat : DOMAIN p \subseteq 1 .. n
    <2>1. Len(e) + 1 \in Nat /\ DOMAIN p \subseteq 1 .. Len(e) + 1
      BY <1>r DEF Reclaims
    <2> QED
      BY <2>1
  <1>4. CASE p = e
    BY <1>1, <1>4
  <1>5. ASSUME NEW own, Tidy(p, override, own)
        PROVE  Fields!Prepared(p, override) = p
    BY <1>3, <1>5, TidyPrepared
  <1>6. p = e \/ \E own \in DOMAIN p \ F : Tidy(p, override, own)
    BY <1>r DEF Reclaims
  <1> QED
    BY <1>1, <1>4, <1>5, <1>6

\* The fields of entries that are the same.
LEMMA SameFields ==
  ASSUME NEW e, NEW p, NEW F, \A i \in F : p[i].fields = e[i].fields
  PROVE  Fields!AllFields(p, F) = Fields!AllFields(e, F)
  BY DEF Fields!AllFields

\* The object has what is desired or managed by others.
LEMMA AppliedAsExpected ==
  ASSUME NEW e, Fields!IsList(e), NEW override, NEW desired
  PROVE  Fields!AppliedObject(Fields!AllFields(e, DOMAIN e), Fields!Prepared(e, override), desired)
           = desired \cup Fields!AllFields(e, Fields!Foreign(e, override))
  <1>1. PICK p : p = Fields!Prepared(e, override)
    OBVIOUS
  <1>2. PICK F : F = Fields!Foreign(e, override)
    OBVIOUS
  <1>r. Reclaims(e, override, p, F)
    BY <1>1, <1>2, PreparedTidy
  <1>3. /\ F \subseteq DOMAIN e
        /\ \A i \in F : i \in DOMAIN p /\ p[i] = e[i]
        /\ \/ Fields!ApplyEntries(p) = {} /\ DOMAIN p = F /\ F = DOMAIN e
           \/ \E own \in DOMAIN p \ F :
                 /\ Tidy(p, override, own) /\ DOMAIN p = F \cup {own}
                 /\ p[own].fields = Fields!AllFields(e, DOMAIN e \ F)
    BY <1>r DEF Reclaims
  <1>4. Fields!AllFields(p, F) = Fields!AllFields(e, F)
    BY <1>3, SameFields
  <1>5. Fields!AllFields(e, DOMAIN e)
          = Fields!AllFields(e, F) \cup Fields!AllFields(e, DOMAIN e \ F)
    BY <1>3 DEF Fields!AllFields
  <1>6. CASE Fields!ApplyEntries(p) = {} /\ DOMAIN p = F /\ F = DOMAIN e
    <2>1. Fields!AllFields(p, {}) = {}
      BY DEF Fields!AllFields
    <2> QED
      BY <1>1, <1>2, <1>4, <1>6, <2>1 DEF Fields!AppliedObject
  <1>7. ASSUME NEW own \in DOMAIN p \ F, Tidy(p, override, own), DOMAIN p = F \cup {own},
               p[own].fields = Fields!AllFields(e, DOMAIN e \ F)
        PROVE  Fields!AppliedObject(Fields!AllFields(e, DOMAIN e), p, desired)
                 = desired \cup Fields!AllFields(e, F)
    <2>1. Fields!ApplyEntries(p) = {own} /\ DOMAIN p \ {own} = F
      BY <1>7 DEF Tidy
    <2>2. Fields!AllFields(p, {own}) = Fields!AllFields(e, DOMAIN e \ F)
      BY <1>7 DEF Fields!AllFields
    <2> QED
      BY <1>4, <1>5, <2>1, <2>2 DEF Fields!AppliedObject
  <1> QED
    BY <1>1, <1>2, <1>3, <1>6, <1>7

\* The list of entries after an update is tidy, and tells what is there.
LEMMA AppliedTidy ==
  ASSUME NEW e, Fields!IsList(e), NEW override, NEW desired, NEW conflicting
  PROVE  LET a == Fields!AppliedEntries(Fields!Prepared(e, override), desired, conflicting)
             expected == desired \cup Fields!AllFields(e, Fields!Foreign(e, override))
         IN  /\ Fields!Prepared(a, override) = a
             /\ Fields!AppliedObject(expected, a, desired) = expected
  <1>1. PICK p : p = Fields!Prepared(e, override)
    OBVIOUS
  <1>2. PICK F : F = Fields!Foreign(e, override)
    OBVIOUS
  <1>r. Reclaims(e, override, p, F)
    BY <1>1, <1>2, PreparedTidy
  <1>3. PICK n \in Nat : DOMAIN p \subseteq 1 .. n
    <2>1. Len(e) + 1 \in Nat /\ DOMAIN p \subseteq 1 .. Len(e) + 1
      BY <1>r DEF Reclaims
    <2> QED
      BY <2>1
  <1>4. /\ Whole(p) /\ F \subseteq DOMAIN e
        /\ \A i \in F : i \in DOMAIN p /\ p[i] = e[i]
        /\ \/ Fields!ApplyEntries(p) = {} /\ DOMAIN p = F
           \/ \E own \in DOMAIN p \ F : Tidy(p, override, own) /\ DOMAIN p = F \cup {own}
    BY <1>r DEF Reclaims
  <1>5. DOMAIN p \ Fields!ApplyEntries(p) = F
    BY <1>4 DEF Tidy
  <1>6. PICK a : a = Fields!AppliedEntries(p, desired, conflicting)
    OBVIOUS
  <1>7. PICK own : own = Fields!Behind(p)
    OBVIOUS
  <1>8. own \in 1 .. n + 1 /\ \A i \in DOMAIN p : i < own
    BY <1>3, <1>7, BehindAll
  <1>9. /\ DOMAIN a = F \cup {own} /\ own \notin F
        /\ a[own].manager = Fields!Us /\ a[own].operation = "Apply"
        /\ a[own].subresource = "" /\ a[own].fields = desired
        /\ \A i \in F : /\ a[i].manager = e[i].manager
                         /\ a[i].operation = e[i].operation
                         /\ a[i].subresource = e[i].subresource
    <2>1. own \notin F
      BY <1>3, <1>4, <1>8
    <2>2. /\ DOMAIN a = F \cup {own}
          /\ a[own] = [manager |-> Fields!Us, operation |-> "Apply", subresource |-> "",
                     fields |-> desired]
          /\ \A i \in F : a[i] = [p[i] EXCEPT !.fields = @ \ (desired \cap conflicting)]
      BY <1>5, <1>6, <1>7, <2>1 DEF Fields!AppliedEntries
    <2>3. ASSUME NEW i \in F
          PROVE  /\ a[i].manager = e[i].manager /\ a[i].operation = e[i].operation
                 /\ a[i].subresource = e[i].subresource
      <3>1. p[i] = [manager |-> p[i].manager, operation |-> p[i].operation,
                    subresource |-> p[i].subresource, fields |-> p[i].fields]
        BY <1>4 DEF Whole
      <3>2. p[i] = e[i]
        BY <1>4
      <3>3. a[i] = [p[i] EXCEPT !.fields = @ \ (desired \cap conflicting)]
        BY <2>2
      <3> QED
        BY <3>1, <3>2, <3>3
    <2>4. /\ a[own].manager = Fields!Us /\ a[own].operation = "Apply"
          /\ a[own].subresource = "" /\ a[own].fields = desired
      <3>1. PICK r : r = [manager |-> Fields!Us, operation |-> "Apply", subresource |-> "",
                     fields |-> desired]
        OBVIOUS
      <3>2. r.manager = Fields!Us /\ r.operation = "Apply" /\ r.subresource = ""
            /\ r.fields = desired
        BY <3>1
      <3>3. a[own] = r
        BY <2>2, <3>1
      <3> QED
        BY <3>2, <3>3
    <2> QED
      BY <2>1, <2>2, <2>3, <2>4
  <1>10. Tidy(a, override, own)
    <2>1. \A i \in F : ~ (/\ a[i].manager = Fields!Us
                          /\ a[i].subresource = "")
      BY <1>2, <1>9 DEF Fields!Foreign, Fields!Reclaimed
    <2>2. Fields!ApplyEntries(a) = {own}
      BY <1>9, <2>1 DEF Fields!ApplyEntries
    <2>3. own \in Fields!OwnEntries(a) /\ Fields!OwnEntries(a) \subseteq DOMAIN a
      BY <1>9 DEF Fields!OwnEntries
    <2>4. \A i \in DOMAIN a : i =< own
      <3>1. own \in Nat /\ \A i \in F : i \in Nat /\ i < own
        BY <1>3, <1>4, <1>8
      <3>2. DOMAIN a = F \cup {own}
        BY <1>9
      <3> QED
        BY <3>1, <3>2
    <2>5. Fields!Foreign(a, override) = F
      BY <1>2, <1>4, <1>9 DEF Fields!Foreign, Fields!Reclaimed
    <2> QED
      BY <1>9, <2>2, <2>3, <2>4, <2>5 DEF Tidy
  <1>11. DOMAIN a \subseteq 1 .. n + 1
    <2>1. own \in 1 .. n + 1 /\ F \subseteq 1 .. n + 1
      BY <1>3, <1>4, <1>8
    <2> QED
      BY <1>9, <2>1
  <1>12. Fields!Prepared(a, override) = a
    BY <1>3, <1>10, <1>11, TidyPrepared
  <1>13. ASSUME NEW expected, desired \subseteq expected
         PROVE  Fields!AppliedObject(expected, a, desired) = expected
    <2>1. Fields!AllFields(a, {own}) = desired
      BY <1>9 DEF Fields!AllFields
    <2> QED
      BY <1>10, <1>13, <2>1 DEF Tidy, Fields!AppliedObject
  <1> QED
    BY <1>1, <1>6, <1>12, <1>13

\* Server-side apply reclaims what it should, for any entries of any managers: what an
\* update leaves is what is desired or managed by others.
THEOREM UpdatesReclaim == Spec => []FieldsReclaimed
  <1> DEFINE present == Fields!AllFields(input.entries, DOMAIN input.entries)
             prepared == Fields!Prepared(input.entries, input.override)
             answer == [present |-> Fields!Updated(present, input.entries, input.desired,
                                                   input.override),
                        retried |-> Fields!Updated(present, prepared, input.desired,
                                                   input.override),
                        entries |-> Fields!AppliedEntries(prepared, input.desired,
                                                          input.conflicting)]
             Inv == asked = "update" =>
                      input \in UpdateInputs /\ (result = <<>> \/ result = <<answer>>)
  <1>1. Init => Inv
    BY DEF Init
  <1>2. Inv /\ [Next]_vars => Inv'
    <2> SUFFICES ASSUME Inv, [Next]_vars
                 PROVE  Inv'
      OBVIOUS
    <2>1. asked' = asked /\ input' = input
      BY DEF Next, vars, Answer, AnnotateHooks, RenderChart, EnableSubchart,
             AnalyzeStatus, UpdateObject, ResolveReferences
    <2>2. CASE UNCHANGED vars \/ asked # "update"
      BY <2>1, <2>2 DEF vars
    <2>3. CASE asked = "update" /\ Next
      <3>1. result' = <<answer>>
        BY <2>3 DEF Next, Answer, AnnotateHooks, RenderChart, EnableSubchart,
                    AnalyzeStatus, UpdateObject, ResolveReferences
      <3> QED
        BY <2>1, <3>1
    <2> QED
      BY <2>2, <2>3
  <1>3. Inv => FieldsReclaimed
    <2> DEFINE expected == input.desired \cup
                 Fields!AllFields(input.entries, Fields!Foreign(input.entries, input.override))
    <2> SUFFICES ASSUME Inv, Answered("update")
                 PROVE  /\ result[1].present = expected /\ result[1].retried = expected
                        /\ Fields!Prepared(result[1].entries, input.override)
                              = result[1].entries
                        /\ Fields!Updated(expected, result[1].entries, input.desired,
                                          input.override) = expected
      BY DEF FieldsReclaimed
    <2>1. result[1] = answer /\ Fields!IsList(input.entries)
      BY InputsAssumption DEF Answered
    <2>2. Fields!Updated(present, input.entries, input.desired, input.override) = expected
      BY <2>1, AppliedAsExpected DEF Fields!Updated
    <2>3. Fields!Updated(present, prepared, input.desired, input.override) = expected
      BY <2>1, AppliedAsExpected, PreparedOnce DEF Fields!Updated
    <2>4. /\ Fields!Prepared(answer.entries, input.override) = answer.entries
          /\ Fields!AppliedObject(expected, answer.entries, input.desired) = expected
      BY <2>1, AppliedTidy
    <2>5. Fields!Updated(expected, answer.entries, input.desired, input.override) = expected
      BY <2>4 DEF Fields!Updated
    <2>6. /\ result[1].entries = answer.entries
          /\ result[1].present = Fields!Updated(present, input.entries, input.desired,
                                               input.override)
          /\ result[1].retried = Fields!Updated(present, prepared, input.desired,
                                               input.override)
      BY <2>1
    <2> HIDE DEF answer, expected, present, prepared
    <2> QED
      BY <2>2, <2>3, <2>4, <2>5, <2>6
  <1> QED
    BY <1>1, <1>2, <1>3, PTL DEF Spec

(***************************************************************************)
(* Tags and conditions                                                     *)
(***************************************************************************)

\* The variables of the loop over the tags before the first one, and from one to the next.
NoTag == [enabled |-> TRUE, matched |-> FALSE]
NextTag(tags, acc, n) ==
    IF tags[n] = "absent" THEN acc ELSE Chart!AfterTag(acc, tags[n] = "true")

\* f has the variables of the loop after up to n tags.
Loops(f, tags, n) ==
    /\ f = [i \in 0 .. n |-> f[i]]
    /\ f[0] = NoTag
    /\ \A i \in 1 .. n : f[i] = NextTag(tags, f[i - 1], i)

\* The recursion that defines the loop has a solution for any number of tags.
LEMMA LoopExists ==
  ASSUME NEW tags, NEW n \in Nat
  PROVE  \E f : Loops(f, tags, n)
  <1> DEFINE T == {m \in Nat : ~ \E f : Loops(f, tags, m)}
  <1> SUFFICES ASSUME T # {}
               PROVE  FALSE
    OBVIOUS
  <1>1. PICK m \in T : \A k \in T : m =< k
    <2>1. T \in SUBSET Nat
      OBVIOUS
    <2> HIDE DEF T
    <2> QED
      BY <2>1, LeastNumber
  <1>2. CASE m = 0
    <2> DEFINE f == [i \in 0 .. 0 |-> NoTag]
    <2>1. f = [i \in 0 .. 0 |-> f[i]] /\ f[0] = NoTag
      OBVIOUS
    <2> HIDE DEF f
    <2>2. Loops(f, tags, 0)
      BY <2>1 DEF Loops
    <2> QED
      BY <1>2, <2>2
  <1>3. CASE m # 0
    <2>1. m - 1 \in Nat /\ m - 1 \notin T
      BY <1>1, <1>3
    <2>2. PICK g : Loops(g, tags, m - 1)
      BY <2>1
    <2> DEFINE f == [i \in 0 .. m |-> IF i = m THEN NextTag(tags, g[m - 1], m) ELSE g[i]]
    <2>3. /\ \A i \in 0 .. m - 1 : f[i] = g[i]
          /\ f[m] = NextTag(tags, g[m - 1], m)
          /\ f = [i \in 0 .. m |-> f[i]]
      BY <2>1
    <2> HIDE DEF f
    <2>4. f[0] = NoTag
      <3>1. 0 \in 0 .. m - 1 /\ g[0] = NoTag
        BY <2>1, <2>2 DEF Loops
      <3> QED
        BY <2>3, <3>1
    <2>5. ASSUME NEW i \in 1 .. m
          PROVE  f[i] = NextTag(tags, f[i - 1], i)
      <3>1. f[i - 1] = g[i - 1]
        <4>1. m \in Nat /\ i - 1 \in 0 .. m - 1
          BY <2>1
        <4>2. \A j \in 0 .. m - 1 : f[j] = g[j]
          BY <2>3
        <4> QED
          BY <4>1, <4>2
      <3>2. CASE i = m
        BY <2>3, <3>1, <3>2
      <3>3. CASE i # m
        <4>1. i \in 1 .. m - 1 /\ i \in 0 .. m - 1
          BY <2>1, <3>3
        <4>2. g[i] = NextTag(tags, g[i - 1], i)
          BY <2>2, <4>1 DEF Loops
        <4> QED
          BY <2>3, <3>1, <4>1, <4>2
      <3> QED
        BY <3>2, <3>3
    <2>6. Loops(f, tags, m)
      BY <2>3, <2>4, <2>5 DEF Loops
    <2> QED
      BY <2>6
  <1> QED
    BY <1>2, <1>3

\* What the loop has seen after any number of tags.
LEMMA LoopSees ==
  ASSUME NEW tags, NEW n \in Nat, NEW f, Loops(f, tags, n)
  PROVE  /\ f[n].matched <=> \E i \in 1 .. n : tags[i] # "absent"
         /\ f[n].enabled <=> \/ \A i \in 1 .. n : tags[i] = "absent"
                             \/ \E i \in 1 .. n : tags[i] = "true"
  <1> DEFINE Seen(m) ==
               /\ f[m].matched \in BOOLEAN /\ f[m].enabled \in BOOLEAN
               /\ f[m].matched <=> \E i \in 1 .. m : tags[i] # "absent"
               /\ f[m].enabled <=> \/ \A i \in 1 .. m : tags[i] = "absent"
                                   \/ \E i \in 1 .. m : tags[i] = "true"
             T == {m \in 0 .. n : ~ Seen(m)}
  <1> SUFFICES ASSUME T # {}
               PROVE  FALSE
    <2>1. n \in 0 .. n
      OBVIOUS
    <2> QED
      BY <2>1
  <1>1. PICK m \in T : \A k \in T : m =< k
    <2>1. T \in SUBSET Nat
      OBVIOUS
    <2> HIDE DEF T
    <2> QED
      BY <2>1, LeastNumber
  <1>2. m \in 0 .. n /\ ~ Seen(m)
    BY <1>1
  <1>3. CASE m = 0
    <2>1. f[0] = NoTag
      BY DEF Loops
    <2> QED
      BY <1>2, <1>3, <2>1 DEF NoTag
  <1>4. CASE m # 0
    <2>1. m - 1 \in 0 .. n /\ m \in 1 .. n /\ m - 1 \notin T
      BY <1>1, <1>2, <1>4
    <2>2. Seen(m - 1)
      BY <2>1
    <2>3. f[m] = NextTag(tags, f[m - 1], m)
      BY <2>1 DEF Loops
    <2>4. 1 .. m = 1 .. (m - 1) \cup {m}
      BY <2>1
    <2>5. CASE tags[m] = "absent"
      <3>1. f[m] = f[m - 1]
        BY <2>3, <2>5 DEF NextTag
      <3>2. Seen(m)
        BY <2>2, <2>4, <2>5, <3>1
      <3> QED
        BY <1>2, <3>2
    <2>6. CASE tags[m] # "absent"
      <3>1. f[m] = Chart!AfterTag(f[m - 1], tags[m] = "true")
        BY <2>3, <2>6 DEF NextTag
      <3>2. /\ f[m].matched = TRUE
            /\ f[m].enabled = (tags[m] = "true" \/ (f[m - 1].matched /\ f[m - 1].enabled))
        BY <3>1 DEF Chart!AfterTag
      <3>3. Seen(m)
        BY <2>2, <2>4, <2>6, <3>2
      <3> QED
        BY <1>2, <3>3
    <2> QED
      BY <2>5, <2>6
  <1> QED
    BY <1>3, <1>4

\* The tags alone: one that is true, or none that has a value.
LEMMA TagsDecide ==
  ASSUME NEW tags, Len(tags) \in Nat
  PROVE  Chart!ByTags(tags) <=> \/ \A i \in 1 .. Len(tags) : tags[i] = "absent"
                                \/ \E i \in 1 .. Len(tags) : tags[i] = "true"
  <1> DEFINE Body(after) ==
               [n \in 0 .. Len(tags) |->
                  IF n = 0 THEN NoTag ELSE NextTag(tags, after[n - 1], n)]
  <1>1. PICK f : Loops(f, tags, Len(tags))
    BY LoopExists
  <1>2. f = Body(f)
    <2>1. \A n \in 0 .. Len(tags) :
             f[n] = IF n = 0 THEN NoTag ELSE NextTag(tags, f[n - 1], n)
      <3>1. \A n \in 0 .. Len(tags) : n = 0 \/ n \in 1 .. Len(tags)
        OBVIOUS
      <3> QED
        BY <1>1, <3>1 DEF Loops
    <2> QED
      BY <1>1, <2>1 DEF Loops
  <1>3. Chart!TagLoop(tags) = CHOOSE after : after = Body(after)
    BY DEF Chart!TagLoop, NoTag, NextTag
  <1>4. PICK loop : loop = Chart!TagLoop(tags)
    OBVIOUS
  <1>5. loop = Body(loop)
    BY <1>2, <1>3, <1>4
  <1>6. Loops(loop, tags, Len(tags))
    <2>1. \A n \in 0 .. Len(tags) :
             loop[n] = IF n = 0 THEN NoTag ELSE NextTag(tags, loop[n - 1], n)
      BY <1>5
    <2>2. loop = [n \in 0 .. Len(tags) |-> loop[n]]
      BY <1>5
    <2>3. loop[0] = NoTag
      BY <2>1
    <2>4. ASSUME NEW n \in 1 .. Len(tags)
          PROVE  loop[n] = NextTag(tags, loop[n - 1], n)
      <3>1. n \in 0 .. Len(tags) /\ n # 0
        OBVIOUS
      <3> QED
        BY <2>1, <3>1
    <2> QED
      BY <2>2, <2>3, <2>4 DEF Loops
  <1> QED
    BY <1>4, <1>6, LoopSees DEF Chart!ByTags

\* The first condition that is found, if any.
LEMMA FirstIsFound ==
  ASSUME NEW conditions, Len(conditions) \in Nat,
         DOMAIN conditions = 1 .. Len(conditions)
  PROVE  LET first == Chart!FirstFound(conditions)
         IN  \/ first = 0 /\ \A i \in DOMAIN conditions : conditions[i] = "absent"
             \/ /\ first \in DOMAIN conditions /\ conditions[first] # "absent"
                /\ \A i \in DOMAIN conditions : i < first => conditions[i] = "absent"
  <1> DEFINE I == {i \in 1 .. Len(conditions) : conditions[i] # "absent"}
  <1>1. Chart!FirstFound(conditions) = IF I # {} THEN Chart!Min(I) ELSE 0
    BY DEF Chart!FirstFound, Chart!SelectInSeq
  <1>2. CASE I = {}
    BY <1>1, <1>2
  <1>3. CASE I # {}
    <2>1. PICK m \in I : \A k \in I : m =< k
      <3>1. I \in SUBSET Nat
        OBVIOUS
      <3> HIDE DEF I
      <3> QED
        BY <1>3, <3>1, LeastNumber
    <2>2. Chart!Min(I) \in I /\ \A k \in I : Chart!Min(I) =< k
      <3> HIDE DEF I
      <3> QED
        BY <2>1 DEF Chart!Min
    <2>3. PICK first : first = Chart!FirstFound(conditions)
      OBVIOUS
    <2>4. first \in I /\ \A k \in I : first =< k
      <3> HIDE DEF I
      <3> QED
        BY <1>1, <1>3, <2>2, <2>3
    <2>5. \A i \in DOMAIN conditions : i < first => conditions[i] = "absent"
      BY <2>4
    <2> QED
      BY <2>3, <2>4, <2>5
  <1> QED
    BY <1>2, <1>3

\* Whether a dependency is enabled, for any number of tags and conditions.
LEMMA EnablementIsAsked ==
  ASSUME NEW tags \in Seq(Chart!Found), NEW conditions \in Seq(Chart!Found),
         NEW answer, answer = Chart!Enablement(tags, conditions), answer # "error"
  PROVE  /\ \A i \in DOMAIN conditions :
              /\ conditions[i] # "absent"
              /\ \A j \in DOMAIN conditions : j < i => conditions[j] = "absent"
              => (answer = "enabled" <=> conditions[i] = "true")
         /\ (\A i \in DOMAIN conditions : conditions[i] = "absent") =>
              (answer = "disabled" <=>
                  /\ \E i \in DOMAIN tags : tags[i] # "absent"
                  /\ \A i \in DOMAIN tags : tags[i] # "true")
  <1>1. PICK first : first = Chart!FirstFound(conditions)
    OBVIOUS
  <1>2. \/ first = 0 /\ \A i \in DOMAIN conditions : conditions[i] = "absent"
        \/ /\ first \in DOMAIN conditions /\ conditions[first] # "absent"
           /\ \A i \in DOMAIN conditions : i < first => conditions[i] = "absent"
    <2>1. Len(conditions) \in Nat /\ DOMAIN conditions = 1 .. Len(conditions)
      OBVIOUS
    <2> QED
      BY <1>1, <2>1, FirstIsFound
  <1>3. CASE first = 0 /\ \A i \in DOMAIN conditions : conditions[i] = "absent"
    <2>1. Len(tags) \in Nat /\ DOMAIN tags = 1 .. Len(tags)
      OBVIOUS
    <2>2. Chart!ByTags(tags) <=> \/ \A i \in DOMAIN tags : tags[i] = "absent"
                                 \/ \E i \in DOMAIN tags : tags[i] = "true"
      BY <2>1, TagsDecide
    <2>3. answer = IF Chart!ByTags(tags) THEN "enabled" ELSE "disabled"
      BY <1>1, <1>3 DEF Chart!Enablement
    <2>4. answer = "disabled" <=> ~ Chart!ByTags(tags)
      BY <2>3
    <2> QED
      BY <1>3, <2>2, <2>4
  <1>4. CASE first \in DOMAIN conditions /\ conditions[first] # "absent"
             /\ \A i \in DOMAIN conditions : i < first => conditions[i] = "absent"
    <2>1. DOMAIN conditions \subseteq Nat /\ 0 \notin DOMAIN conditions
      OBVIOUS
    <2>2. first # 0
      BY <1>4, <2>1
    <2>3. answer = IF conditions[first] = "true" THEN "enabled" ELSE "disabled"
      BY <1>1, <2>2 DEF Chart!Enablement
    <2>4. \A i \in DOMAIN conditions :
             /\ conditions[i] # "absent"
             /\ \A j \in DOMAIN conditions : j < i => conditions[j] = "absent"
             => i = first
      BY <1>4, <2>1
    <2>5. answer = "enabled" <=> conditions[first] = "true"
      BY <2>3
    <2> QED
      BY <1>4, <2>4, <2>5
  <1> QED
    BY <1>2, <1>3, <1>4

\* A subchart is enabled as its conditions and tags ask for, however many there are.
THEOREM SubchartsEnabled == Spec => []EnabledAsAsked
  <1> DEFINE Inv == asked = "tags" =>
                      /\ input.tags \in Seq(Chart!Found) /\ input.conditions \in Seq(Chart!Found)
                      /\ \/ result = <<>>
                         \/ result = <<Chart!Enablement(input.tags, input.conditions)>>
  <1>1. Init => Inv
    BY InputsAssumption DEF Init
  <1>2. Inv /\ [Next]_vars => Inv'
    <2> SUFFICES ASSUME Inv, [Next]_vars
                 PROVE  Inv'
      OBVIOUS
    <2>1. asked' = asked /\ input' = input
      BY DEF Next, vars, Answer, AnnotateHooks, RenderChart, EnableSubchart,
             AnalyzeStatus, UpdateObject, ResolveReferences
    <2>2. CASE UNCHANGED vars \/ asked # "tags"
      BY <2>1, <2>2 DEF vars
    <2>3. CASE asked = "tags" /\ Next
      <3>1. result' = <<Chart!Enablement(input.tags, input.conditions)>>
        BY <2>3 DEF Next, Answer, AnnotateHooks, RenderChart, EnableSubchart,
                    AnalyzeStatus, UpdateObject, ResolveReferences
      <3> QED
        BY <2>1, <3>1
    <2> QED
      BY <2>2, <2>3
  <1>3. Inv => EnabledAsAsked
    <2> SUFFICES ASSUME Inv, Answered("tags"), result[1] # "error"
                 PROVE  EnabledAsAsked
      BY DEF EnabledAsAsked
    <2>1. /\ result[1] = Chart!Enablement(input.tags, input.conditions)
          /\ input.tags \in Seq(Chart!Found) /\ input.conditions \in Seq(Chart!Found)
      BY DEF Answered
    <2> QED
      BY <2>1, EnablementIsAsked DEF EnabledAsAsked
  <1> QED
    BY <1>1, <1>2, <1>3, PTL DEF Spec

(***************************************************************************)
(* The values of subcharts                                                 *)
(***************************************************************************)

\* What the sources in I set at a path, where sh[src[i]] is the shape that the source src[i]
\* gives to it: the definition of Expected for some of the sources.
SetBy(src, sh, I) == UNION {sh[src[i]] : i \in I}

LastWith(src, sh, I, k) ==
    CHOOSE i \in I : k \in sh[src[i]] /\ \A j \in I : k \in sh[src[j]] => j =< i

Part(src, sh, I) ==
    IF SetBy(src, sh, I) = {} THEN Nothing
    ELSE IF SetBy(src, sh, I) = LeafShape THEN Chart!Leaf(src[LastWith(src, sh, I, AtPath)])
    ELSE Chart!Map([k \in SetBy(src, sh, I) \ LeafShape |->
                      Chart!Leaf(src[LastWith(src, sh, I, k)])])

\* The same without leaves over maps.
Clean(src, sh, I) ==
    /\ \A i \in I : sh[src[i]] \in Shapes
    /\ \A i, j \in I : i < j /\ sh[src[j]] = LeafShape => sh[src[i]] \subseteq LeafShape

\* Maps of leaves, one over the other.
Over(v, w) ==
    Chart!Map([k \in DOMAIN v.value \cup DOMAIN w.value |->
                 IF k \in DOMAIN w.value THEN w.value[k] ELSE v.value[k]])

\* What a merge makes of the values at a path.
Merged(v, w) ==
    IF w = Nothing THEN v
    ELSE IF v = Nothing THEN w
    ELSE IF v.kind # "map" THEN w
    ELSE IF w.kind = "map" THEN Over(v, w) ELSE Chart!NilMap

\* The last source that sets an entry.
LEMMA LastIsLast ==
  ASSUME NEW src, NEW sh, NEW I \in SUBSET (1 .. 5), NEW k, NEW i \in I, k \in sh[src[i]]
  PROVE  /\ LastWith(src, sh, I, k) \in I /\ k \in sh[src[LastWith(src, sh, I, k)]]
         /\ \A j \in I : k \in sh[src[j]] => j =< LastWith(src, sh, I, k)
  <1> DEFINE P(n) == n \in I /\ k \in sh[src[n]] /\ \A j \in I : k \in sh[src[j]] => j =< n
  <1>1. \E n : P(n)
    <2>1. CASE 5 \in I /\ k \in sh[src[5]]
      BY <2>1
    <2>2. CASE ~ (5 \in I /\ k \in sh[src[5]]) /\ 4 \in I /\ k \in sh[src[4]]
      BY <2>2
    <2>3. CASE /\ ~ (5 \in I /\ k \in sh[src[5]]) /\ ~ (4 \in I /\ k \in sh[src[4]])
               /\ 3 \in I /\ k \in sh[src[3]]
      BY <2>3
    <2>4. CASE /\ ~ (5 \in I /\ k \in sh[src[5]]) /\ ~ (4 \in I /\ k \in sh[src[4]])
               /\ ~ (3 \in I /\ k \in sh[src[3]]) /\ 2 \in I /\ k \in sh[src[2]]
      BY <2>4
    <2>5. CASE /\ ~ (5 \in I /\ k \in sh[src[5]]) /\ ~ (4 \in I /\ k \in sh[src[4]])
               /\ ~ (3 \in I /\ k \in sh[src[3]]) /\ ~ (2 \in I /\ k \in sh[src[2]])
      BY <2>5
    <2> QED
      BY <2>1, <2>2, <2>3, <2>4, <2>5
  <1>2. LastWith(src, sh, I, k) =
          CHOOSE n \in I : k \in sh[src[n]] /\ \A j \in I : k \in sh[src[j]] => j =< n
    BY DEF LastWith
  <1> QED
    BY <1>1, <1>2

\* The sources of the last value: those of J, if they set it, come after all others.
\* Those of J that are not in I, too, come after all of I.
After(I, J) == \A i \in I \ J, j \in J : i < j

\* Those of J set an entry last, if they set it at all.
LEMMA LastOfJoined ==
  ASSUME NEW src, NEW sh, NEW I \in SUBSET (1 .. 5), NEW J \in SUBSET (1 .. 5),
         After(I, J), NEW k, k \in SetBy(src, sh, I \cup J)
  PROVE  LastWith(src, sh, I \cup J, k) =
           IF k \in SetBy(src, sh, J) THEN LastWith(src, sh, J, k) ELSE LastWith(src, sh, I, k)
  <1> DEFINE K == I \cup J
             last == LastWith(src, sh, K, k)
  <1>1. /\ last \in K /\ k \in sh[src[last]]
        /\ \A j \in K : k \in sh[src[j]] => j =< last
    <2>1. PICK i \in K : k \in sh[src[i]]
      BY DEF SetBy
    <2>2. K \in SUBSET (1 .. 5)
      OBVIOUS
    <2> HIDE DEF K
    <2> QED
      BY <2>1, <2>2, LastIsLast
  <1> HIDE DEF last
  <1>2. CASE k \in SetBy(src, sh, J)
    <2>1. PICK i \in J : k \in sh[src[i]]
      BY <1>2 DEF SetBy
    <2>2. /\ LastWith(src, sh, J, k) \in J /\ k \in sh[src[LastWith(src, sh, J, k)]]
          /\ \A j \in J : k \in sh[src[j]] => j =< LastWith(src, sh, J, k)
      BY <2>1, LastIsLast
    <2>3. PICK n : n = LastWith(src, sh, J, k)
      OBVIOUS
    <2>4. n \in J /\ k \in sh[src[n]] /\ \A j \in J : k \in sh[src[j]] => j =< n
      BY <2>2, <2>3
    <2>5. n =< last /\ n \in 1 .. 5 /\ last \in 1 .. 5
      <3>1. n \in K /\ J \subseteq 1 .. 5 /\ K \subseteq 1 .. 5
        BY <2>4
      <3> HIDE DEF K
      <3> QED
        BY <1>1, <2>4, <3>1
    <2>6. last \in J
      BY <1>1, <2>4, <2>5 DEF After
    <2>7. n = last
      BY <1>1, <2>4, <2>5, <2>6
    <2> QED
      BY <1>2, <2>3, <2>7 DEF last
  <1>3. CASE k \notin SetBy(src, sh, J)
    <2>1. \A j \in J : k \notin sh[src[j]]
      BY <1>3 DEF SetBy
    <2>2. last \in I
      BY <1>1, <2>1
    <2>3. /\ LastWith(src, sh, I, k) \in I /\ k \in sh[src[LastWith(src, sh, I, k)]]
          /\ \A j \in I : k \in sh[src[j]] => j =< LastWith(src, sh, I, k)
      BY <1>1, <2>2, LastIsLast
    <2>4. PICK n : n = LastWith(src, sh, I, k)
      OBVIOUS
    <2>5. n \in I /\ k \in sh[src[n]] /\ \A j \in I : k \in sh[src[j]] => j =< n
      BY <2>3, <2>4
    <2>6. n =< last /\ n \in 1 .. 5 /\ last \in 1 .. 5
      <3>1. n \in K /\ I \subseteq 1 .. 5 /\ K \subseteq 1 .. 5
        BY <2>5
      <3> HIDE DEF K
      <3> QED
        BY <1>1, <2>5, <3>1
    <2>7. n = last
      BY <1>1, <2>2, <2>5, <2>6
    <2> QED
      BY <1>3, <2>4, <2>7 DEF last
  <1> QED
    BY <1>2, <1>3

\* What some sources set is nothing, a leaf or a map of leaves.
LEMMA KindOfPart ==
  ASSUME NEW src, NEW sh, NEW I
  PROVE  /\ Part(src, sh, I).kind \in {"nothing", "leaf", "map"}
         /\ Part(src, sh, I) = Nothing <=> SetBy(src, sh, I) = {}
         /\ Part(src, sh, I) = Nothing <=> Part(src, sh, I).kind = "nothing"
         /\ Part(src, sh, I).kind = "leaf" <=> SetBy(src, sh, I) = LeafShape
         /\ Part(src, sh, I).kind = "map" =>
              /\ DOMAIN Part(src, sh, I).value = SetBy(src, sh, I) \ LeafShape
              /\ \A k \in SetBy(src, sh, I) \ LeafShape :
                   Part(src, sh, I).value[k] = Chart!Leaf(src[LastWith(src, sh, I, k)])
  <1>1. LeafShape # {}
    BY DEF LeafShape
  <1>2. CASE SetBy(src, sh, I) = {}
    <2>1. Part(src, sh, I) = Nothing
      BY <1>2 DEF Part
    <2> QED
      BY <1>1, <1>2, <2>1 DEF Nothing
  <1>3. CASE SetBy(src, sh, I) = LeafShape
    <2>1. Part(src, sh, I) = Chart!Leaf(src[LastWith(src, sh, I, AtPath)])
      BY <1>1, <1>3 DEF Part
    <2>2. Part(src, sh, I).kind = "leaf"
      BY <2>1 DEF Chart!Leaf
    <2> QED
      BY <1>1, <1>3, <2>2 DEF Nothing
  <1>4. CASE SetBy(src, sh, I) # LeafShape /\ SetBy(src, sh, I) # {}
    <2> DEFINE f == [k \in SetBy(src, sh, I) \ LeafShape |->
                       Chart!Leaf(src[LastWith(src, sh, I, k)])]
    <2>1. Part(src, sh, I) = Chart!Map(f)
      BY <1>4 DEF Part
    <2> HIDE DEF f
    <2>2. Part(src, sh, I).kind = "map" /\ Part(src, sh, I).value = f
      BY <2>1 DEF Chart!Map
    <2> QED
      BY <1>4, <2>2 DEF Nothing, f
  <1> QED
    BY <1>2, <1>3, <1>4

\* The merge of what two sets of sources set is what both together set: here it is
\* needed that no leaf is set over a map.
LEMMA Join ==
  ASSUME NEW src, NEW sh, NEW I \in SUBSET (1 .. 5), NEW J \in SUBSET (1 .. 5),
         After(I, J), Clean(src, sh, I \cup J)
  PROVE  Merged(Part(src, sh, I), Part(src, sh, J)) = Part(src, sh, I \cup J)
  <1> DEFINE K == I \cup J
             v == Part(src, sh, I)
             w == Part(src, sh, J)
             u == Part(src, sh, K)
  <1>1. SetBy(src, sh, K) = SetBy(src, sh, I) \cup SetBy(src, sh, J)
    BY DEF SetBy
  <1>2. \A k \in SetBy(src, sh, K) :
          LastWith(src, sh, K, k) =
            IF k \in SetBy(src, sh, J) THEN LastWith(src, sh, J, k) ELSE LastWith(src, sh, I, k)
    BY LastOfJoined
  <1>3. CASE SetBy(src, sh, J) = {}
    <2>1. w = Nothing
      BY <1>3 DEF Part
    <2>2. /\ SetBy(src, sh, K) = SetBy(src, sh, I)
          /\ \A k \in SetBy(src, sh, K) :
               LastWith(src, sh, K, k) = LastWith(src, sh, I, k)
      BY <1>1, <1>2, <1>3
    <2>3. u = v
      BY <2>2 DEF Part, LeafShape
    <2> QED
      BY <2>1, <2>3 DEF Merged
  <1>4. CASE SetBy(src, sh, J) # {} /\ SetBy(src, sh, I) \subseteq LeafShape
    <2>1. w # Nothing /\ v.kind # "map"
      BY <1>4, KindOfPart DEF LeafShape
    <2>2. SetBy(src, sh, K) \ LeafShape = SetBy(src, sh, J) \ LeafShape /\ SetBy(src, sh, K) # {}
      BY <1>1, <1>4
    <2>3. \A k \in SetBy(src, sh, J) : LastWith(src, sh, K, k) = LastWith(src, sh, J, k)
      BY <1>1, <1>2
    <2>4. SetBy(src, sh, K) = LeafShape <=> SetBy(src, sh, J) = LeafShape
      <3>1. \A x : x \in LeafShape <=> x = AtPath
        BY DEF LeafShape
      <3> QED
        BY <1>1, <1>4, <3>1
    <2>5. u = w
      <3>1. CASE SetBy(src, sh, J) = LeafShape
        <4>1. AtPath \in SetBy(src, sh, J)
          BY <3>1 DEF LeafShape
        <4> QED
          BY <1>4, <2>2, <2>3, <2>4, <3>1, <4>1 DEF Part
      <3>2. CASE SetBy(src, sh, J) # LeafShape
        <4>1. [k \in SetBy(src, sh, K) \ LeafShape |-> Chart!Leaf(src[LastWith(src, sh, K, k)])]
                = [k \in SetBy(src, sh, J) \ LeafShape |->
                     Chart!Leaf(src[LastWith(src, sh, J, k)])]
          <5>1. \A k \in SetBy(src, sh, J) \ LeafShape :
                  Chart!Leaf(src[LastWith(src, sh, K, k)])
                    = Chart!Leaf(src[LastWith(src, sh, J, k)])
            BY <2>3
          <5> HIDE DEF K
          <5> QED
            BY <2>2, <5>1
        <4> QED
          BY <1>4, <2>2, <2>4, <3>2, <4>1 DEF Part
      <3> QED
        BY <3>1, <3>2
    <2> QED
      BY <2>1, <2>5 DEF Merged
  <1>5. CASE SetBy(src, sh, J) # {} /\ ~ SetBy(src, sh, I) \subseteq LeafShape
    <2>1. PICK i \in I : ~ sh[src[i]] \subseteq LeafShape
      BY <1>5 DEF SetBy
    <2>2. SetBy(src, sh, J) # LeafShape
      <3> SUFFICES ASSUME SetBy(src, sh, J) = LeafShape
                   PROVE  FALSE
        OBVIOUS
      <3>1. PICK j \in J : AtPath \in sh[src[j]]
        BY DEF LeafShape, SetBy
      <3>2. \A n \in J : sh[src[n]] \subseteq LeafShape
        BY DEF SetBy
      <3>3. sh[src[j]] = LeafShape
        BY <3>1, <3>2 DEF LeafShape
      <3>4. i < j
        BY <2>1, <3>2 DEF After
      <3> QED
        BY <2>1, <3>3, <3>4 DEF Clean
    <2>3. /\ SetBy(src, sh, I) # {} /\ SetBy(src, sh, I) # LeafShape
          /\ SetBy(src, sh, K) # {} /\ SetBy(src, sh, K) # LeafShape
      BY <1>1, <1>5
    <2>4. v = Chart!Map([k \in SetBy(src, sh, I) \ LeafShape |->
                           Chart!Leaf(src[LastWith(src, sh, I, k)])])
      BY <2>3 DEF Part
    <2>5. w = Chart!Map([k \in SetBy(src, sh, J) \ LeafShape |->
                           Chart!Leaf(src[LastWith(src, sh, J, k)])])
      BY <1>5, <2>2 DEF Part
    <2>6. u = Chart!Map([k \in SetBy(src, sh, K) \ LeafShape |->
                           Chart!Leaf(src[LastWith(src, sh, K, k)])])
      BY <2>3 DEF Part
    <2>7. Over(v, w) = u
      <3> DEFINE D == SetBy(src, sh, K) \ LeafShape
                 f == [k \in D |-> Chart!Leaf(src[LastWith(src, sh, K, k)])]
                 g == [k \in DOMAIN v.value \cup DOMAIN w.value |->
                         IF k \in DOMAIN w.value THEN w.value[k] ELSE v.value[k]]
      <3>1. /\ DOMAIN v.value = SetBy(src, sh, I) \ LeafShape
            /\ DOMAIN w.value = SetBy(src, sh, J) \ LeafShape
        BY <2>4, <2>5 DEF Chart!Map
      <3>2. \A k \in DOMAIN v.value : v.value[k] = Chart!Leaf(src[LastWith(src, sh, I, k)])
        BY <2>4 DEF Chart!Map
      <3>3. \A k \in DOMAIN w.value : w.value[k] = Chart!Leaf(src[LastWith(src, sh, J, k)])
        BY <2>5 DEF Chart!Map
      <3>4. D = DOMAIN v.value \cup DOMAIN w.value
        BY <1>1, <3>1
      <3>5. ASSUME NEW k \in D
            PROVE  Chart!Leaf(src[LastWith(src, sh, K, k)]) =
                     IF k \in DOMAIN w.value THEN w.value[k] ELSE v.value[k]
        <4>1. k \in DOMAIN w.value <=> k \in SetBy(src, sh, J)
          BY <3>1
        <4>2. LastWith(src, sh, K, k) =
                IF k \in SetBy(src, sh, J) THEN LastWith(src, sh, J, k)
                ELSE LastWith(src, sh, I, k)
          BY <1>2
        <4> HIDE DEF v, w, K
        <4>3. CASE k \in DOMAIN w.value
          BY <3>3, <4>1, <4>2, <4>3
        <4>4. CASE k \notin DOMAIN w.value
          <5>1. k \in DOMAIN v.value
            BY <3>4, <4>4
          <5> QED
            BY <3>2, <4>1, <4>2, <4>4, <5>1
        <4> QED
          BY <4>3, <4>4
      <3> HIDE DEF v, w, K, D
      <3>6. f = g
        BY <3>4, <3>5
      <3> QED
        BY <2>6, <3>6 DEF Over, D
    <2>8. v # Nothing /\ w # Nothing /\ v.kind = "map" /\ w.kind = "map"
      BY <2>4, <2>5 DEF Chart!Map, Nothing
    <2> HIDE DEF v, w, u
    <2>9. Merged(v, w) = u
      BY <2>7, <2>8 DEF Merged
    <2> QED
      BY <2>9 DEF v, w, u
  <1> QED
    BY <1>3, <1>4, <1>5

\* Nothing, a leaf, or a map of leaves.
IsValue(v) ==
    /\ v.kind \in {"nothing", "leaf", "map"}
    /\ v = Nothing <=> v.kind = "nothing"
    /\ v.kind = "map" => \A k \in DOMAIN v.value : v.value[k].kind = "leaf"

\* What some sources set is of a form that can be merged.
LEMMA PartIsValue ==
  ASSUME NEW src, NEW sh, NEW I
  PROVE  IsValue(Part(src, sh, I))
  <1>1. /\ Part(src, sh, I).kind \in {"nothing", "leaf", "map"}
        /\ Part(src, sh, I) = Nothing <=> Part(src, sh, I).kind = "nothing"
    BY KindOfPart
  <1>2. ASSUME Part(src, sh, I).kind = "map", NEW k \in DOMAIN Part(src, sh, I).value
        PROVE  Part(src, sh, I).value[k].kind = "leaf"
    <2>1. Part(src, sh, I).value[k] = Chart!Leaf(src[LastWith(src, sh, I, k)])
      BY <1>2, KindOfPart
    <2> QED
      BY <2>1 DEF Chart!Leaf
  <1> QED
    BY <1>1, <1>2 DEF IsValue

\* The entries of a map that are there.
There(e) == {k \in DOMAIN e : e[k] # Nothing}

\* A map that is built has the entries that are there.
LEMMA BuiltOrEmpty ==
  ASSUME NEW e
  PROVE  /\ OrEmpty(Built(e)) = Chart!Map([k \in There(e) |-> e[k]])
         /\ OrEmpty(Built(e)).kind = "map" /\ OrEmpty(Built(e)) # Nothing
         /\ DOMAIN OrEmpty(Built(e)).value = There(e)
         /\ \A k \in There(e) : OrEmpty(Built(e)).value[k] = e[k]
         /\ Built(e) = IF There(e) = {} THEN Nothing ELSE OrEmpty(Built(e))
  <1>1. OrEmpty(Built(e)) = Chart!Map([k \in There(e) |-> e[k]])
    <2>1. CASE There(e) = {}
      <3>1. [k \in There(e) |-> e[k]] = <<>>
        BY <2>1
      <3> QED
        BY <2>1, <3>1 DEF OrEmpty, Built, There, Chart!EmptyMap
    <2>2. CASE There(e) # {}
      <3>1. Built(e) = Chart!Map([k \in There(e) |-> e[k]])
        BY <2>2 DEF Built, There
      <3>2. Built(e) # Nothing
        BY <3>1 DEF Chart!Map, Nothing
      <3> QED
        BY <3>1, <3>2 DEF OrEmpty
    <2> QED
      BY <2>1, <2>2
  <1>2. There(e) # {} => Built(e) = Chart!Map([k \in There(e) |-> e[k]])
    BY DEF Built, There
  <1>3. There(e) = {} => Built(e) = Nothing
    BY DEF Built, There
  <1> QED
    BY <1>1, <1>2, <1>3 DEF Chart!Map, Nothing

\* A merge of maps, entry by entry, where r tells what becomes of those in both.
ByEntry(x, y, r) ==
    Chart!Map([k \in DOMAIN x.value \cup DOMAIN y.value |->
                 IF k \notin DOMAIN y.value THEN x.value[k]
                 ELSE IF k \notin DOMAIN x.value THEN y.value[k] ELSE r[k]])

\* The keys that are in both.
Both(x, y) == DOMAIN x.value \cap DOMAIN y.value

\* What becomes of an entry v that is no map, or is to give way to w.
Replaced(v, w) == IF Chart!IsMap(v) /\ ~ Chart!IsMap(w) THEN Chart!NilMap ELSE w

\* Maps that are built can be merged before they are built.
LEMMA MergedByEntry ==
  ASSUME NEW e, NEW f, NEW m, NEW r,
         DOMAIN e = DOMAIN m, DOMAIN f = DOMAIN m,
         \A k \in DOMAIN m :
            /\ m[k] = IF f[k] = Nothing THEN e[k] ELSE IF e[k] = Nothing THEN f[k] ELSE r[k]
            /\ e[k] # Nothing /\ f[k] # Nothing => r[k] # Nothing
  PROVE  OrEmpty(Built(m)) = ByEntry(OrEmpty(Built(e)), OrEmpty(Built(f)), r)
  <1> DEFINE Of(k) == IF k \notin There(f) THEN e[k]
                      ELSE IF k \notin There(e) THEN f[k] ELSE r[k]
             x == OrEmpty(Built(e))
             y == OrEmpty(Built(f))
  <1>1. There(m) = There(e) \cup There(f)
    BY DEF There
  <1>2. \A k \in There(m) : m[k] = Of(k)
    BY DEF There
  <1>3. /\ DOMAIN x.value = There(e) /\ \A k \in There(e) : x.value[k] = e[k]
        /\ DOMAIN y.value = There(f) /\ \A k \in There(f) : y.value[k] = f[k]
    BY BuiltOrEmpty
  <1> HIDE DEF x, y
  <1>4. ByEntry(x, y, r) = Chart!Map([k \in There(m) |-> Of(k)])
    BY <1>1, <1>3 DEF ByEntry
  <1>5. [k \in There(m) |-> m[k]] = [k \in There(m) |-> Of(k)]
    BY <1>2
  <1>6. OrEmpty(Built(m)) = Chart!Map([k \in There(m) |-> m[k]])
    BY BuiltOrEmpty
  <1> QED
    BY <1>4, <1>5, <1>6 DEF x, y

\* What becomes of an entry v when w is merged over it, given the merge of two maps.
Below(u, v, w) == IF Chart!IsMap(v) /\ Chart!IsMap(w) THEN u ELSE Replaced(v, w)

\* The code merges maps entry by entry, on every level.
LEMMA IntoByEntry ==
  ASSUME NEW x, NEW y, NEW r, x.kind = "map"
  PROVE  /\ (\A k \in Both(x, y) : r[k] = Replaced(x.value[k], y.value[k])) =>
            Chart!Into1(x, y) = ByEntry(x, y, r)
         /\ (\A k \in Both(x, y) : r[k] = Below(Chart!Into1(x.value[k], y.value[k]),
                                              x.value[k], y.value[k])) =>
            Chart!Into2(x, y) = ByEntry(x, y, r)
         /\ (\A k \in Both(x, y) : r[k] = Below(Chart!Into2(x.value[k], y.value[k]),
                                              x.value[k], y.value[k])) =>
            Chart!Into3(x, y) = ByEntry(x, y, r)
         /\ (\A k \in Both(x, y) : r[k] = Below(Chart!Into3(x.value[k], y.value[k]),
                                              x.value[k], y.value[k])) =>
            Chart!Into4(x, y) = ByEntry(x, y, r)
  <1>1. x.kind # "nil"
    OBVIOUS
  <1>2. (\A k \in Both(x, y) : r[k] = Replaced(x.value[k], y.value[k])) =>
            Chart!Into1(x, y) = ByEntry(x, y, r)
    BY <1>1 DEF Chart!Into1, Chart!MergeMapInto, Chart!MergedEntry, Chart!Has,
                ByEntry, Both, Below, Replaced
  <1>3. (\A k \in Both(x, y) : r[k] = Below(Chart!Into1(x.value[k], y.value[k]),
                                              x.value[k], y.value[k])) =>
            Chart!Into2(x, y) = ByEntry(x, y, r)
    BY <1>1 DEF Chart!Into2, Chart!MergeMapInto, Chart!MergedEntry, Chart!Has,
                ByEntry, Both, Below, Replaced
  <1>4. (\A k \in Both(x, y) : r[k] = Below(Chart!Into2(x.value[k], y.value[k]),
                                              x.value[k], y.value[k])) =>
            Chart!Into3(x, y) = ByEntry(x, y, r)
    BY <1>1 DEF Chart!Into3, Chart!MergeMapInto, Chart!MergedEntry, Chart!Has,
                ByEntry, Both, Below, Replaced
  <1>5. (\A k \in Both(x, y) : r[k] = Below(Chart!Into3(x.value[k], y.value[k]),
                                              x.value[k], y.value[k])) =>
            Chart!Into4(x, y) = ByEntry(x, y, r)
    BY <1>1 DEF Chart!Into4, Chart!MergeMapInto, Chart!MergedEntry, Chart!Has,
                ByEntry, Both, Below, Replaced
  <1> QED
    BY <1>2, <1>3, <1>4, <1>5

\* Maps of leaves are merged by levels.
LEMMA FlatMerge ==
  ASSUME NEW v, NEW w, IsValue(v), v.kind = "map"
  PROVE  Chart!Into1(v, w) = Over(v, w) /\ Chart!Into2(v, w) = Over(v, w)
  <1>1. \A k \in DOMAIN v.value : ~ Chart!IsMap(v.value[k])
    BY DEF IsValue, Chart!IsMap
  <1>2. \A k \in Both(v, w) : Replaced(v.value[k], w.value[k]) = w.value[k]
    BY <1>1 DEF Replaced, Both
  <1>3. \A k \in Both(v, w) :
          Below(Chart!Into1(v.value[k], w.value[k]), v.value[k], w.value[k]) = w.value[k]
    BY <1>1, <1>2 DEF Below, Both
  <1>4. ByEntry(v, w, w.value) = Over(v, w)
    BY DEF ByEntry, Over
  <1>5. Chart!Into1(v, w) = ByEntry(v, w, w.value)
    BY <1>2, IntoByEntry
  <1>6. Chart!Into2(v, w) = ByEntry(v, w, w.value)
    BY <1>3, IntoByEntry
  <1> QED
    BY <1>4, <1>5, <1>6

\* Merged is what the code makes of two values at a path.
LEMMA MergedIsMerged ==
  ASSUME NEW v, NEW w, IsValue(v), IsValue(w), v # Nothing, w # Nothing
  PROVE  /\ Merged(v, w) # Nothing
         /\ Merged(v, w) = Below(Chart!Into1(v, w), v, w)
         /\ Merged(v, w) = Below(Chart!Into2(v, w), v, w)
  <1>1. Chart!IsMap(v) <=> v.kind = "map"
    BY DEF IsValue, Chart!IsMap
  <1>2. Chart!IsMap(w) <=> w.kind = "map"
    BY DEF IsValue, Chart!IsMap
  <1>3. Over(v, w) # Nothing /\ Chart!NilMap # Nothing
    BY DEF Over, Chart!Map, Chart!NilMap, Nothing
  <1>4. Merged(v, w) # Nothing
    BY <1>3 DEF Merged
  <1> QED
    BY <1>1, <1>2, <1>4, FlatMerge DEF Merged, Replaced, Below

\* The maps that lead to the paths: shared values are below the key, and those of a
\* subchart are below sub in the values of the chart.
Under(v) == Built([k \in {"g"} |-> v])

SubTree(key, x, v) == Built([k \in {"x", key} |-> IF k = "x" THEN x ELSE Under(v)])

TopTree(key, s, v) == Built([k \in {"sub", key} |-> IF k = "sub" THEN s ELSE Under(v)])

\* The maps above a path are merged like the values at the path: those with shared values,
LEMMA UnderMerges ==
  ASSUME NEW v, NEW w, IsValue(v), IsValue(w)
  PROVE  /\ Under(v) = IF v = Nothing THEN Nothing ELSE OrEmpty(Under(v))
         /\ Under(Merged(v, w)) = IF w = Nothing THEN Under(v)
                                  ELSE IF v = Nothing THEN Under(w)
                                  ELSE Chart!Into2(Under(v), Under(w))
         /\ v # Nothing /\ w # Nothing =>
              Chart!Into3(Under(v), Under(w)) = Chart!Into2(Under(v), Under(w))
  <1> DEFINE e == [k \in {"g"} |-> v]
             f == [k \in {"g"} |-> w]
             m == [k \in {"g"} |-> Merged(v, w)]
             X == OrEmpty(Built(e))
             Y == OrEmpty(Built(f))
  <1>1. /\ DOMAIN e = {"g"} /\ DOMAIN f = {"g"} /\ DOMAIN m = {"g"}
        /\ e["g"] = v /\ f["g"] = w /\ m["g"] = Merged(v, w)
    OBVIOUS
  <1>2. /\ Under(v) = Built(e) /\ Under(w) = Built(f) /\ Under(Merged(v, w)) = Built(m)
    BY DEF Under
  <1> HIDE DEF e, f, m
  <1>3. /\ There(e) = IF v = Nothing THEN {} ELSE {"g"}
        /\ There(f) = IF w = Nothing THEN {} ELSE {"g"}
    BY <1>1 DEF There
  <1>4. Under(v) = IF v = Nothing THEN Nothing ELSE X
    BY <1>2, <1>3, BuiltOrEmpty
  <1>5. Under(w) = IF w = Nothing THEN Nothing ELSE Y
    BY <1>2, <1>3, BuiltOrEmpty
  <1>6. w = Nothing => Merged(v, w) = v
    BY DEF Merged
  <1>7. w # Nothing /\ v = Nothing => Merged(v, w) = w
    BY DEF Merged
  <1>8. ASSUME v # Nothing, w # Nothing
        PROVE  /\ Under(Merged(v, w)) = Chart!Into2(X, Y)
               /\ Under(Merged(v, w)) = Chart!Into3(X, Y)
    <2>1. /\ Merged(v, w) # Nothing
          /\ Merged(v, w) = Below(Chart!Into1(v, w), v, w)
          /\ Merged(v, w) = Below(Chart!Into2(v, w), v, w)
      BY <1>8, MergedIsMerged
    <2>2. OrEmpty(Built(m)) = ByEntry(X, Y, m)
      <3>1. \A k \in DOMAIN m :
              /\ m[k] = IF f[k] = Nothing THEN e[k] ELSE IF e[k] = Nothing THEN f[k] ELSE m[k]
              /\ e[k] # Nothing /\ f[k] # Nothing => m[k] # Nothing
        BY <1>1, <1>8, <2>1
      <3> QED
        BY <1>1, <3>1, MergedByEntry
    <2>3. There(m) # {}
      BY <1>1, <2>1 DEF There
    <2>4. Under(Merged(v, w)) = OrEmpty(Built(m))
      BY <1>2, <2>3, BuiltOrEmpty
    <2>5. X.kind = "map" /\ \A k \in Both(X, Y) : k = "g" /\ X.value[k] = v /\ Y.value[k] = w
      <3>1. /\ X.kind = "map" /\ DOMAIN X.value = There(e)
            /\ \A k \in There(e) : X.value[k] = e[k]
        BY BuiltOrEmpty
      <3>2. DOMAIN Y.value = There(f) /\ \A k \in There(f) : Y.value[k] = f[k]
        BY BuiltOrEmpty
      <3> HIDE DEF X, Y
      <3> QED
        BY <1>1, <1>3, <1>8, <3>1, <3>2 DEF Both
    <2> HIDE DEF X, Y
    <2>6. Chart!Into2(X, Y) = ByEntry(X, Y, m)
      BY <1>1, <2>1, <2>5, IntoByEntry
    <2>7. Chart!Into3(X, Y) = ByEntry(X, Y, m)
      BY <1>1, <2>1, <2>5, IntoByEntry
    <2> QED
      BY <2>2, <2>4, <2>6, <2>7
  <1> HIDE DEF X, Y
  <1>9. Under(v) = IF v = Nothing THEN Nothing ELSE OrEmpty(Under(v))
    BY <1>2, <1>4 DEF X
  <1> QED
    BY <1>4, <1>5, <1>6, <1>7, <1>8, <1>9

\* what it means for their entry in a map above them,
LEMMA UnderEntry ==
  ASSUME NEW v, NEW w, IsValue(v), IsValue(w),
         NEW u, u = Under(Merged(v, w))
  PROVE  /\ u = IF Under(w) = Nothing THEN Under(v)
                ELSE IF Under(v) = Nothing THEN Under(w) ELSE u
         /\ Under(v) # Nothing /\ Under(w) # Nothing =>
              /\ u # Nothing
              /\ u = Below(Chart!Into2(Under(v), Under(w)), Under(v), Under(w))
              /\ u = Below(Chart!Into3(Under(v), Under(w)), Under(v), Under(w))
  <1>1. \A k : Under(k) # Nothing => Under(k).kind = "map"
    BY BuiltOrEmpty DEF Under
  <1>2. \A k : Under(k) = Nothing <=> k = Nothing
    <2>1. ASSUME NEW k
          PROVE  Under(k) = Nothing <=> k = Nothing
      <3>1. There([i \in {"g"} |-> k]) = IF k = Nothing THEN {} ELSE {"g"}
        BY DEF There
      <3> QED
        BY <3>1, BuiltOrEmpty DEF Under
    <2> QED
      BY <2>1
  <1>3. ASSUME Under(v) # Nothing, Under(w) # Nothing
        PROVE  /\ u # Nothing
               /\ u = Below(Chart!Into2(Under(v), Under(w)), Under(v), Under(w))
               /\ u = Below(Chart!Into3(Under(v), Under(w)), Under(v), Under(w))
    <2>1. v # Nothing /\ w # Nothing
      BY <1>2, <1>3
    <2>2. Merged(v, w) # Nothing
      BY <2>1, MergedIsMerged
    <2>3. u # Nothing
      BY <1>2, <2>2
    <2>4. u = Chart!Into2(Under(v), Under(w)) /\ u = Chart!Into3(Under(v), Under(w))
      BY <2>1, UnderMerges
    <2>5. Chart!IsMap(Under(v)) /\ Chart!IsMap(Under(w))
      BY <1>1, <1>3 DEF Chart!IsMap
    <2> QED
      BY <2>3, <2>4, <2>5 DEF Below
  <1> QED
    BY <1>2, <1>3, UnderMerges

\* What sets something for the subchart is a map.
LEMMA SubTreeIs ==
  ASSUME NEW key, NEW x, NEW v
  PROVE  /\ SubTree(key, x, v) = Nothing \/ SubTree(key, x, v) = OrEmpty(SubTree(key, x, v))
         /\ OrEmpty(SubTree(key, x, v)).kind = "map"
  BY BuiltOrEmpty DEF SubTree

\* What is set for the subchart is nothing if nothing is set at a path.
LEMMA SubTreeEmpty ==
  ASSUME NEW key, key # "x", NEW x, NEW v
  PROVE  SubTree(key, x, v) = Nothing <=> x = Nothing /\ v = Nothing
  <1> DEFINE e == [k \in {"x", key} |-> IF k = "x" THEN x ELSE Under(v)]
  <1>1. There(e) = {} <=> x = Nothing /\ Under(v) = Nothing
    BY DEF There
  <1>2. There([k \in {"g"} |-> v]) = {} <=> v = Nothing
    BY DEF There
  <1>3. Under(v) = Nothing <=> v = Nothing
    BY <1>2, BuiltOrEmpty DEF Under
  <1>4. Built(e) = Nothing <=> There(e) = {}
    BY BuiltOrEmpty
  <1> QED
    BY <1>1, <1>3, <1>4 DEF SubTree

\* the maps with the values of a subchart,
LEMMA SubMerges ==
  ASSUME NEW key, key # "x", NEW x, NEW y, NEW v, NEW w,
         IsValue(x), IsValue(y), IsValue(v), IsValue(w)
  PROVE  Chart!Into3(OrEmpty(SubTree(key, x, v)), OrEmpty(SubTree(key, y, w)))
           = OrEmpty(SubTree(key, Merged(x, y), Merged(v, w)))
  <1> DEFINE e == [k \in {"x", key} |-> IF k = "x" THEN x ELSE Under(v)]
             f == [k \in {"x", key} |-> IF k = "x" THEN y ELSE Under(w)]
             m == [k \in {"x", key} |-> IF k = "x" THEN Merged(x, y) ELSE Under(Merged(v, w))]
             X == OrEmpty(Built(e))
             Y == OrEmpty(Built(f))
  <1>1. /\ DOMAIN e = {"x", key} /\ DOMAIN f = {"x", key} /\ DOMAIN m = {"x", key}
        /\ e["x"] = x /\ f["x"] = y /\ m["x"] = Merged(x, y)
        /\ e[key] = Under(v) /\ f[key] = Under(w) /\ m[key] = Under(Merged(v, w))
    OBVIOUS
  <1>2. /\ SubTree(key, x, v) = Built(e) /\ SubTree(key, y, w) = Built(f)
        /\ SubTree(key, Merged(x, y), Merged(v, w)) = Built(m)
    BY DEF SubTree
  <1> HIDE DEF e, f, m
  <1>3. ASSUME x # Nothing, y # Nothing
        PROVE  m["x"] # Nothing /\ m["x"] = Below(Chart!Into2(x, y), x, y)
    BY <1>1, <1>3, MergedIsMerged
  <1>4. ASSUME Under(v) # Nothing, Under(w) # Nothing
        PROVE  /\ m[key] # Nothing
               /\ m[key] = Below(Chart!Into2(Under(v), Under(w)), Under(v), Under(w))
    BY <1>1, <1>4, UnderEntry
  <1>5. m["x"] = IF y = Nothing THEN x ELSE IF x = Nothing THEN y ELSE m["x"]
    BY <1>1 DEF Merged
  <1>6. m[key] = IF Under(w) = Nothing THEN Under(v)
                 ELSE IF Under(v) = Nothing THEN Under(w) ELSE m[key]
    BY <1>1, UnderEntry
  <1>7. OrEmpty(Built(m)) = ByEntry(X, Y, m)
    <2>1. \A k \in DOMAIN m :
            /\ m[k] = IF f[k] = Nothing THEN e[k] ELSE IF e[k] = Nothing THEN f[k] ELSE m[k]
            /\ e[k] # Nothing /\ f[k] # Nothing => m[k] # Nothing
      BY <1>1, <1>3, <1>4, <1>5, <1>6
    <2> QED
      BY <1>1, <2>1, MergedByEntry
  <1>8. X.kind = "map" /\ \A k \in Both(X, Y) : /\ k \in {"x", key}
                                               /\ X.value[k] = e[k] /\ e[k] # Nothing
                                               /\ Y.value[k] = f[k] /\ f[k] # Nothing
    BY <1>1, BuiltOrEmpty DEF Both, There
  <1> HIDE DEF X, Y
  <1>9. \A k \in Both(X, Y) :
          m[k] = Below(Chart!Into2(X.value[k], Y.value[k]), X.value[k], Y.value[k])
    BY <1>1, <1>3, <1>4, <1>8
  <1>10. Chart!Into3(X, Y) = ByEntry(X, Y, m)
    BY <1>8, <1>9, IntoByEntry
  <1> QED
    BY <1>2, <1>7, <1>10 DEF X, Y

\* and those with the values of the chart.
LEMMA TopMerges ==
  ASSUME NEW key, key \notin {"x", "sub"}, NEW x, NEW y, NEW u, NEW t, NEW v, NEW w,
         IsValue(x), IsValue(y), IsValue(u), IsValue(t), IsValue(v), IsValue(w)
  PROVE  Chart!Into4(OrEmpty(TopTree(key, SubTree(key, x, u), v)),
                     OrEmpty(TopTree(key, SubTree(key, y, t), w)))
           = OrEmpty(TopTree(key, SubTree(key, Merged(x, y), Merged(u, t)), Merged(v, w)))
  <1> DEFINE S == SubTree(key, x, u)
             T == SubTree(key, y, t)
             U == SubTree(key, Merged(x, y), Merged(u, t))
             e == [k \in {"sub", key} |-> IF k = "sub" THEN S ELSE Under(v)]
             f == [k \in {"sub", key} |-> IF k = "sub" THEN T ELSE Under(w)]
             m == [k \in {"sub", key} |-> IF k = "sub" THEN U ELSE Under(Merged(v, w))]
             X == OrEmpty(Built(e))
             Y == OrEmpty(Built(f))
  <1>1. /\ DOMAIN e = {"sub", key} /\ DOMAIN f = {"sub", key} /\ DOMAIN m = {"sub", key}
        /\ e["sub"] = S /\ f["sub"] = T /\ m["sub"] = U
        /\ e[key] = Under(v) /\ f[key] = Under(w) /\ m[key] = Under(Merged(v, w))
    OBVIOUS
  <1>2. /\ TopTree(key, S, v) = Built(e) /\ TopTree(key, T, w) = Built(f)
        /\ TopTree(key, U, Merged(v, w)) = Built(m)
    BY DEF TopTree
  <1> HIDE DEF e, f, m
  <1>3. /\ T = Nothing => U = S
        /\ S = Nothing => U = T
        /\ S # Nothing \/ T # Nothing => U # Nothing
    <2>1. S = Nothing <=> x = Nothing /\ u = Nothing
      BY SubTreeEmpty
    <2>2. T = Nothing <=> y = Nothing /\ t = Nothing
      BY SubTreeEmpty
    <2>3. U = Nothing <=> Merged(x, y) = Nothing /\ Merged(u, t) = Nothing
      BY SubTreeEmpty
    <2>4. Merged(x, y) = Nothing <=> x = Nothing /\ y = Nothing
      BY MergedIsMerged DEF Merged
    <2>5. Merged(u, t) = Nothing <=> u = Nothing /\ t = Nothing
      BY MergedIsMerged DEF Merged
    <2>6. T = Nothing => U = S
      BY <2>2 DEF Merged
    <2>7. S = Nothing => U = T
      <3> SUFFICES ASSUME S = Nothing
                   PROVE  U = T
        OBVIOUS
      <3>1. Merged(x, y) = y /\ Merged(u, t) = t
        BY <2>1 DEF Merged
      <3> QED
        BY <3>1
    <2> QED
      BY <2>1, <2>2, <2>3, <2>4, <2>5, <2>6, <2>7
  <1>4. ASSUME S # Nothing, T # Nothing
        PROVE  U # Nothing /\ U = Below(Chart!Into3(S, T), S, T)
    <2>1. S = OrEmpty(S) /\ T = OrEmpty(T) /\ U = OrEmpty(U)
      BY <1>3, <1>4 DEF OrEmpty
    <2>2. Chart!Into3(OrEmpty(S), OrEmpty(T)) = OrEmpty(U)
      BY SubMerges
    <2>3. Chart!IsMap(S) /\ Chart!IsMap(T)
      BY <1>4, SubTreeIs DEF Chart!IsMap
    <2> HIDE DEF S, T, U
    <2> QED
      BY <1>3, <1>4, <2>1, <2>2, <2>3 DEF Below
  <1> HIDE DEF S, T, U
  <1>5. ASSUME Under(v) # Nothing, Under(w) # Nothing
        PROVE  /\ m[key] # Nothing
               /\ m[key] = Below(Chart!Into3(Under(v), Under(w)), Under(v), Under(w))
    BY <1>1, <1>5, UnderEntry
  <1>6. m[key] = IF Under(w) = Nothing THEN Under(v)
                 ELSE IF Under(v) = Nothing THEN Under(w) ELSE m[key]
    BY <1>1, UnderEntry
  <1>7. OrEmpty(Built(m)) = ByEntry(X, Y, m)
    <2>1. \A k \in DOMAIN m :
            /\ m[k] = IF f[k] = Nothing THEN e[k] ELSE IF e[k] = Nothing THEN f[k] ELSE m[k]
            /\ e[k] # Nothing /\ f[k] # Nothing => m[k] # Nothing
      BY <1>1, <1>3, <1>4, <1>5, <1>6
    <2> QED
      BY <1>1, <2>1, MergedByEntry
  <1>8. X.kind = "map" /\ \A k \in Both(X, Y) : /\ k \in {"sub", key}
                                               /\ X.value[k] = e[k] /\ e[k] # Nothing
                                               /\ Y.value[k] = f[k] /\ f[k] # Nothing
    BY <1>1, BuiltOrEmpty DEF Both, There
  <1> HIDE DEF X, Y
  <1>9. \A k \in Both(X, Y) :
          m[k] = Below(Chart!Into3(X.value[k], Y.value[k]), X.value[k], Y.value[k])
    BY <1>1, <1>4, <1>5, <1>8
  <1>10. Chart!Into4(X, Y) = ByEntry(X, Y, m)
    BY <1>8, <1>9, IntoByEntry
  <1> QED
    BY <1>2, <1>7, <1>10 DEF X, Y, S, T, U

\* A map with another entry.
LEMMA BuiltWith ==
  ASSUME NEW e, NEW m, DOMAIN e = DOMAIN m, NEW i \in DOMAIN m, m[i] # Nothing,
         \A k \in DOMAIN m \ {i} : m[k] = e[k]
  PROVE  Chart!WithEntry(OrEmpty(Built(e)), i, m[i]) = OrEmpty(Built(m))
  <1> DEFINE X == OrEmpty(Built(e))
  <1>1. DOMAIN X.value = There(e) /\ \A k \in There(e) : X.value[k] = e[k]
    BY BuiltOrEmpty
  <1> HIDE DEF X
  <1>2. There(m) = There(e) \cup {i}
    BY DEF There
  <1>3. \A k \in There(m) : m[k] = IF k = i THEN m[i] ELSE X.value[k]
    BY <1>1, <1>2 DEF There
  <1>4. [k \in There(m) |-> m[k]]
          = [k \in DOMAIN X.value \cup {i} |-> IF k = i THEN m[i] ELSE X.value[k]]
    BY <1>1, <1>2, <1>3
  <1>5. OrEmpty(Built(m)) = Chart!Map([k \in There(m) |-> m[k]])
    BY BuiltOrEmpty
  <1>6. Chart!WithEntry(X, i, m[i]) = OrEmpty(Built(m))
    BY <1>4, <1>5 DEF Chart!WithEntry
  <1> QED
    BY <1>6 DEF X

\* Entries of the trees.
LEMMA SubTreeEntries ==
  ASSUME NEW key, key # "x", NEW x, NEW v
  PROVE  LET s == OrEmpty(SubTree(key, x, v))
         IN  /\ s.kind = "map" /\ s # Nothing
             /\ Chart!Has(s, key) <=> v # Nothing
             /\ v # Nothing => s.value[key] = Under(v)
             /\ At(s, "x") = x /\ At(s, key) = Under(v)
  <1> DEFINE e == [k \in {"x", key} |-> IF k = "x" THEN x ELSE Under(v)]
  <1>1. e["x"] = x /\ e[key] = Under(v) /\ DOMAIN e = {"x", key}
    OBVIOUS
  <1>2. SubTree(key, x, v) = Built(e)
    BY DEF SubTree
  <1> HIDE DEF e
  <1>3. Under(v) = Nothing <=> v = Nothing
    <2>1. There([k \in {"g"} |-> v]) = {} <=> v = Nothing
      BY DEF There
    <2> QED
      BY <2>1, BuiltOrEmpty DEF Under
  <1>4. PICK s : s = OrEmpty(SubTree(key, x, v))
    OBVIOUS
  <1>5. /\ s.kind = "map" /\ s # Nothing /\ DOMAIN s.value = There(e)
        /\ \A k \in There(e) : s.value[k] = e[k]
    BY <1>2, <1>4, BuiltOrEmpty
  <1>6. /\ "x" \in There(e) <=> x # Nothing
        /\ key \in There(e) <=> v # Nothing
    BY <1>1, <1>3 DEF There
  <1> QED
    BY <1>1, <1>3, <1>4, <1>5, <1>6 DEF Chart!Has, At

\* What is found below the shared key.
LEMMA UnderEntries ==
  ASSUME NEW v
  PROVE  At(Under(v), "g") = v
  <1> DEFINE e == [k \in {"g"} |-> v]
  <1>1. DOMAIN e = {"g"} /\ e["g"] = v /\ Under(v) = Built(e)
    BY DEF Under
  <1> HIDE DEF e
  <1>2. There(e) = IF v = Nothing THEN {} ELSE {"g"}
    BY <1>1 DEF There
  <1>3. CASE v = Nothing
    <2>1. Under(v) = Nothing
      BY <1>1, <1>2, <1>3, BuiltOrEmpty
    <2> QED
      BY <1>3, <2>1 DEF At
  <1>4. CASE v # Nothing
    <2>1. Under(v) = OrEmpty(Built(e))
      BY <1>1, <1>2, <1>4, BuiltOrEmpty
    <2>2. /\ Under(v) # Nothing /\ DOMAIN Under(v).value = {"g"}
          /\ Under(v).value["g"] = v
      BY <1>1, <1>2, <1>4, <2>1, BuiltOrEmpty
    <2> QED
      BY <2>2 DEF At, Chart!Has
  <1> QED
    BY <1>3, <1>4

\* What is found in the values of the chart.
LEMMA TopTreeEntries ==
  ASSUME NEW key, key # "sub", NEW s, NEW v
  PROVE  LET c == OrEmpty(TopTree(key, s, v))
         IN  /\ c.kind = "map"
             /\ Chart!Has(c, key) <=> v # Nothing
             /\ v # Nothing => c.value[key] = Under(v)
             /\ Chart!Has(c, "sub") <=> s # Nothing
             /\ s # Nothing => c.value["sub"] = s
             /\ \A k : Chart!Has(c, k) => k \in {"sub", key}
  <1> DEFINE e == [k \in {"sub", key} |-> IF k = "sub" THEN s ELSE Under(v)]
  <1>1. e["sub"] = s /\ e[key] = Under(v) /\ DOMAIN e = {"sub", key}
    OBVIOUS
  <1>2. TopTree(key, s, v) = Built(e)
    BY DEF TopTree
  <1> HIDE DEF e
  <1>3. Under(v) = Nothing <=> v = Nothing
    <2>1. There([k \in {"g"} |-> v]) = {} <=> v = Nothing
      BY DEF There
    <2> QED
      BY <2>1, BuiltOrEmpty DEF Under
  <1>4. PICK c : c = OrEmpty(TopTree(key, s, v))
    OBVIOUS
  <1>5. /\ c.kind = "map" /\ DOMAIN c.value = There(e)
        /\ \A k \in There(e) : c.value[k] = e[k]
    BY <1>2, <1>4, BuiltOrEmpty
  <1>6. /\ "sub" \in There(e) <=> s # Nothing
        /\ key \in There(e) <=> v # Nothing
        /\ There(e) \subseteq {"sub", key}
    BY <1>1, <1>3 DEF There
  <1> QED
    BY <1>1, <1>4, <1>5, <1>6 DEF Chart!Has

SharedKeys == {"global", "tags"}

\* Shared values are merged over those that are set for the subchart; what is under the
\* other key is not concerned.
LEMMA SharedMerges ==
  ASSUME NEW key \in SharedKeys, NEW s, NEW x, NEW u, NEW v, IsValue(u), IsValue(v)
  PROVE  LET values == OrEmpty(TopTree(key, s, v))
             dep == OrEmpty(SubTree(key, x, u))
         IN  /\ Chart!Shared(values, dep, key) = OrEmpty(SubTree(key, x, Merged(u, v)))
             /\ \A d : \A other \in SharedKeys \ {key} : Chart!Shared(values, d, other) = d
  <1> DEFINE values == OrEmpty(TopTree(key, s, v))
             dep == OrEmpty(SubTree(key, x, u))
  <1>1. key # "x" /\ key # "sub" /\ "sub" \notin SharedKeys
    BY DEF SharedKeys
  <1>2. /\ Chart!Has(values, key) <=> v # Nothing
        /\ v # Nothing => values.value[key] = Under(v)
        /\ \A k : Chart!Has(values, k) => k \in {"sub", key}
    BY <1>1, TopTreeEntries
  <1>3. /\ Chart!Has(dep, key) <=> u # Nothing
        /\ u # Nothing => dep.value[key] = Under(u)
    BY <1>1, SubTreeEntries
  <1>4. ASSUME NEW t, t # Nothing
        PROVE  Chart!WithEntry(dep, key, Under(t)) = OrEmpty(SubTree(key, x, t))
    <2> DEFINE e == [k \in {"x", key} |-> IF k = "x" THEN x ELSE Under(u)]
               m == [k \in {"x", key} |-> IF k = "x" THEN x ELSE Under(t)]
    <2>1. /\ DOMAIN e = {"x", key} /\ DOMAIN m = {"x", key} /\ m[key] = Under(t)
          /\ e["x"] = x /\ m["x"] = x
      BY <1>1
    <2>2. Built(e) = SubTree(key, x, u) /\ Built(m) = SubTree(key, x, t)
      BY DEF SubTree
    <2> HIDE DEF e, m
    <2>3. Under(t) # Nothing
      <3>1. There([k \in {"g"} |-> t]) # {}
        BY <1>4 DEF There
      <3> QED
        BY <3>1, BuiltOrEmpty DEF Under
    <2>4. Chart!WithEntry(OrEmpty(Built(e)), key, m[key]) = OrEmpty(Built(m))
      BY <2>1, <2>3, BuiltWith
    <2> QED
      BY <2>1, <2>2, <2>4
  <1>5. \A t : t # Nothing => Under(t).kind = "map"
    <2>1. \A t : Under(t) # Nothing => Under(t).kind = "map"
      BY BuiltOrEmpty DEF Under
    <2>2. \A t : t # Nothing => There([k \in {"g"} |-> t]) # {}
      BY DEF There
    <2> QED
      BY <2>1, <2>2, BuiltOrEmpty DEF Under
  <1> HIDE DEF values, dep
  <1>6. Chart!Shared(values, dep, key) = OrEmpty(SubTree(key, x, Merged(u, v)))
    <2>1. CASE v = Nothing
      <3>1. Chart!Shared(values, dep, key) = dep
        BY <1>2, <2>1 DEF Chart!Shared
      <3> QED
        BY <2>1, <3>1 DEF Merged, dep
    <2>2. CASE v # Nothing /\ u = Nothing
      <3>1. Chart!Shared(values, dep, key) = Chart!WithEntry(dep, key, Under(v))
        BY <1>2, <1>3, <1>5, <2>2 DEF Chart!Shared, Chart!IsMap
      <3> QED
        BY <1>4, <2>2, <3>1 DEF Merged
    <2>3. CASE v # Nothing /\ u # Nothing
      <3>1. Chart!Shared(values, dep, key) =
              Chart!WithEntry(dep, key, Chart!Inherited(Under(v), Under(u)))
        BY <1>2, <1>3, <1>5, <2>3 DEF Chart!Shared, Chart!IsMap
      <3>2. Chart!Inherited(Under(v), Under(u)) = Chart!Into2(Under(u), Under(v))
        BY <1>5, <2>3 DEF Chart!Inherited, Chart!MergeMaps2, Chart!NotNil
      <3>3. Chart!Into2(Under(u), Under(v)) = Under(Merged(u, v))
        BY <2>3, UnderMerges
      <3>4. Merged(u, v) # Nothing
        BY <2>3, MergedIsMerged
      <3> QED
        BY <1>4, <3>1, <3>2, <3>3, <3>4
    <2> QED
      BY <2>1, <2>2, <2>3
  <1>7. ASSUME NEW other \in SharedKeys \ {key}, NEW d
        PROVE  Chart!Shared(values, d, other) = d
    BY <1>1, <1>2 DEF Chart!Shared
  <1> QED
    BY <1>6, <1>7 DEF values, dep

\* What the subchart gets from its parent.
LEMMA DepValuesMerge ==
  ASSUME NEW key \in SharedKeys, NEW x, NEW u, NEW v, IsValue(u), IsValue(v)
  PROVE  Chart!DepValues(OrEmpty(TopTree(key, SubTree(key, x, u), v)))
           = OrEmpty(SubTree(key, x, Merged(u, v)))
  <1> DEFINE s == SubTree(key, x, u)
             values == OrEmpty(TopTree(key, s, v))
             dep == OrEmpty(s)
             all == OrEmpty(SubTree(key, x, Merged(u, v)))
  <1>1. dep.kind = "map" /\ all.kind = "map" /\ (s # Nothing => dep = s)
    BY SubTreeIs
  <1>2. Chart!Shared(values, dep, key) = all
    BY SharedMerges
  <1>3. ASSUME NEW d, NEW other \in SharedKeys \ {key}
        PROVE  Chart!Shared(values, d, other) = d
    BY SharedMerges
  <1>4. s = Nothing => dep = Chart!EmptyMap
    BY DEF OrEmpty
  <1> HIDE DEF s, dep, all
  <1>5. Chart!SetFor(values) = dep
    <2>1. key # "sub"
      BY DEF SharedKeys
    <2>2. Chart!Has(values, "sub") <=> s # Nothing
      BY <2>1, TopTreeEntries
    <2>3. s # Nothing => values.value["sub"] = s
      BY <2>1, TopTreeEntries
    <2> HIDE DEF values
    <2> QED
      BY <1>1, <1>4, <2>2, <2>3 DEF Chart!SetFor
  <1> HIDE DEF values
  <1>6. dep # Chart!Failure /\ all # Chart!Failure
    BY <1>1 DEF Chart!Failure
  <1>7. CASE key = "global"
    <2>1. Chart!Shared(values, all, "tags") = all
      BY <1>3, <1>7 DEF SharedKeys
    <2> QED
      BY <1>2, <1>5, <1>6, <1>7, <2>1 DEF Chart!DepValues, values, all, s
  <1>8. CASE key = "tags"
    <2>1. Chart!Shared(values, dep, "global") = dep
      BY <1>3, <1>8 DEF SharedKeys
    <2> QED
      BY <1>2, <1>5, <1>6, <1>8, <2>1 DEF Chart!DepValues, values, all, s
  <1> QED
    BY <1>7, <1>8 DEF SharedKeys

\* What one source sets.
LEMMA PartOfOne ==
  ASSUME NEW src, NEW sh, NEW i \in 1 .. 5, sh[src[i]] \in Shapes
  PROVE  Part(src, sh, {i}) = ValueOf(src[i], sh[src[i]])
  <1>1. SetBy(src, sh, {i}) = sh[src[i]]
    BY DEF SetBy
  <1>2. \A k \in sh[src[i]] : LastWith(src, sh, {i}, k) = i
    BY LastIsLast
  <1> DEFINE shape == sh[src[i]]
  <1>3. CASE shape = {}
    BY <1>1, <1>3 DEF Part, ValueOf
  <1>4. CASE shape = LeafShape
    <2>1. AtPath \in shape /\ shape # {}
      BY <1>4 DEF LeafShape
    <2> QED
      BY <1>1, <1>2, <1>4, <2>1 DEF Part, ValueOf
  <1>5. CASE shape # {} /\ shape # LeafShape
    <2>1. shape \ LeafShape = shape
      BY <1>5, InputsAssumption DEF Shapes, LeafShape
    <2>2. [k \in shape |-> Chart!Leaf(src[LastWith(src, sh, {i}, k)])]
            = [k \in shape |-> Chart!Leaf(src[i])]
      BY <1>2
    <2>3. Part(src, sh, {i}) =
            Chart!Map([k \in shape |-> Chart!Leaf(src[LastWith(src, sh, {i}, k)])])
      BY <1>1, <1>5, <2>1 DEF Part
    <2> QED
      BY <1>5, <2>2, <2>3 DEF ValueOf
  <1> QED
    BY <1>3, <1>4, <1>5

\* What all sources set is what is expected.
LEMMA WholeIsExpected ==
  /\ Part(SharedSources, input.g, 1 .. 5) = Expected(input.g, SharedSources)
  /\ Part(OwnSources, input.x, 1 .. 3) = Expected(input.x, OwnSources)
  <1>1. DOMAIN SharedSources = 1 .. 5 /\ DOMAIN OwnSources = 1 .. 3
    BY DEF SharedSources, OwnSources
  <1>2. Part(SharedSources, input.g, 1 .. 5) = Expected(input.g, SharedSources)
    BY <1>1 DEF Part, Expected, SetBy, LastWith
  <1>3. Part(OwnSources, input.x, 1 .. 3) = Expected(input.x, OwnSources)
    BY <1>1 DEF Part, Expected, SetBy, LastWith
  <1> QED
    BY <1>2, <1>3

\* The values given by the user with more for the subchart.
LEMMA TopWith ==
  ASSUME NEW key, key # "sub", NEW s, NEW t, NEW v, t # Nothing
  PROVE  Chart!WithEntry(OrEmpty(TopTree(key, s, v)), "sub", t) = OrEmpty(TopTree(key, t, v))
  <1> DEFINE e == [k \in {"sub", key} |-> IF k = "sub" THEN s ELSE Under(v)]
             m == [k \in {"sub", key} |-> IF k = "sub" THEN t ELSE Under(v)]
  <1>1. /\ DOMAIN e = {"sub", key} /\ DOMAIN m = {"sub", key} /\ m["sub"] = t
        /\ e[key] = Under(v) /\ m[key] = Under(v)
    OBVIOUS
  <1>2. Built(e) = TopTree(key, s, v) /\ Built(m) = TopTree(key, t, v)
    BY DEF TopTree
  <1> HIDE DEF e, m
  <1>3. Chart!WithEntry(OrEmpty(Built(e)), "sub", m["sub"]) = OrEmpty(Built(m))
    BY <1>1, BuiltWith
  <1> QED
    BY <1>1, <1>2, <1>3

\* All merges of the code, one after the other, for the first and for the second rendering.
LEMMA RenderedAsExpected ==
  ASSUME input \in ValueInputs,
         NoLeafOverMap(input.g, SharedSources), NoLeafOverMap(input.x, OwnSources)
  PROVE  LET values == Chart!SubchartValues(ChartDefaults, SubDefaults, UserValues)
         IN  /\ At(At(values, input.key), "g") = Expected(input.g, SharedSources)
             /\ At(values, "x") = Expected(input.x, OwnSources)
             /\ Chart!SubchartValues(ChartDefaults, SubDefaults,
                                     Chart!UserAfter(ChartDefaults, UserValues)) = values
  <1> DEFINE G(I) == Part(SharedSources, input.g, I)
             X(I) == Part(OwnSources, input.x, I)
             key == input.key
  <1>1. key \in SharedKeys /\ key \notin {"x", "sub"}
    BY InputsAssumption DEF SharedKeys
  <1>2. DOMAIN SharedSources = 1 .. 5 /\ DOMAIN OwnSources = 1 .. 3
    BY DEF SharedSources, OwnSources
  <1>3. /\ \A i \in 1 .. 5 : input.g[SharedSources[i]] \in Shapes
        /\ \A i \in 1 .. 3 : input.x[OwnSources[i]] \in Shapes
    BY <1>2, InputsAssumption
  <1>4. \A I : IsValue(G(I)) /\ IsValue(X(I))
    BY PartIsValue
  <1>5. ASSUME NEW I \in SUBSET (1 .. 5), NEW J \in SUBSET (1 .. 5),
               After(I, J)
        PROVE  Merged(G(I), G(J)) = G(I \cup J)
    <2>1. Clean(SharedSources, input.g, I \cup J)
      BY <1>2, <1>3 DEF Clean, NoLeafOverMap
    <2> QED
      BY <1>5, <2>1, Join
  <1>6. ASSUME NEW I \in SUBSET (1 .. 3), NEW J \in SUBSET (1 .. 3),
               After(I, J)
        PROVE  Merged(X(I), X(J)) = X(I \cup J)
    <2>1. Clean(OwnSources, input.x, I \cup J)
      BY <1>2, <1>3 DEF Clean, NoLeafOverMap
    <2>2. I \in SUBSET (1 .. 5) /\ J \in SUBSET (1 .. 5)
      OBVIOUS
    <2> QED
      BY <1>6, <2>1, <2>2, Join
  <1> DEFINE chart == OrEmpty(TopTree(key, SubTree(key, X({2}), G({2})), G({4})))
             user == OrEmpty(TopTree(key, SubTree(key, X({3}), G({3})), G({5})))
             sub == OrEmpty(SubTree(key, X({1}), G({1})))
             dep == OrEmpty(SubTree(key, X({2, 3}), G({2, 3, 4, 5})))
             all == OrEmpty(SubTree(key, X(1 .. 3), G(1 .. 5)))
  <1>7. ChartDefaults = chart /\ UserValues = user /\ SubDefaults = sub
    <2>1. \A i \in 1 .. 5 : G({i}) = ValueOf(SharedSources[i], input.g[SharedSources[i]])
      BY <1>3, PartOfOne
    <2>2. \A i \in 1 .. 3 : X({i}) = ValueOf(OwnSources[i], input.x[OwnSources[i]])
      BY <1>3, PartOfOne
    <2>3. /\ SharedSources[1] = "sub" /\ SharedSources[2] = "chart.sub"
          /\ SharedSources[3] = "user.sub" /\ SharedSources[4] = "chart"
          /\ SharedSources[5] = "user"
          /\ OwnSources[1] = "sub" /\ OwnSources[2] = "chart.sub" /\ OwnSources[3] = "user.sub"
      BY DEF SharedSources, OwnSources
    <2> HIDE DEF G, X
    <2>4. /\ SharedOf("sub") = Under(G({1})) /\ SharedOf("chart.sub") = Under(G({2}))
          /\ SharedOf("user.sub") = Under(G({3})) /\ SharedOf("chart") = Under(G({4}))
          /\ SharedOf("user") = Under(G({5}))
      BY <2>1, <2>3 DEF SharedOf, Under
    <2>5. /\ ValueOf("sub", input.x["sub"]) = X({1})
          /\ ValueOf("chart.sub", input.x["chart.sub"]) = X({2})
          /\ ValueOf("user.sub", input.x["user.sub"]) = X({3})
      BY <2>2, <2>3
    <2>6. /\ SubOf("sub") = SubTree(key, X({1}), G({1}))
          /\ SubOf("chart.sub") = SubTree(key, X({2}), G({2}))
          /\ SubOf("user.sub") = SubTree(key, X({3}), G({3}))
      BY <2>4, <2>5 DEF SubOf, SubTree
    <2> QED
      BY <2>4, <2>6 DEF ChartDefaults, UserValues, SubDefaults, TopTree
  <1> HIDE DEF G, X, key
  <1>8. /\ chart.kind = "map" /\ user.kind = "map" /\ sub.kind = "map"
        /\ dep.kind = "map" /\ dep # Nothing /\ all.kind = "map"
    BY BuiltOrEmpty DEF TopTree, SubTree
  <1>9. ASSUME NEW I \in SUBSET (1 .. 3), NEW J \in SUBSET (1 .. 5), NEW K \in SUBSET (1 .. 5),
               After({2}, I), After({2}, J), K = {2} \cup J, After(K, {4, 5}),
               {2} \cup I = {2, 3}, K \cup {4, 5} = {2, 3, 4, 5}
        PROVE  Chart!DepValues(Chart!ValuesOf(chart,
                  OrEmpty(TopTree(key, SubTree(key, X(I), G(J)), G({5}))))) = dep
    <2> DEFINE c == OrEmpty(TopTree(key, SubTree(key, X(I), G(J)), G({5})))
               values == OrEmpty(TopTree(key, SubTree(key, X({2, 3}), G(K)), G({4, 5})))
    <2>1. /\ Merged(X({2}), X(I)) = X({2, 3}) /\ Merged(G({2}), G(J)) = G(K)
      BY <1>5, <1>6, <1>9
    <2>2. Merged(G({4}), G({5})) = G({4, 5})
      <3>1. After({4}, {5}) /\ {4} \cup {5} = {4, 5}
        BY DEF After
      <3> QED
        BY <1>5, <3>1
    <2>3. Merged(G(K), G({4, 5})) = G({2, 3, 4, 5})
      BY <1>5, <1>9
    <2>4. Chart!Into4(chart, c) = values
      BY <1>1, <1>4, <2>1, <2>2, TopMerges
    <2>5. Chart!DepValues(values) = dep
      BY <1>1, <1>4, <2>3, DepValuesMerge
    <2> HIDE DEF chart, c, values, dep
    <2>6. Chart!ValuesOf(chart, c) = values
      BY <1>8, <2>4 DEF Chart!ValuesOf, Chart!MergeMaps4, Chart!NotNil
    <2> QED
      BY <2>5, <2>6 DEF c
  <1>10. Chart!DepValues(Chart!ValuesOf(chart, user)) = dep
    <2>1. /\ After({2}, {3}) /\ After({2, 3}, {4, 5})
          /\ {2} \cup {3} = {2, 3} /\ {2, 3} \cup {4, 5} = {2, 3, 4, 5}
      BY DEF After
    <2> QED
      BY <1>9, <2>1
  <1>11. ASSUME NEW c, Chart!DepValues(Chart!ValuesOf(chart, c)) = dep
         PROVE  Chart!SubchartValues(chart, sub, c) = all
    <2>1. Merged(X({1}), X({2, 3})) = X(1 .. 3)
      <3>1. After({1}, {2, 3}) /\ {1} \cup {2, 3} = 1 .. 3
        BY DEF After
      <3> QED
        BY <1>6, <3>1
    <2>2. Merged(G({1}), G({2, 3, 4, 5})) = G(1 .. 5)
      <3>1. After({1}, {2, 3, 4, 5}) /\ {1} \cup {2, 3, 4, 5} = 1 .. 5
        BY DEF After
      <3> QED
        BY <1>5, <3>1
    <2>3. Chart!Into3(sub, dep) = all
      BY <1>1, <1>4, <2>1, <2>2, SubMerges
    <2> HIDE DEF chart, sub, dep, all
    <2>4. dep # Chart!Failure
      BY <1>8 DEF Chart!Failure
    <2> QED
      BY <1>8, <1>11, <2>3, <2>4 DEF Chart!SubchartValues, Chart!MergeMaps3, Chart!NotNil
  <1>12. Chart!DepValues(Chart!ValuesOf(chart, Chart!UserAfter(chart, user))) = dep
    <2> DEFINE s == SubTree(key, X({3}), G({3}))
               t == SubTree(key, X({2, 3}), G({2, 3, 4, 5}))
    <2>1. CASE Chart!Has(user, "sub") /\ ~ Chart!Has(chart, "sub")
      <3>1. s # Nothing
        BY <1>1, <2>1, TopTreeEntries
      <3>2. X({3}) # Nothing \/ G({3}) # Nothing
        BY <1>1, <3>1, SubTreeEmpty
      <3>3. X({3}) # Nothing => X({2, 3}) # Nothing
        BY KindOfPart DEF X, SetBy
      <3>4. G({3}) # Nothing => G({2, 3, 4, 5}) # Nothing
        BY KindOfPart DEF G, SetBy
      <3>5. t # Nothing
        BY <1>1, <3>2, <3>3, <3>4, SubTreeEmpty
      <3>6. dep = t
        BY <3>5, SubTreeIs
      <3>7. Chart!UserAfter(chart, user) = Chart!WithEntry(user, "sub", t)
        <4> HIDE DEF chart, user, dep, t
        <4> QED
          BY <1>10, <2>1, <3>6 DEF Chart!UserAfter
      <3>8. Chart!WithEntry(user, "sub", t) = OrEmpty(TopTree(key, t, G({5})))
        BY <1>1, <3>5, TopWith
      <3>9. /\ After({2}, {2, 3}) /\ After({2}, {2, 3, 4, 5}) /\ After({2, 3, 4, 5}, {4, 5})
            /\ {2} \cup {2, 3} = {2, 3} /\ {2, 3, 4, 5} = {2} \cup {2, 3, 4, 5}
            /\ {2, 3, 4, 5} \cup {4, 5} = {2, 3, 4, 5}
        BY DEF After
      <3>10. Chart!DepValues(Chart!ValuesOf(chart, OrEmpty(TopTree(key, t, G({5}))))) = dep
        BY <1>9, <3>9
      <3> QED
        BY <3>7, <3>8, <3>10
    <2>2. CASE ~ (Chart!Has(user, "sub") /\ ~ Chart!Has(chart, "sub"))
      <3> HIDE DEF chart, user, dep
      <3>1. Chart!UserAfter(chart, user) = user
        BY <2>2 DEF Chart!UserAfter
      <3> QED
        BY <1>10, <3>1
    <2> QED
      BY <2>1, <2>2
  <1>13. At(At(all, key), "g") = G(1 .. 5) /\ At(all, "x") = X(1 .. 3)
    <2>1. At(all, key) = Under(G(1 .. 5)) /\ At(all, "x") = X(1 .. 3)
      BY <1>1, SubTreeEntries
    <2>2. At(Under(G(1 .. 5)), "g") = G(1 .. 5)
      BY UnderEntries
    <2> QED
      BY <2>1, <2>2
  <1> HIDE DEF chart, user, sub, dep, all
  <1> QED
    BY <1>7, <1>10, <1>11, <1>12, <1>13, WholeIsExpected DEF G, X, key

\* A subchart sees the value of the most specific source at every path, whatever entries
\* the sources set there, also when it is rendered again.
THEOREM SubchartsSee == Spec => []SubchartSees
  <1> DEFINE Values == Chart!SubchartValues(ChartDefaults, SubDefaults, UserValues)
             Again == Chart!SubchartValues(ChartDefaults, SubDefaults,
                                           Chart!UserAfter(ChartDefaults, UserValues))
             Inv == asked = "values" =>
                      /\ input \in ValueInputs
                      /\ result = <<>> \/ result = <<[values |-> Values, again |-> Again]>>
  <1>1. Init => Inv
    BY DEF Init
  <1>2. Inv /\ [Next]_vars => Inv'
    <2> SUFFICES ASSUME Inv, [Next]_vars
                 PROVE  Inv'
      OBVIOUS
    <2>1. asked' = asked /\ input' = input
      BY DEF Next, vars, Answer, AnnotateHooks, RenderChart, EnableSubchart,
             AnalyzeStatus, UpdateObject, ResolveReferences
    <2>2. Values' = Values /\ Again' = Again
      BY <2>1 DEF ChartDefaults, SubDefaults, UserValues, SubOf, SharedOf
    <2> HIDE DEF Values, Again
    <2>3. CASE UNCHANGED vars \/ asked # "values"
      BY <2>1, <2>2, <2>3 DEF vars
    <2>4. CASE asked = "values" /\ Next
      <3>1. result' = <<[values |-> Values, again |-> Again]>>
        BY <2>4 DEF Next, Answer, AnnotateHooks, RenderChart, EnableSubchart,
                    AnalyzeStatus, UpdateObject, ResolveReferences, Values, Again
      <3> QED
        BY <2>1, <2>2, <2>4, <3>1
    <2> QED
      BY <2>3, <2>4
  <1>3. Inv /\ EnabledAsAsked => SubchartSees
    <2> SUFFICES ASSUME Inv, EnabledAsAsked, Answered("values"),
                        NoLeafOverMap(input.g, SharedSources),
                        NoLeafOverMap(input.x, OwnSources)
                 PROVE  /\ At(At(result[1].values, input.key), "g")
                             = Expected(input.g, SharedSources)
                        /\ At(result[1].values, "x") = Expected(input.x, OwnSources)
                        /\ result[1].again = result[1].values
      BY DEF SubchartSees
    <2>1. result[1].values = Values /\ result[1].again = Again
      BY DEF Answered
    <2>2. input \in ValueInputs
      BY DEF Answered
    <2> QED
      BY <2>1, <2>2, RenderedAsExpected
  <1> QED
    BY <1>1, <1>2, <1>3, SubchartsEnabled, PTL DEF Spec
=============================================================================
