---------------------------- MODULE ComponentProofs ----------------------------
(***************************************************************************)
(* Proofs about ComponentReconciler: an inductive invariant, and what      *)
(* follows from it for every set of keys and contents, every timeout and   *)
(* any number of disturbances.                                             *)
(***************************************************************************)
EXTENDS ComponentProperties, TLAPS

DeletionStates == {"DeletionPending", "Deleting"}

\* A status that only a component with a finalizer can have got.
Advanced(s) ==
    s.state = "Ready" \/ s.reason = "Timeout" \/ s.processingSince # NotProcessing

\* The component, the finalizer and the dependent objects.
Guarded ==
    /\ component.generation = edits + 1
    /\ component.finalizer => component.exists
    /\ component.exists /\ component.deleting =>
          component.finalizer \/ component.foreignFinalizer
    /\ owned # {} => component.finalizer
    /\ component.exists => owned \subseteq status.inventory

\* The status in the API server.
Stored ==
    /\ status.observedGeneration # 0 => status.state # ""
    /\ status.state \in DeletionStates => component.deleting
    /\ component.exists /\ Advanced(status) => component.finalizer
    /\ ReadyMeansApplied
    /\ TimeoutDeserved

\* The time that has passed in memory, compared with the status in the API server.
Clock ==
    /\ mem.processingSince =< IF mem.processingDigest = status.processingDigest
                              THEN age ELSE 0
    /\ \/ status.processingSince =< mem.processingSince
       \/ mem.processingDigest # status.processingDigest
       \/ loaded.deleting

\* During a call.
Running ==
    pc # "idle" =>
        /\ loaded.finalizer => component.finalizer
        /\ loaded.deleting => component.deleting
        /\ loaded.deleting => loaded.finalizer \/ loaded.foreignFinalizer
        /\ owned \subseteq mem.inventory
        /\ mem.state # ""
        /\ mem.state \in DeletionStates => loaded.deleting
        /\ Advanced(mem) => loaded.finalizer
        /\ Clock

\* Before the status handler.
Underway ==
    /\ pc = "resolve" => mem = status
    /\ pc = "reconcile" =>
          /\ mem.inventory = status.inventory
          /\ mem.revision = status.revision
          /\ mem.lastProcessingDigest = status.lastProcessingDigest
          /\ digest \in ComponentDigests /\ digest[1] = loaded.generation
          /\ ~ loaded.deleting => mem.processingDigest = digest /\ digest[2] \in Contents

\* When the status handler starts.
Handling ==
    pc = "status" =>
        /\ err # "none" \/ requeue # "none"
        /\ err = "none" => mem.reason # "Timeout"
        /\ err = "none" /\ mem.state = "Ready" =>
              /\ ~ loaded.deleting
              /\ mem.appliedGeneration = loaded.generation
              /\ mem.lastProcessingDigest = mem.processingDigest
              /\ mem.processingDigest[1] = loaded.generation

\* The inductive invariant.
IndInv ==
    TypeOK /\ Guarded /\ Stored /\ Running /\ Underway /\ Handling /\ NeverForgotten

-----------------------------------------------------------------------------
(* Types *)

\* Between calls.
LEMMA StartType == NoComponent \in Components /\ InitialStatus \in Statuses
  BY BudgetAssumption, OptionsAssumption
     DEF NoComponent, Components, InitialStatus, Statuses, Generations, States, Reasons,
         Ages, NotProcessing

\* The states and reasons that are set are states and reasons.
LEMMA ListedStates ==
  /\ "Pending" \in States /\ "Processing" \in States /\ "Ready" \in States
  /\ "Error" \in States /\ "DeletionPending" \in States /\ "Deleting" \in States
  /\ "FirstSeen" \in Reasons /\ "Suspended" \in Reasons /\ "Restarting" \in Reasons
  /\ "Processing" \in Reasons /\ "Ready" \in Reasons /\ "Retrying" \in Reasons
  /\ "Timeout" \in Reasons /\ "Error" \in Reasons /\ "DeletionRetrying" \in Reasons
  /\ "DeletionBlocked" \in Reasons /\ "DeletionProcessing" \in Reasons
  BY DEF States, Reasons

\* SetState keeps the type of a status,
LEMMA SetStateType ==
  ASSUME NEW s \in Statuses, NEW state \in States, NEW reason \in Reasons
  PROVE  SetState(s, state, reason) \in Statuses
  BY DEF SetState, Statuses

\* and changes nothing but the state and the reason.
LEMMA SetStateFields ==
  ASSUME NEW s \in Statuses, NEW state, NEW reason
  PROVE  /\ SetState(s, state, reason).state = state
         /\ SetState(s, state, reason).reason = reason
         /\ SetState(s, state, reason).processingSince = s.processingSince
         /\ SetState(s, state, reason).processingDigest = s.processingDigest
         /\ SetState(s, state, reason).lastProcessingDigest = s.lastProcessingDigest
         /\ SetState(s, state, reason).revision = s.revision
         /\ SetState(s, state, reason).appliedGeneration = s.appliedGeneration
         /\ SetState(s, state, reason).inventory = s.inventory
  BY DEF SetState, Statuses

\* A processing cycle that begins or ends keeps the type of a status,
LEMMA CycleType ==
  ASSUME NEW s \in Statuses, NEW t \in Ages \cup {NotProcessing},
         NEW d \in ComponentDigests \cup {NoDigest}
  PROVE  /\ [s EXCEPT !.processingSince = t] \in Statuses
         /\ [s EXCEPT !.processingSince = t, !.processingDigest = d] \in Statuses
  BY DEF Statuses

\* and nothing but the digest and the time are changed.
LEMMA CycleFields ==
  ASSUME NEW s \in Statuses, NEW t, NEW d
  PROVE  LET c == [s EXCEPT !.processingSince = t, !.processingDigest = d]
         IN  /\ c.processingSince = t /\ c.processingDigest = d
             /\ c.state = s.state /\ c.reason = s.reason
             /\ c.lastProcessingDigest = s.lastProcessingDigest
             /\ c.revision = s.revision /\ c.inventory = s.inventory
  BY DEF Statuses

\* So does another inventory.
LEMMA InventoryType ==
  ASSUME NEW s \in Statuses, NEW K \in SUBSET Keys
  PROVE  [s EXCEPT !.inventory = K] \in Statuses
  BY DEF Statuses

\* Numbering keeps the type of a status,
LEMMA NumberedType ==
  ASSUME NEW s \in Statuses
  PROVE  Numbered(s) \in Statuses /\ Numbered(s).revision \in Nat
  <1>1. /\ s.revision \in Nat /\ s.revision + 1 \in Nat
        /\ s.processingDigest \in ComponentDigests \cup {NoDigest}
    BY DEF Statuses
  <1> QED
    BY <1>1 DEF Numbered, Statuses

\* and changes nothing but the revision and its digest.
LEMMA NumberedFields ==
  ASSUME NEW s \in Statuses
  PROVE  /\ Numbered(s).processingSince = s.processingSince
         /\ Numbered(s).processingDigest = s.processingDigest
         /\ Numbered(s).lastProcessingDigest = s.processingDigest
         /\ Numbered(s).state = s.state /\ Numbered(s).reason = s.reason
         /\ Numbered(s).inventory = s.inventory
  BY DEF Numbered, Statuses

\* The status after a call of Apply that returned false.
LEMMA UnfinishedType ==
  ASSUME NEW s \in Statuses, Unfinished(s)
  PROVE  mem' \in Statuses
  <1>1. SetState(s, "Processing", "Processing") \in Statuses
    BY SetStateType, ListedStates
  <1>2. \A since \in Ages \cup {NotProcessing} :
           (IF since = NotProcessing THEN 0 ELSE since) \in Ages \cup {NotProcessing}
    BY OptionsAssumption DEF Ages
  <1> QED
    BY <1>1, <1>2 DEF Unfinished, Leave, Statuses

\* What it tells of the status before.
LEMMA UnfinishedFields ==
  ASSUME NEW s \in Statuses, Unfinished(s)
  PROVE  /\ mem'.state = "Processing" /\ mem'.reason = "Processing"
         /\ mem'.processingSince =
               IF s.processingSince = NotProcessing THEN 0 ELSE s.processingSince
         /\ mem'.processingDigest = s.processingDigest
         /\ mem'.inventory = s.inventory
         /\ pc' = "status" /\ err' = "none" /\ requeue' = "later"
  <1>1. SetState(s, "Processing", "Processing") \in Statuses
    BY SetStateType, ListedStates
  <1> QED
    BY <1>1, SetStateFields DEF Unfinished, Leave, Statuses

\* What Apply is called with renders known keys.
LEMMA RenderedType ==
  ASSUME IndInv, pc = "reconcile", ~ loaded.deleting
  PROVE  Rendered(digest) \subseteq Keys
  BY ContentsAssumption DEF IndInv, Underway, Rendered

\* The status after a call of Apply that returned true.
LEMMA FinishedType ==
  ASSUME NEW s \in Statuses, Rendered(digest) \subseteq Keys, TypeOK
  PROVE  Finished(s) \in Statuses
  <1>1. SetState(s, "Ready", "Ready") \in Statuses
    BY SetStateType, ListedStates
  <1>2. loaded.generation \in Generations
    BY DEF TypeOK, Components
  <1> QED
    BY <1>1, <1>2 DEF Finished, Statuses

\* The status handler keeps the type of a status,
LEMMA OutcomeType ==
  ASSUME TypeOK
  PROVE  /\ Outcome \in Statuses
         /\ [Outcome EXCEPT !.observedGeneration = loaded.generation] \in Statuses
  <1>1. mem \in Statuses /\ loaded.generation \in Generations
    BY DEF TypeOK, Components
  <1>2. Outcome \in Statuses
    <2>1. [mem EXCEPT !.processingSince = NotProcessing] \in Statuses
      BY <1>1 DEF Statuses
    <2> QED
      BY <1>1, <2>1, SetStateType, ListedStates DEF Outcome
  <1> QED
    BY <1>1, <1>2 DEF Statuses

\* sets back the clock only when the component is ready and keeps the rest,
LEMMA OutcomeFields ==
  ASSUME TypeOK
  PROVE  /\ Outcome.inventory = mem.inventory
         /\ Outcome.processingDigest = mem.processingDigest
         /\ Outcome.lastProcessingDigest = mem.lastProcessingDigest
         /\ Outcome.appliedGeneration = mem.appliedGeneration
         /\ Outcome.processingSince \in {mem.processingSince, NotProcessing}
         /\ Outcome.processingSince # mem.processingSince => Outcome.state = "Ready"
  <1>1. mem \in Statuses
    BY DEF TypeOK
  <1>2. ASSUME NEW state, NEW reason
        PROVE  LET s == SetState(mem, state, reason)
               IN  /\ s.inventory = mem.inventory
                   /\ s.processingDigest = mem.processingDigest
                   /\ s.lastProcessingDigest = mem.lastProcessingDigest
                   /\ s.appliedGeneration = mem.appliedGeneration
                   /\ s.processingSince = mem.processingSince
    BY <1>1, SetStateFields
  <1>3. LET s == [mem EXCEPT !.processingSince = NotProcessing]
        IN  /\ s.inventory = mem.inventory /\ s.processingDigest = mem.processingDigest
            /\ s.lastProcessingDigest = mem.lastProcessingDigest
            /\ s.appliedGeneration = mem.appliedGeneration
            /\ s.processingSince = NotProcessing
            /\ s.state = mem.state
    BY <1>1 DEF Statuses
  <1>4. \/ \E state, reason : Outcome = SetState(mem, state, reason)
        \/ /\ mem.state = "Ready"
           /\ Outcome = [mem EXCEPT !.processingSince = NotProcessing]
        \/ Outcome = mem
    BY DEF Outcome
  <1>5. CASE \E state, reason : Outcome = SetState(mem, state, reason)
    BY <1>2, <1>5
  <1>6. CASE /\ mem.state = "Ready"
             /\ Outcome = [mem EXCEPT !.processingSince = NotProcessing]
    BY <1>3, <1>6
  <1>7. CASE Outcome = mem
    BY <1>7
  <1> QED
    BY <1>4, <1>5, <1>6, <1>7

\* and tells of Ready, of deletion and of a timeout only if it is so.
LEMMA OutcomeState ==
  ASSUME TypeOK
  PROVE  /\ Outcome.state = "Ready" => mem.state = "Ready" /\ err = "none"
         /\ mem.state # "" => Outcome.state # ""
         /\ Outcome.state \in DeletionStates =>
               loaded.deleting \/ mem.state \in DeletionStates
         /\ Outcome.reason = "Timeout" =>
               HaveTimeout \/ (err = "none" /\ mem.reason = "Timeout")
  <1>1. mem \in Statuses /\ err \in {"none", "retriable", "error"}
    BY DEF TypeOK
  <1>2. CASE Outcome = SetState(mem, "DeletionPending", "DeletionRetrying") /\ loaded.deleting
    BY <1>1, <1>2 DEF SetState, Statuses
  <1>3. CASE Outcome = SetState(mem, "Pending", "Timeout") /\ HaveTimeout
    <2>1. /\ Outcome.state # "Ready" /\ Outcome.state # ""
          /\ Outcome.state \notin DeletionStates
      BY <1>1, <1>3 DEF SetState, Statuses, DeletionStates
    <2> QED
      BY <1>3, <2>1
  <1>4. CASE Outcome = SetState(mem, "Pending", "Retrying")
    BY <1>1, <1>4 DEF SetState, Statuses, DeletionStates
  <1>5. CASE Outcome = SetState(mem, "Error", "Timeout") /\ HaveTimeout
    <2>1. /\ Outcome.state # "Ready" /\ Outcome.state # ""
          /\ Outcome.state \notin DeletionStates
      BY <1>1, <1>5 DEF SetState, Statuses, DeletionStates
    <2> QED
      BY <1>5, <2>1
  <1>6. CASE Outcome = SetState(mem, "Error", "Error")
    BY <1>1, <1>6 DEF SetState, Statuses, DeletionStates
  <1>7. CASE err = "none" /\ Outcome = [mem EXCEPT !.processingSince = NotProcessing]
    BY <1>1, <1>7 DEF Statuses
  <1>8. CASE err = "none" /\ Outcome = mem
    BY <1>8
  <1> QED
    BY <1>1, <1>2, <1>3, <1>4, <1>5, <1>6, <1>7, <1>8 DEF Outcome

\* Times are counted on together.
LEMMA OlderMonotone ==
  ASSUME NEW a \in Ages \cup {NotProcessing}, NEW b \in Ages, a =< b
  PROVE  Older(a) =< Older(b) /\ (b = Timeout => Older(b) = Timeout)
  BY OptionsAssumption DEF Older, Ages, NotProcessing

\* Their type is kept.
LEMMA OlderType ==
  /\ \A a \in Ages : Older(a) \in Ages /\ a =< Older(a)
  /\ \A a \in Ages \cup {NotProcessing} : Older(a) \in Ages \cup {NotProcessing}
  BY OptionsAssumption DEF Older, Ages, NotProcessing

\* A disturbance is counted within its bound.
LEMMA DisturbType ==
  ASSUME TypeOK, NEW kind, Disturb(kind)
  PROVE  /\ disturbed' \in 0 .. MaxDisturbances /\ edits' \in 0 .. MaxEdits
         /\ changes' \in 0 .. MaxChanges
  BY BudgetAssumption DEF TypeOK, Disturb

\* What holds during a call still holds when Apply has returned false.
LEMMA ProceedsInTime ==
  ASSUME IndInv, pc = "reconcile", ~ loaded.deleting, loaded.finalizer,
         NEW s \in Statuses, Unfinished(s),
         s.processingSince = mem.processingSince,
         s.processingDigest = mem.processingDigest,
         UNCHANGED <<status, age, loaded, component>>,
         owned' \subseteq mem'.inventory
  PROVE  Running'
  <1>1. /\ mem \in Statuses /\ age \in Ages /\ status \in Statuses
        /\ mem.processingSince \in Ages \cup {NotProcessing}
        /\ status.processingSince \in Ages \cup {NotProcessing}
    BY DEF IndInv, TypeOK, Statuses
  <1>2. /\ mem'.state = "Processing" /\ mem'.processingDigest = mem.processingDigest
        /\ mem'.processingSince = IF mem.processingSince = NotProcessing THEN 0
                                  ELSE mem.processingSince
    BY UnfinishedFields
  <1>3. Clock'
    <2> DEFINE a == mem.processingSince
               b == status.processingSince
               bound == IF mem.processingDigest = status.processingDigest THEN age ELSE 0
    <2>1. a \in Int /\ b \in Int /\ age \in Int /\ 0 =< age
      BY <1>1, OptionsAssumption DEF Ages, NotProcessing
    <2>2. /\ a =< bound
          /\ b =< a \/ mem.processingDigest # status.processingDigest
      BY DEF IndInv, Running, Clock
    <2>3. 0 =< bound /\ bound \in Int
      BY <2>1
    <2> HIDE DEF a, b, bound
    <2>4. /\ mem'.processingSince =< bound
          /\ b =< mem'.processingSince \/ mem.processingDigest # status.processingDigest
      <3>1. CASE a = NotProcessing
        BY <1>2, <2>1, <2>2, <2>3, <3>1 DEF a, NotProcessing
      <3>2. CASE a # NotProcessing
        BY <1>2, <2>2, <3>2 DEF a
      <3> QED
        BY <3>1, <3>2
    <2> QED
      BY <1>2, <2>4 DEF Clock, b, bound
  <1> QED
    BY <1>2, <1>3 DEF IndInv, Running, DeletionStates

-----------------------------------------------------------------------------
(* Every action preserves the invariant *)


\* The component is gone: nothing is left to guard.
LEMMA LoadNothingInv ==
  ASSUME IndInv, LoadNothing
  PROVE  IndInv'
  <1>1. TypeOK'
    <2>1. component' \in Components /\ loaded' \in Components
      BY DEF IndInv, TypeOK, LoadNothing, callVars
    <2>2. status' \in Statuses /\ mem' \in Statuses
      BY DEF IndInv, TypeOK, LoadNothing, callVars
    <2> QED
      BY <2>1, <2>2
         DEF IndInv, TypeOK, LoadNothing, clusterVars, callVars, boundVars
  <1>2. Guarded'
    BY DEF IndInv, Guarded, LoadNothing, clusterVars, boundVars
  <1>3. Stored'
    BY DEF IndInv, Stored, ReadyMeansApplied, TimeoutDeserved, LoadNothing
  <1>4. Running'
    BY DEF Running, LoadNothing
  <1>5. Underway'
    BY DEF Underway, LoadNothing
  <1>6. Handling'
    BY DEF Handling, LoadNothing
  <1>7. NeverForgotten'
    BY DEF NeverForgotten, LoadNothing
  <1> QED
    BY <1>1, <1>2, <1>3, <1>4, <1>5, <1>6, <1>7 DEF IndInv

\* What is loaded is what is persisted.
LEMMA LoadInv ==
  ASSUME IndInv, Load
  PROVE  IndInv'
  <1>1. TypeOK'
    <2>1. mem' \in {status, SetState(status, "Pending", "FirstSeen"),
                      SetState(status, "Pending", "Suspended")}
      BY DEF Load, Begin, Leave
    <2>2. status' \in Statuses /\ mem' \in Statuses
      <3>1. /\ status \in Statuses
            /\ SetState(status, "Pending", "FirstSeen") \in Statuses
            /\ SetState(status, "Pending", "Suspended") \in Statuses
        BY SetStateType, ListedStates DEF IndInv, TypeOK
      <3> QED
        BY <2>1, <3>1 DEF Load
    <2> QED
      BY <2>2 DEF IndInv, TypeOK, Load, Begin, Leave, boundVars, clusterVars
  <1>2. Guarded'
    BY DEF IndInv, Guarded, Load, clusterVars, boundVars
  <1>3. Stored'
    BY DEF IndInv, Stored, ReadyMeansApplied, TimeoutDeserved, Load
  <1>4. Running'
    <2>1. status \in Statuses /\ component.exists /\ loaded' = component /\ age \in Ages
      BY DEF IndInv, TypeOK, Load
    <2>2. /\ mem'.inventory = status.inventory
          /\ mem'.processingSince = status.processingSince
          /\ mem'.processingDigest = status.processingDigest
          /\ mem'.state \in {"Pending", status.state}
          /\ Unseen => mem'.state = "Pending"
          /\ mem'.reason = "Timeout" => status.reason = "Timeout"
          /\ mem'.state = "Ready" => status.state = "Ready"
      <3>1. \/ mem' = SetState(status, "Pending", "FirstSeen")
            \/ mem' = SetState(status, "Pending", "Suspended")
            \/ mem' = status /\ ~ Unseen
        BY DEF Load, Begin, Leave
      <3>2. CASE mem' = SetState(status, "Pending", "FirstSeen")
        BY <2>1, <3>2 DEF SetState
      <3>3. CASE mem' = SetState(status, "Pending", "Suspended")
        BY <2>1, <3>3 DEF SetState
      <3> QED
        BY <3>1, <3>2, <3>3
    <2>3. Clock'
      <3>1. UNCHANGED <<status, age>> /\ status.processingSince \in Int
        BY <2>1 DEF Load, Statuses, Ages, NotProcessing
      <3> QED
        <4>1. status.processingSince =< age
          BY DEF IndInv, Stored, TimeoutDeserved
        <4> QED
          BY <2>2, <3>1, <4>1 DEF Clock
    <2>4. Advanced(mem') => component.finalizer
      BY <2>1, <2>2 DEF IndInv, Stored, Advanced
    <2>5. mem'.state # "" /\ (mem'.state \in DeletionStates => component.deleting)
      <3>1. CASE Unseen
        BY <2>2, <3>1 DEF DeletionStates
      <3>2. CASE ~ Unseen
        BY <2>1, <2>2, <3>2 DEF Unseen, IndInv, Stored, DeletionStates
      <3> QED
        BY <3>1, <3>2
    <2> QED
      BY <2>1, <2>2, <2>3, <2>4, <2>5
         DEF IndInv, Guarded, Running, Load, clusterVars
  <1>5. Underway'
    BY DEF Underway, Load, Begin, Leave
  <1>6. Handling'
    BY DEF IndInv, TypeOK, Handling, Load, Begin, Leave, Components, Statuses,
           SetState
  <1>7. NeverForgotten'
    BY DEF NeverForgotten, Load, Begin, Leave
  <1> QED
    BY <1>1, <1>2, <1>3, <1>4, <1>5, <1>6, <1>7 DEF IndInv

\* An error is handed to the status handler.
LEMMA ResolveMissingInv ==
  ASSUME IndInv, ResolveMissing
  PROVE  IndInv'
  <1>1. TypeOK'
    <2>1. component' \in Components /\ loaded' \in Components
      BY DEF IndInv, TypeOK, ResolveMissing, Goes
    <2>2. status' \in Statuses /\ mem' \in Statuses
      BY DEF IndInv, TypeOK, ResolveMissing, InCall, Leave
    <2> QED
      BY <2>1, <2>2
         DEF IndInv, TypeOK, ResolveMissing, InCall, Goes, Leave, clusterVars,
             boundVars
  <1>2. Guarded'
    BY DEF IndInv, Guarded, ResolveMissing, InCall, clusterVars, boundVars
  <1>3. Stored'
    BY DEF IndInv, Stored, ReadyMeansApplied, TimeoutDeserved, ResolveMissing,
           InCall
  <1>4. Running'
    BY DEF IndInv, Running, Clock, ResolveMissing, InCall, Goes, Leave, clusterVars
  <1>5. Underway'
    BY DEF Underway, ResolveMissing, Leave
  <1>6. Handling'
    BY DEF Handling, ResolveMissing, Leave
  <1>7. NeverForgotten'
    BY DEF NeverForgotten, ResolveMissing, Leave
  <1> QED
    BY <1>1, <1>2, <1>3, <1>4, <1>5, <1>6, <1>7 DEF IndInv

\* A new digest starts a new cycle, with the clock off; the same one goes on.
LEMMA ResolveInv ==
  ASSUME IndInv, Resolve
  PROVE  IndInv'
  <1>1. TypeOK'
    <2>1. mem \in Statuses /\ <<loaded.generation, reference>> \in ComponentDigests
      BY DEF IndInv, TypeOK, Components, ComponentDigests
    <2>2. mem' \in Statuses
      <3>1. \/ \E d \in ComponentDigests \cup {NoDigest} :
                  mem' = [mem EXCEPT !.processingSince = NotProcessing,
                                     !.processingDigest = d]
            \/ mem' = Restarted(mem, <<loaded.generation, reference>>)
            \/ mem' = mem
        BY <2>1 DEF Resolve, Proceed, Leave
      <3>2. SetState(mem, "Processing", "Restarting") \in Statuses
        BY <2>1, SetStateType, ListedStates
      <3>3. NotProcessing \in Ages \cup {NotProcessing}
        OBVIOUS
      <3>4. Restarted(mem, <<loaded.generation, reference>>) \in Statuses
        BY <2>1, <3>2, <3>3, CycleType DEF Restarted
      <3> QED
        <4>1. \A d \in ComponentDigests \cup {NoDigest} :
                 [mem EXCEPT !.processingSince = NotProcessing,
                             !.processingDigest = d] \in Statuses
          BY <2>1, <3>3, CycleType
        <4> QED
          BY <2>1, <3>1, <3>4, <4>1
    <2> QED
      BY <2>1, <2>2
         DEF IndInv, TypeOK, Resolve, InCall, Goes, Proceed, Leave, clusterVars,
             boundVars
  <1>2. Guarded'
    BY DEF IndInv, Guarded, Resolve, InCall, clusterVars, boundVars
  <1>3. Stored'
    BY DEF IndInv, Stored, ReadyMeansApplied, TimeoutDeserved, Resolve, InCall
  <1>4. Running'
    <2> DEFINE d == <<loaded.generation, reference>>
    <2>1. /\ pc = "resolve" /\ mem \in Statuses /\ age \in Ages /\ mem = status
          /\ d # NoDigest /\ loaded.generation >= 1
      BY DEF IndInv, TypeOK, Underway, Resolve, InCall, Components, Generations,
             NoDigest
    <2> HIDE DEF d
    <2>2. \/ /\ loaded.deleting
             /\ mem' = [mem EXCEPT !.processingSince = NotProcessing,
                                   !.processingDigest = NoDigest]
          \/ /\ mem.processingDigest = NoDigest
             /\ mem' = [mem EXCEPT !.processingSince = NotProcessing,
                                   !.processingDigest = d]
          \/ /\ mem.processingDigest # d /\ mem' = Restarted(mem, d)
          \/ mem' = mem
      BY DEF Resolve, Proceed, Leave, Changed, d
    <2>3. /\ mem'.inventory = mem.inventory
          /\ mem'.state \in {mem.state, "Processing"}
          /\ mem'.reason \in {mem.reason, "Restarting"}
          /\ \/ /\ mem'.processingSince = NotProcessing
                /\ loaded.deleting \/ mem'.processingDigest # status.processingDigest
             \/ mem' = mem
      <3>1. SetState(mem, "Processing", "Restarting") \in Statuses
        BY <2>1, SetStateType, ListedStates
      <3>2. CASE mem' = Restarted(mem, d) /\ mem.processingDigest # d
        BY <2>1, <3>1, <3>2, SetStateFields DEF Restarted
      <3>3. CASE /\ loaded.deleting
                 /\ mem' = [mem EXCEPT !.processingSince = NotProcessing,
                                       !.processingDigest = NoDigest]
        BY <2>1, <3>3
      <3>4. CASE /\ mem.processingDigest = NoDigest
                 /\ mem' = [mem EXCEPT !.processingSince = NotProcessing,
                                       !.processingDigest = d]
        BY <2>1, <3>4
      <3> QED
        BY <2>2, <3>2, <3>3, <3>4
    <2>4. UNCHANGED <<status, age, loaded, component, owned>>
      BY DEF Resolve, InCall, Goes, clusterVars
    <2>5. Clock'
      <3>1. CASE mem' = mem
        BY <2>1, <2>4, <3>1 DEF IndInv, Running, Clock
      <3>2. CASE /\ mem'.processingSince = NotProcessing
                 /\ loaded.deleting \/ mem'.processingDigest # status.processingDigest
        BY <2>1, <2>4, <3>2 DEF Clock, Ages, NotProcessing
      <3> QED
        BY <2>3, <3>1, <3>2
    <2>6. Advanced(mem') => Advanced(mem)
      BY <2>3 DEF Advanced
    <2> QED
      BY <2>1, <2>3, <2>4, <2>5, <2>6 DEF IndInv, Running, DeletionStates
  <1>5. Underway'
    <2> DEFINE d == <<loaded.generation, reference>>
    <2>1. /\ mem \in Statuses /\ mem = status
          /\ loaded.generation \in Generations /\ reference \in References
          /\ UNCHANGED <<status, reference, loaded>>
      BY DEF IndInv, TypeOK, Underway, Resolve, InCall, Goes, Components
    <2>2. /\ digest' = d /\ d \in ComponentDigests /\ d[1] = loaded.generation
          /\ ~ loaded.deleting => d[2] \in Contents
      BY <2>1 DEF Resolve, Resolvable, ComponentDigests
    <2> HIDE DEF d
    <2>3. \/ pc' = "status"
          \/ /\ pc' = "reconcile" /\ loaded.deleting
             /\ mem' = [mem EXCEPT !.processingSince = NotProcessing,
                                   !.processingDigest = NoDigest]
          \/ /\ pc' = "reconcile"
             /\ mem' = [mem EXCEPT !.processingSince = NotProcessing,
                                   !.processingDigest = d]
          \/ pc' = "reconcile" /\ mem.processingDigest = d /\ mem' = mem
      BY DEF Resolve, Proceed, Leave, Changed, d
    <2>4. /\ pc' # "resolve"
          /\ pc' = "reconcile" =>
                /\ mem'.inventory = mem.inventory /\ mem'.revision = mem.revision
                /\ mem'.lastProcessingDigest = mem.lastProcessingDigest
                /\ ~ loaded.deleting => mem'.processingDigest = d
      <3>1. CASE /\ pc' = "reconcile" /\ loaded.deleting
                 /\ mem' = [mem EXCEPT !.processingSince = NotProcessing,
                                       !.processingDigest = NoDigest]
        BY <2>1, <3>1 DEF Statuses
      <3>2. CASE /\ pc' = "reconcile"
                 /\ mem' = [mem EXCEPT !.processingSince = NotProcessing,
                                       !.processingDigest = d]
        BY <2>1, <3>2 DEF Statuses
      <3> QED
        BY <2>3, <3>1, <3>2
    <2> QED
      BY <2>1, <2>2, <2>4 DEF Underway
  <1>6. Handling'
    BY DEF IndInv, TypeOK, Handling, Resolve, Proceed, Leave, Restarted, Statuses,
           SetState
  <1>7. NeverForgotten'
    BY DEF NeverForgotten, Resolve, Proceed, Leave
  <1> QED
    BY <1>1, <1>2, <1>3, <1>4, <1>5, <1>6, <1>7 DEF IndInv

\* The finalizer is set before anything is applied; the status handler is not told of
\* Ready.
LEMMA AddFinalizerInv ==
  ASSUME IndInv, AddFinalizer
  PROVE  IndInv'
  <1>1. TypeOK'
    <2>1. component' \in Components /\ loaded' \in Components
      BY DEF IndInv, TypeOK, AddFinalizer, Reconciles, Goes, Components
    <2>2. status' \in Statuses /\ mem' \in Statuses
      BY DEF IndInv, TypeOK, AddFinalizer, Reconciles, Leave, InCall
    <2> QED
      BY <2>1, <2>2
         DEF IndInv, TypeOK, AddFinalizer, Reconciles, Leave, clusterVars,
             boundVars, InCall, Goes
  <1>2. Guarded'
    BY DEF IndInv, TypeOK, Guarded, AddFinalizer, Reconciles, clusterVars,
           boundVars, InCall, Components
  <1>3. Stored'
    BY DEF IndInv, TypeOK, Stored, ReadyMeansApplied, TimeoutDeserved, AddFinalizer,
           Reconciles, InCall, Components
  <1>4. Running'
    BY DEF IndInv, Running, Clock, AddFinalizer, Reconciles, Leave, clusterVars,
           InCall, Goes
  <1>5. Underway'
    BY DEF Underway, AddFinalizer, Leave
  <1>6. Handling'
    BY DEF IndInv, Running, Handling, Advanced, AddFinalizer, Reconciles, Leave,
           InCall
  <1>7. NeverForgotten'
    BY DEF NeverForgotten, AddFinalizer, Leave
  <1> QED
    BY <1>1, <1>2, <1>3, <1>4, <1>5, <1>6, <1>7 DEF IndInv

\* Keys are only added to the inventory in memory.
LEMMA ApplyPlansInv ==
  ASSUME IndInv, ApplyPlans
  PROVE  IndInv'
  <1>1. TypeOK'
    <2> DEFINE s == Numbered(mem)
               t == [s EXCEPT !.inventory = @ \cup Rendered(digest)]
    <2>1. Rendered(digest) \subseteq Keys
      BY RenderedType DEF ApplyPlans, Applies, Reconciles, InCall
    <2>2. s \in Statuses /\ s.revision \in Nat
      BY NumberedType DEF IndInv, TypeOK
    <2>3. s.inventory \subseteq Keys
      BY <2>2 DEF Statuses
    <2>4. t \in Statuses
      BY <2>1, <2>2, <2>3, InventoryType
    <2>5. mem' \in Statuses
      BY <2>4, UnfinishedType DEF ApplyPlans
    <2> QED
      BY <2>2, <2>5
         DEF IndInv, TypeOK, ApplyPlans, Applies, Reconciles, InCall, Goes,
             Unfinished, Leave, clusterVars, boundVars
  <1>2. Guarded'
    BY DEF IndInv, Guarded, ApplyPlans, Applies, clusterVars, boundVars, Reconciles,
           InCall
  <1>3. Stored'
    BY DEF IndInv, Stored, ReadyMeansApplied, TimeoutDeserved, ApplyPlans, Applies,
           Reconciles, InCall
  <1>4. Running'
    <2> DEFINE s == Numbered(mem)
               t == [s EXCEPT !.inventory = @ \cup Rendered(digest)]
    <2>1. mem \in Statuses /\ s \in Statuses /\ s.inventory = mem.inventory
      BY NumberedType, NumberedFields DEF IndInv, TypeOK
    <2>2. Rendered(digest) \subseteq Keys /\ s.inventory \subseteq Keys
      BY <2>1, RenderedType DEF ApplyPlans, Applies, Reconciles, InCall, Statuses
    <2>3. /\ t \in Statuses /\ t.inventory = mem.inventory \cup Rendered(digest)
          /\ t.processingSince = s.processingSince
          /\ t.processingDigest = s.processingDigest
      BY <2>1, <2>2 DEF Statuses
    <2>4. Unfinished(t)
      BY DEF ApplyPlans
    <2> HIDE DEF t
    <2>5. mem'.inventory = mem.inventory \cup Rendered(digest)
      BY <2>3, <2>4, UnfinishedFields
    <2> QED
      BY <2>1, <2>3, <2>4, <2>5, NumberedFields, ProceedsInTime
         DEF IndInv, Running, ApplyPlans, Applies, Reconciles, InCall, Goes,
             MayApply, clusterVars
  <1>5. Underway'
    BY DEF Underway, ApplyPlans, Unfinished, Leave
  <1>6. Handling'
    BY DEF Handling, ApplyPlans, Unfinished, Leave, SetState
  <1>7. NeverForgotten'
    BY DEF NeverForgotten, ApplyPlans, Unfinished, Leave
  <1> QED
    BY <1>1, <1>2, <1>3, <1>4, <1>5, <1>6, <1>7 DEF IndInv

\* What is written is in the persisted inventory already, and there is a finalizer.
LEMMA ApplyWorksInv ==
  ASSUME IndInv, ApplyWorks
  PROVE  IndInv'
  <1>1. TypeOK'
    <2>1. component' \in Components /\ loaded' \in Components
      BY DEF IndInv, TypeOK, ApplyWorks, Applies, Reconciles, Goes
    <2>2. status' \in Statuses /\ mem' \in Statuses
      BY NumberedType, UnfinishedType
         DEF IndInv, TypeOK, ApplyWorks, Applies, Reconciles, InCall
    <2> QED
      BY <2>1, <2>2, NumberedType, RenderedType
         DEF IndInv, TypeOK, ApplyWorks, Applies, Write, clusterVars, Unfinished,
             boundVars, Reconciles, Leave, InCall, Goes
  <1>2. Guarded'
    BY DEF IndInv, Guarded, Running, Underway, ApplyWorks, Applies, Adds, Write,
           clusterVars, boundVars, Reconciles, MayApply, InCall
  <1>3. Stored'
    BY DEF IndInv, Stored, ReadyMeansApplied, TimeoutDeserved, ApplyWorks, Applies,
           Reconciles, InCall
  <1>4. Running'
    <2> DEFINE s == Numbered(mem)
    <2>1. mem \in Statuses /\ s \in Statuses /\ s.inventory = mem.inventory
      BY NumberedType, NumberedFields DEF IndInv, TypeOK
    <2>2. Unfinished(s)
      BY DEF ApplyWorks
    <2>3. owned' \subseteq mem.inventory
      BY DEF IndInv, Running, ApplyWorks, Applies, Reconciles, InCall, Adds, Write,
             clusterVars
    <2>4. mem'.inventory = mem.inventory
      BY <2>1, <2>2, UnfinishedFields
    <2> HIDE DEF s
    <2> QED
      BY <2>1, <2>2, <2>3, <2>4, NumberedFields, ProceedsInTime
         DEF ApplyWorks, Applies, Reconciles, InCall, Goes, MayApply, s
  <1>5. Underway'
    BY DEF Underway, ApplyWorks, Unfinished, Leave
  <1>6. Handling'
    BY DEF Handling, ApplyWorks, Unfinished, Leave, SetState
  <1>7. NeverForgotten'
    BY DEF NeverForgotten, ApplyWorks, Unfinished, Leave
  <1> QED
    BY <1>1, <1>2, <1>3, <1>4, <1>5, <1>6, <1>7 DEF IndInv

\* The cluster is as rendered, so the inventory may be replaced.
LEMMA ApplyDoneInv ==
  ASSUME IndInv, ApplyDone
  PROVE  IndInv'
  <1>1. TypeOK'
    <2>1. component' \in Components /\ loaded' \in Components
      BY DEF IndInv, TypeOK, ApplyDone, Applies, Reconciles, Goes
    <2>2. status' \in Statuses /\ mem' \in Statuses
      BY NumberedType, RenderedType, FinishedType
         DEF IndInv, TypeOK, ApplyDone, Applies, Leave, Reconciles, InCall
    <2> QED
      BY <2>1, <2>2, NumberedType
         DEF IndInv, TypeOK, ApplyDone, Applies, Leave, clusterVars, boundVars,
             Reconciles, InCall, Goes
  <1>2. Guarded'
    BY DEF IndInv, Guarded, ApplyDone, Applies, clusterVars, boundVars, Reconciles,
           InCall
  <1>3. Stored'
    BY DEF IndInv, Stored, ReadyMeansApplied, TimeoutDeserved, ApplyDone, Applies,
           Reconciles, InCall
  <1>4. Running'
    BY DEF IndInv, TypeOK, Running, Clock, DeletionStates, ApplyDone, Numbered,
           Applies, Left, Leave, Finished, clusterVars, Reconciles, MayApply,
           InCall, Goes, Statuses, SetState
  <1>5. Underway'
    BY DEF Underway, ApplyDone, Leave
  <1>6. Handling'
    BY DEF IndInv, Underway, Handling, ApplyDone, Numbered, Applies, Leave,
           Finished, Reconciles, InCall, Goes, SetState
  <1>7. NeverForgotten'
    BY DEF NeverForgotten, ApplyDone, Leave
  <1> QED
    BY <1>1, <1>2, <1>3, <1>4, <1>5, <1>6, <1>7 DEF IndInv

\* What was written before the failure was in the inventory.
LEMMA ApplyFailsInv ==
  ASSUME IndInv, ApplyFails
  PROVE  IndInv'
  <1>1. TypeOK'
    <2>1. component' \in Components /\ loaded' \in Components
      BY DEF IndInv, TypeOK, ApplyFails, Applies, Reconciles, Goes
    <2>2. status' \in Statuses /\ mem' \in Statuses
      BY NumberedType
         DEF IndInv, TypeOK, ApplyFails, Applies, Leave, Reconciles, InCall
    <2> QED
      BY <2>1, <2>2, NumberedType, RenderedType, DisturbType
         DEF IndInv, TypeOK, ApplyFails, Applies, Leave, clusterVars, Write,
             Reconciles, InCall, Goes
  <1>2. Guarded'
    BY DEF IndInv, Guarded, Running, Underway, ApplyFails, Applies, Disturb,
           clusterVars, Adds, Write, Reconciles, MayApply, InCall
  <1>3. Stored'
    BY DEF IndInv, Stored, ReadyMeansApplied, TimeoutDeserved, ApplyFails, Applies,
           Reconciles, InCall
  <1>4. Running'
    <2> DEFINE s == Numbered(mem)
    <2>1. /\ mem \in Statuses /\ s.inventory = mem.inventory
          /\ s.state = mem.state /\ s.reason = mem.reason
          /\ s.processingSince = mem.processingSince
          /\ s.processingDigest = mem.processingDigest
      BY NumberedFields DEF IndInv, TypeOK
    <2>2. mem' = s /\ pc = "reconcile" /\ loaded.finalizer
          /\ UNCHANGED <<status, age, loaded, component>>
      BY DEF ApplyFails, Leave, Applies, Reconciles, InCall, Goes, MayApply
    <2>3. owned' \subseteq mem.inventory
      BY <2>2 DEF IndInv, Running, ApplyFails, Adds, Write, clusterVars
    <2> HIDE DEF s
    <2> QED
      BY <2>1, <2>2, <2>3 DEF IndInv, Running, Clock
  <1>5. Underway'
    BY DEF Underway, ApplyFails, Leave
  <1>6. Handling'
    BY DEF Handling, ApplyFails, Leave
  <1>7. NeverForgotten'
    BY DEF NeverForgotten, ApplyFails, Leave
  <1> QED
    BY <1>1, <1>2, <1>3, <1>4, <1>5, <1>6, <1>7 DEF IndInv

\* Nothing is deleted.
LEMMA DeletionBlockedInv ==
  ASSUME IndInv, DeletionBlocked
  PROVE  IndInv'
  <1>1. TypeOK'
    <2>1. component' \in Components /\ loaded' \in Components
      BY DEF IndInv, TypeOK, DeletionBlocked, Deletes, Goes
    <2>2. status' \in Statuses /\ mem' \in Statuses
      BY SetStateType, ListedStates
         DEF IndInv, TypeOK, DeletionBlocked, Deletes, Leave, InCall
    <2> QED
      BY <2>1, <2>2
         DEF IndInv, TypeOK, DeletionBlocked, Deletes, Leave, clusterVars,
             boundVars, InCall, Goes
  <1>2. Guarded'
    BY DEF IndInv, Guarded, DeletionBlocked, Deletes, clusterVars, boundVars, InCall
  <1>3. Stored'
    BY DEF IndInv, Stored, ReadyMeansApplied, TimeoutDeserved, DeletionBlocked,
           Deletes, InCall
  <1>4. Running'
    BY DEF IndInv, TypeOK, Running, Advanced, Clock, DeletionBlocked, Deletes,
           Leave, clusterVars, InCall, Goes, Statuses, SetState
  <1>5. Underway'
    BY DEF Underway, DeletionBlocked, Leave
  <1>6. Handling'
    BY DEF Handling, DeletionBlocked, Leave, SetState
  <1>7. NeverForgotten'
    BY DEF NeverForgotten, DeletionBlocked, Leave
  <1> QED
    BY <1>1, <1>2, <1>3, <1>4, <1>5, <1>6, <1>7 DEF IndInv

\* What is struck off is not owned.
LEMMA DeleteWorksInv ==
  ASSUME IndInv, DeleteWorks
  PROVE  IndInv'
  <1>1. TypeOK'
    <2>1. component' \in Components /\ loaded' \in Components
      BY DEF IndInv, TypeOK, DeleteWorks, Deletes, Goes
    <2>2. status' \in Statuses /\ mem' \in Statuses
      BY InventoryType, SetStateType, ListedStates
         DEF IndInv, TypeOK, DeleteWorks, Deletes, Left, Leave, InCall
    <2> QED
      BY <2>1, <2>2
         DEF IndInv, TypeOK, DeleteWorks, Deletes, Leave, boundVars, InCall, Goes
  <1>2. Guarded'
    BY DEF IndInv, Guarded, DeleteWorks, Deletes, boundVars, InCall
  <1>3. Stored'
    BY DEF IndInv, Stored, ReadyMeansApplied, TimeoutDeserved, DeleteWorks, Deletes,
           InCall
  <1>4. Running'
    BY DEF IndInv, TypeOK, Running, Clock, DeleteWorks, Deletes, Left, Leave,
           InCall, Goes, Statuses, SetState
  <1>5. Underway'
    BY DEF Underway, DeleteWorks, Leave
  <1>6. Handling'
    BY DEF Handling, DeleteWorks, Leave, SetState
  <1>7. NeverForgotten'
    BY DEF NeverForgotten, DeleteWorks, Leave
  <1> QED
    BY <1>1, <1>2, <1>3, <1>4, <1>5, <1>6, <1>7 DEF IndInv

\* Nothing is owned when the component goes.
LEMMA RemoveFinalizerInv ==
  ASSUME IndInv, RemoveFinalizer
  PROVE  IndInv'
  <1>1. TypeOK'
    <2>1. component' \in Components /\ loaded' \in Components
      BY StartType DEF IndInv, TypeOK, RemoveFinalizer, Goes, Ends, Components
    <2>0. [mem EXCEPT !.inventory = {}] \in Statuses
      BY InventoryType DEF IndInv, TypeOK
    <2>2. status' \in Statuses /\ mem' \in Statuses
      BY StartType, <2>0, StartType
         DEF IndInv, TypeOK, RemoveFinalizer, InCall, Leave, Ends
    <2> QED
      BY <2>1, <2>2
         DEF IndInv, TypeOK, RemoveFinalizer, InCall, Leave, Goes, Ends,
             clusterVars, boundVars
  <1>2. Guarded'
    BY DEF IndInv, TypeOK, Guarded, Underway, RemoveFinalizer, InCall, NothingLeft,
           clusterVars, boundVars, Left, Components
  <1>3. Stored'
    BY DEF IndInv, TypeOK, Stored, Running, ReadyMeansApplied, TimeoutDeserved,
           RemoveFinalizer, InCall, Components
  <1>4. Running'
    BY DEF IndInv, TypeOK, Guarded, Running, Clock, RemoveFinalizer, InCall,
           NothingLeft, Leave, Goes, Ends, clusterVars, Left, Statuses
  <1>5. Underway'
    BY DEF Underway, RemoveFinalizer, Leave, Ends
  <1>6. Handling'
    BY DEF Handling, RemoveFinalizer, Leave, Ends
  <1>7. NeverForgotten'
    BY DEF IndInv, TypeOK, Running, NeverForgotten, RemoveFinalizer, InCall, Leave,
           Components
  <1> QED
    BY <1>1, <1>2, <1>3, <1>4, <1>5, <1>6, <1>7 DEF IndInv

\* What is saved is what the status handler makes of the status in memory.
LEMMA SaveStatusInv ==
  ASSUME IndInv, SaveStatus
  PROVE  IndInv'
  <1>1. TypeOK'
    <2>1. status' \in Statuses /\ mem' \in Statuses
      BY OutcomeType, StartType DEF IndInv, SaveStatus, Done, Ends
    <2>2. loaded' \in Components
      BY StartType DEF SaveStatus, Done, Ends
    <2>3. age' \in Ages
      BY OptionsAssumption DEF IndInv, TypeOK, SaveStatus, Ages
    <2>4. queue' \in {"now", "later", "none"}
      BY DEF IndInv, TypeOK, SaveStatus, Done, Delay
    <2> QED
      BY <2>1, <2>2, <2>3, <2>4
         DEF IndInv, TypeOK, SaveStatus, Done, Ends, clusterVars, boundVars
  <1>2. Guarded'
    BY DEF IndInv, TypeOK, Guarded, Running, SaveStatus, Outcome, Done, boundVars,
           clusterVars, Statuses, SetState
  <1>3. Stored'
    <2>1. /\ TypeOK /\ Outcome \in Statuses /\ mem \in Statuses
          /\ pc = "status" /\ component' = component
      BY OutcomeType DEF IndInv, TypeOK, SaveStatus, Done
    <2>2. /\ status'.observedGeneration = loaded.generation
          /\ status'.state = Outcome.state /\ status'.reason = Outcome.reason
          /\ status'.processingSince = Outcome.processingSince
          /\ status'.processingDigest = Outcome.processingDigest
          /\ status'.lastProcessingDigest = Outcome.lastProcessingDigest
          /\ status'.appliedGeneration = Outcome.appliedGeneration
      BY <2>1 DEF SaveStatus
    <2>3. status'.state # "" /\ (status'.state \in DeletionStates => component.deleting)
      BY <2>1, <2>2, OutcomeState DEF IndInv, Running
    <2>4. Advanced(status') => component.finalizer
      <3>1. Advanced(status') => Advanced(mem)
        <4>1. HaveTimeout => mem.processingSince # NotProcessing
          BY OptionsAssumption DEF HaveTimeout, NotProcessing
        <4>2. status'.reason = "Timeout" => HaveTimeout
          BY <2>1, <2>2, OutcomeState DEF IndInv, Handling
        <4>3. status'.processingSince # NotProcessing => mem.processingSince # NotProcessing
          BY <2>1, <2>2, OutcomeFields
        <4>4. status'.state = "Ready" => mem.state = "Ready"
          BY <2>1, <2>2, OutcomeState
        <4> QED
          BY <4>1, <4>2, <4>3, <4>4 DEF Advanced
      <3> QED
        BY <2>1, <3>1 DEF IndInv, Running
    <2>5. ReadyMeansApplied'
      BY <2>1, <2>2, OutcomeFields, OutcomeState
         DEF IndInv, Handling, ReadyMeansApplied
    <2>6. TimeoutDeserved'
      <3>1. /\ age \in Ages
            /\ age' = IF mem.processingDigest = status.processingDigest THEN age ELSE 0
        BY <2>1, <2>2, OutcomeFields DEF SaveStatus, TypeOK
      <3>2. mem.processingSince =< age' /\ mem.processingSince \in Ages \cup {NotProcessing}
        BY <2>1, <3>1 DEF IndInv, Running, Clock, Statuses
      <3>3. age' \in Ages
        BY <3>1, OptionsAssumption DEF Ages
      <3>4. status'.processingSince =< age'
        <4>1. age' \in Int /\ -1 =< age' /\ NotProcessing = -1
          BY <3>3 DEF Ages, NotProcessing
        <4>2. status'.processingSince \in {mem.processingSince, NotProcessing}
          BY <2>1, <2>2, OutcomeFields
        <4> QED
          BY <3>2, <4>1, <4>2
      <3>5. status'.reason = "Timeout" => mem.processingSince = Timeout
        BY <2>1, <2>2, OutcomeState DEF IndInv, Handling, HaveTimeout
      <3> QED
        BY <3>2, <3>3, <3>4, <3>5, OptionsAssumption DEF TimeoutDeserved, Ages
    <2> QED
      BY <2>1, <2>3, <2>4, <2>5, <2>6 DEF Stored
  <1>4. Running'
    BY DEF Running, SaveStatus, Done, Ends
  <1>5. Underway'
    BY DEF Underway, SaveStatus, Done, Ends
  <1>6. Handling'
    BY DEF Handling, SaveStatus, Done, Ends
  <1>7. NeverForgotten'
    BY DEF IndInv, Handling, NeverForgotten, SaveStatus, Done, Delay
  <1> QED
    BY <1>1, <1>2, <1>3, <1>4, <1>5, <1>6, <1>7 DEF IndInv

\* The persisted status was good before, and is.
LEMMA StatusLostInv ==
  ASSUME IndInv, StatusLost
  PROVE  IndInv'
  <1>1. TypeOK'
    <2>1. component' \in Components /\ loaded' \in Components
      BY StartType DEF IndInv, TypeOK, StatusLost, Done, Ends
    <2>2. status' \in Statuses /\ mem' \in Statuses
      BY StartType DEF IndInv, TypeOK, StatusLost, Done, Ends
    <2> QED
      BY <2>1, <2>2, DisturbType
         DEF IndInv, TypeOK, StatusLost, boundVars, Done, Ends, clusterVars
  <1>2. Guarded'
    BY DEF IndInv, Guarded, StatusLost, boundVars, Disturb, Done, clusterVars
  <1>3. Stored'
    BY DEF IndInv, Stored, ReadyMeansApplied, TimeoutDeserved, StatusLost, Done
  <1>4. Running'
    BY DEF Running, StatusLost, Done, Ends
  <1>5. Underway'
    BY DEF Underway, StatusLost, Done, Ends
  <1>6. Handling'
    BY DEF Handling, StatusLost, Done, Ends
  <1>7. NeverForgotten'
    BY DEF NeverForgotten, StatusLost, Done
  <1> QED
    BY <1>1, <1>2, <1>3, <1>4, <1>5, <1>6, <1>7 DEF IndInv

\* An error without effect is handed to the status handler.
LEMMA FailsInv ==
  ASSUME IndInv, NEW stage \in {"resolve", "reconcile"}, Fails(stage)
  PROVE  IndInv'
  <1>1. TypeOK'
    <2>1. component' \in Components /\ loaded' \in Components
      BY DEF IndInv, TypeOK, Fails, Goes
    <2>2. status' \in Statuses /\ mem' \in Statuses
      BY DEF IndInv, TypeOK, Fails, InCall, Leave
    <2> QED
      BY <2>1, <2>2, DisturbType
         DEF IndInv, TypeOK, Fails, InCall, Goes, Leave, clusterVars
  <1>2. Guarded'
    BY DEF IndInv, Guarded, Fails, InCall, Disturb, clusterVars
  <1>3. Stored'
    BY DEF IndInv, Stored, ReadyMeansApplied, TimeoutDeserved, Fails, InCall
  <1>4. Running'
    BY DEF IndInv, Running, Clock, Fails, InCall, Goes, Leave, clusterVars
  <1>5. Underway'
    BY DEF Underway, Fails, Leave
  <1>6. Handling'
    BY DEF Handling, Fails, Leave
  <1>7. NeverForgotten'
    BY DEF NeverForgotten, Fails, Leave
  <1> QED
    BY <1>1, <1>2, <1>3, <1>4, <1>5, <1>6, <1>7 DEF IndInv

\* A crash loses the memory, and the queue is filled anew.
LEMMA CrashInv ==
  ASSUME IndInv, Crash
  PROVE  IndInv'
  <1>1. TypeOK'
    <2>1. component' \in Components /\ loaded' \in Components
      BY StartType DEF IndInv, TypeOK, Crash, Ends
    <2>2. status' \in Statuses /\ mem' \in Statuses
      BY StartType DEF IndInv, TypeOK, Crash, Ends
    <2> QED
      BY <2>1, <2>2, DisturbType DEF IndInv, TypeOK, Crash, Ends, clusterVars
  <1>2. Guarded'
    BY DEF IndInv, Guarded, Crash, Disturb, clusterVars
  <1>3. Stored'
    BY DEF IndInv, Stored, ReadyMeansApplied, TimeoutDeserved, Crash
  <1>4. Running'
    BY DEF Running, Crash, Ends
  <1>5. Underway'
    BY DEF Underway, Crash, Ends
  <1>6. Handling'
    BY DEF Handling, Crash, Ends
  <1>7. NeverForgotten'
    BY DEF NeverForgotten, Crash
  <1> QED
    BY <1>1, <1>2, <1>3, <1>4, <1>5, <1>6, <1>7 DEF IndInv

\* A changed component is a new generation, which nobody has observed.
LEMMA EditInv ==
  ASSUME IndInv, NEW suspended \in BOOLEAN, Edit(suspended)
  PROVE  IndInv'
  <1>1. TypeOK'
    <2>1. component.generation + 1 \in Generations
      BY BudgetAssumption DEF IndInv, TypeOK, Guarded, Edit, Generations
    <2>2. component' \in Components
      BY <2>1 DEF IndInv, TypeOK, Edit, Components
    <2>3. edits' \in 0 .. MaxEdits
      BY BudgetAssumption DEF IndInv, TypeOK, Edit
    <2> QED
      BY <2>2, <2>3
         DEF IndInv, TypeOK, Edit, Outdates, callAndClusterVars, clusterVars,
             callVars
  <1>2. Guarded'
    BY DEF IndInv, Guarded, Edit, callAndClusterVars, clusterVars
  <1>3. Stored'
    BY DEF IndInv, TypeOK, Stored, ReadyMeansApplied, TimeoutDeserved, Edit,
           callAndClusterVars, Components
  <1>4. Running'
    BY DEF IndInv, TypeOK, Running, Clock, Edit, callAndClusterVars, clusterVars,
           callVars, Components
  <1>5. Underway'
    BY DEF IndInv, Underway, Edit, callAndClusterVars, callVars
  <1>6. Handling'
    BY DEF IndInv, Handling, Edit, callAndClusterVars, callVars
  <1>7. NeverForgotten'
    BY DEF NeverForgotten, Edit
  <1> QED
    BY <1>1, <1>2, <1>3, <1>4, <1>5, <1>6, <1>7 DEF IndInv

\* A deleted component stays as long as it has a finalizer.
LEMMA DeleteComponentInv ==
  ASSUME IndInv, DeleteComponent
  PROVE  IndInv'
  <1>1. TypeOK'
    <2>1. component' \in Components /\ loaded' \in Components
      BY DEF IndInv, TypeOK, DeleteComponent, callAndClusterVars, callVars,
             Components
    <2>2. status' \in Statuses /\ mem' \in Statuses
      BY DEF IndInv, TypeOK, DeleteComponent, callAndClusterVars, callVars
    <2> QED
      BY <2>1, <2>2
         DEF IndInv, TypeOK, DeleteComponent, Outdates, callAndClusterVars,
             boundVars, clusterVars, callVars
  <1>2. Guarded'
    BY DEF IndInv, TypeOK, Guarded, DeleteComponent, callAndClusterVars, boundVars,
           clusterVars, Components
  <1>3. Stored'
    BY DEF IndInv, TypeOK, Stored, ReadyMeansApplied, TimeoutDeserved,
           DeleteComponent, callAndClusterVars, Components
  <1>4. Running'
    BY DEF IndInv, TypeOK, Running, Clock, DeleteComponent, callAndClusterVars,
           clusterVars, callVars, Components
  <1>5. Underway'
    BY DEF IndInv, Underway, DeleteComponent, callAndClusterVars, callVars
  <1>6. Handling'
    BY DEF IndInv, Handling, DeleteComponent, callAndClusterVars, callVars
  <1>7. NeverForgotten'
    BY DEF NeverForgotten, DeleteComponent
  <1> QED
    BY <1>1, <1>2, <1>3, <1>4, <1>5, <1>6, <1>7 DEF IndInv

\* The component goes only if our finalizer is not there.
LEMMA ReleaseForeignFinalizerInv ==
  ASSUME IndInv, ReleaseForeignFinalizer
  PROVE  IndInv'
  <1>1. TypeOK'
    <2>1. component' \in Components /\ loaded' \in Components
      BY DEF IndInv, TypeOK, ReleaseForeignFinalizer, callAndClusterVars, callVars,
             Components
    <2>2. status' \in Statuses /\ mem' \in Statuses
      BY DEF IndInv, TypeOK, ReleaseForeignFinalizer, callAndClusterVars, callVars
    <2> QED
      BY <2>1, <2>2
         DEF IndInv, TypeOK, ReleaseForeignFinalizer, Outdates, callAndClusterVars,
             boundVars, clusterVars, callVars
  <1>2. Guarded'
    BY DEF IndInv, TypeOK, Guarded, ReleaseForeignFinalizer, callAndClusterVars,
           boundVars, clusterVars, Components
  <1>3. Stored'
    BY DEF IndInv, TypeOK, Stored, ReadyMeansApplied, TimeoutDeserved,
           ReleaseForeignFinalizer, callAndClusterVars, Components
  <1>4. Running'
    BY DEF IndInv, TypeOK, Running, Clock, ReleaseForeignFinalizer,
           callAndClusterVars, clusterVars, callVars, Components
  <1>5. Underway'
    BY DEF IndInv, Underway, ReleaseForeignFinalizer, callAndClusterVars, callVars
  <1>6. Handling'
    BY DEF IndInv, Handling, ReleaseForeignFinalizer, callAndClusterVars, callVars
  <1>7. NeverForgotten'
    BY DEF IndInv, NeverForgotten, ReleaseForeignFinalizer, callAndClusterVars
  <1> QED
    BY <1>1, <1>2, <1>3, <1>4, <1>5, <1>6, <1>7 DEF IndInv

\* Nothing that is known of the component depends on the reference.
LEMMA ChangeReferenceInv ==
  ASSUME IndInv, NEW value \in References, ChangeReference(value)
  PROVE  IndInv'
  <1>1. TypeOK'
    <2>1. component' \in Components /\ loaded' \in Components
      BY DEF IndInv, TypeOK, ChangeReference, callAndClusterVars, callVars
    <2>2. status' \in Statuses /\ mem' \in Statuses
      BY DEF IndInv, TypeOK, ChangeReference, callAndClusterVars, callVars
    <2> QED
      BY <2>1, <2>2, BudgetAssumption
         DEF IndInv, TypeOK, ChangeReference, callAndClusterVars, clusterVars,
             callVars
  <1>2. Guarded'
    BY DEF IndInv, Guarded, ChangeReference, callAndClusterVars, clusterVars
  <1>3. Stored'
    BY DEF IndInv, Stored, ReadyMeansApplied, TimeoutDeserved, ChangeReference,
           callAndClusterVars
  <1>4. Running'
    BY DEF IndInv, Running, Clock, ChangeReference, callAndClusterVars, clusterVars,
           callVars
  <1>5. Underway'
    BY DEF IndInv, Underway, ChangeReference, callAndClusterVars, callVars
  <1>6. Handling'
    BY DEF IndInv, Handling, ChangeReference, callAndClusterVars, callVars
  <1>7. NeverForgotten'
    BY DEF IndInv, NeverForgotten, ChangeReference, callAndClusterVars
  <1> QED
    BY <1>1, <1>2, <1>3, <1>4, <1>5, <1>6, <1>7 DEF IndInv

\* The readiness of dependents is no part of the invariant, whether they get ready
LEMMA BecomeReadyInv ==
  ASSUME IndInv, BecomeReady
  PROVE  IndInv'
  <1>1. TypeOK'
    <2>1. component' \in Components /\ loaded' \in Components
      BY DEF IndInv, TypeOK, BecomeReady, callVars
    <2>2. status' \in Statuses /\ mem' \in Statuses
      BY DEF IndInv, TypeOK, BecomeReady, callVars
    <2> QED
      BY <2>1, <2>2 DEF IndInv, TypeOK, BecomeReady, callVars, boundVars
  <1>2. Guarded'
    BY DEF IndInv, Guarded, BecomeReady, boundVars
  <1>3. Stored'
    BY DEF IndInv, Stored, ReadyMeansApplied, TimeoutDeserved, BecomeReady
  <1>4. Running'
    BY DEF IndInv, Running, Clock, BecomeReady, callVars
  <1>5. Underway'
    BY DEF IndInv, Underway, BecomeReady, callVars
  <1>6. Handling'
    BY DEF IndInv, Handling, BecomeReady, callVars
  <1>7. NeverForgotten'
    BY DEF IndInv, NeverForgotten, BecomeReady
  <1> QED
    BY <1>1, <1>2, <1>3, <1>4, <1>5, <1>6, <1>7 DEF IndInv

\* or stop being ready.
LEMMA FlickerInv ==
  ASSUME IndInv, Flicker
  PROVE  IndInv'
  <1>1. TypeOK'
    <2>1. component' \in Components /\ loaded' \in Components
      BY DEF IndInv, TypeOK, Flicker, callVars
    <2>2. status' \in Statuses /\ mem' \in Statuses
      BY DEF IndInv, TypeOK, Flicker, callVars
    <2>3. TypeOK /\ Disturb("flicker") /\ ready' = FALSE
      BY DEF IndInv, Flicker
    <2>4. /\ disturbed' \in 0 .. MaxDisturbances /\ edits' \in 0 .. MaxEdits
          /\ changes' \in 0 .. MaxChanges
      BY <2>3, BudgetAssumption DEF TypeOK, Disturb
    <2>5. /\ ready' \in BOOLEAN
          /\ UNCHANGED <<reference, owned, content, queue, requeue, pc, digest, err,
                         stale, last, age>>
      BY DEF Flicker, callVars
    <2> QED
      BY <2>1, <2>2, <2>3, <2>4, <2>5 DEF TypeOK
  <1>2. Guarded'
    BY DEF IndInv, Guarded, Flicker, Disturb
  <1>3. Stored'
    BY DEF IndInv, Stored, ReadyMeansApplied, TimeoutDeserved, Flicker
  <1>4. Running'
    BY DEF IndInv, Running, Clock, Flicker, callVars
  <1>5. Underway'
    BY DEF IndInv, Underway, Flicker, callVars
  <1>6. Handling'
    BY DEF IndInv, Handling, Flicker, callVars
  <1>7. NeverForgotten'
    BY DEF IndInv, NeverForgotten, Flicker
  <1> QED
    BY <1>1, <1>2, <1>3, <1>4, <1>5, <1>6, <1>7 DEF IndInv

\* Neither is when the queue is filled.
LEMMA TriggerInv ==
  ASSUME IndInv, Trigger
  PROVE  IndInv'
  <1>1. TypeOK'
    <2>1. component' \in Components /\ loaded' \in Components
      BY DEF IndInv, TypeOK, Trigger, callAndClusterVars, callVars
    <2>2. status' \in Statuses /\ mem' \in Statuses
      BY DEF IndInv, TypeOK, Trigger, callAndClusterVars, callVars
    <2> QED
      BY <2>1, <2>2, DisturbType
         DEF IndInv, TypeOK, Trigger, callAndClusterVars, clusterVars, callVars
  <1>2. Guarded'
    BY DEF IndInv, Guarded, Trigger, Disturb, callAndClusterVars, clusterVars
  <1>3. Stored'
    BY DEF IndInv, Stored, ReadyMeansApplied, TimeoutDeserved, Trigger,
           callAndClusterVars
  <1>4. Running'
    BY DEF IndInv, Running, Clock, Trigger, callAndClusterVars, clusterVars,
           callVars
  <1>5. Underway'
    BY DEF IndInv, Underway, Trigger, callAndClusterVars, callVars
  <1>6. Handling'
    BY DEF IndInv, Handling, Trigger, callAndClusterVars, callVars
  <1>7. NeverForgotten'
    BY DEF NeverForgotten, Trigger
  <1> QED
    BY <1>1, <1>2, <1>3, <1>4, <1>5, <1>6, <1>7 DEF IndInv

\* The clock and the history count the same ticks.
LEMMA TickInv ==
  ASSUME IndInv, Tick
  PROVE  IndInv'
  <1>1. TypeOK'
    <2>1. status \in Statuses /\ status.processingSince \in Ages \cup {NotProcessing}
      BY DEF IndInv, TypeOK, Statuses
    <2>2. Older(status.processingSince) \in Ages \cup {NotProcessing}
      BY <2>1, OlderType
    <2>3. status' \in Statuses
      BY <2>1, <2>2 DEF Tick, Statuses
    <2> QED
      BY <2>3, OlderType DEF IndInv, TypeOK, Tick, clusterVars, callVars, boundVars
  <1>2. Guarded'
    BY DEF IndInv, Guarded, Tick, clusterVars, boundVars
  <1>3. Stored'
    <2>1. /\ status \in Statuses /\ age \in Ages
          /\ status.processingSince \in Ages \cup {NotProcessing}
      BY DEF IndInv, TypeOK, Statuses
    <2>2. /\ status'.processingSince = Older(status.processingSince)
          /\ status'.state = status.state /\ status'.reason = status.reason
          /\ status'.observedGeneration = status.observedGeneration
          /\ status'.appliedGeneration = status.appliedGeneration
          /\ status'.processingDigest = status.processingDigest
          /\ status'.lastProcessingDigest = status.lastProcessingDigest
      BY <2>1 DEF Tick
    <2>3. age' = Older(age) /\ component' = component
      BY DEF Tick
    <2>4. TimeoutDeserved'
      BY <2>1, <2>2, <2>3, OlderMonotone DEF IndInv, Stored, TimeoutDeserved
    <2>5. Advanced(status') => Advanced(status)
      BY <2>2 DEF Advanced, Older
    <2> QED
      BY <2>2, <2>3, <2>4, <2>5 DEF IndInv, Stored, ReadyMeansApplied
  <1>4. Running'
    BY DEF Running, Tick
  <1>5. Underway'
    BY DEF Underway, Tick
  <1>6. Handling'
    BY DEF Handling, Tick
  <1>7. NeverForgotten'
    BY DEF IndInv, NeverForgotten, Tick
  <1> QED
    BY <1>1, <1>2, <1>3, <1>4, <1>5, <1>6, <1>7 DEF IndInv

\* In the beginning nothing is owned, and the component is queued.
LEMMA InitInv == Init => IndInv
  <1> SUFFICES ASSUME Init
               PROVE  IndInv
    OBVIOUS
  <1>1. /\ component.exists = TRUE /\ component.deleting = FALSE
        /\ component.finalizer = FALSE /\ component.generation = 1
        /\ component.suspended \in BOOLEAN /\ component.foreignFinalizer \in BOOLEAN
        /\ component = [exists |-> component.exists, generation |-> component.generation,
                        suspended |-> component.suspended, deleting |-> component.deleting,
                        finalizer |-> component.finalizer,
                        foreignFinalizer |-> component.foreignFinalizer]
    BY DEF Init
  <1>2. component \in Components /\ status \in Statuses
    <2>1. 1 \in Generations
      BY BudgetAssumption DEF Generations
    <2> QED
      BY <1>1, <2>1, StartType DEF Init, Components
  <1>3. /\ status.observedGeneration = 0 /\ status.state = "" /\ status.reason = ""
        /\ status.processingSince = NotProcessing /\ age = 0
    BY DEF Init, InitialStatus
  <1>4. TypeOK
    <2>1. 0 \in Ages /\ 0 \in 0 .. MaxDisturbances /\ 0 \in 0 .. MaxEdits
          /\ 0 \in 0 .. MaxChanges
      BY OptionsAssumption, BudgetAssumption DEF Ages
    <2>2. last \in [revision : Nat, digest : ComponentDigests \cup {NoDigest}]
      BY DEF Init
    <2>3. loaded \in Components /\ mem \in Statuses
      BY StartType DEF Init
    <2> QED
      BY <1>2, <2>1, <2>2, <2>3 DEF Init, TypeOK
  <1>5. Guarded
    BY <1>1 DEF Init, Guarded
  <1>6. Stored
    <2>1. NotProcessing =< 0
      BY DEF NotProcessing
    <2> QED
      BY <1>3, <2>1 DEF Stored, Advanced, DeletionStates, ReadyMeansApplied,
                        TimeoutDeserved
  <1> QED
    BY <1>1, <1>4, <1>5, <1>6
       DEF Init, IndInv, Running, Underway, Handling, NeverForgotten

\* Every step preserves the invariant.
LEMMA NextInv == IndInv /\ [Next]_vars => IndInv'
  <1> SUFFICES ASSUME IndInv, [Next]_vars
               PROVE  IndInv'
    OBVIOUS
  <1>1. CASE Reconcile
    BY <1>1, LoadNothingInv, LoadInv, ResolveMissingInv, ResolveInv, AddFinalizerInv,
       ApplyPlansInv, ApplyWorksInv, ApplyDoneInv, DeletionBlockedInv, DeleteWorksInv,
       RemoveFinalizerInv, SaveStatusInv, StatusLostInv DEF Reconcile
  <1>2. CASE Failure
    BY <1>2, FailsInv, ApplyFailsInv DEF Failure
  <1>3. CASE Crash
    BY <1>3, CrashInv
  <1>4. CASE Environment
    BY <1>4, EditInv, DeleteComponentInv, ReleaseForeignFinalizerInv, ChangeReferenceInv,
       BecomeReadyInv, FlickerInv, TriggerInv, TickInv DEF Environment
  <1>5. CASE UNCHANGED vars
    <2> USE <1>5 DEF vars, clusterVars, callVars, boundVars, IndInv
    <2>1. TypeOK' /\ Guarded'
      BY DEF TypeOK, Guarded
    <2>2. Stored'
      BY DEF Stored, ReadyMeansApplied, TimeoutDeserved
    <2>3. Running'
      BY DEF Running, Clock
    <2>4. Underway' /\ Handling' /\ NeverForgotten'
      BY DEF Underway, Handling, NeverForgotten
    <2> QED
      BY <2>1, <2>2, <2>3, <2>4
  <1> QED
    BY <1>1, <1>2, <1>3, <1>4, <1>5 DEF Next

\* It holds in all reachable states.
LEMMA Inductive == Spec => []IndInv
  BY InitInv, NextInv, PTL DEF Spec

-----------------------------------------------------------------------------
(* What follows from the invariant *)

\* All variables keep their types.
THEOREM TypeCorrect == Spec => []TypeOK
  <1>1. IndInv => TypeOK
    BY DEF IndInv
  <1> QED
    BY <1>1, Inductive, PTL

\* While there are dependent objects the component exists and has the finalizer.
THEOREM FinalizerIsGuarding == Spec => []FinalizerGuards
  <1>1. IndInv => FinalizerGuards
    BY DEF IndInv, Guarded, FinalizerGuards
  <1> QED
    BY <1>1, Inductive, PTL

\* A component that says Ready has been applied as observed.
THEOREM ReadyIsApplied == Spec => []ReadyMeansApplied
  <1>1. IndInv => ReadyMeansApplied
    BY DEF IndInv, Stored
  <1> QED
    BY <1>1, Inductive, PTL

\* The code never gets where it says that this cannot happen.
THEOREM NoPanic == Spec => []NeverPanics
  <1>1. IndInv => NeverPanics
    <2> SUFFICES ASSUME IndInv
                 PROVE  NeverPanics
      OBVIOUS
    <2>1. pc = "status" /\ ~ loaded.deleting =>
             mem.state \in {"Ready", "Processing", "Pending", "Error"}
      BY DEF IndInv, TypeOK, Running, DeletionStates, Statuses, States
    <2>2. pc = "reconcile" /\ ~ loaded.deleting => mem.processingDigest = digest
      BY DEF IndInv, Underway
    <2> QED
      BY <2>1, <2>2 DEF NeverPanics
  <1> QED
    BY <1>1, Inductive, PTL

\* The timeout does not hit a digest that has not been processed for its full time.
THEOREM TimeoutIsDeserved == Spec => []TimeoutDeserved
  <1>1. IndInv => TimeoutDeserved
    BY DEF IndInv, Stored
  <1> QED
    BY <1>1, Inductive, PTL

\* A component that exists will be reconciled again.
THEOREM NothingForgotten == Spec => []NeverForgotten
  <1>1. IndInv => NeverForgotten
    BY DEF IndInv
  <1> QED
    BY <1>1, Inductive, PTL

\* Nothing but success, a change or deletion stops the clock of the timeout.
THEOREM ClockRunsOn == Spec => TimeoutRunsOn
  <1> DEFINE Excused == \/ status'.state = "Ready"
                        \/ status'.processingDigest # status.processingDigest
                        \/ loaded.deleting
             Slower == status.processingSince # NotProcessing
                       /\ status'.processingSince < status.processingSince
  <1>1. ASSUME IndInv, [Next]_vars, Slower
        PROVE  Excused
    <2>1. /\ status \in Statuses /\ mem \in Statuses /\ TypeOK
          /\ status.processingSince \in Ages \cup {NotProcessing}
          /\ mem.processingSince \in Ages \cup {NotProcessing}
      BY <1>1 DEF IndInv, TypeOK, Statuses
    <2>2. status' # status
      BY <1>1, <2>1, OptionsAssumption DEF Ages, NotProcessing
    <2>3. CASE Tick
      <3>1. status'.processingSince = Older(status.processingSince)
        BY <2>1, <2>3 DEF Tick, Statuses
      <3> QED
        BY <1>1, <2>1, <3>1, OptionsAssumption DEF Older, Ages, NotProcessing
    <2>4. CASE SaveStatus
      <3>1. /\ status'.processingSince = Outcome.processingSince
            /\ status'.processingDigest = mem.processingDigest
            /\ status'.state = Outcome.state
        BY <2>1, <2>4, OutcomeType, OutcomeFields DEF SaveStatus, Statuses
      <3>2. CASE Outcome.processingSince # mem.processingSince
        BY <2>1, <3>1, <3>2, OutcomeFields
      <3>3. CASE Outcome.processingSince = mem.processingSince
        <4>1. \/ status.processingSince =< mem.processingSince
              \/ mem.processingDigest # status.processingDigest
              \/ loaded.deleting
          BY <1>1, <2>4 DEF IndInv, Running, Clock, SaveStatus
        <4>2. ~ status.processingSince =< mem.processingSince
          BY <1>1, <2>1, <3>1, <3>3, OptionsAssumption DEF Ages, NotProcessing
        <4> QED
          BY <3>1, <4>1, <4>2
      <3> QED
        BY <3>2, <3>3
    <2>5. Tick \/ SaveStatus
      BY <1>1, <2>2
         DEF Next, Reconcile, Failure, Environment, vars, LoadNothing, Load,
             ResolveMissing, Resolve, AddFinalizer, ApplyPlans, ApplyWorks, ApplyDone,
             ApplyFails, Applies, Reconciles, Deletes, DeletionBlocked, DeleteWorks,
             RemoveFinalizer, StatusLost, Fails, InCall, Crash, Edit, DeleteComponent,
             ReleaseForeignFinalizer, ChangeReference, BecomeReady, Flicker, Trigger,
             callAndClusterVars
    <2> QED
      BY <2>3, <2>4, <2>5
  <1>2. IndInv /\ [Next]_vars => [Slower => Excused]_vars
    BY <1>1
  <1> QED
    BY <1>2, Inductive, PTL DEF Spec, TimeoutRunsOn

\* Revisions count the digests that Apply is called with.
THEOREM RevisionsCount == Spec => RevisionCountsDigests
  <1> DEFINE Known == status.revision = last.revision
                      /\ status.lastProcessingDigest = last.digest
             Next1 == last'.digest # last.digest /\ last'.revision = last.revision + 1
  <1>1. ASSUME IndInv, [Next]_vars, last' # last, Known
        PROVE  Next1
    <2>1. PICK s : Applies(s)
      BY <1>1 DEF Next, Reconcile, Failure, Environment, vars, LoadNothing, Load,
             ResolveMissing, Resolve, AddFinalizer, ApplyPlans, ApplyWorks, ApplyDone,
             ApplyFails, Deletes, DeletionBlocked, DeleteWorks,
             RemoveFinalizer, SaveStatus, StatusLost, Fails, Crash, Edit, DeleteComponent,
             ReleaseForeignFinalizer, ChangeReference, BecomeReady, Flicker, Trigger, Tick,
             callAndClusterVars
    <2>2. /\ mem \in Statuses /\ mem.processingDigest = digest
          /\ mem.revision = last.revision /\ mem.lastProcessingDigest = last.digest
          /\ last \in [revision : Nat, digest : ComponentDigests \cup {NoDigest}]
      BY <1>1, <2>1 DEF IndInv, TypeOK, Underway, Applies, Reconciles, InCall
    <2>3. last' = [revision |-> Numbered(mem).revision, digest |-> digest]
      BY <2>1 DEF Applies
    <2>4. CASE digest = last.digest
      BY <1>1, <2>2, <2>3, <2>4 DEF Numbered
    <2>5. CASE digest # last.digest
      <3>1. Numbered(mem).revision = mem.revision + 1
        BY <2>2, <2>5 DEF Numbered, Statuses
      <3> QED
        BY <2>2, <2>3, <2>5, <3>1
    <2> QED
      BY <2>4, <2>5
  <1>2. IndInv /\ [Next]_vars => [last' # last /\ Known => Next1]_vars
    BY <1>1
  <1> QED
    BY <1>2, Inductive, PTL DEF Spec, RevisionCountsDigests

-----------------------------------------------------------------------------
(* The status of the component is a write-ahead ledger *)

LedgerStep == [Ledger!Next]_(Ledger!vars)

\* The inventory is saved, or ends with the component.
LEMMA RecordStep ==
  ASSUME owned' = owned, owned \subseteq KnownKeys', KnownKeys' \subseteq Keys
  PROVE  LedgerStep
  <1>1. Ledger!Record(KnownKeys', {})
    BY DEF Ledger!Record
  <1> QED
    BY <1>1 DEF LedgerStep, Ledger!Next

\* Objects are deleted.
LEMMA LoseStep ==
  ASSUME KnownKeys' = KnownKeys, owned' \subseteq owned, owned \subseteq Keys
  PROVE  LedgerStep
  <1> DEFINE S == owned \ owned'
  <1>1. S \in SUBSET Keys
    OBVIOUS
  <1>2. Ledger!Lose(S)
    BY DEF Ledger!Lose
  <1> HIDE DEF S
  <1> QED
    BY <1>1, <1>2 DEF LedgerStep, Ledger!Next

\* What is rendered and recorded is written.
LEMMA WriteStep ==
  ASSUME IndInv, pc = "reconcile", ~ loaded.deleting, loaded.finalizer,
         ~ Adds, Write, KnownKeys' = KnownKeys
  PROVE  LedgerStep
  <1> DEFINE S == Rendered(digest)
  <1>1. S \in SUBSET Keys
    BY RenderedType
  <1>2. component.exists
    BY DEF IndInv, Guarded, Running
  <1>3. S \subseteq KnownKeys
    BY <1>2 DEF IndInv, Underway, Adds, KnownKeys
  <1>4. Ledger!Acquire(S, {})
    BY <1>3 DEF Ledger!Acquire, Write
  <1>5. {} \in SUBSET Keys
    OBVIOUS
  <1> HIDE DEF S
  <1> QED
    BY <1>1, <1>4, <1>5 DEF LedgerStep, Ledger!Next

\* Every step of the reconciler is one of the ledger, or leaves it as it is.
LEMMA StepsOfLedger == IndInv /\ IndInv' /\ [Next]_vars => LedgerStep
  <1> SUFFICES ASSUME IndInv, IndInv', [Next]_vars
               PROVE  LedgerStep
    OBVIOUS
  <1>1. /\ owned' \subseteq KnownKeys' /\ KnownKeys' \subseteq Keys
        /\ owned \subseteq KnownKeys /\ owned \subseteq Keys
    BY DEF IndInv, TypeOK, Guarded, KnownKeys, Statuses
  <1>2. CASE owned' = owned
    BY <1>1, <1>2, RecordStep
  <1>3. CASE owned' # owned
    <2>1. \/ ApplyWorks \/ ApplyFails \/ DeleteWorks
      BY <1>3 DEF Next, Reconcile, Failure, Environment, vars, LoadNothing, Load,
             ResolveMissing, Resolve, AddFinalizer, ApplyPlans, ApplyDone,
             DeletionBlocked, RemoveFinalizer, SaveStatus, StatusLost, Done, Fails, Crash,
             Edit, DeleteComponent, ReleaseForeignFinalizer, ChangeReference, BecomeReady,
             Flicker, Trigger, Tick, callAndClusterVars, clusterVars
    <2>2. KnownKeys' = KnownKeys
      BY <2>1 DEF ApplyWorks, ApplyFails, Applies, Reconciles, DeleteWorks, Deletes, InCall,
                  KnownKeys
    <2>3. CASE owned' \subseteq owned
      BY <1>1, <2>2, <2>3, LoseStep
    <2>4. CASE ~ owned' \subseteq owned
      <3>1. /\ pc = "reconcile" /\ ~ loaded.deleting /\ loaded.finalizer
            /\ ~ Adds /\ Write
        BY <2>1, <2>4 DEF ApplyWorks, ApplyFails, Applies, Reconciles, InCall, MayApply,
                          DeleteWorks, clusterVars
      <3> QED
        BY <2>2, <3>1, WriteStep
    <2> QED
      BY <2>3, <2>4
  <1> QED
    BY <1>2, <1>3

\* The reconciler of components keeps the ledger.
THEOREM LedgerKept == Spec => KeepsLedger
  <1>1. Init => Ledger!Init
    <2> SUFFICES ASSUME Init
                 PROVE  Ledger!Init
      OBVIOUS
    <2>1. status.inventory = {} /\ owned = {}
      BY DEF Init, InitialStatus
    <2> QED
      BY <2>1 DEF Ledger!Init, KnownKeys
  <1>2. IndInv /\ IndInv' /\ [Next]_vars => [Ledger!Next]_(Ledger!vars)
    BY StepsOfLedger DEF LedgerStep
  <1> QED
    BY <1>1, <1>2, Inductive, PTL DEF Spec, KeepsLedger, Ledger!Spec

=============================================================================
