------------------------------- MODULE ClmProofs -------------------------------
(***************************************************************************)
(* Proofs about Clm, for any number of commands, whatever they render, and *)
(* however often they are disturbed or killed.                             *)
(***************************************************************************)
EXTENDS Clm, TLAPS

\* A command that has touched the release has not succeeded.
Unsuccessful(p) ==
    /\ pc[p] \notin {"start", "create", "delete", "get"}
    /\ ~ (pc[p] = "done" /\ result[p] = "ok")

\* Object k is held in the inventory of one of them.
Minded(k) == \E p \in Processes : Unsuccessful(p) /\ k \in Held(mem[p].inventory)

\* What is in the cluster is held in the release, or minded; and it is minded, too, if
\* a command that may still write the release does not hold it any more.
MindedInv ==
    /\ \A k \in Owned \ Recorded : Minded(k)
    /\ \A p \in Processes : fresh[p] =>
          \A k \in Owned \cap Held(release.inventory) :
              k \notin Held(mem[p].inventory) => Minded(k)
    /\ \A p \in Processes : pc[p] = "apply" => todo[p] \subseteq Held(mem[p].inventory)

Succeeded(p) == p \notin Deleting /\ pc[p] = "done" /\ result[p] = "ok"

\* The release and the copies that may be written have higher revisions than those
\* that were written at the end of a successful command.
NumberInv ==
    /\ \A p \in Processes : Succeeded(p) =>
          /\ mem[p].uid =< release.uid
          /\ mem[p].uid = release.uid => mem[p].revision =< release.revision
    /\ \A p \in Processes : fresh[p] =>
          mem[p].uid = release.uid /\ release.revision =< mem[p].revision
    /\ \A p, q \in Processes :
          /\ Succeeded(p) /\ q \notin Deleting /\ fresh[q] /\ pc[q] # "done"
          /\ mem[p].uid = mem[q].uid
          => mem[p].revision < mem[q].revision
    /\ SuccessesAreNumbered

\* Only clm delete deletes a release.
DeletingInv == \A p \in Processes : pc[p] \in {"delete", "get"} => p \in Deleting

Working(p) == pc[p] \in {"loop", "apply", "prune", "save", "wait", "finish"}

\* The items that command p leaves when all goes well.
Rendered(p) == [k \in Keys |-> IF k \in Wanted(p) THEN "kept" ELSE "none"]

\* What a command knows that no other one has interfered with: all that is there was
\* not held in the release when it started, or still is, or is held in its copy; what
\* it has applied is its own, and what it has handled in vain is gone.
Clean(p) ==
    /\ \A q \in Processes \ {p} : ~ Running(q)
    /\ pc[p] = "create" => Owned \subseteq leaked /\ p \notin Deleting
    /\ pc[p] \in {"delete", "get"} => Owned \ leaked \subseteq Recorded
    /\ pc[p] = "get" => release.deleting
    /\ Working(p) =>
          /\ Owned \ leaked \subseteq Held(mem[p].inventory)
          /\ p \in Deleting => mem[p].deleting
    /\ pc[p] \in {"apply", "prune"} =>
          /\ \A k \in Wanted(p) : mem[p].inventory[k] = "kept"
          /\ \A k \in Keys \ Wanted(p) : mem[p].inventory[k] = "kept" => p \in Deleting
          /\ \A k \in Wanted(p) \ todo[p] : cluster[k] = p
    /\ pc[p] = "apply" => todo[p] \subseteq Wanted(p)
    /\ pc[p] = "prune" =>
          /\ todo[p] \cap Wanted(p) = {}
          /\ ~ busy[p] => Held(mem[p].inventory) \subseteq Wanted(p) \cup todo[p]
    /\ pc[p] = "finish" /\ result[p] = "ok" =>
          /\ mem[p].inventory = Rendered(p)
          /\ \A k \in Wanted(p) : cluster[k] = p
          /\ p \notin Deleting => mem[p].state = "Ready"

AloneInv == \A p \in Processes : alone = p => Clean(p)

\* The inductive invariant.
IndInv == TypeOK /\ MindedInv /\ NumberInv /\ DeletingInv /\ AloneInv

-----------------------------------------------------------------------------
(* Types *)

\* Inventories.
LEMMA InventoryTypes ==
  /\ NoItems \in Inventories
  /\ \A i \in Inventories : Filtered(i) \in Inventories
  /\ \A i \in Inventories, k \in Keys, item \in Items :
        [i EXCEPT ![k] = item] \in Inventories
  BY DEF NoItems, Inventories, Items, Filtered

\* A copy with another inventory is a copy.
LEMMA CopyTypes ==
  ASSUME NEW c \in Copies, NEW i \in Inventories, NEW state \in States
  PROVE  /\ [c EXCEPT !.inventory = i] \in Copies
         /\ [c EXCEPT !.inventory = i, !.state = state] \in Copies
         /\ [c EXCEPT !.state = state] \in Copies
  BY DEF Copies

\* What is held in an inventory.
LEMMA HeldItems ==
  /\ Held(NoItems) = {}
  /\ \A i \in Inventories : Held(Filtered(i)) = Held(i) /\ Held(i) \subseteq Listed(i)
  /\ \A i \in Inventories : Listed(i) \subseteq Keys
  BY DEF Held, Listed, NoItems, Filtered, Inventories

\* What Apply makes of an inventory.
LEMMA MarkedItems ==
  ASSUME TypeOK, NEW p \in Processes
  PROVE  /\ Marked(p) \in Inventories
         /\ Held(Marked(p)) = Held(mem[p].inventory) \cup Wanted(p)
         /\ \A k \in Wanted(p) : Marked(p)[k] = "kept"
         /\ \A k \in Keys \ Wanted(p) : Marked(p)[k] = "kept" => p \in Deleting
  <1>1. mem[p].inventory \in [Keys -> Items] /\ Wanted(p) \subseteq Keys
    BY CommandsAssumption DEF TypeOK, Copies, Inventories, Wanted
  <1> DEFINE i == mem[p].inventory
  <1>2. Marked(p) = [k \in Keys |-> IF k \in Wanted(p) THEN "kept"
                                   ELSE IF i[k] = "kept" /\ p \notin Deleting
                                   THEN "scheduled" ELSE i[k]]
    BY DEF Marked
  <1>3. i \in [Keys -> Items]
    BY <1>1
  <1> HIDE DEF i
  <1>4. Marked(p) \in Inventories
    BY <1>2, <1>3 DEF Inventories, Items
  <1>5. Held(Marked(p)) = Held(i) \cup Wanted(p)
    BY <1>1, <1>2, <1>3 DEF Held
  <1>6. /\ \A k \in Wanted(p) : Marked(p)[k] = "kept"
        /\ \A k \in Keys \ Wanted(p) : Marked(p)[k] = "kept" => p \in Deleting
    BY <1>1, <1>2
  <1> QED
    BY <1>4, <1>5, <1>6 DEF i

\* What the types say of one command.
LEMMA Typed ==
  ASSUME TypeOK, NEW p \in Processes
  PROVE  /\ mem[p] \in Copies /\ mem[p].inventory \in Inventories
         /\ mem[p].uid \in Nat /\ mem[p].revision \in Nat /\ mem[p].state \in States
         /\ mem[p].deleting \in BOOLEAN
         /\ release.uid \in Nat /\ release.revision \in Nat
         /\ release.inventory \in Inventories /\ release.exists \in BOOLEAN
         /\ Manifest[p] \subseteq Keys /\ Wanted(p) \subseteq Keys
         /\ Copy \in Copies /\ NextRevision \in Copies
  <1>1. /\ release.uid \in Nat /\ release.revision \in Nat
        /\ release.inventory \in Inventories /\ release.exists \in BOOLEAN
        /\ release.deleting \in BOOLEAN /\ release.state \in States
    BY DEF TypeOK
  <1>2. Copy \in Copies
    BY <1>1 DEF Copy, Copies
  <1>3. NextRevision \in Copies
    BY <1>2 DEF NextRevision, Copies
  <1>4. mem[p] \in Copies
    BY DEF TypeOK
  <1>5. Manifest[p] \subseteq Keys /\ Wanted(p) \subseteq Keys
    BY CommandsAssumption DEF Wanted
  <1> QED
    BY <1>1, <1>2, <1>3, <1>4, <1>5 DEF Copies

\* The end of a command.
LEMMA EndsTypes ==
  ASSUME TypeOK, NEW p \in Processes, NEW how \in {"none", "ok", "error", "crashed"},
         Ends(p, how)
  PROVE  /\ pc' \in [Processes -> {"start", "create", "delete", "get", "loop", "apply",
                                   "prune", "save", "wait", "finish", "done"}]
         /\ mem' \in [Processes -> Copies]
         /\ todo' \in [Processes -> SUBSET Keys] /\ busy' \in [Processes -> BOOLEAN]
         /\ errCount' \in [Processes -> 0 .. MaxErrCount]
         /\ result' \in [Processes -> {"none", "ok", "error", "crashed"}]
  <1> DEFINE new == [mem[p] EXCEPT !.state = "", !.deleting = FALSE]
  <1>1. /\ mem[p] \in [uid : Nat, revision : Nat, inventory : Inventories,
                       deleting : BOOLEAN, state : States]
        /\ "" \in States
    BY DEF TypeOK, Copies, States
  <1>2. new \in Copies
    BY <1>1 DEF Copies
  <1>3. mem' = [mem EXCEPT ![p] = new]
    BY DEF Ends
  <1>4. mem' \in [Processes -> Copies]
    BY <1>2, <1>3 DEF TypeOK
  <1>5. 0 \in 0 .. MaxErrCount
    BY BoundsAssumption
  <1> QED
    BY <1>4, <1>5 DEF Ends, TypeOK

\* Disturbances are counted.
LEMMA DisturbTypes ==
  ASSUME TypeOK, NEW p, NEW kind, Disturb(p, kind)
  PROVE  disturbed' \in 0 .. MaxDisturbances /\ UNCHANGED <<alone, leaked>>
  BY BoundsAssumption DEF Disturb, TypeOK

\* The failure of a command.
LEMMA FailTypes ==
  ASSUME TypeOK, NEW p \in Processes, Fail(p),
         alone' = alone, leaked' = leaked, disturbed' \in 0 .. MaxDisturbances
  PROVE  TypeOK'
  <1>1. /\ pc' = [pc EXCEPT ![p] = "finish"] /\ result' = [result EXCEPT ![p] = "error"]
        /\ UNCHANGED <<release, cluster, fresh, todo, busy, errCount>>
    BY DEF Fail, loopVars
  <1>2. mem' \in [Processes -> Copies]
    <2>1. mem' = [mem EXCEPT ![p].state = "Error"] /\ mem \in [Processes -> Copies]
      BY DEF Fail, TypeOK
    <2>2. [mem[p] EXCEPT !.state = "Error"] \in Copies
      BY <2>1 DEF Copies, States
    <2> QED
      BY <2>1, <2>2
  <1> QED
    BY <1>1, <1>2 DEF TypeOK

\* The release as it is written is of the right type.
LEMMA UpdateTypes ==
  ASSUME TypeOK, NEW p \in Processes, Update(p)
  PROVE  /\ release' \in [uid : Nat, revision : Nat, inventory : Inventories,
                          deleting : BOOLEAN, state : States, exists : BOOLEAN]
         /\ fresh' \in [Processes -> BOOLEAN]
  <1>1. /\ release' = [release EXCEPT
                         !.revision = mem[p].revision, !.inventory = mem[p].inventory,
                         !.state = mem[p].state,
                         !.exists = ~ (mem[p].deleting /\ Listed(mem[p].inventory) = {})]
        /\ fresh' = [q \in Processes |-> q = p]
    BY DEF Update, Writes
  <1>2. /\ mem[p].inventory \in Inventories /\ mem[p].revision \in Nat
        /\ mem[p].state \in States
    BY Typed
  <1>3. (~ (mem[p].deleting /\ Listed(mem[p].inventory) = {})) \in BOOLEAN
    OBVIOUS
  <1>4. fresh' \in [Processes -> BOOLEAN]
    BY <1>1
  <1> QED
    BY <1>1, <1>2, <1>3, <1>4 DEF TypeOK

\* What is handled without an error: the item is that of an object that is gone.
LEMMA Pruned ==
  ASSUME TypeOK, NEW p \in Processes, NEW k \in Keys, PruneObject(p, k), ~ Fail(p)
  PROVE  /\ pc[p] = "prune" /\ k \in todo[p]
         /\ todo' = [todo EXCEPT ![p] = @ \ {k}]
         /\ cluster' = [cluster EXCEPT ![k] = Nobody]
         /\ UNCHANGED <<release, pc, fresh, errCount, result, alone, leaked, disturbed>>
         /\ \/ busy' = [busy EXCEPT ![p] = TRUE]
            \/ busy' = busy /\ mem'[p].inventory[k] = "blank"
         /\ mem'[p].inventory \in Inventories /\ mem' \in [Processes -> Copies]
         /\ mem'[p].inventory[k] \in {"deleting", "blank"}
         /\ \A j \in Keys \ {k} : mem'[p].inventory[j] = mem[p].inventory[j]
         /\ \A q \in Processes : /\ q # p => mem'[q] = mem[q]
                                 /\ mem'[q].uid = mem[q].uid
                                 /\ mem'[q].revision = mem[q].revision
                                 /\ mem'[q].deleting = mem[q].deleting
  <1>1. /\ pc[p] = "prune" /\ k \in todo[p] /\ UNCHANGED historyVars
        /\ DeleteObject(p, k) \/ FindGone(p, k)
        /\ todo' = [todo EXCEPT ![p] = @ \ {k}]
        /\ UNCHANGED <<release, fresh, errCount>>
    BY DEF PruneObject
  <1>2. PICK item \in {"deleting", "blank"} :
           /\ mem' = [mem EXCEPT ![p].inventory[k] = item]
           /\ \/ busy' = [busy EXCEPT ![p] = TRUE]
              \/ busy' = busy /\ item = "blank"
    BY <1>1 DEF DeleteObject, FindGone, Item
  <1> DEFINE i == [mem[p].inventory EXCEPT ![k] = item]
             new == [mem[p] EXCEPT !.inventory = i]
  <1>3. mem' = [mem EXCEPT ![p] = new]
    BY <1>2
  <1>4. /\ i \in Inventories /\ i[k] = item
        /\ \A j \in Keys \ {k} : i[j] = mem[p].inventory[j]
    BY Typed, InventoryTypes DEF Inventories, Items
  <1> HIDE DEF i
  <1>5. /\ new \in Copies /\ new.inventory = i /\ new.uid = mem[p].uid
        /\ new.revision = mem[p].revision /\ new.deleting = mem[p].deleting
    BY <1>4, Typed, CopyTypes DEF Copies
  <1> HIDE DEF new
  <1>6. /\ mem' \in [Processes -> Copies] /\ mem'[p] = new
        /\ \A q \in Processes : q # p => mem'[q] = mem[q]
    BY <1>3, <1>5 DEF TypeOK
  <1>7. cluster' = [cluster EXCEPT ![k] = Nobody]
    <2>1. CASE DeleteObject(p, k)
      BY <2>1 DEF DeleteObject
    <2>2. CASE FindGone(p, k)
      BY <2>2 DEF FindGone, TypeOK
    <2> QED
      BY <1>1, <2>1, <2>2
  <1>8. UNCHANGED <<pc, result>>
    BY <1>1 DEF DeleteObject, FindGone
  <1>9. /\ mem'[p].inventory = i
        /\ \A q \in Processes : /\ mem'[q].uid = mem[q].uid
                                /\ mem'[q].revision = mem[q].revision
                                /\ mem'[q].deleting = mem[q].deleting
    BY <1>5, <1>6
  <1> QED
    BY <1>1, <1>2, <1>4, <1>6, <1>7, <1>8, <1>9 DEF historyVars

\* The end of a call changes a copy in its blanks only.
LEMMA Ended ==
  ASSUME TypeOK, NEW p \in Processes, EndCall(p)
  PROVE  /\ mem' \in [Processes -> Copies]
         /\ \A q \in Processes : /\ q # p => mem'[q] = mem[q]
                                 /\ mem'[q].uid = mem[q].uid
                                 /\ mem'[q].revision = mem[q].revision
                                 /\ mem'[q].deleting = mem[q].deleting
                                 /\ Held(mem'[q].inventory) = Held(mem[q].inventory)
         /\ ~ busy[p] => /\ mem'[p].inventory = Filtered(mem[p].inventory)
                         /\ p \notin Deleting => mem'[p].state = "Ready"
  <1> DEFINE state == IF p \in Deleting THEN mem[p].state ELSE "Ready"
             new == [mem[p] EXCEPT !.inventory = Filtered(mem[p].inventory)]
             last == [mem[p] EXCEPT !.inventory = Filtered(mem[p].inventory),
                                    !.state = state]
  <1>1. /\ \/ mem' = mem /\ busy[p]
           \/ mem' = [mem EXCEPT ![p] = new] /\ busy[p]
           \/ mem' = [mem EXCEPT ![p] = last]
    BY DEF EndCall
  <1>2. state \in States /\ (p \notin Deleting => state = "Ready")
    BY Typed DEF States
  <1> HIDE DEF state
  <1>3. /\ new \in Copies /\ new.inventory = Filtered(mem[p].inventory)
        /\ new.uid = mem[p].uid /\ new.revision = mem[p].revision
        /\ new.deleting = mem[p].deleting
    BY Typed, InventoryTypes, CopyTypes DEF Copies
  <1>4. /\ last \in Copies /\ last.inventory = Filtered(mem[p].inventory)
        /\ last.uid = mem[p].uid /\ last.revision = mem[p].revision
        /\ last.deleting = mem[p].deleting /\ last.state = state
    BY <1>2, Typed, InventoryTypes, CopyTypes DEF Copies
  <1> HIDE DEF new, last
  <1>5. PICK c \in {mem[p], new, last} :
           mem' = [mem EXCEPT ![p] = c] /\ (~ busy[p] => c = last)
    BY <1>1 DEF TypeOK
  <1>6. /\ mem' \in [Processes -> Copies] /\ mem'[p] = c
        /\ \A q \in Processes : q # p => mem'[q] = mem[q]
    BY <1>3, <1>4, <1>5 DEF TypeOK
  <1>7. Held(Filtered(mem[p].inventory)) = Held(mem[p].inventory)
    BY HeldItems, Typed
  <1>8. /\ c.uid = mem[p].uid /\ c.revision = mem[p].revision
        /\ c.deleting = mem[p].deleting
        /\ Held(c.inventory) = Held(mem[p].inventory)
    BY <1>3, <1>4, <1>5, <1>7
  <1> QED
    BY <1>2, <1>4, <1>5, <1>6, <1>8

\* Beginning keeps the types.
LEMMA BeginningTypes ==
  ASSUME TypeOK, NEW p \in Processes,
         \/ StartApply(p) \/ CreateRelease(p) \/ StartDelete(p)
         \/ DeleteRelease(p) \/ GetAgain(p)
  PROVE  TypeOK'
  <1>1. ASSUME Starts(p) PROVE /\ alone' \in Processes \cup {Nobody}
                               /\ leaked' \in SUBSET Keys /\ disturbed' \in 0 .. MaxDisturbances
    BY <1>1 DEF Starts, TypeOK, Owned
  <1>2. ASSUME Quits(p), /\ alone' \in Processes \cup {Nobody}
                         /\ leaked' \in SUBSET Keys /\ disturbed' \in 0 .. MaxDisturbances
        PROVE  TypeOK'
    BY <1>2, EndsTypes DEF Quits, TypeOK
  <1>3. ASSUME NEW from, NEW to \in {"loop", "delete"}, Goes(p, from, to),
               Reads(p, Copy) \/ Reads(p, NextRevision), UNCHANGED release,
               /\ alone' \in Processes \cup {Nobody}
               /\ leaked' \in SUBSET Keys /\ disturbed' \in 0 .. MaxDisturbances
        PROVE  TypeOK'
    <2>1. mem' \in [Processes -> Copies]
      BY <1>3, Typed DEF Reads, TypeOK
    <2>2. /\ pc' = [pc EXCEPT ![p] = to]
          /\ fresh' = [fresh EXCEPT ![p] = TRUE]
          /\ UNCHANGED <<release, cluster, todo, busy, errCount, result>>
      BY <1>3 DEF Goes, Reads, loopVars
    <2>3. pc' \in [Processes -> {"start", "create", "delete", "get", "loop", "apply",
                                "prune", "save", "wait", "finish", "done"}]
      BY <1>3, <2>2 DEF TypeOK
    <2> QED
      BY <1>3, <2>1, <2>2, <2>3 DEF TypeOK
  <1>4. ASSUME StartApply(p) PROVE TypeOK'
    <2>1. CASE Quits(p)
      BY <1>1, <1>2, <1>4, <2>1 DEF StartApply
    <2>2. CASE /\ Goes(p, "start", "loop") /\ Reads(p, NextRevision) /\ UNCHANGED release
      BY <1>1, <1>3, <1>4, <2>2 DEF StartApply
    <2>3. CASE /\ Goes(p, "start", "create")
               /\ UNCHANGED <<release, cluster, mem, fresh, loopVars, result>>
      BY <1>1, <1>4, <2>3 DEF StartApply, Goes, TypeOK, loopVars
    <2> QED
      BY <1>4, <2>1, <2>2, <2>3 DEF StartApply
  <1>5. ASSUME CreateRelease(p) PROVE TypeOK'
    <2>1. /\ alone' \in Processes \cup {Nobody}
          /\ leaked' \in SUBSET Keys /\ disturbed' \in 0 .. MaxDisturbances
      BY <1>5 DEF CreateRelease, historyVars, TypeOK
    <2>2. CASE Quits(p)
      BY <1>2, <2>1, <2>2
    <2>3. CASE ~ Quits(p)
      <3> DEFINE copy == [uid |-> release.uid + 1, revision |-> 1, inventory |-> NoItems,
                          deleting |-> FALSE, state |-> ""]
                 new == [NoRelease EXCEPT !.exists = TRUE, !.uid = release.uid + 1]
      <3>1. /\ Goes(p, "create", "loop") /\ Writes(p, new)
            /\ mem' = [mem EXCEPT ![p] = copy]
            /\ UNCHANGED <<cluster, loopVars, result>>
        BY <1>5, <2>3 DEF CreateRelease
      <3> DEFINE uid == release.uid + 1
      <3>0. uid \in Nat
        BY Typed
      <3>2. copy \in Copies
        <4> HIDE DEF uid
        <4>1. [uid |-> uid, revision |-> 1, inventory |-> NoItems,
               deleting |-> FALSE, state |-> ""] \in Copies
          BY <3>0, InventoryTypes DEF Copies, States
        <4> QED
          BY <4>1 DEF uid
      <3>3. new \in [uid : Nat, revision : Nat, inventory : Inventories,
                     deleting : BOOLEAN, state : States, exists : BOOLEAN]
        <4> HIDE DEF uid
        <4>1. NoRelease \in [uid : Nat, revision : Nat, inventory : Inventories,
                             deleting : BOOLEAN, state : States, exists : BOOLEAN]
          BY InventoryTypes DEF NoRelease, States
        <4>2. [NoRelease EXCEPT !.exists = TRUE, !.uid = uid] \in
                 [uid : Nat, revision : Nat, inventory : Inventories,
                  deleting : BOOLEAN, state : States, exists : BOOLEAN]
          BY <3>0, <4>1
        <4> QED
          BY <4>2 DEF uid
      <3> HIDE DEF copy, new
      <3> QED
        BY <2>1, <3>1, <3>2, <3>3 DEF Goes, Writes, TypeOK, loopVars
    <2> QED
      BY <2>2, <2>3
  <1>6. ASSUME StartDelete(p) PROVE TypeOK'
    <2>1. CASE Quits(p)
      BY <1>1, <1>2, <1>6, <2>1 DEF StartDelete
    <2>2. CASE ~ Quits(p)
      BY <1>1, <1>3, <1>6, <2>2 DEF StartDelete
    <2> QED
      BY <2>1, <2>2
  <1>7. ASSUME DeleteRelease(p) PROVE TypeOK'
    <2>1. /\ alone' \in Processes \cup {Nobody}
          /\ leaked' \in SUBSET Keys /\ disturbed' \in 0 .. MaxDisturbances
      BY <1>7 DEF DeleteRelease, historyVars, TypeOK
    <2>2. CASE Quits(p)
      BY <1>2, <2>1, <2>2
    <2>3. CASE ~ Quits(p)
      <3>1. /\ Goes(p, "delete", "get")
            /\ UNCHANGED <<cluster, mem, loopVars, result>>
            /\ IF release.deleting THEN UNCHANGED <<release, fresh>>
               ELSE Writes(p, [release EXCEPT !.deleting = TRUE])
        BY <1>7, <2>3 DEF DeleteRelease
      <3>2. [release EXCEPT !.deleting = TRUE] \in
               [uid : Nat, revision : Nat, inventory : Inventories,
                deleting : BOOLEAN, state : States, exists : BOOLEAN]
        BY DEF TypeOK
      <3>3. /\ release' \in [uid : Nat, revision : Nat, inventory : Inventories,
                             deleting : BOOLEAN, state : States, exists : BOOLEAN]
            /\ fresh' \in [Processes -> BOOLEAN]
        <4>1. CASE release.deleting
          BY <3>1, <4>1 DEF TypeOK
        <4>2. CASE ~ release.deleting
          <5>1. /\ release' = [release EXCEPT !.deleting = TRUE]
                /\ fresh' = [q \in Processes |-> q = p]
            BY <3>1, <4>2 DEF Writes
          <5>2. fresh' \in [Processes -> BOOLEAN]
            BY <5>1
          <5> QED
            BY <3>2, <5>1, <5>2
        <4> QED
          BY <4>1, <4>2
      <3> QED
        BY <2>1, <3>1, <3>3 DEF Goes, TypeOK, loopVars
    <2> QED
      BY <2>2, <2>3
  <1>8. ASSUME GetAgain(p) PROVE TypeOK'
    <2>1. /\ alone' \in Processes \cup {Nobody}
          /\ leaked' \in SUBSET Keys /\ disturbed' \in 0 .. MaxDisturbances
      BY <1>8 DEF GetAgain, historyVars, TypeOK
    <2>2. CASE Quits(p)
      BY <1>2, <2>1, <2>2
    <2>3. CASE ~ Quits(p)
      BY <1>3, <1>8, <2>1, <2>3 DEF GetAgain
    <2> QED
      BY <2>2, <2>3
  <1> QED
    BY <1>4, <1>5, <1>6, <1>7, <1>8

\* The steps of a call keep the types.
LEMMA CallTypes ==
  ASSUME TypeOK, NEW p \in Processes,
         \/ BeginCall(p) \/ BeginPrune(p) \/ EndCall(p) \/ CallFails(p)
         \/ \E k \in Keys : ApplyObject(p, k) \/ PruneObject(p, k)
  PROVE  TypeOK'
  <1>1. ASSUME BeginCall(p) PROVE TypeOK'
    <2> DEFINE new == [mem[p] EXCEPT !.inventory = Marked(p),
                                     !.state = IF p \in Deleting THEN "Deleting"
                                               ELSE "Processing"]
    <2>1. mem' = [mem EXCEPT ![p] = new]
      BY <1>1 DEF BeginCall, Sets
    <2>2. new \in Copies
      BY Typed, CopyTypes, MarkedItems DEF States
    <2>3. mem' \in [Processes -> Copies]
      BY <2>1, <2>2 DEF TypeOK
    <2>4. todo' \in [Processes -> SUBSET Keys]
      BY <1>1, Typed DEF BeginCall, TypeOK
    <2> QED
      BY <1>1, <2>3, <2>4 DEF BeginCall, Goes, InMemory, TypeOK, historyVars
  <1>2. ASSUME BeginPrune(p) PROVE TypeOK'
    BY <1>2, HeldItems, Typed
    DEF BeginPrune, Goes, Redundant, InMemory, TypeOK, historyVars
  <1>3. ASSUME EndCall(p) PROVE TypeOK'
    <2>1. mem' \in [Processes -> Copies]
      BY <1>3, Ended
    <2>2. /\ result' \in [Processes -> {"none", "ok", "error", "crashed"}]
          /\ pc' \in [Processes -> {"start", "create", "delete", "get", "loop", "apply",
                                    "prune", "save", "wait", "finish", "done"}]
          /\ errCount' \in [Processes -> 0 .. MaxErrCount]
      BY <1>3, BoundsAssumption DEF EndCall, Goes, TypeOK
    <2> QED
      BY <1>3, <2>1, <2>2 DEF EndCall, TypeOK, historyVars
  <1>4. ASSUME CallFails(p) PROVE TypeOK'
    <2>1. disturbed' \in 0 .. MaxDisturbances /\ UNCHANGED <<alone, leaked>>
      BY <1>4, DisturbTypes DEF CallFails
    <2>2. CASE Fail(p)
      BY <2>1, <2>2, FailTypes
    <2>3. CASE ~ Fail(p)
      <3>1. /\ PutUpWith(p) /\ pc' = [pc EXCEPT ![p] = "wait"]
            /\ errCount' = [errCount EXCEPT ![p] = @ + 1]
            /\ UNCHANGED <<release, cluster, mem, fresh, todo, busy, result>>
        BY <1>4, <2>3 DEF CallFails
      <3>2. errCount[p] + 1 \in 0 .. MaxErrCount
        BY <3>1, BoundsAssumption DEF PutUpWith, TypeOK
      <3> QED
        BY <2>1, <3>1, <3>2 DEF TypeOK
    <2> QED
      BY <2>2, <2>3
  <1>5. ASSUME NEW k \in Keys, ApplyObject(p, k) PROVE TypeOK'
    <2>1. (busy[p] \/ cluster[k] # p) \in BOOLEAN
      BY DEF TypeOK
    <2> QED
      BY <1>5, <2>1 DEF ApplyObject, TypeOK, historyVars
  <1>6. ASSUME NEW k \in Keys, PruneObject(p, k) PROVE TypeOK'
    <2>1. CASE Fail(p)
      BY <1>6, <2>1, FailTypes DEF PruneObject, historyVars, TypeOK
    <2>2. CASE ~ Fail(p)
      <3>1. /\ todo' = [todo EXCEPT ![p] = @ \ {k}]
            /\ cluster' = [cluster EXCEPT ![k] = Nobody]
            /\ mem' \in [Processes -> Copies]
            /\ UNCHANGED <<release, pc, fresh, errCount, result, alone, leaked, disturbed>>
        BY <1>6, <2>2, Pruned
      <3>2. busy' = [busy EXCEPT ![p] = TRUE] \/ busy' = busy
        BY <1>6, <2>2, Pruned
      <3>3. busy' \in [Processes -> BOOLEAN]
        BY <3>2 DEF TypeOK
      <3> QED
        BY <3>1, <3>3 DEF TypeOK
    <2> QED
      BY <2>1, <2>2
  <1> QED
    BY <1>1, <1>2, <1>3, <1>4, <1>5, <1>6

\* Saving and ending keep the types.
LEMMA SaveTypes ==
  ASSUME TypeOK, NEW p \in Processes, Save(p) \/ Wait(p) \/ Finish(p) \/ Crash(p)
  PROVE  TypeOK'
  <1>1. ASSUME Save(p) PROVE TypeOK'
    <2>1. CASE Fail(p)
      <3>1. disturbed' \in 0 .. MaxDisturbances /\ UNCHANGED <<alone, leaked>>
        BY <1>1, <2>1, DisturbTypes DEF Save, historyVars, TypeOK
      <3> QED
        BY <2>1, <3>1, FailTypes
    <2>2. CASE ~ Fail(p)
      BY <1>1, <2>2, UpdateTypes DEF Save, Goes, TypeOK, loopVars, historyVars
    <2> QED
      BY <2>1, <2>2
  <1>2. ASSUME Wait(p) PROVE TypeOK'
    <2>1. CASE Fail(p)
      <3>1. disturbed' \in 0 .. MaxDisturbances /\ UNCHANGED <<alone, leaked>>
        BY <1>2, <2>1, DisturbTypes DEF Wait, historyVars, TypeOK
      <3> QED
        BY <2>1, <3>1, FailTypes
    <2>2. CASE ~ Fail(p)
      BY <1>2, <2>2 DEF Wait, Goes, TypeOK, loopVars, historyVars
    <2> QED
      BY <2>1, <2>2
  <1>3. ASSUME Finish(p) PROVE TypeOK'
    <2>1. disturbed' \in 0 .. MaxDisturbances /\ UNCHANGED <<alone, leaked, cluster>>
      BY <1>3, DisturbTypes DEF Finish, historyVars, TypeOK
    <2>2. PICK how \in {"none", "ok", "error", "crashed"} : Ends(p, how)
      <3>1. result[p] \in {"none", "ok", "error", "crashed"}
        BY DEF TypeOK
      <3> QED
        BY <1>3, <3>1 DEF Finish
    <2>3. /\ release' \in [uid : Nat, revision : Nat, inventory : Inventories,
                           deleting : BOOLEAN, state : States, exists : BOOLEAN]
          /\ fresh' \in [Processes -> BOOLEAN]
      BY <1>3, UpdateTypes DEF Finish, TypeOK
    <2> QED
      BY <2>1, <2>2, <2>3, EndsTypes DEF TypeOK
  <1>4. ASSUME Crash(p) PROVE TypeOK'
    <2>1. disturbed' \in 0 .. MaxDisturbances /\ UNCHANGED <<alone, leaked>>
      BY <1>4, DisturbTypes DEF Crash
    <2>2. Ends(p, "crashed")
      BY <1>4 DEF Crash
    <2> QED
      BY <1>4, <2>1, <2>2, EndsTypes DEF Crash, TypeOK
  <1> QED
    BY <1>1, <1>2, <1>3, <1>4

\* A step keeps the types.
LEMMA TypeStep ==
  ASSUME TypeOK, [Next]_vars
  PROVE  TypeOK'
  <1>1. ASSUME UNCHANGED vars PROVE TypeOK'
    BY <1>1 DEF vars, loopVars, historyVars, TypeOK
  <1>2. ASSUME NEW p \in Processes,
               StartApply(p) \/ StartDelete(p) \/ Step(p) \/ CallFails(p) \/ Crash(p)
        PROVE  TypeOK'
    BY <1>2, BeginningTypes, CallTypes, SaveTypes DEF Step
  <1> QED
    BY <1>1, <1>2 DEF Next

-----------------------------------------------------------------------------
(* Nothing is lost *)

Applying(p) == pc[p] = "apply" => todo[p] \subseteq Held(mem[p].inventory)

\* A step that gives nothing up, and by which no command succeeds, leaves what is
\* minded; if the release and the cluster are unchanged, that is all.
LEMMA MindedKept ==
  ASSUME TypeOK, MindedInv,
         UNCHANGED <<cluster, release>>,
         \A q \in Processes : fresh'[q] => fresh[q],
         \A q \in Processes : Unsuccessful(q) => Unsuccessful(q)',
         \A q \in Processes : Held(mem[q].inventory) \subseteq Held(mem'[q].inventory),
         \A q \in Processes : Applying(q)'
  PROVE  MindedInv'
  <1>1. \A k : Minded(k) => Minded(k)'
    BY DEF Minded
  <1>2. Owned' = Owned /\ Recorded' = Recorded /\ release' = release
    BY DEF Owned, Recorded
  <1>3. \A k \in Owned' \ Recorded' : Minded(k)'
    BY <1>1, <1>2 DEF MindedInv
  <1>4. ASSUME NEW q \in Processes, fresh'[q],
               NEW k \in Owned' \cap Held(release'.inventory),
               k \notin Held(mem'[q].inventory)
        PROVE  Minded(k)'
    <2>1. /\ fresh[q] /\ k \in Owned \cap Held(release.inventory)
          /\ k \notin Held(mem[q].inventory)
      BY <1>2, <1>4
    <2> QED
      BY <1>1, <2>1 DEF MindedInv
  <1> QED
    BY <1>3, <1>4 DEF MindedInv, Applying

\* The end of a command that does not succeed, or does nothing.
LEMMA EndsMinded ==
  ASSUME TypeOK, NEW p \in Processes, NEW how \in {"none", "ok", "error", "crashed"},
         Ends(p, how)
  PROVE  /\ \A q \in Processes : Held(mem'[q].inventory) = Held(mem[q].inventory)
         /\ \A q \in Processes : q # p =>
               pc'[q] = pc[q] /\ result'[q] = result[q] /\ todo'[q] = todo[q]
         /\ pc'[p] = "done" /\ result'[p] = how
  <1> DEFINE new == [mem[p] EXCEPT !.state = "", !.deleting = FALSE]
  <1>1. mem' = [mem EXCEPT ![p] = new]
    BY DEF Ends
  <1>2. Held(new.inventory) = Held(mem[p].inventory)
    BY DEF TypeOK, Copies
  <1>3. \A q \in Processes : Held(mem'[q].inventory) = Held(mem[q].inventory)
    BY <1>1, <1>2 DEF TypeOK
  <1> QED
    BY <1>3 DEF Ends, TypeOK

\* A command ends without success.
LEMMA EndsKept ==
  ASSUME TypeOK, MindedInv, NEW p \in Processes, NEW how \in {"error", "crashed"},
         Ends(p, how), UNCHANGED <<cluster, release, fresh>>
  PROVE  MindedInv'
  <1>1. \A q \in Processes :
           /\ Held(mem[q].inventory) \subseteq Held(mem'[q].inventory)
           /\ Unsuccessful(q) => Unsuccessful(q)'
           /\ Applying(q)'
    BY EndsMinded DEF Unsuccessful, Applying, MindedInv
  <1> QED
    BY <1>1, MindedKept

\* A command fails.
LEMMA FailKept ==
  ASSUME TypeOK, MindedInv, NEW p \in Processes, Fail(p)
  PROVE  MindedInv'
  <1> DEFINE new == [mem[p] EXCEPT !.state = "Error"]
  <1>1. /\ mem' = [mem EXCEPT ![p] = new]
        /\ pc' = [pc EXCEPT ![p] = "finish"]
        /\ result' = [result EXCEPT ![p] = "error"]
        /\ UNCHANGED <<release, cluster, fresh, todo>>
    BY DEF Fail, loopVars
  <1>2. Held(new.inventory) = Held(mem[p].inventory)
    BY DEF TypeOK, Copies
  <1>3. \A q \in Processes :
           /\ Held(mem'[q].inventory) = Held(mem[q].inventory)
           /\ Unsuccessful(q) => Unsuccessful(q)'
           /\ Applying(q)'
    BY <1>1, <1>2 DEF TypeOK, Unsuccessful, Applying, MindedInv
  <1> QED
    BY <1>1, <1>3, MindedKept

\* A command reads the release: what it has known before was nothing of its own.
LEMMA ReadsKept ==
  ASSUME TypeOK, MindedInv, NEW p \in Processes, NEW copy \in {Copy, NextRevision},
         Reads(p, copy), UNCHANGED release,
         pc[p] \in {"start", "get"}, NEW to \in {"loop", "delete"},
         pc' = [pc EXCEPT ![p] = to]
  PROVE  MindedInv'
  <1>1. /\ mem' = [mem EXCEPT ![p] = copy] /\ fresh' = [fresh EXCEPT ![p] = TRUE]
        /\ UNCHANGED <<cluster, todo, result>>
    BY DEF Reads, loopVars
  <1>2. Held(mem'[p].inventory) = Held(release.inventory)
    BY <1>1 DEF TypeOK, Copy, NextRevision
  <1>3. \A q \in Processes : q # p => /\ mem'[q] = mem[q] /\ pc'[q] = pc[q]
                                      /\ fresh'[q] = fresh[q]
    BY <1>1 DEF TypeOK
  <1>4. \A k : Minded(k) => Minded(k)'
    <2>1. ~ Unsuccessful(p)
      BY DEF Unsuccessful
    <2> QED
      BY <1>1, <1>3, <2>1 DEF Minded, Unsuccessful
  <1>5. Owned' = Owned /\ Recorded' = Recorded
    BY <1>1 DEF Owned, Recorded
  <1>6. \A q \in Processes : Applying(q)'
    <2>1. pc'[p] = to
      BY DEF TypeOK
    <2> QED
      BY <1>1, <1>3, <2>1 DEF Applying, MindedInv
  <1>7. \A k \in Owned' \ Recorded' : Minded(k)'
    BY <1>4, <1>5 DEF MindedInv
  <1>8. ASSUME NEW q \in Processes, fresh'[q],
               NEW k \in Owned' \cap Held(release'.inventory),
               k \notin Held(mem'[q].inventory)
        PROVE  Minded(k)'
    BY <1>2, <1>3, <1>4, <1>5, <1>8 DEF MindedInv
  <1> QED
    BY <1>6, <1>7, <1>8 DEF MindedInv, Applying

\* A command writes the release: what it gives up is minded by another.
LEMMA UpdateKept ==
  ASSUME TypeOK, MindedInv, NEW p \in Processes, Updatable(p), Update(p),
         UNCHANGED cluster,
         \A q \in Processes : q # p /\ Unsuccessful(q) => Unsuccessful(q)',
         \A q \in Processes : Held(mem'[q].inventory) = Held(mem[q].inventory),
         \A q \in Processes : Applying(q)'
  PROVE  MindedInv'
  <1>1. /\ Held(release'.inventory) = Held(mem[p].inventory)
        /\ release'.exists \/ Held(mem[p].inventory) = {}
        /\ \A q \in Processes : fresh'[q] => q = p
    <2>1. /\ release'.inventory = mem[p].inventory
          /\ release'.exists \/ Listed(mem[p].inventory) = {}
          /\ \A q \in Processes : fresh'[q] => q = p
      BY DEF Update, Writes, TypeOK
    <2>2. Held(mem[p].inventory) \subseteq Listed(mem[p].inventory)
      BY HeldItems, Typed
    <2> QED
      BY <2>1, <2>2
  <1>2. Owned' = Owned /\ Recorded' = Held(mem[p].inventory)
    BY <1>1 DEF Owned, Recorded
  <1>3. ASSUME NEW k \in Owned' \ Recorded' PROVE Minded(k)'
    <2>1. k \in Owned /\ k \notin Held(mem[p].inventory)
      BY <1>2, <1>3
    <2>2. Minded(k)
      BY <2>1 DEF MindedInv, Updatable, Recorded
    <2> QED
      BY <2>1, <2>2 DEF Minded
  <1>4. \A q \in Processes : fresh'[q] =>
           \A k \in Owned' \cap Held(release'.inventory) :
              k \notin Held(mem'[q].inventory) => Minded(k)'
    BY <1>1
  <1> QED
    BY <1>3, <1>4 DEF MindedInv, Applying

\* Beginning loses nothing.
LEMMA BeginningMinded ==
  ASSUME TypeOK, MindedInv, NEW p \in Processes,
         \/ StartApply(p) \/ CreateRelease(p) \/ StartDelete(p)
         \/ DeleteRelease(p) \/ GetAgain(p)
  PROVE  MindedInv'
  <1>1. ASSUME Quits(p) PROVE MindedInv'
    BY <1>1, EndsKept DEF Quits
  <1>2. ASSUME StartApply(p) PROVE MindedInv'
    <2>1. CASE /\ Goes(p, "start", "loop") /\ Reads(p, NextRevision) /\ UNCHANGED release
      BY <2>1, ReadsKept DEF Goes
    <2>2. CASE /\ Goes(p, "start", "create")
               /\ UNCHANGED <<release, cluster, mem, fresh, loopVars, result>>
      <3>1. \A q \in Processes :
               /\ Unsuccessful(q) => Unsuccessful(q)'
               /\ Applying(q)'
        BY <2>2 DEF Goes, TypeOK, Unsuccessful, Applying, MindedInv, loopVars
      <3> QED
        BY <2>2, <3>1, MindedKept
    <2> QED
      BY <1>1, <1>2, <2>1, <2>2 DEF StartApply
  <1>3. ASSUME CreateRelease(p) PROVE MindedInv'
    <2>1. CASE ~ Quits(p)
      <3> DEFINE copy == [uid |-> release.uid + 1, revision |-> 1, inventory |-> NoItems,
                          deleting |-> FALSE, state |-> ""]
                 new == [NoRelease EXCEPT !.exists = TRUE, !.uid = release.uid + 1]
      <3>1. /\ ~ release.exists
            /\ pc[p] = "create" /\ pc' = [pc EXCEPT ![p] = "loop"]
            /\ release' = new /\ fresh' = [q \in Processes |-> q = p]
            /\ mem' = [mem EXCEPT ![p] = copy]
            /\ UNCHANGED <<cluster, todo, result>>
        BY <1>3, <2>1 DEF CreateRelease, Goes, Writes, loopVars
      <3>2. Held(new.inventory) = {}
        <4>1. new.inventory = NoItems
          BY DEF NoRelease
        <4> QED
          BY <4>1, HeldItems
      <3>3. \A k : Minded(k) => Minded(k)'
        BY <3>1 DEF Minded, Unsuccessful, TypeOK
      <3>4. Owned' = Owned /\ Recorded = {} /\ Recorded' = {}
        BY <3>1, <3>2 DEF Owned, Recorded
      <3>5. \A q \in Processes : Applying(q)'
        BY <3>1 DEF Applying, MindedInv, TypeOK
      <3> HIDE DEF new
      <3> QED
        BY <3>1, <3>2, <3>3, <3>4, <3>5 DEF MindedInv, Applying
    <2> QED
      BY <1>1, <2>1
  <1>4. ASSUME StartDelete(p) PROVE MindedInv'
    <2>1. CASE ~ Quits(p)
      BY <1>4, <2>1, ReadsKept DEF StartDelete, Goes
    <2> QED
      BY <1>1, <2>1
  <1>5. ASSUME DeleteRelease(p) PROVE MindedInv'
    <2>1. CASE ~ Quits(p)
      <3>1. /\ pc[p] = "delete" /\ pc' = [pc EXCEPT ![p] = "get"]
            /\ UNCHANGED <<cluster, mem, todo, result>> /\ fresh[p]
            /\ IF release.deleting THEN UNCHANGED <<release, fresh>>
               ELSE Writes(p, [release EXCEPT !.deleting = TRUE])
        BY <1>5, <2>1 DEF DeleteRelease, Goes, loopVars
      <3>2. /\ Held(release'.inventory) = Held(release.inventory)
            /\ release'.exists = release.exists
            /\ \A q \in Processes : fresh'[q] => fresh[q]
        BY <3>1 DEF Writes, TypeOK
      <3>3. \A k : Minded(k)' <=> Minded(k)
        BY <3>1 DEF Minded, Unsuccessful, TypeOK
      <3>4. Owned' = Owned /\ Recorded' = Recorded
        BY <3>1, <3>2 DEF Owned, Recorded
      <3>5. \A q \in Processes : Applying(q)'
        BY <3>1 DEF Applying, MindedInv, TypeOK
      <3> QED
        BY <3>1, <3>2, <3>3, <3>4, <3>5 DEF MindedInv, Applying
    <2> QED
      BY <1>1, <2>1
  <1>6. ASSUME GetAgain(p) PROVE MindedInv'
    <2>1. CASE ~ Quits(p)
      BY <1>6, <2>1, ReadsKept DEF GetAgain, Goes
    <2> QED
      BY <1>1, <2>1
  <1> QED
    BY <1>2, <1>3, <1>4, <1>5, <1>6

\* An object that is applied is in the inventory of the command.
LEMMA ApplyMinded ==
  ASSUME TypeOK, MindedInv, NEW p \in Processes, NEW k \in Keys, ApplyObject(p, k)
  PROVE  MindedInv'
  <1>1. /\ pc[p] = "apply" /\ k \in todo[p]
        /\ todo' = [todo EXCEPT ![p] = @ \ {k}]
        /\ cluster' = [cluster EXCEPT ![k] = p]
        /\ UNCHANGED <<release, pc, mem, fresh, result>>
    BY DEF ApplyObject
  <1>2. k \in Held(mem[p].inventory) /\ Unsuccessful(p)
    BY <1>1 DEF MindedInv, Unsuccessful
  <1>3. \A j : Minded(j)' <=> Minded(j)
    BY <1>1 DEF Minded, Unsuccessful
  <1>4. Minded(k)'
    BY <1>2, <1>3 DEF Minded
  <1>5. Owned' \subseteq Owned \cup {k} /\ Recorded' = Recorded
    BY <1>1 DEF Owned, Recorded, TypeOK
  <1>6. \A q \in Processes : Applying(q)'
    BY <1>1 DEF Applying, MindedInv, TypeOK
  <1>7. \A j \in Owned' \ Recorded' : Minded(j)'
    BY <1>3, <1>4, <1>5 DEF MindedInv
  <1>8. \A q \in Processes : fresh'[q] =>
           \A j \in Owned' \cap Held(release'.inventory) :
              j \notin Held(mem'[q].inventory) => Minded(j)'
    BY <1>1, <1>3, <1>4, <1>5 DEF MindedInv
  <1> QED
    BY <1>6, <1>7, <1>8 DEF MindedInv, Applying

\* An object that is not held any more is gone.
LEMMA PruneMinded ==
  ASSUME TypeOK, MindedInv, NEW p \in Processes, NEW k \in Keys, PruneObject(p, k)
  PROVE  MindedInv'
  <1>0. CASE Fail(p)
    BY <1>0, FailKept
  <1> SUFFICES ASSUME ~ Fail(p) PROVE MindedInv'
    BY <1>0
  <1>1. /\ pc[p] = "prune"
        /\ todo' = [todo EXCEPT ![p] = @ \ {k}]
        /\ cluster' = [cluster EXCEPT ![k] = Nobody]
        /\ UNCHANGED <<release, pc, fresh, result>>
    BY Pruned
  <1>2. Owned' = Owned \ {k} /\ Recorded' = Recorded
    BY <1>1 DEF Owned, Recorded, TypeOK
  <1>3. \A q \in Processes :
           Held(mem'[q].inventory) \cup {k} = Held(mem[q].inventory) \cup {k}
    <2>1. \A j \in Keys \ {k} : mem'[p].inventory[j] = mem[p].inventory[j]
      BY Pruned
    <2>2. Held(mem'[p].inventory) \cup {k} = Held(mem[p].inventory) \cup {k}
      BY <2>1 DEF Held
    <2>3. \A q \in Processes : q # p => mem'[q] = mem[q]
      BY Pruned
    <2> QED
      BY <2>2, <2>3
  <1>4. \A j : j # k /\ Minded(j) => Minded(j)'
    BY <1>1, <1>3 DEF Minded, Unsuccessful
  <1>5. \A q \in Processes : Applying(q)'
    <2>1. ASSUME NEW q \in Processes, q # p PROVE mem'[q] = mem[q] /\ todo'[q] = todo[q]
      BY <1>1, <2>1, Pruned DEF TypeOK
    <2> QED
      BY <1>1, <2>1 DEF Applying, MindedInv
  <1>6. \A j \in Owned' \ Recorded' : Minded(j)'
    BY <1>2, <1>4 DEF MindedInv
  <1>7. \A q \in Processes : fresh'[q] =>
           \A j \in Owned' \cap Held(release'.inventory) :
              j \notin Held(mem'[q].inventory) => Minded(j)'
    BY <1>1, <1>2, <1>3, <1>4 DEF MindedInv
  <1> QED
    BY <1>5, <1>6, <1>7 DEF MindedInv, Applying

\* The other steps of a call give nothing up.
LEMMA CallMinded ==
  ASSUME TypeOK, MindedInv, NEW p \in Processes,
         BeginCall(p) \/ BeginPrune(p) \/ EndCall(p) \/ CallFails(p)
  PROVE  MindedInv'
  <1>1. ASSUME BeginCall(p) PROVE MindedInv'
    <2> DEFINE new == [mem[p] EXCEPT !.inventory = Marked(p),
                                     !.state = IF p \in Deleting THEN "Deleting"
                                               ELSE "Processing"]
    <2>1. /\ mem' = [mem EXCEPT ![p] = new]
          /\ UNCHANGED <<release, cluster, fresh, result>>
          /\ pc[p] = "loop"
          /\ \/ /\ pc' = [pc EXCEPT ![p] = "save"] /\ todo' = [todo EXCEPT ![p] = {}]
             \/ /\ pc' = [pc EXCEPT ![p] = "apply"]
                /\ todo' = [todo EXCEPT ![p] = Wanted(p)]
      BY <1>1 DEF BeginCall, Sets, InMemory, Goes
    <2>2. Held(new.inventory) = Held(mem[p].inventory) \cup Wanted(p)
      <3>1. new.inventory = Marked(p)
        BY DEF TypeOK, Copies
      <3> QED
        BY <3>1, MarkedItems
    <2>3. Held(mem'[p].inventory) = Held(mem[p].inventory) \cup Wanted(p)
      BY <2>1, <2>2 DEF TypeOK
    <2>4. \A q \in Processes : q # p =>
             mem'[q] = mem[q] /\ pc'[q] = pc[q] /\ todo'[q] = todo[q]
      BY <2>1 DEF TypeOK
    <2>5. /\ pc'[p] \in {"save", "apply"}
          /\ todo'[p] \subseteq Wanted(p)
      BY <2>1 DEF TypeOK
    <2>6. \A q \in Processes :
             /\ Unsuccessful(q) => Unsuccessful(q)'
             /\ Held(mem[q].inventory) \subseteq Held(mem'[q].inventory)
             /\ Applying(q)'
      BY <2>1, <2>3, <2>4, <2>5 DEF Unsuccessful, Applying, MindedInv
    <2> QED
      BY <2>1, <2>6, MindedKept
  <1>2. ASSUME BeginPrune(p) PROVE MindedInv'
    <2>1. /\ pc[p] = "apply" /\ pc' = [pc EXCEPT ![p] = "prune"]
          /\ todo' = [todo EXCEPT ![p] = Redundant(p)]
          /\ UNCHANGED <<release, cluster, mem, fresh, result>>
      BY <1>2 DEF BeginPrune, Goes, InMemory
    <2>2. \A q \in Processes :
             /\ Unsuccessful(q) => Unsuccessful(q)'
             /\ Applying(q)'
      BY <2>1 DEF TypeOK, Unsuccessful, Applying, MindedInv
    <2> QED
      BY <2>1, <2>2, MindedKept
  <1>3. ASSUME EndCall(p) PROVE MindedInv'
    <2>1. /\ UNCHANGED <<release, cluster, fresh, todo>>
          /\ pc[p] \in {"apply", "prune"}
          /\ \/ pc' = [pc EXCEPT ![p] = "save"] /\ UNCHANGED result
             \/ pc' = [pc EXCEPT ![p] = "finish"]
          /\ \A q \in Processes : q # p => result'[q] = result[q]
      BY <1>3 DEF EndCall, Goes, TypeOK
    <2>3. \A q \in Processes :
             /\ Held(mem'[q].inventory) = Held(mem[q].inventory)
             /\ Unsuccessful(q) => Unsuccessful(q)'
             /\ Applying(q)'
      <3>1. ASSUME NEW q \in Processes
            PROVE  Held(mem'[q].inventory) = Held(mem[q].inventory)
        BY <1>3, Ended
      <3>2. ASSUME NEW q \in Processes, Unsuccessful(q)
            PROVE  Unsuccessful(q)'
        BY <2>1, <3>2 DEF TypeOK, Unsuccessful
      <3>3. ASSUME NEW q \in Processes
            PROVE  Applying(q)'
        <4>1. pc[q] = "apply" => todo[q] \subseteq Held(mem[q].inventory)
          BY DEF MindedInv
        <4>2. pc'[q] = "apply" => pc[q] = "apply"
          BY <2>1 DEF TypeOK
        <4>3. todo'[q] = todo[q] /\ Held(mem'[q].inventory) = Held(mem[q].inventory)
          BY <2>1, <3>1
        <4> QED
          BY <4>1, <4>2, <4>3 DEF Applying
      <3> QED
        BY <3>1, <3>2, <3>3
    <2> QED
      BY <2>1, <2>3, MindedKept
  <1>4. ASSUME CallFails(p) PROVE MindedInv'
    <2>1. CASE ~ Fail(p)
      <3>1. /\ pc[p] \in {"apply", "prune"} /\ pc' = [pc EXCEPT ![p] = "wait"]
            /\ UNCHANGED <<release, cluster, mem, fresh, todo, result>>
        BY <1>4, <2>1 DEF CallFails
      <3>2. \A q \in Processes :
               /\ Unsuccessful(q) => Unsuccessful(q)'
               /\ Applying(q)'
        BY <3>1 DEF TypeOK, Unsuccessful, Applying, MindedInv
      <3> QED
        BY <3>1, <3>2, MindedKept
    <2> QED
      BY <2>1, FailKept
  <1> QED
    BY <1>1, <1>2, <1>3, <1>4

\* Saving and ending lose nothing.
LEMMA SaveMinded ==
  ASSUME TypeOK, MindedInv, NEW p \in Processes,
         Save(p) \/ Wait(p) \/ Finish(p) \/ Crash(p)
  PROVE  MindedInv'
  <1>1. ASSUME Save(p) PROVE MindedInv'
    <2>1. CASE ~ Fail(p)
      <3>1. /\ pc[p] = "save" /\ pc' = [pc EXCEPT ![p] = "wait"]
            /\ Updatable(p) /\ Update(p) /\ UNCHANGED <<cluster, mem, todo, result>>
        BY <1>1, <2>1 DEF Save, Goes, loopVars
      <3>2. \A q \in Processes :
               /\ Unsuccessful(q) => Unsuccessful(q)'
               /\ Applying(q)'
        BY <3>1 DEF TypeOK, Unsuccessful, Applying, MindedInv
      <3> QED
        BY <3>1, <3>2, UpdateKept
    <2> QED
      BY <2>1, FailKept
  <1>2. ASSUME Wait(p) PROVE MindedInv'
    <2>1. CASE ~ Fail(p)
      <3>1. /\ pc[p] = "wait" /\ pc' = [pc EXCEPT ![p] = "loop"]
            /\ UNCHANGED <<release, cluster, mem, fresh, todo, result>>
        BY <1>2, <2>1 DEF Wait, Goes, loopVars
      <3>2. \A q \in Processes :
               /\ Unsuccessful(q) => Unsuccessful(q)'
               /\ Applying(q)'
        BY <3>1 DEF TypeOK, Unsuccessful, Applying, MindedInv
      <3> QED
        BY <3>1, <3>2, MindedKept
    <2> QED
      BY <2>1, FailKept
  <1>3. ASSUME Finish(p) PROVE MindedInv'
    <2>1. CASE Updatable(p) /\ Update(p) /\ Ends(p, result[p])
      <3>1. result[p] \in {"none", "ok", "error", "crashed"} /\ UNCHANGED cluster
        BY <1>3 DEF TypeOK, Finish
      <3>2. \A q \in Processes :
               /\ Held(mem'[q].inventory) = Held(mem[q].inventory)
               /\ q # p /\ Unsuccessful(q) => Unsuccessful(q)'
               /\ Applying(q)'
        BY <2>1, <3>1, EndsMinded DEF Unsuccessful, Applying, MindedInv
      <3> QED
        BY <2>1, <3>1, <3>2, UpdateKept
    <2>2. CASE Ends(p, "error") /\ UNCHANGED <<release, fresh>>
      BY <1>3, <2>2, EndsKept DEF Finish
    <2> QED
      BY <1>3, <2>1, <2>2 DEF Finish
  <1>4. ASSUME Crash(p) PROVE MindedInv'
    BY <1>4, EndsKept DEF Crash
  <1> QED
    BY <1>1, <1>2, <1>3, <1>4

\* A step loses nothing.
LEMMA MindedStep ==
  ASSUME TypeOK, MindedInv, [Next]_vars
  PROVE  MindedInv'
  <1>1. ASSUME UNCHANGED vars PROVE MindedInv'
    BY <1>1 DEF vars, loopVars, MindedInv, Minded, Unsuccessful, Owned, Recorded
  <1>2. ASSUME NEW p \in Processes,
               StartApply(p) \/ StartDelete(p) \/ Step(p) \/ CallFails(p) \/ Crash(p)
        PROVE  MindedInv'
    BY <1>2, BeginningMinded, ApplyMinded, PruneMinded, CallMinded, SaveMinded DEF Step
  <1> QED
    BY <1>1, <1>2 DEF Next

-----------------------------------------------------------------------------
(* Revisions *)

\* A step that leaves the numbers, and by which no command succeeds.
LEMMA NumberKept ==
  ASSUME TypeOK, NumberInv,
         release'.uid = release.uid, release'.revision = release.revision,
         \A q \in Processes : /\ mem'[q].uid = mem[q].uid
                              /\ mem'[q].revision = mem[q].revision,
         \A q \in Processes : fresh'[q] => fresh[q],
         \A q \in Processes : Succeeded(q)' => Succeeded(q),
         \A q \in Processes : pc'[q] # "done" => pc[q] # "done"
  PROVE  NumberInv'
  <1>1. SuccessesAreNumbered'
    <2> SUFFICES ASSUME NEW p \in Processes \ Deleting, NEW q \in Processes \ Deleting,
                        p # q, Succeeded(p)', Succeeded(q)', mem'[p].uid = mem'[q].uid
                 PROVE  mem'[p].revision # mem'[q].revision
      BY DEF SuccessesAreNumbered, Succeeded
    <2>1. Succeeded(p) /\ Succeeded(q)
      OBVIOUS
    <2> QED
      BY <2>1 DEF NumberInv, SuccessesAreNumbered, Succeeded
  <1> QED
    BY <1>1 DEF NumberInv

\* The same, if also the copies and the release are left.
LEMMA QuietNumbers ==
  ASSUME TypeOK, NumberInv, NEW p \in Processes, NEW to,
         UNCHANGED <<release, mem, fresh>>, pc[p] # "done", to # "done",
         pc' = [pc EXCEPT ![p] = to],
         \A q \in Processes : q # p => result'[q] = result[q]
  PROVE  NumberInv'
  <1>1. \A q \in Processes :
           /\ Succeeded(q)' => Succeeded(q)
           /\ pc'[q] # "done" => pc[q] # "done"
    BY DEF TypeOK, Succeeded
  <1> QED
    BY <1>1, NumberKept

\* A command ends without success.
LEMMA EndsNumbers ==
  ASSUME TypeOK, NumberInv, NEW p \in Processes, NEW how \in {"error", "crashed"},
         Ends(p, how), UNCHANGED <<release, fresh>>
  PROVE  NumberInv'
  <1> DEFINE new == [mem[p] EXCEPT !.state = "", !.deleting = FALSE]
  <1>1. mem' = [mem EXCEPT ![p] = new]
    BY DEF Ends
  <1>2. new.uid = mem[p].uid /\ new.revision = mem[p].revision
    BY DEF TypeOK, Copies
  <1>3. \A q \in Processes :
           mem'[q].uid = mem[q].uid /\ mem'[q].revision = mem[q].revision
    BY <1>1, <1>2 DEF TypeOK
  <1>4. \A q \in Processes :
           /\ Succeeded(q)' => Succeeded(q)
           /\ pc'[q] # "done" => pc[q] # "done"
    BY DEF Ends, TypeOK, Succeeded
  <1> QED
    BY <1>3, <1>4, NumberKept

\* A command fails.
LEMMA FailNumbers ==
  ASSUME TypeOK, NumberInv, NEW p \in Processes, Fail(p), pc[p] # "done"
  PROVE  NumberInv'
  <1> DEFINE new == [mem[p] EXCEPT !.state = "Error"]
  <1>1. mem' = [mem EXCEPT ![p] = new]
    BY DEF Fail
  <1>2. new.uid = mem[p].uid /\ new.revision = mem[p].revision
    BY DEF TypeOK, Copies
  <1>3. \A q \in Processes :
           mem'[q].uid = mem[q].uid /\ mem'[q].revision = mem[q].revision
    BY <1>1, <1>2 DEF TypeOK
  <1>4. \A q \in Processes :
           /\ Succeeded(q)' => Succeeded(q)
           /\ pc'[q] # "done" => pc[q] # "done"
    BY DEF Fail, TypeOK, Succeeded
  <1>5. UNCHANGED <<release, fresh>>
    BY DEF Fail
  <1> QED
    BY <1>3, <1>4, <1>5, NumberKept

\* A command reads the release, and applies it with the next revision.
LEMMA ReadsNumbers ==
  ASSUME TypeOK, NumberInv, NEW p \in Processes, NEW copy \in {Copy, NextRevision},
         copy = NextRevision \/ p \in Deleting,
         Reads(p, copy), UNCHANGED release, NEW to \in {"loop", "delete"},
         pc' = [pc EXCEPT ![p] = to]
  PROVE  NumberInv'
  <1>1. /\ mem' = [mem EXCEPT ![p] = copy] /\ fresh' = [fresh EXCEPT ![p] = TRUE]
        /\ UNCHANGED result
    BY DEF Reads
  <1>2. /\ release.uid \in Nat /\ release.revision \in Nat
        /\ \A q \in Processes : mem[q].uid \in Nat /\ mem[q].revision \in Nat
    BY Typed
  <1>3. /\ copy.uid = release.uid
        /\ copy.revision = IF copy = NextRevision THEN release.revision + 1
                           ELSE release.revision
    <2>1. Copy.uid = release.uid /\ Copy.revision = release.revision
      BY DEF Copy
    <2>2. NextRevision.uid = release.uid /\ NextRevision.revision = release.revision + 1
      BY <2>1 DEF NextRevision, Copy
    <2> QED
      BY <2>1, <2>2
  <1>4. /\ mem'[p] = copy /\ pc'[p] # "done"
        /\ \A q \in Processes : q # p =>
              mem'[q] = mem[q] /\ pc'[q] = pc[q] /\ fresh'[q] = fresh[q]
    BY <1>1 DEF TypeOK
  <1>5. \A q \in Processes : Succeeded(q)' => q # p /\ Succeeded(q)
    BY <1>1, <1>4 DEF Succeeded
  <1>6. ASSUME NEW q \in Processes, Succeeded(q)'
        PROVE  /\ mem'[q].uid =< release'.uid
               /\ mem'[q].uid = release'.uid => mem'[q].revision =< release'.revision
    BY <1>4, <1>5, <1>6 DEF NumberInv
  <1>7. ASSUME NEW q \in Processes, fresh'[q]
        PROVE  mem'[q].uid = release'.uid /\ release'.revision =< mem'[q].revision
    <2>1. CASE q = p
      BY <1>2, <1>3, <1>4, <2>1
    <2>2. CASE q # p
      BY <1>4, <1>7, <2>2 DEF NumberInv
    <2> QED
      BY <2>1, <2>2
  <1>8. ASSUME NEW r \in Processes, NEW q \in Processes, Succeeded(r)', q \notin Deleting,
               fresh'[q], pc'[q] # "done", mem'[r].uid = mem'[q].uid
        PROVE  mem'[r].revision < mem'[q].revision
    <2>1. CASE q = p
      <3>1. mem[r].revision =< release.revision
        BY <1>3, <1>4, <1>5, <1>8, <2>1 DEF NumberInv
      <3>2. mem'[q].revision = release.revision + 1
        BY <1>3, <1>4, <1>8, <2>1
      <3> QED
        BY <1>2, <1>4, <1>5, <1>8, <3>1, <3>2
    <2>2. CASE q # p
      BY <1>4, <1>5, <1>8, <2>2 DEF NumberInv
    <2> QED
      BY <2>1, <2>2
  <1>9. SuccessesAreNumbered'
    BY <1>4, <1>5 DEF NumberInv, SuccessesAreNumbered, Succeeded
  <1> QED
    BY <1>6, <1>7, <1>8, <1>9 DEF NumberInv

\* A command writes the release, and may have succeeded with it.
LEMMA UpdateNumbers ==
  ASSUME TypeOK, NumberInv, NEW p \in Processes, Updatable(p), Update(p),
         pc[p] # "done",
         \A q \in Processes : /\ mem'[q].uid = mem[q].uid
                              /\ mem'[q].revision = mem[q].revision,
         \A q \in Processes : q # p => pc'[q] = pc[q] /\ result'[q] = result[q]
  PROVE  NumberInv'
  <1>1. /\ release'.uid = release.uid /\ release'.revision = mem[p].revision
        /\ \A q \in Processes : fresh'[q] => q = p
    BY DEF Update, Writes, TypeOK
  <1>2. /\ release.uid \in Nat /\ release.revision \in Nat
        /\ \A q \in Processes : mem[q].uid \in Nat /\ mem[q].revision \in Nat
    BY Typed
  <1>3. mem[p].uid = release.uid /\ release.revision =< mem[p].revision
    BY DEF NumberInv, Updatable
  <1>4. \A q \in Processes : q # p /\ Succeeded(q)' => Succeeded(q)
    BY DEF Succeeded
  <1>5. \A q \in Processes : q # p /\ Succeeded(q) /\ p \notin Deleting
                             /\ mem[q].uid = mem[p].uid =>
                                mem[q].revision < mem[p].revision
    BY DEF NumberInv, Updatable
  <1>6. ASSUME NEW q \in Processes, Succeeded(q)'
        PROVE  /\ mem'[q].uid =< release'.uid
               /\ mem'[q].uid = release'.uid => mem'[q].revision =< release'.revision
    <2>1. CASE q = p
      BY <1>1, <1>2, <1>3, <2>1
    <2>2. CASE q # p
      <3>1. /\ mem[q].uid =< release.uid
            /\ mem[q].uid = release.uid => mem[q].revision =< release.revision
        BY <1>4, <1>6, <2>2 DEF NumberInv
      <3> QED
        BY <1>1, <1>2, <1>3, <3>1
    <2> QED
      BY <2>1, <2>2
  <1>7. ASSUME NEW q \in Processes, fresh'[q]
        PROVE  mem'[q].uid = release'.uid /\ release'.revision =< mem'[q].revision
    BY <1>1, <1>2, <1>3, <1>7
  <1>8. ASSUME NEW r \in Processes, NEW q \in Processes, Succeeded(r)', q \notin Deleting,
               fresh'[q], pc'[q] # "done", mem'[r].uid = mem'[q].uid
        PROVE  mem'[r].revision < mem'[q].revision
    <2>1. q = p
      BY <1>1, <1>8
    <2>2. r # p
      BY <1>8, <2>1 DEF Succeeded
    <2> QED
      BY <1>4, <1>5, <1>8, <2>1, <2>2
  <1>9. SuccessesAreNumbered'
    <2> SUFFICES ASSUME NEW r \in Processes \ Deleting, NEW q \in Processes \ Deleting,
                        r # q, Succeeded(r)', Succeeded(q)', mem'[r].uid = mem'[q].uid
                 PROVE  mem'[r].revision # mem'[q].revision
      BY DEF SuccessesAreNumbered, Succeeded
    <2>1. CASE r = p
      <3>1. mem[q].revision < mem[p].revision
        BY <1>4, <1>5, <2>1
      <3> QED
        BY <1>2, <2>1, <3>1
    <2>2. CASE q = p
      <3>1. mem[r].revision < mem[p].revision
        BY <1>4, <1>5, <2>2
      <3> QED
        BY <1>2, <2>2, <3>1
    <2>3. CASE r # p /\ q # p
      BY <1>4, <2>3 DEF NumberInv, SuccessesAreNumbered, Succeeded
    <2> QED
      BY <2>1, <2>2, <2>3
  <1> QED
    BY <1>6, <1>7, <1>8, <1>9 DEF NumberInv

\* Beginning keeps the numbers, or counts on.
LEMMA BeginningNumbers ==
  ASSUME TypeOK, NumberInv, DeletingInv, NEW p \in Processes,
         \/ StartApply(p) \/ CreateRelease(p) \/ StartDelete(p)
         \/ DeleteRelease(p) \/ GetAgain(p)
  PROVE  NumberInv'
  <1>1. ASSUME Quits(p) PROVE NumberInv'
    BY <1>1, EndsNumbers DEF Quits
  <1>2. ASSUME StartApply(p) PROVE NumberInv'
    <2>1. CASE /\ Goes(p, "start", "loop") /\ Reads(p, NextRevision) /\ UNCHANGED release
      BY <2>1, ReadsNumbers DEF Goes
    <2>2. CASE /\ Goes(p, "start", "create")
               /\ UNCHANGED <<release, cluster, mem, fresh, loopVars, result>>
      BY <2>2, QuietNumbers DEF Goes
    <2> QED
      BY <1>1, <1>2, <2>1, <2>2 DEF StartApply
  <1>3. ASSUME CreateRelease(p) PROVE NumberInv'
    <2>1. CASE ~ Quits(p)
      <3> DEFINE copy == [uid |-> release.uid + 1, revision |-> 1, inventory |-> NoItems,
                          deleting |-> FALSE, state |-> ""]
                 new == [NoRelease EXCEPT !.exists = TRUE, !.uid = release.uid + 1]
      <3>1. /\ pc[p] = "create" /\ pc' = [pc EXCEPT ![p] = "loop"]
            /\ release' = new /\ fresh' = [q \in Processes |-> q = p]
            /\ mem' = [mem EXCEPT ![p] = copy] /\ UNCHANGED result
        BY <1>3, <2>1 DEF CreateRelease, Goes, Writes
      <3>2. /\ new.uid = release.uid + 1 /\ new.revision = 0
            /\ copy.uid = release.uid + 1 /\ copy.revision = 1
        BY DEF NoRelease
      <3>3. /\ release.uid \in Nat
            /\ \A q \in Processes : mem[q].uid \in Nat
        BY Typed
      <3> HIDE DEF copy, new
      <3>4. /\ mem'[p] = copy /\ pc'[p] = "loop"
            /\ \A q \in Processes : q # p => mem'[q] = mem[q] /\ pc'[q] = pc[q]
            /\ \A q \in Processes : fresh'[q] => q = p
        BY <3>1 DEF TypeOK
      <3>5. \A q \in Processes : Succeeded(q)' => q # p /\ Succeeded(q)
        BY <3>1, <3>4 DEF Succeeded
      <3>6. \A q \in Processes : Succeeded(q)' => mem'[q].uid < release'.uid
        <4> SUFFICES ASSUME NEW q \in Processes, Succeeded(q)'
                     PROVE  mem'[q].uid < release'.uid
          OBVIOUS
        <4>1. mem[q].uid =< release.uid /\ mem'[q] = mem[q]
          BY <3>4, <3>5 DEF NumberInv
        <4> QED
          BY <3>1, <3>2, <3>3, <4>1
      <3>7. ASSUME NEW q \in Processes, Succeeded(q)'
            PROVE  /\ mem'[q].uid =< release'.uid /\ mem'[q].uid # release'.uid
                   /\ mem'[q].uid # mem'[p].uid
        <4>1. /\ mem'[q].uid < release'.uid /\ mem'[q].uid \in Nat /\ release'.uid \in Nat
              /\ mem'[p].uid = release'.uid
          BY <3>1, <3>2, <3>3, <3>4, <3>5, <3>6, <3>7
        <4> QED
          BY <4>1
      <3>8. mem'[p].uid = release'.uid /\ release'.revision =< mem'[p].revision
        BY <3>1, <3>2, <3>4
      <3>9. SuccessesAreNumbered'
        BY <3>4, <3>5 DEF NumberInv, SuccessesAreNumbered, Succeeded
      <3> QED
        BY <3>4, <3>7, <3>8, <3>9 DEF NumberInv
    <2> QED
      BY <1>1, <2>1
  <1>4. ASSUME StartDelete(p) PROVE NumberInv'
    <2>1. CASE ~ Quits(p)
      BY <1>4, <2>1, ReadsNumbers DEF StartDelete, Goes
    <2> QED
      BY <1>1, <2>1
  <1>5. ASSUME DeleteRelease(p) PROVE NumberInv'
    <2>1. CASE ~ Quits(p)
      <3>1. /\ pc[p] = "delete" /\ pc' = [pc EXCEPT ![p] = "get"]
            /\ UNCHANGED <<mem, result>> /\ fresh[p]
            /\ IF release.deleting THEN UNCHANGED <<release, fresh>>
               ELSE Writes(p, [release EXCEPT !.deleting = TRUE])
        BY <1>5, <2>1 DEF DeleteRelease, Goes
      <3>2. /\ release'.uid = release.uid /\ release'.revision = release.revision
            /\ \A q \in Processes : fresh'[q] => fresh[q]
        BY <3>1 DEF Writes, TypeOK
      <3>3. \A q \in Processes :
               /\ Succeeded(q)' => Succeeded(q)
               /\ pc'[q] # "done" => pc[q] # "done"
        BY <3>1 DEF TypeOK, Succeeded
      <3> QED
        BY <3>1, <3>2, <3>3, NumberKept
    <2> QED
      BY <1>1, <2>1
  <1>6. ASSUME GetAgain(p) PROVE NumberInv'
    <2>1. CASE ~ Quits(p)
      <3>1. p \in Deleting
        BY <1>6 DEF GetAgain, DeletingInv
      <3> QED
        BY <1>6, <2>1, <3>1, ReadsNumbers DEF GetAgain, Goes
    <2> QED
      BY <1>1, <2>1
  <1> QED
    BY <1>2, <1>3, <1>4, <1>5, <1>6

\* The steps of a call leave the numbers.
LEMMA CallNumbers ==
  ASSUME TypeOK, NumberInv, NEW p \in Processes,
         \/ BeginCall(p) \/ BeginPrune(p) \/ EndCall(p) \/ CallFails(p)
         \/ \E k \in Keys : ApplyObject(p, k) \/ PruneObject(p, k)
  PROVE  NumberInv'
  <1>1. ASSUME NEW new, mem' = mem \/ mem' = [mem EXCEPT ![p] = new],
               new.uid = mem[p].uid, new.revision = mem[p].revision,
               UNCHANGED <<release, fresh>>, pc[p] # "done",
               NEW to, to # "done", pc' = [pc EXCEPT ![p] = to],
               \A q \in Processes : q # p => result'[q] = result[q]
        PROVE  NumberInv'
    <2>1. \A q \in Processes :
             /\ mem'[q].uid = mem[q].uid /\ mem'[q].revision = mem[q].revision
             /\ Succeeded(q)' => Succeeded(q)
             /\ pc'[q] # "done" => pc[q] # "done"
      BY <1>1 DEF TypeOK, Succeeded
    <2> QED
      BY <1>1, <2>1, NumberKept
  <1>2. ASSUME BeginCall(p) PROVE NumberInv'
    <2> DEFINE new == [mem[p] EXCEPT !.inventory = Marked(p),
                                     !.state = IF p \in Deleting THEN "Deleting"
                                               ELSE "Processing"]
    <2>1. new.uid = mem[p].uid /\ new.revision = mem[p].revision
      BY DEF TypeOK, Copies
    <2>2. /\ mem' = [mem EXCEPT ![p] = new]
          /\ UNCHANGED <<release, fresh, result>> /\ pc[p] = "loop"
          /\ pc' = [pc EXCEPT ![p] = "save"] \/ pc' = [pc EXCEPT ![p] = "apply"]
      BY <1>2 DEF BeginCall, Sets, InMemory, Goes
    <2> HIDE DEF new
    <2> QED
      BY <1>1, <2>1, <2>2
  <1>3. ASSUME BeginPrune(p) PROVE NumberInv'
    BY <1>3, QuietNumbers DEF BeginPrune, Goes, InMemory
  <1>4. ASSUME EndCall(p) PROVE NumberInv'
    <2>1. /\ UNCHANGED <<release, fresh>> /\ pc[p] # "done"
          /\ pc' = [pc EXCEPT ![p] = "save"] \/ pc' = [pc EXCEPT ![p] = "finish"]
          /\ \A q \in Processes : q # p => result'[q] = result[q]
      BY <1>4 DEF EndCall, Goes, TypeOK
    <2>2. \A q \in Processes :
             /\ mem'[q].uid = mem[q].uid /\ mem'[q].revision = mem[q].revision
             /\ Succeeded(q)' => Succeeded(q)
             /\ pc'[q] # "done" => pc[q] # "done"
      BY <1>4, <2>1, Ended DEF TypeOK, Succeeded
    <2> QED
      BY <2>1, <2>2, NumberKept
  <1>5. ASSUME CallFails(p) PROVE NumberInv'
    <2>1. CASE Fail(p)
      BY <1>5, <2>1, FailNumbers DEF CallFails
    <2>2. CASE ~ Fail(p)
      BY <1>5, <2>2, QuietNumbers DEF CallFails
    <2> QED
      BY <2>1, <2>2
  <1>6. ASSUME NEW k \in Keys, ApplyObject(p, k) PROVE NumberInv'
    <2>1. UNCHANGED <<release, mem, fresh, pc, result>>
      BY <1>6 DEF ApplyObject
    <2> QED
      BY <2>1, NumberKept DEF Succeeded
  <1>7. ASSUME NEW k \in Keys, PruneObject(p, k) PROVE NumberInv'
    <2>1. CASE Fail(p)
      BY <1>7, <2>1, FailNumbers DEF PruneObject
    <2>2. CASE ~ Fail(p)
      <3>1. /\ UNCHANGED <<release, fresh, pc, result>>
            /\ \A q \in Processes :
                  mem'[q].uid = mem[q].uid /\ mem'[q].revision = mem[q].revision
        BY <1>7, <2>2, Pruned
      <3> QED
        BY <3>1, NumberKept DEF Succeeded
    <2> QED
      BY <2>1, <2>2
  <1> QED
    BY <1>2, <1>3, <1>4, <1>5, <1>6, <1>7

\* Saving and ending write increasing numbers.
LEMMA SaveNumbers ==
  ASSUME TypeOK, NumberInv, NEW p \in Processes,
         Save(p) \/ Wait(p) \/ Finish(p) \/ Crash(p)
  PROVE  NumberInv'
  <1>1. ASSUME Save(p) PROVE NumberInv'
    <2>1. CASE Fail(p)
      BY <1>1, <2>1, FailNumbers DEF Save
    <2>2. CASE ~ Fail(p)
      <3>1. /\ pc[p] = "save" /\ pc' = [pc EXCEPT ![p] = "wait"]
            /\ Updatable(p) /\ Update(p) /\ UNCHANGED <<mem, result>>
        BY <1>1, <2>2 DEF Save, Goes
      <3>2. \A q \in Processes : q # p => pc'[q] = pc[q] /\ result'[q] = result[q]
        BY <3>1 DEF TypeOK
      <3> QED
        BY <3>1, <3>2, UpdateNumbers
    <2> QED
      BY <2>1, <2>2
  <1>2. ASSUME Wait(p) PROVE NumberInv'
    <2>1. CASE Fail(p)
      BY <1>2, <2>1, FailNumbers DEF Wait, Goes
    <2>2. CASE ~ Fail(p)
      BY <1>2, <2>2, QuietNumbers DEF Wait, Goes
    <2> QED
      BY <2>1, <2>2
  <1>3. ASSUME Finish(p) PROVE NumberInv'
    <2>1. CASE Updatable(p) /\ Update(p) /\ Ends(p, result[p])
      <3> DEFINE new == [mem[p] EXCEPT !.state = "", !.deleting = FALSE]
      <3>1. mem' = [mem EXCEPT ![p] = new]
        BY <2>1 DEF Ends
      <3>2. new.uid = mem[p].uid /\ new.revision = mem[p].revision
        BY DEF TypeOK, Copies
      <3>3. \A q \in Processes :
               mem'[q].uid = mem[q].uid /\ mem'[q].revision = mem[q].revision
        BY <3>1, <3>2 DEF TypeOK
      <3>4. \A q \in Processes : q # p => pc'[q] = pc[q] /\ result'[q] = result[q]
        BY <2>1 DEF Ends, TypeOK
      <3>5. pc[p] # "done"
        BY <1>3 DEF Finish
      <3> QED
        BY <2>1, <3>3, <3>4, <3>5, UpdateNumbers
    <2>2. CASE Ends(p, "error") /\ UNCHANGED <<release, fresh>>
      BY <2>2, EndsNumbers
    <2> QED
      BY <1>3, <2>1, <2>2 DEF Finish
  <1>4. ASSUME Crash(p) PROVE NumberInv'
    BY <1>4, EndsNumbers DEF Crash
  <1> QED
    BY <1>1, <1>2, <1>3, <1>4

\* A step keeps what is known of the numbers.
LEMMA NumberStep ==
  ASSUME TypeOK, NumberInv, DeletingInv, [Next]_vars
  PROVE  NumberInv'
  <1>1. ASSUME UNCHANGED vars PROVE NumberInv'
    <2>1. UNCHANGED <<release, mem, fresh, pc, result>>
      BY <1>1 DEF vars
    <2> QED
      BY <2>1, NumberKept DEF Succeeded
  <1>2. ASSUME NEW p \in Processes,
               StartApply(p) \/ StartDelete(p) \/ Step(p) \/ CallFails(p) \/ Crash(p)
        PROVE  NumberInv'
    BY <1>2, BeginningNumbers, CallNumbers, SaveNumbers DEF Step
  <1> QED
    BY <1>1, <1>2 DEF Next

\* A step of a command that gets to delete a release is one of clm delete.
LEMMA DeletingStep ==
  ASSUME TypeOK, DeletingInv, [Next]_vars
  PROVE  DeletingInv'
  <1>1. ASSUME NEW p \in Processes, NEW to, pc' = [pc EXCEPT ![p] = to],
               to \in {"delete", "get"} => p \in Deleting
        PROVE  DeletingInv'
    BY <1>1 DEF DeletingInv, TypeOK
  <1>2. ASSUME UNCHANGED pc PROVE DeletingInv'
    BY <1>2 DEF DeletingInv
  <1>3. ASSUME NEW p \in Processes, StartApply(p) \/ CreateRelease(p) PROVE DeletingInv'
    BY <1>1, <1>3 DEF StartApply, CreateRelease, Quits, Ends, Goes
  <1>4. ASSUME NEW p \in Processes, StartDelete(p) \/ GetAgain(p) PROVE DeletingInv'
    BY <1>1, <1>4 DEF StartDelete, GetAgain, Quits, Ends, Goes
  <1>5. ASSUME NEW p \in Processes, DeleteRelease(p) PROVE DeletingInv'
    <2>1. p \in Deleting
      BY <1>5 DEF DeleteRelease, DeletingInv
    <2> QED
      BY <1>1, <1>5, <2>1 DEF DeleteRelease, Quits, Ends, Goes
  <1>6. ASSUME NEW p \in Processes,
               BeginCall(p) \/ BeginPrune(p) \/ EndCall(p) \/ CallFails(p)
        PROVE  DeletingInv'
    BY <1>1, <1>6 DEF BeginCall, BeginPrune, EndCall, CallFails, Fail, Goes
  <1>7. ASSUME NEW p \in Processes, NEW k \in Keys, ApplyObject(p, k) \/ PruneObject(p, k)
        PROVE  DeletingInv'
    BY <1>1, <1>2, <1>7 DEF ApplyObject, PruneObject, DeleteObject, FindGone, Fail
  <1>8. ASSUME NEW p \in Processes, Save(p) \/ Wait(p) \/ Finish(p) \/ Crash(p)
        PROVE  DeletingInv'
    BY <1>1, <1>8 DEF Save, Wait, Finish, Crash, Fail, Ends, Goes
  <1>9. ASSUME UNCHANGED vars PROVE DeletingInv'
    BY <1>2, <1>9 DEF vars
  <1> QED
    BY <1>3, <1>4, <1>5, <1>6, <1>7, <1>8, <1>9 DEF Next, Step

-----------------------------------------------------------------------------
(* A command without others *)

\* The step of a running command concerns no other one that is alone.
LEMMA AloneKept ==
  ASSUME TypeOK, AloneInv, NEW p \in Processes, Running(p), alone' = alone,
         \A q \in Processes \ {p} : pc'[q] = pc[q],
         alone = p /\ Clean(p) /\ (\A q \in Processes \ {p} : ~ Running(q)') => Clean(p)'
  PROVE  AloneInv'
  <1> SUFFICES ASSUME NEW q \in Processes, alone = q PROVE Clean(q)'
    BY DEF AloneInv
  <1>1. Clean(q)
    BY DEF AloneInv
  <1>2. q = p
    BY <1>1 DEF Clean
  <1>3. \A r \in Processes \ {p} : ~ Running(r)'
    BY <1>1, <1>2 DEF Clean, Running
  <1> QED
    BY <1>1, <1>2, <1>3

\* A command that has ended claims nothing more.
LEMMA EndsClean ==
  ASSUME TypeOK, NEW p \in Processes, NEW how, Ends(p, how),
         \A q \in Processes \ {p} : ~ Running(q)'
  PROVE  Clean(p)'
  <1>1. pc'[p] = "done"
    BY DEF Ends, TypeOK
  <1> QED
    BY <1>1 DEF Clean, Working

\* One that fails still knows what it has left.
LEMMA FailClean ==
  ASSUME TypeOK, NEW p \in Processes, Clean(p), Working(p), Fail(p), leaked' = leaked,
         \A q \in Processes \ {p} : ~ Running(q)'
  PROVE  Clean(p)'
  <1>1. /\ pc'[p] = "finish" /\ result'[p] = "error"
        /\ UNCHANGED <<release, cluster>>
    BY DEF Fail, TypeOK
  <1>2. /\ mem'[p].inventory = mem[p].inventory
        /\ mem'[p].deleting = mem[p].deleting
    BY DEF Fail, TypeOK, Copies
  <1>3. /\ Owned \ leaked \subseteq Held(mem[p].inventory)
        /\ p \in Deleting => mem[p].deleting
    BY DEF Clean
  <1> QED
    BY <1>1, <1>2, <1>3 DEF Clean, Working, Owned

\* A step that only moves on.
LEMMA MovesClean ==
  ASSUME TypeOK, NEW p \in Processes, Clean(p), Working(p),
         UNCHANGED <<cluster, mem>>, leaked' = leaked,
         pc'[p] \in {"loop", "save", "wait"},
         \A q \in Processes \ {p} : ~ Running(q)'
  PROVE  Clean(p)'
  <1>1. /\ Owned \ leaked \subseteq Held(mem[p].inventory)
        /\ p \in Deleting => mem[p].deleting
    BY DEF Clean
  <1> QED
    BY <1>1 DEF Clean, Working, Owned

\* What a command finds when it starts alone.
LEMMA StartClean ==
  ASSUME TypeOK, AloneInv, NEW p \in Processes, StartApply(p) \/ StartDelete(p)
  PROVE  AloneInv'
  <1>1. pc[p] = "start" /\ Starts(p)
    BY DEF StartApply, StartDelete
  <1> SUFFICES ASSUME NEW q \in Processes, alone' = q PROVE Clean(q)'
    BY DEF AloneInv
  <1>2. q = p /\ Alone /\ leaked' = Owned \ Recorded
    BY <1>1, CommandsAssumption DEF Starts
  <1>3. \A r \in Processes \ {p} : pc'[r] = pc[r]
    BY DEF StartApply, StartDelete, Quits, Ends, Goes, TypeOK
  <1>4. \A r \in Processes \ {p} : ~ Running(r)'
    BY <1>2, <1>3 DEF Alone, Running
  <1>5. CASE Quits(p)
    BY <1>2, <1>4, <1>5, EndsClean DEF Quits
  <1>6. CASE /\ p \notin Deleting /\ release.exists
             /\ Goes(p, "start", "loop") /\ Reads(p, NextRevision)
    <2>1. pc'[p] = "loop" /\ cluster' = cluster
      BY <1>6 DEF Goes, Reads, TypeOK
    <2>2. mem'[p].inventory = release.inventory
      BY <1>6 DEF Reads, TypeOK, NextRevision, Copy
    <2>3. (Owned \ leaked \subseteq Held(mem[p].inventory))'
      BY <1>2, <1>6, <2>1, <2>2 DEF Owned, Recorded
    <2> QED
      BY <1>2, <1>4, <1>6, <2>1, <2>3 DEF Clean, Working
  <1>7. CASE /\ p \notin Deleting /\ ~ release.exists
             /\ Goes(p, "start", "create") /\ UNCHANGED cluster
    <2>1. pc'[p] = "create"
      BY <1>7 DEF Goes, TypeOK
    <2>2. (Owned \subseteq leaked)'
      BY <1>2, <1>7 DEF Owned, Recorded
    <2> QED
      BY <1>2, <1>4, <1>7, <2>1, <2>2 DEF Clean, Working
  <1>8. CASE /\ release.exists /\ UNCHANGED release
             /\ Goes(p, "start", "delete") /\ Reads(p, Copy)
    <2>1. pc'[p] = "delete" /\ cluster' = cluster
      BY <1>8 DEF Goes, Reads, TypeOK
    <2>2. (Owned \ leaked \subseteq Recorded)'
      BY <1>2, <1>8, <2>1 DEF Owned, Recorded
    <2> QED
      BY <1>2, <1>4, <2>1, <2>2 DEF Clean, Working
  <1> QED
    BY <1>5, <1>6, <1>7, <1>8 DEF StartApply, StartDelete

\* The release is created, deleted, read again.
LEMMA BeginningClean ==
  ASSUME TypeOK, AloneInv, NEW p \in Processes,
         CreateRelease(p) \/ DeleteRelease(p) \/ GetAgain(p)
  PROVE  AloneInv'
  <1>1. /\ pc[p] \in {"create", "delete", "get"}
        /\ alone' = alone /\ leaked' = leaked
        /\ \A q \in Processes \ {p} : pc'[q] = pc[q]
    BY DEF CreateRelease, DeleteRelease, GetAgain, Quits, Ends, Goes, TypeOK, historyVars
  <1> SUFFICES ASSUME Clean(p), \A q \in Processes \ {p} : ~ Running(q)'
               PROVE  Clean(p)'
    BY <1>1, AloneKept DEF Running
  <1>2. CASE Quits(p)
    BY <1>2, EndsClean DEF Quits
  <1>3. CASE CreateRelease(p) /\ ~ Quits(p)
    <2>1. /\ pc[p] = "create" /\ pc'[p] = "loop" /\ cluster' = cluster
      BY <1>3 DEF CreateRelease, Goes, TypeOK
    <2>2. Owned \subseteq leaked /\ p \notin Deleting
      BY <2>1 DEF Clean
    <2> QED
      BY <1>1, <2>1, <2>2 DEF Clean, Working, Owned
  <1>4. CASE DeleteRelease(p) /\ ~ Quits(p)
    <2>1. /\ pc[p] = "delete" /\ pc'[p] = "get" /\ cluster' = cluster
      BY <1>4 DEF DeleteRelease, Goes, TypeOK
    <2>2. /\ release'.exists = release.exists /\ release'.inventory = release.inventory
          /\ release'.deleting
      BY <1>4 DEF DeleteRelease, Writes, TypeOK
    <2>3. Owned \ leaked \subseteq Recorded
      BY <2>1 DEF Clean
    <2>4. (Owned \ leaked \subseteq Recorded)'
      BY <1>1, <2>1, <2>2, <2>3 DEF Owned, Recorded
    <2> QED
      BY <2>1, <2>2, <2>4 DEF Clean, Working
  <1>5. CASE GetAgain(p) /\ ~ Quits(p)
    <2>1. /\ pc[p] = "get" /\ pc'[p] = "loop" /\ cluster' = cluster
          /\ release.exists
      BY <1>5 DEF GetAgain, Goes, Reads, TypeOK
    <2>2. mem'[p].inventory = release.inventory /\ mem'[p].deleting = release.deleting
      BY <1>5 DEF GetAgain, Reads, TypeOK, Copy
    <2>3. Owned \ leaked \subseteq Recorded /\ release.deleting
      BY <2>1 DEF Clean
    <2>4. (Owned \ leaked \subseteq Held(mem[p].inventory))'
      BY <1>1, <2>1, <2>2, <2>3 DEF Owned, Recorded
    <2> QED
      BY <2>1, <2>2, <2>3, <2>4 DEF Clean, Working
  <1> QED
    BY <1>2, <1>3, <1>4, <1>5

\* A call of Apply or Delete.
LEMMA CallClean ==
  ASSUME TypeOK, AloneInv, NEW p \in Processes,
         \/ BeginCall(p) \/ BeginPrune(p) \/ EndCall(p) \/ CallFails(p)
         \/ \E k \in Keys : ApplyObject(p, k) \/ PruneObject(p, k)
  PROVE  AloneInv'
  <1>1. /\ pc[p] \in {"loop", "apply", "prune"}
        /\ alone' = alone /\ leaked' = leaked
        /\ \A q \in Processes \ {p} : pc'[q] = pc[q]
    BY DEF BeginCall, BeginPrune, EndCall, CallFails, ApplyObject, PruneObject,
           DeleteObject, FindGone, Fail, Disturb, InMemory, Goes, TypeOK, historyVars
  <1> SUFFICES ASSUME Clean(p), \A q \in Processes \ {p} : ~ Running(q)'
               PROVE  Clean(p)'
    BY <1>1, AloneKept DEF Running
  <1>2. /\ Working(p)
        /\ Owned \ leaked \subseteq Held(mem[p].inventory)
        /\ p \in Deleting => mem[p].deleting
    BY <1>1 DEF Clean, Working
  <1>3. Wanted(p)' = Wanted(p) /\ Wanted(p) \subseteq Keys
    BY Typed DEF Wanted
  <1>4. CASE BeginCall(p)
    <2> DEFINE new == [mem[p] EXCEPT !.inventory = Marked(p),
                                     !.state = IF p \in Deleting THEN "Deleting"
                                               ELSE "Processing"]
    <2>1. mem' = [mem EXCEPT ![p] = new] /\ cluster' = cluster
      BY <1>4 DEF BeginCall, Sets, InMemory
    <2>2. new.inventory = Marked(p) /\ new.deleting = mem[p].deleting
      BY DEF TypeOK, Copies
    <2>3. /\ mem'[p].inventory = Marked(p)
          /\ mem'[p].deleting = mem[p].deleting
      BY <2>1, <2>2 DEF TypeOK
    <2>4. \/ pc'[p] = "save"
          \/ pc'[p] = "apply" /\ todo'[p] = Wanted(p)
      BY <1>4 DEF BeginCall, Goes, TypeOK
    <2>5. (Owned \ leaked \subseteq Held(mem[p].inventory))'
      BY <1>1, <1>2, <2>1, <2>3, MarkedItems DEF Owned
    <2> QED
      BY <1>2, <1>3, <2>3, <2>4, <2>5, MarkedItems DEF Clean, Working
  <1>5. CASE \E k \in Keys : ApplyObject(p, k)
    <2> PICK k \in Keys : ApplyObject(p, k)
      BY <1>5
    <2>1. /\ pc[p] = "apply" /\ pc' = pc /\ mem' = mem
          /\ k \in todo[p] /\ todo'[p] = todo[p] \ {k}
          /\ cluster' = [cluster EXCEPT ![k] = p]
      BY DEF ApplyObject, TypeOK
    <2>2. /\ \A j \in Wanted(p) : mem[p].inventory[j] = "kept"
          /\ \A j \in Keys \ Wanted(p) : mem[p].inventory[j] = "kept" => p \in Deleting
          /\ \A j \in Wanted(p) \ todo[p] : cluster[j] = p
          /\ todo[p] \subseteq Wanted(p)
      BY <2>1 DEF Clean
    <2>3. (Owned \ leaked \subseteq Held(mem[p].inventory))'
      <3>1. k \in Held(mem[p].inventory)
        BY <2>1, <2>2 DEF Held
      <3> QED
        BY <1>1, <1>2, <2>1, <3>1 DEF Owned, TypeOK
    <2>4. \A j \in Wanted(p) \ todo'[p] : cluster'[j] = p
      BY <1>3, <2>1, <2>2 DEF TypeOK
    <2> QED
      BY <1>2, <1>3, <2>1, <2>2, <2>3, <2>4 DEF Clean, Working
  <1>6. CASE BeginPrune(p)
    <2>1. /\ pc[p] = "apply" /\ pc'[p] = "prune" /\ todo[p] = {}
          /\ todo'[p] = Redundant(p)
          /\ UNCHANGED <<cluster, mem, busy>>
      BY <1>6 DEF BeginPrune, Goes, InMemory, TypeOK
    <2>2. /\ \A j \in Wanted(p) : mem[p].inventory[j] = "kept"
          /\ \A j \in Keys \ Wanted(p) : mem[p].inventory[j] = "kept" => p \in Deleting
          /\ \A j \in Wanted(p) : cluster[j] = p
      BY <2>1 DEF Clean
    <2>3. (Owned \ leaked \subseteq Held(mem[p].inventory))'
      BY <1>1, <1>2, <2>1 DEF Owned
    <2>4. Redundant(p) \cap Wanted(p) = {}
      <3>1. p \in Deleting => Wanted(p) = {}
        BY DEF Wanted
      <3> QED
        BY <2>2, <3>1 DEF Redundant
    <2>5. Held(mem[p].inventory) \subseteq Wanted(p) \cup Redundant(p)
      <3>1. mem[p].inventory \in [Keys -> Items]
        BY Typed DEF Inventories
      <3> QED
        BY <2>2, <3>1 DEF Held, Listed, Redundant, Items
    <2> QED
      BY <1>2, <1>3, <2>1, <2>2, <2>3, <2>4, <2>5 DEF Clean, Working
  <1>7. CASE \E k \in Keys : PruneObject(p, k)
    <2> PICK k \in Keys : PruneObject(p, k)
      BY <1>7
    <2>0. CASE Fail(p)
      BY <1>1, <1>2, <2>0, FailClean
    <2> SUFFICES ASSUME ~ Fail(p) PROVE Clean(p)'
      BY <2>0
    <2>1. /\ pc[p] = "prune" /\ pc' = pc
          /\ k \in todo[p] /\ todo'[p] = todo[p] \ {k}
          /\ cluster' = [cluster EXCEPT ![k] = Nobody]
          /\ mem'[p].deleting = mem[p].deleting
      BY Pruned DEF TypeOK
    <2>2. /\ \A j \in Wanted(p) : mem[p].inventory[j] = "kept"
          /\ \A j \in Keys \ Wanted(p) : mem[p].inventory[j] = "kept" => p \in Deleting
          /\ \A j \in Wanted(p) \ todo[p] : cluster[j] = p
          /\ todo[p] \cap Wanted(p) = {}
          /\ ~ busy[p] => Held(mem[p].inventory) \subseteq Wanted(p) \cup todo[p]
      BY <2>1 DEF Clean
    <2>3. /\ mem'[p].inventory[k] \in {"deleting", "blank"}
          /\ \A j \in Keys \ {k} : mem'[p].inventory[j] = mem[p].inventory[j]
      BY Pruned
    <2>4. (Owned \ leaked \subseteq Held(mem[p].inventory))'
      <3>1. Owned' = Owned \ {k}
        BY <2>1 DEF Owned, TypeOK
      <3>2. Held(mem[p].inventory) \ {k} \subseteq Held(mem'[p].inventory)
        BY <2>3 DEF Held
      <3> QED
        BY <1>1, <1>2, <3>1, <3>2
    <2>5. \A j \in Wanted(p) \ todo'[p] : cluster'[j] = p
      BY <1>3, <2>1, <2>2 DEF TypeOK
    <2>6. /\ \A j \in Wanted(p) : mem'[p].inventory[j] = "kept"
          /\ \A j \in Keys \ Wanted(p) : mem'[p].inventory[j] = "kept" => p \in Deleting
          /\ todo'[p] \cap Wanted(p) = {}
      BY <1>3, <2>1, <2>2, <2>3
    <2>7. ASSUME ~ busy'[p]
          PROVE  Held(mem'[p].inventory) \subseteq Wanted(p) \cup todo'[p]
      <3>1. \/ busy' = [busy EXCEPT ![p] = TRUE]
            \/ busy' = busy /\ mem'[p].inventory[k] = "blank"
        BY Pruned
      <3>2. ~ busy[p] /\ mem'[p].inventory[k] = "blank"
        BY <2>7, <3>1 DEF TypeOK
      <3>3. Held(mem'[p].inventory) \subseteq Held(mem[p].inventory) \ {k}
        BY <2>3, <3>2 DEF Held
      <3> QED
        BY <2>1, <2>2, <3>2, <3>3
    <2> QED
      BY <1>2, <1>3, <2>1, <2>4, <2>5, <2>6, <2>7 DEF Clean, Working
  <1>8. CASE EndCall(p)
    <2>0. /\ Held(mem'[p].inventory) = Held(mem[p].inventory)
          /\ mem'[p].deleting = mem[p].deleting
      BY <1>8, Ended
    <2>1. (Owned \ leaked \subseteq Held(mem[p].inventory))'
      BY <1>1, <1>2, <1>8, <2>0 DEF EndCall, Owned
    <2>2. CASE busy[p]
      <3>1. pc'[p] = "save"
        BY <1>8, <2>2 DEF EndCall, Goes, TypeOK
      <3> QED
        BY <1>2, <2>0, <2>1, <3>1 DEF Clean, Working
    <2>3. CASE ~ busy[p]
      <3>1. /\ pc[p] = "prune" /\ pc'[p] = "finish" /\ todo[p] = {}
            /\ cluster' = cluster
        BY <1>8, <2>3 DEF EndCall, Goes, TypeOK
      <3>2. /\ mem'[p].inventory = Filtered(mem[p].inventory)
            /\ p \notin Deleting => mem'[p].state = "Ready"
        BY <1>8, <2>3, Ended
      <3>3. /\ \A j \in Wanted(p) : mem[p].inventory[j] = "kept"
            /\ \A j \in Keys \ Wanted(p) : mem[p].inventory[j] = "kept" => p \in Deleting
            /\ Held(mem[p].inventory) \subseteq Wanted(p)
            /\ \A j \in Wanted(p) : cluster[j] = p
        BY <2>3, <3>1 DEF Clean
      <3>4. Filtered(mem[p].inventory) = Rendered(p)
        BY <3>3 DEF Filtered, Rendered, Held
      <3>5. Rendered(p)' = Rendered(p)
        BY <1>3 DEF Rendered
      <3> QED
        BY <1>2, <1>3, <2>0, <2>1, <3>1, <3>2, <3>3, <3>4, <3>5 DEF Clean, Working
    <2> QED
      BY <2>2, <2>3
  <1>9. CASE CallFails(p)
    <2>1. CASE Fail(p)
      BY <1>1, <1>2, <2>1, FailClean
    <2>2. CASE ~ Fail(p)
      <3>1. pc'[p] = "wait" /\ UNCHANGED <<cluster, mem>>
        BY <1>9, <2>2 DEF CallFails, TypeOK
      <3> QED
        BY <1>1, <1>2, <3>1, MovesClean
    <2> QED
      BY <2>1, <2>2
  <1> QED
    BY <1>4, <1>5, <1>6, <1>7, <1>8, <1>9

\* The release is saved, and the command ends.
LEMMA SaveClean ==
  ASSUME TypeOK, AloneInv, NEW p \in Processes,
         Save(p) \/ Wait(p) \/ Finish(p) \/ Crash(p)
  PROVE  AloneInv'
  <1>1. /\ Running(p) /\ alone' = alone /\ leaked' = leaked
        /\ \A q \in Processes \ {p} : pc'[q] = pc[q]
    BY DEF Save, Wait, Finish, Crash, Running, Fail, Ends, Disturb, Goes, TypeOK,
           historyVars
  <1> SUFFICES ASSUME Clean(p), \A q \in Processes \ {p} : ~ Running(q)'
               PROVE  Clean(p)'
    BY <1>1, AloneKept
  <1>2. CASE Finish(p) \/ Crash(p)
    BY <1>2, EndsClean DEF Finish, Crash
  <1>3. CASE Save(p) \/ Wait(p)
    <2>1. Working(p)
      BY <1>3 DEF Save, Wait, Goes, Working
    <2>2. CASE Fail(p)
      BY <1>1, <2>1, <2>2, FailClean
    <2>3. CASE ~ Fail(p)
      <3>1. pc'[p] \in {"wait", "loop"} /\ UNCHANGED <<cluster, mem>>
        BY <1>3, <2>3 DEF Save, Wait, Goes, TypeOK
      <3> QED
        BY <1>1, <2>1, <3>1, MovesClean
    <2> QED
      BY <2>2, <2>3
  <1> QED
    BY <1>2, <1>3

\* A step keeps what a command knows that is alone.
LEMMA AloneStep ==
  ASSUME TypeOK, AloneInv, [Next]_vars
  PROVE  AloneInv'
  <1>1. ASSUME UNCHANGED vars PROVE AloneInv'
    BY <1>1 DEF vars, loopVars, historyVars, AloneInv, Clean, Running, Working, Owned,
                Recorded, Wanted, Rendered
  <1>2. ASSUME NEW p \in Processes,
               StartApply(p) \/ StartDelete(p) \/ Step(p) \/ CallFails(p) \/ Crash(p)
        PROVE  AloneInv'
    BY <1>2, StartClean, BeginningClean, CallClean, SaveClean DEF Step
  <1> QED
    BY <1>1, <1>2 DEF Next

\* A command succeeds only when it finishes.
LEMMA FinishingAction ==
  ASSUME TypeOK, [Next]_vars, NEW p \in Processes,
         pc[p] = "finish", pc'[p] = "done", result'[p] = "ok"
  PROVE  Finish(p)
  <1>1. ASSUME NEW q \in Processes, q # p,
               StartApply(q) \/ StartDelete(q) \/ Step(q) \/ CallFails(q) \/ Crash(q)
        PROVE  pc'[p] = pc[p]
    BY <1>1 DEF StartApply, StartDelete, CallFails, Crash, Step, CreateRelease,
       DeleteRelease, GetAgain, BeginCall, BeginPrune, EndCall, ApplyObject, PruneObject,
       DeleteObject, FindGone, Save, Wait, Finish, Quits, Ends, Fail, Goes, TypeOK
  <1>2. ~ (StartApply(p) \/ StartDelete(p) \/ CallFails(p))
    BY DEF StartApply, StartDelete, CallFails
  <1>3. ~ Crash(p)
    BY DEF Crash, Ends, TypeOK
  <1>4. Step(p) => Finish(p)
    BY DEF Step, CreateRelease, DeleteRelease, GetAgain, BeginCall, BeginPrune, EndCall,
       ApplyObject, PruneObject, Save, Wait, Goes
  <1> QED
    BY <1>1, <1>2, <1>3, <1>4 DEF Next, vars

-----------------------------------------------------------------------------
(* The theorems *)

\* The inductive invariant holds at the beginning ...
LEMMA InitInv == Init => IndInv
  <1> SUFFICES ASSUME Init PROVE IndInv
    OBVIOUS
  <1>1. TypeOK
    <2>1. [uid |-> 0, revision |-> 0, inventory |-> NoItems, deleting |-> FALSE,
           state |-> ""] \in Copies
      BY InventoryTypes DEF Copies, States
    <2>2. Copy \in Copies
      BY <2>1 DEF Init, Pristine, Copy, NoRelease
    <2>3. release \in [uid : Nat, revision : Nat, inventory : Inventories,
                       deleting : BOOLEAN, state : States, exists : BOOLEAN]
      BY InventoryTypes DEF Init, Pristine, NoRelease, States
    <2> QED
      BY <2>2, <2>3, BoundsAssumption DEF Init, Pristine, TypeOK
  <1>2. MindedInv
    BY DEF Init, Pristine, MindedInv, Owned
  <1>3. NumberInv
    BY DEF Init, Pristine, NumberInv, SuccessesAreNumbered, Succeeded
  <1>4. DeletingInv
    BY DEF Init, Pristine, DeletingInv
  <1>5. AloneInv
    BY CommandsAssumption DEF Init, Pristine, AloneInv
  <1> QED
    BY <1>1, <1>2, <1>3, <1>4, <1>5 DEF IndInv

\* ... and is kept by every step.
LEMMA Inductive == Spec => []IndInv
  <1>1. IndInv /\ [Next]_vars => IndInv'
    BY TypeStep, MindedStep, NumberStep, DeletingStep, AloneStep
    DEF IndInv
  <1> QED
    BY InitInv, <1>1, PTL DEF Spec

\* An object that no release knows of is in the hands of a command that has not
\* succeeded (apply.go, delete.go: the update at the end insists on the resource
\* version).
THEOREM NothingLostSilently == Spec => []NoSilentLoss
  <1>1. IndInv => NoSilentLoss
    BY DEF IndInv, MindedInv, Minded, Unsuccessful, NoSilentLoss
  <1> QED
    BY <1>1, Inductive, PTL

\* Two commands that have applied a release successfully have come one after the
\* other (apply.go: the revision is that of the release, plus one).
THEOREM SuccessesNumbered == Spec => []SuccessesAreNumbered
  <1>1. IndInv => SuccessesAreNumbered
    BY DEF IndInv, NumberInv
  <1> QED
    BY <1>1, Inductive, PTL

\* A success that no other command has interfered with leaves in the cluster exactly
\* what was rendered, of all that the release held when the command started, and
\* the release tells just that (apply.go, delete.go: Ready, or the release is gone).
THEOREM SuccessIsClean == Spec => SuccessCleansUp
  <1>1. ASSUME IndInv, [Next]_vars, NEW p \in Processes,
               pc[p] = "finish", alone = p, pc'[p] = "done", result'[p] = "ok"
        PROVE  /\ \A k \in Wanted(p) : cluster[k] = p
               /\ \A k \in Keys \ (Wanted(p) \cup leaked) : cluster[k] = Nobody
               /\ IF p \in Deleting THEN ~ release'.exists
                  ELSE /\ release'.state = "Ready"
                       /\ \A k \in Keys :
                             release'.inventory[k] =
                               IF k \in Wanted(p) THEN "kept" ELSE "none"
    <2>1. TypeOK /\ Clean(p)
      BY <1>1 DEF IndInv, AloneInv
    <2>2. Finish(p)
      BY <1>1, <2>1, FinishingAction
    <2>3. Update(p) /\ result[p] = "ok"
      BY <1>1, <2>1, <2>2 DEF Finish, Ends, TypeOK
    <2>4. /\ mem[p].inventory = Rendered(p)
          /\ \A k \in Wanted(p) : cluster[k] = p
          /\ p \notin Deleting => mem[p].state = "Ready"
          /\ p \in Deleting => mem[p].deleting
          /\ Owned \ leaked \subseteq Held(mem[p].inventory)
      BY <1>1, <2>1, <2>3 DEF Clean, Working
    <2>5. /\ release'.inventory = mem[p].inventory
          /\ release'.state = mem[p].state
          /\ release'.exists = ~ (mem[p].deleting /\ Listed(mem[p].inventory) = {})
      BY <2>1, <2>3 DEF Update, Writes, TypeOK
    <2>6. \A k \in Keys : Rendered(p)[k] = IF k \in Wanted(p) THEN "kept" ELSE "none"
      BY DEF Rendered
    <2>7. \A k \in Keys \ (Wanted(p) \cup leaked) : cluster[k] = Nobody
      BY <2>4, <2>6 DEF Owned, Held
    <2>8. p \in Deleting => Listed(Rendered(p)) = {}
      BY <2>6 DEF Listed, Wanted
    <2> QED
      BY <2>4, <2>5, <2>6, <2>7, <2>8
  <1>2. IndInv /\ [Next]_vars =>
          [\A p \in Processes :
              pc[p] = "finish" /\ alone = p /\ pc'[p] = "done" /\ result'[p] = "ok" =>
                  /\ \A k \in Wanted(p) : cluster[k] = p
                  /\ \A k \in Keys \ (Wanted(p) \cup leaked) : cluster[k] = Nobody
                  /\ IF p \in Deleting THEN ~ release'.exists
                     ELSE /\ release'.state = "Ready"
                          /\ \A k \in Keys :
                                release'.inventory[k] =
                                  IF k \in Wanted(p) THEN "kept" ELSE "none"]_vars
    BY <1>1
  <1> QED
    BY <1>2, Inductive, PTL DEF Spec, SuccessCleansUp
=============================================================================
