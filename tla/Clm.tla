--------------------------------- MODULE Clm ---------------------------------
(***************************************************************************)
(* clm apply and clm delete: commands that may be run at the same time, by *)
(* anybody, on the same release.  Each loads the release from its config   *)
(* map, works on its own copy of the inventory in a loop of calls of       *)
(* reconciler.Apply or Delete, and writes it back between them.  There is  *)
(* no lock; a command finds out that the release was changed by another    *)
(* one when the API server refuses the next update.                        *)
(*                                                                         *)
(* All commands work with the same owner id, so none of them minds the     *)
(* objects of another.  Objects are ready at once, and gone when deleted.  *)
(***************************************************************************)
EXTENDS Integers

CONSTANTS
    Keys,            \* keys of dependent objects
    Processes,       \* command invocations
    Deleting,        \* those that are clm delete, the others are clm apply
    Manifest,        \* Manifest[p]: the keys that p renders
    MaxErrCount,     \* conflicts in a row that are put up with (15 in the code)
    Disturbances,    \* kinds of disturbance that may happen ...
    Disturbable,     \* ... to which commands,
    MaxDisturbances  \* and how many altogether (a bound)

Nobody == "nobody"

ASSUME CommandsAssumption ==
    /\ Nobody \notin Processes
    /\ Deleting \subseteq Processes
    /\ Manifest \in [Processes -> SUBSET Keys]
ASSUME BoundsAssumption ==
    /\ MaxErrCount \in Nat /\ MaxDisturbances \in Nat
    /\ Disturbances \subseteq {"conflict", "fail", "timeout", "crash"}
    /\ Disturbable \subseteq Processes

VARIABLES
    release,    \* the release as in its config map
    cluster,    \* who has written an object last; Nobody: there is no object
    pc,         \* what a command does next
    mem,        \* its copy of the release
    fresh,      \* the release is as it was when the command read or wrote it
    todo,       \* keys to be handled yet by the running call of Apply or Delete,
    busy,       \* which has found something to do,
    errCount,
    result,     \* how the command ends
    \* history
    alone,      \* the command that has started last, if no other was running then,
    leaked,     \* what was in the cluster at that time, and not held in the release
    disturbed   \* number of disturbances so far

loopVars == <<todo, busy, errCount>>
historyVars == <<alone, leaked, disturbed>>
vars == <<release, cluster, pc, mem, fresh, loopVars, result, historyVars>>

\* An item of the inventory has a digest ("kept") or is obsolete: it is scheduled for
\* deletion, deleted, or found to be gone (a "blank"); there may be "none" for a key.
Items == {"none", "kept", "scheduled", "deleting", "blank"}
Inventories == [Keys -> Items]
NoItems == [k \in Keys |-> "none"]

Listed(inventory) == {k \in Keys : inventory[k] # "none"}
Held(inventory) == {k \in Keys : inventory[k] \notin {"none", "blank"}}

States == {"", "Processing", "Ready", "Deleting", "Error"}
Copies == [uid : Nat, revision : Nat, inventory : Inventories, deleting : BOOLEAN,
           state : States]

NoRelease == [uid |-> 0, revision |-> 0, inventory |-> NoItems, deleting |-> FALSE,
              state |-> "", exists |-> FALSE]

TypeOK ==
    /\ release \in [uid : Nat, revision : Nat, inventory : Inventories,
                    deleting : BOOLEAN, state : States, exists : BOOLEAN]
    /\ cluster \in [Keys -> Processes \cup {Nobody}]
    /\ pc \in [Processes -> {"start", "create", "delete", "get", "loop", "apply",
                             "prune", "save", "wait", "finish", "done"}]
    /\ mem \in [Processes -> Copies]
    /\ fresh \in [Processes -> BOOLEAN]
    /\ todo \in [Processes -> SUBSET Keys] /\ busy \in [Processes -> BOOLEAN]
    /\ errCount \in [Processes -> 0 .. MaxErrCount]
    /\ result \in [Processes -> {"none", "ok", "error", "crashed"}]
    /\ alone \in Processes \cup {Nobody}
    /\ leaked \in SUBSET Keys
    /\ disturbed \in 0 .. MaxDisturbances

Copy == [uid |-> release.uid, revision |-> release.revision,
         inventory |-> release.inventory, deleting |-> release.deleting,
         state |-> release.state]

\* The release has never been applied, and no command has done anything.
Pristine ==
    /\ release = NoRelease
    /\ cluster = [k \in Keys |-> Nobody]
    /\ mem = [p \in Processes |-> Copy]
    /\ fresh = [p \in Processes |-> FALSE]
    /\ todo = [p \in Processes |-> {}] /\ busy = [p \in Processes |-> FALSE]
    /\ errCount = [p \in Processes |-> 0]
    /\ result = [p \in Processes |-> "none"]
    /\ alone = Nobody /\ leaked = {}
    /\ disturbed = 0

Init == Pristine /\ pc = [p \in Processes |-> "start"]

Wanted(p) == IF p \in Deleting THEN {} ELSE Manifest[p]
Owned == {k \in Keys : cluster[k] # Nobody}

\* What the release accounts for.
Recorded == IF release.exists THEN Held(release.inventory) ELSE {}

-----------------------------------------------------------------------------
Goes(p, from, to) == pc[p] = from /\ pc' = [pc EXCEPT ![p] = to]

Running(p) == pc[p] \notin {"start", "done"}

Alone == \A p \in Processes : ~ Running(p)

\* A command starts; the others are not on their own any more.
Starts(p) ==
    /\ alone' = IF Alone THEN p ELSE Nobody
    /\ leaked' = IF Alone THEN Owned \ Recorded ELSE {}
    /\ UNCHANGED disturbed

Disturb(p, kind) ==
    /\ kind \in Disturbances /\ p \in Disturbable
    /\ disturbed < MaxDisturbances /\ disturbed' = disturbed + 1
    /\ UNCHANGED <<alone, leaked>>

\* The process ends; what only it has looked at does not matter any more.
Ends(p, how) ==
    /\ pc' = [pc EXCEPT ![p] = "done"]
    /\ result' = [result EXCEPT ![p] = how]
    /\ mem' = [mem EXCEPT ![p].state = "", ![p].deleting = FALSE]
    /\ todo' = [todo EXCEPT ![p] = {}] /\ busy' = [busy EXCEPT ![p] = FALSE]
    /\ errCount' = [errCount EXCEPT ![p] = 0]

\* The command ends without having touched anything.
Quits(p) == Ends(p, "error") /\ UNCHANGED <<release, cluster, fresh>>

\* The release is there for p, as of now.
Reads(p, copy) ==
    /\ mem' = [mem EXCEPT ![p] = copy]
    /\ fresh' = [fresh EXCEPT ![p] = TRUE]
    /\ UNCHANGED <<cluster, loopVars, result>>

\* p writes the release; all other copies are outdated.
Writes(p, r) ==
    /\ release' = r
    /\ fresh' = [q \in Processes |-> q = p]

-----------------------------------------------------------------------------
(* Beginning *)

NextRevision == [Copy EXCEPT !.revision = @ + 1]

StartApply(p) ==
    /\ pc[p] = "start" /\ p \notin Deleting
    /\ Starts(p)
    /\ \/ release.exists /\ release.deleting /\ Quits(p)
       \/ /\ release.exists /\ ~ release.deleting
          /\ Goes(p, "start", "loop") /\ Reads(p, NextRevision)
          /\ UNCHANGED release
       \/ /\ ~ release.exists
          /\ Goes(p, "start", "create")
          /\ UNCHANGED <<release, cluster, mem, fresh, loopVars, result>>

CreateRelease(p) ==
    /\ pc[p] = "create"
    /\ \/ release.exists /\ Quits(p)
       \/ /\ ~ release.exists
          /\ Goes(p, "create", "loop")
          /\ Writes(p, [NoRelease EXCEPT !.exists = TRUE, !.uid = release.uid + 1])
          /\ mem' = [mem EXCEPT ![p] =
                       [uid |-> release.uid + 1, revision |-> 1, inventory |-> NoItems,
                        deleting |-> FALSE, state |-> ""]]
          /\ UNCHANGED <<cluster, loopVars, result>>
    /\ UNCHANGED historyVars

StartDelete(p) ==
    /\ pc[p] = "start" /\ p \in Deleting
    /\ Starts(p)
    /\ \/ ~ release.exists /\ Quits(p)
       \/ /\ release.exists
          /\ Goes(p, "start", "delete") /\ Reads(p, Copy)
          /\ UNCHANGED release

\* The deletion insists on the resource version; the finalizer keeps the release.
DeleteRelease(p) ==
    /\ pc[p] = "delete"
    /\ \/ ~ (release.exists /\ fresh[p]) /\ Quits(p)
       \/ /\ release.exists /\ fresh[p]
          /\ Goes(p, "delete", "get")
          /\ IF release.deleting THEN UNCHANGED <<release, fresh>>
             ELSE Writes(p, [release EXCEPT !.deleting = TRUE])
          /\ UNCHANGED <<cluster, mem, loopVars, result>>
    /\ UNCHANGED historyVars

GetAgain(p) ==
    /\ pc[p] = "get"
    /\ \/ ~ release.exists /\ Quits(p)
       \/ /\ release.exists
          /\ Goes(p, "get", "loop") /\ Reads(p, Copy)
          /\ UNCHANGED release
    /\ UNCHANGED historyVars

-----------------------------------------------------------------------------
(* A call of Apply or Delete *)

InMemory(p) == UNCHANGED <<release, cluster, fresh, result, historyVars>>

Sets(p, inventory) ==
    mem' = [mem EXCEPT ![p].inventory = inventory,
                       ![p].state = IF p \in Deleting THEN "Deleting" ELSE "Processing"]

Adds(p) == ~ Wanted(p) \subseteq Listed(mem[p].inventory)

\* Apply marks what is not rendered any more, unless it has done so before.
Marked(p) ==
    [k \in Keys |-> IF k \in Wanted(p) THEN "kept"
                    ELSE IF mem[p].inventory[k] = "kept" /\ p \notin Deleting
                    THEN "scheduled" ELSE mem[p].inventory[k]]

\* If something is added to the inventory, Apply returns for it to be saved; otherwise
\* it goes on with the objects.
BeginCall(p) ==
    /\ \/ /\ Adds(p)
          /\ Goes(p, "loop", "save")
          /\ todo' = [todo EXCEPT ![p] = {}]
       \/ /\ ~ Adds(p)
          /\ Goes(p, "loop", "apply")
          /\ todo' = [todo EXCEPT ![p] = Wanted(p)]
    /\ Sets(p, Marked(p))
    /\ busy' = [busy EXCEPT ![p] = FALSE]
    /\ UNCHANGED errCount
    /\ InMemory(p)

ApplyObject(p, k) ==
    /\ pc[p] = "apply" /\ k \in todo[p]
    /\ todo' = [todo EXCEPT ![p] = @ \ {k}]
    /\ cluster' = [cluster EXCEPT ![k] = p]
    /\ busy' = [busy EXCEPT ![p] = @ \/ cluster[k] # p]
    /\ UNCHANGED <<release, pc, mem, fresh, errCount, result, historyVars>>

\* Mutant of Redundant: what others have written is left alone.
RedundantOwn(p) ==
    {k \in Listed(mem[p].inventory) :
        /\ p \in Deleting \/ mem[p].inventory[k] \in {"scheduled", "deleting"}
        /\ cluster[k] \in {p, Nobody}}

\* Delete deletes all; Apply what is marked, so that blanks are not looked at again.
Redundant(p) ==
    {k \in Listed(mem[p].inventory) :
        p \in Deleting \/ mem[p].inventory[k] \in {"scheduled", "deleting"}}

\* Redundant objects are deleted once the others are there.
BeginPrune(p) ==
    /\ todo[p] = {} /\ ~ busy[p]
    /\ Goes(p, "apply", "prune")
    /\ todo' = [todo EXCEPT ![p] = Redundant(p)]
    /\ UNCHANGED <<mem, busy, errCount>>
    /\ InMemory(p)

Item(p, k, item) == mem' = [mem EXCEPT ![p].inventory[k] = item]

\* The object is deleted.
DeleteObject(p, k) ==
    /\ mem[p].inventory[k] # "deleting"
    /\ Item(p, k, "deleting")
    /\ cluster' = [cluster EXCEPT ![k] = Nobody]
    /\ busy' = [busy EXCEPT ![p] = TRUE]
    /\ UNCHANGED <<pc, result>>

\* It is gone; only the end of the call drops its item.
FindGone(p, k) ==
    /\ mem[p].inventory[k] = "deleting" /\ cluster[k] = Nobody
    /\ Item(p, k, "blank")
    /\ UNCHANGED <<pc, cluster, busy, result>>

\* The command fails, and ends with a last attempt to save.
Fail(p) ==
    /\ pc' = [pc EXCEPT ![p] = "finish"]
    /\ mem' = [mem EXCEPT ![p].state = "Error"]
    /\ result' = [result EXCEPT ![p] = "error"]
    /\ UNCHANGED <<release, cluster, fresh, loopVars>>

\* It is there again: the call ends with an error, which is not repeated.
PruneObject(p, k) ==
    /\ pc[p] = "prune" /\ k \in todo[p]
    /\ \/ /\ DeleteObject(p, k) \/ FindGone(p, k)
          /\ todo' = [todo EXCEPT ![p] = @ \ {k}]
          /\ UNCHANGED <<release, fresh, errCount>>
       \/ /\ mem[p].inventory[k] = "deleting" /\ cluster[k] # Nobody
          /\ Fail(p)
    /\ UNCHANGED historyVars

\* What Apply and Delete return at their end is rid of the blanks.
Filtered(inventory) ==
    [k \in Keys |-> IF inventory[k] = "blank" THEN "none" ELSE inventory[k]]

\* The call returns without an error; the command is done if nothing was to do.
EndCall(p) ==
    /\ todo[p] = {}
    /\ \/ /\ busy[p] /\ Goes(p, "apply", "save")
          /\ UNCHANGED <<mem, result>>
       \/ /\ busy[p] /\ Goes(p, "prune", "save")
          /\ mem' = [mem EXCEPT ![p].inventory = Filtered(@)]
          /\ UNCHANGED result
       \/ /\ ~ busy[p] /\ Goes(p, "prune", "finish")
          /\ mem' = [mem EXCEPT ![p].inventory = Filtered(@),
                                ![p].state = IF p \in Deleting THEN @ ELSE "Ready"]
          /\ result' = [result EXCEPT ![p] = "ok"]
    /\ errCount' = [errCount EXCEPT ![p] = 0]
    /\ UNCHANGED <<release, cluster, fresh, todo, busy, historyVars>>

\* Another conflict is put up with.
PutUpWith(p) == errCount[p] < MaxErrCount

\* The call fails, before an object is handled; after a conflict it is repeated, and
\* nothing is saved.  The blanks stay in the copy.
CallFails(p) ==
    /\ pc[p] = "apply" \/ (pc[p] = "prune" /\ todo[p] # {})
    /\ \/ Disturb(p, "fail") /\ Fail(p)
       \/ ~ PutUpWith(p) /\ Disturb(p, "conflict") /\ Fail(p)
       \/ /\ PutUpWith(p) /\ Disturb(p, "conflict")
          /\ pc' = [pc EXCEPT ![p] = "wait"]
          /\ errCount' = [errCount EXCEPT ![p] = @ + 1]
          /\ UNCHANGED <<release, cluster, mem, fresh, todo, busy, result>>

-----------------------------------------------------------------------------
(* Saving the release *)

\* Mutant of Updatable: the resource version is not insisted on.
UpdatableAlways(p) == release.exists

Updatable(p) == release.exists /\ fresh[p]

\* With an empty inventory, a release in deletion loses its finalizer.
Update(p) ==
    Writes(p, [release EXCEPT
                 !.revision = mem[p].revision, !.inventory = mem[p].inventory,
                 !.state = mem[p].state,
                 !.exists = ~ (mem[p].deleting /\ Listed(mem[p].inventory) = {})])

Save(p) ==
    /\ pc[p] = "save"
    /\ \/ /\ Updatable(p)
          /\ Update(p) /\ Goes(p, "save", "wait")
          /\ UNCHANGED <<cluster, mem, loopVars, result, historyVars>>
       \/ ~ Updatable(p) /\ Fail(p) /\ UNCHANGED historyVars
       \/ Updatable(p) /\ Disturb(p, "fail") /\ Fail(p)

Wait(p) ==
    \/ /\ Goes(p, "wait", "loop")
       /\ UNCHANGED <<release, cluster, mem, fresh, loopVars, result, historyVars>>
    \/ pc[p] = "wait" /\ Disturb(p, "timeout") /\ Fail(p)

\* Whatever has happened, the release is saved in the end; without that there is no
\* success.
Finish(p) ==
    /\ pc[p] = "finish"
    /\ \/ Updatable(p) /\ Update(p) /\ Ends(p, result[p]) /\ UNCHANGED historyVars
       \/ /\ \/ ~ Updatable(p) /\ UNCHANGED historyVars
             \/ Updatable(p) /\ Disturb(p, "fail")
          /\ Ends(p, "error")
          /\ UNCHANGED <<release, fresh>>
    /\ UNCHANGED cluster

Crash(p) ==
    /\ Running(p)
    /\ Disturb(p, "crash")
    /\ Ends(p, "crashed")
    /\ UNCHANGED <<release, cluster, fresh>>

Step(p) ==
    \/ CreateRelease(p) \/ DeleteRelease(p) \/ GetAgain(p)
    \/ BeginCall(p) \/ BeginPrune(p) \/ EndCall(p)
    \/ \E k \in Keys : ApplyObject(p, k) \/ PruneObject(p, k)
    \/ Save(p) \/ Wait(p) \/ Finish(p)

Next ==
    \E p \in Processes :
        StartApply(p) \/ StartDelete(p) \/ Step(p) \/ CallFails(p) \/ Crash(p)

\* A command that has been started runs.
Spec == Init /\ [][Next]_vars
FairSpec == Spec /\ \A p \in Processes : WF_vars(Step(p))

-----------------------------------------------------------------------------
(* Properties *)

\* Whatever is in the cluster, and in the release not or as a blank, is known to a
\* command that has not succeeded: it is still running, or has told of an error, or
\* was killed.
NoSilentLoss ==
    \A k \in Owned \ Recorded :
        \E p \in Processes :
            /\ pc[p] # "start" /\ ~ (pc[p] = "done" /\ result[p] = "ok")
            /\ k \in Held(mem[p].inventory)

\* Of two commands that have applied the same release successfully, one has come
\* after the other: they have different revisions.
SuccessesAreNumbered ==
    \A p, q \in Processes \ Deleting :
        /\ p # q
        /\ pc[p] = "done" /\ result[p] = "ok" /\ pc[q] = "done" /\ result[q] = "ok"
        /\ mem[p].uid = mem[q].uid
        => mem[p].revision # mem[q].revision

\* A command that succeeds and was not disturbed by another one leaves exactly what
\* it renders, whatever the commands before it have left undone; except for objects
\* that it could not know of when it started, or knew by a blank only.
SuccessCleansUp ==
    [][\A p \in Processes :
          pc[p] = "finish" /\ alone = p /\ pc'[p] = "done" /\ result'[p] = "ok" =>
              /\ \A k \in Wanted(p) : cluster[k] = p
              /\ \A k \in Keys \ (Wanted(p) \cup leaked) : cluster[k] = Nobody
              /\ IF p \in Deleting THEN ~ release'.exists
                 ELSE /\ release'.state = "Ready"
                      /\ \A k \in Keys :
                            release'.inventory[k] =
                              IF k \in Wanted(p) THEN "kept" ELSE "none"]_vars

\* Two commands do not go on undoing each other's work: every command ends.
CommandsEnd == \A p \in Processes : pc[p] # "start" ~> pc[p] = "done"
=============================================================================
