------------------------- MODULE DependentsProperties -------------------------
(***************************************************************************)
(* What the reconciler of dependent objects promises.                      *)
(***************************************************************************)
EXTENDS Dependents

-----------------------------------------------------------------------------
(* Ownership *)

\* Every object in the cluster that carries our owner id is in the persisted
\* inventory, so that it will be found again after a crash, unless it was
\* orphaned on purpose, or created again after an error had left its item without
\* a phase in the persisted inventory (see NothingRedundant).
OwnedIsTracked ==
    \A k \in Keys :
        Ours(cluster, k) => k \in DOMAIN saved \cup released \cup resurrected

\* No object is created or adopted before its key is in the persisted inventory;
\* this is what Apply returns early for when it has added items.
WriteAhead ==
    [][\A k \in Keys :
          Ours(cluster', k) /\ ~ Ours(cluster, k) => k \in DOMAIN saved]_vars

\* The reconciler requests the deletion of k.
Deletes(k) ==
    /\ cur = k /\ step = "act" /\ step' # "act"
    /\ ~ cluster[k].deleting /\ cluster'[k].deleting

\* A foreign object is never deleted, unless there was no object when the
\* reconciler looked (the case that comments in Apply and Delete concede).
DeletesOnlyOwned ==
    [][\A k \in Keys : Deletes(k) => cluster[k].owner = "me" \/ ~ seen.exists]_vars

-----------------------------------------------------------------------------
(* Order *)

InSync(r, k) == AsRendered(cluster[k], r, k)

\* The running call need not do anything more about k, as far as it could know.
Settled(k) == mem[k].phase = "Completed" \/ InSync(rev, k) \/ k \in spoiled

Creates(k) ==
    /\ pc = "apply" /\ cur = k
    /\ ~ cluster[k].exists /\ Ours(cluster', k)

\* An object is created only once all objects of lower apply order are in sync
\* and ready, or completed, unless others have changed them during the call.
AppliesInOrder ==
    [][\A k \in Keys : Creates(k) =>
          \A j \in Rendered(rev) :
              ApplyOrder(rev, j) < ApplyOrder(rev, k) => Settled(j)]_vars

\* j was ready, as rendered now, when the inventory was saved last.
ReadyBefore(j) ==
    /\ j \in DOMAIN saved
    /\ saved[j].phase = "Ready" /\ saved[j].digest = Digest(rev, j)

\* Within a wave, APIServices come after regular objects, and instances of
\* managed types after both: these are in sync and ready, or completed, or an
\* earlier call has found them so.
InstancesLast ==
    [][\A k \in Keys : Creates(k) =>
          \A j \in Rendered(rev) :
              /\ ApplyOrder(rev, j) = ApplyOrder(rev, k)
              /\ ~ IsRegular(mem, k) /\ ~ Managed(mem, j)
              /\ IsRegular(mem, j) \/ ~ IsLate(k)
              => Settled(j) \/ ReadyBefore(j)]_vars

\* j has to be gone before the deletion of k is requested.
GoesBefore(j, k) ==
    \/ mem[j].deleteOrder < mem[k].deleteOrder
    \/ /\ mem[j].deleteOrder = mem[k].deleteOrder
       /\ Managed(mem, j) /\ ~ Managed(mem, k)
    \/ NamespaceOf[j] = k

\* Deletions follow the delete order; in a wave, instances go before everything
\* else; a namespace goes after what the inventory has in it.  Of a lower wave
\* nothing is left that is ours.
DeletesInOrder ==
    [][\A k \in Keys : pc = "delete" /\ Deletes(k) =>
          \A j \in DOMAIN mem \ (released \cup resurrected) :
              (op = "apply" => mem[j].digest = NoDigest) /\ GoesBefore(j, k)
                  => ~ Ours(cluster, j)]_vars

\* Instances of t that the reconciler cannot know of when it removes the finalizer.
Unnoticed(t) == IF Kind[t] = "APIService" THEN latecomers ELSE {}

\* A type of ours that is being deleted keeps our finalizer as long as there are
\* instances, so it never disappears before them, unless it has lost the finalizer
\* by being orphaned and was not applied since.  Of an APIService, instances may be
\* left that were created after the reconciler has looked for them; of a CRD none.
TypeOutlivesInstances ==
    \A t \in Keys \ unguarded :
        IsType(t) /\ Ours(cluster, t) /\ cluster[t].deleting
            /\ ~ cluster[t].finalizer => Instances(cluster, t) \subseteq Unnoticed(t)

-----------------------------------------------------------------------------
(* Results *)

IsPurged(r, k) == Manifest[r][k].purgeOrder =< maxOrder

Synced(r) ==
    \A k \in Keys :
        IF k \in Rendered(r)
        THEN InSync(r, k) \/ IsPurged(r, k)
        ELSE Ours(cluster, k) => k \in released \cup resurrected

ReturnsDone == pc = "save" /\ op = "apply" /\ result = "done"

\* When Apply returns true, everything that is to be purged is completed, what else
\* is rendered is in sync and ready unless others have changed it during the call,
\* and nothing redundant is left.
DoneMeansSynced ==
    ReturnsDone =>
        \A k \in Keys :
            IF k \in Rendered(rev)
            THEN IF IsPurged(rev, k) THEN mem[k].phase = "Completed" ELSE Settled(k)
            ELSE Ours(cluster, k) => k \in released \cup resurrected

\* When Apply returns true, no object of ours is left that is neither rendered nor
\* orphaned: "redundant objects will be removed" (doc of Apply).
NothingRedundant ==
    ReturnsDone =>
        \A k \in Keys \ Rendered(rev) : Ours(cluster, k) => k \in released

\* When Apply returns true, purged objects are gone (doc of Apply), unless they
\* were created again while the persisted inventory had them as completed.
PurgedIsGone ==
    ReturnsDone =>
        \A k \in Rendered(rev) :
            IsPurged(rev, k) /\ Ours(cluster, k) => k \in revived

\* An object whose deletion was requested, and saved as requested, is never
\* found alive and ours: "that is really strange and should actually not happen".
NeverAlreadyDeleted ==
    ~ /\ pc = "delete" /\ step = "act" /\ mem[cur].phase = "Deleting"
      /\ seen.exists /\ ~ seen.deleting /\ seen.owner = "me"

\* Once changes and disturbances have ended, the cluster gets into the state the
\* manifest asks for, and stays in it.
Converges == <>[](component = "live" => Synced(manifest))

\* A deleted component eventually goes away, and with it everything it owns.
DeletionCompletes ==
    component = "deleting" ~>
        component = "gone" /\ \A k \in Keys \ released : ~ Ours(cluster, k)
-----------------------------------------------------------------------------
(* The inductive invariant behind the ownership properties *)

InStage == pc \in {"complete", "apply", "delete"}

\* What the call is working on is in its inventory, and what it has read is
\* still the truth in two respects: if the resource version is, everything is;
\* and an object that was not ours has not become ours.
CursorInv ==
    /\ step = "read" <=> cur = NoKey
    /\ step # "read" => InStage /\ cur \in todo
    /\ step # "read" /\ pc # "complete" => wave # NoWave
    /\ InStage => todo \subseteq DOMAIN mem
    /\ pc = "apply" => todo \subseteq Rendered(rev)
    /\ pc \in {"namespaces", "complete", "apply"} => Rendered(rev) \subseteq DOMAIN mem
    /\ step = "act" /\ fresh => seen = cluster[cur]
    /\ step = "act" /\ ~ (seen.exists /\ seen.owner = "me") => ~ Ours(cluster, cur)

\* While the cluster is written, the persisted inventory covers the one in
\* memory; an item without a phase was loaded that way, until deletions begin.
PersistedInv ==
    /\ pc \in {"namespaces", "complete", "apply", "delete"} =>
          DOMAIN mem \subseteq DOMAIN saved
    /\ pc \in {"namespaces", "complete", "apply"} =>
          \A k \in DOMAIN mem : mem[k].phase = "" => saved[k].phase = ""

\* inv accounts for an object of ours: it has an item that will not be dropped.
Covers(inv, k) == k \in DOMAIN inv /\ inv[k].phase # ""

TrackedInv ==
    \A k \in Keys \ (released \cup resurrected) :
        Ours(cluster, k) => Covers(saved, k) /\ Covers(mem, k)

IndInv == StateTypeOK /\ CursorInv /\ PersistedInv /\ TrackedInv

\* A type of ours without the finalizer goes away, and so does one whose finalizer is
\* about to be removed; there are no instances that could have been noticed.
TypesInv ==
    /\ unguarded \subseteq Keys /\ latecomers \subseteq Keys
    /\ \A t \in Keys \ unguarded :
          IsType(t) /\ Ours(cluster, t) /\ ~ cluster[t].finalizer =>
              cluster[t].deleting /\ Instances(cluster, t) \subseteq Unnoticed(t)
    /\ step \in {"finalize", "release"} /\ Ours(cluster, cur) => cluster[cur].deleting
    /\ step = "release" /\ fresh /\ Ours(cluster, cur) =>
          Instances(cluster, cur) \subseteq Unnoticed(cur)
    /\ pc = "namespaces" => \A n \in todo : IsNamespace(n)

-----------------------------------------------------------------------------
(* The inductive invariant behind the order and the results of a call *)

\* The phases of items that are not rendered any more.
ObsoletePhases == {"", "ScheduledForDeletion", "Deleting"}

PhasesTell(inv) ==
    \A k \in DOMAIN inv : inv[k].digest = NoDigest <=> inv[k].phase \in ObsoletePhases

\* The call of Apply goes on behind the preparation of the inventory.
Applying == op = "apply" /\ pc \in {"namespaces", "complete", "apply", "delete"}

\* The inventory tells what the manifest renders.
Matches(inv, r) ==
    /\ Rendered(r) \subseteq DOMAIN inv
    /\ \A k \in DOMAIN inv :
          inv[k].digest = IF k \in Rendered(r) THEN Digest(r, k) ELSE NoDigest

\* Apply tells by the phase what is redundant.  (Delete does not care.)
PhaseInv ==
    /\ IF op = "apply" THEN PhasesTell(saved) /\ PhasesTell(mem) ELSE component # "live"
    /\ pc \in {"namespaces", "complete", "apply"} => op = "apply"
    /\ Applying \/ ReturnsDone => Matches(mem, rev)
    /\ pc = "complete" => \A k \in todo : mem[k].phase \notin ObsoletePhases
    /\ \A k \in DOMAIN mem :
          /\ pc \in {"namespaces", "complete"} \/ (pc = "apply" /\ k \in todo)
          /\ mem[k].phase = "Ready"
          => ReadyBefore(k)

\* Only objects of ours have a digest.
DigestInv ==
    \A object \in {cluster[k] : k \in Keys} \cup {seen} :
        object.exists /\ object.digest # NoDigest => object.owner = "me"

NotCompleted(inv, k) == k \in DOMAIN inv => inv[k].phase # "Completed"

\* There is no object of ours that is completed, unless it was created again.
RevivedInv ==
    /\ revived \subseteq Keys
    /\ \A k \in Keys \ revived :
          Ours(cluster, k) => NotCompleted(saved, k) /\ NotCompleted(mem, k)

\* What has been handled is of lower apply order than what has not, up to the wave.
ApplyOrderInv ==
    /\ IF wave = NoWave
       THEN \A j \in Rendered(rev) \ todo, k \in todo :
               ApplyOrder(rev, j) < ApplyOrder(rev, k)
       ELSE /\ \A j \in Rendered(rev) \ todo : ApplyOrder(rev, j) =< wave
            /\ \A k \in todo : wave =< ApplyOrder(rev, k)
    /\ step # "read" => ApplyOrder(rev, cur) = wave /\ ~ Skipped(cur)

\* A class of objects that does not block the rest of the wave was ready before it.
BlockersInv ==
    wave # NoWave =>
        \A j \in Rendered(rev) :
            /\ ApplyOrder(rev, j) = wave
            /\ \/ IsRegular(mem, j) /\ "regular" \notin blockers
               \/ IsLate(j) /\ "late" \notin blockers
            => mem[j].phase = "Completed" \/ ReadyBefore(j)

Purged(r) == \A k \in Rendered(r) : IsPurged(r, k) => mem[k].phase = "Completed"

\* Whatever has been handled needs nothing any more, or the wave is the last one.
ApplyInv ==
    pc = "apply" =>
        /\ ApplyOrderInv
        /\ BlockersInv
        /\ \A j \in Rendered(rev) \ todo :
              \/ Settled(j)
              \/ waiting /\ wave # NoWave /\ ApplyOrder(rev, j) = wave
        /\ wave = NoWave /\ todo = {} => Purged(rev)
        /\ step = "act" /\ AsRendered(seen, rev, cur) => InSync(rev, cur) \/ cur \in spoiled

\* j is to be deleted by the running call, and is still there.
Remains(j) ==
    /\ op = "apply" => mem[j].digest = NoDigest
    /\ Ours(cluster, j)

\* Whatever has been handled is gone, or of the current wave, which is the last one.
DeleteInv ==
    pc = "delete" =>
        /\ op = "apply" =>
              /\ \A k \in todo : mem[k].digest = NoDigest
              /\ Purged(rev) /\ \A k \in Rendered(rev) : Settled(k)
        /\ wave # NoWave => \A k \in todo : wave =< mem[k].deleteOrder
        /\ step # "read" => mem[cur].deleteOrder = wave
        /\ \A j \in DOMAIN mem \ (released \cup resurrected) :
              Remains(j) =>
                  /\ j \in todo \/ (waiting /\ wave # NoWave /\ mem[j].deleteOrder = wave)
                  /\ wave # NoWave /\ blockers = {} /\ mem[j].deleteOrder = wave =>
                        ~ Managed(mem, j)

CallInv ==
    /\ spoiled \subseteq Keys
    /\ pc \in {"idle", "save"} => wave = NoWave
    /\ PhaseInv /\ DigestInv /\ RevivedInv /\ ApplyInv /\ DeleteInv /\ DoneMeansSynced
=============================================================================
