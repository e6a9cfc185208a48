------------------------------ MODULE HelmHooks ------------------------------
(***************************************************************************)
(* pkg/manifests/helm/generator.go: how the hooks of a chart are expressed *)
(* by the policies and orders of the reconciler of dependent objects.      *)
(* The first revision of a component is an install, the others upgrades.   *)
(***************************************************************************)
EXTENDS Integers

HookMinWeight == -100
HookMaxWeight == 100
Weights == HookMinWeight .. HookMaxWeight

PhaseTypes == {"pre-install", "post-install", "pre-upgrade", "post-upgrade"}
IgnoredTypes == {"pre-rollback", "post-rollback", "test", "test-success"}
HookTypes == PhaseTypes \cup IgnoredTypes \cup {"pre-delete", "post-delete"}
DeletePolicies == {"before-hook-creation", "hook-succeeded", "hook-failed"}

\* The metadata of an object of a chart; no hook has got no types.
ChartObjects == [types : SUBSET HookTypes, weight : Weights,
                 deletePolicies : SUBSET DeletePolicies, keep : BOOLEAN]

IsHook(o) == o.types # {}

\* The orders that the reconciler accepts, and its purge order if none is given.
minOrder == -32768
maxOrder == 32767
Unset == maxOrder + 1

ReconcilePolicies == {"OnObjectChange", "OnObjectOrComponentChange", "Once"}
Metadata == [reconcile : ReconcilePolicies, update : {"Default", "Recreate"},
             delete : {"Default", "Orphan"}, applyOrder : Int, purgeOrder : Int]

Plain == [reconcile |-> "OnObjectChange", update |-> "Default", delete |-> "Default",
          applyOrder |-> 0, purgeOrder |-> Unset]

-----------------------------------------------------------------------------
Unsupported(o) ==
    \/ o.types \cap {"pre-delete", "post-delete"} # {}
    \/ o.types \ IgnoredTypes # {} /\ "hook-failed" \in o.deletePolicies

Phases(o) == o.types \cap PhaseTypes

\* Mutant of PreOrder: the range of the weights is not left below.
PreOrderHigh(weight) == weight - HookMaxWeight

PreOrder(weight) == weight - HookMaxWeight - 1
PostOrder(weight) == weight - HookMinWeight + 1
LatePurge == HookMaxWeight - HookMinWeight + 1

\* The annotations as changed for an object with hooks pre and post of an operation:
\* it is applied early if there is one before, and deleted late if there is one after.
Scheduled(a, o, pre, post, policy) ==
    LET succeeded == "hook-succeeded" \in o.deletePolicies
    IN  CASE pre \in o.types ->
                [a EXCEPT !.reconcile = policy, !.applyOrder = PreOrder(o.weight),
                          !.purgeOrder = IF ~ succeeded THEN @
                                         ELSE IF post \in o.types THEN LatePurge ELSE -1]
          [] pre \notin o.types /\ post \in o.types ->
                [a EXCEPT !.reconcile = policy, !.applyOrder = PostOrder(o.weight),
                          !.purgeOrder = IF ~ succeeded THEN @ ELSE LatePurge]
          [] OTHER -> a

Kept(o) == [Plain EXCEPT !.delete = IF o.keep THEN "Orphan" ELSE @]

Recreated(a, o) ==
    [a EXCEPT !.update = IF "before-hook-creation" \in o.deletePolicies
                         THEN "Recreate" ELSE @]

AtInstall(o) ==
    Scheduled(Recreated(Kept(o), o), o, "pre-install", "post-install", "Once")

\* At an upgrade, what is set for an install is kept or overridden.
Annotations(o, isInstall) ==
    CASE ~ IsHook(o) -> Kept(o)
      [] IsHook(o) /\ isInstall -> AtInstall(o)
      [] IsHook(o) /\ ~ isInstall ->
            Scheduled(AtInstall(o), o, "pre-upgrade", "post-upgrade",
                      "OnObjectOrComponentChange")

InstallTypes == {"pre-install", "post-install"}

\* Whether an object is rendered.
Rendered(o, isInstall) ==
    IsHook(o) =>
        /\ Phases(o) # {}
        /\ isInstall => o.types \cap InstallTypes # {}

-----------------------------------------------------------------------------
(* What is expected of the orders *)

\* The phases in which a hook is to be run by the operation.
RunsBefore(o, isInstall) ==
    (IF isInstall THEN "pre-install" ELSE "pre-upgrade") \in o.types
RunsAfter(o, isInstall) ==
    /\ ~ RunsBefore(o, isInstall)
    /\ (IF isInstall THEN "post-install" ELSE "post-upgrade") \in o.types

Valid(o, isInstall) == ~ Unsupported(o) /\ Rendered(o, isInstall)

\* Of two objects of a chart, the hooks that are to be run before come before all that
\* are no hooks, and those after come after them; hooks of the same phase come in the
\* order of their weights.
Ordered(o, p, isInstall) ==
    LET order(q) == Annotations(q, isInstall).applyOrder
    IN  /\ RunsBefore(o, isInstall) /\ (~ IsHook(p) \/ RunsAfter(p, isInstall)) =>
              order(o) < order(p)
        /\ RunsAfter(o, isInstall) /\ ~ IsHook(p) => order(p) < order(o)
        /\ \/ RunsBefore(o, isInstall) /\ RunsBefore(p, isInstall)
           \/ RunsAfter(o, isInstall) /\ RunsAfter(p, isInstall)
           => (o.weight < p.weight <=> order(o) < order(p))

\* A hook is not deleted before it is run; one that is run before and after is not
\* deleted before anything is applied; and the orders are what the reconciler accepts.
PurgedInTime(o, p, isInstall) ==
    LET a == Annotations(o, isInstall)
        both == IF isInstall THEN {"pre-install", "post-install"}
                ELSE {"pre-upgrade", "post-upgrade"}
    IN  /\ a.applyOrder =< a.purgeOrder
        /\ both \subseteq o.types => Annotations(p, isInstall).applyOrder =< a.purgeOrder
        /\ a.applyOrder \in minOrder .. maxOrder
        /\ a.purgeOrder \in minOrder .. Unset

\* What an install has rendered is not redundant for an upgrade; what is not run by
\* the upgrade is not run once more.
StaysRendered(o) ==
    Valid(o, TRUE) =>
        /\ Valid(o, FALSE)
        /\ IsHook(o) /\ o.types \subseteq InstallTypes =>
              Annotations(o, FALSE) = Annotations(o, TRUE)
=============================================================================
