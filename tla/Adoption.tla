------------------------------- MODULE Adoption -------------------------------
(***************************************************************************)
(* Whose objects the reconciler takes over.  Apply checks the owner of an  *)
(* existing object when its key is new to the inventory, and never again:  *)
(* the object is written in a later call, after the inventory was saved.   *)
(* A history variable tells for which keys the answer of that check was    *)
(* overtaken: by others, who created the object or took it away, or by a   *)
(* change of the component, which asks for another policy.                 *)
(***************************************************************************)
EXTENDS DependentsProperties

VARIABLE contested   \* keys in an inventory that others made unacceptable

adoptionVars == <<vars, contested>>

\* The keys that the owner check is not made for any more.
Listed == DOMAIN saved \cup DOMAIN mem

\* The policies of the component, and of the running call, allow the object of k.
Acceptable(k) ==
    cluster[k].exists =>
        \A r \in {manifest, rev} :
            k \in Rendered(r) => Adoptable(Manifest[r][k].adoption, cluster[k].owner)

AdoptionInit == Init /\ contested = {}

\* The reconciler contests nothing; what leaves the inventories will be checked again.
Undisputed ==
    /\ Reconcile \/ Crash
    /\ contested' = contested \cap Listed'

Disputed ==
    /\ Environment
    /\ contested' = {k \in Listed' : k \in contested \/ ~ Acceptable(k)'}

AdoptionNext == Undisputed \/ Disputed

AdoptionSpec == AdoptionInit /\ [][AdoptionNext]_adoptionVars

-----------------------------------------------------------------------------
(* Properties *)

\* The reconciler takes over an existing object of another owner only as the adoption
\* policy of the running call allows, or if it was made unacceptable by others after its
\* key had been accepted into the inventory (the doc of Apply promises the former).
AdoptionRespected ==
    [][\A k \in Keys :
          cluster[k].exists /\ ~ Ours(cluster, k) /\ Ours(cluster', k) =>
              \/ Adoptable(Manifest[rev][k].adoption, cluster[k].owner)
              \/ k \in contested]_adoptionVars

\* The inductive invariant: what is listed and not contested is acceptable, and no
\* namespace that Apply is about to create, without an owner, is listed.
AdoptionInv ==
    /\ contested \subseteq Listed
    /\ \A k \in Listed \ contested : Acceptable(k)
    /\ pc = "namespaces" => todo \cap Listed = {}
=============================================================================
