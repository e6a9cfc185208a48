----------------------------- MODULE MCDependents -----------------------------
(***************************************************************************)
(* Small instances of Dependents for TLC: objects, types and manifests.    *)
(***************************************************************************)
EXTENDS DependentsRefinement

Nowhere == [k \in Keys |-> NoKey]
AllOther == [k \in Keys |-> "Other"]
NoKeys == {}
XY == {"x", "y"}
TwoRevisions == {"r1", "r2"}
ThreeRevisions == {"r1", "r2", "r3"}

Plain == [content |-> "x", adoption |-> "IfUnowned",
          reconcile |-> "OnObjectChange", update |-> "Replace",
          delete |-> "Delete",
          applyOrder |-> 0, purgeOrder |-> maxOrder + 1, deleteOrder |-> 0]

\* Churn: an object that comes and goes, and one that changes.
ChurnKeys == {"a", "b"}
ChurnManifest ==
    [r1 |-> [a |-> Plain, b |-> Plain],
     r2 |-> [b |-> [Plain EXCEPT !.content = "y"]],
     r3 |-> [a |-> [Plain EXCEPT !.delete = "Orphan"]]]

\* Objects that are removed together and come back.
ReturnManifest == [r1 |-> [a |-> Plain, b |-> Plain], r2 |-> <<>>]

\* Hooks: a job that runs before the application and is purged after it, and one
\* behind the application that is recreated whenever the component changes.
HooksKeys == {"pre", "app", "post"}
HooksManifest ==
    LET Hooks(content) ==
            [pre  |-> [Plain EXCEPT !.content = content, !.applyOrder = -1,
                                    !.purgeOrder = 0],
             app  |-> [Plain EXCEPT !.content = content, !.deleteOrder = 1],
             post |-> [Plain EXCEPT !.applyOrder = 1, !.update = "Recreate",
                                    !.reconcile = "OnObjectOrComponentChange"]]
    IN  [r1 |-> Hooks("x"), r2 |-> Hooks("y")]

\* Types: a type with an instance, the operator that serves it, and an APIService,
\* which comes late, and of which others may create an instance; the types and the
\* instance are removed.
TypesKeys == {"crd", "cr", "op", "api", "ar"}
TypesKind == [k \in Keys |-> CASE k = "crd" -> "CRD"
                               [] k = "api" -> "APIService"
                               [] OTHER -> "Other"]
TypesTypeOf == [k \in Keys |-> CASE k = "cr" -> "crd"
                                 [] k = "ar" -> "api"
                                 [] OTHER -> NoKey]
TypesManifest ==
    LET api == [Plain EXCEPT !.delete = "OrphanOnDelete"]
    IN  [r1 |-> [crd |-> Plain, cr |-> Plain, op |-> Plain, api |-> api],
         r2 |-> [op |-> [Plain EXCEPT !.content = "y"]]]

\* Instances: a type with its instance, going away together.
InstanceKeys == {"crd", "cr"}
InstanceManifest == [r1 |-> [crd |-> Plain, cr |-> Plain], r2 |-> <<>>]

\* Spaces: a namespace that may exist already, with its content, and content of a
\* namespace that is not rendered.
SpacesKeys == {"ns", "in", "missing", "out"}
SpacesKind == [ns |-> "Namespace", in |-> "Config", missing |-> "Namespace",
               out |-> "Other"]
SpacesNamespaceOf == [ns |-> NoKey, in |-> "ns", missing |-> NoKey,
                      out |-> "missing"]
SpacesPreexisting == {"ns"}
SpacesManifest ==
    [r1 |-> [ns |-> Plain, in |-> Plain, out |-> Plain],
     r2 |-> [out |-> [Plain EXCEPT !.content = "y"]]]
=============================================================================
