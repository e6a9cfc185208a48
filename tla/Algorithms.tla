------------------------------ MODULE Algorithms ------------------------------
(***************************************************************************)
(* The pure algorithms of the system, each used once per behaviour on an   *)
(* input from a small set: the hooks of two objects of a chart are turned  *)
(* into annotations, a chart with a subchart gets its values, the status   *)
(* of an object is analyzed, an object is updated by server-side apply,    *)
(* the references of a component are resolved.                             *)
(***************************************************************************)
EXTENDS HelmHooks, Sequences

Chart == INSTANCE ChartValues
Status == INSTANCE StatusAnalysis
Fields == INSTANCE ManagedFields
Refs == INSTANCE References

CONSTANTS
    Generations,   \* of the objects whose status is analyzed
    HookInputs,    \* [first, second : ChartObjects, isInstall : BOOLEAN]
    ValueInputs,   \* [key, g, x]: the shared key, who sets which value below it, and x
    TagInputs,     \* [tags, conditions]: what is found for those of a dependency
    StatusInputs,  \* [object, hints, extra]
    UpdateInputs,  \* [entries, desired, conflicting, override]
    Entries,       \* of the maps at the paths g and x
    ReferenceInputs \* [refs, deleting, first, second]: objects as found by two calls

\* Who sets a value, from the least to the most specific; the last two are shared.
SharedSources == <<"sub", "chart.sub", "user.sub", "chart", "user">>
OwnSources == <<"sub", "chart.sub", "user.sub">>

\* What a source sets below a path: some entries of a map, or none, or a leaf at the
\* path itself.
AtPath == ""
LeafShape == {AtPath}
Shapes == {LeafShape} \cup SUBSET Entries

ASSUME InputsAssumption ==
    /\ HookInputs \subseteq [first : ChartObjects, second : ChartObjects,
                            isInstall : BOOLEAN]
    /\ AtPath \notin Entries
    /\ \A i \in ValueInputs :
          /\ i.key \in {"global", "tags"}
          /\ \A s \in DOMAIN SharedSources : i.g[SharedSources[s]] \in Shapes
          /\ \A s \in DOMAIN OwnSources : i.x[OwnSources[s]] \in Shapes
    /\ Generations \subseteq Nat
    /\ \A i \in StatusInputs :
          Status!IsObject(i.object, Generations) /\ i.hints \subseteq Status!Hints
    /\ TagInputs \subseteq [tags : Seq(Chart!Found), conditions : Seq(Chart!Found)]
    /\ \A i \in UpdateInputs : Fields!IsList(i.entries)
    /\ \A i \in ReferenceInputs :
          /\ i.deleting \in BOOLEAN
          /\ \A r \in DOMAIN i.refs :
                /\ {i.first[r].found, i.second[r].found} \subseteq Refs!Findings
                /\ i.refs[r].fallbackKeys \in Seq(STRING)

VARIABLES
    asked,   \* which algorithm is used
    input,
    result   \* what it has returned: a sequence of one, or nothing yet

vars == <<asked, input, result>>

Init ==
    /\ \/ asked = "hooks" /\ input \in HookInputs
       \/ asked = "values" /\ input \in ValueInputs
       \/ asked = "tags" /\ input \in TagInputs
       \/ asked = "status" /\ input \in StatusInputs
       \/ asked = "update" /\ input \in UpdateInputs
       \/ asked = "references" /\ input \in ReferenceInputs
    /\ result = <<>>

Answer(algorithm, answer) ==
    /\ asked = algorithm /\ result = <<>>
    /\ result' = <<answer>>
    /\ UNCHANGED <<asked, input>>

AnnotateHooks ==
    Answer("hooks", [first |-> Annotations(input.first, input.isInstall),
                     second |-> Annotations(input.second, input.isInstall)])

-----------------------------------------------------------------------------
(* Values: a path global.g, or tags.g, below the maps of the chart and for   *)
(* the subchart, and a path x of the subchart only.                          *)

Nothing == [kind |-> "nothing", value |-> <<>>]

\* A value that tells its source.
ValueOf(source, shape) ==
    IF shape = {} THEN Nothing
    ELSE IF shape = LeafShape THEN Chart!Leaf(source)
    ELSE Chart!Map([k \in shape |-> Chart!Leaf(source)])

\* A map with the entries that are there.
Built(entries) ==
    LET there == {k \in DOMAIN entries : entries[k] # Nothing}
    IN  IF there = {} THEN Nothing ELSE Chart!Map([k \in there |-> entries[k]])

OrEmpty(v) == IF v = Nothing THEN Chart!EmptyMap ELSE v

SharedOf(source) ==
    Built([k \in {"g"} |-> ValueOf(source, input.g[source])])

SubOf(source) ==
    Built([k \in {"x", input.key} |->
              IF k = "x" THEN ValueOf(source, input.x[source]) ELSE SharedOf(source)])

SubDefaults == OrEmpty(SubOf("sub"))
ChartDefaults ==
    OrEmpty(Built([k \in {"sub", input.key} |->
                      IF k = "sub" THEN SubOf("chart.sub") ELSE SharedOf("chart")]))
UserValues ==
    OrEmpty(Built([k \in {"sub", input.key} |->
                      IF k = "sub" THEN SubOf("user.sub") ELSE SharedOf("user")]))

RenderChart ==
    Answer("values",
           [values |-> Chart!SubchartValues(ChartDefaults, SubDefaults, UserValues),
            again |-> Chart!SubchartValues(ChartDefaults, SubDefaults,
                                           Chart!UserAfter(ChartDefaults, UserValues))])

EnableSubchart == Answer("tags", Chart!Enablement(input.tags, input.conditions))

AnalyzeStatus ==
    Answer("status", Status!ComputeStatus(input.object, input.hints, input.extra))

\* The preparation is carried out, and later, after a failure, the whole update.
UpdateObject ==
    LET present == Fields!AllFields(input.entries, DOMAIN input.entries)
        prepared == Fields!Prepared(input.entries, input.override)
    IN  Answer("update",
               [present |-> Fields!Updated(present, input.entries, input.desired,
                                           input.override),
                retried |-> Fields!Updated(present, prepared, input.desired,
                                           input.override),
                entries |-> Fields!AppliedEntries(prepared, input.desired,
                                                  input.conflicting)])

\* Two calls of Reconcile, in any of which the objects may change between the requests
\* for the first and the second reference.
ResolveReferences ==
    Answer("references",
           [first |-> Refs!ResolveReferences(input.refs, input.first, input.deleting),
            second |-> Refs!ResolveReferences(input.refs, input.second, input.deleting)])

Next ==
    \/ AnnotateHooks \/ RenderChart \/ EnableSubchart
    \/ AnalyzeStatus \/ UpdateObject \/ ResolveReferences

Spec == Init /\ [][Next]_vars

-----------------------------------------------------------------------------
(* Properties *)

Answered(algorithm) == asked = algorithm /\ result # <<>>

\* Hooks run in the phases and in the order of weights that the chart asks for,
\* expressed as orders: see Ordered, PurgedInTime and StaysRendered.
HooksInOrder ==
    asked = "hooks" =>
        /\ Valid(input.first, input.isInstall) /\ Valid(input.second, input.isInstall) =>
              /\ Ordered(input.first, input.second, input.isInstall)
              /\ PurgedInTime(input.first, input.second, input.isInstall)
        /\ StaysRendered(input.first)

\* No source sets a leaf over a map of a less specific one.
NoLeafOverMap(shapes, sources) ==
    \A i, j \in DOMAIN sources :
        i < j /\ shapes[sources[j]] = LeafShape => shapes[sources[i]] \subseteq LeafShape

\* What is expected at a path: a leaf of the most specific source, or a map with the
\* entries of all sources, each from the most specific one that has it.
Expected(shapes, sources) ==
    LET setting == UNION {shapes[sources[i]] : i \in DOMAIN sources}
        last(k) == CHOOSE i \in DOMAIN sources :
                      /\ k \in shapes[sources[i]]
                      /\ \A j \in DOMAIN sources : k \in shapes[sources[j]] => j =< i
    IN  IF setting = {} THEN Nothing
        ELSE IF setting = LeafShape THEN Chart!Leaf(sources[last(AtPath)])
        ELSE Chart!Map([k \in setting \ LeafShape |-> Chart!Leaf(sources[last(k)])])

At(v, key) == IF v # Nothing /\ Chart!Has(v, key) THEN v.value[key] ELSE Nothing

\* Whether a subchart is enabled: the first condition with a value decides, whatever
\* follows, or else any tag that is true, provided there is one with a value at all.
EnabledAsAsked ==
    Answered("tags") /\ result[1] # "error" =>
        /\ \A i \in DOMAIN input.conditions :
              /\ input.conditions[i] # "absent"
              /\ \A j \in DOMAIN input.conditions : j < i => input.conditions[j] = "absent"
              => (result[1] = "enabled" <=> input.conditions[i] = "true")
        /\ (\A i \in DOMAIN input.conditions : input.conditions[i] = "absent") =>
              (result[1] = "disabled" <=>
                  /\ \E i \in DOMAIN input.tags : input.tags[i] # "absent"
                  /\ \A i \in DOMAIN input.tags : input.tags[i] # "true")

\* A subchart is enabled as asked, and sees the value of the most specific source at
\* every path, with global values and tags of its parent above all others; and it sees the
\* same when it is rendered again, although the values given by the user are changed in
\* between.
SubchartSees ==
    /\ Answered("values") /\ NoLeafOverMap(input.g, SharedSources)
          /\ NoLeafOverMap(input.x, OwnSources) =>
          /\ At(At(result[1].values, input.key), "g") = Expected(input.g, SharedSources)
          /\ At(result[1].values, "x") = Expected(input.x, OwnSources)
          /\ result[1].again = result[1].values
    /\ EnabledAsAsked

\* An object is called Current only if it says so itself, up to date, with all that is
\* known or hinted about its kind; hints never make it Current.
CurrentDeserved ==
    Answered("status") /\ result[1] = "Current" =>
        Status!Deserved(input.object, input.hints, input.extra)

\* An update by server-side apply leaves the fields that are desired or managed by
\* others, and none that were reclaimed; a failure after the preparation changes
\* nothing of this, and the next update finds nothing to prepare.
FieldsReclaimed ==
    Answered("update") =>
        LET expected == input.desired \cup
                Fields!AllFields(input.entries, Fields!Foreign(input.entries, input.override))
        IN  /\ result[1].present = expected /\ result[1].retried = expected
            /\ Fields!Prepared(result[1].entries, input.override) = result[1].entries
            /\ Fields!Updated(expected, result[1].entries, input.desired, input.override) = expected

\* What a reference is about: the whole object, or what is under the first of the keys
\* that is there.
Content(ref, object) ==
    LET tried == IF ref.key # Refs!NoKey THEN <<ref.key>> ELSE ref.fallbackKeys
        isFirst(n) == /\ tried[n] \in DOMAIN object.data
                      /\ \A m \in DOMAIN tried : m < n => tried[m] \notin DOMAIN object.data
    IN  IF object.found # "object" THEN {}
        ELSE IF ref.whole THEN {object.data}
        ELSE {object.data[tried[n]] : n \in {n \in DOMAIN tried : isFirst(n)}}

\* Whatever has been changed between the requests of two calls, the digest of the
\* component is another one if and only if what is referenced is, and not because of
\* other keys of the same objects; generators and hooks get what is referenced; unless
\* the component is being deleted, they get all of it; and objects that are gone hinder
\* a deletion only if a reference is not to be ignored then.
ReferencesTold ==
    Answered("references") =>
        LET calls == {<<result[1].first, input.first>>, <<result[1].second, input.second>>}
        IN  /\ result[1].first.error = "none" /\ result[1].second.error = "none" =>
                  (result[1].first.digest = result[1].second.digest
                     <=> \A i \in DOMAIN input.refs :
                            Content(input.refs[i], input.first[i])
                              = Content(input.refs[i], input.second[i]))
            /\ \A call \in calls :
                  /\ call[1].error = "none" =>
                        \A i \in DOMAIN input.refs :
                           call[1].values[i] # Refs!Panic =>
                              Content(input.refs[i], call[2][i]) = {call[1].values[i][1]}
                  /\ call[1].error = "none" /\ ~ input.deleting =>
                        \A i \in DOMAIN input.refs : call[1].values[i] # Refs!Panic
                  /\ (\A i \in DOMAIN input.refs : call[2][i] = Refs!NotFound) =>
                        (call[1].error = "none" <=>
                           \A i \in DOMAIN input.refs :
                              input.deleting /\ input.refs[i].ignoreOnDeletion)
=============================================================================
