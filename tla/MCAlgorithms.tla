----------------------------- MODULE MCAlgorithms -----------------------------
(***************************************************************************)
(* Small sets of inputs for Algorithms, for TLC.                           *)
(***************************************************************************)
EXTENDS Algorithms, Sequences

\* Hooks: all sets of types that matter, the ends and the middle of the weights.
SomeObjects ==
    [types : SUBSET PhaseTypes \cup {{"test"}, {"test", "pre-install"}, {"pre-delete"}},
     weight : {HookMinWeight, 0, HookMaxWeight},
     deletePolicies : {{"before-hook-creation"}, {"hook-succeeded"}}, keep : {FALSE}]
SomeHooks == [first : SomeObjects, second : SomeObjects, isInstall : BOOLEAN]

\* Values: every source sets a leaf or a map, or nothing.
TwoEntries == {"m", "n"}
SomeValues ==
    [key : {"global", "tags"},
     g : [{"sub", "chart.sub", "user.sub", "chart", "user"} -> Shapes],
     x : [{"sub", "chart.sub", "user.sub"} -> {{}, LeafShape, {"m"}}]]

\* Up to three tags and two conditions.
UpTo(n) == UNION {[1 .. m -> Chart!Found] : m \in 0 .. n}
SomeTags == [tags : UpTo(3), conditions : UpTo(2)]

TwoGenerations == {1, 2}
\* Status: generations before and after a change, the conditions that matter by kind.
ConditionsOf(kind) ==
    CASE kind = "Custom" -> {"Ready", "Extra"}
      [] kind = "CustomResourceDefinition" -> {"Established", "NamesAccepted"}
      [] kind = "APIService" -> {"Ready", "Available"}
      [] kind = "Job" -> {"Complete", "Failed"}
SomeStatusObjects ==
    UNION {[kind : {kind}, generation : {2}, observed : TwoGenerations \cup {Status!Untold},
            conditions : UNION {[S -> Status!Conditions(TwoGenerations)] :
                                S \in SUBSET ConditionsOf(kind)},
            verdict : {"Current", "InProgress"}] : kind \in Status!Kinds}
SomeStatus ==
    [object : SomeStatusObjects, hints : SUBSET Status!Hints, extra : {{}, {"Extra"}}]

\* Managed fields: two fields, and who may manage them; nobody has two entries of the
\* same kind, and the reconciler applies no subresources.
Managers ==
    <<[manager |-> Fields!Us, operation |-> "Update", subresource |-> ""],
      [manager |-> Fields!Us, operation |-> "Update", subresource |-> "status"],
      [manager |-> "kubectl", operation |-> "Update", subresource |-> ""],
      [manager |-> "kubectl-edit", operation |-> "Apply", subresource |-> ""],
      [manager |-> "controller", operation |-> "Update", subresource |-> ""],
      [manager |-> Fields!Us, operation |-> "Apply", subresource |-> ""]>>
TwoFields == {"f", "g"}
EntriesOf(managed) ==
    LET all == [i \in 1 .. 6 |->
                  [manager |-> Managers[i].manager, operation |-> Managers[i].operation,
                   subresource |-> Managers[i].subresource, fields |-> managed[i]]]
    IN  SelectSeq(all, LAMBDA entry : entry.fields # {})
SomeUpdates ==
    [entries : {EntriesOf(managed) : managed \in [1 .. 6 -> SUBSET TwoFields]},
     desired : {{"f"}, {"f", "g"}}, conflicting : {{}, {"f"}, {"f", "g"}},
     override : BOOLEAN]

\* References: whole objects, single keys and fallback keys; the objects are there, or
\* not, or not to be had, with one key or two.
SomeReferences ==
    {r \in Refs!References({"k"}, {<<>>, <<"l", "k">>}) :
        /\ r.whole => r.key = Refs!NoKey
        /\ r.fallbackKeys = <<>> <=> r.whole \/ r.key # Refs!NoKey}
Found2 == {Refs!NotFound, Refs!Unavailable} \cup
    {Refs!Object(data) : data \in [{"k"} -> {1, 2}] \cup [{"l"} -> {1, 2}] \cup
                                  [{"k", "l"} -> {1, 2}]}
SomeResolutions ==
    [refs : SomeReferences \X SomeReferences, deleting : BOOLEAN,
     first : Found2 \X Found2, second : Found2 \X {Refs!NotFound, Refs!Object([k \in {"k"} |-> 1])}]
=============================================================================
