----------------------------- MODULE ChartValues -----------------------------
(***************************************************************************)
(* internal/helm/chart.go and pkg/manifests/util.go: how the values of a   *)
(* chart, those given by the user and those of a subchart are merged, and  *)
(* whether the subchart is enabled.                                        *)
(*                                                                         *)
(* A value is a leaf or a map; Go also has nil maps, which can be read but *)
(* not written.  Maps are four levels deep: sub.global.g.m.                *)
(***************************************************************************)
EXTENDS Sequences, SequencesExt

Leaf(v) == [kind |-> "leaf", value |-> v]
Map(entries) == [kind |-> "map", value |-> entries]
NilMap == [kind |-> "nil", value |-> <<>>]

\* An error, and what stands for a map that could not be written.
Failure == [kind |-> "failure", value |-> <<>>]
Panic == [kind |-> "panic", value |-> <<>>]

EmptyMap == Map(<<>>)

IsMap(v) == v.kind \in {"map", "nil"}

Has(v, key) == key \in DOMAIN v.value
WithEntry(v, key, w) ==
    Map([k \in DOMAIN v.value \cup {key} |-> IF k = key THEN w ELSE v.value[k]])

-----------------------------------------------------------------------------
(* MergeMaps, level by level *)

\* What becomes of v when w is merged over it: a map gives way to what is not a
\* map, but what is written is the nil map, not w.
MergedEntry(Inner(_, _), v, w) ==
    IF ~ IsMap(v) THEN w ELSE IF IsMap(w) THEN Inner(v, w) ELSE NilMap

MergeMapInto(Inner(_, _), x, y) ==
    IF x.kind = "nil" /\ DOMAIN y.value # {} THEN Panic
    ELSE Map([k \in DOMAIN x.value \cup DOMAIN y.value |->
                IF ~ Has(y, k) THEN x.value[k]
                ELSE IF ~ Has(x, k) THEN y.value[k]
                ELSE MergedEntry(Inner, x.value[k], y.value[k])])

\* Maps of leaves, maps of them, and so on.
Into1(x, y) == MergeMapInto(LAMBDA v, w : w, x, y)
Into2(x, y) == MergeMapInto(Into1, x, y)
Into3(x, y) == MergeMapInto(Into2, x, y)
Into4(x, y) == MergeMapInto(Into3, x, y)

\* A nil map may be passed.
NotNil(x) == IF x.kind = "nil" THEN EmptyMap ELSE x
MergeMaps2(x, y) == Into2(NotNil(x), y)
MergeMaps3(x, y) == Into3(NotNil(x), y)
MergeMaps4(x, y) == Into4(NotNil(x), y)

-----------------------------------------------------------------------------
(* Whether a subchart is enabled *)

\* What is found at a path: nothing, a boolean, or something else.
Found == {"absent", "true", "false", "other"}

Invalid(seq) == \E i \in DOMAIN seq : seq[i] = "other"

\* The variables of the loop over the tags after one that has the value v.
AfterTag(acc, v) ==
    [enabled |-> v \/ (acc.matched /\ acc.enabled), matched |-> TRUE]

\* The same after each number of tags; those without a value do not match.
TagLoop(tags) ==
    LET after[n \in 0 .. Len(tags)] ==
            IF n = 0 THEN [enabled |-> TRUE, matched |-> FALSE]
            ELSE IF tags[n] = "absent" THEN after[n - 1]
            ELSE AfterTag(after[n - 1], tags[n] = "true")
    IN  after

ByTags(tags) == TagLoop(tags)[Len(tags)].enabled

\* The condition path that is found first, or zero.
FirstFound(conditions) == SelectInSeq(conditions, LAMBDA v : v # "absent")

\* The values found for the tags and the condition paths of a dependency decide
\* whether it is "enabled" or "disabled", or end in an "error".
Enablement(tags, conditions) ==
    LET first == FirstFound(conditions)
    IN  CASE Invalid(tags) -> "error"
          [] ~ Invalid(tags) /\ first # 0 ->
                IF conditions[first] = "other" THEN "error"
                ELSE IF conditions[first] = "true" THEN "enabled" ELSE "disabled"
          [] ~ Invalid(tags) /\ first = 0 ->
                IF ByTags(tags) THEN "enabled" ELSE "disabled"

-----------------------------------------------------------------------------
(* The values that a subchart is rendered with *)

\* Mutant of Inherited: what is set for the subchart wins.
InheritedUnder(v, w) == MergeMaps2(v, w)

\* Shared values of the chart are merged over those that are set for the subchart.
Inherited(v, w) == MergeMaps2(w, v)

\* The values as merged for the chart itself.
ValuesOf(chart, user) == MergeMaps4(chart, user)

\* What is set for the subchart; what is no map is ignored.
SetFor(values) ==
    IF Has(values, "sub") /\ values.value["sub"].kind = "map"
    THEN values.value["sub"] ELSE EmptyMap

\* The same with what values has under a key that is shared with subcharts.
Shared(values, dep, key) ==
    LET v == values.value[key]
        w == dep.value[key]
    IN  IF ~ Has(values, key) THEN dep
        ELSE IF ~ IsMap(v) THEN Failure
        ELSE IF ~ Has(dep, key) THEN WithEntry(dep, key, v)
        ELSE IF ~ IsMap(w) THEN Failure
        ELSE WithEntry(dep, key, Inherited(v, w))

\* What a subchart gets from its parent: what is set for it, global values and tags.
DepValues(values) ==
    LET dep == Shared(values, SetFor(values), "global")
    IN  IF dep = Failure THEN Failure ELSE Shared(values, dep, "tags")

SubchartValues(chart, sub, user) ==
    LET dep == DepValues(ValuesOf(chart, user))
    IN  IF dep = Failure THEN Failure ELSE MergeMaps3(sub, dep)

\* The values that the user has given are changed on the way: the shared values are
\* added to the map for the subchart, which is the user's unless the chart has one.
UserAfter(chart, user) ==
    IF Has(user, "sub") /\ ~ Has(chart, "sub")
    THEN WithEntry(user, "sub", DepValues(ValuesOf(chart, user))) ELSE user
=============================================================================
