---------------------------- MODULE StatusAnalysis ----------------------------
(***************************************************************************)
(* pkg/status/analyzer.go: what is made of the status of an object.  It is *)
(* handed to kstatus, enhanced as told by the hints in an annotation, and  *)
(* what kstatus calls Current is looked at more closely.                   *)
(***************************************************************************)
EXTENDS Integers

\* A generation that is not told, and the one an object is then said to have observed.
Untold == -2
Impossible == -1

Kinds == {"Custom", "CustomResourceDefinition", "APIService", "Job"}
ConditionStatuses == {"True", "False", "Unknown"}
Hints == {"has-observed-generation", "has-ready-condition"}

\* An object, with its conditions by their type; verdict is what kstatus makes of the
\* rest of it.  The hints come as a set, extra is what the hint "conditions" lists.
Conditions(Generations) == [status : ConditionStatuses, observed : Generations \cup {Untold}]

IsObject(o, Generations) ==
    /\ o \in [kind : Kinds, generation : Generations, observed : Generations \cup {Untold},
             conditions : {o.conditions}, verdict : {"Current", "InProgress", "Failed"}]
    /\ o.conditions \in [DOMAIN o.conditions -> Conditions(Generations)]

Told(o, type) == type \in DOMAIN o.conditions
IsTrue(o, type) == Told(o, type) /\ o.conditions[type].status = "True"

-----------------------------------------------------------------------------
\* Mutant of ObservedOf: the ready condition is believed to be up to date.
ObservedOfReady(o) == IF Told(o, "Ready") THEN o.generation ELSE Impossible

\* The generation that an object which does not tell must have observed, as far as
\* its ready condition tells.
ObservedOf(o) ==
    IF Told(o, "Ready") /\ o.conditions["Ready"].observed # Untold
    THEN o.conditions["Ready"].observed ELSE Impossible

Enhanced(o, hints) ==
    [o EXCEPT
        !.observed = IF "has-observed-generation" \in hints /\ @ = Untold
                     THEN ObservedOf(o) ELSE @,
        !.conditions =
            IF "has-ready-condition" \in hints /\ ~ Told(o, "Ready")
            THEN [t \in DOMAIN @ \cup {"Ready"} |->
                    IF t \in DOMAIN @ THEN @[t]
                    ELSE [status |-> "Unknown", observed |-> Untold]]
            ELSE @]

\* kstatus: the ready condition counts for kinds that it does not know.
UsesReady(o) == o.kind \in {"Custom", "APIService"}

Kstatus(o) ==
    IF \/ o.observed # Untold /\ o.observed # o.generation
       \/ UsesReady(o) /\ Told(o, "Ready") /\ ~ IsTrue(o, "Ready")
    THEN "InProgress" ELSE o.verdict

WellKnown(o) ==
    CASE o.kind = "CustomResourceDefinition" -> {"Established", "NamesAccepted"}
      [] o.kind = "APIService" -> {"Available"}
      [] OTHER -> {}

ConditionsMet(o, extra) == \A t \in extra \cup WellKnown(o) : IsTrue(o, t)

JobDone(o) == o.kind = "Job" => IsTrue(o, "Complete") \/ IsTrue(o, "Failed")

ComputeStatus(o, hints, extra) ==
    LET s == Kstatus(Enhanced(o, hints))
    IN  IF s = "Current" /\ ~ (ConditionsMet(o, extra) /\ JobDone(o)) THEN "InProgress" ELSE s

-----------------------------------------------------------------------------
\* What must be true of an object that is called Current, given the hints.
Deserved(o, hints, extra) ==
    /\ "has-observed-generation" \in hints =>
          \/ o.observed = o.generation
          \/ /\ o.observed = Untold
             /\ Told(o, "Ready") /\ o.conditions["Ready"].observed = o.generation
    /\ "has-ready-condition" \in hints /\ UsesReady(o) => IsTrue(o, "Ready")
    /\ \A t \in extra : IsTrue(o, t)
    /\ o.kind = "CustomResourceDefinition" =>
          IsTrue(o, "Established") /\ IsTrue(o, "NamesAccepted")
    /\ o.kind = "Job" => IsTrue(o, "Complete") \/ IsTrue(o, "Failed")
    /\ ComputeStatus(o, {}, {}) = "Current"
=============================================================================
