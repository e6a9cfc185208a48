------------------------------- MODULE Services -------------------------------
(***************************************************************************)
(* What the workers of one component.Reconciler share: the client factory, *)
(* the backoff and the event recorder.  The controller works on several    *)
(* components at the same time, and never twice on the same one, so the    *)
(* concurrent calls of Reconcile are named by their components.  A call    *)
(* gets its clients, works with them for any time, tells the backoff how   *)
(* it went, and records an event.                                          *)
(***************************************************************************)
EXTENDS Integers

CONSTANTS
    Components,
    Namespace,              \* Namespace[c] of component c
    Kubeconfig,             \* Kubeconfig[c]: what c asks for, or NoConfig
    User,                   \* User[c]: whom c wants to be impersonated
    DefaultServiceAccount,  \* of the reconciler, or NoName
    Activities,             \* what the framework may wait for
    FastDelays, MediumDelays, Validity, MaxClients, Expiration,
    MaxTime,                \* the end of the time that is looked at (a bound)
    MaxCalls                \* number of calls altogether (a bound)

NoConfig == "noconfig"
NoName == "noname"

\* A user: nobody, somebody, or a service account, whose namespace may be left open.
Nobody == [kind |-> "nobody", namespace |-> NoName, name |-> NoName]
ServiceAccount(namespace, name) ==
    [kind |-> "account", namespace |-> namespace, name |-> name]

ASSUME ComponentsAssumption ==
    /\ \A c \in Components : User[c].kind \in {"nobody", "user", "account"}
    /\ MaxTime \in Nat /\ MaxCalls \in Nat
ASSUME ActivitiesAssumption == Activities \cap {"Ready", "none", "noevent", NoName} = {}
ASSUME ParametersAssumption ==
    /\ FastDelays \in Nat \ {0} /\ MediumDelays \in Nat \ {0}
    /\ Validity \in Nat /\ MaxClients \in Nat /\ Expiration \in Nat

-----------------------------------------------------------------------------
(* Whose clients a call asks for *)

\* The namespace of a service account is that of the component, if it is left open.
Completed(c) ==
    IF User[c].kind = "account" /\ User[c].namespace = NoName
    THEN [User[c] EXCEPT !.namespace = Namespace[c]]
    ELSE User[c]

Impersonated(c) ==
    IF Completed(c) = Nobody /\ DefaultServiceAccount # NoName
    THEN ServiceAccount(Namespace[c], DefaultServiceAccount)
    ELSE Completed(c)

\* The configuration of the operator itself.
Operator == [config |-> NoConfig, user |-> Nobody]

LocalConfig(c) == [Operator EXCEPT !.user = Impersonated(c)]

\* With a kubeconfig, nobody is impersonated.
TargetConfig(c) ==
    IF Kubeconfig[c] # NoConfig
    THEN [Operator EXCEPT !.config = Kubeconfig[c]]
    ELSE LocalConfig(c)

Configs == {LocalConfig(c) : c \in Components} \cup {TargetConfig(c) : c \in Components}

\* Mutant of Key: clients are told apart by the user only.
KeyOfUser(config) == config.user

\* What the client for a configuration is cached by.
Key(config) == <<config.config, config.user>>

ClientKeys == {Key(config) : config \in Configs}

-----------------------------------------------------------------------------
\* The outcome of a call says what is waited for, and is told by the event.
Outcomes == Activities \cup {"Ready"}
Progressing == {"Processing", "DeletionProcessing"}

VARIABLES
    now,
    activities, failures,        \* see Backoff
    clients, created, shutDown,  \* see ClientFactory
    events,                      \* see DeduplicatingRecorder
    pc,       \* what the call for a component does next
    local,    \* the clients that it uses,
    target,
    since,    \* and when it asked for the first
    outcome,  \* how it went
    sampled,  \* the time as looked up for the event
    \* history
    delays,   \* how many delays in a row the same activity has caused
    shown,    \* the last event that was passed on, and when
    whose,    \* what a client was created for
    calls     \* number of calls so far

Factory == INSTANCE ClientFactory
Delays == INSTANCE Backoff WITH Items <- Components
Recorder == INSTANCE DeduplicatingRecorder WITH Uids <- Components, Digests <- Outcomes

backoffVars == <<activities, failures>>
factoryVars == <<clients, created, shutDown>>
callVars == <<pc, local, target, since, outcome, sampled>>
historyVars == <<delays, shown, whose, calls>>
vars == <<now, backoffVars, factoryVars, events, callVars, historyVars>>

NoTime == 0

TypeOK ==
    /\ now \in 0 .. MaxTime
    /\ Delays!BackoffTypeOK /\ Factory!FactoryTypeOK /\ Recorder!RecorderTypeOK
    /\ pc \in [Components -> {"idle", "local", "work", "report", "record"}]
    /\ local \in [Components -> Factory!ClientIds \cup {Factory!NoClient}]
    /\ target \in [Components -> Factory!ClientIds \cup {Factory!NoClient}]
    /\ since \in [Components -> 0 .. MaxTime]
    /\ outcome \in [Components -> Outcomes \cup {NoName}]
    /\ sampled \in [Components -> 0 .. MaxTime]
    /\ delays \in [Components -> Nat]
    /\ shown \in [Components -> [digest : Outcomes \cup {Recorder!NoEvent},
                                 timestamp : 0 .. MaxTime]]
    /\ whose \in [Factory!ClientIds -> Configs \cup {Operator}]
    /\ calls \in 0 .. MaxCalls

Init ==
    /\ now = 0
    /\ Delays!BackoffInit /\ Factory!FactoryInit /\ Recorder!RecorderInit
    /\ pc = [c \in Components |-> "idle"]
    /\ local = [c \in Components |-> Factory!NoClient]
    /\ target = [c \in Components |-> Factory!NoClient]
    /\ since = [c \in Components |-> NoTime] /\ sampled = [c \in Components |-> NoTime]
    /\ outcome = [c \in Components |-> NoName]
    /\ delays = [c \in Components |-> 0]
    /\ shown = [c \in Components |-> Recorder!Forgotten]
    /\ whose \in [Factory!ClientIds -> {Operator}]
    /\ calls = 0

Goes(c, from, to) == pc[c] = from /\ pc' = [pc EXCEPT ![c] = to]

GetClient(config) ==
    /\ Factory!Get(Key(config), now)
    /\ whose' = IF created' = created THEN whose
                ELSE [whose EXCEPT ![created'] = config]

GetLocalClient(c) ==
    /\ Goes(c, "idle", "local")
    /\ calls < MaxCalls /\ calls' = calls + 1
    /\ GetClient(LocalConfig(c))
    /\ local' = [local EXCEPT ![c] = clients'[Key(LocalConfig(c))].id]
    /\ since' = [since EXCEPT ![c] = now]
    /\ UNCHANGED <<now, backoffVars, events, target, outcome, sampled, delays, shown>>

GetTargetClient(c) ==
    /\ Goes(c, "local", "work")
    /\ GetClient(TargetConfig(c))
    /\ target' = [target EXCEPT ![c] = clients'[Key(TargetConfig(c))].id]
    /\ UNCHANGED <<now, backoffVars, events, local, since, outcome, sampled,
                   delays, shown, calls>>

\* The call ends its work, and the backoff is told: it is forgotten if the
\* component is ready, or fails, or has made progress; and asked for a delay
\* unless it is ready or fails.  The backoff does not tell these two apart, so
\* "Ready" stands for both.
EndCall(c, how, progress) ==
    /\ Goes(c, "work", "report")
    /\ outcome' = [outcome EXCEPT ![c] = how]
    /\ progress => how \in Progressing
    /\ \/ /\ how = "Ready"
          /\ Delays!Forget(c)
          /\ delays' = [delays EXCEPT ![c] = 0]
       \/ /\ how # "Ready" /\ progress
          /\ Delays!ForgetAndNext(c, how)
          /\ delays' = [delays EXCEPT ![c] = 1]
       \/ /\ how # "Ready" /\ ~ progress
          /\ Delays!Next(c, how)
          /\ delays' = [delays EXCEPT ![c] = IF activities[c] = how
                                             THEN Delays!Asked(@) ELSE 1]
    /\ UNCHANGED <<now, factoryVars, events, local, target, since, sampled,
                   shown, whose, calls>>

LookUpTime(c) ==
    /\ Goes(c, "report", "record")
    /\ sampled' = [sampled EXCEPT ![c] = now]
    /\ UNCHANGED <<now, backoffVars, factoryVars, events, local, target,
                   since, outcome, historyVars>>

RecordEvent(c) ==
    /\ Goes(c, "record", "idle")
    /\ Recorder!Remember(c, outcome[c], sampled[c])
    /\ shown' = IF Recorder!IsDuplicate(c, outcome[c], sampled[c]) THEN shown
                ELSE [shown EXCEPT ![c] = [digest |-> outcome[c], timestamp |-> sampled[c]]]
    /\ local' = [local EXCEPT ![c] = Factory!NoClient]
    /\ target' = [target EXCEPT ![c] = Factory!NoClient]
    /\ outcome' = [outcome EXCEPT ![c] = NoName]
    /\ since' = [since EXCEPT ![c] = NoTime] /\ sampled' = [sampled EXCEPT ![c] = NoTime]
    /\ UNCHANGED <<now, backoffVars, factoryVars, delays, whose, calls>>

Sweep ==
    /\ Factory!Sweep(now)
    /\ UNCHANGED <<now, backoffVars, events, callVars, historyVars>>

Tick ==
    /\ now < MaxTime /\ now' = now + 1
    /\ UNCHANGED <<backoffVars, factoryVars, events, callVars, historyVars>>

Next ==
    \/ \E c \in Components :
          \/ GetLocalClient(c) \/ GetTargetClient(c)
          \/ \E how \in Outcomes, progress \in BOOLEAN : EndCall(c, how, progress)
          \/ LookUpTime(c) \/ RecordEvent(c)
    \/ Sweep \/ Tick

Spec == Init /\ [][Next]_vars

-----------------------------------------------------------------------------
(* Properties *)

\* The event broadcaster of a client is not shut down while a call uses the
\* client, unless the call takes longer than the validity: a call that begins
\* makes the clients it shares with others last for its own time.
InUseNotShutDown ==
    \A c \in Components :
        now - since[c] =< Validity => {local[c], target[c]} \cap shutDown = {}

\* A call uses clients that were created for what its component asks for,
\* however the cache is shared, swept and filled again.
RightClients ==
    \A c \in Components :
        /\ local[c] # Factory!NoClient => whose[local[c]] = LocalConfig(c)
        /\ target[c] # Factory!NoClient => whose[target[c]] = TargetConfig(c)

\* The delay of an item depends on how often in a row it has been delayed for the
\* same activity, and on nothing that was before.
DelaysCountInARow ==
    \A c \in Components :
        activities[c] # Delays!None =>
            /\ Delays!RemembersLatest
            /\ failures[c][activities[c]] = delays[c]

\* An event is dropped only if it is the last one that was shown of its object,
\* not long ago; and it is shown again only if it was long ago.
RepeatedAfterExpiration ==
    [][\A c \in Components :
          pc[c] = "record" /\ pc'[c] = "idle" /\ shown[c].digest = outcome[c] =>
              IF shown'[c] = shown[c]
              THEN sampled[c] - shown[c].timestamp =< Expiration
              ELSE now - shown[c].timestamp > Expiration]_vars
=============================================================================
