---------------------------- MODULE ClientFactory ----------------------------
(***************************************************************************)
(* internal/clientfactory: a cache of clients, each with its event         *)
(* broadcaster, and the sweeper that drops those not asked for lately.     *)
(* Get and a sweep hold the mutex, so each is one step.                    *)
(***************************************************************************)
EXTENDS Integers, FiniteSets

CONSTANTS
    ClientKeys,  \* what a client is cached by: kube config, user, groups
    Validity,    \* how long a client is kept after it was asked for, in ticks
    MaxClients   \* how many clients are created altogether (a bound)

VARIABLES
    clients,   \* the cache: what is known of the client with some key
    created,   \* number of clients created so far
    shutDown   \* clients whose event broadcaster was shut down

NoClient == 0
ClientIds == 1 .. MaxClients

Cached(key) == clients[key].id # NoClient

FactoryTypeOK ==
    /\ clients \in [ClientKeys -> [id : ClientIds \cup {NoClient}, validUntil : Nat]]
    /\ created \in 0 .. MaxClients
    /\ shutDown \subseteq ClientIds

FactoryInit ==
    /\ clients = [key \in ClientKeys |-> [id |-> NoClient, validUntil |-> 0]]
    /\ created = 0 /\ shutDown = {}

\* Mutant of Get: the validity is that of the first call.
GetUnextended(key, now) ==
    IF Cached(key)
    THEN UNCHANGED <<clients, created, shutDown>>
    ELSE /\ created < MaxClients
         /\ created' = created + 1
         /\ clients' = [clients EXCEPT
                          ![key] = [id |-> created', validUntil |-> now + Validity]]
         /\ UNCHANGED shutDown

\* Get returns clients'[key].id.
Get(key, now) ==
    \/ /\ Cached(key)
       /\ clients' = [clients EXCEPT ![key].validUntil = now + Validity]
       /\ UNCHANGED <<created, shutDown>>
    \/ /\ ~ Cached(key)
       /\ created < MaxClients /\ created' = created + 1
       /\ clients' = [clients EXCEPT
                        ![key] = [id |-> created', validUntil |-> now + Validity]]
       /\ UNCHANGED shutDown

Expired(now) == {key \in ClientKeys : Cached(key) /\ clients[key].validUntil < now}

\* A sweep that finds nothing changes nothing.
Sweep(now) ==
    /\ Expired(now) # {}
    /\ shutDown' = shutDown \cup {clients[key].id : key \in Expired(now)}
    /\ clients' = [key \in ClientKeys |->
                     IF key \in Expired(now) THEN [id |-> NoClient, validUntil |-> 0]
                     ELSE clients[key]]
    /\ UNCHANGED created
=============================================================================
