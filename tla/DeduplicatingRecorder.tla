------------------------ MODULE DeduplicatingRecorder ------------------------
(***************************************************************************)
(* internal/events: a recorder that drops an event equal to the last one   *)
(* of the same object, unless that is long ago.  The time is taken before  *)
(* the mutex is, so entries may be looked at out of order.                 *)
(***************************************************************************)
EXTENDS Integers

CONSTANTS
    Uids,       \* objects
    Digests,    \* events, as far as they are told apart
    Expiration  \* how long an event is remembered, in ticks

NoEvent == "noevent"

VARIABLES events  \* the latest event of each object

Remembered(e) == e.digest # NoEvent

RecorderTypeOK == events \in [Uids -> [digest : Digests \cup {NoEvent}, timestamp : Nat]]

Forgotten == [digest |-> NoEvent, timestamp |-> 0]

RecorderInit == events = [u \in Uids |-> Forgotten]

\* Mutant of Recent: nothing is ever forgotten.
RecentAlways(now) == events

\* The entries that are not expired at now.
Recent(now) ==
    [u \in Uids |-> IF events[u].timestamp < now - Expiration THEN Forgotten
                    ELSE events[u]]

IsDuplicate(u, digest, now) == Recent(now)[u].digest = digest

\* What a call leaves behind.
Remember(u, digest, now) ==
    events' = [Recent(now) EXCEPT
                 ![u] = IF @.digest = digest THEN @
                        ELSE [digest |-> digest, timestamp |-> now]]
=============================================================================
