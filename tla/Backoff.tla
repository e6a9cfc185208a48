------------------------------- MODULE Backoff -------------------------------
(***************************************************************************)
(* internal/backoff: delays that grow as long as an item is kept busy by   *)
(* one activity.  Every operation holds the lock, so it is one step.       *)
(***************************************************************************)
EXTENDS Integers

CONSTANTS
    Items,       \* what is delayed: components
    Activities,  \* what an item may be waiting for
    FastDelays,  \* number of delays up to a second (20 in the code)
    MediumDelays \* and of two seconds after them (30)

None == "none"

VARIABLES
    activities,  \* the latest activity of each item
    failures     \* how often the limiter was asked, per item and activity

backoffVars == <<activities, failures>>

\* Asked more often than this, the limiter does not change its answer.
MaxFailures == FastDelays + MediumDelays

BackoffTypeOK ==
    /\ activities \in [Items -> Activities \cup {None}]
    /\ failures \in [Items -> [Activities -> 0 .. MaxFailures]]

BackoffInit ==
    /\ activities = [i \in Items |-> None]
    /\ failures = [i \in Items |-> [act \in Activities |-> 0]]

\* Delays in milliseconds.
maxDelay == 10000

Exponential(n) == IF n < 5 THEN 50 * 2^n ELSE 1000
FastSlow(n, slow, fastAttempts) == IF n < fastAttempts THEN 0 ELSE slow

\* What the limiter answers when it has been asked n times before.
When(n) ==
    CHOOSE d \in {Exponential(n), FastSlow(n, 2000, FastDelays),
                  FastSlow(n, maxDelay, MaxFailures)} :
        /\ d >= Exponential(n)
        /\ d >= FastSlow(n, 2000, FastDelays)
        /\ d >= FastSlow(n, maxDelay, MaxFailures)

Asked(n) == IF n = MaxFailures THEN n ELSE n + 1

\* Mutant of Next: the previous activity is resumed where it was left.
NextResumed(i, act) ==
    /\ activities' = [activities EXCEPT ![i] = act]
    /\ failures' = [failures EXCEPT ![i][act] = Asked(@)]

\* What the limiter counts for item i once it has forgotten the latest activity.
Without(i) ==
    [act \in Activities |-> IF act = activities[i] THEN 0 ELSE failures[i][act]]

\* Next returns When(failures[i][act]).
Next(i, act) ==
    /\ activities' = [activities EXCEPT ![i] = act]
    /\ failures' = [failures EXCEPT
                      ![i] = IF activities[i] = act
                             THEN [failures[i] EXCEPT ![act] = Asked(@)]
                             ELSE [Without(i) EXCEPT ![act] = Asked(@)]]

Forget(i) ==
    /\ activities' = [activities EXCEPT ![i] = None]
    /\ failures' = [failures EXCEPT ![i] = Without(i)]

\* A call of Forget followed by one of Next.
ForgetAndNext(i, act) ==
    /\ activities' = [activities EXCEPT ![i] = act]
    /\ failures' = [failures EXCEPT ![i] = [Without(i) EXCEPT ![act] = Asked(@)]]

-----------------------------------------------------------------------------
\* The limiter remembers nothing but the latest activity of an item; with this,
\* an item that comes back to an earlier activity starts again with short delays.
RemembersLatest ==
    \A i \in Items, act \in Activities : failures[i][act] > 0 => activities[i] = act
=============================================================================
