---------------------------- MODULE HttpBreaker -----------------------------
(***************************************************************************)
(* HTTPClient.request of src/utils/httpClient.ts against one host: retries *)
(* with exponential backoff and the per-host circuit breaker that all      *)
(* requests in flight share.  Time is kept as what remains of each timer;  *)
(* a timer that is due fires before time goes on.                          *)
(***************************************************************************)
EXTENDS Naturals

CONSTANTS
  Requests,
  MaxRetries,         \* retryPolicy.maxRetries
  BaseDelay,          \* retryPolicy.baseDelayMs
  Timeout,            \* timeoutMs
  BreakerThreshold,
  BreakerCooldown

\* RetryPolicy.sleepFor
sleepFor(n) == BaseDelay * 2 ^ n

\* the last conjunct is arithmetic, which holds of all numbers: the waits are numbers
\* and grow with the attempt
HttpBreakerAssumption ==
  /\ MaxRetries \in Nat
  /\ BaseDelay \in Nat
  /\ {Timeout, BreakerThreshold, BreakerCooldown} \subseteq Nat \ {0}
  /\ \A n \in 0..MaxRetries : sleepFor(n) \in 0..sleepFor(MaxRetries)

VARIABLES
  failures,  \* the breaker's failure count
  openFor,   \* how long openUntil is still ahead, 0 when it is not
  pc,        \* where each request stands
  attempt,   \* its attempt, from 0
  timer,     \* what remains of its abort timer or of its backoff
  streak     \* history: failed attempts since the last successful one

breaker == <<failures, openFor, streak>>
vars == <<breaker, pc, attempt, timer>>

GaveUp == {"returnedBad", "threw"}
Settled == {"returned", "refused"} \cup GaveUp
Stage == {"idle", "fetching", "sleeping"} \cup Settled

LongestTimer ==
  IF Timeout > sleepFor(MaxRetries) THEN Timeout ELSE sleepFor(MaxRetries)

TypeOK ==
  /\ failures \in 0..BreakerThreshold - 1
  /\ openFor \in 0..BreakerCooldown
  /\ pc \in [Requests -> Stage]
  /\ attempt \in [Requests -> 0..MaxRetries]
  /\ timer \in [Requests -> 0..LongestTimer]
  /\ streak \in Nat

Init ==
  /\ failures = 0
  /\ openFor = 0
  /\ pc = [r \in Requests |-> "idle"]
  /\ attempt = [r \in Requests |-> 0]
  /\ timer = [r \in Requests |-> 0]
  /\ streak = 0

Goto(r, stage, time) ==
  /\ pc' = [pc EXCEPT ![r] = stage]
  /\ timer' = [timer EXCEPT ![r] = time]

-----------------------------------------------------------------------------
(* breakerCheck and breakerRecord *)

RecordFailure ==
  LET opens == failures + 1 >= BreakerThreshold
  IN /\ failures' = IF opens THEN 0 ELSE failures + 1
     /\ openFor' = IF opens THEN BreakerCooldown ELSE openFor
     /\ streak' = streak + 1

\* faulty variant: a success leaves the count
RecordSuccessKeepsCount ==
  /\ openFor' = 0
  /\ streak' = 0
  /\ UNCHANGED failures

\* a success closes the breaker, open or not
RecordSuccess ==
  /\ failures' = 0
  /\ openFor' = 0
  /\ streak' = 0

Refuse(r) ==
  /\ pc[r] = "idle"
  /\ openFor > 0
  /\ Goto(r, "refused", 0)
  /\ UNCHANGED <<breaker, attempt>>

Begin(r) ==
  /\ pc[r] = "idle"
  /\ openFor = 0
  /\ Goto(r, "fetching", Timeout)
  /\ UNCHANGED <<breaker, attempt>>

-----------------------------------------------------------------------------
(* The attempts of a request *)

Succeeds(r) ==
  /\ pc[r] = "fetching"
  /\ RecordSuccess
  /\ Goto(r, "returned", 0)
  /\ UNCHANGED attempt

\* faulty variant: the last attempt is not made
FailsEarly(r, last) ==
  /\ pc[r] = "fetching"
  /\ RecordFailure
  /\ IF attempt[r] + 1 < MaxRetries
       THEN Goto(r, "sleeping", sleepFor(attempt[r]))
       ELSE Goto(r, last, 0)
  /\ UNCHANGED attempt

\* the attempt failed: another one after the backoff, or the request is over
Fails(r, last) ==
  /\ pc[r] = "fetching"
  /\ RecordFailure
  /\ IF attempt[r] < MaxRetries
       THEN Goto(r, "sleeping", sleepFor(attempt[r]))
       ELSE Goto(r, last, 0)
  /\ UNCHANGED attempt

\* a status of retryOn: the last such response is returned
BadStatus(r) == Fails(r, "returnedBad")

\* fetch rejects: the last such error is thrown
NetworkError(r) == Fails(r, "threw")

\* faulty variant: the abort does not reach the fetch
TimesOutInVain(r) ==
  /\ pc[r] = "fetching"
  /\ timer[r] = 0
  /\ Goto(r, "fetching", Timeout)
  /\ UNCHANGED <<breaker, attempt>>

\* the abort timer fires and fetch rejects
TimesOut(r) ==
  /\ timer[r] = 0
  /\ Fails(r, "threw")

\* the next attempt does not ask the breaker
Wakes(r) ==
  /\ pc[r] = "sleeping"
  /\ timer[r] = 0
  /\ attempt' = [attempt EXCEPT ![r] = @ + 1]
  /\ Goto(r, "fetching", Timeout)
  /\ UNCHANGED breaker

Less(n) == IF n = 0 THEN 0 ELSE n - 1

Tick ==
  /\ \A r \in Requests : pc[r] \in {"fetching", "sleeping"} => timer[r] > 0
  /\ timer' = [r \in Requests |-> Less(timer[r])]
  /\ openFor' = Less(openFor)
  /\ UNCHANGED <<failures, streak, pc, attempt>>

-----------------------------------------------------------------------------

RequestStep(r) ==
  \/ Refuse(r)
  \/ Begin(r)
  \/ Succeeds(r)
  \/ BadStatus(r)
  \/ NetworkError(r)
  \/ TimesOut(r)
  \/ Wakes(r)

Next ==
  \/ Tick
  \/ \E r \in Requests : RequestStep(r)

\* time passes and timers fire; servers owe no answer
Fairness ==
  /\ WF_vars(Tick)
  /\ \A r \in Requests : WF_vars(TimesOut(r)) /\ WF_vars(Wakes(r))

Spec == Init /\ [][Next]_vars /\ Fairness

-----------------------------------------------------------------------------

\* "after N consecutive failures the breaker opens": however the requests
\* interleave, it is open only after that many failed attempts in a row, and the
\* count is of attempts of that row.
OpenIsEarned ==
  /\ openFor > 0 => streak >= BreakerThreshold
  /\ failures <= streak

\* No request gives up, returning a response that should be retried or throwing an
\* error, before its retries are used; only the breaker refuses one at once.
RetriesAreUsed ==
  \A r \in Requests : pc[r] \in GaveUp => attempt[r] = MaxRetries

\* Every request that was begun is settled, answered by the server or not.
Settles ==
  \A r \in Requests : pc[r] = "fetching" ~> pc[r] \in Settled
=============================================================================
