------------------------------ MODULE Throttle ------------------------------
(***************************************************************************)
(* AttemptThrottle of src/utils/throttle.ts with its memory backend, one   *)
(* key: check looks, hit records (also what it refuses), reset clears.     *)
(* Attempts are numbered; what is stored of one is when it was made.       *)
(***************************************************************************)
EXTENDS Integers, FiniteSets, FiniteSetsExt

CONSTANTS
  MaxAttempts,
  Window,     \* windowSeconds, in ticks
  Second,     \* ticks in a second
  MaxHits,    \* bound: attempts
  MaxTime     \* bound: ticks

ThrottleAssumption ==
  /\ {MaxAttempts, MaxHits, MaxTime} \subseteq Nat
  /\ {Window, Second} \subseteq Nat \ {0}

VARIABLES
  now,
  at,       \* when each attempt was made
  store,    \* the attempts whose timestamps are kept
  status,   \* what the last call returned, and which call it was
  allowed,  \* history: the attempts allowed since the last reset
  hits      \* attempts so far

vars == <<now, at, store, status, allowed, hits>>

Times == 0..MaxTime
Attempts == 1..MaxHits
Status == [op : {"none", "check", "hit", "reset"}, at : Times, allowed : BOOLEAN,
           remaining : 0..MaxAttempts, retryAfter : 0..Window]

TypeOK ==
  /\ now \in Times
  /\ at \in [Attempts -> Times]
  /\ store \subseteq 1..hits
  /\ status \in Status
  /\ allowed \subseteq 1..hits
  /\ hits \in 0..MaxHits

Init ==
  /\ now = 0
  /\ at = [i \in Attempts |-> 0]
  /\ store = {}
  /\ status = [op |-> "none", at |-> 0, allowed |-> TRUE, remaining |-> 0, retryAfter |-> 0]
  /\ allowed = {}
  /\ hits = 0

-----------------------------------------------------------------------------

\* faulty variant: the window is shorter by the tick
KeptShort(attempts) == {i \in attempts : at[i] > now - Window + 1}

Kept(attempts) == {i \in attempts : at[i] > now - Window}

StatusOf(op, attempts) ==
  LET ok == Cardinality(attempts) <= MaxAttempts
      wait == Min({at'[i] : i \in attempts}) + Window - now
  IN [op |-> op,
      at |-> now,
      allowed |-> ok,
      remaining |-> Max({0, MaxAttempts - Cardinality(attempts)}),
      retryAfter |-> IF ok THEN 0 ELSE (wait + Second - 1) \div Second]

Check ==
  /\ UNCHANGED <<now, at, allowed, hits>>
  /\ store' = Kept(store)
  /\ status' = StatusOf("check", store')

Hit ==
  /\ hits < MaxHits
  /\ hits' = hits + 1
  /\ at' = [at EXCEPT ![hits'] = now]
  /\ store' = Kept(store) \cup {hits'}
  /\ status' = StatusOf("hit", store')
  /\ allowed' = IF status'.allowed THEN allowed \cup {hits'} ELSE allowed
  /\ UNCHANGED now

Reset ==
  /\ store' = {}
  /\ status' = [status EXCEPT !.op = "reset", !.at = now]
  /\ allowed' = {}
  /\ UNCHANGED <<now, at, hits>>

Tick ==
  /\ now < MaxTime
  /\ now' = now + 1
  /\ UNCHANGED <<at, store, status, allowed, hits>>

Next == Check \/ Hit \/ Reset \/ Tick

Spec == Init /\ [][Next]_vars

-----------------------------------------------------------------------------

\* "Maximum attempts allowed within the window": refused ones among them or not,
\* no window since the last reset holds more allowed attempts.
BudgetHolds ==
  \A t \in Times :
    Cardinality({i \in allowed : at[i] \in (t - Window + 1)..t}) <= MaxAttempts
=============================================================================
