----------------------------- MODULE RateLimit ------------------------------
(***************************************************************************)
(* rateLimitMiddleware of src/api/middlewares/rateLimit.ts and one bucket  *)
(* of its two stores.  MemoryRateLimitStore reads the clock and decides in *)
(* one turn; RedisRateLimitStore reads it, and its script runs in Redis up *)
(* to MaxDelay later, in any order with the calls of other replicas.  What *)
(* a bucket keeps of a call is the clock it read: the array's entries and  *)
(* the sorted set's members are the calls themselves, two of one tick too. *)
(***************************************************************************)
EXTENDS Integers, FiniteSets, FiniteSetsExt

CONSTANTS
  Calls,
  Store,       \* "memory" or "redis"
  MaxRequests,
  Window,      \* windowSeconds, in ticks
  Second,      \* ticks in a second
  FailOpen,
  MaxDelay,    \* bound: ticks from a call to its script, 0 in memory
  MaxTime,     \* bound: ticks
  MaxFaults    \* bound: failed evaluations

RateLimitAssumption ==
  /\ Store \in {"memory", "redis"}
  /\ {MaxRequests, Window, Second} \subseteq Nat \ {0}
  /\ {MaxDelay, MaxTime, MaxFaults} \subseteq Nat
  /\ FailOpen \in BOOLEAN
  /\ Store = "memory" => MaxDelay = 0 /\ MaxFaults = 0
  /\ MaxDelay < Window

VARIABLES
  now,
  bucket,    \* the calls whose timestamps are kept
  pc,        \* what became of each call
  nowMs,     \* the clock each call read
  decidedAt, \* when each call was decided
  remaining, \* the remaining budget each call reported
  promised,  \* history: when the last rejection told its caller to retry, -1
             \*          once another call was admitted
  faults

vars == <<now, bucket, pc, nowMs, decidedAt, remaining, promised, faults>>

Times == 0..MaxTime

TypeOK ==
  /\ now \in Times
  /\ bucket \subseteq Calls
  /\ Cardinality(bucket) <= MaxRequests
  /\ pc \in [Calls -> {"idle", "called", "admitted", "rejected", "open", "error"}]
  /\ nowMs \in [Calls -> Times]
  /\ decidedAt \in [Calls -> Times]
  /\ remaining \in [Calls -> 0..MaxRequests]
  /\ promised \in Nat \cup {-1}
  /\ faults \in 0..MaxFaults

Init ==
  /\ now = 0
  /\ bucket = {}
  /\ pc = [q \in Calls |-> "idle"]
  /\ nowMs = [q \in Calls |-> 0]
  /\ decidedAt = [q \in Calls |-> 0]
  /\ remaining = [q \in Calls |-> 0]
  /\ promised = -1
  /\ faults = 0

-----------------------------------------------------------------------------

\* faulty variant: one tick of the window is lost
SurvivesShort(ts, t) == ts > t - Window + 1

\* The memory store keeps a timestamp exactly one window old, the script's
\* ZREMRANGEBYSCORE removes it.
Survives(ts, t) == IF Store = "memory" THEN ts >= t - Window ELSE ts > t - Window

Live(q) == {c \in bucket : Survives(nowMs[c], nowMs[q])}

Oldest(live) == Min({nowMs[c] : c \in live})

CeilSeconds(ticks) == (ticks + Second - 1) \div Second

\* faulty variant: rounded down
RetryAfterFloored(live, t) == Max({1, (Oldest(live) + Window - t) \div Second})

RetryAfter(live, t) == Max({1, CeilSeconds(Oldest(live) + Window - t)})

\* a call reads the clock; in memory it is decided in the same tick
Call(q) ==
  /\ pc[q] = "idle"
  /\ Store = "memory" => \A p \in Calls : pc[p] # "called"
  /\ pc' = [pc EXCEPT ![q] = "called"]
  /\ nowMs' = [nowMs EXCEPT ![q] = now]
  /\ UNCHANGED <<now, bucket, decidedAt, remaining, promised, faults>>

Admit(q) ==
  /\ pc[q] = "called"
  /\ Cardinality(Live(q)) < MaxRequests
  /\ bucket' = Live(q) \cup {q}
  /\ pc' = [pc EXCEPT ![q] = "admitted"]
  /\ remaining' = [remaining EXCEPT ![q] = MaxRequests - Cardinality(Live(q)) - 1]
  /\ decidedAt' = [decidedAt EXCEPT ![q] = now]
  /\ promised' = -1
  /\ UNCHANGED <<now, nowMs, faults>>

\* a rejected call is not recorded, the pruning is
Reject(q) ==
  /\ pc[q] = "called"
  /\ Cardinality(Live(q)) >= MaxRequests
  /\ bucket' = Live(q)
  /\ pc' = [pc EXCEPT ![q] = "rejected"]
  /\ remaining' = [remaining EXCEPT ![q] = 0]
  /\ decidedAt' = [decidedAt EXCEPT ![q] = now]
  /\ promised' = now + Second * RetryAfter(Live(q), nowMs[q])
  /\ UNCHANGED <<now, nowMs, faults>>

\* eval rejects: the call is let through uncounted, or the error handler gets it
EvalFails(q) ==
  /\ pc[q] = "called"
  /\ faults < MaxFaults
  /\ faults' = faults + 1
  /\ IF FailOpen
       THEN /\ pc' = [pc EXCEPT ![q] = "open"]
            /\ remaining' = [remaining EXCEPT ![q] = MaxRequests - 1]
       ELSE /\ pc' = [pc EXCEPT ![q] = "error"]
            /\ UNCHANGED remaining
  /\ decidedAt' = [decidedAt EXCEPT ![q] = now]
  /\ UNCHANGED <<now, bucket, nowMs, promised>>

Tick ==
  /\ now < MaxTime
  /\ \A q \in Calls : pc[q] = "called" => now - nowMs[q] < MaxDelay
  /\ now' = now + 1
  /\ UNCHANGED <<bucket, pc, nowMs, decidedAt, remaining, promised, faults>>

Next ==
  \/ Tick
  \/ \E q \in Calls : Call(q) \/ Admit(q) \/ Reject(q) \/ EvalFails(q)

Spec == Init /\ [][Next]_vars

-----------------------------------------------------------------------------

\* The memory store counts both ends of the window, the script one, and a
\* delayed script may cost its delay.
Span == IF Store = "memory" THEN Window + 1 ELSE Window - MaxDelay

\* The limit holds in every window, wherever it begins and whatever the order of
\* the scripts: a delay shortens the window, it does not grant a second budget.
WindowBound ==
  \A t \in Times :
    Cardinality({q \in Calls : pc[q] = "admitted" /\ decidedAt[q] \in (t - Span + 1)..t})
      <= MaxRequests
=============================================================================
