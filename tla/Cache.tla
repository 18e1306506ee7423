-------------------------------- MODULE Cache --------------------------------
(***************************************************************************)
(* The read-through cache: cached() of src/src/cache/cached.ts over the    *)
(* in-process or the Redis manager of cache/manager.ts, for one key.  The  *)
(* function reads a source whose owner writes it and then deletes the key  *)
(* (an invalidation); calls overlap with each other and with that.  Every  *)
(* access of the manager is one step: a Redis command, or a method without *)
(* an await in it.                                                         *)
(***************************************************************************)
EXTENDS Integers, FiniteSets

CONSTANTS
  Callers,   \* calls of the wrapped function
  Null,      \* what a missing key, and a function without an answer, gives
  Ttl,       \* ttlSeconds
  MaxRun,    \* how long the function and the write of its result take at most
  MaxWrites, \* bound: writes of the source
  MaxTime    \* bound: the clock

CacheAssumption ==
  /\ {Ttl, MaxRun, MaxWrites, MaxTime} \subseteq Nat
  /\ Null \notin Nat

VARIABLES
  now,
  source,   \* the source's value: the number of a write, or Null
  writes,   \* writes of the source so far
  since,    \* value -> when the source stopped having it
  store,    \* the entry: value, expires, and crossed of the call that wrote it
  call,     \* caller -> [pc, value, began, crossed]; crossed: the key was deleted
            \* after it read the source
  deleting, \* is an invalidation between its write and its delete?
  lag       \* how long the source had not had the stalest value served

vars == <<now, source, writes, since, store, call, deleting, lag>>

NoEntry == [value |-> Null, expires |-> 0, crossed |-> FALSE]
Idle == [pc |-> "idle", value |-> Null, began |-> 0, crossed |-> FALSE]

Init ==
  /\ now = 0 /\ source = 0 /\ writes = 0 /\ since = [v \in 0 .. MaxWrites |-> 0]
  /\ store = NoEntry /\ call = [c \in Callers |-> Idle]
  /\ deleting = FALSE /\ lag = 0

\* faulty variant: an entry lives through the instant it expires at
LiveAtItsEnd == store.value # Null /\ store.expires >= now

\* live and get: a null on record reads like no record
Live == store.value # Null /\ store.expires > now

Get(c) ==
  /\ call[c].pc = "idle"
  /\ IF Live
     THEN LET age == IF store.value = source THEN 0 ELSE now - since[store.value] IN
          lag' = (IF age > lag THEN age ELSE lag) /\ UNCHANGED call
     ELSE call' = [call EXCEPT ![c] = [Idle EXCEPT !.pc = "run"]] /\ UNCHANGED lag
  /\ UNCHANGED <<now, source, writes, since, store, deleting>>

\* the function reads the source
Run(c) ==
  /\ call[c].pc = "run"
  /\ call' = [call EXCEPT ![c] = [pc |-> "ran", value |-> source, began |-> now,
                                  crossed |-> FALSE]]
  /\ UNCHANGED <<now, source, writes, since, store, deleting, lag>>

Set(c) ==
  /\ call[c].pc = "ran"
  /\ store' = [value |-> call[c].value, expires |-> now + Ttl,
               crossed |-> call[c].crossed]
  /\ call' = [call EXCEPT ![c] = Idle]
  /\ UNCHANGED <<now, source, writes, since, deleting, lag>>

\* the function or a command fails: the call rejects and nothing is stored
Fail(c) ==
  /\ call[c].pc # "idle"
  /\ call' = [call EXCEPT ![c] = Idle]
  /\ UNCHANGED <<now, source, writes, since, store, deleting, lag>>

-----------------------------------------------------------------------------

Write ==
  /\ ~deleting /\ writes < MaxWrites
  /\ writes' = writes + 1
  /\ source' \in {writes + 1, Null}
  /\ since' = [v \in DOMAIN since |-> IF v = source THEN now ELSE since[v]]
  /\ deleting' = TRUE
  /\ UNCHANGED <<now, store, call, lag>>

\* faulty variant: the key stays
DeleteKeeps ==
  /\ deleting /\ deleting' = FALSE
  /\ call' = [c \in Callers |->
                [call[c] EXCEPT !.crossed = @ \/ call[c].pc = "ran"]]
  /\ UNCHANGED <<now, source, writes, since, store, lag>>

\* delete and clear
Delete ==
  /\ deleting /\ deleting' = FALSE
  /\ store' = NoEntry
  /\ call' = [c \in Callers |->
                [call[c] EXCEPT !.crossed = @ \/ call[c].pc = "ran"]]
  /\ UNCHANGED <<now, source, writes, since, lag>>

Tick ==
  /\ now < MaxTime
  /\ \A c \in Callers : call[c].pc = "ran" => now - call[c].began < MaxRun
  /\ now' = now + 1
  /\ UNCHANGED <<source, writes, since, store, call, deleting, lag>>

Next ==
  \/ \E c \in Callers : Get(c) \/ Run(c) \/ Set(c) \/ Fail(c)
  \/ Write \/ Delete \/ Tick

Spec == Init /\ [][Next]_vars

-----------------------------------------------------------------------------

TypeOK ==
  /\ now \in 0 .. MaxTime /\ writes \in 0 .. MaxWrites
  /\ source \in (0 .. MaxWrites) \cup {Null}
  /\ since \in [0 .. MaxWrites -> 0 .. MaxTime]
  /\ store.value \in (0 .. MaxWrites) \cup {Null}
  /\ call \in [Callers -> [pc : {"idle", "run", "ran"}, value : (0 .. MaxWrites) \cup {Null},
                           began : 0 .. MaxTime, crossed : BOOLEAN]]
  /\ deleting \in BOOLEAN /\ lag \in 0 .. MaxTime

\* After an invalidation only a run that had read the source before it can put
\* the old value back: no other interleaving of calls leaves a stale entry.
StaleEntryCrossed ==
  ~deleting /\ store.value # Null /\ store.value # source => store.crossed

\* However calls, writes and invalidations interleave, no hit is staler than the
\* time to live and one run of the function together.
StalenessIsBounded == lag > 0 => lag < Ttl + MaxRun
=============================================================================
