------------------------------- MODULE Outbox -------------------------------
(***************************************************************************)
(* The transactional outbox of src/db/outbox.ts: a table of events written *)
(* in the same transaction as the change they describe, and the OutboxRelay*)
(* loops that poll it and publish what is due.                             *)
(*                                                                         *)
(* A relay is one OutboxRelay object; a loop is one call of run() on one   *)
(* of them.  Loops of one relay share its `running` flag.  Every await of  *)
(* the code (list, publish, update) ends an action, so loops interleave.   *)
(*                                                                         *)
(* Time is relative: a row carries the ticks left until its availableAt,   *)
(* and a loop the ticks elapsed since its pass read the clock.  Both are   *)
(* bounded without bounding time, so liveness can be checked.              *)
(***************************************************************************)
EXTENDS Naturals, FiniteSets

CONSTANTS
  Events,       \* the events the application may commit
  Relays,       \* OutboxRelay objects, one per process
  Loops,        \* calls of run() that are live at once
  MaxAttempts,  \* the row's maxAttempts
  Backoff,      \* retryBackoffSeconds, in ticks
  BatchSize,    \* batchSize
  MaxFaults     \* bound: database errors and process crashes

ASSUME OutboxAssumption ==
  /\ Relays # {}
  /\ MaxAttempts \in Nat \ {0}
  /\ Backoff \in Nat
  /\ BatchSize \in Nat \ {0}
  /\ MaxFaults \in Nat

VARIABLES
  row,        \* the outbox table
  running,    \* the flag run() sets and stop() clears, per relay
  relay,      \* the relay each loop was last run on
  pc,         \* where each loop stands
  batch,      \* the due rows a pass has listed and not yet handled
  flight,     \* the row a loop is handling: at most one snapshot
  age,        \* ticks since the pass took `now`
  tries,      \* history: calls of publish() per event
  delivered,  \* history: events the broker has accepted
  faults      \* faults so far

tableVars == <<row, tries, delivered>>
flagVars  == <<running, relay>>
loopVars  == <<pc, batch, flight, age>>
vars == <<row, running, relay, pc, batch, flight, age, tries, delivered, faults>>

OutboxStatus == {"pending", "sent", "failed"}
Row == [status : OutboxStatus \cup {"absent"}, attempts : Nat, delay : Nat]
Snapshot == [id : Events, attempts : Nat]
InPass == {"draining", "marking_sent", "marking_failed"}
Phase == {"off", "listing", "sleeping"} \cup InPass
Settled == {"sent", "failed"}

\* only a row with tries left is pending, and only those are listed
CountsInRange ==
  /\ \A e \in Events :
       /\ row[e].attempts <= MaxAttempts
       /\ row[e].status \in {"absent", "pending"} => row[e].attempts < MaxAttempts
  /\ \A l \in Loops : \A s \in batch[l] \cup flight[l] : s.attempts < MaxAttempts

\* The table and the loops are typed, and no row counts more than maxAttempts attempts,
\* whichever loop wrote it last (markFailure).
TypeOK ==
  /\ CountsInRange
  /\ row \in [Events -> Row]
  /\ running \in [Relays -> BOOLEAN]
  /\ relay \in [Loops -> Relays]
  /\ pc \in [Loops -> Phase]
  /\ batch \in [Loops -> SUBSET Snapshot]
  /\ flight \in [Loops -> SUBSET Snapshot]
  /\ age \in [Loops -> Nat]
  /\ tries \in [Events -> Nat]
  /\ delivered \subseteq Events
  /\ faults \in Nat

Init ==
  /\ row = [e \in Events |-> [status |-> "absent", attempts |-> 0, delay |-> 0]]
  /\ running = [r \in Relays |-> FALSE]
  /\ relay = [l \in Loops |-> CHOOSE r \in Relays : TRUE]
  /\ pc = [l \in Loops |-> "off"]
  /\ batch = [l \in Loops |-> {}]
  /\ flight = [l \in Loops |-> {}]
  /\ age = [l \in Loops |-> 0]
  /\ tries = [e \in Events |-> 0]
  /\ delivered = {}
  /\ faults = 0

-----------------------------------------------------------------------------
(* Helpers *)

Fault == faults < MaxFaults /\ faults' = faults + 1
\* faulty variant: only rows never tried are looked for
DueUntried ==
  {e \in Events : row[e].status = "pending" /\ row[e].delay = 0 /\ row[e].attempts = 0}

\* faulty variant: the filter on status is forgotten
DueAnyStatus == {e \in Events : row[e].status # "absent" /\ row[e].delay = 0}

Due == {e \in Events : row[e].status = "pending" /\ row[e].delay = 0}

\* due.slice(0, batchSize): the query has no ORDER BY, so any rows may come first
FirstRows(S) ==
  {T \in SUBSET S : \/ T = S /\ Cardinality(S) <= BatchSize
                    \/ Cardinality(T) = BatchSize}

SnapshotOf(e) == [id |-> e, attempts |-> row[e].attempts]

\* faulty variants: off by one either way
ExhaustedEarly(attempts) == attempts + 1 >= MaxAttempts
ExhaustedLate(attempts) == attempts > MaxAttempts

Exhausted(attempts) == attempts >= MaxAttempts

\* now + attempts * backoff, seen from the present: `now` is age[l] ticks old
RetryDelay(l, attempts) ==
  IF attempts * Backoff > age[l] THEN attempts * Backoff - age[l] ELSE 0

Leave(l, phase) ==
  /\ pc' = [pc EXCEPT ![l] = phase]
  /\ batch' = [batch EXCEPT ![l] = {}]
  /\ flight' = [flight EXCEPT ![l] = {}]
  /\ age' = [age EXCEPT ![l] = 0]

-----------------------------------------------------------------------------
(* The application and the clock *)

\* the row is inserted with the write it describes
Commit(e) ==
  /\ row[e].status = "absent"
  /\ row' = [row EXCEPT ![e].status = "pending"]
  /\ UNCHANGED <<flagVars, loopVars, tries, delivered, faults>>

\* beyond AgeCap a pass is so old that every retry it records is due at once
AgeCap == MaxAttempts * Backoff

Tick ==
  /\ \/ \E e \in Events : row[e].delay > 0
     \/ \E l \in Loops : pc[l] \in InPass /\ age[l] < AgeCap
  /\ row' = [e \in Events |->
       IF row[e].delay > 0 THEN [row[e] EXCEPT !.delay = @ - 1] ELSE row[e]]
  /\ age' = [l \in Loops |->
       IF pc[l] \in InPass /\ age[l] < AgeCap THEN age[l] + 1 ELSE age[l]]
  /\ UNCHANGED <<flagVars, pc, batch, flight, tries, delivered, faults>>

-----------------------------------------------------------------------------
(* run() and stop() *)

Run(l, r) ==
  /\ pc[l] = "off"
  /\ running' = [running EXCEPT ![r] = TRUE]
  /\ relay' = [relay EXCEPT ![l] = r]
  /\ pc' = [pc EXCEPT ![l] = "listing"]
  /\ UNCHANGED <<tableVars, batch, flight, age, faults>>

Stop(r) ==
  /\ running[r]
  /\ running' = [running EXCEPT ![r] = FALSE]
  /\ UNCHANGED <<tableVars, relay, loopVars, faults>>

\* faulty variant: the loop does not read the flag again
WakeAnyway(l) ==
  /\ pc[l] = "sleeping"
  /\ pc' = [pc EXCEPT ![l] = "listing"]
  /\ UNCHANGED <<tableVars, flagVars, batch, flight, age, faults>>

Wake(l) ==
  /\ pc[l] = "sleeping"
  /\ pc' = [pc EXCEPT ![l] = IF running[relay[l]] THEN "listing" ELSE "off"]
  /\ UNCHANGED <<tableVars, flagVars, batch, flight, age, faults>>

Live(r) == {l \in Loops : relay[l] = r /\ pc[l] # "off"}

Crash(r) ==
  /\ Fault
  /\ Live(r) # {}
  /\ running' = [running EXCEPT ![r] = FALSE]
  /\ pc' = [l \in Loops |-> IF l \in Live(r) THEN "off" ELSE pc[l]]
  /\ batch' = [l \in Loops |-> IF l \in Live(r) THEN {} ELSE batch[l]]
  /\ flight' = [l \in Loops |-> IF l \in Live(r) THEN {} ELSE flight[l]]
  /\ age' = [l \in Loops |-> IF l \in Live(r) THEN 0 ELSE age[l]]
  /\ UNCHANGED <<tableVars, relay>>

-----------------------------------------------------------------------------
(* drainOnce() *)

List(l) ==
  /\ pc[l] = "listing"
  /\ \E ids \in FirstRows(Due) :
       batch' = [batch EXCEPT ![l] = {SnapshotOf(e) : e \in ids}]
  /\ pc' = [pc EXCEPT ![l] = "draining"]
  /\ UNCHANGED <<tableVars, flagVars, flight, age, faults>>

\* the query fails: run() logs it and sleeps
ListFails(l) ==
  /\ pc[l] = "listing"
  /\ Fault
  /\ pc' = [pc EXCEPT ![l] = "sleeping"]
  /\ UNCHANGED <<tableVars, flagVars, batch, flight, age>>

\* faulty variant: the promise of publish() is not awaited
PublishNotAwaited(l, s, accepted, resolved) ==
  /\ pc[l] = "draining"
  /\ s \in batch[l]
  /\ batch' = [batch EXCEPT ![l] = @ \ {s}]
  /\ flight' = [flight EXCEPT ![l] = {s}]
  /\ tries' = [tries EXCEPT ![s.id] = @ + 1]
  /\ delivered' = IF accepted THEN delivered \cup {s.id} ELSE delivered
  /\ pc' = [pc EXCEPT ![l] = "marking_sent"]
  /\ UNCHANGED <<row, flagVars, age, faults>>

\* hand one listed row to the publisher.  A rejection says nothing about
\* the broker: the message may have been taken before the error.
Publish(l, s, accepted, resolved) ==
  /\ pc[l] = "draining"
  /\ s \in batch[l]
  /\ resolved => accepted
  /\ batch' = [batch EXCEPT ![l] = @ \ {s}]
  /\ flight' = [flight EXCEPT ![l] = {s}]
  /\ tries' = [tries EXCEPT ![s.id] = @ + 1]
  /\ delivered' = IF accepted THEN delivered \cup {s.id} ELSE delivered
  /\ pc' = [pc EXCEPT ![l] = IF resolved THEN "marking_sent" ELSE "marking_failed"]
  /\ UNCHANGED <<row, flagVars, age, faults>>

MarkSent(l) ==
  /\ pc[l] = "marking_sent"
  /\ \E s \in flight[l] : row' = [row EXCEPT ![s.id].status = "sent"]
  /\ flight' = [flight EXCEPT ![l] = {}]
  /\ pc' = [pc EXCEPT ![l] = "draining"]
  /\ UNCHANGED <<flagVars, batch, age, tries, delivered, faults>>

\* the update throws inside the try block: the delivered row counts as a failure
MarkSentFails(l) ==
  /\ pc[l] = "marking_sent"
  /\ Fault
  /\ pc' = [pc EXCEPT ![l] = "marking_failed"]
  /\ UNCHANGED <<tableVars, flagVars, batch, flight, age>>

\* markFailure: computed from the snapshot, written by id alone
MarkFailed(l) ==
  /\ pc[l] = "marking_failed"
  /\ \E s \in flight[l] :
       LET attempts == s.attempts + 1 IN
       row' = [row EXCEPT ![s.id] =
         [status |-> IF Exhausted(attempts) THEN "failed" ELSE "pending",
          attempts |-> attempts,
          delay |-> IF Exhausted(attempts) THEN 0 ELSE RetryDelay(l, attempts)]]
  /\ flight' = [flight EXCEPT ![l] = {}]
  /\ pc' = [pc EXCEPT ![l] = "draining"]
  /\ UNCHANGED <<flagVars, batch, age, tries, delivered, faults>>

\* markFailure itself throws: the rest of the batch is dropped with the pass
MarkFailedFails(l) ==
  /\ pc[l] = "marking_failed"
  /\ Fault
  /\ Leave(l, "sleeping")
  /\ UNCHANGED <<tableVars, flagVars>>

EndPass(l) ==
  /\ pc[l] = "draining"
  /\ batch[l] = {}
  /\ Leave(l, "sleeping")
  /\ UNCHANGED <<tableVars, flagVars, faults>>

-----------------------------------------------------------------------------

PublishSome(l) ==
  \E s \in batch[l], accepted, resolved \in BOOLEAN :
    Publish(l, s, accepted, resolved)

LoopStep(l) ==
  \/ Wake(l)
  \/ List(l)
  \/ ListFails(l)
  \/ PublishSome(l)
  \/ MarkSent(l)
  \/ MarkSentFails(l)
  \/ MarkFailed(l)
  \/ MarkFailedFails(l)
  \/ EndPass(l)

Next ==
  \/ \E e \in Events : Commit(e)
  \/ Tick
  \/ \E l \in Loops : LoopStep(l) \/ \E r \in Relays : Run(l, r)
  \/ \E r \in Relays : Stop(r) \/ Crash(r)

Spec == Init /\ [][Next]_vars

\* Time passes, every await of a live loop comes back, and a relay that is
\* down is brought up again by whatever supervises the process.
Fairness ==
  /\ WF_vars(Tick)
  /\ \A l \in Loops : WF_vars(LoopStep(l)) /\ WF_vars(\E r \in Relays : Run(l, r))

FairSpec == Spec /\ Fairness

-----------------------------------------------------------------------------
(* What the relay promises *)

\* A row reads SENT only if the broker has accepted the event, whatever
\* faults, stale snapshots and competing loops came before (drainOnce).
SentWasDelivered ==
  \A e \in Events : row[e].status = "sent" => e \in delivered

\* A row reads FAILED only after at least maxAttempts calls of publish():
\* a stale `attempts` may undercount, it never gives up early (markFailure).
NeverGivesUpEarly ==
  \A e \in Events : row[e].status = "failed" => tries[e] >= MaxAttempts

\* "Give up (mark failed) after this many attempts": an event is offered to
\* the broker at most maxAttempts times, plus once per fault that lost a mark.
TriesAreBounded ==
  \A e \in Events : tries[e] <= MaxAttempts + faults

\* stop(): "Stop the run loop after the current pass": a loop whose relay is stopped
\* ends, whatever its rows, faults and failures do to the pass - unless the relay is
\* run again before it wakes, for the loop then goes on beside the new one (run, stop).
StopEndsLoops ==
  \A l \in Loops :
    pc[l] # "off" /\ ~running[relay[l]] ~> pc[l] = "off" \/ running[relay[l]]

\* A committed event is never lost: from some point on its row stays SENT
\* or FAILED, so no retry goes on for ever and none is forgotten.
EventuallySettled ==
  \A e \in Events :
    row[e].status = "pending" ~> [](row[e].status \in Settled)

\* The relay seen from outside, for a table only one loop drains.
Delivery == INSTANCE OutboxDelivery
  WITH outcome <- [e \in Events |-> row[e].status], accepted <- delivered

ImplementsDelivery == Delivery!Spec
=============================================================================
