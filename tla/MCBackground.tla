---------------------------- MODULE MCBackground ----------------------------
(***************************************************************************)
(* Work that goes on without a client waiting, for TLC: the RabbitMQ       *)
(* broker, the in-memory broker, a task worker whose calls of start() and  *)
(* stop() wait for each other or not, the job table, and calls to another  *)
(* service behind a circuit breaker.  A behaviour exercises the one `part` *)
(* names.                                                                  *)
(***************************************************************************)
EXTENDS Naturals

CONSTANTS
  None, NoJob,
  Publishers, Subscribers, MaxCloses,         \* RabbitBroker
  Subs, Pubs,                                 \* MemoryBroker
  Starts, Stops, Tasks, Registered,           \* TaskWorker
  Jobs, Workers, Operators, MaxAttempts, MaxCrashes,  \* Jobs
  Requests, MaxRetries, BaseDelay, Timeout, BreakerThreshold, BreakerCooldown
                                              \* HttpBreaker

VARIABLES
  part,
  \* RabbitBroker
  pc, using, connection, channel, conns, chans, consumers, msg, handling, handled,
  abandoned, closing, closes,
  \* MemoryBroker
  current, members, object, live, todo, pub, owed, reached,
  \* TaskWorker
  unsubscribe, workers, callPc, target, task,
  \* Jobs
  row, queue, holding, cancelling, crashes,
  \* HttpBreaker
  failures, openFor, stage, attempt, timer, streak

rabbit == <<pc, using, connection, channel, conns, chans, consumers, msg, handling,
            handled, abandoned, closing, closes>>
memory == <<current, members, object, live, todo, pub, owed, reached>>
worker == <<unsubscribe, workers, callPc, target, task>>
jobs == <<row, queue, holding, cancelling, crashes>>
client == <<failures, openFor, stage, attempt, timer, streak>>
vars == <<part, rabbit, memory, worker, jobs, client>>

Rabbit == INSTANCE RabbitBroker WITH Orderly <- FALSE

Memory == INSTANCE MemoryBroker WITH Tidy <- TRUE

Worker == INSTANCE TaskWorker WITH Serial <- TRUE, consumers <- workers, pc <- callPc
Hurried == INSTANCE TaskWorker WITH Serial <- FALSE, consumers <- workers, pc <- callPc

Table == INSTANCE Jobs

Client == INSTANCE HttpBreaker WITH pc <- stage

ASSUME BackgroundAssumption ==
  /\ Rabbit!RabbitAssumption /\ Memory!MemoryBrokerAssumption
  /\ Worker!TaskWorkerAssumption /\ Hurried!TaskWorkerAssumption
  /\ Table!JobsAssumption /\ Client!HttpBreakerAssumption

Init ==
  /\ part \in {"rabbit", "memory", "worker", "hurried", "jobs", "client"}
  /\ Rabbit!Init /\ Memory!Init /\ Worker!Init /\ Table!Init /\ Client!Init

RabbitNext ==
  part = "rabbit" /\ Rabbit!Next /\ UNCHANGED <<part, memory, worker, jobs, client>>
MemoryNext ==
  part = "memory" /\ Memory!Next /\ UNCHANGED <<part, rabbit, worker, jobs, client>>
WorkerNext ==
  part = "worker" /\ Worker!Next /\ UNCHANGED <<part, rabbit, memory, jobs, client>>
HurriedNext ==
  part = "hurried" /\ Hurried!Next /\ UNCHANGED <<part, rabbit, memory, jobs, client>>
JobsNext ==
  part = "jobs" /\ Table!Next /\ UNCHANGED <<part, rabbit, memory, worker, client>>
ClientNext ==
  part = "client" /\ Client!Next /\ UNCHANGED <<part, rabbit, memory, worker, jobs>>

Next == RabbitNext \/ MemoryNext \/ WorkerNext \/ HurriedNext \/ JobsNext \/ ClientNext

\* the fairness of RabbitBroker, Jobs and HttpBreaker, each for its own behaviours
Fairness ==
  /\ \A c \in Publishers \cup Subscribers :
       WF_rabbit(part = "rabbit" /\ Rabbit!CallStep(c))
  /\ \A s \in Subscribers : WF_rabbit(part = "rabbit" /\ Rabbit!Consume(s))
  /\ \A p \in Publishers :
       /\ WF_rabbit(part = "rabbit" /\ Rabbit!Send(p))
       /\ WF_rabbit(part = "rabbit" /\ \E s \in Subscribers : Rabbit!Deliver(s, p))
       /\ WF_rabbit(part = "rabbit" /\ \E s \in Subscribers : Rabbit!HandlerStep(s, p))
  /\ WF_rabbit(part = "rabbit" /\ Rabbit!CloseStep)
  /\ \A w \in Workers : WF_jobs(part = "jobs" /\ (Table!Succeed(w) \/ Table!Fail(w)))
  /\ WF_jobs(part = "jobs" /\ \E w \in Workers, j \in Jobs : Table!Start(w, j))
  /\ \A o \in Operators : WF_jobs(part = "jobs" /\ Table!CancelWrite(o))
  /\ WF_client(part = "client" /\ Client!Tick)
  /\ \A q \in Requests : /\ WF_client(part = "client" /\ Client!TimesOut(q))
                          /\ WF_client(part = "client" /\ Client!Wakes(q))

Spec == Init /\ [][Next]_vars /\ Fairness

-----------------------------------------------------------------------------

\* An acknowledged message was handled to the end, also when channels close and
\* messages are redelivered under running handlers, and handlers complete at most
\* once per message, plus once each time a close() put it back on the queue under a
\* running handler, which closing the channel and closing the connection may both
\* do (RabbitBroker.subscribe, close).
AckedWasHandled ==
  part = "rabbit" => Rabbit!TypeOK /\ Rabbit!AckedWasHandled /\ Rabbit!RepeatsNeedAClose

\* A publish that resolves ran every handler that was subscribed when it was
\* called, even if some left or a close() came while it awaited the others, and
\* a live subscription stays in the map (MemoryBroker).
ResolvedReachedAll ==
  part = "memory" => Memory!TypeOK /\ Memory!LiveIsServed /\ Memory!ResolvedReachedAll

\* Between the calls of start() and stop(), some of which reject, nothing is consumed
\* but by the consumer in the worker's field, and that one is active unless a stop()
\* rejected on it; of these the latter holds of calls that overlap too (TaskManager).
FieldTellsTheTruth ==
  /\ part = "worker" => Worker!TypeOK /\ Worker!FieldTellsTheTruth
  /\ part = "hurried" => Hurried!TypeOK /\ Hurried!FieldIsActive

\* "a status without a finishedAt is the kind of half-written row that makes a
\* history screen lie", and a SUCCEEDED row shows a result and no error, whatever
\* attempts, cancellations and dead workers it went through (JobStore).
TerminalRowsAreWhole ==
  part = "jobs" => Table!TypeOK /\ Table!TerminalIsDated /\ Table!SucceededIsClean

\* "after N consecutive failures the breaker opens": however the requests
\* interleave, it is open only after that many failed attempts in a row; and no
\* request returns a response to be retried, or throws, before its retries are used
\* (HTTPClient.request).
BreakerIsFair ==
  part = "client" => Client!TypeOK /\ Client!OpenIsEarned /\ Client!RetriesAreUsed

\* What was begun comes to an end: a message on the queue is acknowledged or
\* discarded as long as somebody keeps consuming and no callback throws, neither a
\* handler that rejects nor a close() leaving it between; a job's row ends terminal; a request to another
\* service is settled, whether that answers or not.
WorkEnds == Rabbit!SentIsSettled /\ Table!EndsTerminal /\ Client!Settles
=============================================================================
