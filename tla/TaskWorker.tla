----------------------------- MODULE TaskWorker -----------------------------
(***************************************************************************)
(* The worker of src/tasks/manager.ts: start() subscribes to the task      *)
(* queue and keeps the unsubscribe function in a field, stop() calls what  *)
(* the field holds and clears it.  Both await the broker in between, so    *)
(* calls overlap; a consumer is named after the start() that made it.      *)
(*                                                                         *)
(* Tasks ride on a broker that hands each message to one consumer (a       *)
(* RabbitMQ queue).  A task nobody registered is logged and skipped.       *)
(***************************************************************************)
EXTENDS Naturals, FiniteSets

CONSTANTS
  Starts,      \* calls of start()
  Stops,       \* calls of stop()
  Tasks,       \* enqueued envelopes
  Registered,  \* those with a handler in this process
  Serial,      \* whether every call waits for the one before
  None

Calls == Starts \cup Stops

TaskWorkerAssumption ==
  /\ Starts \cap Stops = {}
  /\ None \notin Starts
  /\ Registered \subseteq Tasks
  /\ Serial \in BOOLEAN

VARIABLES
  unsubscribe,  \* the field: the consumer whose unsubscribe function it holds
  consumers,    \* consumers active at the broker
  pc,           \* where each call stands
  target,       \* the consumer each stop() is unsubscribing
  task          \* state of each task

vars == <<unsubscribe, consumers, pc, target, task>>

Phase == {"idle", "subscribing", "assigning", "cancelling", "clearing", "done", "failed"}
TaskState == {"unsent", "queued", "ran", "skipped"}

TypeOK ==
  /\ unsubscribe \in Starts \cup {None}
  /\ consumers \subseteq Starts
  /\ pc \in [Calls -> Phase]
  /\ target \in [Stops -> Starts \cup {None}]
  /\ task \in [Tasks -> TaskState]

Init ==
  /\ unsubscribe = None
  /\ consumers = {}
  /\ pc = [c \in Calls |-> "idle"]
  /\ target = [c \in Stops |-> None]
  /\ task = [t \in Tasks |-> "unsent"]

Pending == {c \in Calls : pc[c] \notin {"idle", "done", "failed"}}
MayCall(c) == pc[c] = "idle" /\ (Serial => Pending = {})
Goto(c, phase) == pc' = [pc EXCEPT ![c] = phase]

-----------------------------------------------------------------------------

Start(c) ==
  /\ MayCall(c)
  /\ Goto(c, IF unsubscribe # None THEN "done" ELSE "subscribing")
  /\ UNCHANGED <<unsubscribe, consumers, target, task>>

\* the broker has the consumer before the caller has the answer
Subscribe(c) ==
  /\ pc[c] = "subscribing"
  /\ consumers' = consumers \cup {c}
  /\ Goto(c, "assigning")
  /\ UNCHANGED <<unsubscribe, target, task>>

\* a subscription that is refused leaves no consumer, and start() rejects
SubscribeFails(c) ==
  /\ pc[c] = "subscribing"
  /\ Goto(c, "failed")
  /\ UNCHANGED <<unsubscribe, consumers, target, task>>

Assign(c) ==
  /\ pc[c] = "assigning"
  /\ unsubscribe' = c
  /\ Goto(c, "done")
  /\ UNCHANGED <<consumers, target, task>>

\* with nothing to unsubscribe the await is of undefined, and the field is
\* cleared all the same
Stop(c) ==
  /\ MayCall(c)
  /\ target' = [target EXCEPT ![c] = unsubscribe]
  /\ Goto(c, IF unsubscribe # None THEN "cancelling" ELSE "clearing")
  /\ UNCHANGED <<unsubscribe, consumers, task>>

Cancel(c) ==
  /\ pc[c] = "cancelling"
  /\ consumers' = consumers \ {target[c]}
  /\ Goto(c, "clearing")
  /\ UNCHANGED <<unsubscribe, target, task>>

\* the unsubscribe function rejects, say because the channel was closed, which took
\* the consumer with it, or because the answer was lost: stop() rejects before it
\* clears the field
CancelFails(c) ==
  /\ pc[c] = "cancelling"
  /\ consumers' \in {consumers, consumers \ {target[c]}}
  /\ Goto(c, "failed")
  /\ UNCHANGED <<unsubscribe, target, task>>

\* faulty variant: the field is left, so the next start() returns early
ClearNothing(c) ==
  /\ pc[c] = "clearing"
  /\ Goto(c, "done")
  /\ UNCHANGED <<unsubscribe, consumers, target, task>>

Clear(c) ==
  /\ pc[c] = "clearing"
  /\ unsubscribe' = None
  /\ Goto(c, "done")
  /\ UNCHANGED <<consumers, target, task>>

-----------------------------------------------------------------------------

Enqueue(t) ==
  /\ task[t] = "unsent"
  /\ task' = [task EXCEPT ![t] = "queued"]
  /\ UNCHANGED <<unsubscribe, consumers, pc, target>>

Dispatch(t) ==
  /\ task[t] = "queued"
  /\ consumers # {}
  /\ task' = [task EXCEPT ![t] = IF t \in Registered THEN "ran" ELSE "skipped"]
  /\ UNCHANGED <<unsubscribe, consumers, pc, target>>

StartStep(c) == Subscribe(c) \/ SubscribeFails(c) \/ Assign(c)
StopStep(c) == Cancel(c) \/ CancelFails(c) \/ Clear(c)

Next ==
  \/ \E c \in Starts : Start(c) \/ StartStep(c)
  \/ \E c \in Stops : Stop(c) \/ StopStep(c)
  \/ \E t \in Tasks : Enqueue(t) \/ Dispatch(t)

Spec == Init /\ [][Next]_vars

-----------------------------------------------------------------------------

\* a stop() that rejected left a consumer in the field that may be gone
StopFailedOn(consumer) == \E c \in Stops : pc[c] = "failed" /\ target[c] = consumer

\* A field that holds a consumer holds an active one, however calls overlap and
\* fail - but for a consumer on which a stop() rejected (start, stop).
FieldIsActive ==
  Pending = {} /\ unsubscribe # None =>
    unsubscribe \in consumers \/ StopFailedOn(unsubscribe)

\* Between calls in turn, some of which fail, nothing is consumed but by the consumer
\* in the field, which stop() can reach (start, stop).
FieldTellsTheTruth == FieldIsActive /\ (Pending = {} => consumers \subseteq {unsubscribe})
=============================================================================
