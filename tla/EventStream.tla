---------------------------- MODULE EventStream -----------------------------
(***************************************************************************)
(* The SSE path of one channel, src/sse: SSEBroker fans a published event  *)
(* out to the EventStream of every subscriber, and sseResponse drains a    *)
(* stream into its response until the client goes.  Publishers, timers and *)
(* disconnects are other callbacks of the event loop: they run whenever    *)
(* the stream's iterator is suspended, at a yield or at its await.         *)
(* The route follows docs/recipes/realtime.en.md:50: register, unregister  *)
(* on the request's "close", sseResponse.                                  *)
(***************************************************************************)
EXTENDS Naturals, Sequences, SequencesExt

CONSTANTS
  Streams,          \* one per subscriber
  MaxMessages,      \* bound: events published to the channel
  Null

EventStreamAssumption ==
  /\ Null \notin Nat
  /\ MaxMessages \in Nat

Ping == 0
Messages == 1..MaxMessages

VARIABLES
  members,   \* streams in the broker's set of the channel
  gone,      \* streams whose client has disconnected
  queue,     \* encoded events waiting in each stream
  closed,    \* each stream's closed flag
  waiter,    \* whether the stream holds an unresolved deferred
  iter,      \* where each stream's iterator stands
  woken,     \* whether the deferred the iterator awaits was resolved
  beat,      \* whether the heartbeat timer it races with has fired
  chunk,     \* what the iterator has yielded and sseResponse not yet written
  written,   \* the events written to each response, heartbeats apart
  accepted,  \* history: the events pushed onto each stream
  published  \* events published so far

streamVars == <<queue, closed, waiter, woken>>
iterVars == <<iter, beat, chunk, written>>
vars == <<members, gone, streamVars, iterVars, accepted, published>>

Stage == {"unborn", "registered", "loop", "yielding", "waiting", "ended"}

TypeOK ==
  /\ members \subseteq Streams
  /\ gone \subseteq Streams
  /\ queue \in [Streams -> Seq(Messages)]
  /\ closed \in [Streams -> BOOLEAN]
  /\ waiter \in [Streams -> BOOLEAN]
  /\ iter \in [Streams -> Stage]
  /\ woken \in [Streams -> BOOLEAN]
  /\ beat \in [Streams -> BOOLEAN]
  /\ chunk \in [Streams -> Messages \cup {Ping, Null}]
  /\ written \in [Streams -> Seq(Messages)]
  /\ accepted \in [Streams -> Seq(Messages)]
  /\ published \in 0..MaxMessages

Init ==
  /\ members = {}
  /\ gone = {}
  /\ queue = [s \in Streams |-> <<>>]
  /\ closed = [s \in Streams |-> FALSE]
  /\ waiter = [s \in Streams |-> FALSE]
  /\ iter = [s \in Streams |-> "unborn"]
  /\ woken = [s \in Streams |-> FALSE]
  /\ beat = [s \in Streams |-> FALSE]
  /\ chunk = [s \in Streams |-> Null]
  /\ written = [s \in Streams |-> <<>>]
  /\ accepted = [s \in Streams |-> <<>>]
  /\ published = 0

-----------------------------------------------------------------------------
(* SSEBroker and EventStream.push *)

Register(s) ==
  /\ iter[s] = "unborn"
  /\ members' = members \cup {s}
  /\ iter' = [iter EXCEPT ![s] = "registered"]
  /\ UNCHANGED <<gone, streamVars, beat, chunk, written, accepted, published>>

\* faulty variant: the event is queued and the waiter forgotten, not resolved
PushQuietly(targets, m) ==
  /\ queue' = [s \in Streams |-> IF s \in targets THEN Append(queue[s], m) ELSE queue[s]]
  /\ accepted' = [s \in Streams |-> IF s \in targets THEN Append(accepted[s], m) ELSE accepted[s]]
  /\ waiter' = [s \in Streams |-> waiter[s] /\ s \notin targets]
  /\ UNCHANGED woken

\* EventStream.push on open streams: the event is queued, the iterator woken
Push(targets, m) ==
  /\ queue' = [s \in Streams |-> IF s \in targets THEN Append(queue[s], m) ELSE queue[s]]
  /\ accepted' = [s \in Streams |-> IF s \in targets THEN Append(accepted[s], m) ELSE accepted[s]]
  /\ woken' = [s \in Streams |-> woken[s] \/ (s \in targets /\ waiter[s])]
  /\ waiter' = [s \in Streams |-> waiter[s] /\ s \notin targets]

\* every member of the channel is pushed to; a closed one drops the event
Publish ==
  /\ published < MaxMessages
  /\ published' = published + 1
  /\ Push({s \in members : ~closed[s]}, published + 1)
  /\ UNCHANGED <<members, gone, closed, iterVars>>

\* faulty variant: closing empties the queue
CloseStreamNow(s) ==
  /\ closed' = [closed EXCEPT ![s] = TRUE]
  /\ woken' = [woken EXCEPT ![s] = @ \/ waiter[s]]
  /\ waiter' = [waiter EXCEPT ![s] = FALSE]
  /\ queue' = [queue EXCEPT ![s] = <<>>]

\* EventStream.close: idempotent, wakes the iterator
CloseStream(s) ==
  /\ closed' = [closed EXCEPT ![s] = TRUE]
  /\ woken' = [woken EXCEPT ![s] = @ \/ waiter[s]]
  /\ waiter' = [waiter EXCEPT ![s] = FALSE]
  /\ UNCHANGED queue

\* The request's "close": the route's listener unregisters the stream and
\* sseResponse's closes it.  A request that is over before the handler attaches
\* them emits nothing more.
ClientGoes(s) ==
  /\ s \notin gone
  /\ gone' = gone \cup {s}
  /\ IF iter[s] \in {"unborn", "registered"}
       THEN UNCHANGED <<members, streamVars>>
       ELSE /\ members' = members \ {s}
            /\ CloseStream(s)
  /\ UNCHANGED <<iterVars, accepted, published>>

\* the application removes a subscriber, which also closes its stream
Unregister(s) ==
  /\ s \in members
  /\ members' = members \ {s}
  /\ CloseStream(s)
  /\ UNCHANGED <<gone, iterVars, accepted, published>>

-----------------------------------------------------------------------------
(* The iterator of stream() and the loop of sseResponse *)

Serve(s) ==
  /\ iter[s] = "registered"
  /\ iter' = [iter EXCEPT ![s] = "loop"]
  /\ UNCHANGED <<members, gone, streamVars, beat, chunk, written, accepted, published>>

\* faulty variant: the newest event is taken first
TakeLast(s) ==
  /\ iter[s] = "loop"
  /\ queue[s] # <<>>
  /\ chunk' = [chunk EXCEPT ![s] = Last(queue[s])]
  /\ queue' = [queue EXCEPT ![s] = Front(@)]
  /\ iter' = [iter EXCEPT ![s] = "yielding"]
  /\ UNCHANGED <<members, gone, closed, waiter, woken, beat, written, accepted, published>>

Take(s) ==
  /\ iter[s] = "loop"
  /\ queue[s] # <<>>
  /\ chunk' = [chunk EXCEPT ![s] = Head(queue[s])]
  /\ queue' = [queue EXCEPT ![s] = Tail(@)]
  /\ iter' = [iter EXCEPT ![s] = "yielding"]
  /\ UNCHANGED <<members, gone, closed, waiter, woken, beat, written, accepted, published>>

Write(s) ==
  /\ iter[s] = "yielding"
  /\ written' = IF chunk[s] = Ping THEN written
                ELSE [written EXCEPT ![s] = Append(@, chunk[s])]
  /\ chunk' = [chunk EXCEPT ![s] = Null]
  /\ iter' = [iter EXCEPT ![s] = "loop"]
  /\ UNCHANGED <<members, gone, streamVars, beat, accepted, published>>

\* nothing to yield: a fresh deferred, and the race with a fresh timer
Await(s) ==
  /\ iter[s] = "loop"
  /\ queue[s] = <<>>
  /\ ~closed[s]
  /\ waiter' = [waiter EXCEPT ![s] = TRUE]
  /\ woken' = [woken EXCEPT ![s] = FALSE]
  /\ beat' = [beat EXCEPT ![s] = FALSE]
  /\ iter' = [iter EXCEPT ![s] = "waiting"]
  /\ UNCHANGED <<members, gone, queue, closed, chunk, written, accepted, published>>

\* the constructor's `?? 15` leaves no stream without a heartbeat
HeartbeatFires(s) ==
  /\ iter[s] = "waiting"
  /\ ~beat[s]
  /\ beat' = [beat EXCEPT ![s] = TRUE]
  /\ UNCHANGED <<members, gone, streamVars, iter, chunk, written, accepted, published>>

\* the await is over; a ping only if there is still nothing to say
Resume(s) ==
  /\ iter[s] = "waiting"
  /\ woken[s] \/ beat[s]
  /\ IF queue[s] = <<>> /\ ~closed[s]
       THEN /\ chunk' = [chunk EXCEPT ![s] = Ping]
            /\ iter' = [iter EXCEPT ![s] = "yielding"]
       ELSE /\ iter' = [iter EXCEPT ![s] = "loop"]
            /\ UNCHANGED chunk
  /\ UNCHANGED <<members, gone, streamVars, beat, written, accepted, published>>

End(s) ==
  /\ iter[s] = "loop"
  /\ closed[s]
  /\ queue[s] = <<>>
  /\ iter' = [iter EXCEPT ![s] = "ended"]
  /\ UNCHANGED <<members, gone, streamVars, beat, chunk, written, accepted, published>>

IteratorStep(s) ==
  \/ Serve(s)
  \/ Take(s)
  \/ Write(s)
  \/ Await(s)
  \/ Resume(s)
  \/ End(s)

Next ==
  \/ Publish
  \/ \E s \in Streams :
       \/ Register(s)
       \/ ClientGoes(s)
       \/ Unregister(s)
       \/ HeartbeatFires(s)
       \/ IteratorStep(s)

\* Promise continuations of a running process always get their turn; clients,
\* publishers and timers owe nothing.
Fairness == \A s \in Streams : WF_vars(IteratorStep(s))

Spec == Init /\ [][Next]_vars /\ Fairness

-----------------------------------------------------------------------------

Yielded(s) == IF chunk[s] \in Messages THEN <<chunk[s]>> ELSE <<>>

\* What a stream accepted is written, yielded or queued, once each and in order:
\* no interleaving of push, close and heartbeat loses or reorders an event.
FifoLossless ==
  \A s \in Streams :
    accepted[s] = written[s] \o Yielded(s) \o queue[s]

\* A suspended iterator with something to do has been woken, and one that has
\* not been woken is the one the stream's waiter field will wake.
NoLostWakeup ==
  \A s \in Streams :
    /\ iter[s] = "waiting" /\ (queue[s] # <<>> \/ closed[s]) => woken[s]
    /\ iter[s] = "waiting" /\ ~woken[s] => waiter[s]

\* "Close the stream; the iterator finishes after draining."
CloseDrains ==
  \A s \in Streams :
    (closed[s] /\ iter[s] \notin {"unborn", "registered"})
      ~> (iter[s] = "ended" /\ written[s] = accepted[s])
=============================================================================
