---------------------------- MODULE RabbitBroker ----------------------------
(***************************************************************************)
(* RabbitBroker of src/queue/broker.ts: calls of publish() and subscribe() *)
(* share a connection and a channel that ready() opens lazily, across two  *)
(* awaits; close() closes what the two fields hold at that moment.         *)
(*                                                                         *)
(* The AMQP server is modelled by what the code relies on: a message is    *)
(* held by one consumer at a time until acked or nacked, and goes back to  *)
(* the queue when the channel it was delivered on closes.  A connection    *)
(* and the channel on it are named after the call that opened them.        *)
(***************************************************************************)
EXTENDS Naturals, FiniteSets

CONSTANTS
  Publishers,   \* calls of publish(), each of one message
  Subscribers,  \* calls of subscribe(), each of one handler
  MaxCloses,    \* bound: calls of close()
  Orderly,      \* whether users keep close() apart from other calls
  None

Callers == Publishers \cup Subscribers

RabbitAssumption ==
  /\ Publishers \cap Subscribers = {}
  /\ IsFiniteSet(Subscribers)
  /\ None \notin Callers
  /\ MaxCloses \in Nat
  /\ Orderly \in BOOLEAN

VARIABLES
  pc,          \* where each call stands
  using,       \* the channel ready() gave the call
  connection,  \* this.connection
  channel,     \* this.channel
  conns,       \* connections open at the server
  chans,       \* channels open at the server
  consumers,   \* subscribers whose consume() is active
  msg,         \* state of each publisher's message
  handling,    \* deliveries whose handler runs: <<subscriber, message>>
  handled,     \* history: completed handler runs per message
  abandoned,   \* deliveries whose callback threw: neither acked nor nacked
  closing,     \* where close() stands
  closes

fields == <<connection, channel>>
server == <<conns, chans, consumers>>
vars == <<pc, using, connection, channel, conns, chans, consumers, msg, handling,
          handled, abandoned, closing, closes>>

Phase == {"idle", "connecting", "opening", "declaring", "done", "failed"}
MsgState == {"unsent", "ready", "unacked", "acked", "discarded"}

TypeOK ==
  /\ pc \in [Callers -> Phase]
  /\ using \in [Callers -> Callers \cup {None}]
  /\ connection \in Callers \cup {None}
  /\ channel \in Callers \cup {None}
  /\ conns \subseteq Callers
  /\ chans \subseteq conns
  /\ consumers \subseteq Subscribers
  /\ msg \in [Publishers -> MsgState]
  /\ handling \subseteq Subscribers \X Publishers
  /\ handled \in [Publishers -> Nat]
  /\ abandoned \subseteq Subscribers \X Publishers
  /\ closing \in {"no", "channel", "connection", "fields"}
  /\ closes \in Nat

Init ==
  /\ pc = [c \in Callers |-> "idle"]
  /\ using = [c \in Callers |-> None]
  /\ connection = None /\ channel = None
  /\ conns = {} /\ chans = {} /\ consumers = {}
  /\ msg = [m \in Publishers |-> "unsent"]
  /\ handling = {}
  /\ handled = [m \in Publishers |-> 0]
  /\ abandoned = {}
  /\ closing = "no"
  /\ closes = 0

-----------------------------------------------------------------------------
(* ready() *)

Goto(c, phase) == pc' = [pc EXCEPT ![c] = phase]

\* the open channel at once, or a connection attempt of one's own
Ready(c) ==
  /\ pc[c] = "idle"
  /\ Orderly => closing = "no"
  /\ using' = [using EXCEPT ![c] = channel]
  /\ Goto(c, IF channel # None THEN "declaring" ELSE "connecting")
  /\ UNCHANGED <<fields, server, msg, handling, handled, abandoned, closing, closes>>

\* the server is not there: the call rejects with the fields as they are
ConnectFails(c) ==
  /\ pc[c] = "connecting"
  /\ Goto(c, "failed")
  /\ UNCHANGED <<using, fields, server, msg, handling, handled, abandoned, closing, closes>>

Connect(c) ==
  /\ pc[c] = "connecting"
  /\ conns' = conns \cup {c}
  /\ connection' = c
  /\ Goto(c, "opening")
  /\ UNCHANGED <<using, channel, chans, consumers, msg, handling, handled, abandoned,
                 closing, closes>>

\* createChannel() rejects when close() has closed the connection meanwhile, or for
\* reasons of the server, and then leaves a connection without a channel
OpenChannel(c) ==
  /\ pc[c] = "opening"
  /\ \/ /\ c \in conns
        /\ chans' = chans \cup {c}
        /\ channel' = c
        /\ using' = [using EXCEPT ![c] = c]
        /\ Goto(c, "declaring")
     \/ /\ Goto(c, "failed")
        /\ UNCHANGED <<chans, channel, using>>
  /\ UNCHANGED <<connection, conns, consumers, msg, handling, handled, abandoned,
                 closing, closes>>

-----------------------------------------------------------------------------
(* publish() and subscribe() *)

\* assertQueue rejects, and so does the call, on a closed channel
Declared(c) == pc[c] = "declaring" /\ using[c] \in chans

ClosedUnder(c) ==
  /\ pc[c] = "declaring"
  /\ using[c] \notin chans
  /\ Goto(c, "failed")
  /\ UNCHANGED <<using, fields, server, msg, handling, handled, abandoned, closing, closes>>

Send(p) ==
  /\ Declared(p)
  /\ msg' = [msg EXCEPT ![p] = "ready"]
  /\ Goto(p, "done")
  /\ UNCHANGED <<using, fields, server, handling, handled, abandoned, closing, closes>>

Consume(s) ==
  /\ Declared(s)
  /\ consumers' = consumers \cup {s}
  /\ Goto(s, "done")
  /\ UNCHANGED <<using, fields, conns, chans, msg, handling, handled, abandoned,
                 closing, closes>>

\* the returned function: no further deliveries, the running handlers go on
Unsubscribe(s) ==
  /\ s \in consumers
  /\ consumers' = consumers \ {s}
  /\ UNCHANGED <<pc, using, fields, conns, chans, msg, handling, handled, abandoned,
                 closing, closes>>

\* faulty variant: the message is acknowledged before the handler is done
DeliverAcked(s, m) ==
  /\ s \in consumers
  /\ msg[m] = "ready"
  /\ <<s, m>> \notin handling
  /\ msg' = [msg EXCEPT ![m] = "acked"]
  /\ handling' = handling \cup {<<s, m>>}
  /\ UNCHANGED <<pc, using, fields, server, handled, abandoned, closing, closes>>

Deliver(s, m) ==
  /\ s \in consumers
  /\ msg[m] = "ready"
  /\ <<s, m>> \notin handling \cup abandoned
  /\ msg' = [msg EXCEPT ![m] = "unacked"]
  /\ handling' = handling \cup {<<s, m>>}
  /\ UNCHANGED <<pc, using, fields, server, handled, abandoned, closing, closes>>

\* faulty variant: whatever the outcome, the message goes back
SettleRequeues(s, m, outcome) ==
  msg' = IF using[s] \in chans THEN [msg EXCEPT ![m] = "ready"] ELSE msg

\* ack and nack need the channel of the delivery; on a closed one they throw
\* and the redelivered copy is another consumer's business
Settle(s, m, outcome) ==
  msg' = IF using[s] \in chans THEN [msg EXCEPT ![m] = outcome] ELSE msg

HandlerResolves(s, m) ==
  /\ <<s, m>> \in handling
  /\ handling' = handling \ {<<s, m>>}
  /\ handled' = [handled EXCEPT ![m] = @ + 1]
  /\ Settle(s, m, "acked")
  /\ UNCHANGED <<pc, using, fields, server, abandoned, closing, closes>>

\* faulty variant: the rejection is swallowed without a nack
HandlerRejectsSilently(s, m) ==
  /\ <<s, m>> \in handling
  /\ handling' = handling \ {<<s, m>>}
  /\ UNCHANGED <<pc, using, fields, server, msg, handled, abandoned, closing, closes>>

\* nack(msg, false, false): not requeued
HandlerRejects(s, m) ==
  /\ <<s, m>> \in handling
  /\ handling' = handling \ {<<s, m>>}
  /\ Settle(s, m, "discarded")
  /\ UNCHANGED <<pc, using, fields, server, handled, abandoned, closing, closes>>

\* the text is no JSON, or the handler throws before it returns a promise: the error
\* leaves the callback past the chain that would ack or nack, and the server holds
\* the delivery until its channel closes
HandlerThrows(s, m) ==
  /\ <<s, m>> \in handling
  /\ handling' = handling \ {<<s, m>>}
  /\ abandoned' = IF using[s] \in chans THEN abandoned \cup {<<s, m>>} ELSE abandoned
  /\ UNCHANGED <<pc, using, fields, server, msg, handled, closing, closes>>

\* the server drops the channel's consumers and requeues what was delivered on it;
\* a handler left over from a channel closed before holds nothing any more
Drop(closed) ==
  /\ chans' = chans \ closed
  /\ consumers' = {s \in consumers : using[s] \notin closed}
  /\ abandoned' = {d \in abandoned : using[d[1]] \notin closed}
  /\ msg' = [m \in Publishers |->
       IF msg[m] = "unacked" /\ \E s \in Subscribers :
            <<s, m>> \in handling \cup abandoned /\ using[s] \in closed \cap chans
       THEN "ready" ELSE msg[m]]

\* an ack on a closed channel throws, and so does the nack of the catch: unless the
\* application listens for unhandled rejections, the process ends
Dies(s, m) ==
  /\ <<s, m>> \in handling
  /\ using[s] \notin chans
  /\ Drop(chans)
  /\ conns' = {} /\ connection' = None /\ channel' = None
  /\ handling' = {}
  /\ handled' \in {handled, [handled EXCEPT ![m] = @ + 1]}
  /\ pc' = [c \in Callers |-> IF pc[c] \in {"idle", "done"} THEN pc[c] ELSE "failed"]
  /\ closing' = "no"
  /\ UNCHANGED <<using, closes>>

-----------------------------------------------------------------------------
(* close() *)

NoCallPending == \A c \in Callers : pc[c] \in {"idle", "done", "failed"}

Close ==
  /\ closing = "no"
  /\ closes < MaxCloses
  /\ Orderly => NoCallPending
  /\ closes' = closes + 1
  /\ closing' = "channel"
  /\ UNCHANGED <<pc, using, fields, server, msg, handling, handled, abandoned>>

CloseChannel ==
  /\ closing = "channel"
  /\ closing' = "connection"
  /\ Drop({channel})
  /\ UNCHANGED <<pc, using, fields, conns, handling, handled, closes>>

CloseConnection ==
  /\ closing = "connection"
  /\ closing' = "fields"
  /\ conns' = conns \ {connection}
  /\ Drop({connection})
  /\ UNCHANGED <<pc, using, fields, handling, handled, closes>>

ForgetFields ==
  /\ closing = "fields"
  /\ closing' = "no"
  /\ channel' = None /\ connection' = None
  /\ UNCHANGED <<pc, using, server, msg, handling, handled, abandoned, closes>>

-----------------------------------------------------------------------------

CallStep(c) ==
  Ready(c) \/ Connect(c) \/ ConnectFails(c) \/ OpenChannel(c) \/ ClosedUnder(c)

HandlerStep(s, m) == HandlerResolves(s, m) \/ HandlerRejects(s, m) \/ HandlerThrows(s, m)

CloseStep == CloseChannel \/ CloseConnection \/ ForgetFields

Next ==
  \/ \E c \in Callers : CallStep(c)
  \/ \E p \in Publishers : Send(p)
  \/ \E s \in Subscribers : Consume(s) \/ Unsubscribe(s)
  \/ \E s \in Subscribers, m \in Publishers : 
       Deliver(s, m) \/ HandlerStep(s, m) \/ Dies(s, m)
  \/ Close \/ CloseStep

Spec == Init /\ [][Next]_vars

\* The server answers, queued messages go to active consumers, handlers end.
Fairness ==
  /\ \A c \in Callers : WF_vars(CallStep(c))
  /\ \A p \in Publishers : WF_vars(Send(p))
  /\ \A s \in Subscribers : WF_vars(Consume(s))
  /\ \A m \in Publishers :
       /\ WF_vars(\E s \in Subscribers : Deliver(s, m))
       /\ WF_vars(\E s \in Subscribers : HandlerStep(s, m))
  /\ WF_vars(CloseStep)

FairSpec == Spec /\ Fairness

-----------------------------------------------------------------------------
(* What the users of a broker rely on *)

\* An acknowledged message was handled to the end, also when channels close and
\* messages are redelivered under running handlers (consume callback).
AckedWasHandled == \A m \in Publishers : msg[m] = "acked" => handled[m] > 0

\* Handlers complete at most once per message, plus once for each of the two things
\* a close() closes under a running handler: the channel, and the connection, which
\* need not be the one that channel is on.
RepeatsNeedAClose == \A m \in Publishers : handled[m] <= 1 + 2 * closes

Abandoned(m) == \E s \in Subscribers : <<s, m>> \in abandoned

\* A sent message is settled as long as somebody keeps consuming, unless a callback
\* throws: that delivery is neither acked nor nacked (subscribe).
SentIsSettled ==
  \A m \in Publishers :
    msg[m] = "ready" ~>
      (msg[m] \in {"acked", "discarded"} \/ consumers = {} \/ Abandoned(m))
=============================================================================
