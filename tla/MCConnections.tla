---------------------------- MODULE MCConnections ----------------------------
(***************************************************************************)
(* What a server is connected to, for TLC: the requests in flight that a   *)
(* graceful shutdown waits for (this module extends Graceful), the         *)
(* WebSocket hub, and the event streams of one channel in one process.     *)
(* They share nothing: a behaviour exercises the one `part` names, and the *)
(* others rest in their initial state.                                     *)
(***************************************************************************)
EXTENDS Graceful

CONSTANTS
  Sockets, Users, MaxPerUser,  \* WebSocketHub
  Streams, MaxMessages, Null   \* EventStream

VARIABLES
  part,
  \* WebSocketHub
  byUser, byId, topic, sock, lost, stage, alive, timer, pinged,
  \* EventStream
  members, gone, queue, closed, waiter, iter, woken, beat, chunk, written,
  accepted, published

sockets == <<byUser, byId, topic, sock, lost, stage, alive, timer, pinged>>
channel == <<members, gone, queue, closed, waiter, iter, woken, beat, chunk, written,
             accepted, published>>

Hub == INSTANCE WebSocketHub WITH Conns <- Sockets, pc <- stage

Channel == INSTANCE EventStream

ASSUME ConnectionsAssumption ==
  Hub!WebSocketHubAssumption /\ Channel!EventStreamAssumption

MCInit ==
  /\ part \in {"drain", "sockets", "channel"}
  /\ Init /\ Hub!Init /\ Channel!Init

DrainNext == part = "drain" /\ Next /\ UNCHANGED <<sockets, channel>>
SocketsNext == part = "sockets" /\ Hub!Next /\ UNCHANGED <<vars, channel>>
ChannelNext == part = "channel" /\ Channel!Next /\ UNCHANGED <<vars, sockets>>

MCNext == UNCHANGED part /\ (DrainNext \/ SocketsNext \/ ChannelNext)

\* the fairness of Graceful, WebSocketHub and EventStream, each for its own behaviours
MCFairness ==
  /\ \A q \in Requests : WF_vars(part = "drain" /\ (Finish(q) \/ Close(q)))
  /\ \A c \in Sockets : WF_sockets(part = "sockets" /\ Hub!Beat(c))
  /\ \A s \in Streams : WF_channel(part = "channel" /\ Channel!IteratorStep(s))

MCSpec == MCInit /\ [][MCNext]_<<part, vars, sockets, channel>> /\ MCFairness

-----------------------------------------------------------------------------

\* The hub's two indexes hold the same connections, each under one user and once,
\* whichever of four ways one leaves by; and the heartbeat drops nobody it has not
\* pinged (WebSocketHub, attachWebSocketHub).
HubIsSound == Hub!TypeOK /\ Hub!IndexesAgree /\ Hub!DroppedWasPinged

\* "drop half-open peers": with a heartbeat, a connection whose peer has gone, with
\* or without a close, leaves the hub.
DeadAreDropped == Hub!DeadAreDropped

\* What a stream accepted is written, yielded or queued, once each and in order: no
\* interleaving of push, close and heartbeat loses or reorders an event.  Nor does
\* one lose a wakeup: a suspended iterator with something to do has been woken, and
\* one that has not is the one the stream's waiter field will wake.
FifoLossless == Channel!TypeOK /\ Channel!FifoLossless /\ Channel!NoLostWakeup

\* "Close the stream; the iterator finishes after draining."
CloseDrains == Channel!CloseDrains
=============================================================================
