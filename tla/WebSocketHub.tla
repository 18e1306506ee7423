---------------------------- MODULE WebSocketHub ----------------------------
(***************************************************************************)
(* WebSocketHub of src/websockets/hub.ts and attachWebSocketHub of         *)
(* src/websockets/attach.ts: a handshake is authenticated (awaited), the   *)
(* socket is registered and gets its listeners and a heartbeat, and leaves *)
(* by its own close, by eviction, by a failed send or by the heartbeat.    *)
(* The hub's methods are synchronous; sockets and timers are the           *)
(* environment.                                                            *)
(***************************************************************************)
EXTENDS Naturals, Sequences, SequencesExt, FiniteSets

CONSTANTS
  Conns,
  Users,
  MaxPerUser

WebSocketHubAssumption == MaxPerUser \in Nat \ {0}

VARIABLES
  byUser,   \* each user's connection ids, oldest first
  byId,     \* the connections of the hub
  topic,    \* connections of the hub subscribed to a topic
  sock,     \* the state of each socket
  lost,     \* peers that are gone without a close (half-open)
  pc,       \* how far attachWebSocketHub got with each socket
  alive,    \* the heartbeat's flag of each connection
  timer,    \* connections whose heartbeat timer runs
  pinged    \* history: connections pinged and not heard of since

hub == <<byUser, byId, topic>>
vars == <<hub, sock, lost, pc, alive, timer, pinged>>

TypeOK ==
  /\ byUser \in [Users -> Seq(Conns)]
  /\ byId \subseteq Conns
  /\ topic \subseteq Conns
  /\ sock \in [Conns -> {"none", "open", "closing", "closed"}]
  /\ lost \subseteq Conns
  /\ pc \in [Conns -> {"none", "authenticating", "rejected", "attached"}]
  /\ alive \in [Conns -> BOOLEAN]
  /\ timer \subseteq {c \in Conns : pc[c] = "attached"}
  /\ pinged \subseteq Conns

Init ==
  /\ byUser = [u \in Users |-> <<>>]
  /\ byId = {}
  /\ topic = {}
  /\ sock = [c \in Conns |-> "none"]
  /\ lost = {}
  /\ pc = [c \in Conns |-> "none"]
  /\ alive = [c \in Conns |-> FALSE]
  /\ timer = {}
  /\ pinged = {}

Without(seq, cs) ==
  LET kept[i \in 0 .. Len(seq)] ==
        IF i = 0 THEN <<>>
        ELSE IF seq[i] \in cs THEN kept[i - 1] ELSE Append(kept[i - 1], seq[i])
  IN kept[Len(seq)]

Shut(cs) == sock' = [c \in Conns |-> IF c \in cs /\ sock[c] = "open" THEN "closing" ELSE sock[c]]

-----------------------------------------------------------------------------
(* The hub *)

\* faulty variant: the index by user keeps the id
UnregisterById(cs) ==
  /\ byId' = byId \ cs
  /\ topic' = topic \ cs
  /\ Shut(cs \cap byId)
  /\ UNCHANGED byUser

\* unregister, of those that are registered: out of both indexes, socket closed
Unregister(cs) ==
  /\ byId' = byId \ cs
  /\ topic' = topic \ cs
  /\ byUser' = [u \in Users |-> Without(byUser[u], cs)]
  /\ Shut(cs \cap byId)

\* register: over the cap, the user's oldest connection goes
Register(c, u) ==
  LET ids == Append(byUser[u], c)
      evicted == IF Len(ids) > MaxPerUser THEN {Head(ids)} ELSE {}
  IN /\ byId' = (byId \cup {c}) \ evicted
     /\ byUser' = [byUser EXCEPT ![u] = Without(ids, evicted)]
     /\ topic' = topic \ evicted
     /\ Shut(evicted)

Subscribe(c) ==
  /\ c \in byId
  /\ topic' = topic \cup {c}
  /\ UNCHANGED <<byUser, byId, sock, lost, pc, alive, timer, pinged>>

Unsubscribe(c) ==
  /\ c \in byId
  /\ topic' = topic \ {c}
  /\ UNCHANGED <<byUser, byId, sock, lost, pc, alive, timer, pinged>>

\* sendTo and broadcast: whoever's send throws is unregistered; an open socket
\* takes the frame, another may throw or drop it
Deliver(targets) ==
  /\ \E failed \in SUBSET {c \in targets : sock[c] # "open"} : Unregister(failed)
  /\ UNCHANGED <<lost, pc, alive, timer, pinged>>

SendTo(u) == Deliver(Range(byUser[u]))
Broadcast == Deliver(byId)
BroadcastTopic == Deliver(topic)

-----------------------------------------------------------------------------
(* attachWebSocketHub *)

Connect(c) ==
  /\ pc[c] = "none"
  /\ pc' = [pc EXCEPT ![c] = "authenticating"]
  /\ sock' = [sock EXCEPT ![c] = "open"]
  /\ UNCHANGED <<hub, lost, alive, timer, pinged>>

Reject(c) ==
  /\ pc[c] = "authenticating"
  /\ pc' = [pc EXCEPT ![c] = "rejected"]
  /\ Shut({c})
  /\ UNCHANGED <<hub, lost, alive, timer, pinged>>

\* faulty variant: the flag starts down
AttachDead(c, u) ==
  /\ pc[c] = "authenticating"
  /\ pc' = [pc EXCEPT ![c] = "attached"]
  /\ Register(c, u)
  /\ alive' = [alive EXCEPT ![c] = FALSE]
  /\ timer' = timer \cup {c}
  /\ UNCHANGED <<lost, pinged>>

\* the handshake is accepted: the socket is registered, whatever became of it
\* meanwhile, and only now listened to
Attach(c, u) ==
  /\ pc[c] = "authenticating"
  /\ pc' = [pc EXCEPT ![c] = "attached"]
  /\ Register(c, u)
  /\ alive' = [alive EXCEPT ![c] = TRUE]
  /\ timer' = timer \cup {c}
  /\ UNCHANGED <<lost, pinged>>

\* faulty variant: the heartbeat stops but the connection stays
BeatStops(c) ==
  /\ c \in timer
  /\ IF alive[c]
       THEN /\ alive' = [alive EXCEPT ![c] = FALSE]
            /\ pinged' = pinged \cup {c}
            /\ UNCHANGED <<hub, sock, timer>>
       ELSE /\ timer' = timer \ {c}
            /\ UNCHANGED <<hub, sock, alive, pinged>>
  /\ UNCHANGED <<lost, pc>>

\* the interval: a connection that did not answer the last ping is dropped
Beat(c) ==
  /\ c \in timer
  /\ IF alive[c]
       THEN /\ alive' = [alive EXCEPT ![c] = FALSE]
            /\ pinged' = pinged \cup {c}
            /\ UNCHANGED <<hub, sock, timer>>
       ELSE /\ timer' = timer \ {c}
            /\ Unregister({c})
            /\ UNCHANGED <<alive, pinged>>
  /\ UNCHANGED <<lost, pc>>

Pong(c) ==
  /\ pc[c] = "attached"
  /\ sock[c] \in {"open", "closing"}
  /\ c \in pinged \ lost
  /\ alive' = [alive EXCEPT ![c] = TRUE]
  /\ pinged' = pinged \ {c}
  /\ UNCHANGED <<hub, sock, lost, pc, timer>>

\* The socket's "close": by the peer, or the end of a close begun here.  Before
\* Attach nobody listens.
Closed(c) ==
  /\ \/ sock[c] = "open" /\ c \notin lost
     \/ sock[c] = "closing"
  /\ IF pc[c] = "attached"
       THEN /\ byId' = byId \ {c}
            /\ topic' = topic \ {c}
            /\ byUser' = [u \in Users |-> Without(byUser[u], {c})]
            /\ alive' = [alive EXCEPT ![c] = FALSE]
            /\ timer' = timer \ {c}
       ELSE UNCHANGED <<hub, alive, timer>>
  /\ sock' = [sock EXCEPT ![c] = "closed"]
  /\ UNCHANGED <<lost, pc, pinged>>

\* the peer's network goes down: nothing is heard of it any more
Vanish(c) ==
  /\ sock[c] = "open"
  /\ lost' = lost \cup {c}
  /\ UNCHANGED <<hub, sock, pc, alive, timer, pinged>>

-----------------------------------------------------------------------------

ConnStep(c) ==
  \/ Connect(c)
  \/ Reject(c)
  \/ \E u \in Users : Attach(c, u)
  \/ Subscribe(c)
  \/ Unsubscribe(c)
  \/ Beat(c)
  \/ Pong(c)
  \/ Closed(c)
  \/ Vanish(c)

Next ==
  \/ \E c \in Conns : ConnStep(c)
  \/ \E u \in Users : SendTo(u)
  \/ Broadcast
  \/ BroadcastTopic

\* intervals fire; peers and senders owe nothing
Fairness == \A c \in Conns : WF_vars(Beat(c))

Spec == Init /\ [][Next]_vars /\ Fairness

-----------------------------------------------------------------------------

\* The two indexes hold the same connections, each under one user and once.
IndexesAgree ==
  /\ byId = UNION {Range(byUser[u]) : u \in Users}
  /\ \A u, v \in Users : \A i \in DOMAIN byUser[u], j \in DOMAIN byUser[v] :
       byUser[u][i] = byUser[v][j] => u = v /\ i = j

\* The heartbeat drops nobody it has not pinged.
DroppedWasPinged == \A c \in Conns : c \in timer /\ ~alive[c] => c \in pinged

\* "drop half-open peers": with a heartbeat, a connection whose peer has gone,
\* with or without a close, leaves the hub.
DeadAreDropped ==
  \A c \in Conns : (c \in byId /\ (c \in lost \/ sock[c] = "closed")) ~> c \notin byId

\* onlineUsers: "users with at least one live connection"
OnlineIsLive == \A c \in byId : sock[c] # "closed"
=============================================================================
