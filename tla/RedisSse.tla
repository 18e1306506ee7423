------------------------------ MODULE RedisSse ------------------------------
(***************************************************************************)
(* RedisSSEBroker of src/sse/redisBroker.ts: one channel over several      *)
(* replicas.  A replica subscribes to Redis for its first local stream and *)
(* unsubscribes after its last; both are awaited, so registrations and     *)
(* removals of other requests run in between.  A set that was replaced in  *)
(* the map stays with whoever holds it: sets are numbered.                 *)
(***************************************************************************)
EXTENDS Naturals, Sequences, Functions

CONSTANTS
  Replicas,
  Streams,
  Home,         \* the replica each stream is registered at
  Orderly,      \* whether a replica's calls wait for each other
  MaxMessages,  \* bound: events published
  MaxFaults     \* bound: SUBSCRIBE commands that fail

RedisSseAssumption ==
  /\ Home \in [Streams -> Replicas]
  /\ Orderly \in BOOLEAN
  /\ MaxMessages \in Nat
  /\ MaxFaults \in Nat

VARIABLES
  current,     \* the number of the set in each replica's map, 0 when there is none
  sets,        \* sets made so far, over all replicas
  object,      \* the set each register call works on
  members,     \* streams that are in their set
  pc,          \* where each stream's register call stands
  cmds,        \* commands on their way to Redis, per subscriber connection
  wire,        \* replies and messages on their way back
  subscribed,  \* replicas Redis sends the channel to
  listeners,   \* listeners each subscriber client calls per message
  got,         \* events pushed onto each stream
  due,         \* history: events published while the stream was registered
  published,
  faults

localVars == <<current, sets, object, members, pc>>
redisVars == <<cmds, wire, subscribed, listeners>>
vars == <<localVars, redisVars, got, due, published, faults>>

Messages == 1..MaxMessages
Stage == {"idle", "subscribing", "joining", "live", "failed", "gone"}
Command == [op : {"subscribe"}, by : Streams] \cup [op : {"unsubscribe"}]
Reply == [op : {"subscribed"}, by : Streams] \cup [op : {"unsubscribed"}]
           \cup [op : {"message"}, id : Messages]

TypeOK ==
  /\ current \in [Replicas -> Nat]
  /\ sets \in Nat
  /\ object \in [Streams -> 0..sets]
  /\ members \subseteq Streams
  /\ pc \in [Streams -> Stage]
  /\ cmds \in [Replicas -> Seq(Command)]
  /\ wire \in [Replicas -> Seq(Reply)]
  /\ subscribed \subseteq Replicas
  /\ listeners \in [Replicas -> Nat]
  /\ got \in [Streams -> Seq(Messages)]
  /\ due \in [Streams -> SUBSET Messages]
  /\ published \in 0..MaxMessages
  /\ faults \in 0..MaxFaults

Init ==
  /\ current = [r \in Replicas |-> 0]
  /\ sets = 0
  /\ object = [s \in Streams |-> 0]
  /\ members = {}
  /\ pc = [s \in Streams |-> "idle"]
  /\ cmds = [r \in Replicas |-> <<>>]
  /\ wire = [r \in Replicas |-> <<>>]
  /\ subscribed = {}
  /\ listeners = [r \in Replicas |-> 0]
  /\ got = [s \in Streams |-> <<>>]
  /\ due = [s \in Streams |-> {}]
  /\ published = 0
  /\ faults = 0

Local(r) == {s \in Streams : Home[s] = r}

\* what emitLocal reaches: the set the map holds now
Served(r) == {s \in Local(r) \cap members : current[r] # 0 /\ object[s] = current[r]}

Idle(r) ==
  /\ cmds[r] = <<>>
  /\ \A i \in DOMAIN wire[r] : wire[r][i].op = "message"
  /\ \A s \in Local(r) : pc[s] \notin {"subscribing", "joining"}

MayCall(r) == Orderly => Idle(r)

-----------------------------------------------------------------------------
(* register and unregister *)

\* faulty variant: every registration subscribes
RegisterFirstAlways(s) ==
  /\ pc[s] = "idle"
  /\ MayCall(Home[s])
  /\ sets' = IF current[Home[s]] = 0 THEN sets + 1 ELSE sets
  /\ current' = [current EXCEPT ![Home[s]] = IF @ = 0 THEN sets + 1 ELSE @]
  /\ object' = [object EXCEPT ![s] = current'[Home[s]]]
  /\ pc' = [pc EXCEPT ![s] = "subscribing"]
  /\ cmds' = [cmds EXCEPT ![Home[s]] = Append(@, [op |-> "subscribe", by |-> s])]
  /\ UNCHANGED <<members, wire, subscribed, listeners, got, due, published, faults>>

\* no set in the map: it is put there empty, then the subscription is awaited
RegisterFirst(s) ==
  /\ pc[s] = "idle"
  /\ MayCall(Home[s])
  /\ current[Home[s]] = 0
  /\ sets' = sets + 1
  /\ current' = [current EXCEPT ![Home[s]] = sets + 1]
  /\ object' = [object EXCEPT ![s] = sets + 1]
  /\ pc' = [pc EXCEPT ![s] = "subscribing"]
  /\ cmds' = [cmds EXCEPT ![Home[s]] = Append(@, [op |-> "subscribe", by |-> s])]
  /\ UNCHANGED <<members, wire, subscribed, listeners, got, due, published, faults>>

\* a set is there: the stream joins it and the call returns
RegisterNext(s) ==
  /\ pc[s] = "idle"
  /\ MayCall(Home[s])
  /\ current[Home[s]] # 0
  /\ object' = [object EXCEPT ![s] = current[Home[s]]]
  /\ members' = members \cup {s}
  /\ pc' = [pc EXCEPT ![s] = "live"]
  /\ UNCHANGED <<current, sets, redisVars, got, due, published, faults>>

\* the continuation of the awaited subscription
Join(s) ==
  /\ pc[s] = "joining"
  /\ members' = members \cup {s}
  /\ pc' = [pc EXCEPT ![s] = "live"]
  /\ UNCHANGED <<current, sets, object, redisVars, got, due, published, faults>>

\* faulty variant: whoever leaves unsubscribes the replica
UnregisterAll(s) ==
  LET r == Home[s]
  IN /\ pc[s] = "live"
     /\ MayCall(r)
     /\ pc' = [pc EXCEPT ![s] = "gone"]
     /\ members' = members \ {s}
     /\ current' = IF Served(r) = {s} THEN [current EXCEPT ![r] = 0] ELSE current
     /\ cmds' = [cmds EXCEPT ![r] = Append(@, [op |-> "unsubscribe"])]
     /\ UNCHANGED <<sets, object, wire, subscribed, listeners, got, due, published, faults>>

\* faulty variant: the last stream leaves the subscription behind
UnregisterSilently(s) ==
  LET r == Home[s]
  IN /\ pc[s] = "live"
     /\ MayCall(r)
     /\ pc' = [pc EXCEPT ![s] = "gone"]
     /\ members' = members \ {s}
     /\ current' = IF Served(r) = {s} THEN [current EXCEPT ![r] = 0] ELSE current
     /\ UNCHANGED <<sets, object, redisVars, got, due, published, faults>>

\* Works on the set in the map, also when the stream is in another one; without
\* a set it returns before it closes the stream.
Unregister(s) ==
  LET r == Home[s]
      left == Served(r) \ {s}
  IN /\ pc[s] = "live"
     /\ MayCall(r)
     /\ pc' = [pc EXCEPT ![s] = "gone"]
     /\ IF current[r] = 0
          THEN UNCHANGED <<current, members, cmds>>
          ELSE /\ members' = IF object[s] = current[r] THEN members \ {s} ELSE members
               /\ IF left = {}
                    THEN /\ current' = [current EXCEPT ![r] = 0]
                         /\ cmds' = [cmds EXCEPT ![r] = Append(@, [op |-> "unsubscribe"])]
                    ELSE UNCHANGED <<current, cmds>>
     /\ UNCHANGED <<sets, object, wire, subscribed, listeners, got, due, published, faults>>

-----------------------------------------------------------------------------
(* Redis and the subscriber client: commands, replies and messages in order *)

Subscribe(r) ==
  /\ cmds[r] # <<>>
  /\ Head(cmds[r]).op = "subscribe"
  /\ cmds' = [cmds EXCEPT ![r] = Tail(@)]
  /\ subscribed' = subscribed \cup {r}
  /\ wire' = [wire EXCEPT ![r] = Append(@, [op |-> "subscribed", by |-> Head(cmds[r]).by])]
  /\ UNCHANGED <<localVars, listeners, got, due, published, faults>>

\* the subscription is rejected: register rejects, the empty set stays in the map
SubscribeFails(r) ==
  /\ cmds[r] # <<>>
  /\ Head(cmds[r]).op = "subscribe"
  /\ faults < MaxFaults
  /\ faults' = faults + 1
  /\ cmds' = [cmds EXCEPT ![r] = Tail(@)]
  /\ pc' = [pc EXCEPT ![Head(cmds[r]).by] = "failed"]
  /\ UNCHANGED <<current, sets, object, members, wire, subscribed, listeners, got, due, published>>

Unsubscribe(r) ==
  /\ cmds[r] # <<>>
  /\ Head(cmds[r]).op = "unsubscribe"
  /\ cmds' = [cmds EXCEPT ![r] = Tail(@)]
  /\ subscribed' = subscribed \ {r}
  /\ wire' = [wire EXCEPT ![r] = Append(@, [op |-> "unsubscribed"])]
  /\ UNCHANGED <<localVars, listeners, got, due, published, faults>>

Publish ==
  /\ published < MaxMessages
  /\ published' = published + 1
  /\ wire' = [r \in Replicas |->
       IF r \in subscribed
         THEN Append(wire[r], [op |-> "message", id |-> published + 1])
         ELSE wire[r]]
  /\ due' = [s \in Streams |->
       IF pc[s] = "live" THEN due[s] \cup {published + 1} ELSE due[s]]
  /\ UNCHANGED <<localVars, cmds, subscribed, listeners, got, faults>>

Acknowledged(r) ==
  /\ wire[r] # <<>>
  /\ wire' = [wire EXCEPT ![r] = Tail(@)]
  /\ \/ /\ Head(wire[r]).op = "subscribed"
        /\ listeners' = [listeners EXCEPT ![r] = @ + 1]
        /\ pc' = [pc EXCEPT ![Head(wire[r]).by] = "joining"]
     \/ /\ Head(wire[r]).op = "unsubscribed"
        /\ listeners' = [listeners EXCEPT ![r] = 0]
        /\ UNCHANGED pc
  /\ UNCHANGED <<current, sets, object, members, cmds, subscribed, got, due, published, faults>>

\* emitLocal, once per listener: every stream of the set in the map gets it
Emit(r) ==
  /\ wire[r] # <<>>
  /\ Head(wire[r]).op = "message"
  /\ wire' = [wire EXCEPT ![r] = Tail(@)]
  /\ got' = [s \in Streams |->
       IF s \in Served(r)
         THEN got[s] \o [i \in 1..listeners[r] |-> Head(wire[r]).id]
         ELSE got[s]]
  /\ UNCHANGED <<localVars, cmds, subscribed, listeners, due, published, faults>>

-----------------------------------------------------------------------------

StreamStep(s) ==
  \/ RegisterFirst(s)
  \/ RegisterNext(s)
  \/ Join(s)
  \/ Unregister(s)

ReplicaStep(r) ==
  \/ Subscribe(r)
  \/ SubscribeFails(r)
  \/ Unsubscribe(r)
  \/ Acknowledged(r)
  \/ Emit(r)

Next ==
  \/ Publish
  \/ \E s \in Streams : StreamStep(s)
  \/ \E r \in Replicas : ReplicaStep(r)

Spec == Init /\ [][Next]_vars

-----------------------------------------------------------------------------

\* "a publish on any node reaches SSE clients on all nodes": an event published
\* while a stream is registered is on the stream or on its way to it.
NothingMissed ==
  \A s \in Streams : pc[s] = "live" =>
    \A m \in due[s] :
      \/ m \in Range(got[s])
      \/ [op |-> "message", id |-> m] \in Range(wire[Home[s]])

\* Every stream sees each event at most once, in the order of publication.
InOrderOnce ==
  \A s \in Streams : \A i, j \in DOMAIN got[s] : i < j => got[s][i] < got[s][j]

\* "unsubscribe from Redis when the last leaves": an idle replica is subscribed
\* exactly while it has streams, and then once.
SubscribedIffServing ==
  \A r \in Replicas : Idle(r) =>
    /\ (r \in subscribed) = (Served(r) # {})
    /\ listeners[r] = IF r \in subscribed THEN 1 ELSE 0
=============================================================================
