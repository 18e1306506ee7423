---------------------------- MODULE MemoryBroker ----------------------------
(***************************************************************************)
(* MemoryBroker of src/queue/broker.ts, one queue.  The map holds one Set  *)
(* object per queue name; a subscription keeps the object it was added to, *)
(* and the map may have moved on to another object by the time it          *)
(* unsubscribes.  A set object is named after the subscription that made   *)
(* it.  publish() copies the set and awaits the handlers one by one.       *)
(***************************************************************************)
CONSTANTS
  Subs,    \* subscriptions
  Pubs,    \* calls of publish()
  Tidy,    \* whether a subscription is undone once, and not after close()
  None

MemoryBrokerAssumption == None \notin Subs /\ Tidy \in BOOLEAN

VARIABLES
  current,   \* the set object the map holds for the queue
  members,   \* handlers in each set object
  object,    \* the set object each subscription was added to
  live,      \* history: subscribed, and neither undone nor closed since
  todo,      \* handlers a publish still has to call
  pub,       \* where each publish stands
  owed,      \* history: live subscriptions when the publish was called
  reached    \* history: handlers each publish ran to the end

vars == <<current, members, object, live, todo, pub, owed, reached>>
pubVars == <<todo, pub, owed, reached>>

TypeOK ==
  /\ current \in Subs \cup {None}
  /\ members \in [Subs -> SUBSET Subs]
  /\ object \in [Subs -> Subs \cup {None}]
  /\ live \subseteq Subs
  /\ todo \in [Pubs -> SUBSET Subs]
  /\ pub \in [Pubs -> {"idle", "running", "resolved", "rejected"}]
  /\ owed \in [Pubs -> SUBSET Subs]
  /\ reached \in [Pubs -> SUBSET Subs]

Init ==
  /\ current = None
  /\ members = [s \in Subs |-> {}]
  /\ object = [s \in Subs |-> None]
  /\ live = {}
  /\ todo = [p \in Pubs |-> {}]
  /\ pub = [p \in Pubs |-> "idle"]
  /\ owed = [p \in Pubs |-> {}]
  /\ reached = [p \in Pubs |-> {}]

Subscribe(s) ==
  /\ object[s] = None
  /\ LET set == IF current = None THEN s ELSE current IN
       /\ members' = [members EXCEPT ![set] = @ \cup {s}]
       /\ object' = [object EXCEPT ![s] = set]
       /\ current' = set
  /\ live' = live \cup {s}
  /\ UNCHANGED pubVars

\* an emptied set deletes the map's entry, whichever set that entry holds
Unsubscribe(s) ==
  /\ object[s] # None
  /\ Tidy => s \in live
  /\ LET set == object[s] IN
       /\ members' = [members EXCEPT ![set] = @ \ {s}]
       /\ current' = IF members'[set] = {} THEN None ELSE current
  /\ live' = live \ {s}
  /\ UNCHANGED <<object, pubVars>>

Close ==
  /\ current # None
  /\ current' = None
  /\ live' = {}
  /\ UNCHANGED <<members, object, pubVars>>

-----------------------------------------------------------------------------

\* without a set the message is dropped and the call resolves
Publish(p) ==
  /\ pub[p] = "idle"
  /\ todo' = [todo EXCEPT ![p] = IF current = None THEN {} ELSE members[current]]
  /\ pub' = [pub EXCEPT ![p] = "running"]
  /\ owed' = [owed EXCEPT ![p] = live]
  /\ UNCHANGED <<current, members, object, live, reached>>

HandlerResolves(p, s) ==
  /\ s \in todo[p]
  /\ todo' = [todo EXCEPT ![p] = @ \ {s}]
  /\ reached' = [reached EXCEPT ![p] = @ \cup {s}]
  /\ UNCHANGED <<current, members, object, live, pub, owed>>

\* faulty variant: a throwing handler is skipped and the call goes on
HandlerThrowsIgnored(p, s) ==
  /\ s \in todo[p]
  /\ todo' = [todo EXCEPT ![p] = @ \ {s}]
  /\ UNCHANGED <<current, members, object, live, pub, owed, reached>>

\* one throwing handler rejects the call; the handlers after it are not run
HandlerThrows(p, s) ==
  /\ s \in todo[p]
  /\ todo' = [todo EXCEPT ![p] = {}]
  /\ pub' = [pub EXCEPT ![p] = "rejected"]
  /\ UNCHANGED <<current, members, object, live, owed, reached>>

Resolve(p) ==
  /\ pub[p] = "running"
  /\ todo[p] = {}
  /\ pub' = [pub EXCEPT ![p] = "resolved"]
  /\ UNCHANGED <<current, members, object, live, todo, owed, reached>>

Next ==
  \/ \E s \in Subs : Subscribe(s) \/ Unsubscribe(s)
  \/ \E p \in Pubs : Publish(p) \/ Resolve(p)
  \/ \E p \in Pubs, s \in Subs : HandlerResolves(p, s) \/ HandlerThrows(p, s)
  \/ Close

Spec == Init /\ [][Next]_vars

-----------------------------------------------------------------------------

\* A subscription is served until its own unsubscribe function is called or the
\* broker is closed: nobody else's unsubscribe takes it out of the map.
LiveIsServed == live = IF current = None THEN {} ELSE members[current]

\* A publish that resolves ran every handler that was subscribed when it was
\* called, even if some left or a close() came while it awaited the others.
ResolvedReachedAll ==
  \A p \in Pubs : pub[p] = "resolved" => owed[p] \subseteq reached[p]
=============================================================================
