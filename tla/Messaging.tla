------------------------------ MODULE Messaging ------------------------------
(***************************************************************************)
(* Messages out and in: the pool of broadcastText (src/src/integrations/  *)
(* broadcast.ts), whose runners share a cursor, and the polling loops of   *)
(* TelegramProvider.onMessage (integrations/telegram.ts) against the Bot   *)
(* API, which forgets the updates below the offset a call brings and gives *)
(* the rest again.  A broadcast's recipients are 1 .. Recipients.          *)
(***************************************************************************)
EXTENDS Integers, Sequences, FiniteSets

CONSTANTS
  Recipients, \* how many there are
  Concurrency,
  Loops,      \* the calls of onMessage
  Silent,     \* the updates that hold no message
  MaxUpdate   \* bound: the updates that arrive are 1 .. MaxUpdate

MessagingAssumption ==
  /\ Recipients \in Nat /\ Concurrency \in Int
  /\ MaxUpdate \in Nat /\ Silent \subseteq 1 .. MaxUpdate /\ IsFiniteSet(Loops)

VARIABLES
  cursor,    \* the next recipient
  runner,    \* runner -> the recipient it is sending to, 0 between two, -1 at its end
  results,   \* recipient -> "none", "ok" or "failed"
  sends,     \* recipient -> sends to it
  api,       \* [last, confirmed]: the last update that arrived, the last forgotten
  loop,      \* loop -> [pc, running, offset, batch]
  delivered, \* update -> handlers completed for it
  ends       \* loops that ended, by stop() or a failing handler

broadcast == <<cursor, runner, results, sends>>
telegram == <<api, loop, delivered, ends>>
vars == <<broadcast, telegram>>

\* Array.from({ length: Math.min(limit, items.length) })
Runners == 1 .. (IF Concurrency < Recipients THEN Concurrency ELSE Recipients)

Init ==
  /\ cursor = 1 /\ runner = [r \in Runners |-> 0]
  /\ results = [i \in 1 .. Recipients |-> "none"] /\ sends = [i \in 1 .. Recipients |-> 0]
  /\ api = [last |-> 0, confirmed |-> 0]
  /\ loop = [l \in Loops |-> [pc |-> "new", running |-> TRUE, offset |-> 0, batch |-> <<>>]]
  /\ delivered = [u \in 1 .. MaxUpdate |-> 0] /\ ends = 0

-----------------------------------------------------------------------------
(* pool and broadcastText                                                  *)

\* faulty variant: the cursor moves when the send is over
TakeLate(r) ==
  /\ runner[r] = 0
  /\ IF cursor <= Recipients
     THEN /\ runner' = [runner EXCEPT ![r] = cursor]
          /\ cursor' = IF \E q \in Runners : runner[q] = cursor THEN cursor + 1 ELSE cursor
          /\ sends' = [sends EXCEPT ![cursor] = @ + 1]
     ELSE runner' = [runner EXCEPT ![r] = -1] /\ UNCHANGED <<cursor, sends>>
  /\ UNCHANGED <<results, telegram>>

\* the test and the increment of the cursor are one turn of the event loop
Take(r) ==
  /\ runner[r] = 0
  /\ IF cursor <= Recipients
     THEN /\ runner' = [runner EXCEPT ![r] = cursor] /\ cursor' = cursor + 1
          /\ sends' = [sends EXCEPT ![cursor] = @ + 1]
     ELSE runner' = [runner EXCEPT ![r] = -1] /\ UNCHANGED <<cursor, sends>>
  /\ UNCHANGED <<results, telegram>>

\* the provider answers or fails; either becomes the recipient's result
SendEnds(r) ==
  /\ runner[r] > 0
  /\ \E outcome \in {"ok", "failed"} : results' = [results EXCEPT ![runner[r]] = outcome]
  /\ runner' = [runner EXCEPT ![r] = 0]
  /\ UNCHANGED <<cursor, sends, telegram>>

\* Promise.all over the runners
Broadcasted == \A r \in Runners : runner[r] = -1

-----------------------------------------------------------------------------
(* onMessage                                                               *)

Arrive ==
  /\ api.last < MaxUpdate /\ api' = [api EXCEPT !.last = @ + 1]
  /\ UNCHANGED <<broadcast, loop, delivered, ends>>

Go(l, change) == loop' = [loop EXCEPT ![l] = change]

\* where the loop goes on, its stop function called or not
At(l, pc, offset, batch) ==
  [pc |-> pc, running |-> loop[l].running, offset |-> offset, batch |-> batch]

Start(l) ==
  /\ loop[l].pc = "new" /\ Go(l, [loop[l] EXCEPT !.pc = "poll"])
  /\ UNCHANGED <<broadcast, api, delivered, ends>>

\* the stop function: nothing the loop is doing notices until it comes round
Stop(l) ==
  /\ loop[l].pc # "new" /\ loop[l].running
  /\ Go(l, [loop[l] EXCEPT !.running = FALSE])
  /\ UNCHANGED <<broadcast, api, delivered, ends>>

\* while (running): getUpdates confirms what lies below the offset
Poll(l) ==
  /\ loop[l].pc = "poll"
  /\ IF loop[l].running
     THEN /\ Go(l, [loop[l] EXCEPT !.pc = "wait"])
          /\ api' = [api EXCEPT !.confirmed =
                           IF loop[l].offset > @ + 1 THEN loop[l].offset - 1 ELSE @]
          /\ UNCHANGED ends
     ELSE Go(l, [loop[l] EXCEPT !.pc = "ended"]) /\ ends' = ends + 1 /\ UNCHANGED api
  /\ UNCHANGED <<broadcast, delivered>>

\* its answer, which may be empty or not come at all (a second later it asks again)
Updates(l) ==
  /\ loop[l].pc = "wait"
  /\ \/ Go(l, [loop[l] EXCEPT !.pc = "poll"])
     \/ /\ api.last > api.confirmed
        /\ Go(l, At(l, "batch", loop[l].offset,
                    [k \in 1 .. api.last - api.confirmed |-> api.confirmed + k]))
  /\ UNCHANGED <<broadcast, api, delivered, ends>>

\* faulty variant: the offset goes past the whole batch before it is handled, and
\* a failing handler is passed over
HandleFromBehind(l) ==
  /\ loop[l].pc = "batch"
  /\ LET batch == loop[l].batch
         next == [loop[l] EXCEPT !.batch = Tail(batch), !.offset = batch[Len(batch)] + 1,
                                 !.pc = IF Len(batch) > 1 THEN "batch" ELSE "poll"]
     IN /\ Go(l, next)
        /\ \/ delivered' = [delivered EXCEPT ![Head(batch)] = @ + 1]
           \/ UNCHANGED delivered
  /\ UNCHANGED <<broadcast, api, ends>>

\* the next update of the batch: without a message nothing is called; a handler
\* that rejects rejects the loop, which nobody awaits
Handle(l) ==
  /\ loop[l].pc = "batch"
  /\ LET update == Head(loop[l].batch)
         rest == Tail(loop[l].batch)
         next == At(l, IF rest = <<>> THEN "poll" ELSE "batch", update + 1, rest)
     IN \/ /\ update \in Silent /\ Go(l, next) /\ UNCHANGED <<delivered, ends>>
        \/ /\ update \notin Silent /\ Go(l, next) /\ UNCHANGED ends
           /\ delivered' = [delivered EXCEPT ![update] = @ + 1]
        \/ /\ update \notin Silent /\ Go(l, At(l, "ended", update + 1, <<>>))
           /\ ends' = ends + 1 /\ UNCHANGED delivered
  /\ UNCHANGED <<broadcast, api>>

BroadcastNext == \E r \in Runners : Take(r) \/ SendEnds(r)

TelegramNext ==
  Arrive \/ \E l \in Loops : Start(l) \/ Stop(l) \/ Poll(l) \/ Updates(l) \/ Handle(l)

Next == BroadcastNext \/ TelegramNext

Spec == Init /\ [][Next]_vars

-----------------------------------------------------------------------------

TypeOK ==
  /\ cursor \in 1 .. Recipients + 1
  /\ runner \in [Runners -> -1 .. Recipients]
  /\ results \in [1 .. Recipients -> {"none", "ok", "failed"}]
  /\ api.confirmed \in 0 .. api.last /\ api.last \in 0 .. MaxUpdate
  /\ \A l \in Loops : loop[l].pc \in {"new", "poll", "wait", "batch", "ended"}
  /\ ends \in 0 .. Cardinality(Loops)

\* A broadcast sends to every recipient exactly once and has a result for each
\* when it resolves, however its sends overlap and fail - if the concurrency is
\* at least one: with less it resolves without having sent anything.
BroadcastReachesAll ==
  /\ \A i \in 1 .. Recipients : sends[i] <= 1 /\ (results[i] # "none" => sends[i] = 1)
  /\ Broadcasted => \A i \in 1 .. Recipients : results[i] # "none" <=> Concurrency > 0

\* Telegram forgets an update only after a handler completed for it, whatever
\* loops were stopped, started next to each other or killed by their handlers;
\* and it is handled once, plus once for each other loop that was ever started.
UpdatesAreHandled ==
  /\ \A u \in 1 .. api.confirmed : u \notin Silent => delivered[u] >= 1
  /\ \A u \in 1 .. MaxUpdate :
       delivered[u] <= Cardinality({l \in Loops : loop[l].pc # "new"})
=============================================================================
