---------------------------- MODULE Idempotency -----------------------------
(***************************************************************************)
(* idempotencyMiddleware of src/api/middlewares/idempotency.ts: a mutating *)
(* request with an Idempotency-Key looks its key up in a store, replays a  *)
(* hit, and on a miss runs the handler and stores a 2xx response once it   *)
(* has been sent.  The lookup, the handler and the store's write are each  *)
(* an await: requests with one key interleave there, in one process or     *)
(* across replicas sharing a Redis store.                                  *)
(***************************************************************************)
EXTENDS Naturals

CONSTANTS
  Requests,   \* requests with the header, retries included
  Keys,       \* scoped keys: method, path and header value, joined
  MaxFaults,  \* bound: store errors, expired entries and crashes
  None

\* Of a response the middleware can tell apart: whether it is a 2xx, whether it
\* carries headers beside the content type, and whether its body went through
\* res.send() as text or as a Buffer, or was streamed past it.  `by` is the run
\* it comes from.
Bodies == {"text", "buffer", "stream"}
Response == [by : Requests, ok : BOOLEAN, headers : BOOLEAN,
             body : Bodies \cup {"bufferJson", "empty"}]

IdempotencyAssumption ==
  /\ MaxFaults \in Nat
  /\ None \notin Requests \cup Keys \cup Response

VARIABLES
  key,      \* the scoped key of each request once it is sent
  pc,       \* where each request stands
  reply,    \* the response each request got
  replayed, \* requests answered from the store
  store,    \* the stored response per key
  early,    \* history: requests that missed while another with their key was not done
  effects,  \* history: 2xx handler runs per key
  repeats,  \* history: those of them by early requests
  faults

history == <<early, effects, repeats>>
vars == <<key, pc, reply, replayed, store, history, faults>>

Phase == {"idle", "looking", "handling", "storing", "done"}

TypeOK ==
  /\ key \in [Requests -> Keys \cup {None}]
  /\ pc \in [Requests -> Phase]
  /\ reply \in [Requests -> Response \cup {None}]
  /\ replayed \subseteq Requests
  /\ store \in [Keys -> Response \cup {None}]
  /\ early \subseteq Requests
  /\ effects \in [Keys -> Nat]
  /\ repeats \in [Keys -> Nat]
  /\ faults \in Nat

Init ==
  /\ key = [r \in Requests |-> None]
  /\ pc = [r \in Requests |-> "idle"]
  /\ reply = [r \in Requests |-> None]
  /\ replayed = {}
  /\ store = [k \in Keys |-> None]
  /\ early = {}
  /\ effects = [k \in Keys |-> 0]
  /\ repeats = [k \in Keys |-> 0]
  /\ faults = 0

Fault == faults < MaxFaults /\ faults' = faults + 1
Goto(r, phase) == pc' = [pc EXCEPT ![r] = phase]

-----------------------------------------------------------------------------

\* What captureAndForward keeps of a response: no header but the content type,
\* and only a body that went through res.send()
Captured(response) ==
  [response EXCEPT !.headers = FALSE,
                   !.body = IF response.body = "text" THEN "text" ELSE "empty"]

Send(r, k) ==
  /\ pc[r] = "idle"
  /\ key' = [key EXCEPT ![r] = k]
  /\ Goto(r, "looking")
  /\ UNCHANGED <<reply, replayed, store, history, faults>>

\* store.get() found the response: it is replayed, the handler does not run
Hit(r) ==
  /\ pc[r] = "looking"
  /\ store[key[r]] # None
  /\ reply' = [reply EXCEPT ![r] = store[key[r]]]
  /\ replayed' = replayed \cup {r}
  /\ Goto(r, "done")
  /\ UNCHANGED <<key, store, history, faults>>

\* requests between their lookup and the end of their write: their responses, sent or
\* not, are not in the store
Unfinished(k) == {q \in Requests : pc[q] \in {"handling", "storing"} /\ key[q] = k}

\* faulty variant: the handler runs although the response is known
MissAlways(r) ==
  /\ pc[r] = "looking"
  /\ Goto(r, "handling")
  /\ early' = IF Unfinished(key[r]) = {} THEN early ELSE early \cup {r}
  /\ UNCHANGED <<key, reply, replayed, store, effects, repeats, faults>>

Miss(r) ==
  /\ pc[r] = "looking"
  /\ store[key[r]] = None
  /\ Goto(r, "handling")
  /\ early' = IF Unfinished(key[r]) = {} THEN early ELSE early \cup {r}
  /\ UNCHANGED <<key, reply, replayed, store, effects, repeats, faults>>

\* store.get() rejects: next(error), the handler does not run
LookupFails(r) ==
  /\ pc[r] = "looking"
  /\ Fault
  /\ Goto(r, "done")
  /\ UNCHANGED <<key, reply, replayed, store, history>>

Count(r, ok) ==
  /\ effects' = IF ok THEN [effects EXCEPT ![key[r]] = @ + 1] ELSE effects
  /\ repeats' = IF ok /\ r \in early THEN [repeats EXCEPT ![key[r]] = @ + 1] ELSE repeats

\* faulty variant: every outcome is frozen under the key
HandleStoresAll(r, ok, headers, body) ==
  /\ pc[r] = "handling"
  /\ reply' = [reply EXCEPT ![r] =
       [by |-> r, ok |-> ok, headers |-> headers, body |-> body]]
  /\ Count(r, ok)
  /\ Goto(r, "storing")
  /\ UNCHANGED <<key, replayed, store, early, faults>>

\* the handler runs and the response is sent; only a 2xx will be stored
Handle(r, ok, headers, body) ==
  /\ pc[r] = "handling"
  /\ reply' = [reply EXCEPT ![r] =
       [by |-> r, ok |-> ok, headers |-> headers, body |-> body]]
  /\ Count(r, ok)
  /\ Goto(r, IF ok THEN "storing" ELSE "done")
  /\ UNCHANGED <<key, replayed, store, early, faults>>

Store(r) ==
  /\ pc[r] = "storing"
  /\ store' = [store EXCEPT ![key[r]] = Captured(reply[r])]
  /\ Goto(r, "done")
  /\ UNCHANGED <<key, reply, replayed, history, faults>>

\* the write is best effort: a store error is swallowed, a crash loses it
StoreFails(r) ==
  /\ pc[r] = "storing"
  /\ Fault
  /\ Goto(r, "done")
  /\ UNCHANGED <<key, reply, replayed, store, history>>

Expire(k) ==
  /\ store[k] # None
  /\ Fault
  /\ store' = [store EXCEPT ![k] = None]
  /\ UNCHANGED <<key, pc, reply, replayed, history>>

-----------------------------------------------------------------------------

HandleSome(r) ==
  \E ok, headers \in BOOLEAN, body \in Bodies : Handle(r, ok, headers, body)

RequestStep(r) ==
  \/ Hit(r)
  \/ Miss(r)
  \/ LookupFails(r)
  \/ HandleSome(r)
  \/ Store(r)
  \/ StoreFails(r)

Next ==
  \/ \E r \in Requests, k \in Keys : Send(r, k)
  \/ \E r \in Requests : RequestStep(r)
  \/ \E k \in Keys : Expire(k)

Spec == Init /\ [][Next]_vars

-----------------------------------------------------------------------------

\* "instead of a duplicate side effect": a key's handler succeeds once, and once more
\* for each store error, expiry or crash, but for the requests that look their key up
\* while another one with it runs or, its answer sent, is still to be stored.  Those
\* repeat the effect.
NoDuplicateEffect == \A k \in Keys : effects[k] <= 1 + repeats[k] + faults

\* A replay is a 2xx of a request with the very same key: neither an error nor
\* another endpoint's response is ever served from the store.
ReplayIsGenuine ==
  \A r \in replayed :
    /\ reply[r].ok
    /\ key[reply[r].by] = key[r]
=============================================================================
