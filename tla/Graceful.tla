------------------------------ MODULE Graceful ------------------------------
(***************************************************************************)
(* GracefulShutdown of src/api/middlewares/graceful.ts: the middleware     *)
(* counts requests in flight, beginDrain turns new ones away and           *)
(* waitDrained tells when the server may be closed.  A response emits      *)
(* "finish" and "close" in this order, or "close" alone when it is cut.    *)
(***************************************************************************)
EXTENDS Integers, FiniteSets

CONSTANTS
  Requests,
  Exempt,    \* requests to one of exemptPaths
  Waits      \* calls of waitDrained

ASSUME GracefulAssumption ==
  /\ IsFiniteSet(Requests)
  /\ Exempt \subseteq Requests

VARIABLES
  inFlightCount,
  draining,
  idleResolvers,  \* waits whose resolver is in the list
  pc,             \* where each request stands
  wait,           \* where each wait stands, and its result
  early           \* history: waits called before the drain began

vars == <<inFlightCount, draining, idleResolvers, pc, wait, early>>

Serving == {q \in Requests : pc[q] = "serving"}

TypeOK ==
  /\ inFlightCount \in Nat
  /\ draining \in BOOLEAN
  /\ idleResolvers \subseteq Waits
  /\ pc \in [Requests -> {"idle", "refused", "serving", "finished", "closed"}]
  /\ wait \in [Waits -> {"idle", "waiting", "drained", "timeout"}]
  /\ early \subseteq Waits

Init ==
  /\ inFlightCount = 0
  /\ draining = FALSE
  /\ idleResolvers = {}
  /\ pc = [q \in Requests |-> "idle"]
  /\ wait = [w \in Waits |-> "idle"]
  /\ early = {}

-----------------------------------------------------------------------------
(* The middleware *)

\* 503 while draining
Refuse(q) ==
  /\ pc[q] = "idle"
  /\ draining
  /\ q \notin Exempt
  /\ pc' = [pc EXCEPT ![q] = "refused"]
  /\ UNCHANGED <<inFlightCount, draining, idleResolvers, wait, early>>

\* faulty variant: the drain gate is left open
AdmitAlways(q) ==
  /\ pc[q] = "idle"
  /\ inFlightCount' = inFlightCount + 1
  /\ pc' = [pc EXCEPT ![q] = "serving"]
  /\ UNCHANGED <<draining, idleResolvers, wait, early>>

Admit(q) ==
  /\ pc[q] = "idle"
  /\ ~draining \/ q \in Exempt
  /\ inFlightCount' = inFlightCount + 1
  /\ pc' = [pc EXCEPT ![q] = "serving"]
  /\ UNCHANGED <<draining, idleResolvers, wait, early>>

\* faulty variant: only the count is kept
ReleaseSilently ==
  /\ inFlightCount' = inFlightCount - 1
  /\ UNCHANGED <<idleResolvers, wait>>

\* release: the last request out resolves every wait in the list
Release ==
  /\ inFlightCount' = inFlightCount - 1
  /\ IF inFlightCount' = 0
       THEN /\ idleResolvers' = {}
            /\ wait' = [w \in Waits |-> IF w \in idleResolvers THEN "drained" ELSE wait[w]]
       ELSE UNCHANGED <<idleResolvers, wait>>

\* the response's first "finish" or "close" settles the request
Finish(q) ==
  /\ pc[q] = "serving"
  /\ pc' = [pc EXCEPT ![q] = "finished"]
  /\ Release
  /\ UNCHANGED <<draining, early>>

Close(q) ==
  /\ pc[q] \in {"serving", "finished"}
  /\ pc' = [pc EXCEPT ![q] = "closed"]
  /\ IF pc[q] = "serving" THEN Release ELSE UNCHANGED <<inFlightCount, idleResolvers, wait>>
  /\ UNCHANGED <<draining, early>>

-----------------------------------------------------------------------------
(* beginDrain and waitDrained *)

BeginDrain ==
  /\ draining' = TRUE
  /\ UNCHANGED <<inFlightCount, idleResolvers, pc, wait, early>>

WaitDrained(w) ==
  /\ wait[w] = "idle"
  /\ IF inFlightCount = 0
       THEN /\ wait' = [wait EXCEPT ![w] = "drained"]
            /\ UNCHANGED idleResolvers
       ELSE /\ wait' = [wait EXCEPT ![w] = "waiting"]
            /\ idleResolvers' = idleResolvers \cup {w}
  /\ early' = IF draining THEN early ELSE early \cup {w}
  /\ UNCHANGED <<inFlightCount, draining, pc>>

\* the timer of a wait still in the list
TimesOut(w) ==
  /\ wait[w] = "waiting"
  /\ idleResolvers' = idleResolvers \ {w}
  /\ wait' = [wait EXCEPT ![w] = "timeout"]
  /\ UNCHANGED <<inFlightCount, draining, pc, early>>

-----------------------------------------------------------------------------

Next ==
  \/ BeginDrain
  \/ \E q \in Requests : Refuse(q) \/ Admit(q) \/ Finish(q) \/ Close(q)
  \/ \E w \in Waits : WaitDrained(w) \/ TimesOut(w)

\* every response ends; the drain timer is not counted on
Fairness == \A q \in Requests : WF_vars(Finish(q) \/ Close(q))

Spec == Init /\ [][Next]_vars /\ Fairness

-----------------------------------------------------------------------------

\* The count is of the requests being served: whichever of "finish" and "close"
\* comes, and both, a request is counted out exactly once.
CountIsServing == inFlightCount = Cardinality(Serving)

\* "never cuts an in-flight request": once a wait of a draining server reports
\* true, no request is in service but one to an exempt path.
DrainedIsDrained ==
  \A w \in Waits : wait[w] = "drained" /\ w \notin early => Serving \subseteq Exempt

\* No wait is forgotten: a call that still waits has a resolver in the list and a
\* request in flight whose end will settle it.
WaitingIsBusy ==
  \A w \in Waits : wait[w] = "waiting" => w \in idleResolvers /\ inFlightCount > 0

\* A wait ends by itself when responses end: without its timer, by the last one.
WaitsEnd ==
  \A w \in Waits : wait[w] = "waiting" ~> wait[w] \in {"drained", "timeout"}
=============================================================================
