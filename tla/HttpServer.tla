------------------------------ MODULE HttpServer ------------------------------
(***************************************************************************)
(* What createApp of src/src/api/server.ts builds: the body parser, the    *)
(* request id, CORS, the health endpoint, what the application mounts in   *)
(* `configure` (access log, metrics, CSRF check and its routes) and, last, *)
(* the error handlers of api/handlers.ts.  In front of it may stand        *)
(* bodySizeLimitMiddleware, whose listener counts the body while the rest  *)
(* of the chain runs and answers on its own.  Requests are served one      *)
(* after the other; the actors of one request interleave.                  *)
(***************************************************************************)
EXTENDS Naturals, Sequences, FiniteSets, FiniteSetsExt

CONSTANTS
  Inputs,     \* the requests: [path, method, origin, json, size, declared, broken,
              \*   token, route], `route` being what the handler of the path does
  Limited,    \* is bodySizeLimitMiddleware mounted before the parser?
  MaxBytes,   \* its cap
  JsonLimit,  \* the parser's
  Exempt,     \* the paths the access log and the metrics leave out
  Bounds,     \* the upper bounds of the histogram's buckets, which the registry sorts
  Durations,  \* the durations a request may take
  MaxServed   \* bound: requests served

VARIABLES
  input,      \* the request in the chain
  at,         \* the middleware it is in
  arrived,    \* the bytes of its body received
  parsed,     \* was the body parsed?
  failure,    \* what was passed to next(err)
  response,   \* status: res.statusCode; wire: the status sent, 0 before; headers,
              \*   envelope: what was sent
  open,       \* is the connection open?
  traced,     \* do the access log and the metrics wait for `finish`?
  ran,        \* did the handler run?
  served,     \* requests served
  totals,     \* status -> requests counted
  histogram   \* [buckets, count]

vars == <<input, at, arrived, parsed, failure, response, open, traced, ran, served,
          totals, histogram>>

Unsafe == {"POST", "PUT", "PATCH", "DELETE"}
Statuses == {200, 204, 403, 404, 413, 422, 429, 500, 503}
Routes == {"none", "answer", "answerThenThrow", "throw", "tooMany", "invalid", "crash"}

HttpServerAssumption ==
  /\ Inputs \subseteq
       [path : {"/health", "/logs", "/orders"}, method : Unsafe \cup {"GET", "OPTIONS"},
        origin : {"none", "listed", "other"}, json : BOOLEAN, size : Nat,
        declared : BOOLEAN, broken : BOOLEAN, token : {"match", "differ", "missing"},
        route : Routes]
  /\ Limited \in BOOLEAN /\ MaxBytes \in Nat \ {0} /\ JsonLimit \in Nat
  /\ Bounds \in Seq(Nat) /\ \A b \in DOMAIN Bounds : b > 1 => Bounds[b - 1] <= Bounds[b]
  /\ Durations \subseteq Nat /\ MaxServed \in Nat

Unanswered == [status |-> 200, wire |-> 0, headers |-> {}, envelope |-> FALSE]

Init ==
  /\ input \in Inputs /\ at = "idle" /\ arrived = 0 /\ parsed = FALSE
  /\ failure = "none" /\ response = Unanswered /\ open = TRUE
  /\ traced = FALSE /\ ran = FALSE /\ served = 0
  /\ totals = [s \in Statuses |-> 0]
  /\ histogram = [buckets |-> [b \in DOMAIN Bounds |-> 0], count |-> 0]

counters == <<totals, histogram>>

Arrive ==
  /\ at = "idle" /\ served < MaxServed
  /\ input' \in Inputs
  /\ at' = IF Limited THEN "limit" ELSE "json"
  /\ arrived' = 0 /\ parsed' = FALSE /\ failure' = "none" /\ response' = Unanswered
  /\ open' = TRUE /\ traced' = FALSE /\ ran' = FALSE /\ served' = served + 1
  /\ UNCHANGED counters

-----------------------------------------------------------------------------
(* Answering                                                               *)

Sent(status, envelope) ==
  [response EXCEPT !.status = status, !.wire = status, !.envelope = envelope]

Answer(status, envelope) ==
  /\ response' = Sent(status, envelope) /\ at' = "done"
  /\ UNCHANGED <<input, arrived, parsed, failure, open, traced, served, counters>>

\* next() and next(err)
Continue(next) ==
  at' = next /\ UNCHANGED <<input, arrived, open, failure, served, counters>>

Fail(error) ==
  /\ failure' = error /\ at' = "appError"
  /\ UNCHANGED <<input, arrived, parsed, open, traced, served, counters>>

-----------------------------------------------------------------------------
(* bodySizeLimitMiddleware                                                 *)

Limit ==
  /\ at = "limit" /\ UNCHANGED ran
  /\ \/ /\ input.declared /\ input.size > MaxBytes
        /\ Answer(413, TRUE)
     \/ /\ ~(input.declared /\ input.size > MaxBytes)
        /\ Continue("json") /\ UNCHANGED <<parsed, response, traced>>

\* faulty variant: trusts Content-Length, counts nothing
ChunkUncounted ==
  /\ at \notin {"idle", "limit"} /\ open /\ arrived < input.size
  /\ arrived' = arrived + 1
  /\ UNCHANGED <<input, at, parsed, failure, response, open, traced, ran, served, counters>>

\* a byte of the body arrives: the listener counts it, and over the cap answers
\* if nobody has, and destroys the request
Chunk ==
  /\ at \notin {"idle", "limit"} /\ open /\ arrived < input.size
  /\ arrived' = arrived + 1
  /\ IF Limited /\ arrived + 1 > MaxBytes
     THEN /\ open' = FALSE
          /\ response' = IF response.wire = 0 THEN Sent(413, TRUE) ELSE response
     ELSE UNCHANGED <<open, response>>
  /\ UNCHANGED <<input, at, parsed, failure, traced, ran, served, counters>>

-----------------------------------------------------------------------------
(* createApp's chain                                                       *)

\* express.json() reads a JSON body to its end; urlencoded() has none to read
ParseJson ==
  /\ at = "json" /\ UNCHANGED <<response, ran>>
  /\ LET skips == ~input.json \/ input.size = 0
         tooLarge == IF input.declared THEN input.size > JsonLimit ELSE arrived > JsonLimit
     IN \/ skips /\ Continue("requestId") /\ UNCHANGED <<parsed, traced>>
        \/ ~skips /\ tooLarge /\ Fail("tooLarge")
        \/ ~skips /\ ~tooLarge /\ ~open /\ Fail("aborted")
        \/ /\ ~skips /\ ~tooLarge /\ open /\ arrived = input.size
           /\ IF input.broken THEN Fail("malformed")
              ELSE Continue("requestId") /\ parsed' = TRUE /\ UNCHANGED traced

\* setHeader throws when the answer has begun, here and below
RequestId ==
  /\ at = "requestId" /\ UNCHANGED ran
  /\ IF response.wire # 0 THEN Fail("headersSent") /\ UNCHANGED response
     ELSE /\ Continue("cors") /\ UNCHANGED <<parsed, traced>>
          /\ response' = [response EXCEPT !.headers = @ \cup {"X-Request-ID"}]

Cors ==
  /\ at = "cors" /\ UNCHANGED ran
  /\ LET headers == response.headers \cup {"Allow-Methods"}
                    \cup (IF input.origin = "listed" THEN {"Allow-Origin"} ELSE {})
     IN IF response.wire # 0 THEN Fail("headersSent") /\ UNCHANGED response
        ELSE IF input.method = "OPTIONS"
        THEN /\ response' = [Sent(204, FALSE) EXCEPT !.headers = headers]
             /\ at' = "done"
             /\ UNCHANGED <<input, arrived, parsed, failure, open, traced, served, counters>>
        ELSE /\ response' = [response EXCEPT !.headers = headers]
             /\ Continue("health") /\ UNCHANGED <<parsed, traced>>

\* the probes are awaited one by one; a throwing one counts as unhealthy
Health ==
  /\ at = "health" /\ UNCHANGED ran
  /\ IF input.path = "/health" /\ input.method = "GET"
     THEN \E healthy \in BOOLEAN :
            IF response.wire # 0 THEN Fail("headersSent") /\ UNCHANGED response
            ELSE Answer(IF healthy THEN 200 ELSE 503, FALSE)
     ELSE Continue("tracing") /\ UNCHANGED <<parsed, response, traced>>

Tracing ==
  /\ at = "tracing" /\ Continue("csrf")
  /\ traced' = (input.path \notin Exempt)
  /\ UNCHANGED <<parsed, response, ran>>

\* faulty variant: compares the tokens without asking whether both are there
CsrfMissingPasses ==
  /\ at = "csrf" /\ UNCHANGED ran
  /\ IF input.method \in Unsafe /\ input.token = "differ"
     THEN Answer(403, TRUE)
     ELSE Continue("route") /\ UNCHANGED <<parsed, response, traced>>

Csrf ==
  /\ at = "csrf" /\ UNCHANGED ran
  /\ IF input.method \in Unsafe /\ input.token # "match"
     THEN IF response.wire # 0 THEN Fail("headersSent") /\ UNCHANGED response
          ELSE Answer(403, TRUE)
     ELSE Continue("route") /\ UNCHANGED <<parsed, response, traced>>

\* the application's handler; without one, notFoundHandler
Route ==
  /\ at = "route" /\ ran' = (input.route # "none")
  /\ CASE input.route \in {"none", "answer"} /\ response.wire # 0 ->
            Fail("headersSent") /\ UNCHANGED response
       [] input.route = "none" /\ response.wire = 0 -> Answer(404, TRUE)
       [] input.route = "answer" /\ response.wire = 0 -> Answer(200, FALSE)
       [] input.route = "answerThenThrow" ->
            /\ Fail("crash")
            /\ response' = IF response.wire = 0 THEN Sent(200, FALSE) ELSE response
       [] OTHER -> Fail(input.route) /\ UNCHANGED response

-----------------------------------------------------------------------------
(* The error handlers                                                      *)

\* AppException and ZodError; a TooManyRequestsException brings Retry-After
StatusOf == [throw |-> 403, tooMany |-> 429, invalid |-> 422]

AppError ==
  /\ at = "appError" /\ UNCHANGED ran
  /\ IF failure \notin DOMAIN StatusOf
     THEN Continue("unhandled") /\ UNCHANGED <<parsed, response, traced>>
     ELSE IF response.wire # 0
     THEN /\ response' = IF failure = "tooMany" THEN response
                         ELSE [response EXCEPT !.status = StatusOf[failure]]
          /\ failure' = "headersSent" /\ at' = "unhandled"
          /\ UNCHANGED <<input, arrived, parsed, open, traced, served, counters>>
     ELSE /\ response' =
               [Sent(StatusOf[failure], TRUE) EXCEPT
                  !.headers = @ \cup (IF failure = "tooMany" THEN {"Retry-After"} ELSE {})]
          /\ at' = "done"
          /\ UNCHANGED <<input, arrived, parsed, failure, open, traced, served, counters>>

\* faulty variant: leaves an error it does not know to Express's own page
UnhandledToExpress ==
  /\ at = "unhandled" /\ UNCHANGED ran
  /\ IF response.wire = 0 THEN Answer(500, FALSE)
     ELSE Answer(response.wire, response.envelope)

\* whatever is left: 500; if the answer has begun, writing throws and Express's
\* last handler cuts the connection
Unhandled ==
  /\ at = "unhandled" /\ UNCHANGED ran
  /\ IF response.wire = 0 THEN Answer(500, TRUE)
     ELSE /\ response' = [response EXCEPT !.status = 500]
          /\ at' = "done" /\ open' = FALSE
          /\ UNCHANGED <<input, arrived, parsed, failure, traced, served, counters>>

-----------------------------------------------------------------------------
(* The access log and the metrics, on `finish`                             *)

\* faulty variant: counts a request in the first bucket that holds it only
ObservedOnce(h, duration) ==
  LET fits == {b \in DOMAIN Bounds : duration <= Bounds[b]} IN
  [buckets |-> [b \in DOMAIN Bounds |->
                  h.buckets[b] + IF b \in fits /\ b = Min(fits) THEN 1 ELSE 0],
   count |-> h.count + 1]

Observed(h, duration) ==
  [buckets |-> [b \in DOMAIN Bounds |->
                  h.buckets[b] + IF duration <= Bounds[b] THEN 1 ELSE 0],
   count |-> h.count + 1]

Finish ==
  /\ response.wire # 0 /\ traced /\ open
  /\ totals' = [totals EXCEPT ![response.status] = @ + 1]
  /\ \E d \in Durations : histogram' = Observed(histogram, d)
  /\ traced' = FALSE
  /\ UNCHANGED <<input, at, arrived, parsed, failure, response, open, ran, served>>

\* the exchange is over
Leave ==
  /\ at = "done" /\ ~(traced /\ open)
  /\ at' = "idle"
  /\ UNCHANGED <<input, arrived, parsed, failure, response, open, traced, ran, served,
                 counters>>

Next ==
  \/ Arrive \/ Limit \/ Chunk \/ ParseJson \/ RequestId \/ Cors \/ Health \/ Tracing
  \/ Csrf \/ Route \/ AppError \/ Unhandled \/ Finish \/ Leave

Spec == Init /\ [][Next]_vars

-----------------------------------------------------------------------------

TypeOK ==
  /\ input \in Inputs /\ arrived \in 0 .. input.size
  /\ at \in {"idle", "limit", "json", "requestId", "cors", "health", "tracing", "csrf",
             "route", "appError", "unhandled", "done"}
  /\ {parsed, open, traced, ran, response.envelope} \subseteq BOOLEAN
  /\ response.status \in Statuses /\ response.wire \in Statuses \cup {0}
  /\ served \in 0 .. MaxServed
  /\ totals \in [Statuses -> 0 .. MaxServed]
  /\ histogram.count \in 0 .. MaxServed

\* Every failure the client is told about comes in the envelope { detail, code,
\* details } ("the canonical SDK envelope for every failure path",
\* handlers.ts:4), whichever of the chain, the body listener and the handlers
\* wrote it; only the health report has a body of its own.  An exchange is over
\* only with an answer on the wire.
FailuresAreEnveloped ==
  /\ response.wire >= 400 => response.envelope \/ response.wire = 503
  /\ at = "done" => response.wire # 0

\* The handler never ran with a parsed body over a limit in force, nor for a
\* state-changing method without matching tokens.
HandlerIsGuarded ==
  ran => /\ parsed => input.size <= JsonLimit /\ (Limited => input.size <= MaxBytes)
         /\ input.method \in Unsafe => input.token = "match"

\* The two metrics count the same requests, and the buckets are cumulative:
\* each holds what the one below it holds, and none more than `count`.
MetricsAddUp ==
  /\ histogram.count =
       totals[200] + totals[204] + totals[403] + totals[404] + totals[413] + totals[422]
         + totals[429] + totals[500] + totals[503]
  /\ \A b \in DOMAIN Bounds :
       /\ histogram.buckets[b] <= histogram.count
       /\ b > 1 => histogram.buckets[b - 1] <= histogram.buckets[b]

\* docs/recipes/api.en.md:25: "`X-Request-ID` on every response".  It is not.
EveryResponseIsIdentified == response.wire # 0 => "X-Request-ID" \in response.headers
=============================================================================
