---------------------------- MODULE ServerProofs ----------------------------
(***************************************************************************)
(* The invariants of what answers a request or reaches out for others, for *)
(* every value of the constants: the HTTP server's chain, signing in,      *)
(* feature flags, broadcasts and polled updates, the AsyncAPI registry,    *)
(* downloads and links, and other people's services.  PlatformProofs puts  *)
(* them together.                                                          *)
(***************************************************************************)
EXTENDS MCPlatform, FiniteSetTheorems, SequenceTheorems, TLAPS

-----------------------------------------------------------------------------
(* The HTTP server                                                         *)

Stages == {"limit", "json", "requestId", "cors", "health", "tracing"}
Stations == Stages \cup {"idle", "csrf", "route", "appError", "unhandled", "done"}
PlainStatuses == {200, 204, 503}
HeaderNames == {"X-Request-ID", "Allow-Methods", "Allow-Origin", "Retry-After"}
Responses ==
  [status : Http!Statuses, wire : Http!Statuses \cup {0}, headers : SUBSET HeaderNames,
   envelope : BOOLEAN]
Failures ==
  {"none", "tooLarge", "aborted", "malformed", "headersSent", "crash"} \cup Http!Routes

ExchangeTypes ==
  /\ input \in HttpInputs /\ arrived \in 0 .. input.size /\ at \in Stations
  /\ parsed \in BOOLEAN /\ open \in BOOLEAN /\ traced \in BOOLEAN /\ ran \in BOOLEAN
  /\ response \in Responses /\ failure \in Failures

CounterTypes ==
  /\ served \in 0 .. MaxServed /\ totals \in [Http!Statuses -> Nat]
  /\ histogram \in [buckets : [DOMAIN Bounds -> Nat], count : Nat]

Fits(i) == i.size <= JsonLimit /\ (BodyIsLimited => i.size <= BodyLimit)
Allowed(i) == i.method \in Http!Unsafe => i.token = "match"

\* What is told of a failure is in the envelope.
Enveloped(r) == r.wire >= 400 => r.envelope \/ r.wire = 503

\* While the body is let in it is within the cap, and what was parsed within the limits;
\* the route is reached with matching tokens, before which nothing is traced.
Guards ==
  /\ BodyIsLimited /\ open => arrived <= BodyLimit
  /\ parsed => Fits(input)
  /\ at = "route" \/ ran => Allowed(input)
  /\ traced => at \notin Stages

\* A request not yet counted that will or may be.
ToBeCounted == at \in Stages \/ traced

Counters ==
  /\ histogram.count + (IF ToBeCounted THEN 1 ELSE 0) <= served
  /\ Http!MetricsAddUp

HttpInv == ExchangeTypes /\ CounterTypes /\ Guards /\ Http!FailuresAreEnveloped /\ Counters

LEMMA HttpConstants ==
  /\ BodyIsLimited \in BOOLEAN /\ BodyLimit \in Nat \ {0} /\ JsonLimit \in Nat /\ MaxServed \in Nat
  /\ Bounds \in Seq(Nat) /\ \A b \in DOMAIN Bounds : b > 1 => Bounds[b - 1] <= Bounds[b]
  /\ Durations \subseteq Nat
  /\ \A i \in HttpInputs :
       /\ i.size \in Nat /\ i.json \in BOOLEAN /\ i.declared \in BOOLEAN /\ i.broken \in BOOLEAN
       /\ i.route \in Http!Routes
  BY PlatformAssumption DEF Http!HttpServerAssumption

LEMMA HttpInit == Http!Init => HttpInv
<1> SUFFICES ASSUME Http!Init PROVE HttpInv
  OBVIOUS
<1>1. ExchangeTypes
  <2>1. Http!Unanswered \in Responses
    BY DEF Http!Unanswered, Responses, Http!Statuses
  <2>2. input \in HttpInputs /\ arrived \in 0 .. input.size
    BY HttpConstants DEF Http!Init
  <2> QED
    BY <2>1, <2>2, Zenon DEF Http!Init, ExchangeTypes, Stations, Failures
<1>2. CounterTypes
  BY HttpConstants DEF Http!Init, CounterTypes
<1>3. Guards
  BY HttpConstants DEF Http!Init, Guards
<1>4. Http!FailuresAreEnveloped
  BY DEF Http!Init, Http!Unanswered, Http!FailuresAreEnveloped
<1>5. Counters
  <2>1. histogram = [buckets |-> [b \in DOMAIN Bounds |-> 0], count |-> 0]
    BY DEF Http!Init
  <2>2. /\ histogram.count = 0 /\ \A b \in DOMAIN Bounds : histogram.buckets[b] = 0
        /\ ~ToBeCounted /\ served = 0 /\ \A s \in Http!Statuses : totals[s] = 0
    BY <2>1 DEF Http!Init, ToBeCounted, Stages
  <2>3. \A b \in DOMAIN Bounds : b > 1 => b - 1 \in DOMAIN Bounds
    BY HttpConstants
  <2> QED
    BY <2>2, <2>3 DEF Counters, Http!MetricsAddUp, Http!Statuses
<1> QED
  BY <1>1, <1>2, <1>3, <1>4, <1>5 DEF HttpInv

LEMMA HttpStays == ASSUME HttpInv, UNCHANGED http PROVE HttpInv'
<1> USE DEF http
<1>1. ExchangeTypes' /\ CounterTypes'
  BY DEF HttpInv, ExchangeTypes, CounterTypes
<1>2. Guards' /\ Http!FailuresAreEnveloped'
  BY DEF HttpInv, Guards, Http!FailuresAreEnveloped
<1>3. Counters'
  BY DEF HttpInv, Counters, ToBeCounted, Http!MetricsAddUp
<1> QED
  BY <1>1, <1>2, <1>3 DEF HttpInv

\* What an answer in the envelope, or with a body of its own, makes of a response.
LEMMA SentFits ==
  ASSUME response \in Responses
  PROVE  /\ \A status \in Http!Statuses :
              LET s == Http!Sent(status, TRUE)
              IN s \in Responses /\ s.wire = status /\ Enveloped(s)
         /\ \A status \in PlainStatuses :
              LET s == Http!Sent(status, FALSE)
              IN s \in Responses /\ s.wire = status /\ Enveloped(s)
<1>1. \A status \in Http!Statuses, envelope \in BOOLEAN :
        LET s == Http!Sent(status, envelope)
        IN s \in Responses /\ s.wire = status /\ s.envelope = envelope
  BY Zenon DEF Http!Sent, Responses
<1>2. ASSUME NEW status \in Http!Statuses
      PROVE  LET s == Http!Sent(status, TRUE)
             IN s \in Responses /\ s.wire = status /\ Enveloped(s)
  BY <1>1, Zenon DEF Enveloped
<1>3. ASSUME NEW status \in PlainStatuses
      PROVE  LET s == Http!Sent(status, FALSE)
             IN s \in Responses /\ s.wire = status /\ Enveloped(s)
  <2>1. status \in Http!Statuses /\ (status >= 400 => status = 503)
    BY <1>3 DEF PlainStatuses, Http!Statuses
  <2> DEFINE s == Http!Sent(status, FALSE)
  <2>2. s \in Responses /\ s.wire = status
    BY <1>1, <2>1, Zenon
  <2> HIDE DEF s
  <2>3. s.wire >= 400 => s.wire = 503
    BY <2>1, <2>2
  <2>4. Enveloped(s)
    BY <2>3 DEF Enveloped
  <2> QED
    BY <2>2, <2>4, Zenon DEF s
<1> QED
  BY <1>2, <1>3, Zenon

\* A response with the same answer on the wire.
LEMMA StaysEnveloped ==
  ASSUME NEW q, NEW r, Enveloped(q), r.wire = q.wire, r.envelope = q.envelope
  PROVE  Enveloped(r)
  BY DEF Enveloped

\* A step that does not touch the counters.
LEMMA Uncounted ==
  ASSUME HttpInv, UNCHANGED <<served, totals, histogram>>, ToBeCounted' => ToBeCounted
  PROVE  CounterTypes' /\ Counters'
<1>1. histogram.count \in Nat /\ served \in Nat
  BY HttpConstants DEF HttpInv, CounterTypes
<1> QED
  BY <1>1 DEF HttpInv, CounterTypes, Counters, Http!MetricsAddUp

LEMMA StatusesAre == \A s \in Http!Statuses : s \in Nat /\ s # 0
  BY DEF Http!Statuses

\* A middleware passes on to the next, or to the handlers of errors, or answers; what was
\* sent before stays.
LEMMA MiddlewareStep ==
  ASSUME HttpInv, UNCHANGED <<input, arrived, served, totals, histogram>>, at # "idle",
         at' \in Stations \ {"idle", "limit"}, open' \in BOOLEAN, open' => open,
         parsed' \in BOOLEAN, parsed' => parsed \/ Fits(input), traced' \in BOOLEAN,
         traced' => at' \notin Stages, ToBeCounted' => ToBeCounted, ran' \in BOOLEAN,
         at' = "route" \/ ran' => Allowed(input), response' \in Responses, failure' \in Failures,
         Enveloped(response'),
         at' = "done" => response'.wire # 0
  PROVE  HttpInv'
<1>1. ExchangeTypes'
  BY DEF HttpInv, ExchangeTypes
<1>2. Guards'
  BY DEF HttpInv, Guards, Fits, Allowed
<1>3. Http!FailuresAreEnveloped'
  BY DEF Http!FailuresAreEnveloped, Enveloped
<1>4. CounterTypes' /\ Counters'
  BY Uncounted
<1> QED
  BY <1>1, <1>2, <1>3, <1>4 DEF HttpInv

LEMMA HttpTypes ==
  ASSUME HttpInv
  PROVE  /\ input \in HttpInputs /\ arrived \in Nat /\ arrived <= input.size /\ input.size \in Nat
         /\ at \in Stations /\ parsed \in BOOLEAN /\ open \in BOOLEAN /\ traced \in BOOLEAN
         /\ ran \in BOOLEAN /\ response \in Responses /\ failure \in Failures
         /\ Enveloped(response)
         /\ at = "done" => response.wire # 0 
         /\ at = "route" \/ ran => Allowed(input)
         /\ traced => at \notin Stages
         /\ BodyIsLimited /\ open => arrived <= BodyLimit
  BY HttpConstants DEF HttpInv, ExchangeTypes, Guards, Http!FailuresAreEnveloped, Enveloped

LEMMA AnswerStep ==
  ASSUME HttpInv, at # "idle", ran' \in BOOLEAN, ran' => Allowed(input), NEW status,
         \/ status \in Http!Statuses /\ Http!Answer(status, TRUE)
         \/ status \in PlainStatuses /\ Http!Answer(status, FALSE)
  PROVE  HttpInv'
<1>1. /\ at' = "done"
      /\ UNCHANGED <<input, arrived, parsed, failure, open, traced, served, totals, histogram>>
  BY Zenon DEF Http!Answer, Http!counters
<1>2. response' \in Responses /\ response'.wire \in Http!Statuses /\ Enveloped(response')
  <2>1. ASSUME status \in Http!Statuses, response' = Http!Sent(status, TRUE)
        PROVE  /\ response' \in Responses /\ response'.wire \in Http!Statuses
               /\ Enveloped(response')
    <3>1. LET s == Http!Sent(status, TRUE)
          IN s \in Responses /\ s.wire = status /\ Enveloped(s)
      BY <2>1, SentFits, HttpTypes, Zenon
    <3> QED
      BY <2>1, <3>1, Zenon
  <2>2. ASSUME status \in PlainStatuses, response' = Http!Sent(status, FALSE)
        PROVE  /\ response' \in Responses /\ response'.wire \in Http!Statuses
               /\ Enveloped(response')
    <3>1. LET s == Http!Sent(status, FALSE)
          IN s \in Responses /\ s.wire = status /\ Enveloped(s)
      BY <2>2, SentFits, HttpTypes, Zenon
    <3>2. status \in Http!Statuses
      BY <2>2, Zenon DEF PlainStatuses, Http!Statuses
    <3> QED
      BY <2>2, <3>1, <3>2, Zenon
  <2> QED
    BY <2>1, <2>2, Zenon DEF Http!Answer
<1>3. /\ at' \in Stations \ {"idle", "limit"} /\ at' \notin Stages /\ at' # "route"
      /\ ToBeCounted' => ToBeCounted
  BY <1>1, Zenon DEF Stations, Stages, ToBeCounted
<1>4. at' = "done" => response'.wire # 0
  BY <1>2, StatusesAre, Zenon
<1>5. /\ open' \in BOOLEAN /\ (open' => open) /\ parsed' \in BOOLEAN /\ (parsed' => parsed)
      /\ traced' \in BOOLEAN /\ failure' \in Failures
  BY <1>1, HttpTypes, Zenon
<1> QED
  BY <1>1, <1>2, <1>3, <1>4, <1>5, MiddlewareStep, Zenon

LEMMA ContinueStep ==
  ASSUME HttpInv, at # "idle", NEW next \in Stations \ {"idle", "limit", "done"},
         Http!Continue(next), UNCHANGED <<parsed, traced, ran>>, next \in Stages => at \in Stages,
         next = "route" => Allowed(input), response' \in Responses, Enveloped(response')
  PROVE  HttpInv'
<1>1. at' = next /\ UNCHANGED <<input, arrived, open, failure, served, totals, histogram>>
  BY DEF Http!Continue, Http!counters
<1>2. /\ at' \in Stations \ {"idle", "limit"} /\ (traced' => at' \notin Stages)
      /\ ToBeCounted' => ToBeCounted
  BY <1>1, HttpTypes DEF ToBeCounted
<1>3. at' # "done"
  BY <1>1
<1>4. /\ open' \in BOOLEAN /\ (open' => open) /\ parsed' \in BOOLEAN /\ (parsed' => parsed)
      /\ traced' \in BOOLEAN /\ ran' \in BOOLEAN /\ (at' = "route" \/ ran' => Allowed(input))
      /\ failure' \in Failures
  BY <1>1, HttpTypes
<1> QED
  BY <1>1, <1>2, <1>3, <1>4, MiddlewareStep

LEMMA FailStep ==
  ASSUME HttpInv, at # "idle", NEW error \in Failures, Http!Fail(error), ran' \in BOOLEAN,
         ran' => Allowed(input), response' \in Responses,
         Enveloped(response')
  PROVE  HttpInv'
<1>1. /\ failure' = error /\ at' = "appError"
      /\ UNCHANGED <<input, arrived, parsed, open, traced, served, totals, histogram>>
  BY DEF Http!Fail, Http!counters
<1>2. /\ at' \in Stations \ {"idle", "limit"} /\ at' \notin Stages /\ at' # "done" /\ at' # "route"
      /\ ToBeCounted' => ToBeCounted
  BY <1>1 DEF ToBeCounted, Stations, Stages
<1>3. /\ open' \in BOOLEAN /\ (open' => open) /\ parsed' \in BOOLEAN /\ (parsed' => parsed)
      /\ traced' \in BOOLEAN /\ failure' \in Failures
  BY <1>1, HttpTypes
<1> QED
  BY <1>1, <1>2, <1>3, MiddlewareStep

\* The same of a middleware that leaves the response as it is.
LEMMA FailPlainly ==
  ASSUME HttpInv, at # "idle", NEW error \in Failures, Http!Fail(error),
         UNCHANGED <<ran, response>>
  PROVE  HttpInv'
<1>1. /\ ran' \in BOOLEAN /\ (ran' => Allowed(input)) /\ response' \in Responses
      /\ Enveloped(response')
  BY HttpTypes
<1> QED
  BY <1>1, FailStep

LEMMA StationsAre ==
  /\ Stages \subseteq Stations
  /\ {"json", "requestId", "cors", "health", "tracing"} \subseteq Stages \ {"idle", "limit", "done"}
  /\ {"csrf", "route", "appError", "unhandled"} \subseteq
       (Stations \ {"idle", "limit", "done"}) \ Stages
  BY DEF Stages, Stations

LEMMA LimitStep == ASSUME HttpInv, Http!Limit PROVE HttpInv'
<1>1. at = "limit" /\ UNCHANGED ran /\ at \in Stages
  BY Zenon DEF Http!Limit, Stages
<1>2. CASE Http!Answer(413, TRUE)
  <2>1. 413 \in Http!Statuses /\ ran' \in BOOLEAN /\ (ran' => Allowed(input)) /\ at # "idle"
    BY <1>1, HttpTypes DEF Http!Statuses
  <2> QED
    BY <1>2, <2>1, AnswerStep, Zenon
<1>3. CASE Http!Continue("json") /\ UNCHANGED <<parsed, response, traced>>
  BY <1>1, <1>3, ContinueStep, StationsAre, HttpTypes
<1> QED
  BY <1>2, <1>3, Zenon DEF Http!Limit

LEMMA ParseStep == ASSUME HttpInv, Http!ParseJson PROVE HttpInv'
<1>1. at = "json" /\ UNCHANGED <<response, ran>> /\ at \in Stages
  BY DEF Http!ParseJson, Stages
<1>2. CASE Http!Continue("requestId") /\ UNCHANGED <<parsed, traced>>
  BY <1>1, <1>2, ContinueStep, StationsAre, HttpTypes
<1>3. CASE Http!Fail("tooLarge") \/ Http!Fail("aborted") \/ Http!Fail("malformed")
  BY <1>1, <1>3, FailPlainly DEF Failures
<1>4. CASE /\ input.declared => input.size <= JsonLimit
           /\ ~input.declared => arrived <= JsonLimit
           /\ open /\ arrived = input.size /\ Http!Continue("requestId") /\ parsed' = TRUE
           /\ UNCHANGED traced
  <2>1. Fits(input)
    BY <1>4, HttpTypes, HttpConstants DEF Fits
  <2>2. /\ at' = "requestId"
        /\ UNCHANGED <<input, arrived, open, failure, served, totals, histogram>>
    BY <1>4, Zenon DEF Http!Continue, Http!counters
  <2>3. at' \in Stations \ {"idle", "limit"} /\ at' # "done" /\ at' # "route" /\ ~traced
    BY <1>1, <2>2, StationsAre, HttpTypes
  <2>4. ToBeCounted
    BY <1>1 DEF ToBeCounted
  <2>5. /\ open' \in BOOLEAN /\ (open' => open) /\ parsed' \in BOOLEAN
        /\ traced' \in BOOLEAN /\ ~traced' /\ ran' \in BOOLEAN /\ (ran' => Allowed(input))
        /\ failure' \in Failures /\ response' \in Responses
        /\ Enveloped(response')
    BY <1>1, <1>4, <2>2, <2>3, HttpTypes, Zenon
  <2> QED
    BY <1>1, <2>1, <2>2, <2>3, <2>4, <2>5, MiddlewareStep
<1>5. \/ Http!Continue("requestId") /\ UNCHANGED <<parsed, traced>>
      \/ Http!Fail("tooLarge") \/ Http!Fail("aborted") \/ Http!Fail("malformed")
      \/ /\ ~(IF input.declared THEN input.size > JsonLimit ELSE arrived > JsonLimit)
         /\ open /\ arrived = input.size
         /\ Http!Continue("requestId") /\ parsed' = TRUE /\ UNCHANGED traced
  BY DEF Http!ParseJson
<1>6. ~(IF input.declared THEN input.size > JsonLimit ELSE arrived > JsonLimit) =>
        /\ input.declared => input.size <= JsonLimit
        /\ ~input.declared => arrived <= JsonLimit
  BY HttpTypes, HttpConstants
<1> QED
  BY <1>2, <1>3, <1>4, <1>5, <1>6, Zenon

LEMMA HeadersFit ==
  ASSUME response \in Responses, Enveloped(response), NEW headers \in SUBSET HeaderNames
  PROVE  LET r == [response EXCEPT !.headers = headers] IN r \in Responses /\ Enveloped(r)
<1> DEFINE r == [response EXCEPT !.headers = headers]
<1>1. r \in Responses /\ r.wire = response.wire /\ r.envelope = response.envelope
  BY DEF Responses
<1>2. Enveloped(r)
  BY <1>1, StaysEnveloped, Zenon
<1> QED
  BY <1>1, <1>2

LEMMA RequestIdStep == ASSUME HttpInv, Http!RequestId PROVE HttpInv'
<1>1. at = "requestId" /\ UNCHANGED ran /\ at \in Stages /\ response \in Responses
  BY HttpTypes DEF Http!RequestId, Stages
<1>2. CASE Http!Fail("headersSent") /\ UNCHANGED response
  BY <1>1, <1>2, FailPlainly DEF Failures
<1>3. CASE /\ Http!Continue("cors") /\ UNCHANGED <<parsed, traced>>
           /\ response' = [response EXCEPT !.headers = @ \cup {"X-Request-ID"}]
  <2>1. response.headers \cup {"X-Request-ID"} \in SUBSET HeaderNames
    BY <1>1 DEF Responses, HeaderNames
  <2>2. response' \in Responses /\ Enveloped(response')
    BY <1>1, <1>3, <2>1, HeadersFit, HttpTypes
  <2> QED
    BY <1>1, <1>3, <2>2, ContinueStep, StationsAre
<1> QED
  BY <1>2, <1>3 DEF Http!RequestId

LEMMA CorsStep == ASSUME HttpInv, Http!Cors PROVE HttpInv'
<1> DEFINE headers == response.headers \cup {"Allow-Methods"}
                      \cup (IF input.origin = "listed" THEN {"Allow-Origin"} ELSE {})
<1>1. at = "cors" /\ UNCHANGED ran /\ at \in Stages /\ response \in Responses
  BY HttpTypes, Zenon DEF Http!Cors, Stages
<1>2. headers \in SUBSET HeaderNames
  BY <1>1 DEF Responses, HeaderNames
<1>3. CASE Http!Fail("headersSent") /\ UNCHANGED response
  BY <1>1, <1>3, FailPlainly DEF Failures
<1>4. CASE /\ response' = [Http!Sent(204, FALSE) EXCEPT !.headers = headers] /\ at' = "done"
           /\ UNCHANGED <<input, arrived, parsed, failure, open, traced, served, Http!counters>>
  <2>1. /\ Http!Sent(204, FALSE) \in Responses /\ Http!Sent(204, FALSE).wire = 204
    <3>1. 204 \in PlainStatuses
      BY DEF PlainStatuses
    <3> QED
      BY <1>1, <3>1, SentFits, Zenon
  <2> DEFINE sent == Http!Sent(204, FALSE)
  <2>2. response' \in Responses /\ response'.wire = 204
    <3>1. sent \in Responses /\ sent.wire = 204 /\ response' = [sent EXCEPT !.headers = headers]
      BY <1>4, <2>1, Zenon
    <3> HIDE DEF sent, headers
    <3> QED
      BY <1>2, <3>1 DEF Responses
  <2>6. Enveloped(response')
    BY <2>2 DEF Enveloped
  <2>3. at' \in Stations \ {"idle", "limit"} /\ at' \notin Stages /\ at' # "route" /\ ~traced
    BY <1>1, <1>4, HttpTypes, Zenon DEF Stations, Stages
  <2>4. ToBeCounted
    BY <1>1 DEF ToBeCounted
  <2>5. /\ open' \in BOOLEAN /\ (open' => open) /\ parsed' \in BOOLEAN /\ (parsed' => parsed)
        /\ traced' \in BOOLEAN /\ ran' \in BOOLEAN /\ (ran' => Allowed(input))
        /\ failure' \in Failures
        /\ UNCHANGED <<input, arrived, served, totals, histogram>>
    BY <1>1, <1>4, HttpTypes, Zenon DEF Http!counters
  <2> QED
    BY <1>1, <2>2, <2>3, <2>4, <2>5, <2>6, MiddlewareStep
<1>5. CASE /\ response' = [response EXCEPT !.headers = headers]
           /\ Http!Continue("health") /\ UNCHANGED <<parsed, traced>>
  <2>1. response' \in Responses /\ Enveloped(response')
    BY <1>1, <1>2, <1>5, HeadersFit, HttpTypes
  <2> QED
    BY <1>1, <1>5, <2>1, ContinueStep, StationsAre, Zenon
<1> QED
  BY <1>3, <1>4, <1>5, Zenon DEF Http!Cors

LEMMA HealthStep == ASSUME HttpInv, Http!Health PROVE HttpInv'
<1>1. at = "health" /\ UNCHANGED ran /\ at \in Stages
  BY Zenon DEF Http!Health, Stages
<1>2. CASE Http!Fail("headersSent") /\ UNCHANGED response
  BY <1>1, <1>2, FailPlainly DEF Failures
<1>3. CASE Http!Answer(200, FALSE) \/ Http!Answer(503, FALSE)
  <2>1. 200 \in PlainStatuses /\ 503 \in PlainStatuses /\ ran' \in BOOLEAN /\ (ran' => Allowed(input))
    BY <1>1, HttpTypes DEF PlainStatuses
  <2>2. CASE Http!Answer(200, FALSE)
    BY <1>1, <2>1, <2>2, AnswerStep, Zenon
  <2>3. CASE Http!Answer(503, FALSE)
    BY <1>1, <2>1, <2>3, AnswerStep, Zenon
  <2> QED
    BY <1>3, <2>2, <2>3, Zenon
<1>4. CASE Http!Continue("tracing") /\ UNCHANGED <<parsed, response, traced>>
  BY <1>1, <1>4, ContinueStep, StationsAre, HttpTypes
<1> QED
  BY <1>2, <1>3, <1>4, Zenon DEF Http!Health

LEMMA TracingStep == ASSUME HttpInv, Http!Tracing PROVE HttpInv'
<1>1. /\ at = "tracing" /\ at \in Stages /\ at' = "csrf" /\ traced' = (input.path \notin Exempt)
      /\ UNCHANGED <<input, arrived, open, failure, served, totals, histogram, parsed, response, ran>>
  BY DEF Http!Tracing, Http!Continue, Http!counters, Stages
<1>2. /\ at' \in Stations \ {"idle", "limit"} /\ at' \notin Stages /\ at' # "done" /\ at' # "route"
      /\ ToBeCounted
  BY <1>1, StationsAre DEF ToBeCounted
<1>3. /\ open' \in BOOLEAN /\ (open' => open) /\ parsed' \in BOOLEAN /\ (parsed' => parsed)
      /\ traced' \in BOOLEAN /\ ran' \in BOOLEAN /\ (ran' => Allowed(input))
      /\ failure' \in Failures /\ response' \in Responses
      /\ Enveloped(response')
  BY <1>1, HttpTypes
<1> QED
  BY <1>1, <1>2, <1>3, MiddlewareStep

LEMMA CsrfStep == ASSUME HttpInv, Http!Csrf PROVE HttpInv'
<1>1. at = "csrf" /\ UNCHANGED ran
  BY Zenon DEF Http!Csrf
<1>2. CASE Http!Fail("headersSent") /\ UNCHANGED response
  BY <1>1, <1>2, FailPlainly DEF Failures
<1>3. CASE Http!Answer(403, TRUE)
  <2>1. 403 \in Http!Statuses /\ ran' \in BOOLEAN /\ (ran' => Allowed(input)) /\ at # "idle"
    BY <1>1, HttpTypes DEF Http!Statuses
  <2> QED
    BY <1>3, <2>1, AnswerStep, Zenon
<1>4. CASE /\ ~(input.method \in Http!Unsafe /\ input.token # "match")
           /\ Http!Continue("route") /\ UNCHANGED <<parsed, response, traced>>
  <2>1. Allowed(input)
    BY <1>4 DEF Allowed
  <2> QED
    BY <1>1, <1>4, <2>1, ContinueStep, StationsAre, HttpTypes
<1> QED
  BY <1>2, <1>3, <1>4, Zenon DEF Http!Csrf

LEMMA RouteStep == ASSUME HttpInv, Http!Route PROVE HttpInv'
<1>1. /\ at = "route" /\ ran' = (input.route # "none") /\ Allowed(input)
      /\ input.route \in Http!Routes /\ response \in Responses
  BY HttpTypes, HttpConstants, Zenon DEF Http!Route
<1>2. ran' \in BOOLEAN
  BY <1>1
<1>3. CASE Http!Fail("headersSent") /\ UNCHANGED response
  BY <1>1, <1>2, <1>3, FailStep, HttpTypes DEF Failures
<1>4. CASE Http!Fail(input.route) /\ UNCHANGED response
  BY <1>1, <1>2, <1>4, FailStep, HttpTypes, Zenon DEF Failures
<1>5. CASE /\ Http!Fail("crash")
           /\ response' = IF response.wire = 0 THEN Http!Sent(200, FALSE) ELSE response
  <2>1. /\ response' \in Responses
        /\ Enveloped(response')
    <3>1. LET s == Http!Sent(200, FALSE)
          IN s \in Responses /\ s.wire = 200 /\ Enveloped(s)
      <4>1. 200 \in PlainStatuses
        BY DEF PlainStatuses
      <4> QED
        BY <1>1, <4>1, SentFits, Zenon
    <3> QED
      BY <1>5, <3>1, HttpTypes, Zenon
  <2> QED
    BY <1>1, <1>2, <1>5, <2>1, FailStep, Zenon DEF Failures
<1>6. CASE Http!Answer(404, TRUE)
  <2>1. 404 \in Http!Statuses
    BY DEF Http!Statuses
  <2> QED
    BY <1>1, <1>2, <1>6, <2>1, AnswerStep, Zenon
<1>7. CASE Http!Answer(200, FALSE)
  <2>1. 200 \in PlainStatuses
    BY DEF PlainStatuses
  <2> QED
    BY <1>1, <1>2, <1>7, <2>1, AnswerStep, Zenon
<1>8. \/ Http!Fail("headersSent") /\ UNCHANGED response
      \/ Http!Answer(404, TRUE) \/ Http!Answer(200, FALSE)
      \/ /\ Http!Fail("crash")
         /\ response' = IF response.wire = 0 THEN Http!Sent(200, FALSE) ELSE response
      \/ Http!Fail(input.route) /\ UNCHANGED response
  BY Zenon DEF Http!Route
<1> QED
  BY <1>3, <1>4, <1>5, <1>6, <1>7, <1>8, Zenon

LEMMA AppErrorStep == ASSUME HttpInv, Http!AppError PROVE HttpInv'
<1>1. /\ at = "appError" /\ UNCHANGED ran /\ response \in Responses
      /\ ran' \in BOOLEAN /\ (ran' => Allowed(input)) /\ at \notin Stages
  BY HttpTypes, Zenon DEF Http!AppError, Stages
<1>2. CASE Http!Continue("unhandled") /\ UNCHANGED <<parsed, response, traced>>
  BY <1>1, <1>2, ContinueStep, StationsAre, HttpTypes
<1>3. failure \in DOMAIN Http!StatusOf => Http!StatusOf[failure] \in Http!Statuses
  BY DEF Http!StatusOf, Http!Statuses
<1>4. ASSUME UNCHANGED <<input, arrived, parsed, traced, served, totals, histogram, open>>,
             at' \in {"done", "unhandled"}, failure' \in Failures, response' \in Responses,
             Enveloped(response'),
             at' = "done" => response'.wire # 0
      PROVE  HttpInv'
  <2>1. /\ at' \in Stations \ {"idle", "limit"} /\ at' \notin Stages /\ at' # "route"
        /\ ToBeCounted' => ToBeCounted
    BY <1>4 DEF Stations, Stages, ToBeCounted
  <2>2. /\ open' \in BOOLEAN /\ (open' => open) /\ parsed' \in BOOLEAN /\ (parsed' => parsed)
        /\ traced' \in BOOLEAN
    BY <1>4, HttpTypes
  <2> QED
    BY <1>1, <1>4, <2>1, <2>2, MiddlewareStep
<1>5. CASE failure \in DOMAIN Http!StatusOf /\ response.wire # 0
  <2>1. /\ response' = IF failure = "tooMany" THEN response
                       ELSE [response EXCEPT !.status = Http!StatusOf[failure]]
        /\ failure' = "headersSent" /\ at' = "unhandled"
        /\ UNCHANGED <<input, arrived, parsed, open, traced, served, totals, histogram>>
    BY <1>5 DEF Http!AppError, Http!counters
  <2>2. /\ response' \in Responses /\ response'.wire = response.wire
        /\ response'.envelope = response.envelope
    BY <1>1, <1>3, <1>5, <2>1 DEF Responses
  <2>4. Enveloped(response')
    BY <2>2, StaysEnveloped, HttpTypes
  <2>3. failure' \in Failures /\ at' # "done"
    BY <2>1 DEF Failures
  <2> QED
    BY <1>4, <2>1, <2>2, <2>3, <2>4, HttpTypes
<1>6. CASE failure \in DOMAIN Http!StatusOf /\ response.wire = 0
  <2> DEFINE status == Http!StatusOf[failure]
             sent == Http!Sent(status, TRUE)
             headers == sent.headers \cup (IF failure = "tooMany" THEN {"Retry-After"} ELSE {})
  <2>1. /\ response' = [sent EXCEPT !.headers = headers] /\ at' = "done"
        /\ UNCHANGED <<input, arrived, parsed, failure, open, traced, served, totals, histogram>>
    BY <1>6, Zenon DEF Http!AppError, Http!counters
  <2>2. status \in Http!Statuses
    BY <1>3, <1>6
  <2>3. sent \in Responses /\ sent.wire = status /\ Enveloped(sent)
    BY <1>1, <2>2, SentFits, Zenon
  <2> HIDE DEF sent, status
  <2>4. headers \in SUBSET HeaderNames
    BY <2>3 DEF Responses, HeaderNames
  <2> HIDE DEF headers
  <2>5. response' \in Responses /\ response'.wire = status /\ Enveloped(response')
    <3>1. response' \in Responses /\ response'.wire = sent.wire /\ response'.envelope = sent.envelope
      BY <2>1, <2>3, <2>4 DEF Responses
    <3> QED
      BY <2>3, <3>1, StaysEnveloped
  <2>6. response'.wire # 0
    BY <2>2, <2>5, StatusesAre
  <2> QED
    BY <1>4, <2>1, <2>5, <2>6, HttpTypes
<1> QED
  BY <1>2, <1>5, <1>6, Zenon DEF Http!AppError

LEMMA UnhandledStep == ASSUME HttpInv, Http!Unhandled PROVE HttpInv'
<1>1. /\ at = "unhandled" /\ UNCHANGED ran /\ response \in Responses
      /\ ran' \in BOOLEAN /\ (ran' => Allowed(input))
  BY HttpTypes, Zenon DEF Http!Unhandled
<1>2. CASE Http!Answer(500, TRUE)
  <2>1. 500 \in Http!Statuses
    BY DEF Http!Statuses
  <2> QED
    BY <1>1, <1>2, <2>1, AnswerStep, Zenon
<1>3. CASE /\ response' = [response EXCEPT !.status = 500] /\ response.wire # 0
           /\ at' = "done" /\ open' = FALSE
           /\ UNCHANGED <<input, arrived, parsed, failure, traced, served, totals, histogram>>
  <2>1. /\ response' \in Responses /\ response'.wire = response.wire
        /\ response'.envelope = response.envelope
    BY <1>1, <1>3 DEF Responses, Http!Statuses
  <2>2. /\ at' \in Stations \ {"idle", "limit"} /\ at' \notin Stages /\ at' # "route"
        /\ ToBeCounted' => ToBeCounted
    BY <1>3 DEF Stations, Stages, ToBeCounted
  <2>3. /\ open' \in BOOLEAN /\ (open' => open) /\ parsed' \in BOOLEAN /\ (parsed' => parsed)
        /\ traced' \in BOOLEAN /\ failure' \in Failures
        /\ UNCHANGED <<input, arrived, served, totals, histogram>>
    BY <1>3, HttpTypes, Zenon
  <2>4. response'.wire # 0
    BY <1>3, <2>1
  <2>5. Enveloped(response')
    BY <2>1, HttpTypes, StaysEnveloped
  <2> QED
    BY <1>1, <1>3, <2>1, <2>2, <2>3, <2>4, <2>5, MiddlewareStep
<1>4. CASE response.wire = 0
  BY <1>2, <1>4, Zenon DEF Http!Unhandled
<1>5. CASE response.wire # 0
  <2>1. /\ response' = [response EXCEPT !.status = 500] /\ at' = "done" /\ open' = FALSE
        /\ UNCHANGED <<input, arrived, parsed, failure, traced, served, Http!counters>>
    BY <1>5 DEF Http!Unhandled
  <2> QED
    BY <1>3, <1>5, <2>1, Zenon DEF Http!counters
<1> QED
  BY <1>4, <1>5

LEMMA ArrivalStep == ASSUME HttpInv, Http!Arrive PROVE HttpInv'
<1>1. /\ input' \in HttpInputs /\ arrived' = 0 /\ parsed' = FALSE /\ failure' = "none"
      /\ response' = Http!Unanswered /\ open' = TRUE /\ traced' = FALSE /\ ran' = FALSE
      /\ served < MaxServed /\ served' = served + 1 /\ UNCHANGED <<totals, histogram>>
      /\ at = "idle" /\ at' \in {"limit", "json"}
  BY DEF Http!Arrive, Http!counters
<1>2. Http!Unanswered \in Responses /\ Http!Unanswered.wire = 0
  BY DEF Http!Unanswered, Responses, Http!Statuses
<1>3. ExchangeTypes'
  <2>1. input' \in HttpInputs /\ arrived' \in 0 .. input'.size
    BY <1>1, HttpConstants
  <2> QED
    BY <1>1, <1>2, <2>1, Zenon DEF ExchangeTypes, Stations, Stages, Failures
<1>4. Guards' /\ Http!FailuresAreEnveloped'
  BY <1>1, <1>2, HttpConstants DEF Guards, Http!FailuresAreEnveloped
<1>5. histogram.count \in Nat /\ served \in Nat /\ histogram.count <= served
  BY HttpConstants DEF HttpInv, CounterTypes, Counters
<1>6. CounterTypes' /\ Http!MetricsAddUp'
  <2>1. served' \in 0 .. MaxServed
    BY <1>1, <1>5, HttpConstants
  <2> QED
    BY <1>1, <2>1 DEF HttpInv, CounterTypes, Counters, Http!MetricsAddUp
<1>7. histogram'.count + (IF ToBeCounted' THEN 1 ELSE 0) <= served'
  BY <1>1, <1>5
<1> QED
  BY <1>3, <1>4, <1>6, <1>7 DEF HttpInv, Counters

LEMMA ChunkStep == ASSUME HttpInv, Http!Chunk PROVE HttpInv'
<1>1. /\ at \notin {"idle", "limit"} /\ open /\ arrived < input.size /\ arrived' = arrived + 1
      /\ UNCHANGED <<input, at, parsed, failure, traced, ran, served, totals, histogram>>
      /\ \/ /\ BodyIsLimited /\ arrived + 1 > BodyLimit /\ open' = FALSE
            /\ response' = IF response.wire = 0 THEN Http!Sent(413, TRUE) ELSE response
         \/ ~(BodyIsLimited /\ arrived + 1 > BodyLimit) /\ UNCHANGED <<open, response>>
  BY Zenon DEF Http!Chunk, Http!counters
<1>2. /\ response' \in Responses
      /\ Enveloped(response')
      /\ response.wire # 0 => response' = response
  <2>1. 413 \in Http!Statuses
    BY DEF Http!Statuses
  <2>2. ASSUME NEW status \in Http!Statuses, response' = Http!Sent(status, TRUE)
        PROVE  response' \in Responses /\ Enveloped(response')
    BY <2>2, SentFits, HttpTypes, Zenon
  <2>3. \/ response' = response
        \/ response.wire = 0 /\ \E status \in Http!Statuses : response' = Http!Sent(status, TRUE)
    BY <1>1, <2>1, Zenon
  <2> QED
    BY <2>2, <2>3, HttpTypes, Zenon
<1>3. open' \in BOOLEAN /\ (BodyIsLimited /\ open' => arrived' <= BodyLimit)
  <2>1. arrived + 1 > BodyLimit \/ arrived' <= BodyLimit
    BY <1>1, HttpTypes, HttpConstants
  <2>2. open \in BOOLEAN
    BY HttpTypes
  <2> QED
    BY <1>1, <2>1, <2>2, Zenon
<1>4. arrived' \in 0 .. input.size
  BY <1>1, HttpTypes
<1>5. ExchangeTypes'
  BY <1>1, <1>2, <1>3, <1>4, Zenon DEF HttpInv, ExchangeTypes
<1>6. Guards'
  BY <1>1, <1>3, Zenon DEF HttpInv, Guards
<1>7. Http!FailuresAreEnveloped'
  <2>1. at' = "done" => response'.wire # 0
    BY <1>1, <1>2, HttpTypes, Zenon
  <2> QED
    BY <1>2, <2>1 DEF Http!FailuresAreEnveloped, Enveloped
<1>8. CounterTypes' /\ Counters'
  BY <1>1, Uncounted, Zenon DEF ToBeCounted
<1> QED
  BY <1>5, <1>6, <1>7, <1>8 DEF HttpInv

LEMMA LeaveStep == ASSUME HttpInv, Http!Leave PROVE HttpInv'
<1>1. /\ at = "done" /\ at' = "idle"
      /\ UNCHANGED <<input, arrived, parsed, failure, response, open, traced, ran, served, totals,
                     histogram>>
  BY DEF Http!Leave, Http!counters
<1>2. ExchangeTypes' /\ Guards' /\ Http!FailuresAreEnveloped'
  BY <1>1 DEF HttpInv, ExchangeTypes, Stations, Guards, Stages, Http!FailuresAreEnveloped
<1>3. ToBeCounted' => ToBeCounted
  BY <1>1, Zenon DEF ToBeCounted, Stages
<1>4. CounterTypes' /\ Counters'
  BY <1>1, <1>3, Uncounted
<1> QED
  BY <1>2, <1>4 DEF HttpInv

\* One more is counted, in one total and in the buckets from the first that holds it.
LEMMA FinishStep == ASSUME HttpInv, Http!Finish PROVE HttpInv'
<1>1. PICK d \in Durations : histogram' = Http!Observed(histogram, d)
  BY Zenon DEF Http!Finish
<1>2. /\ traced /\ traced' = FALSE /\ totals' = [totals EXCEPT ![response.status] = @ + 1]
      /\ UNCHANGED <<input, at, arrived, parsed, failure, response, open, ran, served>>
  BY Zenon DEF Http!Finish
<1>3. /\ histogram'.count = histogram.count + 1
      /\ \A b \in DOMAIN Bounds :
           histogram'.buckets[b] = histogram.buckets[b] + IF d <= Bounds[b] THEN 1 ELSE 0
      /\ histogram' \in [buckets : [DOMAIN Bounds -> Nat], count : Nat]
  BY <1>1 DEF Http!Observed, HttpInv, CounterTypes
<1>4. response.status \in Http!Statuses /\ totals \in [Http!Statuses -> Nat]
  BY HttpTypes DEF Responses, HttpInv, CounterTypes
<1>5. CounterTypes'
  BY <1>2, <1>3, <1>4 DEF HttpInv, CounterTypes
<1>6. histogram.count \in Nat /\ served \in Nat /\ histogram.count + 1 <= served
  BY <1>2, HttpConstants DEF HttpInv, CounterTypes, Counters, ToBeCounted
<1>7. histogram'.count + (IF ToBeCounted' THEN 1 ELSE 0) <= served'
  <2>1. ~ToBeCounted'
    BY <1>2, HttpTypes DEF ToBeCounted
  <2> QED
    BY <1>2, <1>3, <1>6, <2>1
<1>8. histogram'.count =
        totals'[200] + totals'[204] + totals'[403] + totals'[404] + totals'[413] + totals'[422]
          + totals'[429] + totals'[500] + totals'[503]
  <2>1. histogram.count =
          totals[200] + totals[204] + totals[403] + totals[404] + totals[413] + totals[422]
            + totals[429] + totals[500] + totals[503]
    BY DEF HttpInv, Counters, Http!MetricsAddUp
  <2>2. \A s \in {200, 204, 403, 404, 413, 422, 429, 500, 503} :
          /\ totals[s] \in Nat
          /\ totals'[s] = IF s = response.status THEN totals[s] + 1 ELSE totals[s]
    BY <1>2, <1>4 DEF Http!Statuses
  <2>3. response.status \in {200, 204, 403, 404, 413, 422, 429, 500, 503}
    BY <1>4 DEF Http!Statuses
  <2> QED
    BY <1>3, <2>1, <2>2, <2>3
<1>9. ASSUME NEW b \in DOMAIN Bounds
      PROVE  /\ histogram'.buckets[b] <= histogram'.count
             /\ b > 1 => histogram'.buckets[b - 1] <= histogram'.buckets[b]
  <2>1. /\ histogram.buckets[b] <= histogram.count
        /\ b > 1 => histogram.buckets[b - 1] <= histogram.buckets[b]
        /\ histogram.buckets[b] \in Nat
    BY DEF HttpInv, CounterTypes, Counters, Http!MetricsAddUp
  <2>2. histogram'.buckets[b] <= histogram'.count
    BY <1>3, <1>6, <2>1
  <2>3. ASSUME b > 1 PROVE histogram'.buckets[b - 1] <= histogram'.buckets[b]
    <3>1. b - 1 \in DOMAIN Bounds /\ Bounds[b - 1] <= Bounds[b]
      BY <2>3, HttpConstants
    <3>2. Bounds[b - 1] \in Nat /\ Bounds[b] \in Nat /\ d \in Nat /\ histogram.buckets[b - 1] \in Nat
      BY <3>1, HttpConstants DEF HttpInv, CounterTypes
    <3> QED
      BY <1>3, <2>1, <2>3, <3>1, <3>2
  <2> QED
    BY <2>2, <2>3
<1>10. Counters'
  BY <1>7, <1>8, <1>9 DEF Counters, Http!MetricsAddUp
<1>11. ExchangeTypes' /\ Guards' /\ Http!FailuresAreEnveloped'
  <2>1. ExchangeTypes'
    BY <1>2, Zenon DEF HttpInv, ExchangeTypes
  <2>2. Guards'
    BY <1>2 DEF HttpInv, Guards
  <2>3. Http!FailuresAreEnveloped'
    BY <1>2 DEF HttpInv, Http!FailuresAreEnveloped
  <2> QED
    BY <2>1, <2>2, <2>3
<1> QED
  BY <1>5, <1>10, <1>11 DEF HttpInv

LEMMA HttpStep == ASSUME HttpInv, Http!Next PROVE HttpInv'
  BY ArrivalStep, LimitStep, ChunkStep, ParseStep, RequestIdStep, CorsStep, HealthStep, TracingStep,
     CsrfStep, RouteStep, AppErrorStep, UnhandledStep, FinishStep, LeaveStep DEF Http!Next

LEMMA HttpAnswers ==
  HttpInv => /\ Http!TypeOK /\ Http!FailuresAreEnveloped /\ Http!HandlerIsGuarded
             /\ Http!MetricsAddUp
<1> SUFFICES ASSUME HttpInv
             PROVE  /\ Http!TypeOK /\ Http!FailuresAreEnveloped /\ Http!HandlerIsGuarded
                    /\ Http!MetricsAddUp
  OBVIOUS
<1>1. Http!MetricsAddUp /\ Http!FailuresAreEnveloped
  BY DEF HttpInv, Counters
<1>2. Http!HandlerIsGuarded
  BY DEF HttpInv, Guards, Fits, Allowed, Http!HandlerIsGuarded
<1>3. totals \in [Http!Statuses -> 0 .. MaxServed] /\ histogram.count \in 0 .. MaxServed
  <2>1. /\ histogram.count \in Nat /\ served \in Nat /\ served <= MaxServed
        /\ histogram.count <= served /\ totals \in [Http!Statuses -> Nat]
    BY HttpConstants DEF HttpInv, CounterTypes, Counters
  <2>2. \A s \in {200, 204, 403, 404, 413, 422, 429, 500, 503} : totals[s] \in Nat
    BY <2>1 DEF Http!Statuses
  <2>3. histogram.count =
          totals[200] + totals[204] + totals[403] + totals[404] + totals[413] + totals[422]
            + totals[429] + totals[500] + totals[503]
    BY <1>1 DEF Http!MetricsAddUp
  <2>4. \A s \in {200, 204, 403, 404, 413, 422, 429, 500, 503} : totals[s] <= histogram.count
    <3>1. /\ totals[200] \in Nat /\ totals[204] \in Nat /\ totals[403] \in Nat
          /\ totals[404] \in Nat /\ totals[413] \in Nat /\ totals[422] \in Nat
          /\ totals[429] \in Nat /\ totals[500] \in Nat /\ totals[503] \in Nat
      BY <2>2
    <3>2. /\ totals[200] <= histogram.count /\ totals[204] <= histogram.count
          /\ totals[403] <= histogram.count /\ totals[404] <= histogram.count
          /\ totals[413] <= histogram.count /\ totals[422] <= histogram.count
          /\ totals[429] <= histogram.count /\ totals[500] <= histogram.count
          /\ totals[503] <= histogram.count
      BY <2>3, <3>1
    <3> QED
      BY <3>2
  <2>5. ASSUME NEW s \in Http!Statuses PROVE totals[s] \in 0 .. MaxServed
    <3>1. totals[s] <= histogram.count /\ totals[s] \in Nat
      BY <2>1, <2>4 DEF Http!Statuses
    <3> QED
      BY <2>1, <3>1, HttpConstants
  <2> QED
    BY <2>1, <2>5, HttpConstants
<1>4. Http!TypeOK
  BY <1>3, HttpTypes, HttpConstants
     DEF HttpInv, ExchangeTypes, CounterTypes, Stations, Stages, Responses, Http!TypeOK
<1> QED
  BY <1>1, <1>2, <1>4

-----------------------------------------------------------------------------
(* Signing in                                                              *)

Rights == Roles \cup {"active"}
Addresses == [name : AddressNames, shouted : {FALSE}]
Account ==
  [email : [name : AddressNames \cup {"none"}, shouted : BOOLEAN], active : BOOLEAN,
   roles : SUBSET Roles]
Claim == [sub : Users, type : {"access", "refresh"}, roles : SUBSET Roles, exp : Nat]
SignInCall ==
  [pc : {"idle", "create", "find", "issue"}, user : Users \cup {"none"}, row : Account,
   since : Nat]
Losses == [Users -> [Rights -> Nat]]

HasRight(row, right) == IF right = "active" THEN row.active ELSE right \in row.roles
TtlOf(type) == IF type = "access" THEN AccessTtl ELSE RefreshTtl

\* Whoever holds the token has its rights still, or lost them so late that what was read
\* of them may be in it.
TokenFits(t, rs, ls, n) ==
  /\ t.exp <= n + TtlOf(t.type) /\ (t.roles # {} => t.type = "access")
  /\ \A right \in t.roles \cup {"active"} :
       \/ HasRight(rs[t.sub], right)
       \/ ls[t.sub][right] >= 1 /\ t.exp <= ls[t.sub][right] + Latency + TtlOf(t.type)

\* A call goes on within the latency, and what the row it read grants was so then.
SigningFits(c, rs, ls, n) ==
  /\ c.pc # "idle" => 1 <= c.since /\ c.since <= n /\ n <= c.since + Latency
  /\ c.pc = "create" => c.row.email \in Addresses /\ c.row.roles = {}
  /\ c.pc \in {"find", "issue"} => c.user \in Users
  /\ c.pc = "issue" =>
       \A right \in c.row.roles \cup {"active"} :
         HasRight(rs[c.user], right) \/ ls[c.user][right] >= c.since

SignInTypes ==
  /\ time \in 1 .. MaxSeconds /\ accounts \in [Users -> Account] /\ pairs \in SUBSET Claim
  /\ signing \in [SignInCalls -> SignInCall] /\ lost \in Losses
  /\ paired \in 0 .. MaxIssued /\ changes \in 0 .. MaxRowChanges

\* Addresses are stored in lower case, and none twice.
AddressesDiffer ==
  /\ \A u \in Users : accounts[u] # SignIn_!NoRow => accounts[u].email \in Addresses
  /\ \A u \in Users : \A v \in Users :
       (/\ accounts[u] # SignIn_!NoRow /\ accounts[v] # SignIn_!NoRow
        /\ accounts[u].email = accounts[v].email) => u = v

SignInInv ==
  /\ SignInTypes /\ AddressesDiffer
  /\ \A t \in pairs : TokenFits(t, accounts, lost, time)
  /\ \A c \in SignInCalls : SigningFits(signing[c], accounts, lost, time)
  /\ SignIn_!RightsEnd

LEMMA SignInConstants ==
  /\ AccessTtl \in Nat \ {0} /\ RefreshTtl \in Nat /\ AccessTtl < RefreshTtl /\ Latency \in Nat
  /\ MaxSeconds \in Nat \ {0} /\ MaxIssued \in Nat /\ MaxRowChanges \in Nat
  /\ "none" \notin Users /\ "none" \notin AddressNames /\ "active" \notin Roles
  /\ \A type : TtlOf(type) \in Nat
  BY PlatformAssumption DEF SignIn_!SignInAssumption, TtlOf

LEMMA NoRowFits ==
  /\ SignIn_!NoRow \in Account /\ ~SignIn_!NoRow.active /\ SignIn_!NoRow.roles = {}
  /\ SignIn_!NoRow.email \notin Addresses
  BY SignInConstants DEF SignIn_!NoRow, Account, Addresses

LEMMA IdleFits ==
  /\ SignIn_!Idle \in SignInCall /\ SignIn_!Idle.pc = "idle"
  /\ \A rs, ls, n : SigningFits(SignIn_!Idle, rs, ls, n)
<1>1. SignIn_!Idle \in SignInCall /\ SignIn_!Idle.pc = "idle"
  BY NoRowFits DEF SignIn_!Idle, SignInCall
<1> QED
  BY <1>1 DEF SigningFits

LEMMA LowerIs ==
  ASSUME NEW n \in AddressNames, NEW shouted \in BOOLEAN
  PROVE  SignIn_!Lower([name |-> n, shouted |-> shouted]) \in Addresses
<1> DEFINE a == [name |-> n, shouted |-> shouted]
<1>1. ASSUME NEW typed PROVE [a EXCEPT !.shouted = typed] = [name |-> n, shouted |-> typed]
  OBVIOUS
<1>2. SignIn_!Lower(a) = [a EXCEPT !.shouted = FALSE]
  BY DEF SignIn_!Lower
<1>3. [name |-> n, shouted |-> FALSE] \in Addresses
  BY DEF Addresses
<1>4. [a EXCEPT !.shouted = FALSE] = [name |-> n, shouted |-> FALSE]
  BY <1>1, Zenon
<1> QED
  BY <1>2, <1>3, <1>4

LEMMA SignInInit == SignIn_!Init => SignInInv
<1> SUFFICES ASSUME SignIn_!Init PROVE SignInInv
  OBVIOUS
<1>1. PICK u \in Users, n \in AddressNames, roles \in SUBSET Roles :
        accounts = [v \in Users |->
                      IF v = u THEN [email |-> [name |-> n, shouted |-> FALSE],
                                     active |-> TRUE, roles |-> roles]
                      ELSE SignIn_!NoRow]
  BY Zenon DEF SignIn_!Init
<1>2. /\ time = 1 /\ pairs = {} /\ signing = [c \in SignInCalls |-> SignIn_!Idle]
      /\ answer = SignIn_!Nothing
      /\ lost = [v \in Users |-> [right \in Roles \cup {"active"} |-> 0]]
      /\ paired = 0 /\ changes = 0
  BY DEF SignIn_!Init
<1> DEFINE row == [email |-> [name |-> n, shouted |-> FALSE], active |-> TRUE, roles |-> roles]
<1>3. row \in Account /\ row.email \in Addresses
  BY DEF Account, Addresses
<1>4. /\ accounts[u] = row /\ \A v \in Users : v # u => accounts[v] = SignIn_!NoRow
      /\ accounts \in [Users -> Account]
  BY <1>1, <1>3, NoRowFits
<1> HIDE DEF row
<1>5. lost \in Losses
  BY <1>2 DEF Losses, Rights
<1>6. SignInTypes
  BY <1>2, <1>4, <1>5, SignInConstants, IdleFits DEF SignInTypes
<1>7. AddressesDiffer
  <2>1. \A v \in Users : accounts[v] # SignIn_!NoRow => v = u
    BY <1>4
  <2> QED
    BY <1>3, <1>4, <2>1 DEF AddressesDiffer
<1>8. \A c \in SignInCalls : SigningFits(signing[c], accounts, lost, time)
  BY <1>2, IdleFits
<1>9. SignIn_!RightsEnd
  BY <1>2 DEF SignIn_!RightsEnd, SignIn_!Nothing
<1> QED
  BY <1>2, <1>6, <1>7, <1>8, <1>9 DEF SignInInv

LEMMA SignInStays == ASSUME SignInInv, UNCHANGED signin PROVE SignInInv'
<1> USE DEF signin
<1>1. SignInTypes' /\ AddressesDiffer'
  BY DEF SignInInv, SignInTypes, AddressesDiffer
<1>2. SignIn_!RightsEnd'
  BY DEF SignInInv, SignIn_!RightsEnd, SignIn_!Within
<1> QED
  BY <1>1, <1>2 DEF SignInInv

\* A call moves on; the answer is no grant.
LEMMA CallMoves ==
  ASSUME SignInInv, NEW c \in SignInCalls, NEW k \in SignInCall,
         signing' = [signing EXCEPT ![c] = k], SigningFits(k, accounts, lost, time),
         answer'.status # 200, UNCHANGED <<time, accounts, pairs, lost, paired, changes>>
  PROVE  SignInInv'
<1>1. /\ signing' \in [SignInCalls -> SignInCall]
      /\ \A d \in SignInCalls : SigningFits(signing'[d], accounts, lost, time)
  BY DEF SignInInv, SignInTypes
<1>2. SignInTypes' /\ AddressesDiffer'
  BY <1>1 DEF SignInInv, SignInTypes, AddressesDiffer
<1>3. SignIn_!RightsEnd'
  BY DEF SignIn_!RightsEnd
<1> QED
  BY <1>1, <1>2, <1>3 DEF SignInInv

LEMMA Refusing ==
  ASSUME SignInInv, NEW c \in SignInCalls, NEW status, status # 200, SignIn_!Refused(c, status),
         UNCHANGED <<time, accounts, pairs, lost, paired, changes>>
  PROVE  SignInInv'
<1>1. signing' = [signing EXCEPT ![c] = SignIn_!Idle] /\ answer'.status # 200
  BY DEF SignIn_!Refused, SignIn_!Answer
<1> QED
  BY <1>1, IdleFits, CallMoves, Zenon

LEMMA GoingOn ==
  ASSUME SignInInv, NEW c \in SignInCalls, NEW pc \in {"create", "find", "issue"},
         NEW user \in Users \cup {"none"}, NEW row \in Account, SignIn_!Goto(c, pc, user, row),
         answer' = SignIn_!Nothing, UNCHANGED <<time, accounts, pairs, lost, paired, changes>>,
         pc = "create" => row.email \in Addresses /\ row.roles = {},
         pc \in {"find", "issue"} => user \in Users,
         pc = "issue" => row = accounts[user] /\ row.active
  PROVE  SignInInv'
<1> DEFINE k == [pc |-> pc, user |-> user, row |-> row, since |-> time]
<1>1. time \in Nat /\ time >= 1
  BY SignInConstants DEF SignInInv, SignInTypes
<1>2. k \in SignInCall /\ signing' = [signing EXCEPT ![c] = k]
  BY <1>1 DEF SignInCall, SignIn_!Goto
<1>3. k.pc = pc /\ k.user = user /\ k.row = row /\ k.since = time
  OBVIOUS
<1> HIDE DEF k
<1>4. pc = "issue" => \A right \in row.roles \cup {"active"} : HasRight(accounts[user], right)
  BY DEF HasRight
<1>5. SigningFits(k, accounts, lost, time)
  BY <1>1, <1>3, <1>4, SignInConstants DEF SigningFits
<1>6. answer'.status # 200
  BY DEF SignIn_!Nothing
<1> QED
  BY <1>2, <1>5, <1>6, CallMoves, Zenon

LEMMA SignupStep ==
  ASSUME SignInInv, NEW c \in SignInCalls, NEW n \in AddressNames, NEW shouted \in BOOLEAN,
         NEW short \in BOOLEAN, SignIn_!SignupFind(c, [name |-> n, shouted |-> shouted], short)
  PROVE  SignInInv'
<1> DEFINE address == SignIn_!Lower([name |-> n, shouted |-> shouted])
<1>1. UNCHANGED <<time, accounts, pairs, lost, paired, changes>>
  BY DEF SignIn_!SignupFind
<1>2. CASE SignIn_!Refused(c, 422) \/ SignIn_!Refused(c, 409)
  BY <1>1, <1>2, Refusing
<1>3. CASE /\ SignIn_!Goto(c, "create", "none", [SignIn_!NoRow EXCEPT !.email = address])
           /\ answer' = SignIn_!Nothing
  <2> DEFINE row == [SignIn_!NoRow EXCEPT !.email = address]
  <2>1. address \in Addresses
    BY LowerIs
  <2> HIDE DEF address
  <2>2. row \in Account /\ row.email = address /\ row.roles = {}
    BY <2>1, SignInConstants, Zenon DEF SignIn_!NoRow, Account, Addresses
  <2> QED
    BY <1>1, <1>3, <2>1, <2>2, GoingOn, Zenon
<1> QED
  BY <1>2, <1>3 DEF SignIn_!SignupFind

LEMMA SigningStep ==
  ASSUME SignInInv, NEW c \in SignInCalls, NEW n \in AddressNames, NEW shouted \in BOOLEAN,
         NEW right \in BOOLEAN, SignIn_!LoginFind(c, [name |-> n, shouted |-> shouted], right)
  PROVE  SignInInv'
<1> DEFINE address == SignIn_!Lower([name |-> n, shouted |-> shouted])
           found == SignIn_!FindByEmail(address)
           u == CHOOSE v \in found : TRUE
<1>1. UNCHANGED <<time, accounts, pairs, lost, paired, changes>>
  BY DEF SignIn_!LoginFind
<1>2. CASE SignIn_!Refused(c, 401)
  BY <1>1, <1>2, Refusing
<1>3. CASE /\ \E v \in found : accounts[v].active
           /\ SignIn_!Goto(c, "issue", u, accounts[u]) /\ answer' = SignIn_!Nothing
  <2>1. address \in Addresses
    BY LowerIs
  <2>2. PICK v \in found : accounts[v].active
    BY <1>3
  <2>3. u \in found
    BY <2>2
  <2>4. \A w \in found : w \in Users /\ accounts[w].email = address
    BY DEF SignIn_!FindByEmail
  <2> HIDE DEF address, found, u
  <2>5. \A w \in found : accounts[w] # SignIn_!NoRow
    BY <2>1, <2>4, NoRowFits
  <2>6. u = v
    BY <2>2, <2>3, <2>4, <2>5 DEF SignInInv, AddressesDiffer
  <2>7. u \in Users /\ accounts[u] \in Account /\ accounts[u].active
    BY <2>2, <2>4, <2>6 DEF SignInInv, SignInTypes
  <2> QED
    BY <1>1, <1>3, <2>7, GoingOn
<1> QED
  BY <1>2, <1>3 DEF SignIn_!LoginFind

LEMMA DecodeStep ==
  ASSUME SignInInv, NEW c \in SignInCalls, NEW token \in pairs, SignIn_!RefreshDecode(c, token)
  PROVE  SignInInv'
<1>1. /\ UNCHANGED <<time, accounts, pairs, lost, paired, changes>> /\ token.sub \in Users
  BY DEF SignIn_!RefreshDecode, SignInInv, SignInTypes, Claim
<1>2. CASE SignIn_!Refused(c, 401)
  BY <1>1, <1>2, Refusing
<1>3. CASE SignIn_!Goto(c, "find", token.sub, SignIn_!NoRow) /\ answer' = SignIn_!Nothing
  BY <1>1, <1>3, NoRowFits, GoingOn
<1> QED
  BY <1>2, <1>3 DEF SignIn_!RefreshDecode

LEMMA FindStep ==
  ASSUME SignInInv, NEW c \in SignInCalls, SignIn_!RefreshFind(c) PROVE SignInInv'
<1>1. /\ UNCHANGED <<time, accounts, pairs, lost, paired, changes>> /\ signing[c].user \in Users
      /\ accounts[signing[c].user] \in Account
  BY DEF SignIn_!RefreshFind, SignInInv, SignInTypes, SigningFits
<1>2. CASE SignIn_!Refused(c, 401)
  BY <1>1, <1>2, Refusing
<1>3. CASE /\ accounts[signing[c].user].active /\ answer' = SignIn_!Nothing
           /\ SignIn_!Goto(c, "issue", signing[c].user, accounts[signing[c].user])
  BY <1>1, <1>3, GoingOn
<1> QED
  BY <1>2, <1>3 DEF SignIn_!RefreshFind

\* Rights that go are noted, and no right is taken back without.
LEMMA RightsGo ==
  ASSUME SignInInv, accounts' \in [Users -> Account], lost' \in Losses,
         \A u \in Users, right \in Rights :
           \/ /\ lost'[u][right] = lost[u][right]
              /\ HasRight(accounts[u], right) => HasRight(accounts'[u], right)
           \/ lost'[u][right] = time
  PROVE  /\ \A t \in pairs : TokenFits(t, accounts', lost', time)
         /\ \A c \in SignInCalls : SigningFits(signing[c], accounts', lost', time)
<1>1. time \in Nat /\ time >= 1
  BY SignInConstants DEF SignInInv, SignInTypes
<1>2. ASSUME NEW t \in pairs PROVE TokenFits(t, accounts', lost', time)
  <2>1. t \in Claim /\ TokenFits(t, accounts, lost, time)
    BY DEF SignInInv, SignInTypes
  <2>2. /\ t.sub \in Users /\ t.exp \in Nat /\ TtlOf(t.type) \in Nat
        /\ t.roles \cup {"active"} \subseteq Rights
    BY <2>1, SignInConstants DEF Claim, Rights
  <2>3. ASSUME NEW right \in t.roles \cup {"active"}
        PROVE  \/ HasRight(accounts'[t.sub], right)
               \/ lost'[t.sub][right] >= 1 /\ t.exp <= lost'[t.sub][right] + Latency + TtlOf(t.type)
    <3>1. CASE lost'[t.sub][right] = time
      <4>1. t.exp <= time + TtlOf(t.type)
        BY <2>1 DEF TokenFits
      <4> QED
        BY <1>1, <2>2, <3>1, <4>1, SignInConstants
    <3>2. CASE /\ lost'[t.sub][right] = lost[t.sub][right]
               /\ HasRight(accounts[t.sub], right) => HasRight(accounts'[t.sub], right)
      BY <2>1, <3>2 DEF TokenFits
    <3> QED
      BY <2>2, <3>1, <3>2
  <2> QED
    BY <2>1, <2>3 DEF TokenFits
<1>3. ASSUME NEW c \in SignInCalls PROVE SigningFits(signing[c], accounts', lost', time)
  <2> DEFINE k == signing[c]
  <2>1. k \in SignInCall /\ SigningFits(k, accounts, lost, time)
    BY DEF SignInInv, SignInTypes
  <2> HIDE DEF k
  <2>2. ASSUME k.pc = "issue", NEW right \in k.row.roles \cup {"active"}
        PROVE  HasRight(accounts'[k.user], right) \/ lost'[k.user][right] >= k.since
    <3>1. /\ k.user \in Users /\ right \in Rights /\ k.since <= time
          /\ HasRight(accounts[k.user], right) \/ lost[k.user][right] >= k.since
      BY <2>1, <2>2 DEF SigningFits, SignInCall, Account, Rights
    <3> QED
      BY <3>1
  <2> QED
    BY <2>1, <2>2 DEF SigningFits, k
<1> QED
  BY <1>2, <1>3

LEMMA CreateStep ==
  ASSUME SignInInv, NEW c \in SignInCalls, SignIn_!SignupCreate(c) PROVE SignInInv'
<1>1. /\ signing[c].pc = "create" /\ UNCHANGED <<time, pairs, lost, paired, changes>>
      /\ signing[c] \in SignInCall /\ SigningFits(signing[c], accounts, lost, time)
  BY DEF SignIn_!SignupCreate, SignInInv, SignInTypes
<1> DEFINE email == signing[c].row.email
<1>2. email \in Addresses /\ signing[c].row.roles = {} /\ signing[c].row \in Account
  BY <1>1 DEF SigningFits, SignInCall
<1>3. CASE SignIn_!Refused(c, 500) /\ UNCHANGED accounts
  BY <1>1, <1>3, Refusing
<1>4. ASSUME SignIn_!FindByEmail(email) = {}, NEW u \in Users, accounts[u] = SignIn_!NoRow,
             accounts' = [accounts EXCEPT ![u] = [signing[c].row EXCEPT !.active = TRUE]],
             SignIn_!Goto(c, "issue", u, accounts'[u]), answer' = SignIn_!Nothing
      PROVE  SignInInv'
  <2> DEFINE row == [signing[c].row EXCEPT !.active = TRUE]
             k == [pc |-> "issue", user |-> u, row |-> row, since |-> time]
  <2>1. row \in Account /\ row.email = email /\ row.roles = {} /\ row.active
    BY <1>2, Zenon DEF Account
  <2>2. /\ accounts' \in [Users -> Account] /\ accounts'[u] = row
        /\ \A v \in Users : v # u => accounts'[v] = accounts[v]
    BY <1>4, <2>1 DEF SignInInv, SignInTypes
  <2> HIDE DEF row
  <2>3. time \in Nat /\ time >= 1
    BY SignInConstants DEF SignInInv, SignInTypes
  <2>4. k \in SignInCall /\ signing' = [signing EXCEPT ![c] = k]
    BY <1>4, <2>1, <2>2, <2>3, Zenon DEF SignInCall, SignIn_!Goto
  <2>5. k.pc = "issue" /\ k.user = u /\ k.row = row /\ k.since = time
    OBVIOUS
  <2> HIDE DEF k
  <2>6. ASSUME NEW v \in Users, NEW right \in Rights
        PROVE  HasRight(accounts[v], right) => HasRight(accounts'[v], right)
    BY <1>4, <2>2, NoRowFits DEF HasRight
  <2>7. /\ \A t \in pairs : TokenFits(t, accounts', lost', time)
        /\ \A d \in SignInCalls : SigningFits(signing[d], accounts', lost', time)
    <3>1. lost' \in Losses
      BY <1>1 DEF SignInInv, SignInTypes
    <3>2. \A v \in Users, right \in Rights :
            /\ lost'[v][right] = lost[v][right]
            /\ HasRight(accounts[v], right) => HasRight(accounts'[v], right)
      BY <1>1, <2>6
    <3> QED
      BY <2>2, <3>1, <3>2, RightsGo
  <2>8. SigningFits(k, accounts', lost', time)
    BY <1>1, <2>1, <2>2, <2>3, <2>5, SignInConstants DEF SigningFits, HasRight
  <2>9. /\ signing' \in [SignInCalls -> SignInCall] /\ signing'[c] = k
        /\ \A d \in SignInCalls : d # c => signing'[d] = signing[d]
    BY <2>4 DEF SignInInv, SignInTypes
  <2>10. SignInTypes'
    BY <1>1, <2>2, <2>9 DEF SignInInv, SignInTypes
  <2>11. AddressesDiffer'
    <3>1. \A v \in Users : accounts[v].email # email
      BY <1>4 DEF SignIn_!FindByEmail
    <3>2. \A v \in Users : accounts'[v] # SignIn_!NoRow => accounts'[v].email \in Addresses
      BY <1>2, <2>1, <2>2 DEF SignInInv, AddressesDiffer
    <3>3. ASSUME NEW v \in Users, NEW w \in Users, accounts'[v] # SignIn_!NoRow,
                 accounts'[w] # SignIn_!NoRow, accounts'[v].email = accounts'[w].email
          PROVE  v = w
      <4>1. CASE v = u /\ w # u
        BY <2>1, <2>2, <3>1, <3>3, <4>1
      <4>2. CASE w = u /\ v # u
        BY <2>1, <2>2, <3>1, <3>3, <4>2
      <4>3. CASE v # u /\ w # u
        BY <2>2, <3>3, <4>3 DEF SignInInv, AddressesDiffer
      <4> QED
        BY <4>1, <4>2, <4>3
    <3> QED
      BY <3>2, <3>3 DEF AddressesDiffer
  <2>12. SignIn_!RightsEnd'
    BY <1>4 DEF SignIn_!RightsEnd, SignIn_!Nothing
  <2>13. \A d \in SignInCalls : SigningFits(signing'[d], accounts', lost', time')
    BY <1>1, <2>7, <2>8, <2>9
  <2> QED
    BY <1>1, <2>7, <2>10, <2>11, <2>12, <2>13 DEF SignInInv
<1> QED
  BY <1>3, <1>4 DEF SignIn_!SignupCreate

\* One row is written anew: its address stays, and what it loses is noted.
RowBecomes(u, row) ==
  /\ accounts' = [accounts EXCEPT ![u] = row] /\ row \in Account
  /\ row.email = accounts[u].email /\ lost' \in Losses
  /\ \A right \in Rights :
       \/ /\ lost'[u][right] = lost[u][right]
          /\ HasRight(accounts[u], right) => HasRight(row, right)
       \/ lost'[u][right] = time
  /\ \A v \in Users : v # u => lost'[v] = lost[v]

LEMMA Losing ==
  ASSUME SignInInv, NEW u \in Users, NEW right \in Rights, SignIn_!Lose(u, right)
  PROVE  /\ lost' \in Losses /\ lost'[u][right] = time
         /\ \A other \in Rights : other # right => lost'[u][other] = lost[u][other]
         /\ \A v \in Users : v # u => lost'[v] = lost[v]
<1>1. lost \in Losses /\ time \in Nat
  BY SignInConstants DEF SignInInv, SignInTypes
<1>2. lost' = [lost EXCEPT ![u] = [lost[u] EXCEPT ![right] = time]]
  BY DEF SignIn_!Lose
<1>3. lost[u] \in [Rights -> Nat]
  BY <1>1 DEF Losses
<1>4. [lost[u] EXCEPT ![right] = time] \in [Rights -> Nat]
  BY <1>1, <1>3
<1> QED
  BY <1>1, <1>2, <1>3, <1>4 DEF Losses

LEMMA RowWritten ==
  ASSUME SignInInv, NEW u \in Users, NEW row, RowBecomes(u, row), accounts[u] # SignIn_!NoRow,
         changes' \in 0 .. MaxRowChanges, answer' = SignIn_!Nothing,
         UNCHANGED <<time, pairs, signing, paired>>
  PROVE  SignInInv'
<1>1. /\ accounts \in [Users -> Account] /\ accounts' \in [Users -> Account] /\ accounts'[u] = row
      /\ \A v \in Users : v # u => accounts'[v] = accounts[v]
  BY DEF SignInInv, SignInTypes, RowBecomes
<1>2. SignInTypes'
  BY <1>1 DEF SignInInv, SignInTypes, RowBecomes
<1>3. row.email = accounts[u].email /\ row.email \in Addresses /\ row # SignIn_!NoRow
  BY NoRowFits DEF SignInInv, AddressesDiffer, RowBecomes
<1>4. AddressesDiffer'
  BY <1>1, <1>3 DEF SignInInv, AddressesDiffer
<1>5. ASSUME NEW v \in Users, NEW right \in Rights
      PROVE  \/ /\ lost'[v][right] = lost[v][right]
                /\ HasRight(accounts[v], right) => HasRight(accounts'[v], right)
             \/ lost'[v][right] = time
  <2>1. CASE v = u
    BY <1>1, <2>1 DEF RowBecomes
  <2>2. CASE v # u
    BY <1>1, <2>2 DEF RowBecomes
  <2> QED
    BY <2>1, <2>2
<1>6. /\ \A t \in pairs : TokenFits(t, accounts', lost', time)
      /\ \A c \in SignInCalls : SigningFits(signing[c], accounts', lost', time)
  <2>1. lost' \in Losses
    BY DEF RowBecomes
  <2> QED
    BY <1>1, <1>5, <2>1, RightsGo
<1>7. SignIn_!RightsEnd'
  BY DEF SignIn_!RightsEnd, SignIn_!Nothing
<1> QED
  BY <1>2, <1>4, <1>6, <1>7 DEF SignInInv

LEMMA ChangeStep == ASSUME SignInInv, NEW u \in Users, SignIn_!Change(u) PROVE SignInInv'
<1>1. /\ accounts[u] # SignIn_!NoRow /\ changes' = changes + 1 /\ changes < MaxRowChanges
      /\ answer' = SignIn_!Nothing /\ UNCHANGED <<time, pairs, signing, paired>>
  BY DEF SignIn_!Change
<1>2. /\ accounts \in [Users -> Account] /\ lost \in Losses /\ accounts[u] \in Account
      /\ changes' \in 0 .. MaxRowChanges
  BY <1>1, SignInConstants DEF SignInInv, SignInTypes
<1>3. ASSUME NEW r \in accounts[u].roles,
             accounts' = [accounts EXCEPT ![u].roles = @ \ {r}], SignIn_!Lose(u, r)
      PROVE  \E row : RowBecomes(u, row)
  <2> DEFINE row == [accounts[u] EXCEPT !.roles = @ \ {r}]
  <2>1. /\ row \in Account /\ row.email = accounts[u].email /\ row.active = accounts[u].active
        /\ row.roles = accounts[u].roles \ {r} /\ r \in Rights
    BY <1>2 DEF Account, Rights
  <2>2. accounts' = [accounts EXCEPT ![u] = row]
    BY <1>2, <1>3
  <2> HIDE DEF row
  <2>3. \A right \in Rights : right # r => (HasRight(accounts[u], right) => HasRight(row, right))
    BY <2>1 DEF HasRight
  <2>4. /\ lost' \in Losses /\ lost'[u][r] = time
        /\ \A other \in Rights : other # r => lost'[u][other] = lost[u][other]
        /\ \A v \in Users : v # u => lost'[v] = lost[v]
    BY <1>3, <2>1, Losing
  <2>5. \A right \in Rights :
          \/ /\ lost'[u][right] = lost[u][right]
             /\ HasRight(accounts[u], right) => HasRight(row, right)
          \/ lost'[u][right] = time
    BY <2>3, <2>4
  <2>6. RowBecomes(u, row)
    BY <2>1, <2>2, <2>4, <2>5 DEF RowBecomes
  <2> QED
    BY <2>6
<1>4. ASSUME NEW r \in Roles,
             accounts' = [accounts EXCEPT ![u].roles = @ \cup {r}], UNCHANGED lost
      PROVE  \E row : RowBecomes(u, row)
  <2> DEFINE row == [accounts[u] EXCEPT !.roles = @ \cup {r}]
  <2>1. /\ row \in Account /\ row.email = accounts[u].email /\ row.active = accounts[u].active
        /\ row.roles = accounts[u].roles \cup {r}
    BY <1>2 DEF Account
  <2>2. accounts' = [accounts EXCEPT ![u] = row]
    BY <1>2, <1>4
  <2> HIDE DEF row
  <2>3. \A right \in Rights : HasRight(accounts[u], right) => HasRight(row, right)
    BY <2>1 DEF HasRight
  <2> QED
    BY <1>2, <1>4, <2>1, <2>2, <2>3, Zenon DEF RowBecomes
<1>5. ASSUME accounts' = [accounts EXCEPT ![u].active = ~@],
             IF accounts[u].active THEN SignIn_!Lose(u, "active") ELSE UNCHANGED lost
      PROVE  \E row : RowBecomes(u, row)
  <2> DEFINE row == [accounts[u] EXCEPT !.active = ~@]
  <2>1. row \in Account /\ row.email = accounts[u].email /\ row.roles = accounts[u].roles
    BY <1>2, Zenon DEF Account
  <2>2. accounts' = [accounts EXCEPT ![u] = row]
    BY <1>2, <1>5
  <2>3. "active" \in Rights
    BY DEF Rights
  <2> HIDE DEF row
  <2>4. \A right \in Rights : right # "active" => (HasRight(accounts[u], right) => HasRight(row, right))
    BY <2>1 DEF HasRight
  <2>5. CASE accounts[u].active
    <3>1. /\ lost' \in Losses /\ lost'[u]["active"] = time
          /\ \A other \in Rights : other # "active" => lost'[u][other] = lost[u][other]
          /\ \A v \in Users : v # u => lost'[v] = lost[v]
      BY <1>5, <2>3, <2>5, Losing
    <3>2. \A right \in Rights :
            \/ /\ lost'[u][right] = lost[u][right]
               /\ HasRight(accounts[u], right) => HasRight(row, right)
            \/ lost'[u][right] = time
      BY <2>4, <3>1
    <3>3. RowBecomes(u, row)
      BY <2>1, <2>2, <3>1, <3>2 DEF RowBecomes
    <3> QED
      BY <3>3
  <2>6. CASE ~accounts[u].active
    <3>1. \A right \in Rights : HasRight(accounts[u], right) => HasRight(row, right)
      BY <2>4, <2>6 DEF HasRight
    <3> QED
      BY <1>2, <1>5, <2>1, <2>2, <2>6, <3>1, Zenon DEF RowBecomes
  <2> QED
    BY <2>5, <2>6
<1>6. PICK row : RowBecomes(u, row)
  BY <1>3, <1>4, <1>5 DEF SignIn_!Change
<1> QED
  BY <1>1, <1>2, <1>6, RowWritten

LEMMA IssueStep ==
  ASSUME SignInInv, NEW c \in SignInCalls, SignIn_!Issue(c) PROVE SignInInv'
<1> DEFINE k == signing[c]
           access == SignIn_!Token(k.user, "access", k.row.roles, AccessTtl)
           refresh == SignIn_!Token(k.user, "refresh", {}, RefreshTtl)
<1>1. /\ k.pc = "issue" /\ paired < MaxIssued /\ pairs' = pairs \cup {access, refresh}
      /\ signing' = [signing EXCEPT ![c] = SignIn_!Idle]
      /\ answer' = SignIn_!Answer(200, k.user, {}) /\ paired' = paired + 1
      /\ UNCHANGED <<time, accounts, lost, changes>>
  BY DEF SignIn_!Issue
<1>2. /\ k \in SignInCall /\ SigningFits(k, accounts, lost, time) /\ lost \in Losses
      /\ time \in 1 .. MaxSeconds /\ paired \in 0 .. MaxIssued
  BY DEF SignInInv, SignInTypes
<1>3. /\ access.sub = k.user /\ access.type = "access" /\ access.roles = k.row.roles
      /\ access.exp = time + AccessTtl
      /\ refresh.sub = k.user /\ refresh.type = "refresh" /\ refresh.roles = {}
      /\ refresh.exp = time + RefreshTtl
  BY DEF SignIn_!Token
<1>4. /\ k.user \in Users /\ k.row.roles \subseteq Roles /\ k.row.roles \cup {"active"} \subseteq Rights
      /\ k.since \in Nat /\ k.since >= 1 /\ time <= k.since + Latency /\ time \in Nat
      /\ \A right \in k.row.roles \cup {"active"} :
           HasRight(accounts[k.user], right) \/ lost[k.user][right] >= k.since
  BY <1>1, <1>2, SignInConstants DEF SigningFits, SignInCall, Account, Rights
<1>5. access \in Claim /\ refresh \in Claim
  BY <1>4, SignInConstants DEF SignIn_!Token, Claim
<1> HIDE DEF k, access, refresh
<1>6. ASSUME NEW t \in {access, refresh}, NEW right \in k.row.roles \cup {"active"}
      PROVE  \/ HasRight(accounts[t.sub], right)
             \/ lost[t.sub][right] >= 1 /\ t.exp <= lost[t.sub][right] + Latency + TtlOf(t.type)
  <2>1. t.sub = k.user /\ t.exp = time + TtlOf(t.type)
    BY <1>3 DEF TtlOf
  <2>2. lost[k.user][right] \in Nat /\ TtlOf(t.type) \in Nat
    BY <1>2, <1>4, SignInConstants DEF Losses
  <2> QED
    BY <1>4, <2>1, <2>2, SignInConstants
<1>7. TokenFits(access, accounts, lost, time) /\ TokenFits(refresh, accounts, lost, time)
  BY <1>3, <1>4, <1>6, SignInConstants DEF TokenFits, TtlOf
<1>8. /\ signing' \in [SignInCalls -> SignInCall]
      /\ \A d \in SignInCalls : SigningFits(signing'[d], accounts, lost, time)
  BY <1>1, IdleFits DEF SignInInv, SignInTypes
<1>9. SignInTypes' /\ AddressesDiffer'
  <2>1. pairs' \in SUBSET Claim
    BY <1>1, <1>5 DEF SignInInv, SignInTypes
  <2>2. paired' \in 0 .. MaxIssued
    BY <1>1, <1>2, SignInConstants
  <2> QED
    BY <1>1, <1>8, <2>1, <2>2 DEF SignInInv, SignInTypes, AddressesDiffer
<1>10. SignIn_!RightsEnd'
  <2>1. PICK u \in Users : u = k.user
    BY <1>4
  <2>2. accounts'[u].active \/ SignIn_!Within(u, "active", RefreshTtl)'
    <3>1. HasRight(accounts[u], "active") \/ lost[u]["active"] >= k.since
      BY <1>4, <2>1
    <3>2. lost[u]["active"] \in Nat
      BY <1>2 DEF Losses, Rights
    <3>3. lost[u]["active"] >= k.since =>
            lost[u]["active"] # 0 /\ time < lost[u]["active"] + Latency + RefreshTtl
      BY <1>4, <3>2, SignInConstants
    <3>4. HasRight(accounts[u], "active") <=> accounts[u].active
      BY DEF HasRight
    <3> QED
      BY <1>1, <3>1, <3>3, <3>4 DEF SignIn_!Within
  <2>3. answer'.user = u /\ answer'.needs = {}
    BY <1>1, <2>1 DEF SignIn_!Answer
  <2> QED
    BY <2>2, <2>3 DEF SignIn_!RightsEnd
<1> QED
  BY <1>1, <1>2, <1>7, <1>8, <1>9, <1>10 DEF SignInInv

LEMMA RequestStep ==
  ASSUME SignInInv, NEW bearer \in {{}} \cup {{t} : t \in pairs}, NEW required \in BOOLEAN,
         NEW roles \in SUBSET Roles, SignIn_!Request(bearer, required, roles)
  PROVE  SignInInv'
<1>1. /\ answer' = SignIn_!Guard(bearer, required, roles)
      /\ UNCHANGED <<time, accounts, pairs, signing, lost, paired, changes>>
  BY DEF SignIn_!Request
<1>2. SignInTypes' /\ AddressesDiffer'
  BY <1>1 DEF SignInInv, SignInTypes, AddressesDiffer
<1>3. SignIn_!RightsEnd'
  <2>1. CASE SignIn_!Claims(bearer) = {}
    BY <1>1, <2>1 DEF SignIn_!Guard, SignIn_!RightsEnd, SignIn_!Answer
  <2>2. CASE SignIn_!Claims(bearer) # {}
    <3> DEFINE held == SignIn_!Claims(bearer)
    <3>0. PICK t : t = CHOOSE token \in held : TRUE
      OBVIOUS
    <3>1. t \in held
      BY <2>2, <3>0
    <3>2. answer' = IF roles # {} /\ t.roles \cap roles = {} THEN SignIn_!Answer(403, "none", roles)
                    ELSE SignIn_!Answer(200, t.sub, roles)
      BY <1>1, <2>2, <3>0 DEF SignIn_!Guard
    <3>3. t \in pairs /\ time < t.exp
      BY <3>1 DEF SignIn_!Claims, SignIn_!Live
    <3>4. t \in Claim /\ TokenFits(t, accounts, lost, time) /\ lost \in Losses /\ time \in Nat
      BY <3>3, SignInConstants DEF SignInInv, SignInTypes
    <3>5. CASE roles # {} /\ t.roles \cap roles = {}
      BY <3>2, <3>5 DEF SignIn_!RightsEnd, SignIn_!Answer
    <3>6. CASE roles = {} \/ t.roles \cap roles # {}
      <4>1. answer'.status = 200 /\ answer'.user = t.sub /\ answer'.needs = roles
        BY <3>2, <3>6 DEF SignIn_!Answer
      <4>2. t.sub \in Users /\ t.exp \in Nat /\ t.roles \cup {"active"} \subseteq Rights
        BY <3>4 DEF Claim, Rights
      <4>3. ASSUME NEW right \in t.roles \cup {"active"}, NEW ttl \in Nat, TtlOf(t.type) <= ttl
            PROVE  HasRight(accounts[t.sub], right) \/ SignIn_!Within(t.sub, right, ttl)
        <5>1. CASE HasRight(accounts[t.sub], right)
          BY <5>1
        <5>2. CASE /\ lost[t.sub][right] >= 1
                   /\ t.exp <= lost[t.sub][right] + Latency + TtlOf(t.type)
          <6>1. lost[t.sub][right] \in Nat /\ TtlOf(t.type) \in Nat
            BY <3>4, <4>2, SignInConstants DEF Losses
          <6>2. lost[t.sub][right] # 0 /\ time < lost[t.sub][right] + Latency + ttl
            BY <3>3, <3>4, <4>2, <4>3, <5>2, <6>1, SignInConstants
          <6> QED
            BY <6>2 DEF SignIn_!Within
        <5> QED
          BY <3>4, <5>1, <5>2 DEF TokenFits
      <4>4. TtlOf(t.type) <= RefreshTtl
        BY SignInConstants DEF TtlOf
      <4>5. accounts[t.sub].active \/ SignIn_!Within(t.sub, "active", RefreshTtl)
        BY <4>3, <4>4, SignInConstants DEF HasRight
      <4>6. ASSUME roles # {}
            PROVE  /\ \E r \in roles : r \in accounts[t.sub].roles \/ SignIn_!Within(t.sub, r, AccessTtl)
                   /\ accounts[t.sub].active \/ SignIn_!Within(t.sub, "active", AccessTtl)
        <5>1. PICK r \in roles : r \in t.roles
          BY <3>6, <4>6
        <5>2. TtlOf(t.type) <= AccessTtl
          BY <3>4, <5>1, SignInConstants DEF TokenFits, TtlOf
        <5>3. r # "active"
          BY <5>1, SignInConstants
        <5> QED
          BY <4>3, <5>1, <5>2, <5>3, SignInConstants DEF HasRight
      <4>7. PICK u \in Users : u = t.sub
        BY <4>2
      <4>8. \A right, ttl : SignIn_!Within(u, right, ttl)' <=> SignIn_!Within(u, right, ttl)
        BY <1>1 DEF SignIn_!Within
      <4>9. /\ accounts'[u].active \/ SignIn_!Within(u, "active", RefreshTtl)'
            /\ roles # {} =>
                 /\ \E r \in roles : r \in accounts'[u].roles \/ SignIn_!Within(u, r, AccessTtl)'
                 /\ accounts'[u].active \/ SignIn_!Within(u, "active", AccessTtl)'
        BY <1>1, <4>5, <4>6, <4>7, <4>8
      <4>10. answer'.user = u /\ answer'.needs = roles
        BY <4>1, <4>7
      <4> QED
        BY <4>9, <4>10 DEF SignIn_!RightsEnd
    <3> QED
      BY <3>5, <3>6
  <2> QED
    BY <2>1, <2>2
<1> QED
  BY <1>1, <1>2, <1>3 DEF SignInInv

LEMMA SignInTick == ASSUME SignInInv, SignIn_!Tick PROVE SignInInv'
<1>1. /\ time < MaxSeconds /\ time' = time + 1 /\ answer' = SignIn_!Nothing
      /\ \A c \in SignInCalls : signing[c].pc # "idle" => time < signing[c].since + Latency
      /\ UNCHANGED <<accounts, pairs, signing, lost, paired, changes>>
  BY DEF SignIn_!Tick
<1>2. time \in 1 .. MaxSeconds /\ time \in Nat /\ time' \in 1 .. MaxSeconds
  BY <1>1, SignInConstants DEF SignInInv, SignInTypes
<1>3. SignInTypes' /\ AddressesDiffer'
  BY <1>1, <1>2 DEF SignInInv, SignInTypes, AddressesDiffer
<1>4. ASSUME NEW t \in pairs PROVE TokenFits(t, accounts, lost, time + 1)
  <2>1. t \in Claim /\ TokenFits(t, accounts, lost, time)
    BY DEF SignInInv, SignInTypes
  <2>2. t.exp \in Nat /\ TtlOf(t.type) \in Nat /\ t.exp <= time + TtlOf(t.type)
    BY <2>1, SignInConstants DEF Claim, TokenFits
  <2>3. t.exp <= (time + 1) + TtlOf(t.type)
    BY <1>2, <2>2
  <2> QED
    BY <2>1, <2>3 DEF TokenFits
<1>5. ASSUME NEW c \in SignInCalls PROVE SigningFits(signing[c], accounts, lost, time + 1)
  <2> DEFINE k == signing[c]
  <2>1. /\ k \in SignInCall /\ SigningFits(k, accounts, lost, time)
        /\ k.pc # "idle" => time < k.since + Latency
    BY <1>1 DEF SignInInv, SignInTypes
  <2> HIDE DEF k
  <2>2. k.pc # "idle" => 1 <= k.since /\ k.since <= time + 1 /\ time + 1 <= k.since + Latency
    <3>1. k.since \in Nat
      BY <2>1 DEF SignInCall
    <3> QED
      BY <1>2, <2>1, <3>1, SignInConstants DEF SigningFits
  <2>3. SigningFits(k, accounts, lost, time + 1)
    BY <2>1, <2>2 DEF SigningFits
  <2> QED
    BY <2>3 DEF k
<1>6. SignIn_!RightsEnd'
  BY <1>1 DEF SignIn_!RightsEnd, SignIn_!Nothing
<1> QED
  BY <1>1, <1>3, <1>4, <1>5, <1>6 DEF SignInInv

LEMMA SignInStep == ASSUME SignInInv, SignIn_!Next PROVE SignInInv'
<1>1. CASE \E c \in SignInCalls, n \in AddressNames, shouted \in BOOLEAN, good \in BOOLEAN :
             SignIn_!SignupFind(c, [name |-> n, shouted |-> shouted], ~good)
  BY <1>1, SignupStep, Zenon
<1>2. CASE \E c \in SignInCalls, n \in AddressNames, shouted \in BOOLEAN, good \in BOOLEAN :
             SignIn_!LoginFind(c, [name |-> n, shouted |-> shouted], good)
  BY <1>2, SigningStep
<1>3. CASE \E c \in SignInCalls : \/ SignIn_!SignupCreate(c) \/ SignIn_!RefreshFind(c)
                                  \/ SignIn_!Issue(c)
                                  \/ \E token \in pairs : SignIn_!RefreshDecode(c, token)
  BY <1>3, CreateStep, FindStep, IssueStep, DecodeStep
<1>4. CASE \E bearer \in {{}} \cup {{t} : t \in pairs}, required \in BOOLEAN, roles \in SUBSET Roles :
             SignIn_!Request(bearer, required, roles)
  BY <1>4, RequestStep
<1>5. CASE \E u \in Users : SignIn_!Change(u)
  BY <1>5, ChangeStep
<1>6. CASE SignIn_!Tick
  BY <1>6, SignInTick
<1> QED
  BY <1>1, <1>2, <1>3, <1>4, <1>5, <1>6, Zenon DEF SignIn_!Next

LEMMA SignInIsRight ==
  SignInInv => SignIn_!TypeOK /\ SignIn_!RightsEnd /\ SignIn_!OneAccountEach
<1> SUFFICES ASSUME SignInInv PROVE SignIn_!TypeOK /\ SignIn_!RightsEnd /\ SignIn_!OneAccountEach
  OBVIOUS
<1>1. SignIn_!TypeOK
  BY DEF SignIn_!TypeOK, SignInInv, SignInTypes, Claim, SignInCall
<1>2. \A address \in Addresses : SignIn_!Lower(address) = address
  BY Zenon DEF SignIn_!Lower, Addresses
<1>3. SignIn_!OneAccountEach
  BY <1>2 DEF SignIn_!OneAccountEach, SignInInv, AddressesDiffer
<1> QED
  BY <1>1, <1>3 DEF SignInInv

-----------------------------------------------------------------------------
(* Feature flags                                                           *)

Judging == [1 .. Backends -> Judges!Opinions]

\* What has been asked so far: the opinions as they are, or as they were before the one
\* change since the request came; a backend already asked had nothing to say in either.
Heard(ops, a, states, n) ==
  \E old \in Judging, c \in 1 .. Backends :
    /\ {Judges!Composite(old), Judges!Composite(ops)} \subseteq states
    /\ \A b \in 1 .. Backends : b # c => old[b] = ops[b]
    /\ \A b \in 1 .. Backends : b < a => old[b] = "none" \/ ops[b] = "none"
    /\ n = 0 => old = ops

FlagsInv ==
  /\ Judges!FlagsTypeOK /\ changed \in Nat
  /\ asking # 0 => guard = "none" /\ (changed <= 1 => Heard(opinions, asking, possible, changed))
  /\ Judges!FlagIsOfItsTime

LEMMA FlagConstants == Backends \in Nat \ {0} /\ DefaultEnabled \in BOOLEAN
  BY PlatformAssumption DEF Judges!VerdictsAssumption

\* The first that has an opinion decides.
LEMMA FirstDecides ==
  ASSUME NEW ops \in Judging, NEW a \in 1 .. Backends,
         \A b \in 1 .. Backends : b < a => ops[b] = "none", ops[a] # "none"
  PROVE  Judges!Composite(ops) = ops[a]
<1> DEFINE heard == {b \in DOMAIN ops : ops[b] # "none"}
<1>1. a \in heard /\ heard \subseteq 1 .. Backends /\ \A b \in heard : a <= b
  BY FlagConstants DEF Judging
<1>2. Judges!Min(heard) = a
  BY <1>1, FlagConstants DEF Judges!Min
<1> QED
  BY <1>1, <1>2 DEF Judges!Composite

LEMMA NobodyDecides ==
  ASSUME NEW ops \in Judging, \A b \in 1 .. Backends : ops[b] = "none"
  PROVE  Judges!Composite(ops) = IF DefaultEnabled THEN "on" ELSE "off"
<1>1. {b \in DOMAIN ops : ops[b] # "none"} = {}
  BY DEF Judging
<1> QED
  BY <1>1 DEF Judges!Composite

\* What a request has asked, and the answer of the next backend, is what the flag was.
LEMMA HeardDecides ==
  ASSUME NEW ops \in Judging, NEW a \in 1 .. Backends, NEW states, NEW n,
         Heard(ops, a, states, n)
  PROVE  /\ ops[a] # "none" => ops[a] \in states
         /\ ops[a] = "none" /\ a = Backends =>
              (IF DefaultEnabled THEN "on" ELSE "off") \in states
         /\ ops[a] = "none" => Heard(ops, a + 1, states, n)
<1>1. PICK old \in Judging, c \in 1 .. Backends :
        /\ {Judges!Composite(old), Judges!Composite(ops)} \subseteq states
        /\ \A b \in 1 .. Backends : b # c => old[b] = ops[b]
        /\ \A b \in 1 .. Backends : b < a => old[b] = "none" \/ ops[b] = "none"
        /\ n = 0 => old = ops
  BY DEF Heard
<1>2. \A b \in 1 .. Backends : b \in Nat /\ b <= Backends /\ a \in Nat
  BY FlagConstants
<1>3. (\A b \in 1 .. Backends : b < a => old[b] = "none")
      \/ (\A b \in 1 .. Backends : b < a => ops[b] = "none")
  BY <1>1
<1>4. ASSUME ops[a] # "none" PROVE ops[a] \in states
  <2>1. CASE \A b \in 1 .. Backends : b < a => ops[b] = "none"
    BY <1>1, <1>4, <2>1, FirstDecides
  <2>2. CASE ~\A b \in 1 .. Backends : b < a => ops[b] = "none"
    <3>1. \A b \in 1 .. Backends : b < a => old[b] = "none"
      BY <1>3, <2>2
    <3>2. c < a
      BY <1>1, <2>2, <3>1
    <3>3. old[a] = ops[a]
      BY <1>1, <1>2, <3>2
    <3>4. Judges!Composite(old) = old[a]
      BY <1>4, <3>1, <3>3, FirstDecides
    <3> QED
      BY <1>1, <3>3, <3>4
  <2> QED
    BY <2>1, <2>2
<1>5. ASSUME ops[a] = "none", a = Backends
      PROVE  (IF DefaultEnabled THEN "on" ELSE "off") \in states
  <2>1. \A b \in 1 .. Backends : b < a \/ b = a
    BY <1>2, <1>5
  <2>2. CASE \A b \in 1 .. Backends : b < a => ops[b] = "none"
    <3>1. \A b \in 1 .. Backends : ops[b] = "none"
      BY <1>5, <2>1, <2>2
    <3> QED
      BY <1>1, <3>1, NobodyDecides
  <2>3. CASE ~\A b \in 1 .. Backends : b < a => ops[b] = "none"
    <3>1. \A b \in 1 .. Backends : b < a => old[b] = "none"
      BY <1>3, <2>3
    <3>2. c < a
      BY <1>1, <2>3, <3>1
    <3>3. old[a] = "none"
      BY <1>1, <1>2, <1>5, <3>2
    <3>4. \A b \in 1 .. Backends : old[b] = "none"
      BY <2>1, <3>1, <3>3
    <3> QED
      BY <1>1, <3>4, NobodyDecides
  <2> QED
    BY <2>2, <2>3
<1>6. ASSUME ops[a] = "none" PROVE Heard(ops, a + 1, states, n)
  <2>1. \A b \in 1 .. Backends : b < a + 1 => old[b] = "none" \/ ops[b] = "none"
    BY <1>1, <1>2, <1>6
  <2> QED
    BY <1>1, <2>1 DEF Heard
<1> QED
  BY <1>4, <1>5, <1>6

LEMMA FlagsInit == Judges!Init => FlagsInv
  BY FlagConstants DEF Judges!Init, FlagsInv, Judges!FlagsTypeOK, Judges!FlagIsOfItsTime

LEMMA FlagsStay == ASSUME FlagsInv, UNCHANGED verdicts PROVE FlagsInv'
  BY DEF verdicts, FlagsInv, Judges!FlagsTypeOK, Judges!FlagIsOfItsTime

\* What a guard does when the flag is this.
Reply(p) == CASE p = "on" -> "next" [] p = "off" -> "hidden" [] OTHER -> "error"

LEMMA GuardStep == ASSUME FlagsInv, Judges!Guard PROVE FlagsInv'
<1>1. /\ asking' = 1 /\ guard' = "none" /\ possible' = {Judges!Composite(opinions)}
      /\ changed' = 0 /\ UNCHANGED opinions /\ opinions \in Judging
  BY DEF Judges!Guard, FlagsInv, Judges!FlagsTypeOK, Judging
<1>2. Heard(opinions, 1, possible', 0)
  <2>1. \A b \in 1 .. Backends : ~(b < 1)
    BY FlagConstants
  <2>2. 1 \in 1 .. Backends
    BY FlagConstants
  <2> QED
    BY <1>1, <2>1, <2>2 DEF Heard
<1>3. Judges!FlagsTypeOK'
  BY <1>1, FlagConstants DEF Judges!FlagsTypeOK, Judging
<1> QED
  BY <1>1, <1>2, <1>3 DEF FlagsInv, Judges!FlagIsOfItsTime

LEMMA ResolveStep == ASSUME FlagsInv, Judges!Resolve PROVE FlagsInv'
<1>1. /\ asking \in 1 .. Backends /\ guard = "none" /\ UNCHANGED <<opinions, possible, changed>>
      /\ opinions \in Judging /\ opinions[asking] \in Judges!Opinions /\ changed \in Nat
      /\ changed <= 1 => Heard(opinions, asking, possible, changed)
  BY FlagConstants DEF Judges!Resolve, FlagsInv, Judges!FlagsTypeOK, Judging
<1>2. CASE asking' = 0 /\ opinions[asking] # "none"
  <2>1. guard' = Reply(opinions[asking])
    BY <1>1, <1>2 DEF Judges!Resolve, Judges!Answered, Reply, Judges!Opinions
  <2>2. changed <= 1 => opinions[asking] \in possible
    BY <1>1, <1>2, HeardDecides
  <2>3. Judges!FlagIsOfItsTime'
    BY <1>1, <2>1, <2>2 DEF Judges!FlagIsOfItsTime, Reply
  <2>4. Judges!FlagsTypeOK'
    BY <1>1, <1>2, <2>1, FlagConstants DEF Judges!FlagsTypeOK, Judging, Reply
  <2> QED
    BY <1>1, <1>2, <2>3, <2>4 DEF FlagsInv
<1>3. CASE opinions[asking] = "none" /\ asking < Backends
  <2>1. asking' = asking + 1 /\ guard' = "none" /\ asking' \in 1 .. Backends
    BY <1>1, <1>3, FlagConstants DEF Judges!Resolve
  <2>2. changed <= 1 => Heard(opinions, asking + 1, possible, changed)
    BY <1>1, <1>3, HeardDecides
  <2>3. Judges!FlagsTypeOK' /\ Judges!FlagIsOfItsTime'
    BY <1>1, <2>1 DEF Judges!FlagsTypeOK, Judging, Judges!FlagIsOfItsTime
  <2> QED
    BY <1>1, <2>1, <2>2, <2>3 DEF FlagsInv
<1>4. CASE opinions[asking] = "none" /\ asking = Backends
  <2> DEFINE p == IF DefaultEnabled THEN "on" ELSE "off"
  <2>1. guard' = Reply(p) /\ asking' = 0
    BY <1>1, <1>4, FlagConstants DEF Judges!Resolve, Judges!Answered, Reply
  <2>2. changed <= 1 => p \in possible
    BY <1>1, <1>4, HeardDecides
  <2>3. Judges!FlagIsOfItsTime'
    <3> HIDE DEF p
    <3> QED
      BY <1>1, <2>1, <2>2 DEF Judges!FlagIsOfItsTime, Reply
  <2>4. Judges!FlagsTypeOK'
    BY <1>1, <2>1, FlagConstants DEF Judges!FlagsTypeOK, Judging, Reply
  <2> QED
    BY <1>1, <2>1, <2>3, <2>4 DEF FlagsInv
<1>5. \/ opinions[asking] # "none" /\ asking' = 0
      \/ opinions[asking] = "none" /\ (asking < Backends \/ asking = Backends)
  BY DEF Judges!Resolve
<1> QED
  BY <1>2, <1>3, <1>4, <1>5

LEMMA SetStep ==
  ASSUME FlagsInv, NEW b \in 1 .. Backends, NEW opinion \in Judges!Opinions,
         Judges!Set(b, opinion)
  PROVE  FlagsInv'
<1>1. /\ opinions' = [opinions EXCEPT ![b] = opinion] /\ changed' = changed + 1
      /\ possible' = possible \cup {Judges!Composite(opinions')} /\ UNCHANGED <<asking, guard>>
      /\ opinions \in Judging /\ changed \in Nat
  BY DEF Judges!Set, FlagsInv, Judges!FlagsTypeOK, Judging
<1>2. /\ opinions' \in Judging /\ opinions'[b] = opinion
      /\ \A c \in 1 .. Backends : c # b => opinions'[c] = opinions[c]
  BY <1>1 DEF Judging
<1>3. ASSUME asking # 0, changed' <= 1 PROVE Heard(opinions', asking, possible', changed')
  <2>1. changed = 0 /\ changed' = 1
    BY <1>1, <1>3
  <2>2. Heard(opinions, asking, possible, 0)
    BY <1>3, <2>1 DEF FlagsInv
  <2>3. /\ Judges!Composite(opinions) \in possible
        /\ \A c \in 1 .. Backends : c < asking => opinions[c] = "none"
    BY <2>2 DEF Heard
  <2>4. {Judges!Composite(opinions), Judges!Composite(opinions')} \subseteq possible'
    BY <1>1, <2>3
  <2> QED
    BY <1>1, <1>2, <2>1, <2>3, <2>4 DEF Heard
<1>4. Judges!FlagIsOfItsTime'
  <2>1. changed' <= 1 => changed <= 1
    BY <1>1
  <2> QED
    BY <1>1, <2>1 DEF FlagsInv, Judges!FlagIsOfItsTime
<1>5. Judges!FlagsTypeOK'
  BY <1>1, <1>2 DEF FlagsInv, Judges!FlagsTypeOK, Judging
<1> QED
  BY <1>1, <1>3, <1>4, <1>5 DEF FlagsInv

LEMMA FlagsStep == ASSUME FlagsInv, Judges!FlagsNext PROVE FlagsInv'
  BY GuardStep, ResolveStep, SetStep DEF Judges!FlagsNext

-----------------------------------------------------------------------------
(* Broadcasts and polled updates                                           *)

Everyone == 1 .. Recipients

\* Who lies below the cursor is sent to once, and has a result or a runner at work on him;
\* a runner ends when nobody is left.
BroadcastInv ==
  /\ cursor \in 1 .. Recipients + 1
  /\ runner \in [Messages_!Runners -> -1 .. Recipients]
  /\ results \in [Everyone -> {"none", "ok", "failed"}] /\ sends \in [Everyone -> Nat]
  /\ \A i \in Everyone :
       /\ sends[i] = IF i < cursor THEN 1 ELSE 0
       /\ results[i] # "none" => i < cursor
       /\ i < cursor /\ results[i] = "none" => \E r \in Messages_!Runners : runner[r] = i
  /\ \A r \in Messages_!Runners :
       runner[r] < cursor /\ (runner[r] = -1 => cursor = Recipients + 1)
  /\ Concurrency <= 0 => cursor = 1

\* Every update below a number that holds a message has been handled.
HandledBelow(given, n) == \A u \in 1 .. MaxUpdate : u < n /\ u \notin Silent => given[u] >= 1

BotApis == {a \in [last : 0 .. MaxUpdate, confirmed : Nat] : a.confirmed <= a.last}
Polling ==
  [pc : {"new", "poll", "wait", "batch", "ended"}, running : BOOLEAN, offset : Nat,
   batch : Seq(Nat)]
Handlings == [1 .. MaxUpdate -> Nat]

\* A batch is what follows the last update that was confirmed when it was asked for.
BatchFits(s, a, given) ==
  /\ s.batch # <<>> /\ s.batch[1] >= 1 /\ s.offset <= s.batch[1]
  /\ HandledBelow(given, s.batch[1])
  /\ \A k \in DOMAIN s.batch : s.batch[k] = s.batch[1] + k - 1 /\ s.batch[k] <= a.last

LoopFits(s, a, given) ==
  /\ s.pc = "new" => s.offset = 0
  /\ s.pc \in {"poll", "wait", "batch"} => HandledBelow(given, s.offset)
  /\ s.pc = "wait" => s.offset <= a.confirmed + 1
  /\ s.pc = "batch" => BatchFits(s, a, given)
  /\ s.offset <= a.last + 1

\* The loops that are past an update; only they have handled it, and once.
Beyond(u) == {l \in Loops : loop[l].offset > u}
Ended == {l \in Loops : loop[l].pc = "ended"}

TelegramInv ==
  /\ api \in BotApis /\ loop \in [Loops -> Polling] /\ delivered \in Handlings
  /\ \A l \in Loops : LoopFits(loop[l], api, delivered)
  /\ HandledBelow(delivered, api.confirmed + 1)
  /\ \A u \in 1 .. MaxUpdate : delivered[u] <= Cardinality(Beyond(u))
  /\ ends = Cardinality(Ended)

MessagingInv == BroadcastInv /\ TelegramInv

LEMMA MessagingConstants ==
  /\ Recipients \in Nat /\ Concurrency \in Int /\ MaxUpdate \in Nat
  /\ Silent \subseteq 1 .. MaxUpdate /\ IsFiniteSet(Loops)
  BY PlatformAssumption DEF Messages_!MessagingAssumption, Messages_!IsFiniteSet, IsFiniteSet

LEMMA MessagingCardinality == \A S : Messages_!Cardinality(S) = Cardinality(S)
  BY DEF Messages_!Cardinality, Cardinality

LEMMA RunnersAre ==
  /\ Messages_!Runners \subseteq Nat \ {0}
  /\ Concurrency <= 0 => Messages_!Runners = {}
  /\ Concurrency > 0 /\ Recipients > 0 => 1 \in Messages_!Runners
  BY MessagingConstants DEF Messages_!Runners

LEMMA LoopsAreFinite ==
  ASSUME NEW S \in SUBSET Loops
  PROVE  IsFiniteSet(S) /\ Cardinality(S) \in Nat /\ Cardinality(S) <= Cardinality(Loops)
  BY MessagingConstants, FS_Subset, FS_CardinalityType

LEMMA MessagingInit == Messages_!Init => MessagingInv
<1> SUFFICES ASSUME Messages_!Init PROVE MessagingInv
  OBVIOUS
<1>1. BroadcastInv
  BY MessagingConstants, RunnersAre DEF Messages_!Init, BroadcastInv, Everyone
<1>2. loop \in [Loops -> Polling] /\ \A l \in Loops : loop[l].pc = "new" /\ loop[l].offset = 0
  BY DEF Messages_!Init, Polling
<1>3. /\ api \in BotApis /\ api.confirmed = 0 /\ api.last = 0
      /\ delivered \in Handlings /\ \A u \in 1 .. MaxUpdate : delivered[u] = 0
      /\ ends = 0
  BY MessagingConstants DEF Messages_!Init, BotApis, Handlings
<1>4. Beyond(0) = {} /\ Ended = {}
  BY <1>2 DEF Beyond, Ended
<1>5. \A u \in 1 .. MaxUpdate : Cardinality(Beyond(u)) \in Nat
  BY LoopsAreFinite DEF Beyond
<1>6. \A l \in Loops : LoopFits(loop[l], api, delivered)
  BY <1>2, <1>3 DEF LoopFits
<1>7. HandledBelow(delivered, api.confirmed + 1)
  BY <1>3 DEF HandledBelow
<1>8. TelegramInv
  BY <1>2, <1>3, <1>4, <1>5, <1>6, <1>7, FS_EmptySet DEF TelegramInv
<1> QED
  BY <1>1, <1>8 DEF MessagingInv

LEMMA MessagingStays == ASSUME MessagingInv, UNCHANGED messaging PROVE MessagingInv'
<1> USE DEF messaging
<1>1. BroadcastInv'
  BY DEF MessagingInv, BroadcastInv
<1>2. TelegramInv'
  BY DEF MessagingInv, TelegramInv, LoopFits, BatchFits, HandledBelow, Beyond, Ended
<1> QED
  BY <1>1, <1>2 DEF MessagingInv

LEMMA BroadcastStep == ASSUME BroadcastInv, Messages_!BroadcastNext PROVE BroadcastInv'
<1>1. PICK r \in Messages_!Runners : Messages_!Take(r) \/ Messages_!SendEnds(r)
  BY DEF Messages_!BroadcastNext
<1>2. r \in Nat /\ r # 0 /\ Concurrency > 0
  BY MessagingConstants, RunnersAre
<1>3. CASE Messages_!Take(r) /\ cursor <= Recipients
  <2>1. /\ runner[r] = 0 /\ runner' = [runner EXCEPT ![r] = cursor] /\ cursor' = cursor + 1
        /\ sends' = [sends EXCEPT ![cursor] = @ + 1] /\ results' = results
    BY <1>3 DEF Messages_!Take
  <2>2. cursor \in Everyone /\ cursor' \in 1 .. Recipients + 1
    BY <1>3, <2>1, MessagingConstants DEF BroadcastInv, Everyone
  <2>3. /\ runner' \in [Messages_!Runners -> -1 .. Recipients] /\ sends' \in [Everyone -> Nat]
        /\ results' \in [Everyone -> {"none", "ok", "failed"}]
    BY <2>1, <2>2 DEF BroadcastInv, Everyone
  <2>4. ASSUME NEW i \in Everyone
        PROVE  /\ sends'[i] = IF i < cursor' THEN 1 ELSE 0
               /\ results'[i] # "none" => i < cursor'
               /\ i < cursor' /\ results'[i] = "none" =>
                    \E q \in Messages_!Runners : runner'[q] = i
    <3>1. /\ sends[i] = IF i < cursor THEN 1 ELSE 0
          /\ results[i] # "none" => i < cursor
      BY DEF BroadcastInv
    <3>2. ASSUME i < cursor, results[i] = "none"
          PROVE  \E q \in Messages_!Runners : runner'[q] = i
      <4>1. PICK q \in Messages_!Runners : runner[q] = i
        BY <3>2 DEF BroadcastInv
      <4>2. q # r
        BY <2>1, <4>1 DEF Everyone
      <4> QED
        BY <2>1, <4>1, <4>2 DEF BroadcastInv
    <3>3. runner'[r] = cursor
      BY <2>1 DEF BroadcastInv
    <3> QED
      BY <2>1, <2>2, <3>1, <3>2, <3>3 DEF BroadcastInv, Everyone
  <2>5. ASSUME NEW q \in Messages_!Runners
        PROVE  runner'[q] < cursor' /\ (runner'[q] = -1 => cursor' = Recipients + 1)
    <3>1. runner[q] < cursor /\ (runner[q] = -1 => cursor = Recipients + 1)
      BY DEF BroadcastInv
    <3> QED
      BY <1>3, <2>1, <2>2, <3>1, MessagingConstants DEF BroadcastInv, Everyone
  <2> QED
    BY <1>2, <2>2, <2>3, <2>4, <2>5, MessagingConstants DEF BroadcastInv
<1>4. CASE Messages_!Take(r) /\ ~(cursor <= Recipients)
  <2>1. /\ runner[r] = 0 /\ runner' = [runner EXCEPT ![r] = -1]
        /\ UNCHANGED <<cursor, sends, results>> /\ cursor = Recipients + 1
    BY <1>4, MessagingConstants DEF Messages_!Take, BroadcastInv
  <2>2. runner' \in [Messages_!Runners -> -1 .. Recipients]
    BY <2>1, MessagingConstants DEF BroadcastInv
  <2>3. ASSUME NEW i \in Everyone, i < cursor, results[i] = "none"
        PROVE  \E q \in Messages_!Runners : runner'[q] = i
    <3>1. PICK q \in Messages_!Runners : runner[q] = i
      BY <2>3 DEF BroadcastInv
    <3>2. q # r
      BY <2>1, <3>1 DEF Everyone
    <3> QED
      BY <2>1, <3>1, <3>2 DEF BroadcastInv
  <2>4. \A q \in Messages_!Runners : runner'[q] < cursor
    BY <2>1, MessagingConstants DEF BroadcastInv
  <2> QED
    BY <1>2, <2>1, <2>2, <2>3, <2>4, MessagingConstants DEF BroadcastInv
<1>5. CASE Messages_!SendEnds(r)
  <2>1. PICK outcome \in {"ok", "failed"} :
          /\ runner[r] > 0 /\ results' = [results EXCEPT ![runner[r]] = outcome]
          /\ runner' = [runner EXCEPT ![r] = 0] /\ UNCHANGED <<cursor, sends>>
    BY <1>5, Zenon DEF Messages_!SendEnds
  <2>2. runner[r] \in Everyone /\ runner[r] < cursor
    BY <2>1, MessagingConstants DEF BroadcastInv, Everyone
  <2>3. /\ runner' \in [Messages_!Runners -> -1 .. Recipients]
        /\ results' \in [Everyone -> {"none", "ok", "failed"}]
    BY <2>1, <2>2, MessagingConstants DEF BroadcastInv
  <2>4. ASSUME NEW i \in Everyone
        PROVE  /\ results'[i] # "none" => i < cursor
               /\ i < cursor /\ results'[i] = "none" =>
                    \E q \in Messages_!Runners : runner'[q] = i
    <3>1. CASE i = runner[r]
      BY <2>1, <2>2, <3>1 DEF BroadcastInv
    <3>2. CASE i # runner[r]
      <4>1. results'[i] = results[i]
        BY <2>1, <3>2 DEF BroadcastInv
      <4>2. ASSUME i < cursor, results[i] = "none"
            PROVE  \E q \in Messages_!Runners : runner'[q] = i
        <5>1. PICK q \in Messages_!Runners : runner[q] = i
          BY <4>2 DEF BroadcastInv
        <5> QED
          BY <2>1, <3>2, <5>1 DEF BroadcastInv
      <4> QED
        BY <4>1, <4>2 DEF BroadcastInv
    <3> QED
      BY <3>1, <3>2
  <2>5. \A q \in Messages_!Runners :
          runner'[q] < cursor /\ (runner'[q] = -1 => cursor = Recipients + 1)
    BY <2>1, <2>2, MessagingConstants DEF BroadcastInv, Everyone
  <2> QED
    BY <1>2, <2>1, <2>3, <2>4, <2>5 DEF BroadcastInv
<1> QED
  BY <1>1, <1>3, <1>4, <1>5

LEMMA BroadcastReaches == BroadcastInv => Messages_!BroadcastReachesAll
<1> SUFFICES ASSUME BroadcastInv PROVE Messages_!BroadcastReachesAll
  OBVIOUS
<1>1. ASSUME NEW i \in Everyone
      PROVE  sends[i] <= 1 /\ (results[i] # "none" => sends[i] = 1)
  BY DEF BroadcastInv
<1>2. ASSUME Messages_!Broadcasted, NEW i \in Everyone
      PROVE  results[i] # "none" <=> Concurrency > 0
  <2>1. CASE Concurrency > 0
    <3>1. Recipients > 0
      BY MessagingConstants DEF Everyone
    <3>2. cursor = Recipients + 1
      BY <1>2, <2>1, <3>1, RunnersAre DEF Messages_!Broadcasted, BroadcastInv
    <3>3. i < cursor
      BY <3>2, MessagingConstants DEF Everyone
    <3>4. ASSUME results[i] = "none" PROVE FALSE
      <4>1. PICK r \in Messages_!Runners : runner[r] = i
        BY <3>3, <3>4 DEF BroadcastInv
      <4> QED
        BY <1>2, <4>1 DEF Messages_!Broadcasted, Everyone
    <3> QED
      BY <2>1, <3>4
  <2>2. CASE ~(Concurrency > 0)
    <3>1. cursor = 1
      BY <2>2, MessagingConstants DEF BroadcastInv
    <3> QED
      BY <2>2, <3>1 DEF BroadcastInv, Everyone
  <2> QED
    BY <2>1, <2>2
<1> QED
  BY <1>1, <1>2 DEF Messages_!BroadcastReachesAll, Everyone

LEMMA PollingTypes ==
  ASSUME NEW s \in Polling
  PROVE  /\ s.offset \in Nat /\ s.batch \in Seq(Nat)
         /\ \A k \in DOMAIN s.batch : k \in Nat /\ s.batch[k] \in Nat
  BY DEF Polling

LEMMA ApiTypes ==
  ASSUME NEW a \in BotApis
  PROVE  a.last \in Nat /\ a.last <= MaxUpdate /\ a.confirmed \in Nat /\ a.confirmed <= a.last
  BY MessagingConstants DEF BotApis

LEMMA UpdatesAreNumbers == \A u \in 1 .. MaxUpdate : u \in Nat /\ u >= 1
  BY MessagingConstants

\* What has been handled stays handled.
LEMMA HandledGrows ==
  ASSUME NEW d \in Handlings, NEW e \in Handlings, \A u \in 1 .. MaxUpdate : d[u] <= e[u], NEW n,
         HandledBelow(d, n)
  PROVE  HandledBelow(e, n)
<1> SUFFICES ASSUME NEW u \in 1 .. MaxUpdate, u < n, u \notin Silent PROVE e[u] >= 1
  BY DEF HandledBelow
<1>1. d[u] >= 1 /\ d[u] <= e[u] /\ d[u] \in Nat /\ e[u] \in Nat
  BY DEF HandledBelow, Handlings
<1> QED
  BY <1>1

\* A loop does not mind updates that arrive, are confirmed or handled meanwhile.
LEMMA FitsGrows ==
  ASSUME NEW s \in Polling, NEW a \in BotApis, NEW b \in BotApis, a.last <= b.last,
         a.confirmed <= b.confirmed, NEW d \in Handlings, NEW e \in Handlings,
         \A u \in 1 .. MaxUpdate : d[u] <= e[u], LoopFits(s, a, d)
  PROVE  LoopFits(s, b, e)
<1>1. \A n : HandledBelow(d, n) => HandledBelow(e, n)
  BY HandledGrows
<1>2. s.pc = "batch" => BatchFits(s, b, e)
  <2> SUFFICES ASSUME s.pc = "batch" PROVE BatchFits(s, b, e)
    OBVIOUS
  <2>1. BatchFits(s, a, d)
    BY DEF LoopFits
  <2>2. \A k \in DOMAIN s.batch : s.batch[k] <= b.last
    <3> TAKE k \in DOMAIN s.batch
    <3>1. s.batch[k] <= a.last /\ s.batch[k] \in Nat
      BY <2>1, PollingTypes DEF BatchFits
    <3> QED
      BY <3>1, ApiTypes
  <2> QED
    BY <1>1, <2>1, <2>2 DEF BatchFits
<1>3. s.offset <= b.last + 1 /\ (s.pc = "wait" => s.offset <= b.confirmed + 1)
  BY PollingTypes, ApiTypes DEF LoopFits
<1> QED
  BY <1>1, <1>2, <1>3 DEF LoopFits

LEMMA OneLoopMoves ==
  ASSUME TelegramInv, NEW l \in Loops, NEW s \in Polling, loop' = [loop EXCEPT ![l] = s],
         api' \in BotApis, api.last <= api'.last, api.confirmed <= api'.confirmed,
         delivered' \in Handlings, \A u \in 1 .. MaxUpdate : delivered[u] <= delivered'[u],
         LoopFits(s, api', delivered')
  PROVE  /\ loop' \in [Loops -> Polling]
         /\ \A m \in Loops : LoopFits(loop'[m], api', delivered')
<1>1. /\ loop' \in [Loops -> Polling] /\ loop'[l] = s
      /\ \A m \in Loops : m # l => loop'[m] = loop[m]
  BY DEF TelegramInv
<1>2. ASSUME NEW m \in Loops, m # l PROVE LoopFits(loop'[m], api', delivered')
  <2>1. loop[m] \in Polling /\ LoopFits(loop[m], api, delivered) /\ loop'[m] = loop[m]
    BY <1>1, <1>2 DEF TelegramInv
  <2>2. LoopFits(loop[m], api', delivered')
    BY <2>1, FitsGrows DEF TelegramInv
  <2> QED
    BY <2>1, <2>2
<1> QED
  BY <1>1, <1>2

\* The loops that are past an update do not come back.
LEMMA BeyondGrows ==
  ASSUME TelegramInv, NEW l \in Loops, NEW s \in Polling, loop' = [loop EXCEPT ![l] = s],
         loop[l].offset <= s.offset, NEW u \in Nat
  PROVE  /\ Cardinality(Beyond(u)) <= Cardinality(Beyond(u)')
         /\ loop[l].offset <= u /\ u < s.offset =>
              Cardinality(Beyond(u)') = Cardinality(Beyond(u)) + 1
<1>1. /\ loop[l].offset \in Nat /\ s.offset \in Nat /\ loop'[l] = s
      /\ \A m \in Loops : loop[m].offset \in Nat /\ (m # l => loop'[m] = loop[m])
  BY DEF TelegramInv, Polling
<1>2. Beyond(u) \in SUBSET Loops /\ Beyond(u)' \in SUBSET Loops
  BY DEF Beyond
<1>3. Beyond(u) \subseteq Beyond(u)'
  BY <1>1 DEF Beyond
<1>4. IsFiniteSet(Beyond(u)') /\ IsFiniteSet(Beyond(u))
  BY <1>2, LoopsAreFinite
<1>5. ASSUME loop[l].offset <= u, u < s.offset
      PROVE  Beyond(u)' = Beyond(u) \cup {l} /\ l \notin Beyond(u)
  BY <1>1, <1>5 DEF Beyond
<1> QED
  BY <1>3, <1>4, <1>5, FS_Subset, FS_AddElement

\* Who ends is counted.
LEMMA EndsAreCounted ==
  ASSUME TelegramInv, NEW l \in Loops, NEW s \in Polling, loop' = [loop EXCEPT ![l] = s],
         loop[l].pc # "ended"
  PROVE  ends \in Nat /\ Cardinality(Ended') = ends + (IF s.pc = "ended" THEN 1 ELSE 0)
<1>1. /\ loop'[l] = s /\ \A m \in Loops : m # l => loop'[m] = loop[m]
      /\ ends = Cardinality(Ended) /\ l \notin Ended
  BY DEF TelegramInv, Ended
<1>2. Ended \in SUBSET Loops
  BY DEF Ended
<1>3. IsFiniteSet(Ended) /\ Cardinality(Ended) \in Nat
  BY <1>2, LoopsAreFinite
<1>4. CASE s.pc = "ended"
  <2>1. Ended' = Ended \cup {l}
    BY <1>1, <1>4 DEF Ended
  <2> QED
    BY <1>1, <1>3, <1>4, <2>1, FS_AddElement, Zenon
<1>5. CASE s.pc # "ended"
  <2>1. Ended' = Ended
    BY <1>1, <1>5 DEF Ended
  <2> QED
    BY <1>1, <1>3, <1>5, <2>1
<1> QED
  BY <1>4, <1>5

LEMMA NothingGiven ==
  ASSUME TelegramInv, UNCHANGED delivered
  PROVE  delivered' \in Handlings /\ \A u \in 1 .. MaxUpdate : delivered[u] <= delivered'[u]
  BY DEF TelegramInv, Handlings

\* A loop goes on without having handled anything.
LEMMA LoopGoesOn ==
  ASSUME TelegramInv, NEW l \in Loops, NEW s \in Polling, loop' = [loop EXCEPT ![l] = s],
         loop[l].pc # "ended", loop[l].offset = s.offset, UNCHANGED delivered,
         api' \in BotApis, api.last <= api'.last, api.confirmed <= api'.confirmed,
         HandledBelow(delivered, api'.confirmed + 1),
         ends' = ends + (IF s.pc = "ended" THEN 1 ELSE 0), LoopFits(s, api', delivered)
  PROVE  TelegramInv'
<1>1. /\ loop' \in [Loops -> Polling]
      /\ \A m \in Loops : LoopFits(loop'[m], api', delivered')
  BY OneLoopMoves, NothingGiven, Zenon
<1>2. ASSUME NEW u \in 1 .. MaxUpdate PROVE delivered'[u] <= Cardinality(Beyond(u)')
  <2>1. u \in Nat /\ loop[l].offset <= s.offset
    BY PollingTypes, UpdatesAreNumbers
  <2>2. Cardinality(Beyond(u)) <= Cardinality(Beyond(u)')
    BY <2>1, BeyondGrows, Zenon
  <2>3. Cardinality(Beyond(u)) \in Nat /\ Cardinality(Beyond(u)') \in Nat
    BY <1>1, LoopsAreFinite DEF Beyond
  <2>4. delivered'[u] <= Cardinality(Beyond(u)) /\ delivered'[u] \in Nat
    BY DEF TelegramInv, Handlings
  <2> QED
    BY <2>2, <2>3, <2>4
<1>3. ends' = Cardinality(Ended')
  BY EndsAreCounted, Zenon
<1> QED
  BY <1>1, <1>2, <1>3, NothingGiven DEF TelegramInv

LEMMA ArriveStep == ASSUME TelegramInv, Messages_!Arrive PROVE TelegramInv'
<1>1. /\ api' \in BotApis /\ api'.confirmed = api.confirmed /\ api.last <= api'.last
      /\ api.confirmed <= api'.confirmed /\ UNCHANGED <<loop, delivered, ends>>
  BY MessagingConstants DEF Messages_!Arrive, TelegramInv, BotApis
<1>2. ASSUME NEW l \in Loops PROVE LoopFits(loop'[l], api', delivered')
  <2>1. loop[l] \in Polling /\ LoopFits(loop[l], api, delivered)
    BY DEF TelegramInv
  <2>2. LoopFits(loop[l], api', delivered')
    BY <1>1, <2>1, FitsGrows, NothingGiven DEF TelegramInv
  <2> QED
    BY <1>1, <2>2
<1> QED
  BY <1>1, <1>2 DEF TelegramInv, Beyond, Ended

LEMMA StartStep ==
  ASSUME TelegramInv, NEW l \in Loops, Messages_!Start(l) \/ Messages_!Stop(l)
  PROVE  TelegramInv'
<1>1. PICK s : /\ loop' = [loop EXCEPT ![l] = s] /\ UNCHANGED <<api, delivered, ends>>
               /\ \/ loop[l].pc = "new" /\ s = [loop[l] EXCEPT !.pc = "poll"]
                  \/ s = [loop[l] EXCEPT !.running = FALSE]
  BY Zenon DEF Messages_!Start, Messages_!Stop, Messages_!Go
<1>2. /\ s \in Polling /\ s.offset = loop[l].offset /\ s.batch = loop[l].batch
      /\ s.pc = loop[l].pc \/ (loop[l].pc = "new" /\ s.pc = "poll")
      /\ loop[l] \in Polling /\ LoopFits(loop[l], api, delivered) /\ s.offset \in Nat
  BY <1>1, Zenon DEF Polling, TelegramInv
<1>3. HandledBelow(delivered, 0)
  BY UpdatesAreNumbers DEF HandledBelow
<1>4. LoopFits(s, api, delivered)
  BY <1>2, <1>3 DEF LoopFits, BatchFits
<1>5. api.last <= api.last /\ api.confirmed <= api.confirmed /\ api \in BotApis
  BY ApiTypes DEF TelegramInv
<1>6. /\ loop' \in [Loops -> Polling]
      /\ \A m \in Loops : LoopFits(loop'[m], api', delivered')
  BY <1>1, <1>2, <1>4, <1>5, OneLoopMoves, NothingGiven, Zenon
<1>7. \A m \in Loops : /\ loop'[m].offset = loop[m].offset
                       /\ loop'[m].pc = "ended" <=> loop[m].pc = "ended"
  BY <1>1, <1>2 DEF TelegramInv
<1>8. (\A u : Beyond(u)' = Beyond(u)) /\ Ended' = Ended
  BY <1>7 DEF Beyond, Ended
<1> QED
  BY <1>1, <1>6, <1>8 DEF TelegramInv

LEMMA PollStep == ASSUME TelegramInv, NEW l \in Loops, Messages_!Poll(l) PROVE TelegramInv'
<1>1. /\ loop[l].pc = "poll" /\ UNCHANGED delivered /\ HandledBelow(delivered, loop[l].offset)
      /\ loop[l].offset <= api.last + 1 /\ loop[l].offset \in Nat /\ api \in BotApis
      /\ HandledBelow(delivered, api.confirmed + 1) /\ loop[l] \in Polling
  BY PollingTypes DEF Messages_!Poll, LoopFits, TelegramInv
<1>2. ends \in Nat
  BY LoopsAreFinite DEF TelegramInv, Ended
<1>3. CASE loop[l].running
  <2> DEFINE s == [loop[l] EXCEPT !.pc = "wait"]
  <2>1. /\ loop' = [loop EXCEPT ![l] = s] /\ UNCHANGED ends
        /\ api' = [api EXCEPT !.confirmed = IF loop[l].offset > @ + 1 THEN loop[l].offset - 1
                                            ELSE @]
    BY <1>3 DEF Messages_!Poll, Messages_!Go
  <2>2. s \in Polling /\ s.offset = loop[l].offset /\ s.pc = "wait"
    BY <1>1 DEF Polling
  <2> HIDE DEF s
  <2>3. /\ api' \in BotApis /\ api.last <= api'.last /\ api.confirmed <= api'.confirmed
        /\ api'.last = api.last /\ loop[l].offset <= api'.confirmed + 1
        /\ api'.confirmed = api.confirmed \/ api'.confirmed + 1 = loop[l].offset
    BY <1>1, <2>1, ApiTypes DEF BotApis
  <2>4. HandledBelow(delivered, api'.confirmed + 1)
    BY <1>1, <2>3
  <2>5. LoopFits(s, api', delivered)
    BY <1>1, <2>2, <2>3 DEF LoopFits
  <2>6. ends' = ends + (IF s.pc = "ended" THEN 1 ELSE 0)
    BY <1>2, <2>1, <2>2
  <2> QED
    BY <1>1, <2>1, <2>2, <2>3, <2>4, <2>5, <2>6, LoopGoesOn, Zenon
<1>4. CASE ~loop[l].running
  <2> DEFINE s == [loop[l] EXCEPT !.pc = "ended"]
  <2>1. loop' = [loop EXCEPT ![l] = s] /\ ends' = ends + 1 /\ UNCHANGED api
    BY <1>4 DEF Messages_!Poll, Messages_!Go
  <2>2. s \in Polling /\ s.offset = loop[l].offset /\ s.pc = "ended"
    BY <1>1 DEF Polling
  <2> HIDE DEF s
  <2>3. LoopFits(s, api', delivered)
    BY <1>1, <2>1, <2>2 DEF LoopFits
  <2>4. api' \in BotApis /\ api.last <= api'.last /\ api.confirmed <= api'.confirmed
    BY <1>1, <2>1, ApiTypes
  <2>5. ends' = ends + (IF s.pc = "ended" THEN 1 ELSE 0)
    BY <2>1, <2>2
  <2> QED
    BY <1>1, <2>1, <2>2, <2>3, <2>4, <2>5, LoopGoesOn, Zenon
<1> QED
  BY <1>3, <1>4

LEMMA UpdatesStep ==
  ASSUME TelegramInv, NEW l \in Loops, Messages_!Updates(l) PROVE TelegramInv'
<1>1. /\ loop[l].pc = "wait" /\ UNCHANGED <<api, delivered, ends>>
      /\ HandledBelow(delivered, loop[l].offset) /\ loop[l].offset <= api.confirmed + 1
      /\ loop[l].offset <= api.last + 1 /\ loop[l].offset \in Nat /\ api \in BotApis
      /\ HandledBelow(delivered, api.confirmed + 1) /\ loop[l] \in Polling
  BY PollingTypes DEF Messages_!Updates, LoopFits, TelegramInv
<1>2. ends \in Nat
  BY LoopsAreFinite DEF TelegramInv, Ended
<1>3. api' \in BotApis /\ api.last <= api'.last /\ api.confirmed <= api'.confirmed
  BY <1>1, ApiTypes
<1>4. PICK s \in Polling :
        /\ loop' = [loop EXCEPT ![l] = s] /\ s.offset = loop[l].offset /\ s.pc # "ended"
        /\ LoopFits(s, api, delivered)
  <2>1. CASE Messages_!Go(l, [loop[l] EXCEPT !.pc = "poll"])
    <3> DEFINE s == [loop[l] EXCEPT !.pc = "poll"]
    <3>1. s \in Polling /\ s.offset = loop[l].offset /\ s.pc = "poll"
      BY <1>1 DEF Polling
    <3>2. LoopFits(s, api, delivered)
      BY <1>1, <3>1 DEF LoopFits
    <3> QED
      BY <2>1, <3>1, <3>2, Zenon DEF Messages_!Go
  <2>2. CASE ~Messages_!Go(l, [loop[l] EXCEPT !.pc = "poll"])
    <3> DEFINE batch == [k \in 1 .. api.last - api.confirmed |-> api.confirmed + k]
               s == Messages_!At(l, "batch", loop[l].offset, batch)
    <3>1. loop' = [loop EXCEPT ![l] = s] /\ api.last > api.confirmed
      BY <2>2 DEF Messages_!Updates, Messages_!Go
    <3>2. /\ batch \in Seq(Nat) /\ DOMAIN batch = 1 .. api.last - api.confirmed
          /\ \A k \in DOMAIN batch : batch[k] = api.confirmed + k
      BY <1>1, <3>1, ApiTypes
    <3> HIDE DEF batch
    <3>3. batch # <<>> /\ batch[1] = api.confirmed + 1
      <4>1. 1 \in DOMAIN batch
        BY <1>1, <3>1, <3>2, ApiTypes
      <4>2. batch # <<>>
        BY <4>1
      <4>3. batch[1] = api.confirmed + 1
        BY <3>2, <4>1, Zenon
      <4> QED
        BY <4>2, <4>3
    <3>4. s \in Polling /\ s.offset = loop[l].offset /\ s.pc = "batch" /\ s.batch = batch
      BY <1>1, <3>2 DEF Polling, Messages_!At
    <3>5. BatchFits(s, api, delivered)
      <4>1. \A k \in DOMAIN batch : batch[k] = batch[1] + k - 1 /\ batch[k] <= api.last
        <5> TAKE k \in DOMAIN batch
        <5>1. k \in Nat /\ k <= api.last - api.confirmed /\ batch[k] = api.confirmed + k
          BY <3>2
        <5> QED
          BY <1>1, <3>3, <5>1, ApiTypes
      <4>2. batch[1] >= 1 /\ loop[l].offset <= batch[1] /\ HandledBelow(delivered, batch[1])
        BY <1>1, <3>3, ApiTypes
      <4> HIDE DEF s
      <4> QED
        BY <3>3, <3>4, <4>1, <4>2 DEF BatchFits
    <3>6. LoopFits(s, api, delivered)
      BY <1>1, <3>4, <3>5 DEF LoopFits
    <3> QED
      BY <3>1, <3>4, <3>6, Zenon
  <2> QED
    BY <2>1, <2>2
<1>5. ends' = ends + (IF s.pc = "ended" THEN 1 ELSE 0) /\ LoopFits(s, api', delivered)
  BY <1>1, <1>2, <1>4
<1> QED
  BY <1>1, <1>3, <1>4, <1>5, LoopGoesOn, Zenon

LEMMA HandleStep ==
  ASSUME TelegramInv, NEW l \in Loops, Messages_!Handle(l) PROVE TelegramInv'
<1> DEFINE batch == loop[l].batch
           update == Head(batch)
           rest == Tail(batch)
<1>1. /\ loop[l].pc = "batch" /\ UNCHANGED api /\ batch \in Seq(Nat) /\ batch # <<>>
      /\ BatchFits(loop[l], api, delivered) /\ loop[l] \in Polling /\ api \in BotApis
      /\ loop[l].offset \in Nat /\ api' \in BotApis
  BY PollingTypes, Zenon DEF Messages_!Handle, LoopFits, BatchFits, TelegramInv
<1>2. /\ update = batch[1] /\ update \in Nat /\ 1 \in DOMAIN batch /\ update \in 1 .. MaxUpdate
      /\ loop[l].offset <= update /\ HandledBelow(delivered, update)
      /\ update <= api.last
  <2>1. 1 \in DOMAIN batch /\ update = batch[1] /\ batch[1] \in Nat
    BY <1>1
  <2>2. api.last <= MaxUpdate
    BY <1>1, ApiTypes
  <2> QED
    BY <1>1, <2>1, <2>2, ApiTypes, MessagingConstants DEF BatchFits
<1>3. /\ rest \in Seq(Nat) /\ \A k \in DOMAIN rest : k + 1 \in DOMAIN batch /\ rest[k] = batch[k + 1]
  BY <1>1
<1>4. PICK s \in Polling :
        /\ loop' = [loop EXCEPT ![l] = s] /\ s.offset = update + 1
        /\ \/ /\ s.pc = (IF rest = <<>> THEN "poll" ELSE "batch") /\ s.batch = rest
              /\ UNCHANGED ends
              /\ \/ update \in Silent /\ UNCHANGED delivered
                 \/ delivered' = [delivered EXCEPT ![update] = @ + 1]
           \/ s.pc = "ended" /\ ends' = ends + 1 /\ UNCHANGED delivered
  <2>1. \A pc \in {"poll", "batch", "ended"}, b \in Seq(Nat) :
          LET s == Messages_!At(l, pc, update + 1, b)
          IN s \in Polling /\ s.offset = update + 1 /\ s.pc = pc /\ s.batch = b
    BY <1>1, <1>2 DEF Messages_!At, Polling
  <2>2. <<>> \in Seq(Nat)
    OBVIOUS
  <2> DEFINE next == Messages_!At(l, IF rest = <<>> THEN "poll" ELSE "batch", update + 1, rest)
             stop == Messages_!At(l, "ended", update + 1, <<>>)
  <2>3. \/ Messages_!Go(l, next) /\ UNCHANGED ends
           /\ \/ update \in Silent /\ UNCHANGED delivered
              \/ delivered' = [delivered EXCEPT ![update] = @ + 1]
        \/ Messages_!Go(l, stop) /\ ends' = ends + 1 /\ UNCHANGED delivered
    BY Zenon DEF Messages_!Handle
  <2>4. next \in Polling /\ next.offset = update + 1 /\ next.batch = rest
        /\ next.pc = (IF rest = <<>> THEN "poll" ELSE "batch")
    BY <1>3, <2>1, Zenon
  <2>5. stop \in Polling /\ stop.offset = update + 1 /\ stop.pc = "ended"
    BY <2>1, <2>2, Zenon
  <2> QED
    BY <2>3, <2>4, <2>5, Zenon DEF Messages_!Go
<1> HIDE DEF rest, update, batch
<1>5. PICK n \in 1 .. MaxUpdate : n = update
  BY <1>2
<1>6. /\ delivered' \in Handlings
      /\ \A u \in 1 .. MaxUpdate :
           /\ delivered[u] <= delivered'[u]
           /\ delivered'[u] # delivered[u] => u = n /\ delivered'[u] = delivered[u] + 1
      /\ s.pc # "ended" /\ n \notin Silent => delivered'[n] >= 1
  <2>1. delivered \in Handlings
    BY DEF TelegramInv
  <2>2. CASE delivered' = [delivered EXCEPT ![n] = @ + 1]
    BY <2>1, <2>2 DEF Handlings
  <2>3. CASE delivered' = delivered /\ (s.pc = "ended" \/ n \in Silent)
    BY <2>1, <2>3 DEF Handlings
  <2> QED
    BY <1>4, <1>5, <2>2, <2>3
<1>7. \A k : HandledBelow(delivered, k) => HandledBelow(delivered', k)
  BY <1>6, HandledGrows DEF TelegramInv
<1>8. LoopFits(s, api, delivered')
  <2>1. s.pc # "ended" => HandledBelow(delivered', update + 1)
    <3> SUFFICES ASSUME s.pc # "ended", NEW u \in 1 .. MaxUpdate, u < update + 1, u \notin Silent
                 PROVE  delivered'[u] >= 1
      BY DEF HandledBelow
    <3>1. u < update \/ u = update
      BY <1>2, UpdatesAreNumbers
    <3>2. HandledBelow(delivered', update)
      BY <1>2, <1>7
    <3> QED
      BY <1>5, <1>6, <3>1, <3>2 DEF HandledBelow
  <2>2. s.pc = "batch" => BatchFits(s, api, delivered')
    <3> SUFFICES ASSUME s.pc = "batch" PROVE BatchFits(s, api, delivered')
      OBVIOUS
    <3>1. rest # <<>> /\ s.batch = rest
      BY <1>4
    <3>2. 1 \in DOMAIN rest
      BY <1>3, <3>1
    <3>3. \A k \in DOMAIN batch : batch[k] = batch[1] + k - 1 /\ batch[k] <= api.last
      BY <1>1 DEF BatchFits, batch
    <3>4. \A k \in DOMAIN rest : k \in Nat /\ rest[k] = update + k /\ rest[k] <= api.last
      <4> SUFFICES ASSUME NEW k \in DOMAIN rest
                   PROVE  k \in Nat /\ rest[k] = update + k /\ rest[k] <= api.last
        OBVIOUS
      <4>1. k \in Nat /\ k + 1 \in DOMAIN batch /\ rest[k] = batch[k + 1]
        BY <1>3
      <4>2. batch[k + 1] = batch[1] + (k + 1) - 1 /\ batch[k + 1] <= api.last
        BY <3>3, <4>1
      <4> QED
        BY <1>2, <4>1, <4>2
    <3>5. rest[1] = update + 1
      BY <3>2, <3>4
    <3>6. HandledBelow(delivered', update + 1)
      BY <2>1
    <3> QED
      BY <1>2, <1>4, <3>1, <3>4, <3>5, <3>6 DEF BatchFits
  <2>3. s.pc \in {"poll", "batch", "ended"} /\ s.offset <= api.last + 1
    BY <1>1, <1>2, <1>4, ApiTypes
  <2> QED
    BY <1>4, <2>1, <2>2, <2>3 DEF LoopFits
<1>9. /\ loop' \in [Loops -> Polling]
      /\ \A m \in Loops : LoopFits(loop'[m], api', delivered')
  <2>1. api.last <= api'.last /\ api.confirmed <= api'.confirmed /\ LoopFits(s, api', delivered')
    BY <1>1, <1>8, ApiTypes
  <2> QED
    BY <1>1, <1>4, <1>6, <2>1, OneLoopMoves, Zenon
<1>10. ASSUME NEW u \in 1 .. MaxUpdate PROVE delivered'[u] <= Cardinality(Beyond(u)')
  <2>1. u \in Nat /\ loop[l].offset <= s.offset
    BY <1>1, <1>2, <1>4, UpdatesAreNumbers
  <2>2. /\ Cardinality(Beyond(u)) <= Cardinality(Beyond(u)')
        /\ loop[l].offset <= u /\ u < s.offset =>
             Cardinality(Beyond(u)') = Cardinality(Beyond(u)) + 1
    BY <1>4, <2>1, BeyondGrows, Zenon
  <2>3. Cardinality(Beyond(u)) \in Nat /\ Cardinality(Beyond(u)') \in Nat
    BY LoopsAreFinite DEF Beyond
  <2>4. delivered[u] <= Cardinality(Beyond(u)) /\ delivered[u] \in Nat /\ delivered'[u] \in Nat
    BY <1>6 DEF TelegramInv, Handlings
  <2>5. u = n => loop[l].offset <= u /\ u < s.offset
    BY <1>2, <1>4, <1>5
  <2> QED
    BY <1>6, <2>2, <2>3, <2>4, <2>5
<1>11. ends' = Cardinality(Ended')
  <2>1. Cardinality(Ended') = ends + (IF s.pc = "ended" THEN 1 ELSE 0)
    BY <1>1, <1>4, EndsAreCounted, Zenon
  <2>2. ends \in Nat
    BY LoopsAreFinite DEF TelegramInv, Ended
  <2> QED
    BY <1>4, <2>1, <2>2
<1>12. HandledBelow(delivered', api'.confirmed + 1)
  BY <1>1, <1>7 DEF TelegramInv
<1> QED
  BY <1>1, <1>6, <1>9, <1>10, <1>11, <1>12 DEF TelegramInv

LEMMA TelegramStep == ASSUME TelegramInv, Messages_!TelegramNext PROVE TelegramInv'
  BY ArriveStep, StartStep, PollStep, UpdatesStep, HandleStep DEF Messages_!TelegramNext

LEMMA MessagingStep == ASSUME MessagingInv, MessagingNext PROVE MessagingInv'
<1>1. CASE Messages_!BroadcastNext
  <2>1. UNCHANGED <<api, loop, delivered, ends>>
    BY <1>1 DEF Messages_!BroadcastNext, Messages_!Take, Messages_!SendEnds,
       Messages_!telegram
  <2>2. TelegramInv'
    BY <2>1 DEF MessagingInv, TelegramInv, LoopFits, BatchFits, HandledBelow, Beyond, Ended
  <2> QED
    BY <1>1, <2>2, BroadcastStep DEF MessagingInv
<1>2. CASE Messages_!TelegramNext
  <2>1. UNCHANGED <<cursor, runner, results, sends>>
    BY <1>2, Zenon DEF Messages_!TelegramNext, Messages_!Arrive, Messages_!Start, Messages_!Stop,
       Messages_!Poll, Messages_!Updates, Messages_!Handle, Messages_!broadcast
  <2>2. BroadcastInv'
    BY <2>1 DEF MessagingInv, BroadcastInv
  <2> QED
    BY <1>2, <2>2, TelegramStep DEF MessagingInv
<1> QED
  BY <1>1, <1>2 DEF MessagingNext

LEMMA MessagesArrive ==
  MessagingInv => /\ Messages_!TypeOK /\ Messages_!BroadcastReachesAll
                  /\ Messages_!UpdatesAreHandled
<1> SUFFICES ASSUME MessagingInv
             PROVE  /\ Messages_!TypeOK /\ Messages_!BroadcastReachesAll
                    /\ Messages_!UpdatesAreHandled
  OBVIOUS
<1>1. Messages_!TypeOK
  <2>1. ends \in 0 .. Cardinality(Loops)
    BY LoopsAreFinite DEF MessagingInv, TelegramInv, Ended
  <2> QED
    BY <2>1, MessagingCardinality, MessagingConstants, ApiTypes DEF MessagingInv,
       BroadcastInv, TelegramInv, BotApis, Everyone, Polling, Messages_!TypeOK
<1>2. ASSUME NEW u \in 1 .. MaxUpdate
      PROVE  delivered[u] <= Cardinality({l \in Loops : loop[l].pc # "new"})
  <2> DEFINE begun == {l \in Loops : loop[l].pc # "new"}
  <2>1. begun \in SUBSET Loops /\ Beyond(u) \in SUBSET begun
    BY MessagingConstants DEF MessagingInv, TelegramInv, LoopFits, Beyond
  <2>2. IsFiniteSet(begun) /\ Cardinality(begun) \in Nat
    BY <2>1, LoopsAreFinite
  <2>3. Cardinality(Beyond(u)) <= Cardinality(begun) /\ Cardinality(Beyond(u)) \in Nat
    BY <2>1, <2>2, FS_Subset, FS_CardinalityType
  <2>4. delivered[u] <= Cardinality(Beyond(u)) /\ delivered[u] \in Nat
    BY DEF MessagingInv, TelegramInv, Handlings
  <2> HIDE DEF begun
  <2>5. delivered[u] <= Cardinality(begun)
    BY <2>2, <2>3, <2>4
  <2> QED
    BY <2>5 DEF begun
<1>3. \A u \in 1 .. api.confirmed : u \notin Silent => delivered[u] >= 1
  BY MessagingConstants, ApiTypes DEF MessagingInv, TelegramInv, HandledBelow
<1> QED
  BY <1>1, <1>2, <1>3, BroadcastReaches, MessagingCardinality
     DEF MessagingInv, Messages_!UpdatesAreHandled

-----------------------------------------------------------------------------
(* The AsyncAPI registry                                                   *)

DocumentInv == Async!TypeOK /\ Async!DocumentIsClosed

LEMMA DocumentInit == Async!Init => DocumentInv
  BY DEF Async!Init, Async!None, DocumentInv, Async!TypeOK, Async!DocumentIsClosed

\* What is rendered while all references resolve is closed.
LEMMA RenderedIsClosed ==
  ASSUME Async!ReferencesResolve, document' = Async!Rendered
  PROVE  Async!DocumentIsClosed'
<1>1. ASSUME NEW o \in document'.operations
      PROVE  \E c \in document'.channels :
               /\ c.name = o.channel /\ o.messages \subseteq {<<c.name, m>> : m \in c.messages}
  <2>1. PICK p \in operations :
          /\ o.channel = AsyncOperations[p].channel
          /\ o.messages = {<<AsyncOperations[p].channel, m>> : m \in AsyncOperations[p].messages}
    BY <1>1 DEF Async!Rendered
  <2>2. AsyncOperations[p].channel \in channels /\ AsyncOperations[p].messages \subseteq messages
    BY DEF Async!ReferencesResolve
  <2> DEFINE d == AsyncOperations[p].channel
             c == [name |-> d, messages |-> messages,
                   bindings |-> (IF AsyncChannels[d].headers THEN {<<"headers", d>>} ELSE {})
                                \cup (IF AsyncChannels[d].query THEN {<<"query", d>>} ELSE {})]
  <2>3. c \in document'.channels
    BY <2>2, Zenon DEF Async!Rendered
  <2>4. c.name = d /\ c.messages = messages
    OBVIOUS
  <2> HIDE DEF c
  <2> QED
    BY <2>1, <2>2, <2>3, <2>4
<1>2. ASSUME NEW c \in document'.channels
      PROVE  /\ c.messages \subseteq {m.name : m \in document'.messages}
             /\ c.bindings \subseteq document'.schemas
  <2>1. PICK d \in channels :
          /\ c.messages = messages
          /\ c.bindings = (IF AsyncChannels[d].headers THEN {<<"headers", d>>} ELSE {})
                          \cup (IF AsyncChannels[d].query THEN {<<"query", d>>} ELSE {})
    BY <1>2 DEF Async!Rendered
  <2>2. ASSUME NEW m \in messages PROVE m \in {n.name : n \in document'.messages}
    <3>1. [name |-> m, payload |-> <<"payload", m>>] \in document'.messages
      BY <2>2 DEF Async!Rendered
    <3> QED
      BY <3>1
  <2>3. document'.schemas = Async!Schemas
    BY DEF Async!Rendered
  <2> QED
    BY <2>1, <2>2, <2>3 DEF Async!Schemas
<1>3. ASSUME NEW m \in document'.messages PROVE m.payload \in document'.schemas
  BY <1>3 DEF Async!Rendered, Async!Schemas
<1> QED
  BY <1>1, <1>2, <1>3 DEF Async!DocumentIsClosed

LEMMA DocumentStays == ASSUME DocumentInv, UNCHANGED asyncapi PROVE DocumentInv'
  BY DEF asyncapi, DocumentInv, Async!TypeOK, Async!DocumentIsClosed

LEMMA DocumentStep == ASSUME DocumentInv, Async!Next PROVE DocumentInv'
<1>1. Async!TypeOK'
  BY DEF DocumentInv, Async!TypeOK, Async!Next, Async!RegisterChannel, Async!RegisterMessage,
     Async!RegisterOperation, Async!Generate
<1>2. CASE Async!Generate
  BY <1>1, <1>2, RenderedIsClosed DEF DocumentInv, Async!Generate
<1>3. ASSUME UNCHANGED document PROVE Async!DocumentIsClosed'
  BY <1>3 DEF DocumentInv, Async!DocumentIsClosed
<1> QED
  BY <1>1, <1>2, <1>3 DEF DocumentInv, Async!Next, Async!RegisterChannel,
     Async!RegisterMessage, Async!RegisterOperation

-----------------------------------------------------------------------------
(* Downloads and links                                                     *)

MovesInv ==
  /\ ask \in Moves!Asks /\ pages \in 0 .. MaxPages /\ seen \subseteq 0 .. MaxPages + 1
  /\ page \in Nat /\ (IF pages > 0 THEN page \in 1 .. pages ELSE page = 1)

LEMMA MovesConstants == {MaxSize, MaxAsk, MaxPath, MaxPages} \subseteq Nat
  BY PlatformAssumption DEF Moves!TransfersAssumption

LEMMA MovesInit == Moves!Init => MovesInv
<1> SUFFICES ASSUME Moves!Init PROVE MovesInv
  OBVIOUS
<1>1. [size |-> 0, start |-> -1, end |-> -1] \in Moves!Asks
  BY MovesConstants DEF Moves!Asks
<1> QED
  BY <1>1, MovesConstants DEF Moves!Init, MovesInv

LEMMA MovesStay == ASSUME MovesInv, UNCHANGED transfers PROVE MovesInv'
  BY DEF transfers, MovesInv

\* What a page links to is a page.
LEMMA LinksLead ==
  ASSUME NEW n \in Nat, NEW p \in 1 .. n
  PROVE  /\ \A rel \in DOMAIN Moves!Links(n, p) : Moves!Links(n, p)[rel] \in 1 .. n
         /\ "next" \in DOMAIN Moves!Links(n, p) <=> p # n
         /\ "prev" \in DOMAIN Moves!Links(n, p) <=> p # 1
<1>1. n > 0 /\ p \in Nat
  OBVIOUS
<1> DEFINE rels == {"first", "last"} \cup (IF p > 1 THEN {"prev"} ELSE {})
                   \cup (IF p < n THEN {"next"} ELSE {})
<1>2. Moves!Links(n, p) =
        [rel \in rels |-> CASE rel = "first" -> 1 [] rel = "last" -> n
                            [] rel = "prev" -> p - 1 [] rel = "next" -> p + 1]
  BY <1>1 DEF Moves!Links
<1>3. ASSUME NEW rel \in rels PROVE Moves!Links(n, p)[rel] \in 1 .. n
  <2>1. rel = "first" \/ rel = "last" \/ (rel = "prev" /\ p > 1) \/ (rel = "next" /\ p < n)
    OBVIOUS
  <2> HIDE DEF rels
  <2> QED
    BY <1>1, <1>2, <1>3, <2>1
<1>4. DOMAIN Moves!Links(n, p) = rels
  BY <1>2
<1> QED
  BY <1>1, <1>3, <1>4

LEMMA MovesStep == ASSUME MovesInv, Moves!Follow PROVE MovesInv'
<1>1. PICK rel \in DOMAIN Moves!Links(pages, page) : page' = Moves!Links(pages, page)[rel]
  BY DEF Moves!Follow
<1>2. pages > 0 /\ UNCHANGED <<ask, pages>> /\ seen' = seen \cup {page} /\ pages \in Nat
  BY <1>1, MovesConstants DEF Moves!Follow, Moves!Links, MovesInv
<1>3. page \in 1 .. pages
  BY <1>2 DEF MovesInv
<1>4. page' \in 1 .. pages
  BY <1>1, <1>2, <1>3, LinksLead
<1> QED
  BY <1>2, <1>3, <1>4, MovesConstants DEF MovesInv

LEMMA GreaterOf ==
  ASSUME NEW m \in Int, NEW n \in Int
  PROVE  /\ Moves!Max({m, n}) = IF m >= n THEN m ELSE n
         /\ Moves!Min({m, n}) = IF m <= n THEN m ELSE n
  BY DEF Moves!Max, Moves!Min

\* The range a header is read as: whole numbers within the file, or none.
LEMMA RangeIsExact ==
  ASSUME NEW a \in Moves!Asks
  PROVE  \/ /\ Moves!ParseRange(a) = Moves!None
            /\ (a.start = -1 /\ a.end = -1) \/ Moves!Asked(a) = {}
         \/ \E start \in Nat, end \in Nat :
              /\ Moves!ParseRange(a) = [start |-> start, end |-> end]
              /\ start <= end /\ start < a.size /\ end < a.size
              /\ Moves!Asked(a) = start .. end
<1> DEFINE start == IF a.start # -1 THEN a.start ELSE Moves!Max({0, a.size - a.end})
           end == IF a.start = -1 \/ a.end = -1 THEN a.size - 1
                  ELSE Moves!Min({a.end, a.size - 1})
<1>1. a.size \in Nat /\ a.start \in Nat \cup {-1} /\ a.end \in Nat \cup {-1}
  BY MovesConstants DEF Moves!Asks
<1>2. /\ a.start # -1 => start = a.start
      /\ a.start = -1 => start = IF 0 >= a.size - a.end THEN 0 ELSE a.size - a.end
      /\ a.start = -1 \/ a.end = -1 => end = a.size - 1
      /\ a.start # -1 /\ a.end # -1 => end = IF a.end <= a.size - 1 THEN a.end ELSE a.size - 1
      /\ start \in Nat /\ end \in Int
  <2>1. /\ 0 \in Int /\ a.size - a.end \in Int /\ a.end \in Int /\ a.size - 1 \in Int
    BY <1>1
  <2>2. /\ Moves!Max({0, a.size - a.end}) = IF 0 >= a.size - a.end THEN 0 ELSE a.size - a.end
        /\ Moves!Min({a.end, a.size - 1}) = IF a.end <= a.size - 1 THEN a.end ELSE a.size - 1
    BY <2>1, GreaterOf, Zenon
  <2> QED
    BY <1>1, <2>2
<1>3. Moves!ParseRange(a) =
        IF (a.start = -1 /\ a.end = -1) \/ start > end \/ start >= a.size THEN Moves!None
        ELSE [start |-> start, end |-> end]
  BY DEF Moves!ParseRange
<1> HIDE DEF start, end
<1>4. ASSUME a.start # -1 \/ a.end # -1
      PROVE  Moves!Asked(a) = {b \in 0 .. a.size - 1 : start <= b /\ b <= end}
  <2>1. CASE a.start = -1
    <3>1. ASSUME NEW b \in 0 .. a.size - 1
          PROVE  Moves!Cardinality(b .. a.size - 1) <= a.end <=> start <= b /\ b <= end
      <4>1. Cardinality(b .. a.size - 1) = a.size - b
        <5>1. b \in Int /\ a.size - 1 \in Int /\ b <= a.size - 1
          BY <1>1
        <5> QED
          BY <1>1, <5>1, FS_Interval
      <4>2. Moves!Cardinality(b .. a.size - 1) = a.size - b
        BY <4>1 DEF Moves!Cardinality, Cardinality
      <4> QED
        BY <1>1, <1>2, <1>4, <2>1, <4>2
    <3> QED
      BY <2>1, <3>1 DEF Moves!Asked
  <2>2. CASE a.start # -1 /\ a.end = -1
    BY <1>1, <1>2, <2>2 DEF Moves!Asked
  <2>3. CASE a.start # -1 /\ a.end # -1
    BY <1>1, <1>2, <2>3 DEF Moves!Asked
  <2> QED
    BY <2>1, <2>2, <2>3
<1>5. CASE a.start = -1 /\ a.end = -1
  BY <1>3, <1>5
<1>6. CASE ~(a.start = -1 /\ a.end = -1) /\ (start > end \/ start >= a.size)
  <2>1. \A b \in 0 .. a.size - 1 : ~(start <= b /\ b <= end)
    BY <1>1, <1>2, <1>6
  <2> QED
    BY <1>3, <1>4, <1>6, <2>1
<1>7. CASE ~(a.start = -1 /\ a.end = -1) /\ ~(start > end \/ start >= a.size)
  <2>1. end \in Nat /\ start <= end /\ start < a.size /\ end < a.size
    BY <1>1, <1>2, <1>7
  <2>2. {b \in 0 .. a.size - 1 : start <= b /\ b <= end} = start .. end
    BY <1>1, <1>2, <2>1
  <2> QED
    BY <1>2, <1>3, <1>4, <1>7, <2>1, <2>2, Zenon
<1> QED
  BY <1>5, <1>6, <1>7

LEMMA DownloadIsExact == ASSUME MovesInv PROVE Moves!DownloadsAreExact
<1>1. ask \in Moves!Asks /\ ask.size \in Nat
  BY MovesConstants DEF MovesInv, Moves!Asks
<1>2. CASE /\ Moves!ParseRange(ask) = Moves!None
           /\ (ask.start = -1 /\ ask.end = -1) \/ Moves!Asked(ask) = {}
  <2>1. Moves!Download(ask) = [status |-> 200, bytes |-> 0 .. ask.size - 1, length |-> ask.size]
    BY <1>2 DEF Moves!Download
  <2>2. Cardinality(0 .. ask.size - 1) = ask.size
    BY <1>1, FS_Interval
  <2>3. Moves!Cardinality(0 .. ask.size - 1) = ask.size
    BY <2>2 DEF Moves!Cardinality, Cardinality
  <2> QED
    BY <1>2, <2>1, <2>3 DEF Moves!DownloadsAreExact
<1>3. ASSUME NEW start \in Nat, NEW end \in Nat,
             Moves!ParseRange(ask) = [start |-> start, end |-> end], start <= end,
             Moves!Asked(ask) = start .. end
      PROVE  Moves!DownloadsAreExact
  <2>1. [start |-> start, end |-> end] # Moves!None
    BY <1>3 DEF Moves!None
  <2>2. Moves!Download(ask) =
          [status |-> 206, bytes |-> start .. end, length |-> end - start + 1]
    BY <1>3, <2>1 DEF Moves!Download
  <2>3. Cardinality(start .. end) = end - start + 1
    BY <1>3, FS_Interval
  <2>4. Moves!Cardinality(start .. end) = end - start + 1
    BY <2>3 DEF Moves!Cardinality, Cardinality
  <2>5. start \in start .. end
    BY <1>3
  <2> DEFINE d == Moves!Download(ask)
  <2>6. d.status = 206 /\ d.bytes = start .. end /\ d.length = end - start + 1
    BY <2>2
  <2> HIDE DEF d
  <2>7. /\ Moves!Cardinality(d.bytes) = d.length
        /\ d.bytes = Moves!Asked(ask) /\ d.bytes # {} /\ d.status # 200
    BY <1>3, <2>4, <2>5, <2>6
  <2> QED
    BY <2>7 DEF d, Moves!DownloadsAreExact
<1> QED
  BY <1>1, <1>2, <1>3, RangeIsExact

LEMMA MovesAreRight ==
  MovesInv => Moves!TypeOK /\ Moves!DownloadsAreExact /\ Moves!LinksLeadThrough
<1> SUFFICES ASSUME MovesInv
             PROVE  Moves!TypeOK /\ Moves!DownloadsAreExact /\ Moves!LinksLeadThrough
  OBVIOUS
<1>1. Moves!TypeOK
  BY MovesConstants DEF MovesInv, Moves!TypeOK
<1>2. Moves!LinksLeadThrough
  BY MovesConstants, LinksLead DEF MovesInv, Moves!LinksLeadThrough
<1> QED
  BY <1>1, <1>2, DownloadIsExact

-----------------------------------------------------------------------------
(* Other people's services                                                 *)

Sendings ==
  [pc : {"idle", "trying", "sent", "failed"}, kind : {"none", "whatsapp", "sms", "email"},
   keyed : BOOLEAN, tries : Nat, calls : 0 .. MaxCalls]
Logins ==
  [pc : {"code", "tokens", "done", "failed"}, tries : Nat,
   access : {"none", "real", "undefined"}, user : {"none", "owner", "undefined"}]
HookOptions ==
  [route : {"none", "whatsapp", "twilio", "signed"}, secret : BOOLEAN, publicUrl : BOOLEAN,
   proxied : BOOLEAN, parsed : BOOLEAN]
HookPosts == [key : BOOLEAN, tampered : BOOLEAN, empty : BOOLEAN, valid : BOOLEAN]
Hooks ==
  [pc : {"idle", "handling"}, options : HookOptions, post : HookPosts, posts : 0 .. MaxPosts,
   status : {0, 200, 401, 422, 500}]

\* What the gateway knows a key of it has sent once, and the key of a message never changes.
SendingFits ==
  /\ out \in Sendings /\ copies \in Nat /\ known \in BOOLEAN
  /\ known => out.keyed /\ copies = 1
  /\ out.keyed /\ ~known => copies = 0
  /\ out.calls = 0 => out.pc = "idle" /\ copies = 0 /\ ~known
  /\ out.pc = "sent" => copies >= 1

\* A real token was paid for with the code.
LoginFits ==
  /\ login \in Logins /\ code \in {"fresh", "spent"}
  /\ login.access = "real" => code = "spent"
  /\ login.user # "none" => login.user = "owner" /\ code = "spent"

\* The sender repeats one post, and what is handled passed; what was turned away did not.
HookFits ==
  /\ hook \in Hooks /\ handled \in Nat /\ acked \in BOOLEAN
  /\ hook.posts = 0 => hook.pc = "idle" /\ handled = 0 /\ hook.status = 0
  /\ hook.posts > 0 => hook.options.route # "none"
  /\ hook.pc = "handling" \/ handled > 0 => Services!Passes(hook.options, hook.post)
  /\ hook.status = 401 => ~Services!Passes(hook.options, hook.post)
  /\ acked => handled >= 1

SocketFits ==
  socket \in [state : {"connecting", "open", "closing", "closed", "crashed"}, heard : Nat]

ServicesInv == SendingFits /\ LoginFits /\ HookFits /\ SocketFits

LEMMA ServicesConstants ==
  MaxRetries \in Nat /\ MaxCalls \in Nat /\ MaxPosts \in Nat /\ MaxFrames \in Nat
  BY PlatformAssumption DEF Services!ProvidersAssumption

LEMMA ServicesInit == Services!Init => ServicesInv
<1> SUFFICES ASSUME Services!Init PROVE ServicesInv
  OBVIOUS
<1>1. SendingFits
  <2>1. /\ out = [pc |-> "idle", kind |-> "none", keyed |-> FALSE, tries |-> 0, calls |-> 0]
        /\ copies = 0 /\ known = FALSE
    BY DEF Services!Init
  <2>2. out \in Sendings /\ out.pc = "idle" /\ out.keyed = FALSE
    BY <2>1, ServicesConstants DEF Sendings
  <2> QED
    BY <2>1, <2>2, Zenon DEF SendingFits
<1>2. LoginFits /\ SocketFits
  BY DEF Services!Init, LoginFits, Logins, SocketFits
<1>3. HookFits
  <2>1. Services!NoOptions \in HookOptions /\ Services!NoPost \in HookPosts
    BY DEF Services!NoOptions, Services!NoPost, HookOptions, HookPosts
  <2>2. /\ hook = [pc |-> "idle", options |-> Services!NoOptions, post |-> Services!NoPost,
                   posts |-> 0, status |-> 0]
        /\ handled = 0 /\ acked = FALSE
    BY DEF Services!Init
  <2>3. hook \in Hooks /\ hook.pc = "idle" /\ hook.posts = 0 /\ hook.status = 0
    BY <2>1, <2>2, ServicesConstants DEF Hooks
  <2>4. /\ handled \in Nat /\ ~(handled > 0) /\ hook.status # 401
        /\ acked \in BOOLEAN /\ ~acked
    <3>1. handled = 0 /\ acked = FALSE
      BY <2>2
    <3>2. handled \in Nat /\ ~(handled > 0)
      BY <3>1
    <3>3. acked \in BOOLEAN /\ ~acked
      BY <3>1, Zenon
    <3> QED
      BY <2>3, <3>2, <3>3
  <2>5. ~(hook.posts > 0) /\ hook.pc # "handling"
    BY <2>3
  <2> QED
    BY <2>2, <2>3, <2>4, <2>5, Zenon DEF HookFits
<1> QED
  BY <1>1, <1>2, <1>3 DEF ServicesInv

LEMMA ServicesStay == ASSUME ServicesInv, UNCHANGED providers PROVE ServicesInv'
  BY DEF providers, ServicesInv, SendingFits, LoginFits, HookFits, SocketFits

LEMMA SendingStep == ASSUME SendingFits, Services!OutboundNext PROVE SendingFits'
<1>1. ASSUME NEW kind \in {"whatsapp", "sms", "email"}, NEW keyed \in BOOLEAN,
             Services!Send(kind, keyed)
      PROVE  SendingFits'
  <2> DEFINE asked == keyed /\ kind = "whatsapp"
  <2>1. PICK pc \in {"trying", "failed"} :
          out' = [pc |-> pc, kind |-> kind, keyed |-> asked, tries |-> 0,
                  calls |-> out.calls + 1]
    BY <1>1 DEF Services!Send
  <2>2. /\ UNCHANGED <<copies, known>> /\ out.calls < MaxCalls
        /\ out.calls > 0 => out.keyed = asked
    BY <1>1 DEF Services!Send
  <2>3. asked \in BOOLEAN
    OBVIOUS
  <2> HIDE DEF asked
  <2>4. out' \in Sendings /\ out'.keyed = asked /\ out'.pc = pc /\ out'.calls = out.calls + 1
    BY <2>1, <2>2, <2>3, ServicesConstants DEF SendingFits, Sendings
  <2>5. out.calls \in Nat
    BY DEF SendingFits, Sendings
  <2> QED
    BY <2>2, <2>4, <2>5 DEF SendingFits
<1>2. ASSUME Services!Attempt PROVE SendingFits'
  <2>1. PICK reply \in Services!Replies :
          /\ IF reply.acted /\ ~(out.keyed /\ known)
             THEN copies' = copies + 1 /\ known' = (known \/ out.keyed)
             ELSE UNCHANGED <<copies, known>>
          /\ out' = IF reply.status = "ok" THEN [out EXCEPT !.pc = "sent"]
                    ELSE IF \/ reply.status = "refused" \/ Services!LastTry(out.tries)
                            \/ out.kind = "email"
                    THEN [out EXCEPT !.pc = "failed"]
                    ELSE [out EXCEPT !.tries = @ + 1]
    BY <1>2 DEF Services!Attempt
  <2>2. reply.status = "ok" => reply.acted
    BY DEF Services!Replies
  <2>3. /\ out' \in Sendings /\ out'.keyed = out.keyed /\ out'.calls = out.calls
        /\ out'.pc = "sent" => reply.status = "ok"
    BY <1>2, <2>1 DEF SendingFits, Sendings, Services!Attempt
  <2>4. out.calls # 0 /\ out.keyed \in BOOLEAN
    BY <1>2 DEF SendingFits, Sendings, Services!Attempt
  <2>5. CASE reply.acted /\ ~(out.keyed /\ known)
    <3>1. copies' = copies + 1 /\ known' = (known \/ out.keyed)
      BY <2>1, <2>5
    <3> QED
      BY <2>3, <2>4, <2>5, <3>1 DEF SendingFits
  <2>6. CASE ~(reply.acted /\ ~(out.keyed /\ known))
    <3>1. UNCHANGED <<copies, known>>
      BY <2>1, <2>6
    <3> QED
      BY <2>2, <2>3, <2>4, <2>6, <3>1 DEF SendingFits
  <2> QED
    BY <2>5, <2>6
<1> QED
  BY <1>1, <1>2 DEF Services!OutboundNext

LEMMA LoginStep == ASSUME LoginFits, Services!OAuthNext PROVE LoginFits'
<1>1. ASSUME NEW pc \in {"code", "tokens"}, login' = Services!Again(pc)
      PROVE  login' \in Logins /\ login'.access = login.access /\ login'.user = login.user
  BY <1>1 DEF Services!Again, Services!Login, LoginFits, Logins
<1>2. CASE Services!ExchangeCode
  BY <1>1, <1>2 DEF Services!ExchangeCode, Services!Login, LoginFits, Logins
<1>3. ASSUME NEW endpoint \in BOOLEAN, Services!FetchUser(endpoint) PROVE LoginFits'
  BY <1>1, <1>3 DEF Services!FetchUser, Services!Login, LoginFits, Logins
<1> QED
  BY <1>2, <1>3 DEF Services!OAuthNext

LEMMA HookStep == ASSUME HookFits, Services!InboundNext PROVE HookFits'
<1>1. CASE Services!Handled
  <2>1. hook.posts # 0
    BY <1>1 DEF Services!Handled, HookFits
  <2>2. PICK status \in {200, 500} :
          /\ hook' = Services!Answered(status)
          /\ \/ handled' = handled + 1 /\ acked' = TRUE
             \/ UNCHANGED <<handled, acked>>
    BY <1>1 DEF Services!Handled
  <2>3. hook \in Hooks /\ handled \in Nat /\ acked \in BOOLEAN
    BY DEF HookFits
  <2>4. /\ hook' \in Hooks /\ hook'.options = hook.options /\ hook'.post = hook.post
        /\ hook'.posts = hook.posts /\ hook'.pc = "idle" /\ hook'.status # 401
    BY <2>2, <2>3 DEF Services!Answered, Hooks
  <2>5. Services!Passes(hook.options, hook.post)
    BY <1>1 DEF Services!Handled, HookFits
  <2>6. handled' \in Nat /\ acked' \in BOOLEAN /\ (acked' => handled' >= 1)
    <3>1. CASE handled' = handled + 1 /\ acked' = TRUE
      <4>1. handled' \in Nat /\ handled' >= 1
        BY <2>3, <3>1
      <4> QED
        BY <3>1, <4>1, Zenon
    <3>2. CASE UNCHANGED <<handled, acked>>
      BY <2>3, <3>2, Zenon DEF HookFits
    <3> QED
      BY <2>2, <3>1, <3>2, Zenon
  <2>7. Services!Passes(hook'.options, hook'.post)
    BY <2>4, <2>5
  <2>8. hook'.posts # 0 /\ (hook'.posts > 0 => hook'.options.route # "none")
    BY <2>1, <2>4 DEF HookFits
  <2> QED
    BY <2>4, <2>6, <2>7, <2>8, Zenon DEF HookFits
<1>2. ASSUME NEW options \in HookOptions, options.route # "none", NEW post \in HookPosts,
             Services!Post(options, post)
      PROVE  HookFits'
  <2>1. /\ hook'.options = options /\ hook'.post = post /\ hook'.posts = hook.posts + 1
        /\ hook'.status \in {0, 401, 422} /\ hook'.pc \in {"idle", "handling"}
        /\ hook'.pc = "handling" => Services!Passes(options, post)
        /\ hook'.status = 401 => ~Services!Passes(options, post)
        /\ hook' = [pc |-> hook'.pc, options |-> options, post |-> post,
                    posts |-> hook.posts + 1, status |-> hook'.status]
    BY <1>2 DEF Services!Post
  <2>2. /\ UNCHANGED <<handled, acked>> /\ hook.posts \in Nat /\ hook.posts + 1 \in 0 .. MaxPosts
        /\ hook.posts > 0 => options = hook.options /\ post = hook.post
    BY <1>2, ServicesConstants DEF Services!Post, HookFits, Hooks
  <2>3. hook' \in Hooks
    BY <2>1, <2>2 DEF Hooks
  <2>4. handled > 0 => Services!Passes(options, post)
    BY <2>2 DEF HookFits
  <2> QED
    BY <1>2, <2>1, <2>2, <2>3, <2>4 DEF HookFits
<1>3. ASSUME ~Services!Handled
      PROVE  \E options \in HookOptions, post \in HookPosts :
               options.route # "none" /\ Services!Post(options, post)
  <2>1. PICK route \in {"whatsapp", "twilio", "signed"}, key \in BOOLEAN,
             tampered \in BOOLEAN, empty_ \in BOOLEAN, valid \in BOOLEAN, secret_ \in BOOLEAN,
             publicUrl \in BOOLEAN, proxied \in BOOLEAN, parsed_ \in BOOLEAN :
          Services!Post([route |-> route, secret |-> secret_, publicUrl |-> publicUrl,
                         proxied |-> proxied, parsed |-> parsed_],
                        [key |-> key, tampered |-> tampered, empty |-> empty_, valid |-> valid])
    BY <1>3, Zenon DEF Services!InboundNext
  <2>2. /\ [route |-> route, secret |-> secret_, publicUrl |-> publicUrl, proxied |-> proxied,
            parsed |-> parsed_] \in HookOptions
        /\ [key |-> key, tampered |-> tampered, empty |-> empty_, valid |-> valid] \in HookPosts
    BY DEF HookOptions, HookPosts
  <2> QED
    BY <2>1, <2>2
<1> QED
  BY <1>1, <1>2, <1>3

LEMMA SocketStep == ASSUME SocketFits, Services!SocketNext PROVE SocketFits'
  BY DEF SocketFits, Services!SocketNext, Services!Opened, Services!Frame, Services!Unsubscribe,
     Services!Dropped

LEMMA ServicesStep == ASSUME ServicesInv, ProvidersNext PROVE ServicesInv'
<1> USE DEF ServicesInv
<1>1. CASE Services!OutboundNext
  BY <1>1, SendingStep DEF Services!OutboundNext, Services!Send, Services!Attempt,
     Services!oauth, Services!inbound, LoginFits, HookFits, SocketFits
<1>2. CASE Services!OAuthNext
  BY <1>2, LoginStep DEF Services!OAuthNext, Services!ExchangeCode, Services!FetchUser,
     Services!outbound, Services!inbound, SendingFits, HookFits, SocketFits
<1>3. CASE Services!InboundNext
  <2>1. UNCHANGED <<Services!outbound, Services!oauth, socket>>
    <3>1. CASE Services!Handled
      BY <3>1 DEF Services!Handled
    <3>2. ASSUME NEW options, NEW post, Services!Post(options, post)
          PROVE  UNCHANGED <<Services!outbound, Services!oauth, socket>>
      BY <3>2 DEF Services!Post
    <3> QED
      BY <1>3, <3>1, <3>2, Zenon DEF Services!InboundNext
  <2> QED
    BY <1>3, <2>1, HookStep DEF SendingFits, LoginFits, SocketFits, Services!outbound,
       Services!oauth
<1>4. CASE Services!SocketNext
  BY <1>4, SocketStep DEF Services!SocketNext, Services!Opened, Services!Frame,
     Services!Unsubscribe, Services!Dropped, Services!outbound, Services!oauth,
     Services!inbound, SendingFits, LoginFits, HookFits
<1> QED
  BY <1>1, <1>2, <1>3, <1>4 DEF ProvidersNext

LEMMA ServicesAreTrue ==
  ServicesInv => /\ Services!TypeOK /\ Services!MessagesArriveOnce
                 /\ Services!IdentityIsEarned /\ Services!HooksHearTheirSender
<1> SUFFICES ASSUME ServicesInv
             PROVE  /\ Services!TypeOK /\ Services!MessagesArriveOnce
                    /\ Services!IdentityIsEarned /\ Services!HooksHearTheirSender
  OBVIOUS
<1>1. Services!TypeOK
  BY DEF ServicesInv, SendingFits, LoginFits, HookFits, SocketFits, Sendings, Logins, Hooks,
     Services!TypeOK
<1>2. Services!MessagesArriveOnce /\ Services!IdentityIsEarned
  BY DEF ServicesInv, SendingFits, LoginFits, Sendings, Services!MessagesArriveOnce,
     Services!IdentityIsEarned
<1>3. Services!HooksHearTheirSender
  <2>1. /\ hook.posts \in Nat /\ hook.options \in HookOptions /\ hook.post \in HookPosts
    BY DEF ServicesInv, HookFits, Hooks
  <2>2. hook.posts > 0 => hook.options.route \in {"whatsapp", "twilio", "signed"}
    BY <2>1 DEF ServicesInv, HookFits, HookOptions
  <2>3. handled > 0 \/ hook.status = 401 => hook.posts > 0
    BY <2>1 DEF ServicesInv, HookFits
  <2>4. handled > 0 => Services!Passes(hook.options, hook.post)
    BY DEF ServicesInv, HookFits
  <2>5. hook.status = 401 => ~Services!Passes(hook.options, hook.post)
    BY DEF ServicesInv, HookFits
  <2>6. acked => handled >= 1
    BY DEF ServicesInv, HookFits
  <2> QED
    BY <2>2, <2>3, <2>4, <2>5, <2>6 DEF Services!HooksHearTheirSender, Services!Passes,
       Services!KeyMatches, Services!TwilioSigned, Services!UrlIsPublic, Services!BodySigned
<1> QED
  BY <1>1, <1>2, <1>3
=============================================================================
