------------------------------ MODULE MCPlatform ------------------------------
(***************************************************************************)
(* What the rest of an application stands on, for TLC: the tenants' table  *)
(* (this module extends Tenants), the HTTP server's chain, the log files,  *)
(* the read-through cache, broadcasts and polled updates, the AsyncAPI     *)
(* registry, downloads, paths and links, the calls to and from other       *)
(* services, signing in with tokens, answers of yes or no, and the Redis   *)
(* broker of event streams over several replicas, whose calls wait for     *)
(* each other (orderly) or not.  They share nothing, so a behaviour        *)
(* exercises the one `part` names; the variables of the others are Off.    *)
(***************************************************************************)
EXTENDS Tenants, Integers, Sequences

CONSTANTS
  Callers, Null, Ttl, MaxRun, MaxWrites, MaxTime,  \* Cache
  Replicas, Streams, Home,                         \* RedisSse
  MaxMessages,  \* RedisSse with calls in turn
  MaxHurried,   \* the same bound for calls that overlap
  MaxFaults,    \* RedisSse with calls that overlap
  \* HttpServer
  HttpInputs, BodyIsLimited, BodyLimit, JsonLimit, Exempt, Bounds, Durations, MaxServed,
  LogKinds, Threshold, LogSource, PageSize, MaxLogs, MaxOpens,         \* Logs
  Recipients, Concurrency, Loops, Silent, MaxUpdate,                   \* Messaging
  AsyncChannels, AsyncMessages, AsyncOperations,                       \* AsyncApi
  MaxSize, MaxAsk, PathNames, MaxPath, MaxPages,                       \* Transfers
  MaxRetries, MaxCalls, MaxPosts, MaxFrames,                           \* Providers
  \* SignIn
  SignInCalls, Users, AddressNames, Roles, AccessTtl, RefreshTtl, Latency, MaxSeconds,
  MaxIssued, MaxRowChanges,
  \* Verdicts
  Numbers, Secrets, CodeStep, CodeWindow, MaxDrift, MaxCodeTime, Backends, DefaultEnabled,
  MaxFlagChanges

VARIABLES
  part,
  \* HttpServer
  input, at, arrived, parsed, failure, response, open, traced, ran, served, totals, histogram,
  \* Logs
  logged, handles, pending, files, reader,
  \* Cache
  now, source, writes, since, store, call, deleting, lag,
  \* Messaging
  cursor, runner, results, sends, api, loop, delivered, ends,
  \* AsyncApi
  channels, messages, operations, document,
  \* Transfers
  ask, path, pages, page, seen,
  \* Providers
  out, copies, known, login, code, hook, handled, acked, socket,
  \* SignIn
  time, accounts, pairs, signing, answer, lost, paired, changes,
  \* Verdicts
  number, verdict, secret, stored, seconds, drift, shown, accepted, opinions, asking,
  guard, possible, changed,
  \* RedisSse
  current, sets, object, joined, joining, cmds, wire, subscribed, listeners, got, due,
  published, faults

http == <<input, at, arrived, parsed, failure, response, open, traced, ran, served, totals,
          histogram>>
logs == <<logged, handles, pending, files, reader>>
cache == <<now, source, writes, since, store, call, deleting, lag>>
messaging == <<cursor, runner, results, sends, api, loop, delivered, ends>>
asyncapi == <<channels, messages, operations, document>>
transfers == <<ask, path, pages, page, seen>>
providers == <<out, copies, known, login, code, hook, handled, acked, socket>>
signin == <<time, accounts, pairs, signing, answer, lost, paired, changes>>
verdicts == <<number, verdict, secret, stored, seconds, drift, shown, accepted, opinions,
              asking, guard, possible, changed>>
redis == <<current, sets, object, joined, joining, cmds, wire, subscribed, listeners, got,
           due, published, faults>>

others == <<http, logs, cache, messaging, asyncapi, transfers, providers, signin, verdicts,
            redis>>

Off == "off"

-----------------------------------------------------------------------------
(* HttpServer: a probe, a preflight, a read that is turned away, the logs, *)
(* and a write in every state its body, its token and its handler can be.  *)

Plain(path_, method, origin, route) ==
  [path |-> path_, method |-> method, origin |-> origin, json |-> FALSE, size |-> 0,
   declared |-> FALSE, broken |-> FALSE, token |-> "missing", route |-> route]

Writes ==
  {[Plain("/orders", "POST", "none", route) EXCEPT
      !.json = json, !.size = size, !.declared = declared, !.broken = broken,
      !.token = token] :
     json \in BOOLEAN, size \in {2, 3}, declared \in BOOLEAN, broken \in BOOLEAN,
     token \in {"match", "missing"},
     route \in {"none", "answer", "answerThenThrow", "throw", "invalid", "crash"}}

MCHttpInputs ==
  {Plain("/health", "GET", "none", "none"), Plain("/orders", "OPTIONS", "listed", "answer"),
   Plain("/orders", "GET", "other", "tooMany"), Plain("/logs", "GET", "none", "answer")}
  \cup Writes

MCBounds == <<1, 2>>

Http == INSTANCE HttpServer WITH
  Inputs <- HttpInputs, Limited <- BodyIsLimited, MaxBytes <- BodyLimit

-----------------------------------------------------------------------------

MCLogKinds ==
  {[level |-> "info", marked |-> FALSE], [level |-> "error", marked |-> TRUE],
   [level |-> "debug", marked |-> FALSE]}

Records == INSTANCE Logs WITH Kinds <- LogKinds, Source <- LogSource

Cached == INSTANCE Cache

Messages_ == INSTANCE Messaging

MCChannels == [c1 |-> [headers |-> TRUE, query |-> FALSE],
               c2 |-> [headers |-> TRUE, query |-> TRUE]]

MCOperations ==
  [o1 |-> [channel |-> "c1", direction |-> "clientToServer", messages |-> {"m1"}],
   o2 |-> [channel |-> "c2", direction |-> "serverToClient", messages |-> {"m1", "m2"}],
   o3 |-> [channel |-> "c2", direction |-> "serverToClient", messages |-> {"m3"}]]

Async == INSTANCE AsyncApi WITH
  Channels <- AsyncChannels, Messages <- AsyncMessages, Operations <- AsyncOperations

Moves == INSTANCE Transfers WITH Names <- PathNames

Services == INSTANCE Providers

SignIn_ == INSTANCE SignIn WITH
  Calls <- SignInCalls, Names <- AddressNames, MaxTime <- MaxSeconds,
  MaxChanges <- MaxRowChanges, now <- time, rows <- accounts, tokens <- pairs, calls <- signing,
  issued <- paired

-----------------------------------------------------------------------------
(* Verdicts: numbers of both kinds with two digits that are not 0 or one   *)
(* digit over and over; secrets shorter and longer than 32 bits.           *)

MCNumbers ==
  {[i \in 1 .. n |-> CASE i = j -> x [] i = 6 -> 5 [] OTHER -> 0] :
     n \in {9, 12}, j \in {1, 2, 4, 5, 9}, x \in {0, 1, 4, 9}}
  \cup {[i \in 1 .. 9 |-> 7]}

Bytes == {<<1, 0, 0, 0, 0, 0, 1, 1>>, <<0, 1, 1, 1, 1, 1, 1, 1>>}
MCSecrets ==
  {[i \in 1 .. n |-> IF i < j THEN x ELSE y] :
     n \in {1, 4, 6, 10}, j \in {1, 3}, x \in Bytes, y \in Bytes}

Judges == INSTANCE Verdicts WITH
  Step <- CodeStep, Window <- CodeWindow, MaxTime <- MaxCodeTime, Default <- DefaultEnabled,
  MaxChanges <- MaxFlagChanges, document <- number, now <- seconds, response <- guard

-----------------------------------------------------------------------------

\* For TLC: all streams but one at one replica.
MCHome == [s \in Streams |-> IF s = "s3" THEN "r2" ELSE "r1"]

\* RedisSse: the calls of a replica wait for each other, and no command fails; or
\* they overlap as they like.
RedisParts == {"orderly", "anyhow"}

Redis(kind) == INSTANCE RedisSse WITH
  Orderly <- kind = "orderly", MaxFaults <- IF kind = "orderly" THEN 0 ELSE MaxFaults,
  MaxMessages <- IF kind = "orderly" THEN MaxMessages ELSE MaxHurried,
  members <- joined, pc <- joining

-----------------------------------------------------------------------------

ASSUME PlatformAssumption ==
  /\ TenantsAssumption /\ Http!HttpServerAssumption /\ Records!LogsAssumption
  /\ Cached!CacheAssumption /\ Messages_!MessagingAssumption
  /\ Async!AsyncApiAssumption /\ Moves!TransfersAssumption
  /\ Services!ProvidersAssumption /\ SignIn_!SignInAssumption
  /\ Judges!VerdictsAssumption
  /\ \A kind \in RedisParts : Redis(kind)!RedisSseAssumption

HttpOff ==
  /\ input = Off /\ at = Off /\ arrived = Off /\ parsed = Off /\ failure = Off
  /\ response = Off /\ open = Off /\ traced = Off /\ ran = Off /\ served = Off
  /\ totals = Off /\ histogram = Off
LogsOff == logged = Off /\ handles = Off /\ pending = Off /\ files = Off /\ reader = Off
CacheOff ==
  /\ now = Off /\ source = Off /\ writes = Off /\ since = Off /\ store = Off /\ call = Off
  /\ deleting = Off /\ lag = Off
MessagingOff ==
  /\ cursor = Off /\ runner = Off /\ results = Off /\ sends = Off /\ api = Off
  /\ loop = Off /\ delivered = Off /\ ends = Off
AsyncOff == channels = Off /\ messages = Off /\ operations = Off /\ document = Off
MovesOff == ask = Off /\ path = Off /\ pages = Off /\ page = Off /\ seen = Off
ProvidersOff ==
  /\ out = Off /\ copies = Off /\ known = Off /\ login = Off /\ code = Off
  /\ hook = Off /\ handled = Off /\ acked = Off /\ socket = Off
SignInOff ==
  /\ time = Off /\ accounts = Off /\ pairs = Off /\ signing = Off /\ answer = Off
  /\ lost = Off /\ paired = Off /\ changes = Off
VerdictsOff ==
  /\ number = Off /\ verdict = Off /\ secret = Off /\ stored = Off /\ seconds = Off
  /\ drift = Off /\ shown = Off /\ accepted = Off /\ opinions = Off /\ asking = Off
  /\ guard = Off /\ possible = Off /\ changed = Off
RedisOff ==
  /\ current = Off /\ sets = Off /\ object = Off /\ joined = Off /\ joining = Off
  /\ cmds = Off /\ wire = Off /\ subscribed = Off /\ listeners = Off /\ got = Off
  /\ due = Off /\ published = Off /\ faults = Off

ProvidersParts == {"outbound", "oauth", "inbound", "socket"}
VerdictsParts == {"documents", "codes", "flags"}

\* what a part is not about does not matter to it
VerdictsInit ==
  /\ Judges!Init
  /\ part # "codes" => drift = 0
  /\ part # "flags" => opinions = <<"none", "none">>

MCInit ==
  /\ part \in {"tenants", "http", "logs", "cache", "broadcast", "telegram",
               "asyncapi", "transfers", "signin"}
              \cup ProvidersParts \cup VerdictsParts \cup RedisParts
  /\ IF part = "tenants" THEN Init
     ELSE rows = [i \in Ids |-> Absent] /\ last = [by |-> Absent, found |-> {}]
  /\ IF part = "http" THEN Http!Init ELSE HttpOff
  /\ IF part = "logs" THEN Records!Init ELSE LogsOff
  /\ IF part = "cache" THEN Cached!Init ELSE CacheOff
  /\ IF part \in {"broadcast", "telegram"} THEN Messages_!Init ELSE MessagingOff
  /\ IF part = "asyncapi" THEN Async!Init ELSE AsyncOff
  /\ IF part = "transfers" THEN Moves!Init ELSE MovesOff
  /\ IF part \in ProvidersParts THEN Services!Init ELSE ProvidersOff
  /\ IF part = "signin" THEN SignIn_!Init ELSE SignInOff
  /\ IF part \in VerdictsParts THEN VerdictsInit ELSE VerdictsOff
  /\ IF part \in RedisParts THEN Redis(part)!Init ELSE RedisOff

TenantsNext == part = "tenants" /\ Next /\ UNCHANGED others
HttpNext ==
  /\ part = "http" /\ Http!Next
  /\ UNCHANGED <<vars, logs, cache, messaging, asyncapi, transfers, providers, signin, verdicts,
                 redis>>
LogsNext ==
  /\ part = "logs" /\ Records!Next
  /\ UNCHANGED <<vars, http, cache, messaging, asyncapi, transfers, providers, signin, verdicts,
                 redis>>
CacheNext ==
  /\ part = "cache" /\ Cached!Next
  /\ UNCHANGED <<vars, http, logs, messaging, asyncapi, transfers, providers, signin, verdicts,
                 redis>>
MessagingNext ==
  /\ \/ part = "broadcast" /\ Messages_!BroadcastNext
     \/ part = "telegram" /\ Messages_!TelegramNext
  /\ UNCHANGED <<vars, http, logs, cache, asyncapi, transfers, providers, signin, verdicts,
                 redis>>
AsyncNext ==
  /\ part = "asyncapi" /\ Async!Next
  /\ UNCHANGED <<vars, http, logs, cache, messaging, transfers, providers, signin, verdicts,
                 redis>>
MovesNext ==
  /\ part = "transfers" /\ Moves!Follow
  /\ UNCHANGED <<vars, http, logs, cache, messaging, asyncapi, providers, signin, verdicts,
                 redis>>
ProvidersNext ==
  /\ \/ part = "outbound" /\ Services!OutboundNext
     \/ part = "oauth" /\ Services!OAuthNext
     \/ part = "inbound" /\ Services!InboundNext
     \/ part = "socket" /\ Services!SocketNext
  /\ UNCHANGED <<vars, http, logs, cache, messaging, asyncapi, transfers, signin, verdicts,
                 redis>>
SignInNext ==
  /\ part = "signin" /\ SignIn_!Next
  /\ UNCHANGED <<vars, http, logs, cache, messaging, asyncapi, transfers, providers, verdicts,
                 redis>>
VerdictsNext ==
  /\ \/ part = "documents" /\ Judges!DocumentsNext
     \/ part = "codes" /\ Judges!CodesNext
     \/ part = "flags" /\ Judges!FlagsNext
  /\ UNCHANGED <<vars, http, logs, cache, messaging, asyncapi, transfers, providers, signin,
                 redis>>

RedisNext ==
  /\ \E kind \in RedisParts : part = kind /\ Redis(kind)!Next
  /\ UNCHANGED <<vars, http, logs, cache, messaging, asyncapi, transfers, providers, signin,
                 verdicts>>

MCNext ==
  /\ UNCHANGED part
  /\ \/ TenantsNext \/ HttpNext \/ LogsNext \/ CacheNext \/ MessagingNext \/ AsyncNext
     \/ MovesNext \/ ProvidersNext \/ SignInNext \/ VerdictsNext \/ RedisNext

MCSpec == MCInit /\ [][MCNext]_<<part, vars, others>>

-----------------------------------------------------------------------------

\* Whatever arrives, however its body is cut and whichever middleware or handler
\* fails, every exchange ends with one answer in the SDK's envelope, no handler ran
\* past a limit or the token check, and the metrics agree (HttpServer).  A door opens
\* to nobody who had lost the role or the account it asks for before the token he
\* shows can have been issued, and one address has one account (SignIn).  And a flag
\* guards a route as it stood at some moment since the request came (Verdicts).
ServerAnswers ==
  /\ part = "http" => /\ Http!TypeOK /\ Http!FailuresAreEnveloped
                      /\ Http!HandlerIsGuarded /\ Http!MetricsAddUp
  /\ part = "signin" => SignIn_!TypeOK /\ SignIn_!RightsEnd /\ SignIn_!OneAccountEach
  /\ part = "flags" => Judges!FlagsTypeOK /\ Judges!FlagIsOfItsTime

\* What is computed from a number, a secret or a path is what the rule says: check
\* digits, one-time codes (Verdicts), and the file a path resolves to (Transfers).
ComputedByTheRule ==
  /\ part \in {"documents", "codes"} =>
       /\ Judges!TypeOK /\ Judges!DigitsAreChecked /\ Judges!CodesAreCurrent
  /\ part = "transfers" => Moves!PathsStayUnderTheRoot

\* What the cache gives is as old as its time to live and one run of the function at
\* most, and after an invalidation only a run that crossed it can have put the old
\* value back (Cache).
CacheIsFresh ==
  part = "cache" => Cached!TypeOK /\ Cached!StaleEntryCrossed /\ Cached!StalenessIsBounded

\* Nothing goes astray on its way: a broadcast reaches each recipient once, Telegram
\* forgets only updates that were handled (Messaging), a document refers to nothing
\* it does not hold (AsyncApi), a download is the bytes asked for, and the links of a
\* list lead through it (Transfers); a message under a key arrives once, an identity
\* is the one a code was issued for, and a webhook is answered when a genuine post
\* has been handled (Providers); the log files hold each record where it belongs, once
\* per handle that was attached when it was logged, and whoever turns their pages
\* meets every record that was there when he began (Logs).
NothingGoesAstray ==
  /\ part \in {"broadcast", "telegram"} =>
       Messages_!TypeOK /\ Messages_!BroadcastReachesAll /\ Messages_!UpdatesAreHandled
  /\ part = "asyncapi" => Async!TypeOK /\ Async!DocumentIsClosed
  /\ part = "transfers" => Moves!TypeOK /\ Moves!DownloadsAreExact /\ Moves!LinksLeadThrough
  /\ part \in ProvidersParts =>
       /\ Services!TypeOK /\ Services!MessagesArriveOnce
       /\ Services!IdentityIsEarned /\ Services!HooksHearTheirSender
  /\ part = "logs" => Records!TypeOK /\ Records!NoRecordIsSkipped /\ Records!FilesAreComplete

\* "a publish on any node reaches SSE clients on all nodes": with calls that wait
\* for each other, an event published while a stream is registered is on the stream
\* or on its way to it, and an idle replica is subscribed exactly while it has
\* streams, and then once ("unsubscribe from Redis when the last leaves").
NothingMissed ==
  part = "orderly" =>
    /\ Redis("orderly")!TypeOK /\ Redis("orderly")!NothingMissed
    /\ Redis("orderly")!SubscribedIffServing

\* However calls overlap or fail, every stream sees each event at most once, and in
\* turn in the order of publication.
InOrderOnce == \A kind \in RedisParts : part = kind => Redis(kind)!InOrderOnce
=============================================================================
