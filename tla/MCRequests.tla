------------------------------ MODULE MCRequests ------------------------------
(***************************************************************************)
(* What stands between a request and its effect, for TLC: the idempotency  *)
(* middleware over requests that may share a key and overlap, the rate     *)
(* limiter over both of its stores, the attempt throttle, the sessions of  *)
(* one user in Redis, and the password, tokens and MFA of one account.     *)
(* They share no state, so a behaviour exercises the one `part` names and  *)
(* the others rest in their initial state: the state space is the union.   *)
(***************************************************************************)
EXTENDS Integers, TLC

CONSTANTS
  None,
  MaxFaults,
  Requests, Keys,  \* Idempotency
  Hits, MaxRequests, Window, Second, MaxDelay, MaxTime,  \* RateLimit and Throttle
  MaxHits,         \* Throttle
  Calls,           \* calls on the sessions, requests to the account
  Ids,             \* Sessions
  Passwords, ResetTokens, ActivationTokens, Secrets  \* Accounts

VARIABLES
  part,
  \* Idempotency
  key, pc, reply, replayed, store, early, effects, repeats, faults,
  \* RateLimit
  now, bucket, callPc, nowMs, decidedAt, remaining, promised, evalFaults,
  \* Throttle
  clock, at, attempts, status, allowed, hits,
  \* Sessions
  keys, index, outlived, made, call, revoked, sessionFaults,
  \* Accounts
  password, active, secret, enabled, tokens, expired, op, stage, arg, new, before, old,
  issued, held, applied, confirmed, tangled, accountFaults

idempotency == <<key, pc, reply, replayed, store, early, effects, repeats, faults>>
rate == <<now, bucket, callPc, nowMs, decidedAt, remaining, promised, evalFaults>>
throttle == <<clock, at, attempts, status, allowed, hits>>
sessions == <<keys, index, outlived, made, call, revoked, sessionFaults>>
account == <<password, active, secret, enabled, tokens, expired, op, stage, arg, new,
             before, old, issued, held, applied, confirmed, tangled, accountFaults>>
vars == <<part, idempotency, rate, throttle, sessions, account>>

Keyed == INSTANCE Idempotency

\* the limiter in memory; in Redis, where the script of a call runs a while after the
\* call; and in Redis, where it runs at once and its failure lets the call through
Limiters == {"memory", "redis", "redis_open"}

Limiter(kind) == INSTANCE RateLimit WITH
  Calls <- Hits, Store <- IF kind = "memory" THEN "memory" ELSE "redis",
  FailOpen <- kind # "redis", MaxDelay <- IF kind = "redis" THEN MaxDelay ELSE 0,
  MaxFaults <- IF kind = "memory" THEN 0 ELSE MaxFaults,
  pc <- callPc, faults <- evalFaults

Throttled == INSTANCE Throttle WITH
  MaxAttempts <- MaxRequests, now <- clock, store <- attempts

Store == INSTANCE Sessions WITH expired <- outlived, faults <- sessionFaults

User == INSTANCE Accounts WITH pc <- stage, faults <- accountFaults

ASSUME RequestsAssumption ==
  /\ Keyed!IdempotencyAssumption
  /\ \A kind \in Limiters : Limiter(kind)!RateLimitAssumption
  /\ Throttled!ThrottleAssumption
  /\ User!AccountsAssumption /\ Store!SessionsAssumption

Symmetry == Permutations(Calls) \cup Permutations(Ids)

Init ==
  /\ part \in {"keyed", "throttle", "sessions", "links", "codes"} \cup Limiters
  /\ Keyed!Init /\ Limiter("memory")!Init /\ Throttled!Init /\ Store!Init /\ User!Init
  /\ part # "codes" => secret = None
  /\ part \notin {"links", "codes"} => active /\ password = CHOOSE p \in Passwords : TRUE

Admission == <<idempotency, rate, throttle>>

KeyedNext == part = "keyed" /\ Keyed!Next /\ UNCHANGED <<rate, throttle>>
LimiterNext ==
  /\ \E kind \in Limiters : part = kind /\ Limiter(kind)!Next
  /\ UNCHANGED <<idempotency, throttle>>
ThrottleNext == part = "throttle" /\ Throttled!Next /\ UNCHANGED <<idempotency, rate>>

SessionsNext == part = "sessions" /\ Store!Next /\ UNCHANGED account

\* resets and activations, over an account without MFA
LinksNext ==
  /\ part = "links" /\ User!Next /\ UNCHANGED sessions
  /\ \A c \in Calls : op'[c] \notin User!MfaOps

\* enrollments and logins, over an account for which no token is saved
CodesNext == part = "codes" /\ User!Next /\ tokens' = {} /\ UNCHANGED sessions

Next ==
  /\ UNCHANGED part
  /\ \/ /\ UNCHANGED <<sessions, account>>
        /\ KeyedNext \/ LimiterNext \/ ThrottleNext
     \/ UNCHANGED Admission /\ (SessionsNext \/ LinksNext \/ CodesNext)

Spec == Init /\ [][Next]_vars

-----------------------------------------------------------------------------

\* "instead of a duplicate side effect": a key's handler succeeds once, plus once per
\* lost or expired entry, but for requests that look the key up before an earlier one
\* with it is stored, which is a while after it was answered: of those each may repeat
\* the effect.  And whatever overlaps, a replay is a 2xx of a request with the very
\* same key: neither an error nor another endpoint's response comes out of the store.
NoDuplicateEffect ==
  part = "keyed" => Keyed!TypeOK /\ Keyed!NoDuplicateEffect /\ Keyed!ReplayIsGenuine

\* No window holds more admitted calls than the limit, wherever it begins, and in
\* Redis whatever the order in which the replicas' scripts run; and of the attempts
\* a throttle counts, refused ones among them or not, no window since the last
\* reset holds more allowed ones than "allowed within the window".
WindowBound ==
  /\ \A kind \in Limiters :
       part = kind => Limiter(kind)!TypeOK /\ Limiter(kind)!WindowBound
  /\ part = "throttle" => Throttled!TypeOK /\ Throttled!BudgetHolds

\* "Seconds to wait before retrying": nobody whose clock is read at or after the time
\* the last rejection promised is rejected, unless another call was admitted meanwhile;
\* in memory, where a call of exactly one window ago still counts, nobody after it.
RetryAfterSuffices ==
  [][\A q \in Hits :
       part \in Limiters /\ callPc[q] = "called" /\ callPc'[q] = "rejected"
                        /\ promised # -1
         => nowMs[q] < promised \/ (part = "memory" /\ nowMs[q] = promised)]_vars

\* What was taken back stays so: a session that a returned logout had to revoke is
\* never resolved again, and the password a returned reset replaced does not come
\* back into force (Sessions, Accounts).
RevokedStaysRevoked == Store!RevokedIsGone /\ User!ReplacedStaysReplaced

\* A token that is gone has had its effect: Accounts.
SpentHadEffect == User!SpentHadEffect

\* MFA is on only with a secret that was confirmed: Accounts.
EnabledWasConfirmed == User!EnabledWasConfirmed

\* The documented form of it, overlapping calls included: Accounts.
PendingUntilConfirmed == User!PendingUntilConfirmed
=============================================================================
