--------------------------- MODULE RequestsProofs ---------------------------
(***************************************************************************)
(* What stands between a request and its effect, for any number of         *)
(* requests, keys, hits, sessions, calls, passwords, tokens and secrets:   *)
(* the idempotency middleware, the rate limiter, the attempt throttle, the *)
(* sessions of one user, and one account.                                  *)
(***************************************************************************)
EXTENDS MCRequests, FiniteSetTheorems, WellFoundedInduction, TLAPS

-----------------------------------------------------------------------------
(* Idempotency: a replay is genuine *)

\* A stored response is a 2xx of a request with the key it is stored under.
StoreIsGenuine ==
  \A k \in Keys :
    store[k] # None =>
      /\ store[k].ok /\ pc[store[k].by] # "idle" /\ key[store[k].by] = k

\* What a request has got is its own response, or one of a request with its key; and
\* what it is about to store is its own, a 2xx.
RepliesAreGenuine ==
  /\ \A r \in Requests : pc[r] # "idle" => key[r] \in Keys
  /\ \A r \in Requests : pc[r] = "storing" =>
       reply[r] \in Keyed!Response /\ reply[r].ok /\ reply[r].by = r
  /\ \A r \in replayed :
       /\ pc[r] = "done"
       /\ reply[r] \in Keyed!Response /\ reply[r].ok
       /\ pc[reply[r].by] # "idle" /\ key[reply[r].by] = key[r]

ReplayInv == Keyed!TypeOK /\ StoreIsGenuine /\ RepliesAreGenuine

\* A captured response is one, with the status and the run of the original.
LEMMA CapturedResponse ==
  ASSUME NEW r \in Keyed!Response
  PROVE  /\ Keyed!Captured(r) \in Keyed!Response
         /\ Keyed!Captured(r).ok = r.ok /\ Keyed!Captured(r).by = r.by
  BY DEF Keyed!Response, Keyed!Captured, Keyed!Bodies

\* A fresh response is one.
LEMMA FreshResponse ==
  ASSUME NEW r \in Requests, NEW ok \in BOOLEAN, NEW headers \in BOOLEAN,
         NEW body \in Keyed!Bodies
  PROVE  [by |-> r, ok |-> ok, headers |-> headers, body |-> body] \in Keyed!Response
  BY DEF Keyed!Response, Keyed!Bodies

\* A step of the middleware keeps replays genuine.
LEMMA ReplayStep ==
  ASSUME ReplayInv, [Keyed!Next]_idempotency PROVE ReplayInv'
<1> USE RequestsAssumption DEF Keyed!IdempotencyAssumption, Keyed!Goto, Keyed!Fault,
      Keyed!Phase, Keyed!history
<1>1. ASSUME NEW r \in Requests, NEW k \in Keys, Keyed!Send(r, k) PROVE ReplayInv'
  <2>1. Keyed!TypeOK'
    BY <1>1 DEF Keyed!Send, ReplayInv, Keyed!TypeOK
  <2>2. \A q \in Requests : q # r => pc'[q] = pc[q] /\ key'[q] = key[q]
    BY <1>1 DEF Keyed!Send, ReplayInv, Keyed!TypeOK
  <2>3. pc[r] = "idle" /\ pc'[r] = "looking" /\ key'[r] = k
    BY <1>1 DEF Keyed!Send, ReplayInv, Keyed!TypeOK
  <2>4. UNCHANGED <<reply, replayed, store>>
    BY <1>1 DEF Keyed!Send
  <2>5. \A x \in Keyed!Response : x.by \in Requests
    BY DEF Keyed!Response
  <2>6. StoreIsGenuine'
    BY <2>2, <2>3, <2>4, <2>5 DEF StoreIsGenuine, ReplayInv, Keyed!TypeOK
  <2>7. RepliesAreGenuine'
    BY <2>2, <2>3, <2>4, <2>5 DEF RepliesAreGenuine, ReplayInv, Keyed!TypeOK
  <2> QED
    BY <2>1, <2>6, <2>7 DEF ReplayInv
<1>2. ASSUME NEW r \in Requests, Keyed!Hit(r) PROVE ReplayInv'
  <2>1. key[r] \in Keys /\ store[key[r]] \in Keyed!Response
    BY <1>2 DEF Keyed!Hit, ReplayInv, RepliesAreGenuine, Keyed!TypeOK
  <2>2. Keyed!TypeOK'
    BY <1>2, <2>1 DEF Keyed!Hit, ReplayInv, Keyed!TypeOK
  <2>3. StoreIsGenuine'
    BY <1>2 DEF Keyed!Hit, ReplayInv, StoreIsGenuine, Keyed!TypeOK
  <2>4. RepliesAreGenuine'
    BY <1>2, <2>1 DEF Keyed!Hit, ReplayInv, RepliesAreGenuine, StoreIsGenuine,
       Keyed!TypeOK
  <2> QED
    BY <2>2, <2>3, <2>4 DEF ReplayInv
<1>3. ASSUME NEW r \in Requests, Keyed!Miss(r) \/ Keyed!LookupFails(r) PROVE ReplayInv'
  <2>1. /\ pc[r] = "looking" /\ pc'[r] \in {"handling", "done"} /\ faults' \in Nat
        /\ pc' \in [Requests -> Keyed!Phase]
        /\ \A q \in Requests : q # r => pc'[q] = pc[q]
        /\ early' \subseteq Requests
        /\ UNCHANGED <<key, reply, replayed, store, effects, repeats>>
    BY <1>3 DEF Keyed!Miss, Keyed!LookupFails, ReplayInv, Keyed!TypeOK
  <2>2. \A x \in Keyed!Response : x.by \in Requests
    BY DEF Keyed!Response
  <2>3. Keyed!TypeOK'
    BY <2>1 DEF ReplayInv, Keyed!TypeOK
  <2>4. StoreIsGenuine'
    BY <2>1, <2>2 DEF ReplayInv, StoreIsGenuine, Keyed!TypeOK
  <2>5. RepliesAreGenuine'
    BY <2>1, <2>2 DEF ReplayInv, RepliesAreGenuine, Keyed!TypeOK
  <2> QED
    BY <2>3, <2>4, <2>5 DEF ReplayInv
<1>4. ASSUME NEW r \in Requests, NEW ok \in BOOLEAN, NEW headers \in BOOLEAN,
             NEW body \in Keyed!Bodies, Keyed!Handle(r, ok, headers, body)
      PROVE  ReplayInv'
  <2> DEFINE response == [by |-> r, ok |-> ok, headers |-> headers, body |-> body]
  <2>1. response \in Keyed!Response /\ response.by = r /\ response.ok = ok
    BY FreshResponse
  <2>2. /\ reply' = [reply EXCEPT ![r] = response]
        /\ pc' = [pc EXCEPT ![r] = IF ok THEN "storing" ELSE "done"]
        /\ Keyed!Count(r, ok)
        /\ UNCHANGED <<key, replayed, store, early, faults>>
        /\ pc[r] = "handling"
    BY <1>4 DEF Keyed!Handle
  <2> HIDE DEF response
  <2>3. Keyed!TypeOK'
    BY <2>1, <2>2 DEF ReplayInv, RepliesAreGenuine, Keyed!TypeOK, Keyed!Count
  <2>4. StoreIsGenuine'
    BY <2>1, <2>2 DEF ReplayInv, StoreIsGenuine, Keyed!TypeOK
  <2>5. \A q \in Requests : q # r => pc'[q] = pc[q] /\ reply'[q] = reply[q]
    BY <2>2 DEF ReplayInv, Keyed!TypeOK
  <2>6. pc'[r] # "idle" /\ reply'[r] = response /\ (pc'[r] = "storing" => ok)
    BY <2>2 DEF ReplayInv, Keyed!TypeOK
  <2>7. r \notin replayed
    BY <2>2 DEF ReplayInv, RepliesAreGenuine
  <2>8. \A x \in Keyed!Response : x.by \in Requests
    BY DEF Keyed!Response
  <2>9. RepliesAreGenuine'
    BY <2>1, <2>2, <2>5, <2>6, <2>7, <2>8 DEF ReplayInv, RepliesAreGenuine, Keyed!TypeOK
  <2> QED
    BY <2>3, <2>4, <2>9 DEF ReplayInv
<1>5. ASSUME NEW r \in Requests, Keyed!Store(r) PROVE ReplayInv'
  <2> DEFINE stored == Keyed!Captured(reply[r])
  <2>1. stored \in Keyed!Response /\ stored.ok /\ stored.by = r /\ key[r] \in Keys
    BY <1>5, CapturedResponse DEF Keyed!Store, ReplayInv, RepliesAreGenuine
  <2>2. /\ store' = [store EXCEPT ![key[r]] = stored]
        /\ pc[r] = "storing" /\ pc' = [pc EXCEPT ![r] = "done"]
        /\ UNCHANGED <<key, reply, replayed, early, effects, repeats, faults>>
    BY <1>5 DEF Keyed!Store
  <2> HIDE DEF stored
  <2>3. Keyed!TypeOK'
    BY <2>1, <2>2 DEF ReplayInv, Keyed!TypeOK
  <2>4. StoreIsGenuine'
    BY <2>1, <2>2 DEF ReplayInv, StoreIsGenuine, Keyed!TypeOK
  <2>5. RepliesAreGenuine'
    BY <2>1, <2>2 DEF ReplayInv, RepliesAreGenuine, Keyed!TypeOK
  <2> QED
    BY <2>3, <2>4, <2>5 DEF ReplayInv
<1>6. ASSUME NEW r \in Requests, Keyed!StoreFails(r) PROVE ReplayInv'
  BY <1>6 DEF Keyed!StoreFails, ReplayInv, StoreIsGenuine, RepliesAreGenuine,
     Keyed!TypeOK
<1>7. ASSUME NEW k \in Keys, Keyed!Expire(k) PROVE ReplayInv'
  BY <1>7 DEF Keyed!Expire, ReplayInv, StoreIsGenuine, RepliesAreGenuine, Keyed!TypeOK
<1>8. CASE UNCHANGED idempotency
  BY <1>8 DEF idempotency, ReplayInv, StoreIsGenuine, RepliesAreGenuine, Keyed!TypeOK
<1> QED
  BY <1>1, <1>2, <1>3, <1>4, <1>5, <1>6, <1>7, <1>8
  DEF Keyed!Next, Keyed!RequestStep, Keyed!HandleSome

\* Nothing has been sent: there is no reply to be genuine.
LEMMA ReplayInit ==
  ASSUME Keyed!Init PROVE ReplayInv
  BY RequestsAssumption DEF Keyed!IdempotencyAssumption, Keyed!Init, ReplayInv,
     Keyed!TypeOK, Keyed!Phase, StoreIsGenuine, RepliesAreGenuine

-----------------------------------------------------------------------------
(* Idempotency: no duplicate effect but by early requests *)

\* the handler runs, or the response waits to be stored, of a request that was not early
Prompt(r, phase) == pc[r] = phase /\ r \notin early

\* the successes that no early request is to blame for
Owed(k) == effects[k] - repeats[k]

\* One request of a key that was not early is at work at a time; while its handler runs,
\* as whenever the key has no stored response and none of such a request is about to be
\* stored, each success that no early request is to blame for was paid for with a fault.
OnceInv ==
  /\ \A q, r \in Requests :
       /\ pc[q] \in {"handling", "storing"} /\ q \notin early
       /\ pc[r] \in {"handling", "storing"} /\ r \notin early
       /\ key[q] = key[r]
       => q = r
  /\ \A r \in Requests : Prompt(r, "handling") => Owed(key[r]) <= faults
  /\ \A k \in Keys : Owed(k) <= faults + 1
  /\ \A k \in Keys :
       store[k] = None /\ (\A r \in Requests : Prompt(r, "storing") => key[r] # k)
         => Owed(k) <= faults

LEMMA OnceInit ==
  ASSUME Keyed!Init PROVE ReplayInv /\ OnceInv
<1>1. OnceInv
  BY DEF Keyed!Init, OnceInv, Prompt, Owed
<1> QED
  BY <1>1, ReplayInit

\* A step of the middleware keeps the count of effects.
LEMMA OnceStep ==
  ASSUME ReplayInv, OnceInv, [Keyed!Next]_idempotency PROVE OnceInv'
<1> USE RequestsAssumption DEF Keyed!IdempotencyAssumption, Keyed!Goto, Keyed!Fault,
      Keyed!Phase, Prompt, Owed
<1>0. /\ Keyed!TypeOK
      /\ \A r \in Requests : pc[r] # "idle" => key[r] \in Keys
  BY DEF ReplayInv, RepliesAreGenuine
<1>1. ASSUME NEW r \in Requests, NEW k \in Keys, Keyed!Send(r, k) PROVE OnceInv'
  <2>1. /\ pc[r] = "idle" /\ pc'[r] = "looking"
        /\ \A q \in Requests : q # r => pc'[q] = pc[q] /\ key'[q] = key[q]
        /\ UNCHANGED <<store, early, effects, repeats, faults>>
    BY <1>0, <1>1 DEF Keyed!Send, Keyed!TypeOK, Keyed!history
  <2> QED
    BY <1>0, <2>1 DEF OnceInv, Keyed!TypeOK
<1>2. ASSUME NEW r \in Requests, Keyed!Hit(r) \/ Keyed!LookupFails(r) PROVE OnceInv'
  <2>1. /\ pc[r] = "looking" /\ pc'[r] = "done"
        /\ \A q \in Requests : q # r => pc'[q] = pc[q]
        /\ faults' \in Nat /\ faults' >= faults
        /\ UNCHANGED <<key, store, early, effects, repeats>>
    BY <1>0, <1>2 DEF Keyed!Hit, Keyed!LookupFails, Keyed!TypeOK, Keyed!history
  <2> QED
    BY <1>0, <2>1 DEF OnceInv, Keyed!TypeOK
<1>3. ASSUME NEW r \in Requests, Keyed!Miss(r) PROVE OnceInv'
  <2> DEFINE others == {q \in Requests : pc[q] \in {"handling", "storing"}
                                           /\ key[q] = key[r]}
  <2>1. /\ pc[r] = "looking" /\ pc'[r] = "handling" /\ store[key[r]] = None
        /\ \A q \in Requests : q # r => pc'[q] = pc[q]
        /\ early' = IF others = {} THEN early ELSE early \cup {r}
        /\ UNCHANGED <<key, store, effects, repeats, faults>>
    BY <1>0, <1>3 DEF Keyed!Miss, Keyed!Unfinished, Keyed!TypeOK
  <2>2. CASE others = {}
    <3>1. \A q \in Requests : key[q] = key[r] => pc[q] \notin {"handling", "storing"}
      BY <2>2
    <3>2. Owed(key[r]) <= faults
      BY <1>0, <2>1, <3>1 DEF OnceInv, Keyed!TypeOK
    <3> HIDE DEF others
    <3> QED
      BY <1>0, <2>1, <2>2, <3>1, <3>2 DEF OnceInv, Keyed!TypeOK
  <2>3. CASE others # {}
    <3> HIDE DEF others
    <3> QED
      BY <1>0, <2>1, <2>3 DEF OnceInv, Keyed!TypeOK
  <2> QED
    BY <2>2, <2>3
<1>4. ASSUME NEW r \in Requests, NEW ok \in BOOLEAN, NEW headers \in BOOLEAN,
             NEW body \in Keyed!Bodies, Keyed!Handle(r, ok, headers, body)
      PROVE  OnceInv'
  <2>1. /\ pc[r] = "handling" /\ pc'[r] = (IF ok THEN "storing" ELSE "done")
        /\ \A q \in Requests : q # r => pc'[q] = pc[q]
        /\ UNCHANGED <<key, store, early, faults>>
    BY <1>0, <1>4 DEF Keyed!Handle, Keyed!TypeOK
  <2>2. /\ key[r] \in Keys
        /\ \A k \in Keys : effects[k] \in Nat /\ repeats[k] \in Nat /\ faults \in Nat
    BY <1>0, <2>1 DEF Keyed!TypeOK
  <2>3. CASE ok /\ r \notin early
    <3>1. /\ Owed(key[r])' = Owed(key[r]) + 1
          /\ \A k \in Keys : k # key[r] => Owed(k)' = Owed(k)
      BY <1>0, <1>4, <2>2, <2>3 DEF Keyed!Handle, Keyed!Count, Keyed!TypeOK
    <3>2. Owed(key[r]) <= faults
      BY <2>1, <2>3 DEF OnceInv
    <3>3. \A q \in Requests : q # r /\ key[q] = key[r] =>
            pc[q] \notin {"handling", "storing"} \/ q \in early
      BY <2>1, <2>3 DEF OnceInv
    <3> HIDE DEF Owed
    <3>4. \A k \in Keys : Owed(k) \in Int
      BY <2>2 DEF Owed
    <3> QED
      BY <1>0, <2>1, <2>2, <2>3, <3>1, <3>2, <3>3, <3>4 DEF OnceInv, Keyed!TypeOK
  <2>4. CASE ~(ok /\ r \notin early)
    <3>1. \A k \in Keys : Owed(k)' = Owed(k)
      BY <1>0, <1>4, <2>2, <2>4 DEF Keyed!Handle, Keyed!Count, Keyed!TypeOK
    <3> HIDE DEF Owed
    <3> QED
      BY <1>0, <2>1, <2>2, <2>4, <3>1 DEF OnceInv, Keyed!TypeOK
  <2> QED
    BY <2>3, <2>4
<1>5. ASSUME NEW r \in Requests, Keyed!Store(r) PROVE OnceInv'
  <2>1. Keyed!Captured(reply[r]) # None
    <3>1. reply[r] \in Keyed!Response
      BY <1>5 DEF Keyed!Store, ReplayInv, RepliesAreGenuine
    <3> QED
      BY <3>1, CapturedResponse DEF Keyed!IdempotencyAssumption
  <2>2. /\ pc[r] = "storing" /\ pc'[r] = "done"
        /\ \A q \in Requests : q # r => pc'[q] = pc[q]
        /\ \A k \in Keys : k # key[r] => store'[k] = store[k]
        /\ store'[key[r]] # None
        /\ UNCHANGED <<key, early, effects, repeats, faults>>
    BY <1>0, <1>5, <2>1 DEF Keyed!Store, Keyed!TypeOK, Keyed!history
  <2> QED
    BY <1>0, <2>2 DEF OnceInv, Keyed!TypeOK
<1>6. ASSUME NEW r \in Requests, Keyed!StoreFails(r) PROVE OnceInv'
  BY <1>0, <1>6 DEF Keyed!StoreFails, OnceInv, Keyed!TypeOK, Keyed!history
<1>7. ASSUME NEW k \in Keys, Keyed!Expire(k) PROVE OnceInv'
  BY <1>0, <1>7 DEF Keyed!Expire, OnceInv, Keyed!TypeOK, Keyed!history
<1>8. CASE UNCHANGED idempotency
  BY <1>8 DEF idempotency, OnceInv
<1> QED
  BY <1>1, <1>2, <1>3, <1>4, <1>5, <1>6, <1>7, <1>8
  DEF Keyed!Next, Keyed!RequestStep, Keyed!HandleSome

-----------------------------------------------------------------------------
(* What the limiters compute with *)

\* A set of naturals has a least element.
LEMMA LeastExists ==
  ASSUME NEW S \in SUBSET Nat, S # {}
  PROVE  \E x \in S : \A y \in S : x <= y
<1> DEFINE R == OpToRel(<, Nat)
<1>1. IsWellFoundedOn(R, Nat)
  BY NatLessThanWellFounded
<1>2. \A x, y \in Nat : <<x, y>> \in R <=> x < y
  BY DEF OpToRel
<1> HIDE DEF R
<1>3. PICK x \in S : \A y \in S : ~ (<<y, x>> \in R)
  BY <1>1, WFMin
<1>4. \A y \in S : x <= y
  <2> SUFFICES ASSUME NEW y \in S PROVE x <= y
    OBVIOUS
  <2>1. ~ (y < x)
    BY <1>2, <1>3
  <2> QED
    BY <2>1
<1> QED
  BY <1>4

LEMMA DivisionBounds ==
  ASSUME NEW n \in Nat, NEW s \in Nat \ {0}
  PROVE  /\ n \div s \in Nat /\ s * (n \div s) <= n /\ n < s * (n \div s) + s
  BY SMT

\* Seconds rounded up cover the ticks, and are no more than the ticks.
LEMMA RoundedUp ==
  ASSUME NEW n \in Nat, NEW s \in Nat \ {0}
  PROVE  (n + s - 1) \div s \in 0..n /\ s * ((n + s - 1) \div s) >= n
<1> DEFINE q == (n + s - 1) \div s
<1>1. q \in Nat /\ s * q <= n + s - 1 /\ n + s - 1 < s * q + s
  BY DivisionBounds
<1> HIDE DEF q
<1>2. ASSUME q >= n + 1 PROVE FALSE
  <2>1. s * q >= s * (n + 1)
    BY <1>1, <1>2, SMT
  <2>2. s * (n + 1) = s * n + s /\ s * n >= n
    BY SMT
  <2> QED
    BY <1>1, <2>1, <2>2, SMT
<1>3. q <= n /\ s * q >= n
  BY <1>1, <1>2, SMT
<1> QED
  BY <1>1, <1>3 DEF q

-----------------------------------------------------------------------------
(* Rate limiting *)

\* How long a script may take, and which of the calls' decisions are recent.
Lag(kind) == IF kind = "redis" THEN MaxDelay ELSE 0

Recent(kind) ==
  {q \in Hits : callPc[q] = "admitted" /\ decidedAt[q] > now - Limiter(kind)!Span}

\* Clocks are read before the script, and at most its delay before.
ClocksAreClose(kind) ==
  \A q \in Hits :
    /\ callPc[q] = "called" => nowMs[q] <= now /\ now <= nowMs[q] + Lag(kind)
    /\ callPc[q] = "admitted" =>
         /\ nowMs[q] <= decidedAt[q] /\ decidedAt[q] <= nowMs[q] + Lag(kind)
         /\ decidedAt[q] <= now

\* The bucket holds admitted calls, finitely many, and every recent one; and one of
\* them is what the last rejection told its caller to wait for.
BucketInv(kind) ==
  /\ IsFiniteSet(bucket)
  /\ \A q \in bucket : callPc[q] = "admitted"
  /\ Recent(kind) \subseteq bucket
  /\ promised # -1 => \E q \in bucket : nowMs[q] + Window <= promised

RateInv(kind) ==
  /\ Limiter(kind)!TypeOK
  /\ ClocksAreClose(kind)
  /\ BucketInv(kind)
  /\ Limiter(kind)!WindowBound

\* The constants of each limiter.
LEMMA LimiterConstants ==
  ASSUME NEW kind \in Limiters
  PROVE  /\ MaxRequests \in Nat \ {0} /\ Window \in Nat \ {0} /\ Second \in Nat \ {0}
         /\ Lag(kind) \in Nat /\ Lag(kind) < Window /\ MaxTime \in Nat
         /\ kind = "memory" => Lag(kind) = 0
<1>1. Limiter(kind)!RateLimitAssumption
  BY RequestsAssumption
<1> QED
  BY <1>1 DEF Limiter!RateLimitAssumption, Lag

\* Every limiter counts the same.
LEMMA SameCount ==
  ASSUME NEW kind \in Limiters, NEW S
  PROVE  Limiter(kind)!Cardinality(S) = Cardinality(S)
  BY DEF Limiter!Cardinality, Cardinality

\* The calls admitted in the window that ends with t.
AdmittedIn(kind, t) ==
  {q \in Hits : /\ callPc[q] = "admitted"
                /\ decidedAt[q] \in (t - Limiter(kind)!Span + 1)..t}

\* A bucket that holds what is recent, and no more than the limit, bounds every window.
LEMMA WindowFollows ==
  ASSUME NEW kind \in Limiters, Limiter(kind)!TypeOK, Limiter(kind)!TypeOK',
         Limiter(kind)!WindowBound, BucketInv(kind)', now' \in {now, now + 1},
         \A q \in Hits : callPc'[q] = "admitted" =>
           \/ callPc[q] = "admitted" /\ decidedAt'[q] = decidedAt[q]
           \/ decidedAt'[q] = now /\ now' = now,
         \A q \in Hits : callPc[q] = "admitted" =>
           callPc'[q] = "admitted" /\ decidedAt'[q] = decidedAt[q]
  PROVE  Limiter(kind)!WindowBound'
<1>1. /\ Limiter(kind)!Span \in Int /\ now \in Nat /\ now' \in Nat /\ MaxRequests \in Nat
      /\ decidedAt \in [Hits -> Nat] /\ decidedAt' \in [Hits -> Nat]
  BY LimiterConstants DEF Limiter!Span, Lag, Limiter!TypeOK, Limiter!Times
<1>2. ASSUME NEW t \in Limiter(kind)!Times
      PROVE  Cardinality(AdmittedIn(kind, t)') <= MaxRequests
  <2>0. t \in Nat
    BY <1>2 DEF Limiter!Times
  <2>1. CASE t < now'
    <3>1. AdmittedIn(kind, t)' = AdmittedIn(kind, t)
      BY <1>1, <2>0, <2>1 DEF AdmittedIn
    <3> QED
      BY <3>1, SameCount DEF Limiter!WindowBound, AdmittedIn
  <2>2. CASE t >= now'
    <3>1. AdmittedIn(kind, t)' \subseteq Recent(kind)'
      BY <1>1, <2>0, <2>2 DEF Recent, AdmittedIn
    <3>2. IsFiniteSet(bucket') /\ AdmittedIn(kind, t)' \subseteq bucket'
      BY <3>1 DEF BucketInv
    <3>3. /\ Cardinality(AdmittedIn(kind, t)') <= Cardinality(bucket')
          /\ IsFiniteSet(AdmittedIn(kind, t)')
      BY <3>2, FS_Subset
    <3>4. Cardinality(AdmittedIn(kind, t)') \in Nat /\ Cardinality(bucket') \in Nat
      BY <3>2, <3>3, FS_CardinalityType
    <3>5. Cardinality(bucket') <= MaxRequests
      BY SameCount DEF Limiter!TypeOK
    <3> QED
      BY <1>1, <3>3, <3>4, <3>5
  <2> QED
    BY <1>1, <2>0, <2>1, <2>2
<1> QED
  BY <1>2, SameCount DEF Limiter!WindowBound, AdmittedIn, Limiter!Times

\* What survives is of the bucket, and was called within the window.
LEMMA LiveSurvives ==
  ASSUME NEW kind \in Limiters, RateInv(kind), NEW q \in Hits
  PROVE  LET live == Limiter(kind)!Live(q) IN
         /\ live \subseteq bucket /\ live \subseteq Hits
         /\ IsFiniteSet(live) /\ Cardinality(live) \in Nat
         /\ \A c \in bucket : nowMs[c] > nowMs[q] - Window => c \in live
         /\ \A c \in bucket : kind = "memory" /\ nowMs[c] >= nowMs[q] - Window => c \in live
         /\ \A c \in live : nowMs[c] >= nowMs[q] - Window
         /\ \A c \in live : kind # "memory" => nowMs[c] > nowMs[q] - Window
<1>1. nowMs \in [Hits -> Nat] /\ bucket \subseteq Hits /\ IsFiniteSet(bucket)
  BY DEF RateInv, BucketInv, Limiter!TypeOK, Limiter!Times
<1>2. Limiter(kind)!Live(q) \subseteq bucket
  BY DEF Limiter!Live
<1>3. IsFiniteSet(Limiter(kind)!Live(q)) /\ Cardinality(Limiter(kind)!Live(q)) \in Nat
  BY <1>1, <1>2, FS_Subset, FS_CardinalityType
<1> QED
  BY <1>1, <1>2, <1>3, LimiterConstants DEF Limiter!Live, Limiter!Survives

\* What a rejection promises is covered by a call that survives it.
LEMMA PromiseCovers ==
  ASSUME NEW kind \in Limiters, RateInv(kind), NEW q \in Hits, callPc[q] = "called",
         NEW live, live = Limiter(kind)!Live(q), live # {}
  PROVE  LET until == now + Second * Limiter(kind)!RetryAfter(live, nowMs[q]) IN
         until \in Nat /\ \E c \in live : nowMs[c] + Window <= until
<1>1. /\ nowMs \in [Hits -> Nat] /\ now \in Nat /\ nowMs[q] <= now /\ live \subseteq Hits
      /\ \A c \in live : nowMs[c] >= nowMs[q] - Window
  BY LiveSurvives DEF RateInv, ClocksAreClose, Limiter!TypeOK, Limiter!Times
<1>2. PICK c \in live : nowMs[c] = Limiter(kind)!Oldest(live)
  <2> DEFINE S == {nowMs[d] : d \in live}
  <2>1. S \in SUBSET Nat /\ S # {}
    BY <1>1
  <2>2. \E x \in S : \A y \in S : x <= y
    BY <2>1, LeastExists
  <2>3. Limiter(kind)!Oldest(live) \in S
    BY <2>2 DEF Limiter!Oldest, Limiter!Min
  <2> QED
    BY <2>3
<1> DEFINE n == nowMs[c] + Window - nowMs[q]
           secs == (n + Second - 1) \div Second
           after == Limiter(kind)!RetryAfter(live, nowMs[q])
<1>3. n \in Nat
  BY <1>1, LimiterConstants
<1>4. secs \in Nat /\ Second * secs >= n
  BY <1>3, RoundedUp, LimiterConstants
<1>5. after \in {1, secs} /\ after >= secs
  <2>1. \E x \in {1, secs} : \A y \in {1, secs} : x >= y
    BY <1>4
  <2>2. after = Limiter(kind)!Max({1, secs})
    BY <1>2 DEF Limiter!RetryAfter, Limiter!CeilSeconds
  <2> QED
    BY <2>1, <2>2 DEF Limiter!Max
<1> HIDE DEF secs, after
<1>6. after \in Nat /\ Second * after >= Second * secs /\ Second * after \in Nat
      /\ Second * secs \in Nat
  BY <1>4, <1>5, LimiterConstants
<1>7. nowMs[c] + Window <= now + Second * after /\ now + Second * after \in Nat
  BY <1>1, <1>3, <1>4, <1>6, LimiterConstants
<1> QED
  BY <1>7 DEF after

\* A recent call survives: it was called within the window of every clock read since.
LEMMA RecentSurvives ==
  ASSUME NEW kind \in Limiters, RateInv(kind), NEW q \in Hits, callPc[q] = "called",
         NEW c \in Recent(kind)
  PROVE  c \in Limiter(kind)!Live(q)
<1>1. c \in Hits /\ callPc[c] = "admitted" /\ decidedAt[c] > now - Limiter(kind)!Span
  BY DEF Recent
<1>2. c \in bucket /\ nowMs[c] <= decidedAt[c] /\ decidedAt[c] <= nowMs[c] + Lag(kind)
  BY <1>1 DEF RateInv, BucketInv, Recent, ClocksAreClose
<1>3. now \in Nat /\ nowMs \in [Hits -> Nat] /\ decidedAt \in [Hits -> Nat] /\ nowMs[q] <= now
  BY DEF RateInv, ClocksAreClose, Limiter!TypeOK, Limiter!Times
<1>4. CASE kind = "memory"
  <2>1. nowMs[c] >= nowMs[q] - Window
    BY <1>1, <1>2, <1>3, <1>4, LimiterConstants DEF Limiter!Span
  <2> QED
    BY <1>2, <1>4, <2>1, LiveSurvives
<1>5. CASE kind # "memory"
  <2>1. nowMs[c] > nowMs[q] - Window
    BY <1>1, <1>2, <1>3, <1>5, LimiterConstants DEF Limiter!Span, Lag
  <2> QED
    BY <1>2, <2>1, LiveSurvives
<1> QED
  BY <1>4, <1>5

\* An admitted call joins what survives: the recent ones are among them, since what
\* is recent now was called within the window of the clock it read.
LEMMA AdmitKeeps ==
  ASSUME NEW kind \in Limiters, RateInv(kind), NEW q \in Hits, Limiter(kind)!Admit(q)
  PROVE  RateInv(kind)'
<1> DEFINE live == Limiter(kind)!Live(q)
<1>1. /\ callPc[q] = "called" /\ Cardinality(live) < MaxRequests /\ bucket' = live \cup {q}
      /\ callPc' = [callPc EXCEPT ![q] = "admitted"]
      /\ remaining' = [remaining EXCEPT ![q] = MaxRequests - Cardinality(live) - 1]
      /\ decidedAt' = [decidedAt EXCEPT ![q] = now]
      /\ promised' = -1
      /\ UNCHANGED <<now, nowMs, evalFaults>>
  BY SameCount DEF Limiter!Admit
<1>2. /\ live \subseteq bucket /\ live \subseteq Hits
      /\ IsFiniteSet(live) /\ Cardinality(live) \in Nat
  BY LiveSurvives
<1> HIDE DEF live
<1>3. Cardinality(bucket') <= MaxRequests /\ IsFiniteSet(bucket')
  <2>1. Cardinality(live) + 1 <= MaxRequests
    BY <1>1, <1>2, LimiterConstants
  <2>2. /\ IsFiniteSet(live \cup {q})
        /\ Cardinality(live \cup {q}) \in {Cardinality(live), Cardinality(live) + 1}
    BY <1>2, FS_AddElement
  <2> QED
    BY <1>1, <1>2, <2>1, <2>2, LimiterConstants
<1>4. Limiter(kind)!TypeOK'
  BY <1>1, <1>2, <1>3, SameCount, LimiterConstants DEF RateInv, Limiter!TypeOK,
     Limiter!Times
<1>5. /\ now \in Nat /\ nowMs \in [Hits -> Nat] /\ decidedAt \in [Hits -> Nat]
      /\ nowMs[q] <= now /\ now <= nowMs[q] + Lag(kind)
  BY <1>1 DEF RateInv, ClocksAreClose, Limiter!TypeOK, Limiter!Times
<1>6. ClocksAreClose(kind)'
  BY <1>1, <1>5 DEF RateInv, ClocksAreClose, Limiter!TypeOK
<1>7. Recent(kind)' \subseteq bucket'
  <2>1. Recent(kind)' \subseteq Recent(kind) \cup {q}
    BY <1>1 DEF Recent, RateInv, Limiter!TypeOK
  <2> QED
    BY <1>1, <2>1, RecentSurvives DEF live
<1>8. BucketInv(kind)'
  BY <1>1, <1>2, <1>3, <1>7 DEF RateInv, BucketInv, Limiter!TypeOK
<1>9. Limiter(kind)!WindowBound'
  BY <1>1, <1>4, <1>8, WindowFollows DEF RateInv, Limiter!TypeOK
<1> QED
  BY <1>4, <1>6, <1>8, <1>9 DEF RateInv

\* A rejected call prunes the bucket, and what it promises is covered by what is left.
LEMMA RejectKeeps ==
  ASSUME NEW kind \in Limiters, RateInv(kind), NEW q \in Hits, Limiter(kind)!Reject(q)
  PROVE  RateInv(kind)'
<1> DEFINE live == Limiter(kind)!Live(q)
           until == now + Second * Limiter(kind)!RetryAfter(live, nowMs[q])
<1>1. /\ callPc[q] = "called" /\ Cardinality(live) >= MaxRequests /\ bucket' = live
      /\ callPc' = [callPc EXCEPT ![q] = "rejected"]
      /\ remaining' = [remaining EXCEPT ![q] = 0]
      /\ decidedAt' = [decidedAt EXCEPT ![q] = now]
      /\ promised' = until
      /\ UNCHANGED <<now, nowMs, evalFaults>>
  BY SameCount DEF Limiter!Reject
<1>2. /\ live \subseteq bucket /\ live \subseteq Hits
      /\ IsFiniteSet(live) /\ Cardinality(live) \in Nat
  BY LiveSurvives
<1>3. live # {}
  BY <1>1, <1>2, FS_EmptySet, LimiterConstants
<1>4. until \in Nat /\ \E c \in live : nowMs[c] + Window <= until
  BY <1>1, <1>3, PromiseCovers
<1> HIDE DEF live, until
<1>5. /\ now \in Nat /\ nowMs \in [Hits -> Nat] /\ decidedAt \in [Hits -> Nat]
      /\ nowMs[q] <= now /\ IsFiniteSet(bucket) /\ Cardinality(bucket) <= MaxRequests
  BY <1>1, SameCount DEF RateInv, ClocksAreClose, BucketInv, Limiter!TypeOK, Limiter!Times
<1>6. Cardinality(bucket') <= MaxRequests
  <2>1. Cardinality(live) <= Cardinality(bucket) /\ Cardinality(bucket) \in Nat
    BY <1>2, <1>5, FS_Subset, FS_CardinalityType
  <2> QED
    BY <1>1, <1>2, <1>5, <2>1, LimiterConstants
<1>7. Limiter(kind)!TypeOK'
  BY <1>1, <1>2, <1>4, <1>6, SameCount, LimiterConstants DEF RateInv, Limiter!TypeOK,
     Limiter!Times
<1>8. ClocksAreClose(kind)'
  BY <1>1, <1>5 DEF RateInv, ClocksAreClose, Limiter!TypeOK
<1>9. Recent(kind)' \subseteq bucket'
  <2>1. Recent(kind)' \subseteq Recent(kind)
    BY <1>1 DEF Recent, RateInv, Limiter!TypeOK
  <2> QED
    BY <1>1, <2>1, RecentSurvives DEF live
<1>10. BucketInv(kind)'
  BY <1>1, <1>2, <1>4, <1>9 DEF RateInv, BucketInv, Limiter!TypeOK
<1>11. Limiter(kind)!WindowBound'
  BY <1>1, <1>7, <1>10, WindowFollows DEF RateInv, Limiter!TypeOK
<1> QED
  BY <1>7, <1>8, <1>10, <1>11 DEF RateInv

\* The steps that leave the bucket alone.
LEMMA OtherRateStepKeeps ==
  ASSUME NEW kind \in Limiters, RateInv(kind),
         \/ Limiter(kind)!Tick
         \/ \E q \in Hits : Limiter(kind)!Call(q) \/ Limiter(kind)!EvalFails(q)
         \/ UNCHANGED rate
  PROVE  RateInv(kind)'
<1> USE LimiterConstants
<1>1. /\ now \in Nat /\ nowMs \in [Hits -> Nat] /\ decidedAt \in [Hits -> Nat]
      /\ Limiter(kind)!Span \in Int
  BY DEF RateInv, Limiter!TypeOK, Limiter!Times, Limiter!Span, Lag
<1>2. CASE Limiter(kind)!Tick
  <2>1. /\ \A q \in Hits : callPc[q] = "called" => now - nowMs[q] < Lag(kind)
        /\ now < MaxTime /\ now' = now + 1
        /\ UNCHANGED <<bucket, callPc, nowMs, decidedAt, remaining, promised, evalFaults>>
    BY <1>2 DEF Limiter!Tick, Lag
  <2>2. Limiter(kind)!TypeOK'
    BY <1>1, <2>1 DEF RateInv, Limiter!TypeOK, Limiter!Times, Limiter!Cardinality
  <2>3. ClocksAreClose(kind)'
    BY <1>1, <2>1 DEF RateInv, ClocksAreClose
  <2>4. BucketInv(kind)'
    BY <1>1, <2>1 DEF RateInv, BucketInv, Recent
  <2>5. Limiter(kind)!WindowBound'
    BY <2>1, <2>2, <2>4, WindowFollows DEF RateInv
  <2> QED
    BY <2>2, <2>3, <2>4, <2>5 DEF RateInv
<1>3. ASSUME NEW q \in Hits, Limiter(kind)!Call(q) PROVE RateInv(kind)'
  <2>1. /\ callPc[q] = "idle" /\ callPc' = [callPc EXCEPT ![q] = "called"]
        /\ nowMs' = [nowMs EXCEPT ![q] = now]
        /\ UNCHANGED <<now, bucket, decidedAt, remaining, promised, evalFaults>>
    BY <1>3 DEF Limiter!Call
  <2>2. Limiter(kind)!TypeOK'
    BY <1>1, <2>1 DEF RateInv, Limiter!TypeOK, Limiter!Times, Limiter!Cardinality
  <2>3. ClocksAreClose(kind)'
    BY <1>1, <2>1 DEF RateInv, ClocksAreClose, Limiter!TypeOK
  <2>4. BucketInv(kind)'
    BY <1>1, <2>1 DEF RateInv, BucketInv, Recent, Limiter!TypeOK
  <2>5. Limiter(kind)!WindowBound'
    BY <2>1, <2>2, <2>4, WindowFollows DEF RateInv, Limiter!TypeOK
  <2> QED
    BY <2>2, <2>3, <2>4, <2>5 DEF RateInv
<1>4. ASSUME NEW q \in Hits, Limiter(kind)!EvalFails(q) PROVE RateInv(kind)'
  <2>1. /\ callPc[q] = "called" /\ callPc'[q] \in {"open", "error"}
        /\ callPc' = [callPc EXCEPT ![q] = callPc'[q]]
        /\ remaining' \in [Hits -> 0..MaxRequests]
        /\ decidedAt' = [decidedAt EXCEPT ![q] = now]
        /\ evalFaults' = evalFaults + 1
        /\ evalFaults < (IF kind = "memory" THEN 0 ELSE MaxFaults)
        /\ UNCHANGED <<now, bucket, nowMs, promised>>
    BY <1>4 DEF Limiter!EvalFails, RateInv, Limiter!TypeOK
  <2>2. Limiter(kind)!TypeOK'
    <3> DEFINE most == IF kind = "memory" THEN 0 ELSE MaxFaults
    <3>1. most \in Nat
      BY <1>1, RequestsAssumption DEF Limiter!RateLimitAssumption
    <3>2. evalFaults \in 0..most
      BY DEF RateInv, Limiter!TypeOK
    <3>3. evalFaults' \in 0..most
      <4>1. evalFaults' = evalFaults + 1 /\ evalFaults < most
        BY <2>1
      <4> HIDE DEF most
      <4> QED
        BY <3>1, <3>2, <4>1
    <3>4. callPc' \in [Hits -> {"idle", "called", "admitted", "rejected", "open", "error"}]
      BY <2>1 DEF RateInv, Limiter!TypeOK
    <3>5. now \in Limiter(kind)!Times /\ decidedAt' \in [Hits -> Limiter(kind)!Times]
      BY <2>1 DEF RateInv, Limiter!TypeOK
    <3> QED
      BY <2>1, <3>3, <3>4, <3>5 DEF RateInv, Limiter!TypeOK, Limiter!Cardinality, Limiter!Times
  <2>3. ClocksAreClose(kind)'
    BY <1>1, <2>1 DEF RateInv, ClocksAreClose, Limiter!TypeOK
  <2>4. BucketInv(kind)'
    BY <1>1, <2>1 DEF RateInv, BucketInv, Recent, Limiter!TypeOK
  <2>5. Limiter(kind)!WindowBound'
    BY <2>1, <2>2, <2>4, WindowFollows DEF RateInv, Limiter!TypeOK
  <2> QED
    BY <2>2, <2>3, <2>4, <2>5 DEF RateInv
<1>5. CASE UNCHANGED rate
  <2>1. UNCHANGED <<now, bucket, callPc, nowMs, decidedAt, remaining, promised, evalFaults>>
    BY <1>5 DEF rate
  <2>2. Limiter(kind)!TypeOK'
    BY <2>1 DEF RateInv, Limiter!TypeOK, Limiter!Times, Limiter!Cardinality
  <2>3. ClocksAreClose(kind)' /\ BucketInv(kind)'
    BY <2>1 DEF RateInv, ClocksAreClose, BucketInv, Recent
  <2>4. Limiter(kind)!WindowBound'
    BY <2>1, <2>2, <2>3, WindowFollows DEF RateInv
  <2> QED
    BY <2>2, <2>3, <2>4 DEF RateInv
<1> QED
  BY <1>2, <1>3, <1>4, <1>5

LEMMA RateStep ==
  ASSUME NEW kind \in Limiters, RateInv(kind), [Limiter(kind)!Next]_rate
  PROVE  RateInv(kind)'
  BY AdmitKeeps, RejectKeeps, OtherRateStepKeeps DEF Limiter!Next

LEMMA RateInit ==
  ASSUME NEW kind \in Limiters, Limiter("memory")!Init PROVE RateInv(kind)
<1> USE LimiterConstants
<1>1. Limiter(kind)!TypeOK
  BY RequestsAssumption, SameCount, FS_EmptySet
  DEF Limiter!Init, Limiter!TypeOK, Limiter!Times, Limiter!RateLimitAssumption
<1>2. ClocksAreClose(kind) /\ BucketInv(kind)
  BY FS_EmptySet DEF Limiter!Init, ClocksAreClose, BucketInv, Recent
<1>3. Limiter(kind)!WindowBound
  <2>1. \A t : AdmittedIn(kind, t) = {}
    BY DEF Limiter!Init, AdmittedIn
  <2> QED
    BY <2>1, SameCount, FS_EmptySet DEF Limiter!WindowBound, AdmittedIn
<1> QED
  BY <1>1, <1>2, <1>3 DEF RateInv

-----------------------------------------------------------------------------
(* Attempt throttle *)

\* The allowed attempts of the window that ends with t.
AllowedIn(t) == {i \in allowed : at[i] \in (t - Window + 1)..t}

\* No attempt is of the future, and every allowed one of the current window is kept.
ThrottleInv ==
  /\ Throttled!TypeOK
  /\ \A i \in 1..hits : at[i] <= clock
  /\ \A i \in allowed : at[i] > clock - Window => i \in attempts
  /\ Throttled!BudgetHolds

LEMMA ThrottleConstants ==
  /\ MaxRequests \in Nat /\ Window \in Nat \ {0} /\ Second \in Nat \ {0}
  /\ MaxTime \in Nat /\ MaxHits \in Nat
  BY RequestsAssumption DEF Throttled!ThrottleAssumption

\* What is stored, and what is kept of it, are finitely many attempts.
LEMMA StoredFinite ==
  ASSUME NEW n \in Nat, NEW S \in SUBSET (1..n)
  PROVE  IsFiniteSet(S) /\ Cardinality(S) \in Nat
<1>1. IsFiniteSet(1..n)
  BY FS_Interval
<1>2. IsFiniteSet(S)
  BY <1>1, FS_Subset
<1> QED
  BY <1>2, FS_CardinalityType

\* The throttle counts as the limiters do.
LEMMA SameCountThrottled ==
  ASSUME NEW S PROVE Throttled!Cardinality(S) = Cardinality(S)
  BY DEF Throttled!Cardinality, Cardinality

\* What check and hit return of attempts of the current window is a status.
LEMMA StatusIsOne ==
  ASSUME ThrottleInv, NEW S \in SUBSET Throttled!Attempts, NEW verb \in {"check", "hit"},
         at' \in [Throttled!Attempts -> Throttled!Times],
         \A i \in S : at'[i] > clock - Window /\ at'[i] <= clock
  PROVE  /\ Throttled!StatusOf(verb, S) \in Throttled!Status
         /\ Throttled!StatusOf(verb, S).allowed = (Cardinality(S) <= MaxRequests)
<1> USE ThrottleConstants
<1> DEFINE ok == Cardinality(S) <= MaxRequests
           times == {at'[i] : i \in S}
           wait == Throttled!Min(times) + Window - clock
           left == Throttled!Max({0, MaxRequests - Cardinality(S)})
           after == IF ok THEN 0 ELSE (wait + Second - 1) \div Second
<1>1. Cardinality(S) \in Nat /\ clock \in Throttled!Times
  BY StoredFinite DEF Throttled!Attempts, ThrottleInv, Throttled!TypeOK
<1>2. left \in 0..MaxRequests
  <2>1. \E x \in {0, MaxRequests - Cardinality(S)} :
          \A y \in {0, MaxRequests - Cardinality(S)} : x >= y
    BY <1>1
  <2>2. left \in {0, MaxRequests - Cardinality(S)} /\ left >= 0
    BY <2>1 DEF Throttled!Max
  <2> QED
    BY <1>1, <2>2
<1>3. ~ok => wait \in 1..Window
  <2>1. SUFFICES ASSUME ~ok PROVE wait \in 1..Window
    OBVIOUS
  <2>2. S # {}
    BY <1>1, <2>1, FS_EmptySet
  <2>3. times \in SUBSET Nat /\ times # {}
    BY <2>2 DEF Throttled!Times
  <2>4. \E x \in times : \A y \in times : x <= y
    BY <2>3, LeastExists
  <2>5. Throttled!Min(times) \in times
    BY <2>4 DEF Throttled!Min
  <2>6. Throttled!Min(times) > clock - Window /\ Throttled!Min(times) <= clock
    BY <2>5
  <2> QED
    BY <1>1, <2>3, <2>5, <2>6 DEF Throttled!Times
<1>4. after \in 0..Window
  <2>1. CASE ok
    BY <2>1
  <2>2. CASE ~ok
    <3>1. (wait + Second - 1) \div Second \in 0..wait
      BY <1>3, <2>2, RoundedUp
    <3> QED
      BY <1>3, <2>2, <3>1
  <2> QED
    BY <2>1, <2>2
<1>5. Throttled!StatusOf(verb, S) =
        [op |-> verb, at |-> clock, allowed |-> ok, remaining |-> left, retryAfter |-> after]
  BY SameCountThrottled DEF Throttled!StatusOf
<1> HIDE DEF ok, times, wait, left, after
<1>6. ok \in BOOLEAN
  BY DEF ok
<1> QED
  BY <1>1, <1>2, <1>4, <1>5, <1>6 DEF Throttled!Status, ok

\* A check prunes, and what it prunes is of no current window.
LEMMA CheckKeeps ==
  ASSUME ThrottleInv, Throttled!Check PROVE ThrottleInv'
<1> USE ThrottleConstants
<1> DEFINE kept == Throttled!Kept(attempts)
<1>1. /\ UNCHANGED <<clock, at, allowed, hits>> /\ attempts' = kept
      /\ status' = Throttled!StatusOf("check", kept)
  BY DEF Throttled!Check
<1>2. kept = {i \in attempts : at[i] > clock - Window}
  BY DEF Throttled!Kept
<1>3. kept \subseteq Throttled!Attempts /\ kept \subseteq 1..hits
  <2>1. attempts \subseteq 1..hits /\ hits \in 0..MaxHits
    BY DEF ThrottleInv, Throttled!TypeOK
  <2>2. 1..hits \subseteq Throttled!Attempts
    BY <2>1 DEF Throttled!Attempts
  <2> QED
    BY <1>2, <2>1, <2>2
<1>4. at' \in [Throttled!Attempts -> Throttled!Times]
  BY <1>1 DEF ThrottleInv, Throttled!TypeOK
<1>5. \A i \in kept : at'[i] > clock - Window /\ at'[i] <= clock
  BY <1>1, <1>2, <1>3 DEF ThrottleInv
<1> HIDE DEF kept
<1>6. status' \in Throttled!Status
  BY <1>1, <1>3, <1>4, <1>5, StatusIsOne
<1>7. Throttled!TypeOK'
  BY <1>1, <1>3, <1>6 DEF ThrottleInv, Throttled!TypeOK
<1>8. Throttled!BudgetHolds'
  BY <1>1, SameCountThrottled DEF ThrottleInv, Throttled!BudgetHolds
<1> QED
  BY <1>1, <1>2, <1>7, <1>8 DEF ThrottleInv

\* A hit adds itself to what is kept, and is allowed if that is within the budget: of
\* every window that ends now or later, what is allowed is among what is kept.
LEMMA HitKeeps ==
  ASSUME ThrottleInv, Throttled!Hit PROVE ThrottleInv'
<1> USE ThrottleConstants
<1> DEFINE n == hits + 1
           stored == Throttled!Kept(attempts) \cup {n}
<1>1. /\ hits < MaxHits /\ hits' = n /\ clock' = clock
      /\ at' = [at EXCEPT ![n] = clock] /\ attempts' = stored
      /\ status' = Throttled!StatusOf("hit", stored)
      /\ allowed' = IF status'.allowed THEN allowed \cup {n} ELSE allowed
  BY DEF Throttled!Hit
<1>2. /\ hits \in Nat /\ n \in Throttled!Attempts /\ n \notin 1..hits
      /\ clock \in Nat /\ clock \in Throttled!Times
      /\ at \in [Throttled!Attempts -> Nat] /\ 1..n \subseteq Throttled!Attempts
      /\ attempts \subseteq 1..hits /\ allowed \subseteq 1..hits
      /\ 1..n = (1..hits) \cup {n}
  BY <1>1 DEF ThrottleInv, Throttled!TypeOK, Throttled!Attempts, Throttled!Times
<1>3. stored = {i \in attempts : at[i] > clock - Window} \cup {n}
  BY DEF Throttled!Kept
<1>4. /\ at' \in [Throttled!Attempts -> Throttled!Times]
      /\ at'[n] = clock /\ \A i \in 1..hits : at'[i] = at[i]
  BY <1>1, <1>2 DEF ThrottleInv, Throttled!TypeOK
<1> HIDE DEF n, stored
<1>5. stored \subseteq 1..n /\ stored \subseteq Throttled!Attempts
  BY <1>2, <1>3
<1>6. \A i \in stored : at'[i] > clock - Window /\ at'[i] <= clock
  BY <1>2, <1>3, <1>4 DEF ThrottleInv
<1>7. /\ status' \in Throttled!Status
      /\ status'.allowed = (Cardinality(stored) <= MaxRequests)
  BY <1>1, <1>4, <1>5, <1>6, StatusIsOne
<1>8. Throttled!TypeOK'
  <2>1. hits' \in 0..MaxHits
    BY <1>1, <1>2 DEF n
  <2>2. attempts' \subseteq 1..hits' /\ allowed' \subseteq 1..hits'
    BY <1>1, <1>2, <1>5
  <2> QED
    BY <1>1, <1>2, <1>4, <1>7, <2>1, <2>2 DEF Throttled!TypeOK
<1>9. \A i \in 1..hits' : at'[i] <= clock'
  BY <1>1, <1>2, <1>4 DEF ThrottleInv
<1>10. \A i \in allowed' : at'[i] > clock' - Window => i \in attempts'
  BY <1>1, <1>2, <1>3, <1>4 DEF ThrottleInv
<1>11. ASSUME NEW t \in Throttled!Times PROVE Cardinality(AllowedIn(t)') <= MaxRequests
  <2>0. t \in Nat
    BY DEF Throttled!Times
  <2>1. CASE ~ status'.allowed \/ t < clock
    <3>1. AllowedIn(t)' = AllowedIn(t)
      BY <1>1, <1>2, <1>4, <2>0, <2>1 DEF AllowedIn
    <3> QED
      BY <3>1, SameCountThrottled DEF ThrottleInv, Throttled!BudgetHolds, AllowedIn
  <2>2. CASE status'.allowed /\ t >= clock
    <3>1. allowed' \subseteq 1..n /\ \A i \in 1..n : at'[i] \in Nat
      BY <1>1, <1>2, <1>4
    <3>2. AllowedIn(t)' \subseteq stored
      BY <1>1, <1>2, <1>10, <2>0, <2>2, <3>1 DEF AllowedIn
    <3>3. IsFiniteSet(stored) /\ Cardinality(stored) \in Nat
      <4>1. n \in Nat /\ stored \in SUBSET (1..n)
        BY <1>2, <1>5 DEF n
      <4> QED
        BY <4>1, StoredFinite
    <3>4. /\ Cardinality(AllowedIn(t)') <= Cardinality(stored)
          /\ Cardinality(AllowedIn(t)') \in Nat
      BY <3>2, <3>3, FS_Subset, FS_CardinalityType
    <3> QED
      <4>1. Cardinality(stored) <= MaxRequests
        BY <1>7, <2>2, Zenon
      <4> QED
        BY <3>3, <3>4, <4>1
  <2> QED
    BY <1>2, <2>0, <2>1, <2>2
<1>12. Throttled!BudgetHolds'
  BY <1>11, SameCountThrottled DEF Throttled!BudgetHolds, AllowedIn, Throttled!Times
<1> QED
  BY <1>8, <1>9, <1>10, <1>12 DEF ThrottleInv

LEMMA ThrottleStep ==
  ASSUME ThrottleInv, [Throttled!Next]_throttle PROVE ThrottleInv'
<1> USE ThrottleConstants
<1>1. CASE Throttled!Reset
  <2>1. /\ attempts' = {} /\ allowed' = {} /\ UNCHANGED <<clock, at, hits>>
        /\ status' = [status EXCEPT !.op = "reset", !.at = clock]
    BY <1>1 DEF Throttled!Reset
  <2>2. status' \in Throttled!Status
    BY <2>1 DEF ThrottleInv, Throttled!TypeOK, Throttled!Status
  <2>3. Throttled!TypeOK'
    BY <2>1, <2>2 DEF ThrottleInv, Throttled!TypeOK
  <2>4. \A t : {i \in allowed' : at'[i] \in (t - Window + 1)..t} = {}
    BY <2>1
  <2>5. Throttled!BudgetHolds'
    <3>1. Throttled!Cardinality({}) <= MaxRequests
      BY SameCountThrottled, FS_EmptySet
    <3>2. ASSUME NEW t \in Throttled!Times
          PROVE  Throttled!Cardinality({i \in allowed' : at'[i] \in (t - Window + 1)..t})
                   <= MaxRequests
      BY <2>4, <3>1
    <3> QED
      BY <3>2 DEF Throttled!BudgetHolds, Throttled!Times
  <2> QED
    BY <2>1, <2>3, <2>5 DEF ThrottleInv
<1>2. CASE Throttled!Tick
  <2>1. /\ clock < MaxTime /\ clock' = clock + 1
        /\ UNCHANGED <<at, attempts, status, allowed, hits>>
    BY <1>2 DEF Throttled!Tick
  <2>2. Throttled!TypeOK'
    BY <2>1 DEF ThrottleInv, Throttled!TypeOK, Throttled!Times
  <2>3. /\ \A i \in 1..hits' : at'[i] <= clock'
        /\ \A i \in allowed' : at'[i] > clock' - Window => i \in attempts'
    BY <2>1 DEF ThrottleInv, Throttled!TypeOK, Throttled!Times, Throttled!Attempts
  <2>4. Throttled!BudgetHolds'
    BY <2>1, SameCountThrottled DEF ThrottleInv, Throttled!BudgetHolds
  <2> QED
    BY <2>2, <2>3, <2>4 DEF ThrottleInv
<1>3. CASE UNCHANGED throttle
  <2>1. UNCHANGED <<clock, at, attempts, status, allowed, hits>>
    BY <1>3 DEF throttle
  <2>2. Throttled!BudgetHolds'
    BY <2>1, SameCountThrottled DEF ThrottleInv, Throttled!BudgetHolds
  <2> QED
    BY <2>1, <2>2 DEF ThrottleInv, Throttled!TypeOK
<1> QED
  BY <1>1, <1>2, <1>3, CheckKeeps, HitKeeps DEF Throttled!Next

LEMMA ThrottleInit ==
  ASSUME Throttled!Init PROVE ThrottleInv
<1> USE ThrottleConstants
<1>1. Throttled!TypeOK
  BY DEF Throttled!Init, Throttled!TypeOK, Throttled!Times, Throttled!Attempts,
     Throttled!Status
<1>2. \A t : AllowedIn(t) = {}
  BY DEF Throttled!Init, AllowedIn
<1>3. Throttled!BudgetHolds
  BY <1>2, SameCountThrottled, FS_EmptySet DEF Throttled!BudgetHolds, AllowedIn
<1> QED
  BY <1>1, <1>3 DEF Throttled!Init, ThrottleInv

-----------------------------------------------------------------------------
(* Sessions: what was revoked stays revoked *)

Issued == {s \in Ids : made[s] = "issued"}

\* What `call` may hold of a call: where it rests, or one under way.
Records == [op : {"none"}, at : Store!Rest] \cup Store!Call

\* How the record of a call under way fits the keys `there` and the sessions `out`:
\* it works on issued sessions, and those it has to revoke are either gone, or among
\* the ones it still has to delete.
Fits(x, there, out) ==
  /\ x.ids \cup x.found \cup x.covers \subseteq out
  /\ x.op \in {"resolve", "listByUser"} => x.covers = {}
  /\ x.at \in {"reading", "deleting"} => x.covers \subseteq x.ids
  /\ x.at = "unindexing" => (x.ids \cup x.covers) \cap there = {}
  /\ x.at = "visiting" => x.covers \cap there \subseteq x.ids
  /\ x.at = "pruning" => /\ x.found \cap there = {}
                         /\ x.covers \cap there \subseteq x.ids \ x.found

SessionsInv ==
  /\ Store!TypeOK
  /\ Store!IssuedIsIndexed
  /\ Store!RevokedIsGone
  /\ index \subseteq Issued
  /\ revoked \subseteq Issued
  /\ \A s \in keys : made[s] # "no"
  /\ \A c \in Calls : call[c].at \in Store!Phase => Fits(call[c], keys, Issued)

LEMMA SessionsInit ==
  ASSUME Store!Init PROVE SessionsInv
<1>1. Store!TypeOK
  BY RequestsAssumption
  DEF Store!SessionsAssumption, Store!Init, Store!TypeOK, Store!Rest
<1> QED
  BY <1>1 DEF Store!Init, SessionsInv, Store!IssuedIsIndexed, Store!RevokedIsGone, Issued,
     Store!Phase

\* A call goes on fitting when no issued session gets a key and none is recalled.
LEMMA FitsStays ==
  ASSUME NEW x, NEW there, NEW there2, NEW out, NEW out2,
         Fits(x, there, out), there2 \cap out \subseteq there, out \subseteq out2
  PROVE  Fits(x, there2, out2)
  BY DEF Fits

\* The record of a call under way is one of Call.
LEMMA UnderwayIsCall ==
  ASSUME Store!TypeOK, NEW c \in Calls, call[c].at \in Store!Phase
  PROVE  call[c] \in Store!Call
<1>1. call[c] \in [op : {"none"}, at : Store!Rest] \cup Store!Call
  BY DEF Store!TypeOK
<1> QED
  BY <1>1 DEF Store!Rest, Store!Phase

\* A call that is over fits anything.
LEMMA Over ==
  ASSUME NEW how \in Store!Rest
  PROVE  [op |-> "none", at |-> how] \in Records /\ how \notin Store!Phase
  BY DEF Records, Store!Rest, Store!Phase

LEMMA CallsAreRecords == Store!Call \subseteq Records
  BY DEF Records

\* A step of one call, which replaces its record by `x`, while the keys and the index
\* lose sessions and what has to be revoked is gained, keeps the invariant when the
\* new record fits and nothing with a key is unindexed or counted as revoked.
LEMMA CallStepKeeps ==
  ASSUME SessionsInv, NEW c \in Calls, NEW x,
         x \in Records,
         x.at \in Store!Phase => Fits(x, keys', Issued),
         call' = [call EXCEPT ![c] = x],
         keys' \subseteq keys, index' \subseteq index,
         (index \ index') \cap keys' = {},
         revoked \subseteq revoked', revoked' \subseteq Issued,
         (revoked' \ revoked) \cap keys' = {},
         UNCHANGED <<outlived, made>>, sessionFaults' \in 0..MaxFaults
  PROVE  SessionsInv'
<1>1. Store!TypeOK'
  BY DEF SessionsInv, Store!TypeOK, Issued, Records
<1>2. Issued' = Issued
  BY DEF Issued
<1>3. /\ Store!IssuedIsIndexed' /\ Store!RevokedIsGone'
      /\ (index \subseteq Issued)' /\ (revoked \subseteq Issued)'
      /\ (\A s \in keys : made[s] # "no")'
  BY <1>2 DEF SessionsInv, Store!IssuedIsIndexed, Store!RevokedIsGone
<1>4. ASSUME NEW d \in Calls, call'[d].at \in Store!Phase
      PROVE  Fits(call'[d], keys', Issued')
  <2>1. CASE d = c
    BY <1>2, <1>4, <2>1 DEF SessionsInv, Store!TypeOK
  <2>2. CASE d # c
    <3>1. call'[d] = call[d]
      BY <2>2 DEF SessionsInv, Store!TypeOK
    <3>2. Fits(call[d], keys, Issued)
      BY <1>4, <3>1 DEF SessionsInv
    <3> QED
      BY <1>2, <3>1, <3>2, FitsStays
  <2> QED
    BY <2>1, <2>2
<1> QED
  BY <1>1, <1>3, <1>4 DEF SessionsInv

\* A sign-in's step, the clock and Redis's own expiry leave the calls alone.
LEMMA SignInStepKeeps ==
  ASSUME SessionsInv, NEW s \in Ids, Store!IdStep(s) PROVE SessionsInv'
<1> USE DEF SessionsInv, Store!TypeOK
<1>1. /\ UNCHANGED <<call, revoked>>
      /\ Store!TypeOK'
      /\ (\A i \in keys : made[i] # "no")'
      /\ Issued \subseteq Issued'
      /\ keys' \cap Issued \subseteq keys
      /\ index' \subseteq Issued'
  BY RequestsAssumption
  DEF Store!SessionsAssumption, Store!IdStep, Store!SetKey, Store!AddToIndex,
      Store!CreateFails, Store!Expire, Store!DropKey, Store!redis, Issued
<1>2. Store!IssuedIsIndexed'
  BY DEF Store!IdStep, Store!SetKey, Store!AddToIndex, Store!CreateFails, Store!Expire,
     Store!DropKey, Store!redis, Store!IssuedIsIndexed
<1>3. Store!RevokedIsGone' /\ (revoked \subseteq Issued)'
  BY <1>1 DEF Store!RevokedIsGone
<1>4. ASSUME NEW c \in Calls, call'[c].at \in Store!Phase
      PROVE  Fits(call'[c], keys', Issued')
  BY <1>1, <1>4, FitsStays
<1> QED
  BY <1>1, <1>2, <1>3, <1>4

\* A step of resolve, destroy, destroyByUser or listByUser.
LEMMA SessionCallKeeps ==
  ASSUME SessionsInv, NEW c \in Calls, Store!CallStep(c) PROVE SessionsInv'
<1> DEFINE x == call'[c]
<1> USE DEF Store!At, Store!Begin, Store!End, Store!Return, Store!redis
<1>0. /\ DOMAIN call = Calls
      /\ keys \subseteq Ids /\ index \subseteq Issued /\ revoked \subseteq Issued
      /\ Issued \subseteq Ids /\ sessionFaults \in 0..MaxFaults
      /\ call[c].at \in Store!Phase =>
           call[c] \in Store!Call /\ Fits(call[c], keys, Issued)
      /\ {"deleting", "unindexing", "visiting", "pruning"} \subseteq Store!Phase
      /\ MaxFaults \in Nat
      /\ {"done", "failed"} \subseteq Store!Rest /\ {"done", "failed"} \cap Store!Phase = {}
  BY UnderwayIsCall, RequestsAssumption
  DEF SessionsInv, Store!TypeOK, Issued, Store!Phase, Store!Rest,
      Store!SessionsAssumption
<1>1. ASSUME NEW s \in Ids, Store!Resolve(c, s) \/ Store!Destroy(c, s) PROVE SessionsInv'
  <2>1. s \in Issued
    BY <1>1 DEF Store!Resolve, Store!Destroy, Issued
  <2>2. /\ call' = [call EXCEPT ![c] = x]
        /\ x = [op |-> "none", at |-> "done"]
           \/ x = [op |-> "resolve", at |-> "reading", ids |-> {s}, found |-> {},
                   covers |-> {}]
           \/ x = [op |-> "destroy", at |-> "reading", ids |-> {s}, found |-> {},
                   covers |-> {s}]
        /\ UNCHANGED <<keys, index, outlived, made, revoked, sessionFaults>>
    BY <1>0, <1>1 DEF Store!Resolve, Store!Destroy
  <2>3. /\ x \in Records
        /\ x.at \in Store!Phase => Fits(x, keys', Issued)
    BY <1>0, <2>1, <2>2, Over, CallsAreRecords DEF Store!Call, Store!Phase, Store!Ops, Fits
  <2> QED
    BY <1>0, <2>2, <2>3, CallStepKeeps
<1>2. CASE Store!ReadValue(c)
  <2>1. /\ call' = [call EXCEPT ![c] = x]
        /\ call[c] \in Store!Call /\ Fits(call[c], keys, Issued)
        /\ x = [call[c] EXCEPT !.found = call[c].ids \cap keys, !.at = "deleting"]
        /\ call[c].at = "reading"
        /\ UNCHANGED <<keys, index, outlived, made, revoked, sessionFaults>>
    BY <1>0, <1>2 DEF Store!ReadValue, Store!Phase
  <2> DEFINE seen == call[c].ids \cap keys
  <2>2. x \in Store!Call
    <3> HIDE DEF x
    <3> QED
      BY <1>0, <2>1 DEF Store!Call
  <2>3. /\ x.op = call[c].op /\ x.at = "deleting" /\ x.ids = call[c].ids /\ x.found = seen
        /\ x.covers = call[c].covers
    BY <2>1 DEF Store!Call
  <2> HIDE DEF x
  <2>4. Fits(x, keys', Issued)
    BY <2>1, <2>3 DEF Fits
  <2> QED
    BY <1>0, <2>1, <2>2, <2>4, CallStepKeeps, CallsAreRecords DEF x
<1>3. CASE Store!DeleteKey(c)
  <2>1. /\ call' = [call EXCEPT ![c] = x]
        /\ call[c] \in Store!Call /\ Fits(call[c], keys, Issued)
        /\ call[c].at = "deleting"
        /\ keys' = keys \ call[c].ids
        /\ \/ x = [op |-> "none", at |-> "done"] /\ revoked' = revoked \cup call[c].covers
           \/ x = [call[c] EXCEPT !.at = "unindexing"] /\ revoked' = revoked
        /\ UNCHANGED <<index, outlived, made, sessionFaults>>
    BY <1>0, <1>3 DEF Store!DeleteKey, Store!Phase
  <2>2. /\ x \in Records
        /\ x.at \in Store!Phase => Fits(x, keys', Issued)
        /\ revoked' \subseteq Issued /\ revoked \subseteq revoked'
        /\ (revoked' \ revoked) \cap keys' = {}
    BY <1>0, <2>1, Over, CallsAreRecords DEF Store!Call, Store!Phase, Fits
  <2> QED
    BY <1>0, <2>1, <2>2, CallStepKeeps
<1>4. CASE Store!DeleteIndex(c)
  <2>1. /\ call' = [call EXCEPT ![c] = x]
        /\ call[c] \in Store!Call /\ Fits(call[c], keys, Issued)
        /\ call[c].at = "unindexing"
        /\ x = [op |-> "none", at |-> "done"] /\ revoked' = revoked \cup call[c].covers
        /\ index' = index \ call[c].ids
        /\ UNCHANGED <<keys, outlived, made, sessionFaults>>
    BY <1>0, <1>4 DEF Store!DeleteIndex, Store!Phase
  <2>2. /\ x \in Records
        /\ x.at \notin Store!Phase
        /\ revoked' \subseteq Issued /\ revoked \subseteq revoked'
        /\ (revoked' \ revoked) \cap keys' = {} /\ (index \ index') \cap keys' = {}
    BY <1>0, <2>1, Over, CallsAreRecords DEF Store!Call, Store!Phase, Fits
  <2> QED
    BY <1>0, <2>1, <2>2, CallStepKeeps
<1>5. ASSUME NEW what \in {"destroyByUser", "listByUser"}, Store!Visit(c, what)
      PROVE  SessionsInv'
  <2>1. /\ call' = [call EXCEPT ![c] = x]
        /\ x = [op |-> what, at |-> "visiting", ids |-> index, found |-> {},
                covers |-> IF what = "destroyByUser" THEN Issued ELSE {}]
        /\ UNCHANGED <<keys, index, outlived, made, revoked, sessionFaults>>
    BY <1>0, <1>5 DEF Store!Visit, Issued
  <2>2. /\ x \in Records
        /\ x.at \in Store!Phase => Fits(x, keys', Issued)
    BY <1>0, <2>1, CallsAreRecords
    DEF SessionsInv, Store!Call, Store!Phase, Store!Ops, Fits, Store!IssuedIsIndexed, Issued
  <2> QED
    BY <1>0, <2>1, <2>2, CallStepKeeps
<1>6. ASSUME NEW s \in Ids, Store!DeleteNext(c, s) PROVE SessionsInv'
  <2>1. /\ call' = [call EXCEPT ![c] = x]
        /\ call[c] \in Store!Call /\ Fits(call[c], keys, Issued)
        /\ call[c].at = "visiting" /\ s \in call[c].ids /\ call[c].op = "destroyByUser"
        /\ x = [call[c] EXCEPT !.found = {s}, !.at = "pruning"]
        /\ keys' = keys \ {s}
        /\ UNCHANGED <<index, outlived, made, revoked, sessionFaults>>
    BY <1>0, <1>6 DEF Store!DeleteNext, Store!Visiting, Store!PruneNext, Store!Phase
  <2>2. x \in Store!Call
    <3> HIDE DEF x
    <3> QED
      BY <1>0, <2>1 DEF Store!Call
  <2>3. /\ x.op = call[c].op /\ x.at = "pruning" /\ x.ids = call[c].ids /\ x.found = {s}
        /\ x.covers = call[c].covers
    BY <2>1 DEF Store!Call
  <2> HIDE DEF x
  <2>4. Fits(x, keys', Issued)
    BY <2>1, <2>3 DEF Fits
  <2> QED
    BY <1>0, <2>1, <2>2, <2>4, CallStepKeeps, CallsAreRecords DEF x
<1>7. ASSUME NEW s \in Ids, Store!ListNext(c, s) PROVE SessionsInv'
  <2>1. /\ call' = [call EXCEPT ![c] = x]
        /\ call[c] \in Store!Call /\ Fits(call[c], keys, Issued)
        /\ call[c].at = "visiting" /\ s \in call[c].ids /\ call[c].op = "listByUser"
        /\ \/ x = [call[c] EXCEPT !.ids = call[c].ids \ {s}]
           \/ x = [call[c] EXCEPT !.found = {s}, !.at = "pruning"] /\ s \notin keys
        /\ UNCHANGED <<keys, index, outlived, made, revoked, sessionFaults>>
    BY <1>0, <1>7 DEF Store!ListNext, Store!Visiting, Store!PruneNext, Store!Phase
  <2>2. x \in Store!Call
    <3>1. CASE x = [call[c] EXCEPT !.ids = call[c].ids \ {s}]
      <4> HIDE DEF x
      <4> QED
        BY <1>0, <2>1, <3>1 DEF Store!Call
    <3>2. CASE x = [call[c] EXCEPT !.found = {s}, !.at = "pruning"]
      <4> HIDE DEF x
      <4> QED
        BY <1>0, <2>1, <3>2 DEF Store!Call
    <3> QED
      BY <2>1, <3>1, <3>2
  <2>3. /\ x.op = call[c].op /\ x.covers = call[c].covers
        /\ \/ x.at = "visiting" /\ x.ids = call[c].ids \ {s} /\ x.found = call[c].found
           \/ x.at = "pruning" /\ x.ids = call[c].ids /\ x.found = {s} /\ s \notin keys
    BY <2>1 DEF Store!Call
  <2> HIDE DEF x
  <2>4. Fits(x, keys', Issued)
    BY <2>1, <2>3 DEF Fits
  <2> QED
    BY <1>0, <2>1, <2>2, <2>4, CallStepKeeps, CallsAreRecords DEF x
<1>8. CASE Store!Prune(c)
  <2>1. /\ call' = [call EXCEPT ![c] = x]
        /\ call[c] \in Store!Call /\ Fits(call[c], keys, Issued)
        /\ call[c].at = "pruning"
        /\ x = [call[c] EXCEPT !.ids = call[c].ids \ call[c].found, !.found = {},
                               !.at = "visiting"]
        /\ index' = index \ call[c].found
        /\ UNCHANGED <<keys, outlived, made, revoked, sessionFaults>>
    BY <1>0, <1>8 DEF Store!Prune, Store!Phase
  <2>2. x \in Store!Call
    <3> HIDE DEF x
    <3> QED
      BY <1>0, <2>1 DEF Store!Call
  <2>3. /\ x.op = call[c].op /\ x.at = "visiting" /\ x.ids = call[c].ids \ call[c].found
        /\ x.found = {} /\ x.covers = call[c].covers
    BY <2>1 DEF Store!Call
  <2> HIDE DEF x
  <2>4. Fits(x, keys', Issued) /\ (index \ index') \cap keys' = {}
    BY <2>1, <2>3 DEF Fits
  <2> QED
    BY <1>0, <2>1, <2>2, <2>4, CallStepKeeps, CallsAreRecords DEF x
<1>9. CASE Store!EndVisit(c)
  <2>1. /\ call' = [call EXCEPT ![c] = x]
        /\ call[c] \in Store!Call /\ Fits(call[c], keys, Issued)
        /\ call[c].at = "visiting" /\ call[c].ids = {}
        /\ x = [op |-> "none", at |-> "done"] /\ revoked' = revoked \cup call[c].covers
        /\ UNCHANGED <<keys, index, outlived, made, sessionFaults>>
    BY <1>0, <1>9 DEF Store!EndVisit, Store!Phase
  <2>2. /\ x \in Records
        /\ x.at \notin Store!Phase
        /\ revoked' \subseteq Issued /\ revoked \subseteq revoked'
        /\ (revoked' \ revoked) \cap keys' = {}
    BY <1>0, <2>1, Over, CallsAreRecords DEF Store!Call, Store!Phase, Fits
  <2> QED
    BY <1>0, <2>1, <2>2, CallStepKeeps
<1>10. CASE Store!CallFails(c)
  <2>1. /\ call' = [call EXCEPT ![c] = x]
        /\ x = [op |-> "none", at |-> "failed"]
        /\ sessionFaults' \in 0..MaxFaults
        /\ UNCHANGED <<keys, index, outlived, made, revoked>>
    BY <1>0, <1>10 DEF Store!CallFails
  <2>2. /\ x \in Records
        /\ x.at \notin Store!Phase
    BY <1>0, <2>1, Over
  <2> QED
    BY <1>0, <2>1, <2>2, CallStepKeeps
<1> QED
  BY <1>1, <1>2, <1>3, <1>4, <1>5, <1>6, <1>7, <1>8, <1>9, <1>10 DEF Store!CallStep

LEMMA SessionsStep ==
  ASSUME SessionsInv, [Store!Next]_sessions PROVE SessionsInv'
<1>1. CASE UNCHANGED sessions
  BY <1>1 DEF sessions, SessionsInv, Store!TypeOK, Store!IssuedIsIndexed,
     Store!RevokedIsGone, Issued, Fits
<1> QED
  BY <1>1, SignInStepKeeps, SessionCallKeeps DEF Store!Next

-----------------------------------------------------------------------------
(* The account: passwords, one-time tokens and MFA *)

IsReset(c) == op[c] = "reset"
RunsMfa(c) == stage[c] \in User!Awaits /\ op[c] \in User!MfaOps

\* Which call awaits what: only the holder of a token writes or clears, and only the
\* calls of MfaService set the flag and the secret.
WaitsFit ==
  \A c \in Calls :
    /\ stage[c] \in {"write", "clear"} =>
         op[c] \in {"reset", "activate"} /\ arg[c] \in User!Tokens
    /\ RunsMfa(c) => stage[c] \in {"setEnabled", "setSecret"}
    /\ IsReset(c) => new[c] \in Passwords /\ before[c] \in Passwords

\* A token that is being cleared has been applied.
TokensInv ==
  /\ User!SpentHadEffect
  /\ \A c \in Calls : stage[c] = "clear" => arg[c] \in applied

\* Each reset brings a password of its own, which until it is written is in nobody's
\* past; one that has been written has replaced the password the reset found.
PasswordsInv ==
  /\ password \in issued /\ old \subseteq issued
  /\ \A c \in Calls : IsReset(c) => new[c] \in issued /\ before[c] \in issued
  /\ \A c, d \in Calls : IsReset(c) /\ IsReset(d) /\ new[c] = new[d] => c = d
  /\ \A c \in Calls : IsReset(c) /\ stage[c] = "write" =>
       /\ password # new[c] /\ new[c] \notin old
       /\ \A d \in Calls : IsReset(d) => before[d] # new[c]
  /\ \A c \in Calls : IsReset(c) /\ stage[c] = "clear" => password # before[c]
  /\ User!ReplacedStaysReplaced

\* Unless calls got tangled, one MFA call runs at a time: a confirm() about to set the
\* flag has seen a code of the very secret, and a disable() about to drop the secret
\* has lowered the flag.
MfaInv ==
  ~tangled =>
    /\ \A c, d \in Calls : RunsMfa(c) /\ RunsMfa(d) => c = d
    /\ (\A c \in Calls : ~RunsMfa(c)) /\ enabled => secret \in confirmed
    /\ \A c \in Calls : RunsMfa(c) =>
         /\ op[c] = "confirmMfa" => secret \in confirmed
         /\ stage[c] = "setSecret" => ~enabled

AccountInv == User!TypeOK /\ WaitsFit /\ TokensInv /\ PasswordsInv /\ MfaInv

LEMMA AccountInit ==
  ASSUME User!Init PROVE AccountInv
<1> USE RequestsAssumption DEF User!AccountsAssumption, User!Init, User!MfaOps, User!Awaits
<1>1. User!TypeOK
  <2>1. enabled \in BOOLEAN
    OBVIOUS
  <2>2. /\ password \in Passwords /\ active \in BOOLEAN /\ secret \in Secrets \cup {None}
        /\ issued \subseteq User!Tokens \cup Passwords \cup Secrets
        /\ confirmed \subseteq Secrets
    OBVIOUS
  <2>3. /\ op \in [Calls -> User!Ops \cup {"none"}]
        /\ stage \in [Calls -> User!Awaits \cup User!Ends \cup {"idle"}]
        /\ arg \in [Calls -> User!Tokens \cup Secrets \cup {None}]
        /\ new \in [Calls -> Passwords \cup {None}]
        /\ before \in [Calls -> Passwords \cup {None}]
    OBVIOUS
  <2>4. /\ tokens \subseteq User!Tokens /\ expired \subseteq User!Tokens
        /\ old \subseteq Passwords /\ held \subseteq {"challenge", "tokens"}
        /\ applied \subseteq User!Tokens
    OBVIOUS
  <2>5. tangled \in BOOLEAN
    OBVIOUS
  <2>6. accountFaults \in 0..MaxFaults
    OBVIOUS
  <2> QED
    BY ONLY <2>1, <2>2, <2>3, <2>4, <2>5, <2>6 DEF User!TypeOK
<1>2. WaitsFit /\ TokensInv
  BY DEF WaitsFit, TokensInv, RunsMfa, IsReset, User!SpentHadEffect, User!Tokens
<1>3. PasswordsInv
  BY DEF PasswordsInv, IsReset, User!ReplacedStaysReplaced
<1>4. MfaInv
  BY DEF MfaInv, RunsMfa
<1> QED
  BY <1>1, <1>2, <1>3, <1>4 DEF AccountInv

\* The invariant reads of a state what these say.
LEMMA AccountRests ==
  ASSUME AccountInv, UNCHANGED account PROVE AccountInv'
  BY DEF account, AccountInv, User!TypeOK, WaitsFit, TokensInv, PasswordsInv, MfaInv,
     IsReset, RunsMfa, User!SpentHadEffect, User!ReplacedStaysReplaced

\* A step of call `c` that leaves the account, its tokens and its history alone, and
\* in which the call neither is nor becomes one of MfaService's, or a reset or an
\* activation under way.
LEMMA QuietKeeps ==
  ASSUME AccountInv, NEW c \in Calls,
         op' \in [Calls -> User!Ops \cup {"none"}],
         stage' \in [Calls -> User!Awaits \cup User!Ends \cup {"idle"}],
         arg' \in [Calls -> User!Tokens \cup Secrets \cup {None}],
         new' \in [Calls -> Passwords \cup {None}],
         \A d \in Calls : d # c => op'[d] = op[d] /\ stage'[d] = stage[d]
                                   /\ arg'[d] = arg[d] /\ new'[d] = new[d],
         ~RunsMfa(c), ~RunsMfa(c)', stage'[c] \notin {"write", "clear"},
         op'[c] = "reset" => op[c] = "reset" /\ new'[c] = new[c],
         held' \subseteq {"challenge", "tokens"}, accountFaults' \in 0..MaxFaults,
         UNCHANGED <<password, active, secret, enabled, tokens, expired, before, old,
                     issued, applied, confirmed, tangled>>
  PROVE  AccountInv'
<1>1. User!TypeOK'
  BY DEF AccountInv, User!TypeOK
<1>2. \A d \in Calls : (RunsMfa(d) <=> RunsMfa(d)')
  BY DEF RunsMfa
<1>3. \A d \in Calls : IsReset(d)' => IsReset(d) /\ new'[d] = new[d]
  BY DEF IsReset
<1>4. \A d \in Calls : stage'[d] \in {"write", "clear"} =>
        stage'[d] = stage[d] /\ op'[d] = op[d] /\ arg'[d] = arg[d]
  OBVIOUS
<1>5. WaitsFit'
  BY <1>2, <1>3, <1>4 DEF AccountInv, WaitsFit, RunsMfa
<1>6. TokensInv'
  BY <1>4 DEF AccountInv, TokensInv, User!SpentHadEffect
<1>7. PasswordsInv'
  BY <1>3, <1>4 DEF AccountInv, PasswordsInv, User!ReplacedStaysReplaced
<1>8. MfaInv'
  BY <1>2 DEF AccountInv, MfaInv, RunsMfa
<1> QED
  BY <1>1, <1>5, <1>6, <1>7, <1>8 DEF AccountInv

\* login(), verifyMfaChallenge() and refresh()
LEMMA AuthStepKeeps ==
  ASSUME AccountInv, NEW c \in Calls, User!AuthStep(c) PROVE AccountInv'
<1> USE DEF AccountInv, User!TypeOK, User!Begin, User!At, User!Goto, User!account,
      User!mfa, User!onetime, User!history, User!Ops, User!MfaOps, User!Awaits, User!Ends,
      RunsMfa
<1>1. ASSUME NEW p \in Passwords, User!LoginFind(c, p) PROVE AccountInv'
  BY <1>1, QuietKeeps DEF User!LoginFind
<1>2. CASE User!LoginMfa(c)
  BY <1>2, QuietKeeps DEF User!LoginMfa
<1>3. ASSUME NEW s \in Secrets, User!ChallengeVerify(c, s) PROVE AccountInv'
  BY <1>3, QuietKeeps DEF User!ChallengeVerify
<1>4. CASE User!ChallengeIssue(c)
  BY <1>4, QuietKeeps DEF User!ChallengeIssue
<1>5. CASE User!Refresh(c)
  BY <1>5, QuietKeeps DEF User!Refresh
<1> QED
  BY <1>1, <1>2, <1>3, <1>4, <1>5 DEF User!AuthStep

\* The ports save a one-time token, time passes, and an administrator deactivates.
LEMMA PortStepKeeps ==
  ASSUME AccountInv,
         (\E t \in User!Tokens : User!SaveToken(t) \/ User!Expire(t)) \/ User!Deactivate
  PROVE  AccountInv'
<1> USE DEF User!account, User!mfa, User!onetime, User!history, User!call
<1>1. User!TypeOK'
  <2>1. CASE User!Deactivate
    BY <2>1 DEF User!Deactivate, AccountInv, User!TypeOK
  <2>2. ASSUME NEW t \in User!Tokens, User!SaveToken(t) PROVE User!TypeOK'
    BY <2>2 DEF User!SaveToken, AccountInv, User!TypeOK
  <2>3. ASSUME NEW t \in User!Tokens, User!Expire(t) PROVE User!TypeOK'
    BY <2>3 DEF User!Expire, AccountInv, User!TypeOK
  <2> QED
    BY <2>1, <2>2, <2>3
<1>2. /\ UNCHANGED <<password, secret, enabled, op, stage, arg, new, before, old, applied,
                     confirmed, tangled>>
      /\ issued \subseteq issued' /\ tokens \subseteq tokens'
      /\ (issued' \ issued) \subseteq tokens'
  BY DEF User!SaveToken, User!Expire, User!Deactivate
<1>3. WaitsFit' /\ MfaInv'
  BY <1>2 DEF AccountInv, WaitsFit, MfaInv, IsReset, RunsMfa
<1>4. TokensInv'
  BY <1>2 DEF AccountInv, TokensInv, User!SpentHadEffect
<1>5. PasswordsInv'
  BY <1>2 DEF AccountInv, PasswordsInv, IsReset, User!ReplacedStaysReplaced
<1> QED
  BY <1>1, <1>3, <1>4, <1>5 DEF AccountInv

\* Resets and activations: the token is found, its effect written, the token cleared.
LEMMA TokenStepKeeps ==
  ASSUME AccountInv, NEW c \in Calls, User!TokenStep(c) PROVE AccountInv'
<1> USE DEF User!Goto, User!At
<1>1. ASSUME NEW t \in ResetTokens, NEW p \in Passwords, User!ResetFind(c, t, p)
      PROVE  AccountInv'
  <2>1. /\ stage[c] = "idle" /\ p \notin issued /\ t \in User!Tokens
        /\ op' = [op EXCEPT ![c] = "reset"] /\ arg' = [arg EXCEPT ![c] = t]
        /\ new' = [new EXCEPT ![c] = p] /\ before' = [before EXCEPT ![c] = password]
        /\ issued' = issued \cup {p}
        /\ stage' = [stage EXCEPT ![c] = User!Accepted(t)]
        /\ User!Accepted(t) \in {"write", "refused"}
        /\ UNCHANGED <<password, active, secret, enabled, tokens, expired, old, held,
                       applied, confirmed, tangled, accountFaults>>
    BY <1>1 DEF User!ResetFind, User!Begin, User!Accepted, User!Tokens, User!account,
       User!mfa, User!onetime
  <2> DEFINE step == User!Accepted(t)
  <2> HIDE DEF step
  <2>2. User!TypeOK'
    BY <2>1 DEF AccountInv, User!TypeOK, User!Ops, User!Awaits, User!Ends
  <2>3. /\ \A d \in Calls : d # c => /\ op'[d] = op[d] /\ stage'[d] = stage[d]
                                     /\ arg'[d] = arg[d] /\ new'[d] = new[d]
                                     /\ before'[d] = before[d]
        /\ op'[c] = "reset" /\ stage'[c] \in {"write", "refused"} /\ arg'[c] = t
        /\ new'[c] = p /\ before'[c] = password
    BY <2>1 DEF AccountInv, User!TypeOK
  <2>4. \A d \in Calls : ~RunsMfa(c) /\ (RunsMfa(d)' <=> RunsMfa(d))
    BY <2>1, <2>3 DEF RunsMfa, User!MfaOps, User!Awaits
  <2>5. WaitsFit'
    BY <2>1, <2>3, <2>4 DEF AccountInv, User!TypeOK, WaitsFit, IsReset
  <2>6. TokensInv'
    <3>1. p \in User!Tokens => FALSE
      BY RequestsAssumption DEF User!AccountsAssumption
    <3> QED
      BY <2>1, <2>3, <3>1 DEF AccountInv, TokensInv, User!SpentHadEffect
  <2>7. PasswordsInv'
    BY <2>1, <2>3 DEF AccountInv, PasswordsInv, IsReset, User!ReplacedStaysReplaced
  <2>8. MfaInv'
    BY <2>1, <2>3, <2>4 DEF AccountInv, MfaInv
  <2> QED
    BY <2>2, <2>5, <2>6, <2>7, <2>8 DEF AccountInv
<1>2. CASE User!UpdatePassword(c)
  <2>1. /\ op[c] = "reset" /\ stage[c] = "write" /\ password' = new[c]
        /\ applied' = applied \cup {arg[c]} /\ stage' = [stage EXCEPT ![c] = "clear"]
        /\ UNCHANGED <<active, secret, enabled, tokens, expired, op, arg, new, before, old,
                       issued, held, confirmed, tangled, accountFaults>>
    BY <1>2 DEF User!UpdatePassword, User!mfa, User!onetime
  <2>2. arg[c] \in User!Tokens /\ new[c] \in Passwords /\ new[c] \in issued
    BY <2>1 DEF AccountInv, WaitsFit, IsReset, PasswordsInv
  <2>3. User!TypeOK'
    BY <2>1, <2>2 DEF AccountInv, User!TypeOK, User!Awaits
  <2>4. /\ \A d \in Calls : d # c => stage'[d] = stage[d]
        /\ stage'[c] = "clear"
    BY <2>1 DEF AccountInv, User!TypeOK
  <2>5. \A d \in Calls : (RunsMfa(d)' <=> RunsMfa(d)) /\ ~RunsMfa(c)
    BY <2>1, <2>4 DEF RunsMfa, User!MfaOps
  <2>6. WaitsFit'
    BY <2>1, <2>2, <2>4, <2>5 DEF AccountInv, WaitsFit, IsReset
  <2>7. TokensInv'
    BY <2>1, <2>4 DEF AccountInv, TokensInv, User!SpentHadEffect
  <2>8. PasswordsInv'
    BY <2>1, <2>2, <2>4 DEF AccountInv, PasswordsInv, IsReset, User!ReplacedStaysReplaced
  <2>9. MfaInv'
    BY <2>1, <2>4, <2>5 DEF AccountInv, MfaInv
  <2> QED
    BY <2>3, <2>6, <2>7, <2>8, <2>9 DEF AccountInv
<1>3. ASSUME NEW t \in ActivationTokens, User!ActivateFind(c, t) PROVE AccountInv'
  <2>1. /\ stage[c] = "idle" /\ t \in User!Tokens
        /\ op' = [op EXCEPT ![c] = "activate"] /\ arg' = [arg EXCEPT ![c] = t]
        /\ new' = [new EXCEPT ![c] = None]
        /\ stage' = [stage EXCEPT ![c] = User!Accepted(t)]
        /\ User!Accepted(t) \in {"write", "refused"}
        /\ UNCHANGED <<password, active, secret, enabled, tokens, expired, before, old,
                       issued, held, applied, confirmed, tangled, accountFaults>>
    BY <1>3 DEF User!ActivateFind, User!Begin, User!Accepted, User!Tokens, User!account,
       User!mfa, User!onetime, User!history
  <2>2. User!TypeOK'
    BY <2>1 DEF AccountInv, User!TypeOK, User!Ops, User!Awaits, User!Ends
  <2>3. /\ \A d \in Calls : d # c => /\ op'[d] = op[d] /\ stage'[d] = stage[d]
                                     /\ arg'[d] = arg[d] /\ new'[d] = new[d]
        /\ op'[c] = "activate" /\ stage'[c] \in {"write", "refused"} /\ arg'[c] = t
    BY <2>1 DEF AccountInv, User!TypeOK
  <2>4. \A d \in Calls : ~RunsMfa(c) /\ (RunsMfa(d)' <=> RunsMfa(d))
    BY <2>1, <2>3 DEF RunsMfa, User!MfaOps, User!Awaits
  <2>5. WaitsFit'
    BY <2>1, <2>3, <2>4 DEF AccountInv, User!TypeOK, WaitsFit, IsReset
  <2>6. TokensInv'
    BY <2>1, <2>3 DEF AccountInv, TokensInv, User!SpentHadEffect
  <2>7. PasswordsInv'
    BY <2>1, <2>3 DEF AccountInv, PasswordsInv, IsReset, User!ReplacedStaysReplaced
  <2>8. MfaInv'
    BY <2>1, <2>3, <2>4 DEF AccountInv, MfaInv
  <2> QED
    BY <2>2, <2>5, <2>6, <2>7, <2>8 DEF AccountInv
<1>4. CASE User!SetActive(c)
  <2>1. /\ op[c] = "activate" /\ stage[c] = "write" /\ active' = TRUE
        /\ applied' = applied \cup {arg[c]} /\ stage' = [stage EXCEPT ![c] = "clear"]
        /\ UNCHANGED <<password, secret, enabled, tokens, expired, op, arg, new, before,
                       old, issued, held, confirmed, tangled, accountFaults>>
    BY <1>4 DEF User!SetActive, User!mfa, User!onetime
  <2>2. arg[c] \in User!Tokens
    BY <2>1 DEF AccountInv, WaitsFit
  <2>3. User!TypeOK'
    BY <2>1, <2>2 DEF AccountInv, User!TypeOK, User!Awaits
  <2>4. /\ \A d \in Calls : d # c => stage'[d] = stage[d]
        /\ stage'[c] = "clear"
    BY <2>1 DEF AccountInv, User!TypeOK
  <2>5. \A d \in Calls : (RunsMfa(d)' <=> RunsMfa(d)) /\ ~RunsMfa(c)
    BY <2>1, <2>4 DEF RunsMfa, User!MfaOps
  <2>6. WaitsFit'
    BY <2>1, <2>2, <2>4, <2>5 DEF AccountInv, WaitsFit, IsReset
  <2>7. TokensInv'
    BY <2>1, <2>4 DEF AccountInv, TokensInv, User!SpentHadEffect
  <2>8. PasswordsInv'
    BY <2>1, <2>4 DEF AccountInv, PasswordsInv, IsReset, User!ReplacedStaysReplaced
  <2>9. MfaInv'
    BY <2>1, <2>4, <2>5 DEF AccountInv, MfaInv
  <2> QED
    BY <2>3, <2>6, <2>7, <2>8, <2>9 DEF AccountInv
<1>5. CASE User!ClearToken(c)
  <2>1. /\ stage[c] = "clear" /\ stage' = [stage EXCEPT ![c] = "done"]
        /\ tokens' = tokens \ {arg[c]}
        /\ old' = IF op[c] = "reset" THEN old \cup {before[c]} ELSE old
        /\ UNCHANGED <<password, active, secret, enabled, expired, op, arg, new, before,
                       issued, held, applied, confirmed, tangled, accountFaults>>
    BY <1>5 DEF User!ClearToken, User!account, User!mfa
  <2>2. /\ op[c] \in {"reset", "activate"} /\ (op[c] = "reset" => before[c] \in Passwords)
        /\ arg[c] \in applied
    BY <2>1 DEF AccountInv, WaitsFit, IsReset, TokensInv
  <2>3. User!TypeOK'
    BY <2>1, <2>2 DEF AccountInv, User!TypeOK, User!Ends
  <2>4. /\ \A d \in Calls : d # c => stage'[d] = stage[d]
        /\ stage'[c] = "done"
    BY <2>1 DEF AccountInv, User!TypeOK
  <2>5. \A d \in Calls : (RunsMfa(d)' <=> RunsMfa(d)) /\ ~RunsMfa(c)
    BY <2>1, <2>2, <2>4 DEF RunsMfa, User!MfaOps
  <2>6. WaitsFit'
    BY <2>1, <2>4, <2>5 DEF AccountInv, WaitsFit, IsReset
  <2>7. TokensInv'
    BY <2>1, <2>2, <2>4 DEF AccountInv, TokensInv, User!SpentHadEffect
  <2>8. PasswordsInv'
    BY <2>1, <2>2, <2>4 DEF AccountInv, PasswordsInv, IsReset, User!ReplacedStaysReplaced
  <2>9. MfaInv'
    BY <2>1, <2>4, <2>5 DEF AccountInv, MfaInv
  <2> QED
    BY <2>3, <2>6, <2>7, <2>8, <2>9 DEF AccountInv
<1> QED
  BY <1>1, <1>2, <1>3, <1>4, <1>5 DEF User!TokenStep

\* What every step of MfaService's calls, and every failure, leaves in order: a call
\* that is no reset or activation under way afterwards, and no token or password.
LEMMA OthersKeep ==
  ASSUME AccountInv, NEW c \in Calls,
         \A d \in Calls : d # c => /\ op'[d] = op[d] /\ stage'[d] = stage[d]
                                   /\ arg'[d] = arg[d] /\ new'[d] = new[d],
         stage'[c] \notin {"write", "clear"},
         RunsMfa(c)' => stage'[c] \in {"setEnabled", "setSecret"},
         op'[c] = "reset" => op[c] = "reset" /\ new'[c] = new[c],
         issued \subseteq issued', (issued' \ issued) \cap User!Tokens = {},
         UNCHANGED <<password, tokens, before, old, applied>>
  PROVE  WaitsFit' /\ TokensInv' /\ PasswordsInv'
<1>1. \A d \in Calls : IsReset(d)' => IsReset(d) /\ new'[d] = new[d]
  BY DEF IsReset
<1>2. \A d \in Calls : stage'[d] \in {"write", "clear"} =>
        stage'[d] = stage[d] /\ op'[d] = op[d] /\ arg'[d] = arg[d]
  OBVIOUS
<1>3. \A d \in Calls : RunsMfa(d)' => stage'[d] \in {"setEnabled", "setSecret"}
  BY DEF AccountInv, WaitsFit, RunsMfa
<1>4. WaitsFit'
  BY <1>1, <1>2, <1>3 DEF AccountInv, WaitsFit
<1>5. TokensInv'
  BY <1>2 DEF AccountInv, TokensInv, User!SpentHadEffect
<1>6. PasswordsInv'
  BY <1>1, <1>2 DEF AccountInv, PasswordsInv, User!ReplacedStaysReplaced
<1> QED
  BY <1>4, <1>5, <1>6

\* enroll(), confirm() and disable(): the first step of a call tangles it with one
\* that is under way, and the next steps are those of the only call that is.
LEMMA MfaStepKeeps ==
  ASSUME AccountInv, NEW c \in Calls, User!MfaStep(c) PROVE AccountInv'
<1> USE DEF User!Goto, User!At
<1>1. ASSUME NEW s \in Secrets,
             User!EnrollSecret(c, s) \/ User!ConfirmVerify(c, s) \/ User!DisableVerify(c, s)
      PROVE  AccountInv'
  <2>1. /\ stage[c] = "idle"
        /\ op' = [op EXCEPT ![c] = op'[c]] /\ op'[c] \in User!MfaOps
        /\ stage' = [stage EXCEPT ![c] = stage'[c]]
        /\ stage'[c] \in {"setEnabled", "refused"}
        /\ arg' = [arg EXCEPT ![c] = s] /\ new' = [new EXCEPT ![c] = None]
        /\ tangled' = (tangled \/ User!MfaRunning)
        /\ UNCHANGED <<password, active, enabled, tokens, expired, before, old, held,
                       applied, accountFaults>>
    BY <1>1 DEF AccountInv, User!TypeOK, User!EnrollSecret, User!ConfirmVerify,
       User!DisableVerify, User!Begin, User!account, User!mfa, User!onetime, User!MfaOps
  <2>2. /\ secret' \in {secret, s} /\ issued' \in {issued, issued \cup {s}}
        /\ confirmed' \in {confirmed, confirmed \cup {s}}
        /\ stage'[c] = "refused" => secret' = secret /\ confirmed' = confirmed
        /\ op'[c] = "confirmMfa" /\ stage'[c] = "setEnabled" => secret' \in confirmed'
    BY <1>1, <2>1 DEF AccountInv, User!TypeOK, User!EnrollSecret, User!ConfirmVerify,
       User!DisableVerify, User!Begin, User!mfa
  <2>3. User!TypeOK'
    <3>1. tangled' \in BOOLEAN
      BY <2>1 DEF User!MfaRunning, AccountInv, User!TypeOK
    <3> QED
      BY <2>1, <2>2, <3>1 DEF AccountInv, User!TypeOK, User!Ops, User!Awaits, User!Ends
  <2>4. \A d \in Calls : d # c => /\ op'[d] = op[d] /\ stage'[d] = stage[d]
                                  /\ arg'[d] = arg[d] /\ new'[d] = new[d]
    BY <2>1 DEF AccountInv, User!TypeOK
  <2>5. s \notin User!Tokens
    BY RequestsAssumption DEF User!AccountsAssumption
  <2>6. WaitsFit' /\ TokensInv' /\ PasswordsInv'
    <3>1. op'[c] # "reset"
      BY <2>1 DEF User!MfaOps
    <3>2. issued \subseteq issued' /\ (issued' \ issued) \cap User!Tokens = {}
      BY <2>2, <2>5
    <3>3. /\ stage'[c] \notin {"write", "clear"}
          /\ RunsMfa(c)' => stage'[c] \in {"setEnabled", "setSecret"}
      BY <2>1 DEF RunsMfa, User!Awaits
    <3> QED
      BY <2>1, <2>4, <3>1, <3>2, <3>3, OthersKeep
  <2>7. MfaInv'
    <3>1. ~tangled' => ~tangled /\ \A d \in Calls : ~RunsMfa(d)
      BY <2>1 DEF User!MfaRunning, User!Running, RunsMfa
    <3>2. \A d \in Calls : d # c => (RunsMfa(d)' <=> RunsMfa(d))
      BY <2>4 DEF RunsMfa
    <3>3. stage'[c] # "setSecret" /\ (RunsMfa(c)' <=> stage'[c] = "setEnabled")
      BY <2>1 DEF RunsMfa, User!Awaits
    <3> QED
      BY <2>1, <2>2, <3>1, <3>2, <3>3 DEF AccountInv, MfaInv
  <2> QED
    BY <2>3, <2>6, <2>7 DEF AccountInv
<1>2. CASE User!EnrollFlag(c) \/ User!ConfirmEnable(c) \/ User!DisableFlag(c)
           \/ User!DisableSecret(c)
  <2>1. /\ op[c] \in User!MfaOps /\ stage[c] \in {"setEnabled", "setSecret"}
        /\ stage' = [stage EXCEPT ![c] = stage'[c]] /\ stage'[c] \in {"done", "setSecret"}
        /\ UNCHANGED <<password, active, tokens, expired, op, arg, new, before, old,
                       issued, held, applied, confirmed, tangled, accountFaults>>
    BY <1>2 DEF AccountInv, User!TypeOK, User!EnrollFlag, User!ConfirmEnable,
       User!DisableFlag, User!DisableSecret, User!account, User!mfa, User!onetime,
       User!history, User!MfaOps
  <2>2. /\ enabled' \in BOOLEAN /\ secret' \in {secret, None}
        /\ stage'[c] = "setSecret" => ~enabled'
        /\ stage'[c] = "done" /\ enabled' =>
             \/ op[c] = "confirmMfa" /\ secret' = secret
             \/ stage[c] = "setSecret" /\ enabled' = enabled
    BY <1>2, <2>1 DEF AccountInv, User!TypeOK, User!EnrollFlag, User!ConfirmEnable,
       User!DisableFlag, User!DisableSecret
  <2>3. User!TypeOK'
    BY <2>1, <2>2 DEF AccountInv, User!TypeOK, User!Awaits, User!Ends
  <2>4. \A d \in Calls : d # c => stage'[d] = stage[d]
    BY <2>1 DEF AccountInv, User!TypeOK
  <2>5. WaitsFit' /\ TokensInv' /\ PasswordsInv'
    BY <2>1, <2>4, OthersKeep DEF RunsMfa, User!MfaOps, User!Awaits
  <2>6. MfaInv'
    <3>1. RunsMfa(c)
      BY <2>1 DEF RunsMfa, User!Awaits
    <3>2. \A d \in Calls : d # c => (RunsMfa(d)' <=> RunsMfa(d))
      BY <2>1, <2>4 DEF RunsMfa
    <3>3. RunsMfa(c)' <=> stage'[c] = "setSecret"
      BY <2>1 DEF RunsMfa, User!Awaits
    <3>4. ~tangled => \A d \in Calls : RunsMfa(d) => d = c
      BY <3>1 DEF AccountInv, MfaInv
    <3>5. stage'[c] = "setSecret" => op[c] # "confirmMfa"
      BY <1>2, <2>1 DEF AccountInv, User!TypeOK, User!EnrollFlag, User!ConfirmEnable,
         User!DisableFlag, User!DisableSecret
    <3> QED
      BY <2>1, <2>2, <3>1, <3>2, <3>3, <3>4, <3>5 DEF AccountInv, MfaInv
  <2> QED
    BY <2>3, <2>5, <2>6 DEF AccountInv
<1> QED
  BY <1>1, <1>2 DEF User!MfaStep

\* A call that fails: one of MfaService's leaves the account tangled.
LEMMA FailureKeeps ==
  ASSUME AccountInv, NEW c \in Calls, User!CallFails(c) PROVE AccountInv'
<1>1. /\ stage[c] \in User!Awaits
      /\ stage' = [stage EXCEPT ![c] = "failed"]
      /\ tangled' = (tangled \/ op[c] \in User!MfaOps)
      /\ accountFaults < MaxFaults /\ accountFaults' = accountFaults + 1
      /\ UNCHANGED <<password, active, secret, enabled, tokens, expired, op, arg, new,
                     before, old, issued, held, applied, confirmed>>
  BY DEF User!CallFails, User!Running, User!Goto, User!account, User!mfa, User!onetime
<1>2. User!TypeOK'
  BY <1>1, RequestsAssumption
  DEF User!AccountsAssumption, AccountInv, User!TypeOK, User!Ends
<1>3. /\ \A d \in Calls : d # c => stage'[d] = stage[d]
      /\ stage'[c] = "failed"
  BY <1>1 DEF AccountInv, User!TypeOK
<1>4. ~RunsMfa(c)' /\ \A d \in Calls : d # c => (RunsMfa(d)' <=> RunsMfa(d))
  BY <1>1, <1>3 DEF RunsMfa, User!Awaits
<1>5. WaitsFit' /\ TokensInv' /\ PasswordsInv'
  BY <1>1, <1>3, <1>4, OthersKeep
<1>6. MfaInv'
  <2>1. ~tangled' => ~tangled /\ ~RunsMfa(c)
    BY <1>1 DEF RunsMfa
  <2> QED
    BY <1>1, <1>3, <1>4, <2>1 DEF AccountInv, MfaInv
<1> QED
  BY <1>2, <1>5, <1>6 DEF AccountInv

LEMMA AccountStep ==
  ASSUME AccountInv, [User!Next]_account PROVE AccountInv'
  BY AccountRests, AuthStepKeeps, TokenStepKeeps, MfaStepKeeps, FailureKeeps,
     PortStepKeeps DEF User!Next

-----------------------------------------------------------------------------
(* Together *)

\* The middleware's store, the limiters, the sessions and the account hold their invariants whatever
\* part a behaviour exercises; an effect is repeated by early requests only.
RequestsInv ==
  /\ ReplayInv /\ OnceInv
  /\ \A kind \in Limiters : part = kind => RateInv(kind)
  /\ ThrottleInv
  /\ SessionsInv
  /\ AccountInv

LEMMA RequestsInit == Init => RequestsInv
  BY OnceInit, RateInit, ThrottleInit, SessionsInit, AccountInit DEF Init, RequestsInv

LEMMA RequestsStep == RequestsInv /\ [Next]_vars => RequestsInv'
<1> SUFFICES ASSUME RequestsInv, [Next]_vars PROVE RequestsInv'
  OBVIOUS
<1>1. part' = part
  BY DEF Next, vars
<1>2. [Keyed!Next]_idempotency
  BY DEF Next, vars, KeyedNext, LimiterNext, ThrottleNext, Admission
<1>3. [Store!Next]_sessions
  BY DEF Next, vars, SessionsNext, LinksNext, CodesNext
<1>4. [User!Next]_account
  BY DEF Next, vars, SessionsNext, LinksNext, CodesNext
<1>5. /\ \A kind \in Limiters : part = kind => [Limiter(kind)!Next]_rate
      /\ [Throttled!Next]_throttle
  BY DEF Next, vars, KeyedNext, LimiterNext, ThrottleNext, Admission, Limiters
<1>6. ReplayInv' /\ OnceInv'
  BY <1>2, ReplayStep, OnceStep DEF RequestsInv
<1>7. \A kind \in Limiters : part' = kind => RateInv(kind)'
  BY <1>1, <1>5, RateStep DEF RequestsInv
<1>8. ThrottleInv' /\ SessionsInv' /\ AccountInv'
  BY <1>3, <1>4, <1>5, ThrottleStep, SessionsStep, AccountStep DEF RequestsInv
<1> QED
  BY <1>1, <1>6, <1>7, <1>8 DEF RequestsInv

\* Every reachable state is a sound one, for any number of requests, keys, hits, sessions,
\* calls, passwords, tokens and secrets.
THEOREM RequestsAreSound == Spec => []RequestsInv
  BY RequestsInit, RequestsStep, PTL DEF Spec

\* "instead of a duplicate side effect": idempotencyMiddleware runs a key's handler to
\* a success once, plus once per lost or expired entry, but for requests that look the
\* key up before an earlier one is stored; and it replays 2xx of the same key only.
THEOREM EffectsAreSingle == Spec => []NoDuplicateEffect
<1>1. RequestsInv => NoDuplicateEffect
  <2> SUFFICES ASSUME RequestsInv PROVE NoDuplicateEffect
    OBVIOUS
  <2>1. Keyed!TypeOK /\ Keyed!ReplayIsGenuine
    BY DEF RequestsInv, ReplayInv, RepliesAreGenuine, Keyed!ReplayIsGenuine
  <2>2. Keyed!NoDuplicateEffect
    BY <2>1 DEF RequestsInv, OnceInv, Owed, Keyed!NoDuplicateEffect, Keyed!TypeOK
  <2> QED
    BY <2>1, <2>2 DEF NoDuplicateEffect
<1> QED
  BY <1>1, RequestsAreSound, PTL

\* A session that a returned destroy() or destroyByUser() had to revoke is never
\* resolved again, and the password a returned reset replaced never passes again.
THEOREM RevocationIsFinal == Spec => []RevokedStaysRevoked
<1>1. RequestsInv => RevokedStaysRevoked
  BY DEF RequestsInv, SessionsInv, AccountInv, PasswordsInv, RevokedStaysRevoked
<1> QED
  BY <1>1, RequestsAreSound, PTL

\* A one-time token is gone from its port only once its effect has been written.
THEOREM TokensAreSpentWell == Spec => []SpentHadEffect
<1>1. RequestsInv => SpentHadEffect
  BY DEF RequestsInv, AccountInv, TokensInv, SpentHadEffect
<1> QED
  BY <1>1, RequestsAreSound, PTL

\* Of MFA calls that neither overlap nor fail half way, none leaves MFA enabled with a
\* secret nobody confirmed.
THEOREM MfaIsConfirmed == Spec => []EnabledWasConfirmed
<1>1. RequestsInv => EnabledWasConfirmed
  BY DEF RequestsInv, AccountInv, MfaInv, EnabledWasConfirmed, User!EnabledWasConfirmed,
     User!MfaRunning, User!Running, RunsMfa
<1> QED
  BY <1>1, RequestsAreSound, PTL

\* rateLimitMiddleware admits no more than maxRequests in any window, over either store
\* and in whatever order the scripts run; and AttemptThrottle allows no more than its
\* budget in any window since the last reset.
THEOREM WindowsAreBounded == Spec => []WindowBound
<1>1. RequestsInv => WindowBound
  BY DEF RequestsInv, RateInv, ThrottleInv, WindowBound
<1> QED
  BY <1>1, RequestsAreSound, PTL

\* A rejection at or after the time promised is impossible while nobody was admitted:
\* the call that covers the promise does not survive, and the others are too few.
LEMMA RejectedTooEarly ==
  ASSUME NEW kind \in Limiters, RateInv(kind), NEW q \in Hits, Limiter(kind)!Reject(q),
         promised # -1
  PROVE  nowMs[q] < promised \/ (kind = "memory" /\ nowMs[q] = promised)
<1> USE LimiterConstants
<1> DEFINE live == Limiter(kind)!Live(q)
<1>1. callPc[q] = "called" /\ Cardinality(live) >= MaxRequests
  BY SameCount DEF Limiter!Reject
<1>2. /\ live \subseteq bucket /\ IsFiniteSet(live) /\ Cardinality(live) \in Nat
      /\ \A c \in live : nowMs[c] >= nowMs[q] - Window
      /\ \A c \in live : kind # "memory" => nowMs[c] > nowMs[q] - Window
  BY LiveSurvives
<1>3. now \in Nat /\ nowMs \in [Hits -> Nat] /\ promised \in Int
  BY DEF RateInv, Limiter!TypeOK, Limiter!Times
<1>4. PICK c \in bucket : nowMs[c] + Window <= promised
  BY DEF RateInv, BucketInv
<1>5. /\ bucket \subseteq Hits /\ IsFiniteSet(bucket) /\ Cardinality(bucket) <= MaxRequests
      /\ Cardinality(bucket) \in Nat
  BY SameCount, FS_CardinalityType DEF RateInv, BucketInv, Limiter!TypeOK
<1> HIDE DEF live
<1>6. SUFFICES ASSUME promised <= nowMs[q], kind = "memory" => promised < nowMs[q]
               PROVE  FALSE
  BY <1>3
<1>7. c \notin live
  BY <1>2, <1>3, <1>4, <1>5, <1>6
<1>8. live \subseteq bucket \ {c}
  BY <1>2, <1>7
<1>9. IsFiniteSet(bucket \ {c}) /\ Cardinality(bucket \ {c}) = Cardinality(bucket) - 1
  BY <1>4, <1>5, FS_RemoveElement
<1>10. Cardinality(live) <= Cardinality(bucket \ {c})
  BY <1>8, <1>9, FS_Subset
<1> QED
  BY <1>1, <1>2, <1>5, <1>9, <1>10

\* "Seconds to wait before retrying" suffice: rateLimitMiddleware rejects nobody whose
\* clock is read at or after the time its last rejection promised, in memory after it,
\* while no other call was admitted.
THEOREM RetryingLaterSuffices == Spec => RetryAfterSuffices
<1>1. RequestsInv /\ [Next]_vars =>
        [\A q \in Hits :
           part \in Limiters /\ callPc[q] = "called" /\ callPc'[q] = "rejected"
                            /\ promised # -1
             => nowMs[q] < promised \/ (part = "memory" /\ nowMs[q] = promised)]_vars
  <2> SUFFICES ASSUME RequestsInv, [Next]_vars, NEW q \in Hits, part \in Limiters,
                      callPc[q] = "called", callPc'[q] = "rejected", promised # -1
               PROVE  nowMs[q] < promised \/ (part = "memory" /\ nowMs[q] = promised)
    OBVIOUS
  <2>1. PICK kind \in Limiters : kind = part
    OBVIOUS
  <2>2. RateInv(kind) /\ callPc \in [Hits -> {"idle", "called", "admitted",
                                              "rejected", "open", "error"}]
    BY <2>1 DEF RequestsInv, RateInv, Limiter!TypeOK
  <2>3. Limiter(kind)!Next
    <3>1. ~ UNCHANGED rate
      BY DEF rate
    <3> QED
      BY <2>1, <3>1
      DEF Next, vars, Admission, KeyedNext, LimiterNext, ThrottleNext, Limiters
  <2>4. Limiter(kind)!Reject(q)
    BY <2>2, <2>3 DEF Limiter!Next, Limiter!Tick, Limiter!Call, Limiter!Admit,
       Limiter!Reject, Limiter!EvalFails
  <2>5. nowMs[q] < promised \/ (kind = "memory" /\ nowMs[q] = promised)
    BY <2>2, <2>4, RejectedTooEarly
  <2> QED
    BY <2>1, <2>5
<1> QED
  BY <1>1, RequestsAreSound, PTL DEF Spec, RetryAfterSuffices
=============================================================================
