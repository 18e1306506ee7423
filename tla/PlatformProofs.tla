--------------------------- MODULE PlatformProofs ---------------------------
(***************************************************************************)
(* What holds of what an application stands on, for every value of the     *)
(* constants: the read-through cache, the Redis broker of event streams    *)
(* and the log files; and, with the parts of ServerProofs, of any step of  *)
(* MCPlatform.                                                             *)
(***************************************************************************)
EXTENDS ServerProofs

-----------------------------------------------------------------------------
(* Cache.  The invariant relates what is stored, and what a call holds, to *)
(* the time since which the source has another value.                      *)

Values == 0..MaxWrites

\* A value the source has not got yet is nowhere to be found.
Written(v) == v \in Values \cup {Null} /\ (v # Null => v <= writes)

Stale(v) == v # Null /\ v # source

\* What a call has read it read when the source still had it, one run ago at most;
\* and between invalidations, what it read has been invalidated if it is stale.
CallFits(x) ==
  /\ x \in [pc : {"idle", "run", "ran"}, value : Values \cup {Null},
            began : 0 .. MaxTime, crossed : BOOLEAN]
  /\ Written(x.value)
  /\ x.pc = "ran" =>
       /\ x.began <= now /\ now <= x.began + MaxRun
       /\ Stale(x.value) => x.began <= since[x.value]
       /\ Stale(x.value) /\ ~deleting => x.crossed

CallsFit == \A c \in Callers : CallFits(call[c])

\* An entry expires soon enough, counted from when its value was replaced.
EntryFits ==
  /\ Written(store.value)
  /\ store.expires \in Nat
  /\ store.value # Null => store.expires <= now + Ttl
  /\ Stale(store.value) => store.expires <= since[store.value] + MaxRun + Ttl

SourceFits ==
  /\ Written(source)
  /\ \A v \in Values : since[v] <= now

CacheInv ==
  /\ Cached!TypeOK
  /\ SourceFits
  /\ CallsFit
  /\ EntryFits
  /\ Cached!StaleEntryCrossed
  /\ Cached!StalenessIsBounded

\* What PlatformAssumption says of the cache.
LEMMA CacheConstants ==
  /\ Ttl \in Nat /\ MaxRun \in Nat /\ MaxWrites \in Nat /\ MaxTime \in Nat
  /\ Null \notin Nat
  BY PlatformAssumption DEF Cached!CacheAssumption

\* At first nothing is stored and no call runs.
LEMMA CacheInit == Cached!Init => CacheInv
<1> SUFFICES ASSUME Cached!Init PROVE CacheInv
  OBVIOUS
<1> USE CacheConstants DEF Cached!Init, Values, Written, Stale
<1>1. Cached!TypeOK
  <2>1. Cached!Idle \in [pc : {"idle", "run", "ran"}, value : Values \cup {Null},
                        began : 0 .. MaxTime, crossed : BOOLEAN]
    BY DEF Cached!Idle
  <2>2. store.value = Null
    BY DEF Cached!NoEntry
  <2>3. call \in [Callers -> [pc : {"idle", "run", "ran"}, value : Values \cup {Null},
                             began : 0 .. MaxTime, crossed : BOOLEAN]]
    <3> HIDE DEF Cached!Idle
    <3> QED
      BY <2>1
  <2>4. since \in [Values -> 0..MaxTime] /\ now \in 0..MaxTime /\ writes \in Values
    OBVIOUS
  <2> QED
    BY <2>2, <2>3, <2>4, Zenon DEF Cached!TypeOK
<1>2. SourceFits /\ EntryFits
  BY DEF SourceFits, EntryFits, Cached!NoEntry
<1>3. CallsFit
  BY DEF CallsFit, CallFits, Cached!Idle
<1>4. Cached!StaleEntryCrossed /\ Cached!StalenessIsBounded
  BY DEF Cached!StaleEntryCrossed, Cached!StalenessIsBounded, Cached!NoEntry
<1> QED
  BY <1>1, <1>2, <1>3, <1>4 DEF CacheInv

\* A step that replaces one call's record, with the source as it was.
LEMMA CallChanges ==
  ASSUME CacheInv, NEW c \in Callers, NEW x, CallFits(x),
         call' = [call EXCEPT ![c] = x],
         UNCHANGED <<now, source, writes, since, deleting>>
  PROVE  CallsFit' /\ SourceFits'
         /\ call' \in [Callers -> [pc : {"idle", "run", "ran"}, value : Values \cup {Null},
                                   began : 0 .. MaxTime, crossed : BOOLEAN]]
<1>1. call \in [Callers -> [pc : {"idle", "run", "ran"}, value : Values \cup {Null},
                           began : 0 .. MaxTime, crossed : BOOLEAN]]
  BY DEF CacheInv, Cached!TypeOK, Values
<1>2. \A y : CallFits(y)' = CallFits(y)
  BY DEF CallFits, Written, Stale
<1>3. SourceFits'
  BY DEF CacheInv, SourceFits, Written
<1>4. ASSUME NEW d \in Callers PROVE CallFits(call'[d])
  BY <1>1 DEF CacheInv, CallsFit
<1>5. CallsFit'
  BY <1>2, <1>4 DEF CallsFit
<1>6. x \in [pc : {"idle", "run", "ran"}, value : Values \cup {Null},
             began : 0 .. MaxTime, crossed : BOOLEAN]
  BY DEF CallFits
<1> QED
  BY <1>1, <1>3, <1>5, <1>6

\* A call that is idle or about to run holds nothing.
LEMMA RestingFits ==
  /\ CallFits(Cached!Idle)
  /\ CallFits([Cached!Idle EXCEPT !.pc = "run"])
<1> DEFINE x == [Cached!Idle EXCEPT !.pc = "run"]
<1>1. CallFits(Cached!Idle)
  BY CacheConstants DEF CallFits, Cached!Idle, Written, Values
<1>2. /\ x \in [pc : {"idle", "run", "ran"}, value : Values \cup {Null},
               began : 0 .. MaxTime, crossed : BOOLEAN]
      /\ x.value = Cached!Idle.value /\ x.pc = "run"
  BY <1>1 DEF CallFits
<1> QED
  BY <1>1, <1>2 DEF CallFits

\* Every step of the cache's part keeps it.
LEMMA CacheStep ==
  ASSUME CacheInv, Cached!Next
  PROVE  CacheInv'
<1> USE CacheConstants DEF Values
<1> DEFINE Calls_ == [Callers -> [pc : {"idle", "run", "ran"}, value : Values \cup {Null},
                                  began : 0 .. MaxTime, crossed : BOOLEAN]]
<1>0. /\ now \in 0..MaxTime /\ writes \in Values /\ deleting \in BOOLEAN
      /\ source \in Values \cup {Null} /\ since \in [Values -> 0..MaxTime]
      /\ store.value \in Values \cup {Null} /\ store.expires \in Nat /\ lag \in 0..MaxTime
      /\ call \in Calls_
  BY DEF CacheInv, Cached!TypeOK, EntryFits
<1>1. ASSUME NEW c \in Callers, Cached!Get(c) PROVE CacheInv'
  <2>1. CASE Cached!Live
    <3> DEFINE age == IF store.value = source THEN 0 ELSE now - since[store.value]
    <3>1. store.value \in Values /\ store.value # Null /\ store.expires > now
      BY <1>0, <2>1 DEF Cached!Live
    <3>2. since[store.value] \in 0..MaxTime /\ since[store.value] <= now
      BY <1>0, <3>1 DEF CacheInv, SourceFits
    <3>3. store.value # source => store.expires <= since[store.value] + MaxRun + Ttl
      BY <3>1 DEF CacheInv, EntryFits, Stale
    <3>4. age \in 0..MaxTime /\ (age > 0 => age < Ttl + MaxRun)
      <4>1. CASE store.value = source
        BY <4>1
      <4>2. CASE store.value # source
        <5> DEFINE ended == since[store.value]
        <5>1. /\ ended \in 0..MaxTime /\ ended <= now /\ now \in 0..MaxTime
              /\ store.expires \in Nat /\ store.expires > now
              /\ store.expires <= ended + MaxRun + Ttl
          BY <1>0, <3>1, <3>2, <3>3, <4>2
        <5>2. age = now - ended
          BY <4>2
        <5> HIDE DEF ended, age
        <5> QED
          BY <5>1, <5>2
      <4> QED
        BY <4>1, <4>2
    <3>5. lag' = IF age > lag THEN age ELSE lag
      BY <1>1, <2>1 DEF Cached!Get
    <3>6. lag' \in 0..MaxTime /\ (lag' > 0 => lag' < Ttl + MaxRun)
      <4> HIDE DEF age
      <4> QED
        BY <1>0, <3>4, <3>5 DEF CacheInv, Cached!StalenessIsBounded
    <3>7. UNCHANGED <<now, source, writes, since, store, call, deleting>>
      BY <1>1, <2>1 DEF Cached!Get
    <3> QED
      BY <3>6, <3>7, Zenon
      DEF CacheInv, Cached!TypeOK, SourceFits, CallsFit, CallFits, EntryFits, Stale, Written,
          Cached!StaleEntryCrossed, Cached!StalenessIsBounded
  <2>2. CASE ~Cached!Live
    <3>1. /\ call' = [call EXCEPT ![c] = [Cached!Idle EXCEPT !.pc = "run"]]
          /\ UNCHANGED <<now, source, writes, since, store, deleting, lag>>
      BY <1>1, <2>2 DEF Cached!Get
    <3>2. CallsFit' /\ SourceFits' /\ call' \in Calls_
      BY <3>1, RestingFits, CallChanges, Zenon
    <3> QED
      BY <3>1, <3>2, Zenon
      DEF CacheInv, Cached!TypeOK, EntryFits, Stale, Written, Cached!StaleEntryCrossed,
          Cached!StalenessIsBounded
  <2> QED
    BY <2>1, <2>2
<1>2. ASSUME NEW c \in Callers, Cached!Run(c) PROVE CacheInv'
  <2> DEFINE x == [pc |-> "ran", value |-> source, began |-> now, crossed |-> FALSE]
  <2>1. CallFits(x)
    BY <1>0 DEF CacheInv, SourceFits, CallFits, Stale
  <2>2. /\ call' = [call EXCEPT ![c] = x]
        /\ UNCHANGED <<now, source, writes, since, store, deleting, lag>>
    BY <1>2 DEF Cached!Run
  <2>3. CallsFit' /\ SourceFits' /\ call' \in Calls_
    BY <2>1, <2>2, CallChanges, Zenon
  <2> QED
    BY <2>2, <2>3, Zenon
    DEF CacheInv, Cached!TypeOK, EntryFits, Stale, Written, Cached!StaleEntryCrossed,
        Cached!StalenessIsBounded
<1>3. ASSUME NEW c \in Callers, Cached!Set(c) PROVE CacheInv'
  <2>1. /\ call' = [call EXCEPT ![c] = Cached!Idle]
        /\ UNCHANGED <<now, source, writes, since, deleting, lag>>
        /\ store'.value = call[c].value /\ store'.expires = now + Ttl
        /\ store'.crossed = call[c].crossed /\ call[c].pc = "ran"
    BY <1>3 DEF Cached!Set
  <2>2. CallsFit' /\ SourceFits' /\ call' \in Calls_
    BY <2>1, RestingFits, CallChanges, Zenon
  <2>3. CallFits(call[c])
    BY DEF CacheInv, CallsFit
  <2>4. EntryFits' /\ Cached!StaleEntryCrossed' /\ store'.value \in Values \cup {Null}
    <3>1. store'.value \in Values \cup {Null} /\ Written(store'.value)
      BY <2>1, <2>3 DEF CallFits, Written
    <3>2. Stale(call[c].value) => now + Ttl <= since[call[c].value] + MaxRun + Ttl
      <4> SUFFICES ASSUME Stale(call[c].value)
                   PROVE  now + Ttl <= since[call[c].value] + MaxRun + Ttl
        OBVIOUS
      <4>1. call[c].began \in 0..MaxTime /\ call[c].value \in Values
        BY <2>3 DEF CallFits, Stale
      <4> QED
        BY <1>0, <2>1, <2>3, <4>1 DEF CallFits
    <3> QED
      BY <1>0, <2>1, <2>3, <3>1, <3>2
      DEF EntryFits, Cached!StaleEntryCrossed, CallFits, Stale, Written
  <2> QED
    BY <2>1, <2>2, <2>4, Zenon DEF CacheInv, Cached!TypeOK, Cached!StalenessIsBounded
<1>4. ASSUME NEW c \in Callers, Cached!Fail(c) PROVE CacheInv'
  <2>1. /\ call' = [call EXCEPT ![c] = Cached!Idle]
        /\ UNCHANGED <<now, source, writes, since, store, deleting, lag>>
    BY <1>4 DEF Cached!Fail
  <2>2. CallsFit' /\ SourceFits' /\ call' \in Calls_
    BY <2>1, RestingFits, CallChanges, Zenon
  <2> QED
    BY <2>1, <2>2, Zenon
    DEF CacheInv, Cached!TypeOK, EntryFits, Stale, Written, Cached!StaleEntryCrossed,
        Cached!StalenessIsBounded
<1>5. CASE Cached!Write
  <2>1. /\ writes' = writes + 1 /\ writes' \in Values
        /\ source' \in {writes + 1, Null}
        /\ since' = [v \in Values |-> IF v = source THEN now ELSE since[v]]
        /\ deleting' = TRUE
        /\ UNCHANGED <<now, store, call, lag>>
    BY <1>0, <1>5 DEF Cached!Write
  <2>2. Cached!TypeOK' /\ SourceFits'
    BY <1>0, <2>1 DEF Cached!TypeOK, CacheInv, SourceFits, Written
  \* whatever is stale now has been replaced just now, or was stale before
  <2>3. ASSUME NEW v \in Values, Stale(v)'
        PROVE  since'[v] = now \/ (Stale(v) /\ since'[v] = since[v])
    <3>1. since'[v] = IF v = source THEN now ELSE since[v]
      BY <2>1
    <3> QED
      BY <2>3, <3>1 DEF Stale
  <2>4. ASSUME NEW v, Written(v) PROVE Written(v)'
    BY <1>0, <2>1, <2>4 DEF Written
  <2>5. ASSUME NEW c \in Callers PROVE CallFits(call[c])'
    <3>1. CallFits(call[c]) /\ call'[c] = call[c]
      BY <2>1 DEF CacheInv, CallsFit
    <3>2. Stale(call[c].value)' => call[c].value \in Values
      BY <3>1 DEF Stale, CallFits
    <3> QED
      BY <1>0, <2>1, <2>3, <2>4, <3>1, <3>2 DEF CallFits, Stale
  <2>6. EntryFits'
    BY <1>0, <2>1, <2>3, <2>4 DEF CacheInv, EntryFits, Stale
  <2> QED
    BY <2>1, <2>2, <2>5, <2>6
    DEF CacheInv, CallsFit, Cached!StaleEntryCrossed, Cached!StalenessIsBounded
<1>6. CASE Cached!Delete
  <2>1. /\ store'.value = Null /\ store'.expires = 0
        /\ call' = [c \in Callers |->
                      [call[c] EXCEPT !.crossed = call[c].crossed \/ call[c].pc = "ran"]]
        /\ deleting' = FALSE /\ UNCHANGED <<now, source, writes, since, lag>>
    BY <1>6 DEF Cached!Delete, Cached!NoEntry
  <2>2. ASSUME NEW c \in Callers PROVE CallFits(call[c])'
    <3>1. CallFits(call[c])
      BY DEF CacheInv, CallsFit
    <3>2. /\ call'[c].pc = call[c].pc /\ call'[c].value = call[c].value
          /\ call'[c].began = call[c].began
          /\ call[c].pc = "ran" => call'[c].crossed
      BY <1>0, <2>1, Zenon
    <3>3. call'[c] \in [pc : {"idle", "run", "ran"}, value : Values \cup {Null},
                       began : 0 .. MaxTime, crossed : BOOLEAN]
      BY <1>0, <2>1, Zenon
    <3> QED
      BY <2>1, <3>1, <3>2, <3>3 DEF CallFits, Stale, Written
  <2>3. CallsFit' /\ call' \in Calls_
    BY <2>1, <2>2 DEF CallsFit, CallFits
  <2>4. EntryFits' /\ SourceFits' /\ Cached!StaleEntryCrossed'
    BY <1>0, <2>1 DEF CacheInv, EntryFits, SourceFits, Written, Stale, Cached!StaleEntryCrossed
  <2> QED
    BY <1>0, <2>1, <2>3, <2>4, Zenon DEF CacheInv, Cached!TypeOK, Cached!StalenessIsBounded
<1>7. CASE Cached!Tick
  <2>1. /\ now' = now + 1 /\ now' \in 0..MaxTime
        /\ \A c \in Callers : call[c].pc = "ran" => now - call[c].began < MaxRun
        /\ UNCHANGED <<source, writes, since, store, call, deleting, lag>>
    BY <1>0, <1>7 DEF Cached!Tick
  <2>2. ASSUME NEW c \in Callers PROVE CallFits(call[c])'
    <3>1. CallFits(call[c]) /\ call'[c] = call[c] /\ call[c].began \in 0..MaxTime
      BY <1>0, <2>1 DEF CacheInv, CallsFit
    <3> QED
      BY <1>0, <2>1, <3>1, SMTT(30) DEF CallFits, Stale, Written
  <2>3. EntryFits'
    BY <1>0, <2>1 DEF CacheInv, EntryFits, Written, Stale
  <2>4. SourceFits'
    BY <1>0, <2>1 DEF CacheInv, SourceFits, Written
  <2> QED
    BY <1>0, <2>1, <2>2, <2>3, <2>4
    DEF CacheInv, CallsFit, Cached!TypeOK, Cached!StaleEntryCrossed,
        Cached!StalenessIsBounded
<1> QED
  BY <1>1, <1>2, <1>3, <1>4, <1>5, <1>6, <1>7 DEF Cached!Next

-----------------------------------------------------------------------------
(* RedisSse: in order and once, calls in turn or overlapping.  A replica's *)
(* commands alternate, and so do the replies up to what Redis and the      *)
(* client have got to, whatever overlaps: so no client has two listeners.  *)

\* The commands `cs` on their way from a replica: each undoes the one before, the
\* last brought about whether the map holds a set, and the first changes whether
\* Redis sends the channel there (`on`).
CommandsFit(cs, on, set) ==
  /\ \A i \in 1 .. Len(cs) - 1 : cs[i].op # cs[i + 1].op
  /\ cs # <<>> => (cs[Len(cs)].op = "subscribe") = (set # 0)
  /\ cs # <<>> /\ cs[1].op = "subscribe" => ~on
  /\ cs = <<>> /\ set = 0 => ~on

\* The replies `w` on their way to a replica with n listeners: between one listener
\* and the next, and after the last when Redis sends nothing more, there is the reply
\* that removes them.
RepliesFit(w, on, n) ==
  /\ n \in {0, 1}
  /\ \A j \in DOMAIN w : w[j].op = "subscribed" =>
       /\ \A i \in 1 .. j - 1 : w[i].op = "subscribed" =>
            \E k \in i .. j : w[k].op = "unsubscribed"
       /\ n = 1 => \E k \in 1 .. j : w[k].op = "unsubscribed"
       /\ ~on => \E k \in j .. Len(w) : w[k].op = "unsubscribed"
  /\ ~on /\ n = 1 => \E k \in DOMAIN w : w[k].op = "unsubscribed"

\* What a stream got, and what is on its way to its replica, is in the order of
\* publication, and published.
IdsAscend(w, p) ==
  /\ \A i \in DOMAIN w : w[i].op = "message" => w[i].id <= p
  /\ \A j \in DOMAIN w : \A i \in 1 .. j - 1 :
       w[i].op = "message" /\ w[j].op = "message" => w[i].id < w[j].id

GotAscends(g, w, p) ==
  /\ \A i \in DOMAIN g :
       /\ g[i] <= p
       /\ \A j \in DOMAIN w : w[j].op = "message" => g[i] < w[j].id
  /\ \A i, j \in DOMAIN g : i < j => g[i] < g[j]

RedisInv(kind) ==
  /\ Redis(kind)!TypeOK
  /\ \A r \in Replicas :
       /\ current[r] \in 0 .. sets
       /\ CommandsFit(cmds[r], r \in subscribed, current[r])
       /\ RepliesFit(wire[r], r \in subscribed, listeners[r])
       /\ IdsAscend(wire[r], published)
  /\ \A s \in Streams : GotAscends(got[s], wire[Home[s]], published)

\* A sequence with one more, and with one less.
LEMMA SeqFacts ==
  ASSUME NEW T, NEW w \in Seq(T), NEW m \in T
  PROVE  /\ Append(w, m) \in Seq(T) /\ Len(Append(w, m)) = Len(w) + 1
         /\ DOMAIN Append(w, m) = 1 .. Len(w) + 1 /\ Append(w, m)[Len(w) + 1] = m
         /\ \A i \in 1 .. Len(w) : Append(w, m)[i] = w[i]
         /\ DOMAIN w = 1 .. Len(w) /\ Len(w) \in Nat
         /\ w # <<>> => /\ Tail(w) \in Seq(T) /\ Len(Tail(w)) = Len(w) - 1
                        /\ Len(w) \in Nat \ {0} /\ Head(w) = w[1] /\ w[1] \in T
                        /\ DOMAIN Tail(w) = 1 .. Len(w) - 1
                        /\ \A i \in 1 .. Len(w) - 1 : Tail(w)[i] = w[i + 1]
         /\ w = <<>> <=> Len(w) = 0
  OBVIOUS

\* A message, a reply that grants and one that removes on their way to a replica.
LEMMA ReplyAppended ==
  ASSUME NEW T, NEW w \in Seq(T), NEW m \in T, NEW on \in BOOLEAN, NEW n,
         RepliesFit(w, on, n)
  PROVE  /\ m.op = "message" => RepliesFit(Append(w, m), on, n)
         /\ m.op = "subscribed" /\ ~on => RepliesFit(Append(w, m), TRUE, n)
         /\ m.op = "unsubscribed" => RepliesFit(Append(w, m), FALSE, n)
<1> DEFINE v == Append(w, m)
           l == Len(w)
<1>1. /\ DOMAIN v = 1 .. l + 1 /\ Len(v) = l + 1 /\ v[l + 1] = m /\ l \in Nat
      /\ \A i \in 1 .. l : v[i] = w[i]
      /\ DOMAIN w = 1 .. l
  BY SeqFacts
<1> HIDE DEF v
<1>2. CASE m.op = "message"
  BY <1>1, <1>2 DEF RepliesFit
<1>3. CASE m.op = "subscribed" /\ ~on
  BY <1>1, <1>3 DEF RepliesFit
<1>4. CASE m.op = "unsubscribed"
  BY <1>1, <1>4 DEF RepliesFit
<1> QED
  BY <1>2, <1>3, <1>4, Zenon DEF v

\* The first of them arrives.
LEMMA ReplyTaken ==
  ASSUME NEW T, NEW w \in Seq(T), w # <<>>, NEW on \in BOOLEAN, NEW n,
         RepliesFit(w, on, n)
  PROVE  /\ w[1].op = "message" => RepliesFit(Tail(w), on, n)
         /\ w[1].op = "subscribed" => n = 0 /\ RepliesFit(Tail(w), on, 1)
         /\ w[1].op = "unsubscribed" => RepliesFit(Tail(w), on, 0)
<1> DEFINE v == Tail(w)
           l == Len(w)
<1>1. /\ DOMAIN v = 1 .. l - 1 /\ Len(v) = l - 1 /\ l \in Nat \ {0}
      /\ \A i \in 1 .. l - 1 : v[i] = w[i + 1]
      /\ DOMAIN w = 1 .. l
  OBVIOUS
<1> HIDE DEF v
<1> DEFINE Removed(x, a, b) == \E k \in a .. b : x[k].op = "unsubscribed"
<1>2. ASSUME NEW a \in 1 .. l, NEW b \in 1 .. l - 1, Removed(w, a + 1, b + 1)
      PROVE  Removed(v, a, b)
  <2>1. PICK k \in a + 1 .. b + 1 : w[k].op = "unsubscribed"
    BY <1>2
  <2>2. k - 1 \in a .. b /\ v[k - 1] = w[k]
    BY <1>1
  <2> QED
    BY <2>1, <2>2
<1>3. ASSUME NEW b \in 1 .. l - 1, Removed(w, 1, b + 1), w[1].op # "unsubscribed"
      PROVE  Removed(v, 1, b)
  <2>1. Removed(w, 1 + 1, b + 1)
    BY <1>1, <1>3
  <2> QED
    BY <1>1, <1>2, <2>1
<1>4. /\ n \in {0, 1}
      /\ \A j \in 1 .. l : w[j].op = "subscribed" =>
           /\ \A i \in 1 .. j - 1 : w[i].op = "subscribed" => Removed(w, i, j)
           /\ n = 1 => Removed(w, 1, j)
           /\ ~on => Removed(w, j, l)
      /\ ~on /\ n = 1 => Removed(w, 1, l)
  BY <1>1, Zenon DEF RepliesFit
<1>5. ASSUME NEW p \in {0, 1},
             \A j \in 1 .. l - 1 : v[j].op = "subscribed" =>
               /\ \A i \in 1 .. j - 1 : v[i].op = "subscribed" => Removed(v, i, j)
               /\ p = 1 => Removed(v, 1, j)
               /\ ~on => Removed(v, j, l - 1),
             ~on /\ p = 1 => Removed(v, 1, l - 1)
      PROVE  RepliesFit(v, on, p)
  BY <1>1, <1>5, Zenon DEF RepliesFit
\* removed after the one that is next to arrive, and after any other
<1>6. ASSUME NEW j \in 2 .. l, w[1].op = "subscribed", w[j].op = "subscribed"
      PROVE  Removed(v, 1, j - 1)
  <2>1. Removed(w, 1, j)
    BY <1>1, <1>4, <1>6
  <2>2. j - 1 \in 1 .. l - 1 /\ (j - 1) + 1 = j
    BY <1>1
  <2> QED
    BY <1>3, <1>6, <2>1, <2>2, Zenon
<1>7. ASSUME NEW j \in 1 .. l - 1, v[j].op = "subscribed"
      PROVE  /\ \A i \in 1 .. j - 1 : v[i].op = "subscribed" => Removed(v, i, j)
             /\ n = 1 /\ w[1].op # "unsubscribed" => Removed(v, 1, j)
             /\ w[1].op = "subscribed" => Removed(v, 1, j)
             /\ ~on => Removed(v, j, l - 1)
  <2>1. j + 1 \in 2 .. l /\ w[j + 1].op = "subscribed" /\ (j + 1) - 1 = j
    BY <1>1, <1>7
  <2>2. ASSUME NEW i \in 1 .. j - 1, v[i].op = "subscribed" PROVE Removed(v, i, j)
    <3>1. i + 1 \in 1 .. (j + 1) - 1 /\ w[i + 1].op = "subscribed" /\ i \in 1 .. l
      BY <1>1, <2>2
    <3>2. Removed(w, i + 1, j + 1)
      BY <1>4, <2>1, <3>1
    <3> QED
      BY <1>2, <3>1, <3>2
  <2>3. ASSUME n = 1, w[1].op # "unsubscribed" PROVE Removed(v, 1, j)
    BY <1>1, <1>3, <1>4, <2>1, <2>3
  <2>4. ASSUME w[1].op = "subscribed" PROVE Removed(v, 1, j)
    BY <1>6, <2>1, <2>4
  <2>5. ASSUME ~on PROVE Removed(v, j, l - 1)
    <3>1. Removed(w, j + 1, (l - 1) + 1)
      BY <1>1, <1>4, <2>1, <2>5
    <3>2. j \in 1 .. l /\ l - 1 \in 1 .. l - 1
      BY <1>1
    <3> QED
      BY <1>2, <3>1, <3>2, Zenon
  <2> QED
    BY <2>2, <2>3, <2>4, <2>5
<1>8. ASSUME ~on, n = 1 \/ w[1].op = "subscribed", w[1].op # "unsubscribed"
      PROVE  Removed(v, 1, l - 1)
  <2>1. Removed(w, 1, l)
    BY <1>1, <1>4, <1>8
  <2>2. l - 1 \in 1 .. l - 1 /\ (l - 1) + 1 = l
    BY <1>1, <1>8, <2>1
  <2> QED
    BY <1>3, <1>8, <2>1, <2>2, Zenon
<1> HIDE DEF Removed
<1>9. w[1].op = "message" => RepliesFit(v, on, n)
  BY <1>4, <1>5, <1>7, <1>8
<1>10. w[1].op = "subscribed" => n = 0 /\ RepliesFit(v, on, 1)
  <2>1. w[1].op = "subscribed" => n = 0
    BY <1>1, <1>4 DEF Removed
  <2> QED
    BY <1>5, <1>7, <1>8, <2>1
<1>11. w[1].op = "unsubscribed" => RepliesFit(v, on, 0)
  BY <1>5, <1>7
<1> QED
  BY <1>9, <1>10, <1>11 DEF v

\* A command is sent, and the first is carried out or fails.
LEMMA CommandSent ==
  ASSUME NEW T, NEW cs \in Seq(T), NEW m \in T, NEW on \in BOOLEAN, NEW set, NEW now_,
         CommandsFit(cs, on, set)
  PROVE  /\ m.op = "subscribe" /\ set = 0 /\ now_ # 0 => CommandsFit(Append(cs, m), on, now_)
         /\ m.op = "unsubscribe" /\ set # 0 => CommandsFit(Append(cs, m), on, 0)
<1> DEFINE v == Append(cs, m)
           l == Len(cs)
<1>1. /\ Len(v) = l + 1 /\ v[l + 1] = m /\ l \in Nat /\ v # <<>>
      /\ \A i \in 1 .. l : v[i] = cs[i]
      /\ cs = <<>> <=> l = 0
  OBVIOUS
<1> HIDE DEF v
<1>2. CASE cs = <<>>
  BY <1>1, <1>2 DEF CommandsFit
<1>3. CASE cs # <<>>
  <2>1. l \in 1 .. l /\ v[l] = cs[l] /\ v[1] = cs[1] /\ l # 0
    BY <1>1, <1>3
  <2> QED
    BY <1>1, <1>3, <2>1 DEF CommandsFit
<1> QED
  BY <1>2, <1>3 DEF v

\* The first command is carried out or fails: a subscription finds Redis not sending
\* the channel, and what is left fits whether it does now or not.
LEMMA CommandTaken ==
  ASSUME NEW T, NEW cs \in Seq(T), cs # <<>>, NEW on \in BOOLEAN, NEW set,
         CommandsFit(cs, on, set)
  PROVE  /\ cs[1].op = "subscribe" =>
              /\ ~on
              /\ CommandsFit(Tail(cs), TRUE, set) /\ CommandsFit(Tail(cs), FALSE, set)
         /\ cs[1].op = "unsubscribe" => CommandsFit(Tail(cs), FALSE, set)
<1> DEFINE v == Tail(cs)
           l == Len(cs)
<1>1. /\ Len(v) = l - 1 /\ l \in Nat \ {0}
      /\ \A i \in 1 .. l - 1 : v[i] = cs[i + 1] /\ v \in Seq(T)
  OBVIOUS
<1>0. v = <<>> <=> l = 1
  BY <1>1
<1> HIDE DEF v
<1>2. CASE l = 1
  <2>1. (cs[1].op = "subscribe") = (set # 0)
    BY <1>2 DEF CommandsFit
  <2>2. cs[1].op = "subscribe" => ~on
    BY DEF CommandsFit
  <2>3. cs[1].op = "subscribe" => CommandsFit(v, TRUE, set)
    BY <1>0, <1>1, <1>2, <2>1 DEF CommandsFit
  <2>4. CommandsFit(v, FALSE, set)
    BY <1>0, <1>1, <1>2 DEF CommandsFit
  <2> QED
    BY <2>2, <2>3, <2>4, Zenon DEF v
<1>3. CASE l # 1
  <2>1. v[1] = cs[2] /\ v[l - 1] = cs[l] /\ 1 \in 1 .. l - 1
    BY <1>1, <1>3
  <2>2. \A i \in 1 .. (l - 1) - 1 : v[i].op # v[i + 1].op
    BY <1>1 DEF CommandsFit
  <2> QED
    BY <1>0, <1>1, <1>3, <2>1, <2>2 DEF CommandsFit
<1> QED
  BY <1>2, <1>3, Zenon DEF v

HasIds(w) == \A i \in DOMAIN w : w[i].op = "message" => w[i].id \in Nat

\* The next event is published, another reply is sent, and the first one arrives.
LEMMA IdsAppended ==
  ASSUME NEW T, NEW w \in Seq(T), NEW m \in T, NEW p \in Nat, NEW g \in Seq(Nat), HasIds(w),
         IdsAscend(w, p), GotAscends(g, w, p)
  PROVE  /\ m.op = "message" /\ m.id = p + 1 =>
              IdsAscend(Append(w, m), p + 1) /\ GotAscends(g, Append(w, m), p + 1)
         /\ m.op # "message" => IdsAscend(Append(w, m), p) /\ GotAscends(g, Append(w, m), p)
         /\ IdsAscend(w, p + 1) /\ GotAscends(g, w, p + 1)
<1> DEFINE v == Append(w, m)
           l == Len(w)
<1>1. /\ DOMAIN v = 1 .. l + 1 /\ v[l + 1] = m /\ l \in Nat
      /\ \A i \in 1 .. l : v[i] = w[i]
      /\ DOMAIN w = 1 .. l
  OBVIOUS
<1>2. DOMAIN g = 1 .. Len(g) /\ \A i \in DOMAIN g : g[i] \in Nat
  OBVIOUS
<1>0. /\ \A i \in 1 .. l : w[i].op = "message" => w[i].id \in Nat /\ w[i].id <= p
      /\ \A j \in 1 .. l : \A i \in 1 .. j - 1 :
           w[i].op = "message" /\ w[j].op = "message" => w[i].id < w[j].id
  BY <1>1, Zenon DEF HasIds, IdsAscend
<1>6. /\ \A i \in DOMAIN g :
           g[i] <= p /\ \A j \in 1 .. l : w[j].op = "message" => g[i] < w[j].id
      /\ \A i, j \in DOMAIN g : i < j => g[i] < g[j]
  BY <1>1, Zenon DEF GotAscends
<1> HIDE DEF v
<1>3. ASSUME m.op = "message", m.id = p + 1 PROVE IdsAscend(v, p + 1) /\ GotAscends(g, v, p + 1)
  <2>1. ASSUME NEW i \in 1 .. l + 1, v[i].op = "message" PROVE v[i].id <= p + 1
    <3>1. CASE i \in 1 .. l
      <4>1. v[i] = w[i]
        BY <1>1, <3>1
      <4>2. w[i].id \in Nat /\ w[i].id <= p
        BY <1>0, <2>1, <3>1, <4>1
      <4> QED
        BY <4>1, <4>2
    <3>2. CASE i = l + 1
      <4>1. v[i].id = p + 1
        BY <1>1, <1>3, <3>2
      <4> QED
        BY <4>1
    <3> QED
      BY <1>1, <3>1, <3>2
  <2>2. ASSUME NEW j \in 1 .. l + 1, NEW i \in 1 .. j - 1,
               v[i].op = "message", v[j].op = "message"
        PROVE  v[i].id < v[j].id
    <3>1. i \in 1 .. l /\ v[i] = w[i] /\ w[i].id \in Nat /\ w[i].id <= p
      BY <1>1, <1>0, <2>2
    <3>2. CASE j \in 1 .. l
      BY <1>0, <1>1, <2>2, <3>1, <3>2
    <3>3. CASE j = l + 1
      BY <1>1, <1>3, <3>1, <3>3
    <3>4. j \in 1 .. l \/ j = l + 1
      <4>1. l \in Nat
        BY <1>1, Zenon
      <4> QED
        BY <2>2, <4>1
    <3> QED
      BY <3>2, <3>3, <3>4, Zenon
  <2>3. IdsAscend(v, p + 1)
    BY <1>1, <2>1, <2>2, Zenon DEF IdsAscend
  <2>4. GotAscends(g, v, p + 1)
    BY <1>1, <1>2, <1>3, <1>6, SMTT(30) DEF GotAscends
  <2> QED
    BY <2>3, <2>4
<1>4. ASSUME m.op # "message" PROVE IdsAscend(v, p) /\ GotAscends(g, v, p)
  <2>1. \A i \in 1 .. l + 1 : v[i].op = "message" => i \in 1 .. l /\ v[i] = w[i]
    BY <1>1, <1>4
  <2>2. IdsAscend(v, p)
    <3>1. \A i \in 1 .. l + 1 : v[i].op = "message" => v[i].id <= p
      BY <1>0, <2>1
    <3>2. \A j \in 1 .. l + 1 : \A i \in 1 .. j - 1 :
            v[i].op = "message" /\ v[j].op = "message" => v[i].id < v[j].id
      BY <1>0, <1>1, <2>1
    <3> QED
      BY <1>1, <3>1, <3>2 DEF IdsAscend
  <2>3. GotAscends(g, v, p)
    BY <1>1, <1>6, <2>1 DEF GotAscends
  <2> QED
    BY <2>2, <2>3
<1>5. IdsAscend(w, p + 1) /\ GotAscends(g, w, p + 1)
  <2>1. \A i \in 1 .. l : w[i].op = "message" => w[i].id <= p + 1
    BY <1>0
  <2>2. \A i \in DOMAIN g : g[i] <= p + 1
    BY <1>2, <1>6
  <2> QED
    BY <1>0, <1>1, <1>6, <2>1, <2>2 DEF IdsAscend, GotAscends
<1> QED
  BY <1>3, <1>4, <1>5 DEF v

\* The first reply arrives; if it is an event, at the stream, as often as the client has
\* listeners.
LEMMA IdsTaken ==
  ASSUME NEW T, NEW w \in Seq(T), w # <<>>, NEW p \in Nat, NEW g \in Seq(Nat), HasIds(w),
         IdsAscend(w, p), GotAscends(g, w, p), NEW n \in {0, 1}
  PROVE  /\ IdsAscend(Tail(w), p) /\ GotAscends(g, Tail(w), p)
         /\ w[1].op = "message" => GotAscends(g \o [i \in 1 .. n |-> w[1].id], Tail(w), p)
<1> DEFINE v == Tail(w)
           l == Len(w)
           h == g \o [i \in 1 .. n |-> w[1].id]
<1>1. /\ DOMAIN v = 1 .. l - 1 /\ l \in Nat \ {0}
      /\ \A i \in 1 .. l - 1 : v[i] = w[i + 1]
      /\ DOMAIN w = 1 .. l
  OBVIOUS
<1>2. DOMAIN g = 1 .. Len(g) /\ Len(g) \in Nat /\ \A i \in DOMAIN g : g[i] \in Nat
  OBVIOUS
<1> HIDE DEF v
<1>3. IdsAscend(v, p) /\ GotAscends(g, v, p)
  <2>1. \A i \in 1 .. l - 1 : i + 1 \in 1 .. l
    BY <1>1
  <2>2. \A j \in 1 .. l - 1 : \A i \in 1 .. j - 1 : i \in 1 .. l - 1 /\ i + 1 \in 1 .. (j + 1) - 1
    BY <1>1
  <2>3. IdsAscend(v, p)
    BY <1>1, <2>1, <2>2, Zenon DEF IdsAscend
  <2>4. GotAscends(g, v, p)
    BY <1>1, <2>1, Zenon DEF GotAscends
  <2> QED
    BY <2>3, <2>4
<1>4. ASSUME w[1].op = "message" PROVE GotAscends(h, v, p)
  <2>1. w[1].id \in Nat /\ w[1].id <= p
    <3>1. 1 \in DOMAIN w
      BY <1>1
    <3>2. w[1].id \in Nat
      BY <1>4, <3>1 DEF HasIds
    <3>3. w[1].id <= p
      BY <1>4, <3>1 DEF IdsAscend
    <3> QED
      BY <3>2, <3>3
  <2>2. \A j \in DOMAIN v : v[j].op = "message" => w[1].id < v[j].id
    <3>1. ASSUME NEW j \in 1 .. l - 1, v[j].op = "message" PROVE w[1].id < v[j].id
      <4>1. j + 1 \in 1 .. l /\ 1 \in 1 .. (j + 1) - 1
        BY <1>1
      <4> QED
        BY <1>1, <1>4, <3>1, <4>1, Zenon DEF IdsAscend
    <3> QED
      BY <1>1, <3>1
  <2>3. \A i \in DOMAIN g : g[i] < w[1].id
    <3>1. 1 \in DOMAIN w
      BY <1>1
    <3> QED
      BY <1>4, <3>1 DEF GotAscends
  <2>4. CASE n = 0
    <3>1. h = g
      BY <2>4
    <3> QED
      BY <1>3, <3>1, Zenon
  <2>5. CASE n = 1
    <3>1. /\ DOMAIN h = 1 .. Len(g) + 1 /\ h[Len(g) + 1] = w[1].id
          /\ \A i \in 1 .. Len(g) : h[i] = g[i]
      <4>1. [i \in 1 .. n |-> w[1].id] = <<w[1].id>>
        BY <2>5
      <4>2. <<w[1].id>> \in Seq(Nat) /\ Len(<<w[1].id>>) = 1 /\ <<w[1].id>>[1] = w[1].id
        BY <2>1
      <4>3. h = g \o <<w[1].id>>
        BY <4>1, Zenon
      <4> HIDE DEF h
      <4> QED
        BY <4>2, <4>3, ConcatProperties
    <3> HIDE DEF h
    <3>2. \A i \in DOMAIN h : h[i] <= p /\ \A j \in DOMAIN v : v[j].op = "message" => h[i] < v[j].id
      BY <1>2, <1>3, <2>1, <2>2, <3>1, SMTT(30) DEF GotAscends
    <3>3. \A i, j \in DOMAIN h : i < j => h[i] < h[j]
      BY <1>2, <1>3, <2>3, <3>1, SMTT(30) DEF GotAscends
    <3> QED
      BY <3>2, <3>3 DEF GotAscends
  <2> QED
    BY <2>4, <2>5
<1> QED
  BY <1>3, <1>4 DEF v

\* What commands and replies are, for both kinds.
LEMMA Packets ==
  ASSUME NEW kind \in RedisParts
  PROVE  /\ \A s \in Streams :
              /\ [op |-> "subscribe", by |-> s] \in Redis(kind)!Command
              /\ [op |-> "subscribed", by |-> s] \in Redis(kind)!Reply
         /\ [op |-> "unsubscribe"] \in Redis(kind)!Command
         /\ [op |-> "unsubscribed"] \in Redis(kind)!Reply
         /\ \A m \in Redis(kind)!Messages : [op |-> "message", id |-> m] \in Redis(kind)!Reply
         /\ \A x \in Redis(kind)!Command :
              /\ x.op \in {"subscribe", "unsubscribe"}
              /\ x.op = "subscribe" => x.by \in Streams
         /\ \A x \in Redis(kind)!Reply :
              /\ x.op \in {"message", "subscribed", "unsubscribed"}
              /\ x.op = "subscribed" => x.by \in Streams
              /\ x.op = "message" => x.id \in Redis(kind)!Messages
         /\ Redis(kind)!Messages \subseteq Nat
         /\ Home \in [Streams -> Replicas]
<1>1. Home \in [Streams -> Replicas]
  BY PlatformAssumption DEF Redis!RedisSseAssumption
<1> QED
  BY <1>1 DEF Redis!Command, Redis!Reply, Redis!Messages

\* At first there are no commands, no replies and no events.
LEMMA RedisInit ==
  ASSUME NEW kind \in RedisParts, Redis(kind)!Init
  PROVE  RedisInv(kind)
<1> USE Packets DEF Redis!Init
<1>1. Redis(kind)!TypeOK
  BY PlatformAssumption DEF Redis!TypeOK, Redis!Stage, Redis!RedisSseAssumption, RedisParts
<1>2. ASSUME NEW r \in Replicas
      PROVE  /\ current[r] \in 0 .. sets
             /\ CommandsFit(cmds[r], r \in subscribed, current[r])
             /\ RepliesFit(wire[r], r \in subscribed, listeners[r])
             /\ IdsAscend(wire[r], published)
  BY DEF CommandsFit, RepliesFit, IdsAscend
<1>3. ASSUME NEW s \in Streams PROVE GotAscends(got[s], wire[Home[s]], published)
  BY DEF GotAscends
<1> QED
  BY <1>1, <1>2, <1>3 DEF RedisInv

\* Of a replica's streams, and of the replicas, a step concerns one.
LEMMA RedisStreamStep ==
  ASSUME NEW kind \in RedisParts, RedisInv(kind), NEW s \in Streams,
         Redis(kind)!StreamStep(s)
  PROVE  RedisInv(kind)'
<1> USE Packets DEF RedisInv
<1> DEFINE h == Home[s]
           C == Redis(kind)!Command
           request == [op |-> "subscribe", by |-> s]
           quit == [op |-> "unsubscribe"]
<1>0. /\ current \in [Replicas -> Nat] /\ sets \in Nat /\ object \in [Streams -> 0 .. sets]
      /\ joined \subseteq Streams /\ joining \in [Streams -> Redis(kind)!Stage]
      /\ cmds \in [Replicas -> Seq(C)] /\ h \in Replicas
  BY DEF Redis!TypeOK
<1>1. CASE Redis(kind)!RegisterFirst(s)
  <2>1. /\ current[h] = 0 /\ sets' = sets + 1
        /\ current' = [current EXCEPT ![h] = sets + 1]
        /\ object' = [object EXCEPT ![s] = sets + 1]
        /\ joining' = [joining EXCEPT ![s] = "subscribing"]
        /\ cmds' = [cmds EXCEPT ![h] = Append(cmds[h], request)]
        /\ UNCHANGED <<joined, wire, subscribed, listeners, got, due, published, faults>>
    BY <1>1 DEF Redis!RegisterFirst
  <2>2. request \in C /\ cmds[h] \in Seq(C) /\ Append(cmds[h], request) \in Seq(C)
    <3>1. request \in C /\ cmds[h] \in Seq(C)
      BY <1>0, Zenon
    <3> HIDE DEF request, h, C
    <3> QED
      BY <3>1
  <2>3. Redis(kind)!TypeOK'
    <3>1. cmds' \in [Replicas -> Seq(C)]
      BY <1>0, <2>1, <2>2
    <3>2. object' \in [Streams -> 0 .. sets']
      BY <1>0, <2>1
    <3>3. current' \in [Replicas -> Nat] /\ sets' \in Nat
      BY <1>0, <2>1
    <3> QED
      BY <1>0, <2>1, <3>1, <3>2, <3>3, Zenon DEF Redis!TypeOK, Redis!Stage
  <2>4. CommandsFit(Append(cmds[h], request), h \in subscribed, sets + 1)
    <3>1. CommandsFit(cmds[h], h \in subscribed, current[h]) /\ sets + 1 # 0
      BY <1>0
    <3>2. request.op = "subscribe"
      OBVIOUS
    <3> DEFINE on == h \in subscribed
    <3>3. on \in BOOLEAN
      OBVIOUS
    <3> HIDE DEF request, h, C, on, RedisInv
    <3>4. CommandsFit(cmds[h], on, current[h])
      BY <3>1 DEF on
    <3>5. CommandsFit(Append(cmds[h], request), on, sets + 1)
      BY <2>1, <2>2, <3>1, <3>2, <3>3, <3>4, CommandSent
    <3> QED
      BY <3>5 DEF on
  <2>5. ASSUME NEW r \in Replicas
        PROVE  CommandsFit(cmds'[r], r \in subscribed, current'[r]) /\ current'[r] \in 0 .. sets'
    BY <1>0, <2>1, <2>4
  <2> QED
    BY <2>1, <2>3, <2>5
<1>2. CASE Redis(kind)!RegisterNext(s)
  <2>1. /\ object' = [object EXCEPT ![s] = current[h]]
        /\ joined' = joined \cup {s}
        /\ joining' = [joining EXCEPT ![s] = "live"]
        /\ UNCHANGED <<current, sets, cmds, wire, subscribed, listeners, got, due, published,
                       faults>>
    BY <1>2 DEF Redis!RegisterNext, Redis!redisVars
  <2>2. current[h] \in 0 .. sets
    BY DEF RedisInv
  <2>3. Redis(kind)!TypeOK'
    BY <1>0, <2>1, <2>2 DEF Redis!TypeOK, Redis!Stage
  <2> QED
    BY <2>1, <2>3
<1>3. CASE Redis(kind)!Join(s)
  <2>1. /\ joined' = joined \cup {s}
        /\ joining' = [joining EXCEPT ![s] = "live"]
        /\ UNCHANGED <<current, sets, object, cmds, wire, subscribed, listeners, got, due,
                       published, faults>>
    BY <1>3 DEF Redis!Join, Redis!redisVars
  <2>2. Redis(kind)!TypeOK'
    BY <1>0, <2>1 DEF Redis!TypeOK, Redis!Stage
  <2> QED
    BY <2>1, <2>2
<1>4. CASE Redis(kind)!Unregister(s)
  <2>1. /\ joining' = [joining EXCEPT ![s] = "gone"]
        /\ joined' \subseteq joined
        /\ UNCHANGED <<sets, object, wire, subscribed, listeners, got, due, published, faults>>
        /\ \/ UNCHANGED <<current, cmds>>
           \/ /\ current[h] # 0 /\ current' = [current EXCEPT ![h] = 0]
              /\ cmds' = [cmds EXCEPT ![h] = Append(cmds[h], quit)]
    BY <1>4 DEF Redis!Unregister
  <2>2. CASE UNCHANGED <<current, cmds>>
    <3>1. Redis(kind)!TypeOK'
      BY <1>0, <2>1, <2>2, Zenon DEF Redis!TypeOK, Redis!Stage
    <3> QED
      BY <2>1, <2>2, <3>1
  <2>3. CASE /\ current[h] # 0 /\ current' = [current EXCEPT ![h] = 0]
             /\ cmds' = [cmds EXCEPT ![h] = Append(cmds[h], quit)]
    <3>1. cmds' \in [Replicas -> Seq(C)] /\ current' \in [Replicas -> Nat]
      BY <1>0, <2>3
    <3>2. Redis(kind)!TypeOK'
      BY <1>0, <2>1, <3>1, Zenon DEF Redis!TypeOK, Redis!Stage
    <3>3. CommandsFit(Append(cmds[h], quit), h \in subscribed, 0)
      <4>1. CommandsFit(cmds[h], h \in subscribed, current[h])
        BY <1>0
      <4>2. quit.op = "unsubscribe" /\ quit \in C /\ cmds[h] \in Seq(C)
        BY <1>0
      <4> DEFINE on == h \in subscribed
      <4>3. on \in BOOLEAN
        OBVIOUS
      <4> HIDE DEF quit, h, C, on, RedisInv
      <4>4. CommandsFit(cmds[h], on, current[h])
        BY <4>1 DEF on
      <4>5. CommandsFit(Append(cmds[h], quit), on, 0)
        BY <2>3, <4>2, <4>3, <4>4, CommandSent
      <4> QED
        BY <4>5 DEF on
    <3>4. ASSUME NEW r \in Replicas
          PROVE  CommandsFit(cmds'[r], r \in subscribed, current'[r]) /\ current'[r] \in 0 .. sets
      BY <1>0, <2>3, <3>3
    <3> QED
      BY <2>1, <3>2, <3>4
  <2> QED
    BY <2>1, <2>2, <2>3
<1> QED
  BY <1>1, <1>2, <1>3, <1>4 DEF Redis!StreamStep

\* The invariant of one replica and of the streams that are registered there.
ReplicaFits(r) ==
  /\ current[r] \in 0 .. sets
  /\ CommandsFit(cmds[r], r \in subscribed, current[r])
  /\ RepliesFit(wire[r], r \in subscribed, listeners[r])
  /\ IdsAscend(wire[r], published)
  /\ \A s \in Streams : Home[s] = r => GotAscends(got[s], wire[r], published)

\* The invariant replica by replica.
LEMMA RedisByReplica ==
  ASSUME NEW kind \in RedisParts
  PROVE  /\ RedisInv(kind) <=> Redis(kind)!TypeOK /\ \A r \in Replicas : ReplicaFits(r)
         /\ RedisInv(kind)' <=> Redis(kind)!TypeOK' /\ \A r \in Replicas : ReplicaFits(r)'
  BY Packets DEF RedisInv, ReplicaFits

\* The types of what the steps of Redis and of its client work on.
LEMMA RedisTypes ==
  ASSUME NEW kind \in RedisParts, Redis(kind)!TypeOK, NEW r \in Replicas
  PROVE  /\ cmds \in [Replicas -> Seq(Redis(kind)!Command)]
         /\ wire \in [Replicas -> Seq(Redis(kind)!Reply)]
         /\ cmds[r] \in Seq(Redis(kind)!Command) /\ wire[r] \in Seq(Redis(kind)!Reply)
         /\ listeners \in [Replicas -> Nat] /\ published \in Nat
         /\ subscribed \subseteq Replicas /\ (r \in subscribed) \in BOOLEAN
         /\ got \in [Streams -> Seq(Redis(kind)!Messages)]
         /\ \A s \in Streams : got[s] \in Seq(Nat)
         /\ joining \in [Streams -> Redis(kind)!Stage]
         /\ HasIds(wire[r])
<1>1. /\ wire[r] \in Seq(Redis(kind)!Reply) /\ cmds[r] \in Seq(Redis(kind)!Command)
      /\ \A s \in Streams : got[s] \in Seq(Redis(kind)!Messages)
  BY DEF Redis!TypeOK
<1>2. \A s \in Streams : got[s] \in Seq(Nat)
  BY <1>1, Packets
<1>3. HasIds(wire[r])
  BY <1>1, Packets DEF HasIds
<1> QED
  BY <1>1, <1>2, <1>3, Packets DEF Redis!TypeOK

\* An event is published with the next number: behind whatever is on its way.
LEMMA RedisPublishStep ==
  ASSUME NEW kind \in RedisParts, RedisInv(kind), Redis(kind)!Publish
  PROVE  RedisInv(kind)'
<1> DEFINE R == Redis(kind)!Reply
           m == [op |-> "message", id |-> published + 1]
<1>0. published + 1 \in Redis(kind)!Messages
  <2>1. /\ MaxMessages \in Nat /\ MaxHurried \in Nat
    BY PlatformAssumption DEF Redis!RedisSseAssumption, RedisParts
  <2> QED
    BY <2>1 DEF Redis!Publish, RedisInv, Redis!TypeOK, Redis!Messages
<1>1. /\ published' = published + 1 /\ published' \in Redis(kind)!Messages
      /\ wire' = [r \in Replicas |-> IF r \in subscribed THEN Append(wire[r], m) ELSE wire[r]]
      /\ due' = [s \in Streams |->
                   IF joining[s] = "live" THEN due[s] \cup {published + 1} ELSE due[s]]
      /\ UNCHANGED <<current, sets, object, joined, joining, cmds, subscribed, listeners, got,
                     faults>>
  BY <1>0 DEF Redis!Publish, Redis!localVars
<1>2. Redis(kind)!TypeOK
  BY DEF RedisInv
<1>3. m \in R /\ m.op = "message" /\ m.id = published + 1
  BY <1>1, Packets
<1>4. ASSUME NEW r \in Replicas PROVE ReplicaFits(r)' /\ wire'[r] \in Seq(R)
  <2>1. ReplicaFits(r)
    BY RedisByReplica
  <2>2. /\ wire[r] \in Seq(R) /\ HasIds(wire[r]) /\ published \in Nat
        /\ \A s \in Streams : got[s] \in Seq(Nat)
    BY <1>2, RedisTypes
  <2> DEFINE on == r \in subscribed
  <2>3. on \in BOOLEAN /\ RepliesFit(wire[r], on, listeners[r]) /\ IdsAscend(wire[r], published)
    BY <2>1 DEF ReplicaFits
  <2>4. ASSUME NEW s \in Streams, Home[s] = r
        PROVE  GotAscends(got[s], wire[r], published)
    BY <2>1, <2>4 DEF ReplicaFits
  <2> HIDE DEF on, m, R
  <2>5. CASE wire'[r] = Append(wire[r], m)
    <3>1. Append(wire[r], m) \in Seq(R)
      BY <1>3, <2>2
    <3>2. RepliesFit(wire'[r], on, listeners[r])
      BY <1>3, <2>2, <2>3, <2>5, ReplyAppended, Zenon
    <3>3. IdsAscend(wire'[r], published + 1)
      <4>1. GotAscends(<<>>, wire[r], published) /\ <<>> \in Seq(Nat)
        BY DEF GotAscends
      <4> QED
        BY <1>3, <2>2, <2>3, <2>5, <4>1, IdsAppended, Zenon
    <3>4. ASSUME NEW s \in Streams, Home[s] = r
          PROVE  GotAscends(got[s], wire'[r], published + 1)
      BY <1>3, <2>2, <2>3, <2>4, <2>5, <3>4, IdsAppended, Zenon
    <3> QED
      BY <1>1, <2>1, <2>5, <3>1, <3>2, <3>3, <3>4 DEF ReplicaFits, on
  <2>6. CASE wire'[r] = wire[r]
    <3>1. IdsAscend(wire[r], published + 1)
      <4>1. GotAscends(<<>>, wire[r], published) /\ <<>> \in Seq(Nat)
        BY DEF GotAscends
      <4> QED
        BY <1>3, <2>2, <2>3, <4>1, IdsAppended, Zenon
    <3>2. ASSUME NEW s \in Streams, Home[s] = r
          PROVE  GotAscends(got[s], wire[r], published + 1)
      BY <1>3, <2>2, <2>3, <2>4, <3>2, IdsAppended
    <3> QED
      BY <1>1, <2>1, <2>2, <2>6, <3>1, <3>2, Zenon DEF ReplicaFits
  <2> QED
    BY <1>1, <2>5, <2>6
<1>5. wire' \in [Replicas -> Seq(R)]
  BY <1>1, <1>4
<1>6. due' \in [Streams -> SUBSET Redis(kind)!Messages]
  BY <1>1, <1>2 DEF Redis!TypeOK
<1>7. Redis(kind)!TypeOK'
  BY <1>1, <1>2, <1>5, <1>6 DEF Redis!TypeOK, Redis!Messages
<1> QED
  BY <1>4, <1>7, RedisByReplica

\* What Redis does with a replica's first command, and its client with the first reply.
LEMMA RedisReplicaStep ==
  ASSUME NEW kind \in RedisParts, RedisInv(kind), NEW r \in Replicas,
         Redis(kind)!ReplicaStep(r)
  PROVE  RedisInv(kind)'
<1> DEFINE C == Redis(kind)!Command
           R == Redis(kind)!Reply
           on == r \in subscribed
           n == listeners[r]
           cs == cmds[r]
           w == wire[r]
<1>1. Redis(kind)!TypeOK /\ \A q \in Replicas : ReplicaFits(q)
  BY RedisByReplica
<1>2. /\ cmds \in [Replicas -> Seq(C)] /\ cs \in Seq(C)
      /\ wire \in [Replicas -> Seq(R)] /\ w \in Seq(R) /\ HasIds(w)
      /\ listeners \in [Replicas -> Nat] /\ published \in Nat /\ subscribed \subseteq Replicas
      /\ joining \in [Streams -> Redis(kind)!Stage] /\ on \in BOOLEAN
      /\ \A s \in Streams : got[s] \in Seq(Nat)
      /\ got \in [Streams -> Seq(Redis(kind)!Messages)]
  BY <1>1, RedisTypes
<1>3. /\ CommandsFit(cs, on, current[r]) /\ RepliesFit(w, on, n) /\ IdsAscend(w, published)
      /\ \A s \in Streams : Home[s] = r => GotAscends(got[s], w, published)
  BY <1>1 DEF ReplicaFits
\* what is left of two sequences when the first of either has gone
<1>4. ASSUME cs # <<>>
      PROVE  /\ Tail(cs) \in Seq(C) /\ cs[1] = Head(cs) /\ Head(cs) \in C
             /\ [cmds EXCEPT ![r] = Tail(cs)] \in [Replicas -> Seq(C)]
  BY <1>2, <1>4
<1>5. ASSUME w # <<>>
      PROVE  /\ Tail(w) \in Seq(R) /\ w[1] = Head(w) /\ Head(w) \in R
             /\ [wire EXCEPT ![r] = Tail(w)] \in [Replicas -> Seq(R)]
  BY <1>2, <1>5
\* a reply that is no message is sent
<1>6. ASSUME NEW m \in R, m.op # "message"
      PROVE  /\ Append(w, m) \in Seq(R) /\ IdsAscend(Append(w, m), published)
             /\ [wire EXCEPT ![r] = Append(w, m)] \in [Replicas -> Seq(R)]
             /\ \A s \in Streams : Home[s] = r => GotAscends(got[s], Append(w, m), published)
  <2> HIDE DEF R, w
  <2>1. Append(w, m) \in Seq(R)
    BY <1>2
  <2>2. IdsAscend(Append(w, m), published)
    <3>1. GotAscends(<<>>, w, published) /\ <<>> \in Seq(Nat)
      BY DEF GotAscends
    <3> QED
      BY <1>2, <1>3, <1>6, <3>1, IdsAppended, Zenon
  <2>3. ASSUME NEW s \in Streams, Home[s] = r
        PROVE  GotAscends(got[s], Append(w, m), published)
    BY <1>2, <1>3, <1>6, <2>3, IdsAppended, Zenon
  <2> QED
    BY <1>2, <2>1, <2>2, <2>3
<1>7. CASE Redis(kind)!Subscribe(r)
  <2> DEFINE m == [op |-> "subscribed", by |-> Head(cs).by]
  <2>1. /\ cs # <<>> /\ Head(cs).op = "subscribe"
        /\ cmds' = [cmds EXCEPT ![r] = Tail(cs)]
        /\ subscribed' = subscribed \cup {r}
        /\ wire' = [wire EXCEPT ![r] = Append(w, m)]
        /\ UNCHANGED <<current, sets, object, joined, joining, listeners, got, due, published,
                       faults>>
    BY <1>7 DEF Redis!Subscribe, Redis!localVars
  <2>2. m \in R /\ m.op = "subscribed"
    BY <1>4, <2>1, Packets, Zenon
  <2> HIDE DEF m, C, R, cs, w, n
  <2>3. ~on /\ CommandsFit(Tail(cs), TRUE, current[r])
    BY <1>2, <1>3, <1>4, <2>1, CommandTaken, Zenon
  <2>4. RepliesFit(Append(w, m), TRUE, n)
    BY <1>2, <1>3, <2>2, <2>3, ReplyAppended, Zenon
  <2>5. wire' \in [Replicas -> Seq(R)] /\ cmds' \in [Replicas -> Seq(C)]
    BY <1>4, <1>6, <2>1, <2>2
  <2>6. Redis(kind)!TypeOK'
    BY <1>1, <2>1, <2>5, Zenon DEF Redis!TypeOK, C, R, Redis!Command, Redis!Reply, Redis!Messages
  <2>7. ReplicaFits(r)'
    BY <1>1, <1>2, <1>6, <2>1, <2>2, <2>3, <2>4, Zenon DEF ReplicaFits, n
  <2>8. ASSUME NEW q \in Replicas \ {r} PROVE ReplicaFits(q)'
    BY <1>1, <1>2, <2>1 DEF ReplicaFits
  <2> QED
    BY <2>6, <2>7, <2>8, RedisByReplica
<1>8. CASE Redis(kind)!SubscribeFails(r)
  <2>1. /\ cs # <<>> /\ Head(cs).op = "subscribe"
        /\ cmds' = [cmds EXCEPT ![r] = Tail(cs)]
        /\ joining' = [joining EXCEPT ![Head(cs).by] = "failed"]
        /\ faults' = faults + 1
        /\ UNCHANGED <<current, sets, object, joined, wire, subscribed, listeners, got, due,
                       published>>
    BY <1>8 DEF Redis!SubscribeFails
  <2>2. faults' \in 0 .. (IF kind = "orderly" THEN 0 ELSE MaxFaults)
    <3>1. MaxFaults \in Nat
      BY PlatformAssumption DEF Redis!RedisSseAssumption, RedisParts
    <3> QED
      BY <1>1, <1>8, <3>1 DEF Redis!SubscribeFails, Redis!TypeOK
  <2> HIDE DEF C, cs
  <2>3. ~on /\ CommandsFit(Tail(cs), FALSE, current[r])
    BY <1>2, <1>3, <1>4, <2>1, CommandTaken, Zenon
  <2>4. joining' \in [Streams -> Redis(kind)!Stage] /\ cmds' \in [Replicas -> Seq(C)]
    BY <1>2, <1>4, <2>1, Zenon DEF Redis!Stage
  <2>5. Redis(kind)!TypeOK'
    BY <1>1, <2>1, <2>2, <2>4, Zenon
    DEF Redis!TypeOK, C, Redis!Command, Redis!Messages, Redis!Stage, Redis!Reply
  <2>6. ReplicaFits(r)'
    BY <1>1, <1>2, <2>1, <2>3, Zenon DEF ReplicaFits
  <2>7. ASSUME NEW q \in Replicas \ {r} PROVE ReplicaFits(q)'
    BY <1>1, <1>2, <2>1 DEF ReplicaFits
  <2> QED
    BY <2>5, <2>6, <2>7, RedisByReplica
<1>9. CASE Redis(kind)!Unsubscribe(r)
  <2> DEFINE m == [op |-> "unsubscribed"]
  <2>1. /\ cs # <<>> /\ Head(cs).op = "unsubscribe"
        /\ cmds' = [cmds EXCEPT ![r] = Tail(cs)]
        /\ subscribed' = subscribed \ {r}
        /\ wire' = [wire EXCEPT ![r] = Append(w, m)]
        /\ UNCHANGED <<current, sets, object, joined, joining, listeners, got, due, published,
                       faults>>
    BY <1>9 DEF Redis!Unsubscribe, Redis!localVars
  <2>2. m \in R /\ m.op = "unsubscribed"
    BY Packets
  <2> HIDE DEF m, C, R, cs, w, n
  <2>3. CommandsFit(Tail(cs), FALSE, current[r])
    BY <1>2, <1>3, <1>4, <2>1, CommandTaken, Zenon
  <2>4. RepliesFit(Append(w, m), FALSE, n)
    BY <1>2, <1>3, <2>2, ReplyAppended, Zenon
  <2>5. wire' \in [Replicas -> Seq(R)] /\ cmds' \in [Replicas -> Seq(C)]
    BY <1>4, <1>6, <2>1, <2>2
  <2>6. Redis(kind)!TypeOK'
    BY <1>1, <2>1, <2>5, Zenon DEF Redis!TypeOK, C, R, Redis!Command, Redis!Reply, Redis!Messages
  <2>7. ReplicaFits(r)'
    <3>1. /\ (r \in subscribed') = FALSE /\ cmds'[r] = Tail(cs) /\ wire'[r] = Append(w, m)
          /\ listeners'[r] = n /\ current'[r] = current[r]
      BY <1>2, <2>1 DEF n
    <3>2. /\ CommandsFit(cmds'[r], r \in subscribed', current'[r])
          /\ RepliesFit(wire'[r], r \in subscribed', listeners'[r])
      BY <2>3, <2>4, <3>1, Zenon
    <3>3. /\ IdsAscend(wire'[r], published')
          /\ \A s \in Streams : Home[s] = r => GotAscends(got'[s], wire'[r], published')
      BY <1>6, <2>1, <2>2, <3>1
    <3> QED
      BY <1>1, <2>1, <3>2, <3>3 DEF ReplicaFits
  <2>8. ASSUME NEW q \in Replicas \ {r} PROVE ReplicaFits(q)'
    BY <1>1, <1>2, <2>1 DEF ReplicaFits
  <2> QED
    BY <2>6, <2>7, <2>8, RedisByReplica
\* the first reply has gone
<1>10. ASSUME w # <<>>
       PROVE  /\ IdsAscend(Tail(w), published)
              /\ \A s \in Streams : Home[s] = r => GotAscends(got[s], Tail(w), published)
              /\ w[1].op = "message" => RepliesFit(Tail(w), on, n)
              /\ w[1].op = "subscribed" => n = 0 /\ RepliesFit(Tail(w), on, 1)
              /\ w[1].op = "unsubscribed" => RepliesFit(Tail(w), on, 0)
  <2> HIDE DEF R, w, on, n
  <2>1. IdsAscend(Tail(w), published)
    <3>1. GotAscends(<<>>, w, published) /\ <<>> \in Seq(Nat) /\ 0 \in {0, 1}
      BY DEF GotAscends
    <3> QED
      BY <1>2, <1>3, <1>10, <3>1, IdsTaken, Zenon
  <2>2. ASSUME NEW s \in Streams, Home[s] = r
        PROVE  GotAscends(got[s], Tail(w), published)
    <3>1. 0 \in {0, 1}
      OBVIOUS
    <3> QED
      BY <1>2, <1>3, <1>10, <2>2, <3>1, IdsTaken, Zenon
  <2> QED
    BY <1>2, <1>3, <1>10, <2>1, <2>2, ReplyTaken
<1>11. CASE Redis(kind)!Acknowledged(r)
  <2>1. /\ w # <<>>
        /\ wire' = [wire EXCEPT ![r] = Tail(w)]
        /\ UNCHANGED <<current, sets, object, joined, cmds, subscribed, got, due, published,
                       faults>>
        /\ \/ /\ Head(w).op = "subscribed" /\ listeners' = [listeners EXCEPT ![r] = n + 1]
              /\ joining' = [joining EXCEPT ![Head(w).by] = "joining"]
           \/ /\ Head(w).op = "unsubscribed" /\ listeners' = [listeners EXCEPT ![r] = 0]
              /\ UNCHANGED joining
    BY <1>11 DEF Redis!Acknowledged
  <2>2. /\ listeners' \in [Replicas -> Nat] /\ joining' \in [Streams -> Redis(kind)!Stage]
        /\ RepliesFit(Tail(w), on, listeners'[r])
        /\ \A q \in Replicas \ {r} : listeners'[q] = listeners[q]
    <3>1. CASE Head(w).op = "subscribed"
      <4>1. listeners' = [listeners EXCEPT ![r] = n + 1]
            /\ joining' = [joining EXCEPT ![Head(w).by] = "joining"]
        BY <2>1, <3>1
      <4>2. n = 0 /\ RepliesFit(Tail(w), on, 1)
        BY <1>5, <1>10, <2>1, <3>1
      <4>3. joining' \in [Streams -> Redis(kind)!Stage]
        BY <1>2, <4>1, Zenon DEF Redis!Stage
      <4>4. listeners' \in [Replicas -> Nat] /\ listeners'[r] = 1
            /\ \A q \in Replicas \ {r} : listeners'[q] = listeners[q]
        BY <1>2, <4>1, <4>2
      <4> HIDE DEF w, on
      <4> QED
        BY <4>2, <4>3, <4>4
    <3>2. CASE Head(w).op = "unsubscribed"
      <4>1. listeners' = [listeners EXCEPT ![r] = 0] /\ UNCHANGED joining
        BY <2>1, <3>2
      <4>2. RepliesFit(Tail(w), on, 0)
        BY <1>5, <1>10, <2>1, <3>2
      <4> HIDE DEF w, on
      <4> QED
        BY <1>2, <4>1, <4>2
    <3> QED
      BY <2>1, <3>1, <3>2
  <2>3. wire' \in [Replicas -> Seq(R)]
    BY <1>5, <2>1
  <2> HIDE DEF C, R, cs, w, n
  <2>4. Redis(kind)!TypeOK'
    BY <1>1, <2>1, <2>2, <2>3, Zenon
    DEF Redis!TypeOK, R, Redis!Command, Redis!Reply, Redis!Messages, Redis!Stage
  <2>5. ReplicaFits(r)'
    BY <1>1, <1>2, <1>10, <2>1, <2>2 DEF ReplicaFits
  <2>6. ASSUME NEW q \in Replicas \ {r} PROVE ReplicaFits(q)'
    BY <1>1, <1>2, <2>1, <2>2, Zenon DEF ReplicaFits
  <2> QED
    BY <2>4, <2>5, <2>6, RedisByReplica
<1>12. CASE Redis(kind)!Emit(r)
  <2> DEFINE new == [i \in 1 .. n |-> Head(w).id]
             Here == Redis(kind)!Served(r)
  <2>1. /\ w # <<>> /\ Head(w).op = "message"
        /\ wire' = [wire EXCEPT ![r] = Tail(w)]
        /\ got' = [s \in Streams |-> IF s \in Here THEN got[s] \o new ELSE got[s]]
        /\ UNCHANGED <<current, sets, object, joined, joining, cmds, subscribed, listeners, due,
                       published, faults>>
    BY <1>12 DEF Redis!Emit, Redis!localVars
  <2>2. \A s \in Here : Home[s] = r
    BY DEF Redis!Served, Redis!Local
  <2>3. n \in {0, 1}
    BY <1>3 DEF RepliesFit
  <2>4. new \in Seq(Redis(kind)!Messages)
    <3>1. Head(w).id \in Redis(kind)!Messages
      BY <1>5, <2>1, Packets
    <3> QED
      BY <2>3, <3>1
  <2>5. got' \in [Streams -> Seq(Redis(kind)!Messages)]
    <3> HIDE DEF new, Here
    <3> QED
      BY <1>2, <2>1, <2>4
  <2>6. wire' \in [Replicas -> Seq(R)]
    BY <1>5, <2>1
  <2>7. ASSUME NEW s \in Streams, Home[s] = r
        PROVE  GotAscends(got'[s], Tail(w), published)
    <3>1. GotAscends(got[s], w, published) /\ w[1].op = "message" /\ w[1] = Head(w)
      BY <1>3, <1>5, <2>1, <2>7
    <3>2. GotAscends(got[s] \o [i \in 1 .. n |-> w[1].id], Tail(w), published)
      <4> HIDE DEF w, n, R
      <4> QED
        BY <1>2, <1>3, <2>1, <2>3, <3>1, IdsTaken, Zenon
    <3>3. got'[s] = IF s \in Here THEN got[s] \o [i \in 1 .. n |-> w[1].id] ELSE got[s]
      BY <2>1, <3>1
    <3> HIDE DEF w, n, Here
    <3> QED
      BY <1>10, <2>1, <2>7, <3>2, <3>3, Zenon
  <2> HIDE DEF C, R, cs, w, n, new
  <2>8. Redis(kind)!TypeOK'
    BY <1>1, <2>1, <2>5, <2>6, Zenon DEF Redis!TypeOK, R, Redis!Command, Redis!Reply, Redis!Messages
  <2>9. ReplicaFits(r)'
    <3>1. RepliesFit(Tail(w), on, n)
      BY <1>5, <1>10, <2>1
    <3> QED
      BY <1>1, <1>2, <1>10, <2>1, <2>7, <3>1 DEF ReplicaFits, n
  <2>10. ASSUME NEW q \in Replicas \ {r} PROVE ReplicaFits(q)'
    <3>1. \A s \in Streams : Home[s] = q => got'[s] = got[s]
      BY <2>1, <2>2
    <3> QED
      BY <1>1, <1>2, <2>1, <3>1, Zenon DEF ReplicaFits
  <2> QED
    BY <2>8, <2>9, <2>10, RedisByReplica
<1> QED
  BY <1>7, <1>8, <1>9, <1>11, <1>12 DEF Redis!ReplicaStep

\* A step of either kind keeps the invariant.
LEMMA RedisStep ==
  ASSUME NEW kind \in RedisParts, RedisInv(kind), Redis(kind)!Next
  PROVE  RedisInv(kind)'
  BY RedisPublishStep, RedisStreamStep, RedisReplicaStep DEF Redis!Next

-----------------------------------------------------------------------------
(* RedisSse, calls in turn: nothing missed.  What is on its way from and   *)
(* to a replica says in which of six phases it is.                         *)

Busy == {"subscribing", "joining"}

Quiet(w) == \A i \in DOMAIN w : w[i].op = "message"

OnlyReply(w, reply) ==
  \E i \in DOMAIN w : w[i] = reply /\ \A j \in DOMAIN w : j # i => w[j].op = "message"

\* Event m is on the stream or on its way to the replica.
Carried(m, g, w) ==
  \/ \E i \in DOMAIN g : g[i] = m
  \/ \E i \in DOMAIN w : w[i] = [op |-> "message", id |-> m]

Resting(r) ==
  /\ cmds[r] = <<>> /\ Quiet(wire[r])
  /\ \A s \in Streams : Home[s] = r => joining[s] \notin Busy
  /\ r \in subscribed <=> current[r] # 0
  /\ current[r] # 0 =>
       listeners[r] = 1 /\ \E s \in Streams : Home[s] = r /\ joining[s] = "live"
  /\ current[r] = 0 => listeners[r] = 0

Asking(r) ==
  /\ \E s \in Streams : /\ Home[s] = r /\ joining[s] = "subscribing"
                        /\ cmds[r] = <<[op |-> "subscribe", by |-> s]>>
  /\ Quiet(wire[r]) /\ r \notin subscribed /\ listeners[r] = 0

Granted(r) ==
  /\ \E s \in Streams : /\ Home[s] = r /\ joining[s] = "subscribing"
                        /\ OnlyReply(wire[r], [op |-> "subscribed", by |-> s])
  /\ cmds[r] = <<>> /\ r \in subscribed /\ listeners[r] = 0

Joining(r) ==
  /\ \E s \in Streams : Home[s] = r /\ joining[s] = "joining"
  /\ cmds[r] = <<>> /\ Quiet(wire[r]) /\ r \in subscribed /\ listeners[r] = 1

Leaving(r) ==
  /\ cmds[r] = <<[op |-> "unsubscribe"]>>
  /\ Quiet(wire[r]) /\ r \in subscribed /\ listeners[r] = 1
  /\ current[r] = 0

Left(r) ==
  /\ OnlyReply(wire[r], [op |-> "unsubscribed"])
  /\ cmds[r] = <<>> /\ r \notin subscribed /\ listeners[r] = 1
  /\ current[r] = 0

Phase(r) == Resting(r) \/ Asking(r) \/ Granted(r) \/ Joining(r) \/ Leaving(r) \/ Left(r)

\* A stream that registers, or has, is in the set the map holds; one registers at a
\* time, and only when there is no other; and none has missed anything so far.
StreamFits(s) ==
  /\ s \in joined <=> joining[s] = "live"
  /\ joining[s] \in Busy \cup {"live"} => current[Home[s]] # 0 /\ object[s] = current[Home[s]]
  /\ joining[s] \in Busy =>
       \A t \in Streams : Home[t] = Home[s] /\ t # s => joining[t] \notin Busy \cup {"live"}
  /\ joining[s] \in Busy \cup {"idle"} => due[s] = {}
  /\ joining[s] = "live" => \A m \in due[s] : Carried(m, got[s], wire[Home[s]])

InTurn(r) ==
  /\ Phase(r)
  /\ \A s \in Streams : Home[s] = r => StreamFits(s)

TurnInv == \A r \in Replicas : InTurn(r)

\* Another reply or message is sent.
LEMMA WireAppended ==
  ASSUME NEW T, NEW w \in Seq(T), NEW m \in T
  PROVE  /\ Quiet(w) /\ m.op = "message" => Quiet(Append(w, m))
         /\ Quiet(w) => OnlyReply(Append(w, m), m)
         /\ \A x : OnlyReply(w, x) /\ m.op = "message" => OnlyReply(Append(w, m), x)
         /\ \A x, g : Carried(x, g, w) => Carried(x, g, Append(w, m))
         /\ \A x, g : m = [op |-> "message", id |-> x] => Carried(x, g, Append(w, m))
<1> DEFINE v == Append(w, m)
           l == Len(w)
<1>1. /\ DOMAIN v = 1 .. l + 1 /\ v[l + 1] = m /\ l \in Nat
      /\ \A i \in 1 .. l : v[i] = w[i]
      /\ DOMAIN w = 1 .. l
  BY SeqFacts
<1> HIDE DEF v
<1>2. Quiet(w) /\ m.op = "message" => Quiet(v)
  BY <1>1 DEF Quiet
<1>3. Quiet(w) => OnlyReply(v, m)
  BY <1>1 DEF Quiet, OnlyReply
<1>4. ASSUME NEW x, OnlyReply(w, x), m.op = "message" PROVE OnlyReply(v, x)
  BY <1>1, <1>4 DEF OnlyReply
<1>5. ASSUME NEW x, NEW g, Carried(x, g, w) PROVE Carried(x, g, v)
  BY <1>1, <1>5 DEF Carried
<1>6. ASSUME NEW x, NEW g, m = [op |-> "message", id |-> x] PROVE Carried(x, g, v)
  BY <1>1, <1>6 DEF Carried
<1> QED
  BY <1>2, <1>3, <1>4, <1>5, <1>6 DEF v

\* The first one arrives.
LEMMA WireTaken ==
  ASSUME NEW T, NEW w \in Seq(T), w # <<>>
  PROVE  /\ Quiet(w) => Quiet(Tail(w)) /\ w[1].op = "message"
         /\ \A x : OnlyReply(w, x) /\ w[1].op # "message" => w[1] = x /\ Quiet(Tail(w))
         /\ \A x : OnlyReply(w, x) /\ w[1].op = "message" /\ x.op # "message" =>
              OnlyReply(Tail(w), x)
         /\ \A x, g : Carried(x, g, w) /\ w[1].op # "message" => Carried(x, g, Tail(w))
         /\ \A x : \A g \in Seq(Nat) : Carried(x, g, w) /\ w[1].id \in Nat =>
              Carried(x, g \o <<w[1].id>>, Tail(w))
<1> DEFINE v == Tail(w)
           l == Len(w)
<1>1. /\ DOMAIN v = 1 .. l - 1 /\ l \in Nat \ {0}
      /\ \A i \in 1 .. l - 1 : v[i] = w[i + 1]
      /\ DOMAIN w = 1 .. l
  OBVIOUS
<1> HIDE DEF v
\* each of the others has moved up by one
<1>2. /\ 1 \in 1 .. l
      /\ \A i \in 1 .. l - 1 : i + 1 \in 1 .. l /\ i + 1 # 1
      /\ \A i \in 1 .. l : i # 1 => i - 1 \in 1 .. l - 1 /\ (i - 1) + 1 = i
  BY <1>1
<1>3. Quiet(w) => Quiet(v) /\ w[1].op = "message"
  BY <1>1, <1>2 DEF Quiet
<1>4. ASSUME NEW x, OnlyReply(w, x), w[1].op # "message" PROVE w[1] = x /\ Quiet(v)
  <2>1. PICK i \in 1 .. l : w[i] = x /\ \A j \in 1 .. l : j # i => w[j].op = "message"
    BY <1>1, <1>4, Zenon DEF OnlyReply
  <2>2. i = 1
    BY <1>2, <1>4, <2>1, Zenon
  <2>3. ASSUME NEW j \in 1 .. l - 1 PROVE v[j].op = "message"
    <3>1. j + 1 \in 1 .. l /\ j + 1 # 1 /\ v[j] = w[j + 1]
      BY <1>1, <1>2, Zenon
    <3> QED
      BY <2>1, <2>2, <3>1, Zenon
  <2> QED
    BY <1>1, <2>1, <2>2, <2>3, Zenon DEF Quiet
<1>5. ASSUME NEW x, OnlyReply(w, x), w[1].op = "message", x.op # "message"
      PROVE  OnlyReply(v, x)
  <2>1. PICK i \in 1 .. l : w[i] = x /\ \A j \in 1 .. l : j # i => w[j].op = "message"
    BY <1>1, <1>5, Zenon DEF OnlyReply
  <2>2. i # 1 /\ i - 1 \in 1 .. l - 1 /\ v[i - 1] = x
    BY <1>1, <1>2, <1>5, <2>1
  <2>3. \A j \in 1 .. l - 1 : j # i - 1 => v[j].op = "message"
    BY <1>1, <1>2, <2>1
  <2> QED
    BY <1>1, <2>2, <2>3, Zenon DEF OnlyReply
<1>6. ASSUME NEW x, NEW g, Carried(x, g, w), w[1] # [op |-> "message", id |-> x]
      PROVE  Carried(x, g, v)
  <2>1. CASE \E i \in DOMAIN g : g[i] = x
    BY <2>1 DEF Carried
  <2>2. ASSUME NEW i \in 1 .. l, w[i] = [op |-> "message", id |-> x] PROVE Carried(x, g, v)
    <3>1. i - 1 \in 1 .. l - 1 /\ v[i - 1] = w[i]
      BY <1>1, <1>2, <1>6, <2>2
    <3> QED
      BY <1>1, <2>2, <3>1 DEF Carried
  <2> QED
    BY <1>1, <1>6, <2>1, <2>2 DEF Carried
<1>7. ASSUME NEW x, NEW g, Carried(x, g, w), w[1].op # "message" PROVE Carried(x, g, v)
  <2>1. w[1] # [op |-> "message", id |-> x]
    BY <1>7
  <2> QED
    BY <1>6, <1>7, <2>1
<1>8. ASSUME NEW x, NEW g \in Seq(Nat), Carried(x, g, w), w[1].id \in Nat
      PROVE  Carried(x, g \o <<w[1].id>>, v)
  <2> DEFINE h == g \o <<w[1].id>>
  <2>1. /\ DOMAIN h = 1 .. Len(g) + 1 /\ h[Len(g) + 1] = w[1].id /\ Len(g) \in Nat
        /\ \A i \in 1 .. Len(g) : h[i] = g[i]
        /\ DOMAIN g = 1 .. Len(g)
    <3>1. <<w[1].id>> \in Seq(Nat) /\ Len(<<w[1].id>>) = 1 /\ <<w[1].id>>[1] = w[1].id
      BY <1>8
    <3> QED
      BY <3>1, ConcatProperties
  <2> HIDE DEF h
  <2>2. CASE w[1] = [op |-> "message", id |-> x]
    BY <2>1, <2>2 DEF Carried
  <2>3. CASE w[1] # [op |-> "message", id |-> x]
    <3>1. Carried(x, g, v)
      BY <1>6, <1>8, <2>3
    <3> QED
      BY <2>1, <3>1 DEF Carried
  <2> QED
    BY <2>2, <2>3 DEF h
<1> QED
  BY <1>3, <1>4, <1>5, <1>7, <1>8 DEF v

\* An idle replica rests; and so does one with a stream that is registered.
LEMMA PhaseKnown ==
  ASSUME NEW r \in Replicas, InTurn(r)
  PROVE  /\ Redis("orderly")!Idle(r) => Resting(r)
         /\ (\E s \in Streams : Home[s] = r /\ joining[s] = "live") => Resting(r) /\ current[r] # 0
         /\ (\E s \in Streams : Home[s] = r /\ joining[s] = "joining") => Joining(r)
         /\ cmds[r] # <<>> => Asking(r) \/ Leaving(r)
         /\ ~Quiet(wire[r]) => Granted(r) \/ Left(r)
<1>1. ASSUME Redis("orderly")!Idle(r) PROVE Resting(r)
  <2>1. /\ cmds[r] = <<>> /\ Quiet(wire[r])
        /\ \A s \in Streams : Home[s] = r => joining[s] \notin Busy
    BY <1>1 DEF Redis!Idle, Redis!Local, Quiet, Busy
  <2>2. ASSUME Left(r) PROVE FALSE
    <3>1. PICK i \in DOMAIN wire[r] : wire[r][i] = [op |-> "unsubscribed"]
      BY <2>2 DEF Left, OnlyReply
    <3>2. wire[r][i].op = "unsubscribed"
      BY <3>1
    <3> QED
      BY <2>1, <3>1, <3>2 DEF Quiet
  <2>3. ~Asking(r) /\ ~Granted(r) /\ ~Joining(r)
    BY <2>1, Zenon DEF Asking, Granted, Joining, Busy
  <2>4. ~Leaving(r)
    BY <2>1 DEF Leaving
  <2> QED
    BY <2>2, <2>3, <2>4 DEF InTurn, Phase
<1>2. ASSUME NEW s \in Streams, Home[s] = r, joining[s] = "live"
      PROVE  Resting(r) /\ current[r] # 0
  BY <1>2, Zenon DEF InTurn, StreamFits, Phase, Asking, Granted, Joining, Leaving, Left, Busy
<1>3. ASSUME NEW s \in Streams, Home[s] = r, joining[s] = "joining"
      PROVE  Joining(r)
  BY <1>3, Zenon DEF InTurn, StreamFits, Phase, Resting, Asking, Granted, Leaving, Left, Busy
<1>4. cmds[r] # <<>> => Asking(r) \/ Leaving(r)
  BY DEF InTurn, Phase, Resting, Granted, Joining, Left
<1>5. ~Quiet(wire[r]) => Granted(r) \/ Left(r)
  BY DEF InTurn, Phase, Resting, Asking, Joining, Leaving
<1> QED
  BY <1>1, <1>2, <1>3, <1>4, <1>5

\* A replica that is not concerned stays as it is.
LEMMA Elsewhere ==
  ASSUME NEW r \in Replicas, InTurn(r),
         cmds'[r] = cmds[r], wire'[r] = wire[r], current'[r] = current[r],
         listeners'[r] = listeners[r], (r \in subscribed') <=> (r \in subscribed),
         \A s \in Streams : Home[s] = r =>
           /\ (s \in joined') <=> (s \in joined)
           /\ joining'[s] = joining[s] /\ object'[s] = object[s]
           /\ due'[s] = due[s] /\ got'[s] = got[s]
  PROVE  InTurn(r)'
<1>1. Phase(r)'
  BY Zenon DEF InTurn, Phase, Resting, Asking, Granted, Joining, Leaving, Left
<1>2. ASSUME NEW s \in Streams, Home[s] = r PROVE StreamFits(s)'
  BY <1>2 DEF InTurn, StreamFits
<1> QED
  BY <1>1, <1>2 DEF InTurn

\* The calls of a stream: each finds its replica in one phase and leaves it in one.
LEMMA TurnStreamStep ==
  ASSUME RedisInv("orderly"), TurnInv, NEW s \in Streams, Redis("orderly")!StreamStep(s)
  PROVE  TurnInv'
<1> DEFINE h == Home[s]
           C == Redis("orderly")!Command
<1>1. /\ current \in [Replicas -> Nat] /\ sets \in Nat /\ object \in [Streams -> Nat]
      /\ joined \subseteq Streams /\ joining \in [Streams -> Redis("orderly")!Stage]
      /\ cmds \in [Replicas -> Seq(C)] /\ h \in Replicas /\ Home \in [Streams -> Replicas]
  BY Packets DEF RedisInv, Redis!TypeOK, RedisParts
<1>2. InTurn(h)
  BY <1>1 DEF TurnInv
<1>3. SUFFICES ASSUME NEW r \in Replicas PROVE InTurn(r)'
  BY DEF TurnInv
<1>4. InTurn(r)
  BY DEF TurnInv
<1>5. CASE Redis("orderly")!RegisterFirst(s)
  <2>1. /\ joining[s] = "idle" /\ current[h] = 0 /\ Redis("orderly")!Idle(h)
        /\ current' = [current EXCEPT ![h] = sets + 1]
        /\ object' = [object EXCEPT ![s] = sets + 1]
        /\ joining' = [joining EXCEPT ![s] = "subscribing"]
        /\ cmds' = [cmds EXCEPT ![h] = Append(cmds[h], [op |-> "subscribe", by |-> s])]
        /\ UNCHANGED <<joined, wire, subscribed, listeners, got, due, published, faults>>
    BY <1>5 DEF Redis!RegisterFirst, Redis!MayCall
  <2>2. Resting(h)
    BY <1>1, <1>2, <2>1, PhaseKnown
  <2>3. CASE r = h
    <3>1. /\ joining'[s] = "subscribing" /\ current'[h] = sets + 1 /\ object'[s] = sets + 1
          /\ \A t \in Streams : t # s => joining'[t] = joining[t] /\ object'[t] = object[t]
          /\ sets + 1 # 0
      BY <1>1, <2>1
    <3>2. cmds'[h] = <<[op |-> "subscribe", by |-> s]>>
      BY <1>1, <2>1, <2>2 DEF Resting
    <3>3. Asking(h)'
      BY <2>1, <2>2, <3>1, <3>2, Zenon DEF Resting, Asking
    <3>4. \A t \in Streams : Home[t] = h => joining[t] \notin Busy \cup {"live"}
      BY <1>2, <2>1, <2>2 DEF InTurn, StreamFits, Resting
    <3>5. ASSUME NEW t \in Streams, Home[t] = h PROVE StreamFits(t)'
      <4>1. CASE t = s
        BY <1>2, <2>1, <3>1, <3>4, <4>1 DEF InTurn, StreamFits, Busy
      <4>2. CASE t # s
        BY <1>2, <2>1, <3>1, <3>4, <3>5, <4>2 DEF InTurn, StreamFits
      <4> QED
        BY <4>1, <4>2
    <3> QED
      BY <2>3, <3>3, <3>5 DEF InTurn, Phase
  <2>4. CASE r # h
    BY <1>1, <1>4, <2>1, <2>4, Elsewhere
  <2> QED
    BY <2>3, <2>4
<1>6. CASE Redis("orderly")!RegisterNext(s)
  <2>1. /\ joining[s] = "idle" /\ current[h] # 0 /\ Redis("orderly")!Idle(h)
        /\ object' = [object EXCEPT ![s] = current[h]]
        /\ joined' = joined \cup {s}
        /\ joining' = [joining EXCEPT ![s] = "live"]
        /\ UNCHANGED <<current, sets, cmds, wire, subscribed, listeners, got, due, published,
                       faults>>
    BY <1>6 DEF Redis!RegisterNext, Redis!MayCall, Redis!redisVars
  <2>2. Resting(h)
    BY <1>1, <1>2, <2>1, PhaseKnown
  <2>3. CASE r = h
    <3>1. /\ joining'[s] = "live" /\ object'[s] = current[h]
          /\ \A t \in Streams : t # s =>
               /\ joining'[t] = joining[t] /\ object'[t] = object[t]
               /\ t \in joined' <=> t \in joined
      BY <1>1, <2>1
    <3>2. \A t \in Streams : Home[t] = h => joining[t] \notin Busy /\ joining'[t] \notin Busy
      BY <2>2, <3>1 DEF Resting, Busy
    <3>3. Resting(h)'
      BY <2>1, <2>2, <3>1, <3>2 DEF Resting
    <3>4. ASSUME NEW t \in Streams, Home[t] = h PROVE StreamFits(t)'
      <4>1. CASE t = s
        <5>1. due[s] = {}
          BY <1>2, <2>1 DEF InTurn, StreamFits
        <5> QED
          BY <2>1, <3>1, <4>1, <5>1 DEF StreamFits, Busy
      <4>2. CASE t # s
        BY <1>2, <2>1, <3>1, <3>2, <3>4, <4>2 DEF InTurn, StreamFits
      <4> QED
        BY <4>1, <4>2
    <3> QED
      BY <2>3, <3>3, <3>4 DEF InTurn, Phase
  <2>4. CASE r # h
    BY <1>1, <1>4, <2>1, <2>4, Elsewhere, Zenon
  <2> QED
    BY <2>3, <2>4
<1>7. CASE Redis("orderly")!Join(s)
  <2>1. /\ joining[s] = "joining"
        /\ joined' = joined \cup {s}
        /\ joining' = [joining EXCEPT ![s] = "live"]
        /\ UNCHANGED <<current, sets, object, cmds, wire, subscribed, listeners, got, due,
                       published, faults>>
    BY <1>7 DEF Redis!Join, Redis!redisVars
  <2>2. Joining(h)
    BY <1>1, <1>2, <2>1, PhaseKnown
  <2>3. CASE r = h
    <3>1. /\ joining'[s] = "live"
          /\ \A t \in Streams : t # s =>
               joining'[t] = joining[t] /\ (t \in joined' <=> t \in joined)
      BY <1>1, <2>1
    <3>2. /\ current[h] # 0 /\ object[s] = current[h] /\ due[s] = {}
          /\ \A t \in Streams : Home[t] = h /\ t # s => joining[t] \notin Busy
      BY <1>2, <2>1 DEF InTurn, StreamFits, Busy
    <3>3. \A t \in Streams : Home[t] = h => joining'[t] \notin Busy
      BY <3>1, <3>2 DEF Busy
    <3>4. Resting(h)'
      BY <2>1, <2>2, <3>1, <3>2, <3>3 DEF Resting, Joining
    <3>5. ASSUME NEW t \in Streams, Home[t] = h PROVE StreamFits(t)'
      <4>1. CASE t = s
        BY <2>1, <3>1, <3>2, <4>1 DEF StreamFits, Busy
      <4>2. CASE t # s
        BY <1>2, <2>1, <3>1, <3>2, <3>5, <4>2 DEF InTurn, StreamFits
      <4> QED
        BY <4>1, <4>2
    <3> QED
      BY <2>3, <3>4, <3>5 DEF InTurn, Phase
  <2>4. CASE r # h
    BY <1>1, <1>4, <2>1, <2>4, Elsewhere, Zenon
  <2> QED
    BY <2>3, <2>4
<1>8. CASE Redis("orderly")!Unregister(s)
  <2> DEFINE left == Redis("orderly")!Served(h) \ {s}
  <2>1. /\ joining[s] = "live" /\ Redis("orderly")!Idle(h)
        /\ joining' = [joining EXCEPT ![s] = "gone"]
        /\ UNCHANGED <<sets, object, wire, subscribed, listeners, got, due, published, faults>>
    BY <1>8 DEF Redis!Unregister, Redis!MayCall
  <2>2. Resting(h) /\ current[h] # 0 /\ object[s] = current[h]
    BY <1>1, <1>2, <2>1, PhaseKnown, Zenon DEF InTurn, StreamFits
  <2>3. /\ joined' = joined \ {s}
        /\ left = {} => /\ current' = [current EXCEPT ![h] = 0]
                        /\ cmds' = [cmds EXCEPT ![h] = Append(cmds[h], [op |-> "unsubscribe"])]
        /\ left # {} => UNCHANGED <<current, cmds>>
    BY <1>8, <2>2 DEF Redis!Unregister
  <2>4. \A t \in Streams : t # s /\ Home[t] = h =>
          (t \in left <=> joining[t] = "live") /\ joining[t] \notin Busy
    BY <1>2, <2>2 DEF InTurn, StreamFits, Resting, Redis!Served, Redis!Local
  <2>5. left \subseteq Streams /\ \A t \in left : Home[t] = h /\ t # s
    BY DEF Redis!Served, Redis!Local
  <2>6. /\ joining'[s] = "gone"
        /\ \A t \in Streams : t # s =>
             joining'[t] = joining[t] /\ (t \in joined' <=> t \in joined)
    BY <1>1, <2>1, <2>3
  <2> HIDE DEF left
  <2>7. CASE r = h
    <3>1. CASE left = {}
      <4>1. current'[h] = 0 /\ cmds'[h] = <<[op |-> "unsubscribe"]>>
        BY <1>1, <2>2, <2>3, <3>1 DEF Resting
      <4>2. Leaving(h)'
        BY <2>1, <2>2, <4>1 DEF Resting, Leaving
      <4>3. ASSUME NEW t \in Streams, Home[t] = h PROVE StreamFits(t)'
        <5>1. joining'[t] \notin Busy \cup {"live"} /\ t \notin joined'
          BY <1>2, <2>3, <2>4, <2>6, <3>1, <4>3 DEF InTurn, StreamFits, Busy
        <5>2. joining'[t] = "idle" => due'[t] = {}
          BY <1>2, <2>1, <2>6, <4>3 DEF InTurn, StreamFits
        <5> QED
          BY <5>1, <5>2 DEF StreamFits, Busy
      <4> QED
        BY <2>7, <4>2, <4>3 DEF InTurn, Phase
    <3>2. CASE left # {}
      <4>1. PICK t \in left : TRUE
        BY <3>2
      <4>2. t \in Streams /\ Home[t] = h /\ joining'[t] = "live"
        BY <2>4, <2>5, <2>6, <4>1
      <4>3. \A u \in Streams : Home[u] = h => joining'[u] \notin Busy
        BY <2>4, <2>6 DEF Busy
      <4>4. Resting(h)'
        BY <2>1, <2>2, <2>3, <3>2, <4>2, <4>3 DEF Resting
      <4>5. ASSUME NEW u \in Streams, Home[u] = h PROVE StreamFits(u)'
        <5>1. CASE u = s
          BY <2>3, <2>6, <5>1 DEF StreamFits, Busy
        <5>2. CASE u # s
          BY <1>2, <2>1, <2>3, <2>6, <3>2, <4>3, <4>5, <5>2 DEF InTurn, StreamFits
        <5> QED
          BY <5>1, <5>2
      <4> QED
        BY <2>7, <4>4, <4>5 DEF InTurn, Phase
    <3> QED
      BY <3>1, <3>2
  <2>8. CASE r # h
    <3>1. cmds'[r] = cmds[r] /\ current'[r] = current[r]
      BY <1>1, <2>3, <2>8
    <3>2. \A t \in Streams : Home[t] = r => t # s
      BY <2>8
    <3> QED
      BY <1>4, <2>1, <2>6, <3>1, <3>2, Elsewhere
  <2> QED
    BY <2>7, <2>8
<1> QED
  BY <1>5, <1>6, <1>7, <1>8 DEF Redis!StreamStep

\* What Redis and a client do with the first command or reply takes the replica to
\* its next phase.
LEMMA TurnReplicaStep ==
  ASSUME RedisInv("orderly"), TurnInv, NEW h \in Replicas, Redis("orderly")!ReplicaStep(h)
  PROVE  TurnInv'
<1> DEFINE C == Redis("orderly")!Command
           R == Redis("orderly")!Reply
           w == wire[h]
<1>1. /\ cmds \in [Replicas -> Seq(C)] /\ wire \in [Replicas -> Seq(R)] /\ w \in Seq(R)
      /\ listeners \in [Replicas -> Nat] /\ subscribed \subseteq Replicas
      /\ joining \in [Streams -> Redis("orderly")!Stage]
      /\ got \in [Streams -> Seq(Redis("orderly")!Messages)]
      /\ \A s \in Streams : got[s] \in Seq(Nat)
  BY RedisTypes DEF RedisInv, RedisParts
<1>2. InTurn(h)
  BY DEF TurnInv
<1>3. SUFFICES ASSUME NEW r \in Replicas PROVE InTurn(r)'
  BY DEF TurnInv
<1>4. InTurn(r)
  BY DEF TurnInv
<1>5. CASE Redis("orderly")!Subscribe(h)
  <2>1. /\ cmds[h] # <<>> /\ Head(cmds[h]).op = "subscribe"
        /\ cmds' = [cmds EXCEPT ![h] = Tail(cmds[h])]
        /\ subscribed' = subscribed \cup {h}
        /\ wire' = [wire EXCEPT ![h] =
                      Append(w, [op |-> "subscribed", by |-> Head(cmds[h]).by])]
        /\ UNCHANGED <<current, sets, object, joined, joining, listeners, got, due, published,
                       faults>>
    BY <1>5 DEF Redis!Subscribe, Redis!localVars
  <2>2. CASE r = h
    <3>1. Asking(h)
      BY <1>2, <2>1, PhaseKnown DEF Leaving
    <3>2. PICK s \in Streams : /\ Home[s] = h /\ joining[s] = "subscribing"
                               /\ cmds[h] = <<[op |-> "subscribe", by |-> s]>>
      BY <3>1 DEF Asking
    <3>3. [op |-> "subscribed", by |-> s] \in R
      BY Packets, Zenon DEF RedisParts
    <3>4. cmds'[h] = <<>> /\ wire'[h] = Append(w, [op |-> "subscribed", by |-> s])
      BY <1>1, <2>1, <3>2
    <3>5. OnlyReply(wire'[h], [op |-> "subscribed", by |-> s])
      <4> HIDE DEF R, w
      <4> QED
        BY <1>1, <3>1, <3>3, <3>4, WireAppended DEF Asking, w
    <3>6. Granted(h)'
      BY <2>1, <3>1, <3>2, <3>4, <3>5 DEF Asking, Granted
    <3>7. ASSUME NEW t \in Streams, Home[t] = h PROVE StreamFits(t)'
      <4>1. joining[t] # "live"
        BY <1>2, <3>2, <3>7 DEF InTurn, StreamFits, Busy
      <4> QED
        BY <1>2, <2>1, <3>7, <4>1 DEF InTurn, StreamFits
    <3> QED
      BY <2>2, <3>6, <3>7 DEF InTurn, Phase
  <2>3. CASE r # h
    BY <1>1, <1>4, <2>1, <2>3, Elsewhere, Zenon
  <2> QED
    BY <2>2, <2>3
<1>6. CASE Redis("orderly")!SubscribeFails(h)
  BY <1>6 DEF Redis!SubscribeFails, RedisInv, Redis!TypeOK
<1>7. CASE Redis("orderly")!Unsubscribe(h)
  <2>1. /\ cmds[h] # <<>> /\ Head(cmds[h]).op = "unsubscribe"
        /\ cmds' = [cmds EXCEPT ![h] = Tail(cmds[h])]
        /\ subscribed' = subscribed \ {h}
        /\ wire' = [wire EXCEPT ![h] = Append(w, [op |-> "unsubscribed"])]
        /\ UNCHANGED <<current, sets, object, joined, joining, listeners, got, due, published,
                       faults>>
    BY <1>7 DEF Redis!Unsubscribe, Redis!localVars
  <2>2. CASE r = h
    <3>1. Leaving(h)
      <4>1. ASSUME NEW s \in Streams, cmds[h] = <<[op |-> "subscribe", by |-> s]>> PROVE FALSE
        BY <2>1, <4>1
      <4> QED
        BY <1>2, <2>1, <4>1, PhaseKnown, Zenon DEF Asking
    <3>2. [op |-> "unsubscribed"] \in R
      BY Packets DEF RedisParts
    <3>3. cmds'[h] = <<>> /\ wire'[h] = Append(w, [op |-> "unsubscribed"])
      BY <1>1, <2>1, <3>1 DEF Leaving
    <3>4. OnlyReply(wire'[h], [op |-> "unsubscribed"])
      <4> HIDE DEF R, w
      <4> QED
        BY <1>1, <3>1, <3>2, <3>3, WireAppended DEF Leaving, w
    <3>5. Left(h)'
      BY <2>1, <3>1, <3>3, <3>4 DEF Leaving, Left
    <3>6. ASSUME NEW t \in Streams, Home[t] = h PROVE StreamFits(t)'
      <4>1. joining[t] # "live"
        BY <1>2, <3>1, <3>6 DEF InTurn, StreamFits, Leaving
      <4> QED
        BY <1>2, <2>1, <3>6, <4>1 DEF InTurn, StreamFits
    <3> QED
      BY <2>2, <3>5, <3>6 DEF InTurn, Phase
  <2>3. CASE r # h
    <3>1. (r \in subscribed') <=> (r \in subscribed)
      BY <2>1, <2>3
    <3> QED
      BY <1>1, <1>4, <2>1, <2>3, <3>1, Elsewhere, Zenon
  <2> QED
    BY <2>2, <2>3
<1>8. CASE Redis("orderly")!Acknowledged(h)
  <2>1. /\ w # <<>>
        /\ wire' = [wire EXCEPT ![h] = Tail(w)]
        /\ UNCHANGED <<current, sets, object, joined, cmds, subscribed, got, due, published,
                       faults>>
        /\ \/ /\ Head(w).op = "subscribed" /\ listeners' = [listeners EXCEPT ![h] = @ + 1]
              /\ joining' = [joining EXCEPT ![Head(w).by] = "joining"]
           \/ /\ Head(w).op = "unsubscribed" /\ listeners' = [listeners EXCEPT ![h] = 0]
              /\ UNCHANGED joining
    BY <1>8 DEF Redis!Acknowledged
  <2>2. Head(w) = w[1] /\ w[1].op # "message" /\ wire'[h] = Tail(w)
    BY <1>1, <2>1
  <2>3. ~Quiet(w)
    <3> HIDE DEF R, w
    <3> QED
      BY <1>1, <2>1, <2>2, WireTaken, Zenon
  <2>4. \A x : OnlyReply(w, x) => w[1] = x /\ Quiet(Tail(w))
    <3> HIDE DEF R, w
    <3> QED
      BY <1>1, <2>1, <2>2, WireTaken, Zenon
  <2>5. CASE Granted(h)
    <3>1. PICK s \in Streams : /\ Home[s] = h /\ joining[s] = "subscribing"
                               /\ OnlyReply(w, [op |-> "subscribed", by |-> s])
      BY <2>5 DEF Granted
    <3>2. Head(w) = [op |-> "subscribed", by |-> s] /\ Quiet(wire'[h])
      BY <2>2, <2>4, <3>1
    <3>3. /\ listeners' = [listeners EXCEPT ![h] = @ + 1]
          /\ joining' = [joining EXCEPT ![s] = "joining"]
      BY <2>1, <3>2
    <3>4. /\ listeners'[h] = 1 /\ joining'[s] = "joining"
          /\ \A t \in Streams : t # s => joining'[t] = joining[t]
      BY <1>1, <2>5, <3>3 DEF Granted
    <3>5. CASE r = h
      <4>1. Joining(h)'
        BY <2>1, <2>5, <3>1, <3>2, <3>4 DEF Granted, Joining
      <4>2. \A t \in Streams : Home[t] = h /\ t # s => joining[t] \notin Busy \cup {"live"}
        BY <1>2, <3>1 DEF InTurn, StreamFits, Busy
      <4>3. ASSUME NEW t \in Streams, Home[t] = h PROVE StreamFits(t)'
        <5>1. CASE t = s
          BY <1>2, <2>1, <3>1, <3>4, <4>2, <5>1 DEF InTurn, StreamFits, Busy
        <5>2. CASE t # s
          BY <1>2, <2>1, <3>4, <4>2, <4>3, <5>2 DEF InTurn, StreamFits
        <5> QED
          BY <5>1, <5>2
      <4> QED
        BY <3>5, <4>1, <4>3 DEF InTurn, Phase
    <3>6. CASE r # h
      <4>1. listeners'[r] = listeners[r] /\ wire'[r] = wire[r]
        BY <1>1, <2>1, <3>3, <3>6
      <4>2. \A t \in Streams : Home[t] = r => t # s
        BY <3>1, <3>6
      <4> HIDE DEF w
      <4> QED
        BY <1>4, <2>1, <3>4, <4>1, <4>2, Elsewhere
    <3> QED
      BY <3>5, <3>6
  <2>6. CASE Left(h)
    <3>1. Head(w) = [op |-> "unsubscribed"] /\ Quiet(wire'[h])
      BY <2>2, <2>4, <2>6 DEF Left
    <3>2. listeners' = [listeners EXCEPT ![h] = 0] /\ UNCHANGED joining
      BY <2>1, <3>1
    <3>3. CASE r = h
      <4>1. \A t \in Streams : Home[t] = h => joining[t] \notin Busy \cup {"live"}
        BY <1>2, <2>6 DEF InTurn, StreamFits, Left, Busy
      <4>2. Resting(h)'
        BY <1>1, <2>1, <2>6, <3>1, <3>2, <4>1 DEF Left, Resting
      <4>3. ASSUME NEW t \in Streams, Home[t] = h PROVE StreamFits(t)'
        BY <1>2, <2>1, <3>2, <4>1, <4>3 DEF InTurn, StreamFits
      <4> QED
        BY <3>3, <4>2, <4>3 DEF InTurn, Phase
    <3>4. CASE r # h
      <4>1. listeners'[r] = listeners[r] /\ wire'[r] = wire[r]
        BY <1>1, <2>1, <3>2, <3>4
      <4> HIDE DEF w
      <4> QED
        BY <1>4, <2>1, <3>2, <4>1, Elsewhere
    <3> QED
      BY <3>3, <3>4
  <2> QED
    BY <1>2, <2>3, <2>5, <2>6, PhaseKnown
<1>9. CASE Redis("orderly")!Emit(h)
  <2> DEFINE Here == Redis("orderly")!Served(h)
             id == Head(w).id
  <2>1. /\ w # <<>> /\ Head(w).op = "message"
        /\ wire' = [wire EXCEPT ![h] = Tail(w)]
        /\ got' = [s \in Streams |->
                     IF s \in Here THEN got[s] \o [i \in 1 .. listeners[h] |-> id] ELSE got[s]]
        /\ UNCHANGED <<current, sets, object, joined, joining, cmds, subscribed, listeners, due,
                       published, faults>>
    BY <1>9 DEF Redis!Emit, Redis!localVars
  <2>2. Head(w) = w[1] /\ wire'[h] = Tail(w) /\ w[1] \in R /\ id \in Nat
    <3>1. Head(w) = w[1] /\ w[1] \in R /\ wire'[h] = Tail(w)
      BY <1>1, <2>1
    <3>2. id \in Redis("orderly")!Messages
      BY <2>1, <3>1, Packets DEF RedisParts
    <3> QED
      BY <3>1, <3>2, Packets DEF RedisParts
  <2>3. /\ Quiet(w) => Quiet(Tail(w))
        /\ \A x : OnlyReply(w, x) /\ x.op # "message" => OnlyReply(Tail(w), x)
        /\ \A x : \A g \in Seq(Nat) : Carried(x, g, w) => Carried(x, g \o <<id>>, Tail(w))
    <3>1. w[1].op = "message" /\ w[1].id = id
      BY <2>1, <2>2
    <3> HIDE DEF R, w, id
    <3> QED
      BY <1>1, <2>1, <2>2, <3>1, WireTaken, Zenon
  <2>4. CASE r = h
    <3>1. Phase(h)'
      <4>1. Resting(h) => Resting(h)'
        BY <2>1, <2>2, <2>3 DEF Resting
      <4>2. Asking(h) => Asking(h)'
        BY <2>1, <2>2, <2>3 DEF Asking
      <4>3. Granted(h) => Granted(h)'
        BY <2>1, <2>2, <2>3 DEF Granted
      <4>4. Joining(h) => Joining(h)'
        BY <2>1, <2>2, <2>3 DEF Joining
      <4>5. Leaving(h) => Leaving(h)'
        BY <2>1, <2>2, <2>3 DEF Leaving
      <4>6. Left(h) => Left(h)'
        BY <2>1, <2>2, <2>3 DEF Left
      <4> QED
        BY <1>2, <4>1, <4>2, <4>3, <4>4, <4>5, <4>6 DEF InTurn, Phase
    <3>2. ASSUME NEW t \in Streams, Home[t] = h, joining[t] = "live", NEW m \in due[t]
          PROVE  Carried(m, got'[t], wire'[h])
      <4>1. Resting(h) /\ current[h] # 0 /\ listeners[h] = 1
        BY <1>2, <3>2, PhaseKnown DEF Resting
      <4>2. t \in Here
        BY <1>2, <3>2, <4>1 DEF InTurn, StreamFits, Redis!Served, Redis!Local
      <4>3. [i \in 1 .. listeners[h] |-> id] = <<id>>
        BY <4>1
      <4>4. got'[t] = got[t] \o <<id>>
        BY <2>1, <4>2, <4>3, Zenon
      <4>5. Carried(m, got[t], w)
        BY <1>2, <3>2 DEF InTurn, StreamFits
      <4> HIDE DEF w, id
      <4> QED
        BY <1>1, <2>2, <2>3, <4>4, <4>5, Zenon
    <3>3. ASSUME NEW t \in Streams, Home[t] = h PROVE StreamFits(t)'
      BY <1>2, <2>1, <3>2, <3>3, Zenon DEF InTurn, StreamFits
    <3> QED
      BY <2>4, <3>1, <3>3 DEF InTurn
  <2>5. CASE r # h
    <3>1. \A t \in Streams : Home[t] = r => got'[t] = got[t]
      BY <2>1, <2>5 DEF Redis!Served, Redis!Local
    <3>2. wire'[r] = wire[r]
      BY <1>1, <2>1, <2>5
    <3> HIDE DEF w
    <3> QED
      BY <1>4, <2>1, <3>1, <3>2, Elsewhere, Zenon
  <2> QED
    BY <2>4, <2>5
<1> QED
  BY <1>5, <1>6, <1>7, <1>8, <1>9 DEF Redis!ReplicaStep

\* Who publishes leaves every replica in its phase; whatever stream is registered is
\* one Redis sends the event to the replica of.
LEMMA TurnPublishStep ==
  ASSUME RedisInv("orderly"), TurnInv, Redis("orderly")!Publish
  PROVE  TurnInv'
<1> DEFINE R == Redis("orderly")!Reply
           m == [op |-> "message", id |-> published + 1]
<1>1. /\ wire' = [r \in Replicas |-> IF r \in subscribed THEN Append(wire[r], m) ELSE wire[r]]
      /\ due' = [s \in Streams |->
                   IF joining[s] = "live" THEN due[s] \cup {published + 1} ELSE due[s]]
      /\ UNCHANGED <<current, sets, object, joined, joining, cmds, subscribed, listeners, got,
                     faults>>
  BY DEF Redis!Publish, Redis!localVars
<1>2. m \in R
  <2>1. published + 1 \in Redis("orderly")!Messages
    <3>1. published < MaxMessages /\ published \in Nat /\ MaxMessages \in Nat
      BY PlatformAssumption
      DEF Redis!Publish, RedisInv, Redis!TypeOK, Redis!RedisSseAssumption, RedisParts
    <3> QED
      BY <3>1 DEF Redis!Messages
  <2> QED
    BY <2>1, Packets DEF RedisParts
<1>3. SUFFICES ASSUME NEW r \in Replicas PROVE InTurn(r)'
  BY DEF TurnInv
<1>4. InTurn(r) /\ wire[r] \in Seq(R)
  BY RedisTypes DEF TurnInv, RedisInv, RedisParts
<1> DEFINE w == wire[r]
<1>5. /\ Quiet(w) => Quiet(wire'[r])
      /\ \A x : OnlyReply(w, x) => OnlyReply(wire'[r], x)
      /\ \A x, g : Carried(x, g, w) => Carried(x, g, wire'[r])
      /\ r \in subscribed => \A g : Carried(published + 1, g, wire'[r])
  <2>1. /\ r \in subscribed => wire'[r] = Append(w, m)
        /\ r \notin subscribed => wire'[r] = w
    BY <1>1
  <2>2. m.op = "message"
    OBVIOUS
  <2>3. /\ Quiet(w) => Quiet(Append(w, m))
        /\ \A x : OnlyReply(w, x) => OnlyReply(Append(w, m), x)
        /\ \A x, g : Carried(x, g, w) => Carried(x, g, Append(w, m))
    <3> HIDE DEF R, w, m
    <3> QED
      BY <1>2, <1>4, <2>2, WireAppended DEF w
  <2>4. \A g : Carried(published + 1, g, Append(w, m))
    <3>1. \A x, g : m = [op |-> "message", id |-> x] => Carried(x, g, Append(w, m))
      <4> HIDE DEF R, w, m
      <4> QED
        BY <1>2, <1>4, WireAppended DEF w
    <3> QED
      BY <3>1
  <2> HIDE DEF w, m
  <2> QED
    BY <2>1, <2>3, <2>4, Zenon
<1> HIDE DEF m
<1>6. Phase(r)'
  <2>1. Resting(r) => Resting(r)'
    BY <1>1, <1>5 DEF Resting
  <2>2. Asking(r) => Asking(r)'
    BY <1>1, <1>5 DEF Asking
  <2>3. Granted(r) => Granted(r)'
    BY <1>1, <1>5 DEF Granted
  <2>4. Joining(r) => Joining(r)'
    BY <1>1, <1>5 DEF Joining
  <2>5. Leaving(r) => Leaving(r)'
    BY <1>1, <1>5 DEF Leaving
  <2>6. Left(r) => Left(r)'
    BY <1>1, <1>5 DEF Left
  <2> QED
    BY <1>4, <2>1, <2>2, <2>3, <2>4, <2>5, <2>6 DEF InTurn, Phase
<1>7. ASSUME NEW s \in Streams, Home[s] = r PROVE StreamFits(s)'
  <2>1. CASE joining[s] = "live"
    <3>1. r \in subscribed
      BY <1>4, <1>7, <2>1, PhaseKnown DEF Resting
    <3>2. \A x \in due'[s] : Carried(x, got[s], wire'[r])
      BY <1>1, <1>4, <1>5, <1>7, <2>1, <3>1 DEF InTurn, StreamFits
    <3> QED
      BY <1>1, <1>4, <1>7, <2>1, <3>2 DEF InTurn, StreamFits, Busy
  <2>2. CASE joining[s] # "live"
    <3>1. due'[s] = due[s]
      BY <1>1, <2>2
    <3> QED
      BY <1>1, <1>4, <1>7, <2>2, <3>1 DEF InTurn, StreamFits
  <2> QED
    BY <2>1, <2>2
<1> QED
  BY <1>6, <1>7 DEF InTurn

\* A step of calls in turn keeps the phases.
LEMMA TurnStep ==
  ASSUME RedisInv("orderly"), TurnInv, Redis("orderly")!Next
  PROVE  TurnInv'
  BY TurnPublishStep, TurnStreamStep, TurnReplicaStep DEF Redis!Next

\* At first every replica rests, without streams.
LEMMA TurnInit ==
  ASSUME Redis("orderly")!Init
  PROVE  TurnInv
<1>1. Home \in [Streams -> Replicas]
  BY Packets DEF RedisParts
<1>2. ASSUME NEW r \in Replicas PROVE Resting(r)
  BY <1>1, <1>2 DEF Redis!Init, Resting, Quiet, Busy
<1>3. ASSUME NEW s \in Streams PROVE StreamFits(s)
  BY <1>1, <1>3 DEF Redis!Init, StreamFits, Busy
<1> QED
  BY <1>2, <1>3 DEF TurnInv, InTurn, Phase

\* The invariants say what the properties of RedisSse do.
LEMMA RedisIsRight ==
  ASSUME NEW kind \in RedisParts, RedisInv(kind)
  PROVE  /\ Redis(kind)!InOrderOnce
         /\ kind = "orderly" /\ TurnInv =>
              /\ Redis("orderly")!TypeOK /\ Redis("orderly")!NothingMissed
              /\ Redis("orderly")!SubscribedIffServing
<1>1. Redis(kind)!InOrderOnce
  BY DEF RedisInv, GotAscends, Redis!InOrderOnce
<1>2. ASSUME kind = "orderly", TurnInv
      PROVE  /\ Redis("orderly")!TypeOK /\ Redis("orderly")!NothingMissed
             /\ Redis("orderly")!SubscribedIffServing
  <2>1. Redis("orderly")!TypeOK
    BY <1>2 DEF RedisInv
  <2>2. Home \in [Streams -> Replicas] /\ \A r \in Replicas : InTurn(r)
    BY <1>2, Packets DEF TurnInv
  <2>3. ASSUME NEW s \in Streams, joining[s] = "live", NEW m \in due[s]
        PROVE  \/ m \in Redis("orderly")!Range(got[s])
               \/ [op |-> "message", id |-> m] \in Redis("orderly")!Range(wire[Home[s]])
    <3>1. Carried(m, got[s], wire[Home[s]])
      BY <2>2, <2>3 DEF InTurn, StreamFits
    <3> QED
      BY <3>1 DEF Carried, Redis!Range
  <2>4. Redis("orderly")!NothingMissed
    BY <2>3, Zenon DEF Redis!NothingMissed
  <2>5. ASSUME NEW r \in Replicas, Redis("orderly")!Idle(r)
        PROVE  /\ (r \in subscribed) = (Redis("orderly")!Served(r) # {})
               /\ listeners[r] = IF r \in subscribed THEN 1 ELSE 0
    <3>1. Resting(r)
      BY <2>2, <2>5, PhaseKnown
    <3>2. current[r] # 0 => Redis("orderly")!Served(r) # {}
      BY <2>2, <3>1 DEF InTurn, StreamFits, Resting, Redis!Served, Redis!Local
    <3>3. current[r] = 0 => Redis("orderly")!Served(r) = {}
      BY DEF Redis!Served
    <3>4. (r \in subscribed) = (Redis("orderly")!Served(r) # {})
      BY <3>1, <3>2, <3>3 DEF Resting
    <3>5. listeners[r] = IF r \in subscribed THEN 1 ELSE 0
      BY <3>1 DEF Resting
    <3> QED
      BY <3>4, <3>5
  <2>6. Redis("orderly")!SubscribedIffServing
    BY <2>5 DEF Redis!SubscribedIffServing
  <2> QED
    BY <2>1, <2>4, <2>6
<1> QED
  BY <1>1, <1>2

-----------------------------------------------------------------------------
(* Log files                                                               *)

RecordNumbers == 1 .. MaxLogs
LogHandle == [attached : BOOLEAN, since : Nat, until : Nat]
LogStreams == [Records!Files -> Seq(RecordNumbers)]
LogReader == [page : Nat, pages : Nat, met : SUBSET RecordNumbers, first : SUBSET RecordNumbers]

LogTypes ==
  /\ logged \in Seq(LogKinds) /\ Len(logged) <= MaxLogs
  /\ handles \in Seq(LogHandle) /\ Len(handles) <= MaxOpens
  /\ pending \in Seq(LogStreams) /\ Len(pending) = Len(handles)
  /\ files \in LogStreams /\ reader \in LogReader

\* Nothing is written, or waits, that was not logged.
AtMost(s, n) == \A i \in DOMAIN s : s[i] <= n
LogsKnown ==
  /\ \A f \in Records!Files : AtMost(files[f], Len(logged))
  /\ \A h \in DOMAIN pending, f \in Records!Files : AtMost(pending[h][f], Len(logged))
  /\ \A h \in DOMAIN handles : handles[h].since <= Len(logged) /\ handles[h].until <= Len(logged)

Ascends(s) == \A i, j \in DOMAIN s : i < j => s[i] < s[j]

\* What FilesAreComplete counts, of values of the variables.
Placed(s, r) == {i \in DOMAIN s : s[i] = r}
Has(s, r) == \E i \in DOMAIN s : s[i] = r
Holding(p, f, r) == {h \in DOMAIN p : Has(p[h][f], r)}
Watched(hs, r) == {h \in DOMAIN hs : hs[h].since < r /\ (hs[h].attached \/ r <= hs[h].until)}
Balanced(fs, p, hs, kinds, f, r) ==
  Cardinality(Placed(fs[f], r)) + Cardinality(Holding(p, f, r)) =
    IF f \in Records!FilesOf(kinds[r]) THEN Cardinality(Watched(hs, r)) ELSE 0

\* r is among the entries, at least k of them logged after it; pages go from the end.
Behind(s, r, k) == \E j \in DOMAIN s : s[j] = r /\ Len(s) - j >= k
ReaderInv ==
  /\ reader.page = 0 => reader.first \subseteq reader.met
  /\ reader.page > 1 =>
       \A r \in reader.first \ reader.met :
         Behind(Records!ReadEntries(LogSource), r, (reader.page - 1) * PageSize)

LogInv ==
  /\ LogTypes /\ LogsKnown
  /\ \A h \in DOMAIN pending, f \in Records!Files : Ascends(pending[h][f])
  /\ \A f \in Records!Files, r \in DOMAIN logged :
       Balanced(files, pending, handles, logged, f, r)
  /\ ReaderInv

LEMMA LogConstants ==
  /\ PageSize \in Nat \ {0} /\ MaxLogs \in Nat /\ MaxOpens \in Nat
  /\ {"debug", "info", "warning", "error"} \subseteq Records!Files
  /\ LogSource \in Records!Files \cup {"all"}
  BY PlatformAssumption DEF Records!LogsAssumption, Records!Files, Records!LevelFiles

LEMMA LogsInit == Records!Init => LogInv
<1> SUFFICES ASSUME Records!Init PROVE LogInv
  OBVIOUS
<1>1. /\ logged = <<>> /\ handles = <<>> /\ pending = <<>>
      /\ files = [f \in Records!Files |-> <<>>]
      /\ reader = [page |-> 0, pages |-> 0, met |-> {}, first |-> {}]
  BY DEF Records!Init
<1>2. LogTypes
  BY <1>1, LogConstants DEF LogTypes, LogStreams, LogReader
<1>3. LogsKnown
  BY <1>1 DEF LogsKnown, AtMost
<1>4. ReaderInv
  BY <1>1 DEF ReaderInv
<1> QED
  BY <1>1, <1>2, <1>3, <1>4 DEF LogInv

LEMMA LogsStay == ASSUME LogInv, UNCHANGED logs PROVE LogInv'
<1> USE DEF logs
<1>1. LogTypes' /\ LogsKnown'
  BY DEF LogInv, LogTypes, LogsKnown
<1>2. ReaderInv'
  BY DEF LogInv, ReaderInv, Records!ReadEntries
<1> QED
  BY <1>1, <1>2 DEF LogInv

-----------------------------------------------------------------------------
(* Entries are only appended: what is behind k others stays so.            *)

Grown(s, t) ==
  Len(s) <= Len(t) /\ \A r, k : k \in Int /\ Behind(s, r, k) => Behind(t, r, k)

LEMMA SameGrown == ASSUME NEW s \in Seq(RecordNumbers) PROVE Grown(s, s)
  BY DEF Grown

LEMMA AppendGrown ==
  ASSUME NEW s \in Seq(RecordNumbers), NEW x \in RecordNumbers PROVE Grown(s, Append(s, x))
<1>1. ASSUME NEW r, NEW k \in Int, Behind(s, r, k) PROVE Behind(Append(s, x), r, k)
  <2>1. PICK j \in 1 .. Len(s) : s[j] = r /\ Len(s) - j >= k
    BY <1>1 DEF Behind
  <2>2. /\ Append(s, x)[j] = r /\ j \in DOMAIN Append(s, x)
        /\ Len(Append(s, x)) = Len(s) + 1
    BY <2>1
  <2>3. Len(Append(s, x)) - j >= k
    BY <2>1, <2>2
  <2> QED
    BY <2>2, <2>3 DEF Behind
<1> QED
  BY <1>1 DEF Grown

LEMMA ConcatGrown ==
  ASSUME NEW a \in Seq(RecordNumbers), NEW b \in Seq(RecordNumbers), NEW c \in Seq(RecordNumbers),
         NEW d \in Seq(RecordNumbers), Grown(a, c), Grown(b, d)
  PROVE  Grown(a \o b, c \o d)
<1>1. /\ a \o b \in Seq(RecordNumbers) /\ Len(a \o b) = Len(a) + Len(b)
      /\ c \o d \in Seq(RecordNumbers) /\ Len(c \o d) = Len(c) + Len(d)
      /\ Len(a) <= Len(c) /\ Len(b) <= Len(d)
      /\ Len(a) \in Nat /\ Len(b) \in Nat /\ Len(c) \in Nat /\ Len(d) \in Nat
  BY DEF Grown
<1>2. ASSUME NEW r, NEW k \in Int, Behind(a \o b, r, k) PROVE Behind(c \o d, r, k)
  <2>1. PICK j \in 1 .. (Len(a) + Len(b)) : (a \o b)[j] = r /\ (Len(a) + Len(b)) - j >= k
    BY <1>1, <1>2 DEF Behind
  <2>2. CASE j <= Len(a)
    <3>1. a[j] = r /\ j \in DOMAIN a /\ Len(a) - j >= k - Len(b)
      <4>1. j \in 1 .. Len(a) /\ j \in Int
        BY <1>1, <2>1, <2>2
      <4>2. (a \o b)[j] = a[j] /\ j \in DOMAIN a
        BY <4>1
      <4>3. Len(a) - j >= k - Len(b)
        BY <1>1, <1>2, <2>1, <4>1
      <4> QED
        BY <2>1, <4>2, <4>3
    <3> DEFINE m == k - Len(b)
    <3>2. m \in Int /\ m + Len(b) = k /\ Len(a) - j >= m
      BY <1>1, <1>2, <3>1
    <3> HIDE DEF m
    <3>3. Behind(a, r, m)
      BY <3>1, <3>2 DEF Behind
    <3>4. Behind(c, r, m)
      BY <3>2, <3>3 DEF Grown
    <3>5. PICK i \in 1 .. Len(c) : c[i] = r /\ Len(c) - i >= m
      BY <3>4 DEF Behind
    <3>6. (c \o d)[i] = r /\ i \in DOMAIN (c \o d)
      BY <1>1, <3>5
    <3>7. Len(c \o d) - i >= k
      BY <1>1, <1>2, <3>2, <3>5
    <3> QED
      BY <3>6, <3>7, Zenon DEF Behind
  <2>3. CASE j > Len(a)
    <3>1. b[j - Len(a)] = r /\ j - Len(a) \in DOMAIN b /\ Len(b) - (j - Len(a)) >= k
      BY <1>1, <2>1, <2>3
    <3>2. Behind(d, r, k)
      BY <3>1, Zenon DEF Behind, Grown
    <3>3. PICK i \in 1 .. Len(d) : d[i] = r /\ Len(d) - i >= k
      BY <3>2 DEF Behind
    <3>4. (c \o d)[Len(c) + i] = r /\ Len(c) + i \in DOMAIN (c \o d)
      <4>1. Len(c) + i \in 1 .. Len(c) + Len(d) /\ ~(Len(c) + i <= Len(c)) /\ (Len(c) + i) - Len(c) = i
        BY <1>1, <3>3
      <4>2. (c \o d)[Len(c) + i] = d[(Len(c) + i) - Len(c)]
        BY <4>1
      <4> QED
        BY <1>1, <3>3, <4>1, <4>2
    <3>5. Len(c \o d) - (Len(c) + i) >= k
      BY <1>1, <3>3
    <3> QED
      BY <3>4, <3>5, Zenon DEF Behind
  <2> QED
    BY <1>1, <2>1, <2>2, <2>3
<1> QED
  BY <1>1, <1>2 DEF Grown

\* A file more, or longer, whichever files the reader asked for.
LEMMA EntriesGrow ==
  ASSUME files \in LogStreams, files' \in LogStreams,
         \A f \in Records!Files : Grown(files[f], files'[f])
  PROVE  Grown(Records!ReadEntries(LogSource), Records!ReadEntries(LogSource)')
<1> DEFINE D == files["debug"] I == files["info"] W == files["warning"] E == files["error"]
           D1 == files'["debug"] I1 == files'["info"] W1 == files'["warning"]
           E1 == files'["error"]
<1>1. /\ D \in Seq(RecordNumbers) /\ I \in Seq(RecordNumbers) /\ W \in Seq(RecordNumbers) /\ E \in Seq(RecordNumbers)
      /\ D1 \in Seq(RecordNumbers) /\ I1 \in Seq(RecordNumbers) /\ W1 \in Seq(RecordNumbers)
      /\ E1 \in Seq(RecordNumbers)
      /\ Grown(D, D1) /\ Grown(I, I1) /\ Grown(W, W1) /\ Grown(E, E1)
  BY LogConstants DEF LogStreams
<1>2. CASE LogSource # "all"
  BY <1>2, LogConstants DEF Records!ReadEntries
<1>3. CASE LogSource = "all"
  <2>1. /\ Records!ReadEntries(LogSource) = ((D \o I) \o W) \o E
        /\ Records!ReadEntries(LogSource)' = ((D1 \o I1) \o W1) \o E1
    BY <1>3 DEF Records!ReadEntries
  <2> HIDE DEF D, I, W, E, D1, I1, W1, E1
  <2>2. PICK x, x1 : x = D \o I /\ x1 = D1 \o I1
    BY Zenon
  <2>3. x \in Seq(RecordNumbers) /\ x1 \in Seq(RecordNumbers)
    BY <1>1, <2>2
  <2>4. Grown(x, x1)
    BY <1>1, <2>2, ConcatGrown
  <2>5. PICK y, y1 : y = x \o W /\ y1 = x1 \o W1
    BY Zenon
  <2>6. y \in Seq(RecordNumbers) /\ y1 \in Seq(RecordNumbers)
    BY <1>1, <2>3, <2>5
  <2>7. Grown(y, y1)
    BY <1>1, <2>3, <2>4, <2>5, ConcatGrown, Zenon
  <2>8. Grown(y \o E, y1 \o E1)
    BY <1>1, <2>6, <2>7, ConcatGrown
  <2> QED
    BY <2>1, <2>2, <2>5, <2>8
<1> QED
  BY <1>2, <1>3

LEMMA EntriesType ==
  ASSUME files \in LogStreams PROVE Records!ReadEntries(LogSource) \in Seq(RecordNumbers)
<1>1. \A f \in Records!Files : files[f] \in Seq(RecordNumbers)
  BY DEF LogStreams
<1>2. CASE LogSource # "all"
  BY <1>1, <1>2, LogConstants DEF Records!ReadEntries
<1>3. CASE LogSource = "all"
  BY <1>1, <1>3, LogConstants DEF Records!ReadEntries
<1> QED
  BY <1>2, <1>3

\* With the reader at rest, its promise holds while files grow.
LEMMA ReaderWaits ==
  ASSUME LogInv, UNCHANGED reader, files' \in LogStreams,
         \A f \in Records!Files : Grown(files[f], files'[f])
  PROVE  ReaderInv'
<1>1. Grown(Records!ReadEntries(LogSource), Records!ReadEntries(LogSource)')
  BY EntriesGrow DEF LogInv, LogTypes
<1>2. reader.page \in Nat
  BY DEF LogInv, LogTypes, LogReader
<1>3. (reader.page - 1) * PageSize \in Int
  BY <1>2, LogConstants
<1> QED
  BY <1>1, <1>3 DEF LogInv, ReaderInv, Grown

-----------------------------------------------------------------------------

LEMMA OpeningLogs == ASSUME LogInv, Records!Configure PROVE LogInv'
<1> DEFINE none == [f \in Records!Files |-> <<>>]
           opened == [attached |-> TRUE, since |-> Len(logged), until |-> 0]
           n == Len(handles)
<1>1. /\ n < MaxOpens /\ handles' = Append(handles, opened) /\ pending' = Append(pending, none)
      /\ UNCHANGED <<logged, files, reader>>
  BY DEF Records!Configure
<1>2. /\ handles \in Seq(LogHandle) /\ pending \in Seq(LogStreams) /\ Len(pending) = n
      /\ n \in Nat /\ Len(logged) \in Nat
  BY DEF LogInv, LogTypes
<1>3. opened \in LogHandle /\ none \in LogStreams /\ \A f \in Records!Files : none[f] = <<>>
  BY <1>2 DEF LogHandle, LogStreams
<1>4. opened.since = Len(logged) /\ opened.until = 0
  OBVIOUS
<1> HIDE DEF none, opened
<1>5. /\ handles' \in Seq(LogHandle) /\ pending' \in Seq(LogStreams)
      /\ Len(handles') = n + 1 /\ Len(pending') = n + 1
      /\ DOMAIN handles = 1 .. n /\ DOMAIN pending = 1 .. n
      /\ DOMAIN handles' = 1 .. n + 1 /\ DOMAIN pending' = 1 .. n + 1
      /\ handles'[n + 1] = opened /\ pending'[n + 1] = none
      /\ \A h \in 1 .. n : handles'[h] = handles[h] /\ pending'[h] = pending[h]
  BY <1>1, <1>2, <1>3, AppendProperties
<1>6. \A h \in 1 .. n + 1 : h \in 1 .. n \/ h = n + 1
  BY <1>2
<1>7. LogTypes'
  <2>1. Len(handles') <= MaxOpens
    BY <1>1, <1>2, <1>5, LogConstants
  <2> QED
    BY <1>1, <1>5, <2>1 DEF LogInv, LogTypes
<1>8. LogsKnown'
  <2>1. \A h \in DOMAIN pending', f \in Records!Files : AtMost(pending'[h][f], Len(logged))
    BY <1>3, <1>5, <1>6 DEF LogInv, LogsKnown, AtMost
  <2>2. \A h \in DOMAIN handles' : /\ handles'[h].since <= Len(logged)
                                   /\ handles'[h].until <= Len(logged)
    BY <1>2, <1>4, <1>5, <1>6 DEF LogInv, LogsKnown
  <2> QED
    BY <1>1, <2>1, <2>2 DEF LogInv, LogsKnown
<1>9. \A h \in DOMAIN pending', f \in Records!Files : Ascends(pending'[h][f])
  BY <1>3, <1>5, <1>6 DEF LogInv, Ascends
<1>10. ASSUME NEW f \in Records!Files, NEW r \in DOMAIN logged
       PROVE  Balanced(files, pending', handles', logged, f, r)
  <2>1. r <= Len(logged) /\ r \in Nat
    BY <1>2 DEF LogInv, LogTypes
  <2>2. Holding(pending', f, r) = Holding(pending, f, r)
    BY <1>2, <1>3, <1>5, <1>6 DEF Holding, Has
  <2>3. Watched(handles', r) = Watched(handles, r)
    <3>1. ~(opened.since < r)
      BY <1>2, <1>4, <2>1
    <3> QED
      BY <1>2, <1>5, <1>6, <3>1 DEF Watched
  <2> QED
    BY <2>2, <2>3 DEF LogInv, Balanced
<1>11. ReaderInv'
  BY <1>1 DEF LogInv, ReaderInv, Records!ReadEntries
<1> QED
  BY <1>1, <1>7, <1>8, <1>9, <1>10, <1>11 DEF LogInv

LEMMA ClosingLogs == ASSUME LogInv, NEW h \in DOMAIN handles, Records!Close(h) PROVE LogInv'
<1> DEFINE closed == [attached |-> FALSE, since |-> handles[h].since, until |-> Len(logged)]
<1>1. /\ handles[h].attached /\ UNCHANGED <<logged, pending, files, reader>>
      /\ handles' = [handles EXCEPT ![h] = closed]
  BY DEF Records!Close, Records!Attached
<1>2. /\ handles \in Seq(LogHandle) /\ Len(logged) \in Nat /\ handles[h] \in LogHandle
      /\ DOMAIN pending = DOMAIN handles
  BY DEF LogInv, LogTypes
<1>3. handles' = [handles EXCEPT ![h] = closed]
  BY <1>1
<1>4. /\ closed \in LogHandle /\ closed.since = handles[h].since /\ ~closed.attached
      /\ closed.until = Len(logged)
  BY <1>2 DEF LogHandle
<1> HIDE DEF closed
<1>5. /\ handles' \in Seq(LogHandle) /\ Len(handles') = Len(handles) /\ handles'[h] = closed
      /\ DOMAIN handles' = DOMAIN handles
      /\ \A g \in DOMAIN handles : g # h => handles'[g] = handles[g]
  BY <1>2, <1>3, <1>4, ExceptSeq
<1>6. LogTypes'
  BY <1>1, <1>5 DEF LogInv, LogTypes
<1>7. LogsKnown'
  <2>1. \A g \in DOMAIN handles : /\ handles'[g].since <= Len(logged)
                                  /\ handles'[g].until <= Len(logged)
    BY <1>2, <1>4, <1>5 DEF LogInv, LogsKnown
  <2> QED
    BY <1>1, <1>5, <2>1 DEF LogInv, LogsKnown
<1>8. ASSUME NEW f \in Records!Files, NEW r \in DOMAIN logged
      PROVE  Balanced(files, pending, handles', logged, f, r)
  <2>1. r <= Len(logged)
    BY <1>2 DEF LogInv, LogTypes
  <2>2. Watched(handles', r) = Watched(handles, r)
    BY <1>1, <1>4, <1>5, <2>1 DEF Watched
  <2> QED
    BY <2>2 DEF LogInv, Balanced
<1>9. ReaderInv'
  BY <1>1 DEF LogInv, ReaderInv, Records!ReadEntries
<1> QED
  BY <1>1, <1>6, <1>7, <1>8, <1>9, Zenon DEF LogInv

LEMMA Logging == ASSUME LogInv, NEW record \in LogKinds, Records!Log(record) PROVE LogInv'
<1> DEFINE n == Len(logged) + 1
           Next_(h, f) == IF h \in Records!Attached /\ f \in Records!FilesOf(record)
                          THEN Append(pending[h][f], n) ELSE pending[h][f]
<1>1. /\ n <= MaxLogs /\ logged' = Append(logged, record) /\ UNCHANGED <<handles, files, reader>>
      /\ pending' = [h \in DOMAIN pending |-> [f \in Records!Files |-> Next_(h, f)]]
  <2>1. Len(logged) < MaxLogs /\ Len(logged) \in Nat
    BY DEF Records!Log, LogInv, LogTypes
  <2> QED
    BY <2>1, LogConstants DEF Records!Log
<1>2. /\ logged \in Seq(LogKinds) /\ pending \in Seq(LogStreams) /\ n \in RecordNumbers
      /\ DOMAIN pending = DOMAIN handles /\ handles \in Seq(LogHandle)
      /\ DOMAIN pending = 1 .. Len(pending) /\ Len(pending) \in Nat
      /\ \A h \in DOMAIN pending, f \in Records!Files : pending[h][f] \in Seq(RecordNumbers)
  BY <1>1, LogConstants DEF LogInv, LogTypes, RecordNumbers, LogStreams
<1>3. PICK newest : newest = n
  OBVIOUS
<1>4. /\ logged' \in Seq(LogKinds) /\ Len(logged') = newest /\ DOMAIN logged' = 1 .. newest
      /\ logged'[newest] = record /\ newest \in RecordNumbers /\ newest \in Nat /\ Len(logged) = newest - 1
      /\ \A r \in 1 .. newest - 1 : logged'[r] = logged[r]
      /\ DOMAIN logged = 1 .. newest - 1
  BY <1>1, <1>2, <1>3
<1>5. ASSUME NEW h \in DOMAIN pending, NEW f \in Records!Files
      PROVE  /\ pending'[h][f] \in Seq(RecordNumbers) /\ Ascends(pending'[h][f])
             /\ AtMost(pending'[h][f], newest)
             /\ \A r \in 1 .. newest - 1 : Has(pending'[h][f], r) <=> Has(pending[h][f], r)
             /\ Has(pending'[h][f], newest) <=>
                  h \in Records!Attached /\ f \in Records!FilesOf(record)
  <2> DEFINE s == pending[h][f]
  <2>1. /\ s \in Seq(RecordNumbers) /\ Ascends(s) /\ AtMost(s, newest - 1)
        /\ DOMAIN s = 1 .. Len(s) /\ \A i \in DOMAIN s : s[i] \in Nat
    <3>1. s \in Seq(RecordNumbers) /\ Ascends(s)
      BY <1>2 DEF LogInv
    <3>2. AtMost(s, newest - 1)
      BY <1>2, <1>4 DEF LogInv, LogsKnown
    <3>3. DOMAIN s = 1 .. Len(s) /\ \A i \in DOMAIN s : s[i] \in RecordNumbers
      BY <3>1
    <3>4. \A x \in RecordNumbers : x \in Nat
      BY LogConstants DEF RecordNumbers
    <3> QED
      BY <3>1, <3>2, <3>3, <3>4, Zenon
  <2>2. pending'[h][f] = Next_(h, f)
    BY <1>1
  <2>3. CASE h \in Records!Attached /\ f \in Records!FilesOf(record)
    <3>1. pending'[h][f] = Append(s, newest)
      BY <1>3, <2>2, <2>3
    <3> HIDE DEF s
    <3>2. PICK t : t = Append(s, newest)
      BY Zenon
    <3>3. /\ t \in Seq(RecordNumbers) /\ Len(t) = Len(s) + 1 /\ t[Len(s) + 1] = newest
          /\ \A i \in DOMAIN s : t[i] = s[i]
          /\ DOMAIN t = DOMAIN s \cup {Len(s) + 1} /\ Len(s) \in Nat
      BY <1>4, <2>1, <3>2
    <3>4. AtMost(t, newest) /\ Ascends(t)
      BY <1>4, <2>1, <3>3 DEF AtMost, Ascends
    <3>5. Has(t, newest) /\ \A r \in 1 .. newest - 1 : Has(t, r) <=> Has(s, r)
      BY <1>4, <2>1, <3>3 DEF Has
    <3> QED
      BY <2>3, <3>1, <3>2, <3>3, <3>4, <3>5 DEF s
  <2>4. CASE ~(h \in Records!Attached /\ f \in Records!FilesOf(record))
    <3>1. pending'[h][f] = s
      BY <2>2, <2>4
    <3> HIDE DEF s
    <3>2. AtMost(s, newest) /\ ~Has(s, newest)
      BY <1>4, <2>1 DEF AtMost, Has
    <3> QED
      BY <2>1, <2>4, <3>1, <3>2 DEF s
  <2> QED
    BY <2>3, <2>4
<1>6. /\ pending' \in Seq(LogStreams) /\ Len(pending') = Len(pending)
      /\ DOMAIN pending' = DOMAIN pending
  <2>1. \A h \in DOMAIN pending : pending'[h] \in LogStreams
    BY <1>1, <1>5 DEF LogStreams
  <2>2. DOMAIN pending' = 1 .. Len(pending)
    BY <1>1, <1>2
  <2> HIDE DEF Next_
  <2>3. PICK p : p = pending'
    OBVIOUS
  <2>4. p = [h \in 1 .. Len(pending) |-> p[h]] /\ \A h \in 1 .. Len(pending) : p[h] \in LogStreams
    BY <1>1, <1>2, <2>1, <2>3, Zenon
  <2>5. [h \in 1 .. Len(pending) |-> p[h]] \in Seq(LogStreams)
    BY <1>2, <2>4
  <2>6. p \in Seq(LogStreams)
    BY <2>4, <2>5
  <2>7. Len(p) = Len(pending)
    BY <1>2, <2>2, <2>3, <2>6
  <2> QED
    BY <1>2, <2>2, <2>3, <2>6, <2>7
<1>7. LogTypes'
  BY <1>1, <1>3, <1>4, <1>6 DEF LogInv, LogTypes
<1>8. LogsKnown'
  <2>1. \A s : AtMost(s, Len(logged)) /\ s \in Seq(RecordNumbers) => AtMost(s, newest)
    BY <1>4, LogConstants DEF AtMost, RecordNumbers
  <2>2. \A f \in Records!Files : AtMost(files[f], newest)
    BY <2>1 DEF LogInv, LogsKnown, LogTypes, LogStreams
  <2>3. \A h \in DOMAIN handles : handles[h].since <= newest /\ handles[h].until <= newest
    <3>1. \A h \in DOMAIN handles : handles[h].since \in Nat /\ handles[h].until \in Nat
      <4>1. \A h \in DOMAIN handles : handles[h] \in LogHandle
        BY <1>2, ElementOfSeq, LenProperties, Zenon
      <4> QED
        BY <4>1 DEF LogHandle
    <3> QED
      BY <1>4, <3>1 DEF LogInv, LogsKnown
  <2> QED
    BY <1>1, <1>4, <1>5, <1>6, <2>2, <2>3 DEF LogsKnown
<1>9. ASSUME NEW f \in Records!Files, NEW r \in 1 .. newest
      PROVE  Balanced(files, pending', handles, logged', f, r)
  <2>1. CASE r < newest
    <3>1. r \in 1 .. newest - 1
      BY <1>4, <2>1
    <3>2. Holding(pending', f, r) = Holding(pending, f, r)
      BY <1>5, <1>6, <3>1 DEF Holding
    <3>3. logged'[r] = logged[r] /\ r \in DOMAIN logged
      BY <1>4, <3>1
    <3> QED
      BY <3>2, <3>3 DEF LogInv, Balanced
  <2>2. CASE r = newest
    <3>1. Placed(files[f], r) = {}
      <4>1. AtMost(files[f], newest - 1) /\ files[f] \in Seq(RecordNumbers)
        BY <1>4 DEF LogInv, LogsKnown, LogTypes, LogStreams
      <4> QED
        BY <1>4, <2>2, <4>1, LogConstants DEF Placed, AtMost, RecordNumbers
    <3>2. Holding(pending', f, r) = IF f \in Records!FilesOf(record) THEN Records!Attached ELSE {}
      <4>1. Records!Attached \subseteq DOMAIN pending
        BY <1>2 DEF Records!Attached
      <4> QED
        BY <1>5, <1>6, <2>2, <4>1 DEF Holding
    <3>3. Watched(handles, r) = Records!Attached
      <4>1. \A h \in DOMAIN handles : handles[h].since < newest /\ ~(newest <= handles[h].until)
        <5>1. \A h \in DOMAIN handles : handles[h].since \in Nat /\ handles[h].until \in Nat
          <6>1. \A h \in DOMAIN handles : handles[h] \in LogHandle
            BY <1>2, ElementOfSeq, LenProperties, Zenon
          <6> QED
            BY <6>1 DEF LogHandle
        <5> QED
          BY <1>4, <5>1 DEF LogInv, LogsKnown
      <4> QED
        BY <2>2, <4>1 DEF Watched, Records!Attached
    <3>4. Cardinality({}) = 0 /\ Cardinality(Records!Attached) \in Nat
      <4>1. Records!Attached \subseteq 1 .. Len(pending)
        BY <1>2 DEF Records!Attached
      <4>2. IsFiniteSet(1 .. Len(pending))
        BY <1>2, FS_Interval
      <4> QED
        BY <4>1, <4>2, FS_Subset, FS_EmptySet, FS_CardinalityType, Zenon
    <3>5. logged'[r] = record
      BY <1>4, <2>2
    <3> QED
      BY <3>1, <3>2, <3>3, <3>4, <3>5 DEF Balanced
  <2> QED
    BY <1>4, <2>1, <2>2
<1>10. ReaderInv'
  BY <1>1 DEF LogInv, ReaderInv, Records!ReadEntries
<1> QED
  BY <1>1, <1>4, <1>5, <1>6, <1>7, <1>8, <1>9, <1>10, Zenon DEF LogInv

\* The oldest line of a stream goes to the end of its file.
LEMMA Writing ==
  ASSUME LogInv, NEW h \in DOMAIN handles, NEW f \in Records!Files, Records!Write(h, f)
  PROVE  LogInv'
<1>1. PICK s : s = pending[h][f]
  OBVIOUS
<1>2. /\ s # <<>> /\ files' = [files EXCEPT ![f] = Append(files[f], Head(s))]
      /\ pending' = [pending EXCEPT ![h] = [pending[h] EXCEPT ![f] = Tail(s)]]
      /\ UNCHANGED <<logged, handles, reader>>
  BY <1>1 DEF Records!Write
<1>3. /\ pending \in Seq(LogStreams) /\ h \in DOMAIN pending /\ pending[h] \in LogStreams
      /\ s \in Seq(RecordNumbers) /\ files \in LogStreams /\ files[f] \in Seq(RecordNumbers)
      /\ DOMAIN pending = 1 .. Len(pending) /\ Len(pending) \in Nat
  BY <1>1 DEF LogInv, LogTypes, LogStreams
<1>4. Ascends(s) /\ AtMost(s, Len(logged)) /\ AtMost(files[f], Len(logged)) /\ Len(logged) \in Nat
  BY <1>1, <1>3 DEF LogInv, LogTypes, LogsKnown
<1>5. PICK head, tail : head = Head(s) /\ tail = Tail(s)
  BY Zenon
<1>6. /\ head \in RecordNumbers /\ tail \in Seq(RecordNumbers) /\ head = s[1] /\ 1 \in DOMAIN s
      /\ Len(tail) = Len(s) - 1 /\ \A i \in DOMAIN tail : tail[i] = s[i + 1]
      /\ DOMAIN s = 1 .. Len(s) /\ DOMAIN tail = 1 .. Len(s) - 1 /\ Len(s) \in Nat
      /\ \A i \in DOMAIN s : s[i] \in Nat
  BY <1>2, <1>3, <1>5, HeadTailProperties, LogConstants DEF RecordNumbers
<1>7. /\ Ascends(tail) /\ AtMost(tail, Len(logged)) /\ head <= Len(logged)
      /\ Has(s, head) /\ ~Has(tail, head)
  <2>1. \A i \in DOMAIN tail : i + 1 \in DOMAIN s /\ 1 < i + 1
    BY <1>6
  <2>2. Ascends(tail)
    BY <1>4, <1>6, <2>1 DEF Ascends
  <2>3. AtMost(tail, Len(logged)) /\ head <= Len(logged) /\ Has(s, head)
    BY <1>4, <1>6, <2>1 DEF AtMost, Has
  <2>4. \A i \in DOMAIN tail : head < tail[i] /\ tail[i] \in Nat /\ head \in Nat
    BY <1>4, <1>6, <2>1 DEF Ascends
  <2>5. ~Has(tail, head)
    BY <2>4 DEF Has
  <2> QED
    BY <2>2, <2>3, <2>5
<1>8. \A r : r # head => (Has(tail, r) <=> Has(s, r))
  <2>1. ASSUME NEW r, r # head, Has(s, r) PROVE Has(tail, r)
    <3>1. PICK i \in DOMAIN s : s[i] = r
      BY <2>1 DEF Has
    <3>2. i # 1
      BY <1>6, <2>1, <3>1
    <3>3. i - 1 \in DOMAIN tail /\ (i - 1) + 1 = i
      BY <1>6, <3>2
    <3> QED
      BY <1>6, <3>1, <3>3 DEF Has
  <2>2. ASSUME NEW r, Has(tail, r) PROVE Has(s, r)
    <3>1. PICK i \in DOMAIN tail : tail[i] = r
      BY <2>2 DEF Has
    <3>2. i + 1 \in DOMAIN s
      BY <1>6
    <3> QED
      BY <1>6, <3>1, <3>2 DEF Has
  <2> QED
    BY <2>1, <2>2
<1>9. /\ files'[f] = Append(files[f], head) /\ files' \in LogStreams
      /\ \A g \in Records!Files : g # f => files'[g] = files[g]
  BY <1>2, <1>3, <1>5, <1>6 DEF LogStreams
<1>10. /\ pending' \in Seq(LogStreams) /\ Len(pending') = Len(pending)
       /\ DOMAIN pending' = DOMAIN pending /\ pending'[h][f] = tail
       /\ \A g \in Records!Files : g # f => pending'[h][g] = pending[h][g]
       /\ \A k \in DOMAIN pending : k # h => pending'[k] = pending[k]
  <2>1. PICK p : p = [pending[h] EXCEPT ![f] = tail]
    BY Zenon
  <2>2. p \in LogStreams /\ p[f] = tail /\ \A g \in Records!Files : g # f => p[g] = pending[h][g]
    BY <1>3, <1>6, <2>1 DEF LogStreams
  <2>3. pending' = [pending EXCEPT ![h] = p]
    BY <1>2, <1>5, <2>1
  <2> QED
    BY <1>3, <2>2, <2>3, ExceptSeq
<1>11. LogTypes'
  BY <1>2, <1>9, <1>10 DEF LogInv, LogTypes
<1>12. AtMost(files'[f], Len(logged))
  BY <1>3, <1>4, <1>6, <1>7, <1>9 DEF AtMost
<1>13. LogsKnown'
  <2>1. \A g \in Records!Files : AtMost(files'[g], Len(logged))
    BY <1>9, <1>12, Zenon DEF LogInv, LogsKnown
  <2>2. \A k \in DOMAIN pending, g \in Records!Files : AtMost(pending'[k][g], Len(logged))
    BY <1>7, <1>10 DEF LogInv, LogsKnown
  <2> QED
    BY <1>2, <1>10, <2>1, <2>2 DEF LogInv, LogsKnown
<1>14. \A k \in DOMAIN pending, g \in Records!Files : Ascends(pending'[k][g])
  BY <1>7, <1>10 DEF LogInv
<1>15. ASSUME NEW g \in Records!Files, NEW r \in DOMAIN logged
       PROVE  Balanced(files', pending', handles, logged, g, r)
  <2>1. Balanced(files, pending, handles, logged, g, r)
    BY DEF LogInv
  <2>2. CASE g # f
    <3>1. Holding(pending', g, r) = Holding(pending, g, r)
      BY <1>10, <2>2 DEF Holding
    <3> QED
      BY <1>9, <2>1, <2>2, <3>1 DEF Balanced
  <2>3. CASE g = f /\ r # head
    <3>1. Holding(pending', f, r) = Holding(pending, f, r)
      BY <1>1, <1>8, <1>10, <2>3 DEF Holding
    <3>2. Placed(files'[f], r) = Placed(files[f], r)
      BY <1>3, <1>6, <1>9, <2>3 DEF Placed
    <3> QED
      BY <2>1, <2>3, <3>1, <3>2 DEF Balanced
  <2>4. CASE g = f /\ r = head
    <3> DEFINE here == Holding(pending, f, head)
               there == Placed(files[f], head)
               end == Len(files[f]) + 1
    <3>1. Holding(pending', f, head) = here \ {h} /\ h \in here
      BY <1>1, <1>3, <1>7, <1>10 DEF Holding
    <3>2. Placed(files'[f], head) = there \cup {end} /\ end \notin there
      BY <1>3, <1>6, <1>9, SMTT(30) DEF Placed
    <3>3. IsFiniteSet(here) /\ IsFiniteSet(there)
      <4>1. here \subseteq 1 .. Len(pending) /\ there \subseteq 1 .. Len(files[f])
        BY <1>3 DEF Holding, Placed
      <4>2. IsFiniteSet(1 .. Len(pending)) /\ IsFiniteSet(1 .. Len(files[f]))
        <5>1. Len(pending) \in Int /\ Len(files[f]) \in Int /\ 1 \in Int
          BY <1>3
        <5> QED
          BY <5>1, FS_Interval
      <4> QED
        BY <4>1, <4>2, FS_Subset
    <3> HIDE DEF here, there, end
    <3>4. /\ Cardinality(here \ {h}) = Cardinality(here) - 1
          /\ Cardinality(there \cup {end}) = Cardinality(there) + 1
          /\ Cardinality(here) \in Nat /\ Cardinality(there) \in Nat
      BY <3>1, <3>2, <3>3, FS_AddElement, FS_RemoveElement, FS_CardinalityType, Zenon
    <3>5. Cardinality(Placed(files'[f], head)) + Cardinality(Holding(pending', f, head))
            = Cardinality(there) + Cardinality(here)
      BY <3>1, <3>2, <3>4
    <3> QED
      BY <2>1, <2>4, <3>5 DEF Balanced, here, there
  <2> QED
    BY <2>2, <2>3, <2>4
<1>16. ReaderInv'
  <2>1. \A g \in Records!Files : Grown(files[g], files'[g])
    BY <1>3, <1>6, <1>9, AppendGrown, SameGrown, Zenon DEF LogStreams
  <2> QED
    BY <1>2, <1>9, <2>1, ReaderWaits
<1> QED
  BY <1>2, <1>10, <1>11, <1>13, <1>14, <1>15, <1>16, Zenon DEF LogInv

-----------------------------------------------------------------------------
(* A page is read: what it does not show is behind it.                     *)

LEMMA DivisionReaches ==
  ASSUME NEW a \in Nat, NEW b \in Nat \ {0}, NEW c \in Nat, a >= c * b
  PROVE  a \div b >= c
  OBVIOUS

LEMMA DivisionType == ASSUME NEW a \in Nat, NEW b \in Nat \ {0} PROVE a \div b \in Nat
  OBVIOUS

LEMMA MinOfTwo ==
  ASSUME NEW a \in Int, NEW b \in Int
  PROVE  /\ Records!Min({a, b}) \in {a, b} /\ Records!Min({a, b}) <= a /\ Records!Min({a, b}) <= b
<1>1. \E x \in {a, b} : \A y \in {a, b} : x <= y
  OBVIOUS
<1> QED
  BY <1>1 DEF Records!Min

LEMMA ShownIs ==
  ASSUME LogInv
  PROVE  LET s == Records!ReadEntries(LogSource)
             e == Records!Shown(LogSource)
         IN /\ s \in Seq(RecordNumbers) /\ e \in Seq(RecordNumbers) /\ Len(e) = Len(s)
            /\ \A i \in 1 .. Len(s) : e[i] = s[(Len(s) - i) + 1]
<1> DEFINE s == Records!ReadEntries(LogSource)
<1>1. s \in Seq(RecordNumbers)
  BY EntriesType DEF LogInv, LogTypes
<1>2. Records!Shown(LogSource) = [i \in 1 .. Len(s) |-> s[(Len(s) - i) + 1]]
  BY DEF Records!Shown, Records!Reverse
<1> HIDE DEF s
<1>3. \A i \in 1 .. Len(s) : s[(Len(s) - i) + 1] \in RecordNumbers
  BY <1>1
<1>4. [i \in 1 .. Len(s) |-> s[(Len(s) - i) + 1]] \in Seq(RecordNumbers)
  BY <1>1, <1>3
<1> QED
  BY <1>1, <1>2, <1>4 DEF s

LEMMA PageReads ==
  ASSUME LogInv, NEW num \in Nat \ {0}
  PROVE  LET e == Records!Shown(LogSource)
             read == Records!ToSet(Records!PageOf(e, num))
         IN /\ read \subseteq RecordNumbers
            /\ \A i \in 1 .. Len(e) :
                 (num - 1) * PageSize < i /\ i <= num * PageSize => e[i] \in read
<1>1. PICK e : e = Records!Shown(LogSource)
  OBVIOUS
<1>2. e \in Seq(RecordNumbers) /\ Len(e) \in Nat
  BY <1>1, ShownIs
<1>3. PICK low, high : low = (num - 1) * PageSize + 1 /\ high = num * PageSize
  OBVIOUS
<1>4. low \in Nat \ {0} /\ high \in Nat
  BY <1>3, LogConstants
<1>5. PICK bottom : bottom = Records!Min({high, Len(e)})
  OBVIOUS
<1>6. bottom \in Nat /\ bottom <= Len(e) /\ (bottom = high \/ bottom = Len(e))
  <2>1. high \in Int /\ Len(e) \in Int
    BY <1>2, <1>4
  <2>2. bottom \in {high, Len(e)} /\ bottom <= Len(e)
    BY <1>5, <2>1, MinOfTwo, Zenon
  <2> QED
    BY <1>2, <1>4, <2>2
<1>7. PICK cut : cut = SubSeq(e, low, bottom)
  BY Zenon
<1>8. Records!PageOf(e, num) = cut
  BY <1>3, <1>5, <1>7 DEF Records!PageOf
<1>9. /\ cut \in Seq(RecordNumbers) /\ Len(cut) = IF low <= bottom THEN bottom - low + 1 ELSE 0
      /\ \A i \in 1 .. bottom - low + 1 : cut[i] = e[low + i - 1]
  <2>1. \A i \in low .. bottom : e[i] \in RecordNumbers
    BY <1>2, <1>4, <1>6
  <2> QED
    BY <1>4, <1>6, <1>7, <2>1, SubSeqProperties
<1>10. Records!ToSet(cut) \subseteq RecordNumbers
  BY <1>9 DEF Records!ToSet
<1>11. ASSUME NEW i \in 1 .. Len(e), low <= i, i <= high PROVE e[i] \in Records!ToSet(cut)
  <2>1. i <= bottom /\ i - low + 1 \in 1 .. bottom - low + 1 /\ low + (i - low + 1) - 1 = i
    BY <1>2, <1>4, <1>6, <1>11
  <2>2. i - low + 1 \in DOMAIN cut /\ cut[i - low + 1] = e[i]
    BY <1>4, <1>6, <1>9, <2>1
  <2> QED
    BY <2>2 DEF Records!ToSet
<1>12. \A i \in 1 .. Len(e) : (num - 1) * PageSize < i => low <= i
  <2>1. (num - 1) * PageSize \in Int
    BY LogConstants
  <2> QED
    BY <1>2, <1>3, <2>1
<1> QED
  BY <1>1, <1>3, <1>8, <1>10, <1>11, <1>12

LEMMA PagesLast ==
  ASSUME LogInv, NEW num \in Nat, Len(Records!Shown(LogSource)) > num * PageSize
  PROVE  num < Records!PagesOf(Records!Shown(LogSource))
<1>1. PICK n : n = Len(Records!Shown(LogSource))
  OBVIOUS
<1>2. n \in Nat
  BY <1>1, ShownIs
<1>3. n + PageSize - 1 >= (num + 1) * PageSize /\ n + PageSize - 1 \in Nat
  BY <1>1, <1>2, LogConstants
<1>4. (n + PageSize - 1) \div PageSize >= num + 1
  <2>1. PageSize \in Nat \ {0} /\ num + 1 \in Nat
    BY LogConstants
  <2> QED
    BY <1>3, <2>1, DivisionReaches, Zenon
<1>5. (n + PageSize - 1) \div PageSize \in Int
  BY <1>3, LogConstants
<1> QED
  BY <1>1, <1>4, <1>5 DEF Records!PagesOf

\* What is not on the pages up to here, counted from the end, is behind them.
LEMMA SeenFromTheEnd ==
  ASSUME NEW n \in Nat, NEW j \in 1 .. n, NEW i \in 1 .. n, NEW high \in Nat,
         i = (n - j) + 1, ~(i <= high)
  PROVE  n - j >= high /\ n > high
  OBVIOUS

LEMMA ReadingPage == ASSUME LogInv, Records!ReadPage PROVE LogInv'
<1>1. PICK e, s, read, num :
        /\ e = Records!Shown(LogSource) /\ s = Records!ReadEntries(LogSource)
        /\ num = reader.page /\ read = Records!ToSet(Records!PageOf(e, num))
  OBVIOUS
<1>2. PICK total : total = Records!PagesOf(e)
  OBVIOUS
<1>3. /\ num # 0 /\ UNCHANGED <<logged, handles, pending, files>>
      /\ reader' = [page |-> IF num < total THEN num + 1 ELSE 0, pages |-> total,
                    met |-> reader.met \cup read,
                    first |-> IF num = 1 THEN Records!ToSet(e) ELSE reader.first]
  BY <1>1, <1>2 DEF Records!ReadPage
<1>4. /\ reader \in LogReader /\ num \in Nat \ {0}
      /\ reader.met \subseteq RecordNumbers /\ reader.first \subseteq RecordNumbers
  BY <1>1, <1>3 DEF LogInv, LogTypes, LogReader
<1>5. /\ s \in Seq(RecordNumbers) /\ e \in Seq(RecordNumbers) /\ Len(e) = Len(s) /\ Len(s) \in Nat
      /\ \A i \in 1 .. Len(s) : e[i] = s[(Len(s) - i) + 1]
  BY <1>1, ShownIs
<1>6. /\ read \subseteq RecordNumbers
      /\ \A i \in 1 .. Len(e) : (num - 1) * PageSize < i /\ i <= num * PageSize => e[i] \in read
  BY <1>1, <1>4, PageReads
<1>7. PICK low, high : low = (num - 1) * PageSize /\ high = num * PageSize
  OBVIOUS
<1>8. low \in Nat /\ high \in Nat /\ (num = 1 => low = 0) /\ ((num + 1) - 1) * PageSize = high
  BY <1>4, <1>7, LogConstants
<1>9. Len(e) > high => num < total
  BY <1>1, <1>2, <1>4, <1>7, PagesLast
<1>10. /\ reader'.page = (IF num < total THEN num + 1 ELSE 0) /\ reader'.met = reader.met \cup read
       /\ reader'.first = IF num = 1 THEN Records!ToSet(e) ELSE reader.first
  BY <1>3
<1>11. total \in Nat
  <2>1. Len(e) + PageSize - 1 \in Nat
    BY <1>5, LogConstants
  <2> QED
    BY <1>2, <2>1, LogConstants, DivisionType DEF Records!PagesOf
<1>12. reader' \in LogReader
  <2>1. Records!ToSet(e) \subseteq RecordNumbers
    BY <1>5 DEF Records!ToSet
  <2> QED
    BY <1>3, <1>4, <1>6, <1>11, <2>1 DEF LogReader
<1>13. ASSUME NEW r \in reader'.first, r \notin reader'.met
       PROVE  num < total /\ Behind(s, r, high)
  <2>1. Behind(s, r, low)
    <3>1. CASE num = 1
      <4>1. PICK i \in 1 .. Len(s) : e[i] = r
        BY <1>5, <1>10, <1>13, <3>1 DEF Records!ToSet
      <4>2. PICK j : j = (Len(s) - i) + 1
        OBVIOUS
      <4>3. j \in DOMAIN s /\ s[j] = r /\ Len(s) - j >= low
        BY <1>5, <1>8, <3>1, <4>1, <4>2
      <4> QED
        BY <4>3 DEF Behind
    <3>2. CASE num # 1
      BY <1>1, <1>4, <1>7, <1>10, <1>13, <3>2 DEF LogInv, ReaderInv
    <3> QED
      BY <3>1, <3>2
  <2>2. PICK j \in 1 .. Len(s) : s[j] = r /\ Len(s) - j >= low
    BY <1>5, <2>1 DEF Behind
  <2>3. PICK i : i = (Len(s) - j) + 1
    OBVIOUS
  <2>4. i \in 1 .. Len(e) /\ (Len(s) - i) + 1 = j /\ low < i
    BY <1>5, <1>8, <2>2, <2>3
  <2>5. e[i] = r
    BY <1>5, <2>2, <2>4
  <2>6. ~(i <= high)
    BY <1>6, <1>7, <1>10, <1>13, <2>4, <2>5
  <2>7. Len(s) - j >= high /\ Len(e) > high
    <3>1. Len(e) = Len(s) /\ Len(s) \in Nat /\ high \in Nat
      BY <1>5, <1>8, Zenon
    <3>2. i \in 1 .. Len(s)
      BY <2>4, <3>1, Zenon
    <3> QED
      BY <2>2, <2>3, <2>6, <3>1, <3>2, SeenFromTheEnd, Zenon
  <2>8. j \in DOMAIN s
    BY <1>5
  <2> QED
    BY <1>9, <2>2, <2>7, <2>8 DEF Behind
<1>14. ReaderInv'
  <2>1. Records!ReadEntries(LogSource)' = s
    BY <1>1, <1>3, Zenon DEF Records!ReadEntries
  <2>2. reader'.page = 0 => reader'.first \subseteq reader'.met
    BY <1>4, <1>10, <1>13
  <2>3. ASSUME reader'.page > 1 PROVE (reader'.page - 1) * PageSize = high
    <3>1. reader'.page = num + 1
      BY <1>10, <2>3
    <3> QED
      BY <1>8, <3>1
  <2> QED
    BY <1>13, <2>1, <2>2, <2>3 DEF ReaderInv
<1>15. LogTypes' /\ LogsKnown'
  BY <1>3, <1>12 DEF LogInv, LogTypes, LogsKnown
<1> QED
  BY <1>3, <1>14, <1>15 DEF LogInv

LEMMA StartingToRead == ASSUME LogInv, Records!StartReading PROVE LogInv'
<1>1. /\ reader' = [reader EXCEPT !.page = 1] /\ UNCHANGED <<logged, handles, pending, files>>
  BY DEF Records!StartReading
<1>2. reader \in LogReader
  BY DEF LogInv, LogTypes
<1>3. reader' \in LogReader /\ reader'.page = 1
  BY <1>1, <1>2 DEF LogReader
<1>4. LogTypes' /\ LogsKnown'
  BY <1>1, <1>3 DEF LogInv, LogTypes, LogsKnown
<1>5. ReaderInv'
  BY <1>3 DEF ReaderInv
<1> QED
  BY <1>1, <1>4, <1>5 DEF LogInv

LEMMA LogsStep == ASSUME LogInv, Records!Next PROVE LogInv'
<1>1. CASE Records!Configure
  BY <1>1, OpeningLogs
<1>2. CASE \E h \in DOMAIN handles : Records!Close(h)
  BY <1>2, ClosingLogs
<1>3. CASE \E h \in DOMAIN handles, f \in Records!Files : Records!Write(h, f)
  BY <1>3, Writing
<1>4. CASE \E record \in LogKinds : Records!Log(record)
  BY <1>4, Logging
<1>5. CASE Records!StartReading \/ Records!ReadPage
  BY <1>5, StartingToRead, ReadingPage
<1> QED
  BY <1>1, <1>2, <1>3, <1>4, <1>5 DEF Records!Next

LEMMA CardinalityOfLogs == ASSUME NEW S PROVE Records!Cardinality(S) = Cardinality(S)
  BY DEF Records!Cardinality, Cardinality

LEMMA LogsAreRight ==
  LogInv => Records!TypeOK /\ Records!NoRecordIsSkipped /\ Records!FilesAreComplete
<1> SUFFICES ASSUME LogInv
             PROVE  Records!TypeOK /\ Records!NoRecordIsSkipped /\ Records!FilesAreComplete
  OBVIOUS
<1>1. DOMAIN pending = DOMAIN handles /\ Len(handles) \in Nat
  BY DEF LogInv, LogTypes
<1>2. Records!TypeOK
  BY <1>1 DEF LogInv, LogTypes, Records!TypeOK, LogStreams, LogReader, RecordNumbers
<1>3. Records!NoRecordIsSkipped
  BY DEF LogInv, ReaderInv, Records!NoRecordIsSkipped
<1>4. Records!StreamsAscend
  BY <1>1 DEF LogInv, Ascends, Records!StreamsAscend
<1>5. ASSUME NEW r \in DOMAIN logged, NEW f \in Records!Files
      PROVE  Records!Counted(r, f) = IF f \in Records!FilesOf(logged[r])
                                     THEN Records!Cardinality(Records!Watching(r)) ELSE 0
  <2>1. Balanced(files, pending, handles, logged, f, r)
    BY DEF LogInv
  <2>2. Records!Watching(r) = Watched(handles, r)
    BY DEF Records!Watching, Watched
  <2>3. {i \in DOMAIN files[f] : files[f][i] = r} = Placed(files[f], r)
    BY DEF Placed
  <2>4. {h \in DOMAIN handles : \E i \in DOMAIN pending[h][f] : pending[h][f][i] = r}
          = Holding(pending, f, r)
    BY <1>1 DEF Holding, Has
  <2>5. Records!Counted(r, f) = Cardinality(Placed(files[f], r)) + Cardinality(Holding(pending, f, r))
    BY <2>3, <2>4, CardinalityOfLogs, Zenon DEF Records!Counted
  <2>6. Records!Cardinality(Records!Watching(r)) = Cardinality(Watched(handles, r))
    BY <2>2, CardinalityOfLogs
  <2> QED
    BY <2>1, <2>5, <2>6 DEF Balanced
<1> QED
  BY <1>2, <1>3, <1>4, <1>5 DEF Records!FilesAreComplete

-----------------------------------------------------------------------------
(* The composition: a step moves the variables of one part.                *)

PlatformInv ==
  /\ part = "http" => HttpInv
  /\ part = "signin" => SignInInv
  /\ part = "flags" => FlagsInv
  /\ part \in {"broadcast", "telegram"} => MessagingInv
  /\ part = "asyncapi" => DocumentInv
  /\ part = "transfers" => MovesInv
  /\ part \in ProvidersParts => ServicesInv
  /\ part = "logs" => LogInv
  /\ part = "cache" => CacheInv
  /\ \A kind \in RedisParts : part = kind => RedisInv(kind)
  /\ part = "orderly" => TurnInv

\* The part that runs begins well.
LEMMA PlatformInit == MCInit => PlatformInv
<1> SUFFICES ASSUME MCInit PROVE PlatformInv
  OBVIOUS
<1>1. part = "cache" => CacheInv
  BY CacheInit DEF MCInit
<1>2. ASSUME NEW kind \in RedisParts, part = kind PROVE Redis(kind)!Init
  BY <1>2 DEF MCInit
<1>3. part = "orderly" => Redis("orderly")!Init
  BY <1>2 DEF RedisParts
<1>4. /\ part = "http" => HttpInv
      /\ part = "signin" => SignInInv
      /\ part = "asyncapi" => DocumentInv
      /\ part = "transfers" => MovesInv
      /\ part = "logs" => LogInv
  BY HttpInit, SignInInit, DocumentInit, MovesInit, LogsInit DEF MCInit
<1>5. /\ part \in {"broadcast", "telegram"} => MessagingInv
      /\ part \in ProvidersParts => ServicesInv
  BY MessagingInit, ServicesInit DEF MCInit
<1>6. part = "flags" => FlagsInv
  BY FlagsInit DEF MCInit, VerdictsInit, VerdictsParts
<1>7. \A kind \in RedisParts : part = kind => RedisInv(kind)
  BY <1>2, RedisInit
<1>8. part = "orderly" => TurnInv
  BY <1>3, TurnInit
<1> QED
  BY <1>1, <1>4, <1>5, <1>6, <1>7, <1>8 DEF PlatformInv

\* What no step has touched stays sound.
LEMMA CacheUnmoved ==
  ASSUME CacheInv, UNCHANGED cache
  PROVE  CacheInv'
  BY DEF cache, CacheInv, Cached!TypeOK, SourceFits, CallsFit, CallFits, EntryFits, Written, Stale,
     Cached!StaleEntryCrossed, Cached!StalenessIsBounded

\* The same of the event streams.
LEMMA RedisUnmoved ==
  ASSUME UNCHANGED redis
  PROVE  /\ \A kind \in RedisParts : RedisInv(kind) => RedisInv(kind)'
         /\ TurnInv => TurnInv'
<1>1. ASSUME NEW kind \in RedisParts, RedisInv(kind) PROVE RedisInv(kind)'
  BY <1>1 DEF redis, RedisInv, Redis!TypeOK
<1>2. ASSUME TurnInv, NEW r \in Replicas PROVE InTurn(r)'
  <2>1. InTurn(r)
    BY <1>2 DEF TurnInv
  <2> QED
    BY <2>1, Elsewhere DEF redis
<1> QED
  BY <1>1, <1>2 DEF TurnInv

\* A step is one of the part that runs, and the others stay.
LEMMA OnePartMoves ==
  ASSUME [MCNext]_<<part, vars, others>>
  PROVE  /\ part' = part
         /\ HttpNext \/ UNCHANGED http
         /\ LogsNext \/ UNCHANGED logs
         /\ CacheNext \/ UNCHANGED cache
         /\ MessagingNext \/ UNCHANGED messaging
         /\ AsyncNext \/ UNCHANGED asyncapi
         /\ MovesNext \/ UNCHANGED transfers
         /\ ProvidersNext \/ UNCHANGED providers
         /\ SignInNext \/ UNCHANGED signin
         /\ VerdictsNext \/ UNCHANGED verdicts
         /\ RedisNext \/ UNCHANGED redis
<1>1. part' = part
  BY DEF MCNext
<1>2. HttpNext \/ UNCHANGED http
  BY DEF MCNext, TenantsNext, LogsNext, CacheNext, MessagingNext, AsyncNext, MovesNext,
     ProvidersNext, SignInNext, VerdictsNext, RedisNext, others
<1>3. LogsNext \/ UNCHANGED logs
  BY DEF MCNext, TenantsNext, HttpNext, CacheNext, MessagingNext, AsyncNext, MovesNext,
     ProvidersNext, SignInNext, VerdictsNext, RedisNext, others
<1>4. CacheNext \/ UNCHANGED cache
  BY DEF MCNext, TenantsNext, HttpNext, LogsNext, MessagingNext, AsyncNext, MovesNext,
     ProvidersNext, SignInNext, VerdictsNext, RedisNext, others
<1>5. MessagingNext \/ UNCHANGED messaging
  BY DEF MCNext, TenantsNext, HttpNext, LogsNext, CacheNext, AsyncNext, MovesNext,
     ProvidersNext, SignInNext, VerdictsNext, RedisNext, others
<1>6. AsyncNext \/ UNCHANGED asyncapi
  BY DEF MCNext, TenantsNext, HttpNext, LogsNext, CacheNext, MessagingNext, MovesNext,
     ProvidersNext, SignInNext, VerdictsNext, RedisNext, others
<1>7. MovesNext \/ UNCHANGED transfers
  BY DEF MCNext, TenantsNext, HttpNext, LogsNext, CacheNext, MessagingNext, AsyncNext,
     ProvidersNext, SignInNext, VerdictsNext, RedisNext, others
<1>8. ProvidersNext \/ UNCHANGED providers
  BY DEF MCNext, TenantsNext, HttpNext, LogsNext, CacheNext, MessagingNext, AsyncNext,
     MovesNext, SignInNext, VerdictsNext, RedisNext, others
<1>9. SignInNext \/ UNCHANGED signin
  BY DEF MCNext, TenantsNext, HttpNext, LogsNext, CacheNext, MessagingNext, AsyncNext,
     MovesNext, ProvidersNext, VerdictsNext, RedisNext, others
<1>10. VerdictsNext \/ UNCHANGED verdicts
  BY DEF MCNext, TenantsNext, HttpNext, LogsNext, CacheNext, MessagingNext, AsyncNext,
     MovesNext, ProvidersNext, SignInNext, RedisNext, others
<1>11. RedisNext \/ UNCHANGED redis
  BY DEF MCNext, TenantsNext, HttpNext, LogsNext, CacheNext, MessagingNext, AsyncNext,
     MovesNext, ProvidersNext, SignInNext, VerdictsNext, others
<1> QED
  BY <1>1, <1>2, <1>3, <1>4, <1>5, <1>6, <1>7, <1>8, <1>9, <1>10, <1>11

LEMMA PlatformStep == PlatformInv /\ [MCNext]_<<part, vars, others>> => PlatformInv'
<1> SUFFICES ASSUME PlatformInv, [MCNext]_<<part, vars, others>> PROVE PlatformInv'
  OBVIOUS
<1>1. part' = part
  BY OnePartMoves
<1>2. part = "http" => HttpInv'
  <2>1. HttpNext => Http!Next
    BY DEF HttpNext
  <2> QED
    BY <2>1, OnePartMoves, HttpStep, HttpStays DEF PlatformInv
<1>3. part = "signin" => SignInInv'
  <2>1. SignInNext => SignIn_!Next
    BY DEF SignInNext
  <2> QED
    BY <2>1, OnePartMoves, SignInStep, SignInStays DEF PlatformInv
<1>4. part = "flags" => FlagsInv'
  <2>1. part = "flags" /\ VerdictsNext => Judges!FlagsNext
    BY DEF VerdictsNext
  <2> QED
    BY <2>1, OnePartMoves, FlagsStep, FlagsStay DEF PlatformInv
<1>5. part \in {"broadcast", "telegram"} => MessagingInv'
  BY OnePartMoves, MessagingStep, MessagingStays DEF PlatformInv
<1>6. part = "asyncapi" => DocumentInv'
  <2>1. AsyncNext => Async!Next
    BY DEF AsyncNext
  <2> QED
    BY <2>1, OnePartMoves, DocumentStep, DocumentStays DEF PlatformInv
<1>7. part = "transfers" => MovesInv'
  <2>1. MovesNext => Moves!Follow
    BY DEF MovesNext
  <2> QED
    BY <2>1, OnePartMoves, MovesStep, MovesStay DEF PlatformInv
<1>8. part \in ProvidersParts => ServicesInv'
  BY OnePartMoves, ServicesStep, ServicesStay DEF PlatformInv
<1>9. part = "logs" => LogInv'
  <2>1. LogsNext => Records!Next
    BY DEF LogsNext
  <2> QED
    BY <2>1, OnePartMoves, LogsStep, LogsStay DEF PlatformInv
<1>10. part = "cache" => CacheInv'
  <2>1. CacheNext => Cached!Next
    BY DEF CacheNext
  <2> QED
    BY <2>1, OnePartMoves, CacheStep, CacheUnmoved DEF PlatformInv
<1>11. ASSUME RedisNext
       PROVE  /\ \A kind \in RedisParts : part = kind => RedisInv(kind)'
              /\ part = "orderly" => TurnInv'
  <2>1. PICK kind \in RedisParts : part = kind /\ Redis(kind)!Next
    BY <1>11 DEF RedisNext
  <2>2. RedisInv(kind)'
    BY <2>1, RedisStep DEF PlatformInv
  <2>3. part = "orderly" => TurnInv'
    BY <2>1, TurnStep DEF PlatformInv, RedisParts
  <2> QED
    BY <2>1, <2>2, <2>3
<1>12. ASSUME UNCHANGED redis
       PROVE  /\ \A kind \in RedisParts : part = kind => RedisInv(kind)'
              /\ part = "orderly" => TurnInv'
  BY <1>12, RedisUnmoved DEF PlatformInv
<1>13. /\ \A kind \in RedisParts : part = kind => RedisInv(kind)'
       /\ part = "orderly" => TurnInv'
  BY OnePartMoves, <1>11, <1>12
<1> QED
  BY <1>1, <1>2, <1>3, <1>4, <1>5, <1>6, <1>7, <1>8, <1>9, <1>10, <1>13 DEF PlatformInv

\* Every reachable state is a sound one: each part's invariant holds of the part that
\* runs, whatever the constants.
THEOREM PlatformIsSound == MCSpec => []PlatformInv
  BY PlatformInit, PlatformStep, PTL DEF MCSpec

\* cacheResult: no hit is staler than the time to live and one run of the function
\* together, and after an invalidation only a run that had read the source before it
\* can have put the old value back.
THEOREM CacheStaysFresh == MCSpec => []CacheIsFresh
<1>1. PlatformInv => CacheIsFresh
  BY DEF PlatformInv, CacheInv, CacheIsFresh
<1> QED
  BY <1>1, PlatformIsSound, PTL

\* RedisSSEBroker: however the calls of a replica overlap and whichever SUBSCRIBE
\* fails, a stream sees each event at most once and in the order of publication.
THEOREM EventsInOrder == MCSpec => []InOrderOnce
<1>1. PlatformInv => InOrderOnce
  <2> SUFFICES ASSUME PlatformInv, NEW kind \in RedisParts, part = kind
               PROVE  Redis(kind)!InOrderOnce
    BY DEF InOrderOnce
  <2>1. RedisInv(kind)
    BY DEF PlatformInv
  <2> QED
    BY <2>1, RedisIsRight
<1> QED
  BY <1>1, PlatformIsSound, PTL

\* "a publish on any node reaches SSE clients on all nodes": when the calls of a
\* replica wait for each other and no command fails, an event published while a stream
\* is registered is on the stream or on its way to it, and an idle replica is
\* subscribed exactly while it has streams, and then once.
THEOREM NoEventMissed == MCSpec => []NothingMissed
<1>1. PlatformInv => NothingMissed
  <2> SUFFICES ASSUME PlatformInv, part = "orderly"
               PROVE  /\ Redis("orderly")!TypeOK /\ Redis("orderly")!NothingMissed
                      /\ Redis("orderly")!SubscribedIffServing
    BY DEF NothingMissed
  <2>1. "orderly" \in RedisParts
    BY DEF RedisParts
  <2>2. RedisInv("orderly") /\ TurnInv
    BY <2>1 DEF PlatformInv
  <2> QED
    BY <2>1, <2>2, RedisIsRight
<1> QED
  BY <1>1, PlatformIsSound, PTL

\* Every exchange ends with one answer in the SDK's envelope, no handler runs past a
\* limit or the token check, and the metrics agree; a door opens to nobody who had lost
\* his right before the token he shows can have been issued, and one address has one
\* account; a flag guards a route as it stood at some moment since the request came.
THEOREM ServerAlwaysAnswers == MCSpec => []ServerAnswers
<1>1. PlatformInv => ServerAnswers
  <2> SUFFICES ASSUME PlatformInv PROVE ServerAnswers
    OBVIOUS
  <2>1. part = "http" => /\ Http!TypeOK /\ Http!FailuresAreEnveloped
                         /\ Http!HandlerIsGuarded /\ Http!MetricsAddUp
    BY HttpAnswers DEF PlatformInv
  <2>2. part = "signin" => SignIn_!TypeOK /\ SignIn_!RightsEnd /\ SignIn_!OneAccountEach
    BY SignInIsRight DEF PlatformInv
  <2>3. part = "flags" => Judges!FlagsTypeOK /\ Judges!FlagIsOfItsTime
    BY DEF PlatformInv, FlagsInv
  <2> QED
    BY <2>1, <2>2, <2>3 DEF ServerAnswers
<1> QED
  BY <1>1, PlatformIsSound, PTL

\* A broadcast reaches each recipient once and Telegram forgets only updates that were
\* handled; the AsyncAPI document refers to nothing it does not hold; a download is the
\* bytes asked for and the links of a list lead through it; a message under a key
\* arrives once, an identity is the one its code was issued for and a webhook is
\* answered when a genuine post has been handled; a log file holds each record once per
\* handle attached, and who turns the pages meets all that was there when he began.
THEOREM NothingEverGoesAstray == MCSpec => []NothingGoesAstray
<1>1. PlatformInv => NothingGoesAstray
  <2> SUFFICES ASSUME PlatformInv PROVE NothingGoesAstray
    OBVIOUS
  <2>1. part \in {"broadcast", "telegram"} =>
          Messages_!TypeOK /\ Messages_!BroadcastReachesAll /\ Messages_!UpdatesAreHandled
    BY MessagesArrive DEF PlatformInv
  <2>2. part = "asyncapi" => Async!TypeOK /\ Async!DocumentIsClosed
    BY DEF PlatformInv, DocumentInv
  <2>3. part = "transfers" => Moves!TypeOK /\ Moves!DownloadsAreExact /\ Moves!LinksLeadThrough
    BY MovesAreRight DEF PlatformInv
  <2>4. part \in ProvidersParts => /\ Services!TypeOK /\ Services!MessagesArriveOnce
                                   /\ Services!IdentityIsEarned /\ Services!HooksHearTheirSender
    BY ServicesAreTrue DEF PlatformInv
  <2>5. part = "logs" => Records!TypeOK /\ Records!NoRecordIsSkipped /\ Records!FilesAreComplete
    BY LogsAreRight DEF PlatformInv
  <2> QED
    BY <2>1, <2>2, <2>3, <2>4, <2>5 DEF NothingGoesAstray
<1> QED
  BY <1>1, PlatformIsSound, PTL
=============================================================================
