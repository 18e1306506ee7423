-------------------------- MODULE ConnectionsProofs --------------------------
(***************************************************************************)
(* What a server is connected to, for any number of requests, waits, users,*)
(* sockets and streams: the graceful shutdown, the WebSocket hub and the   *)
(* event streams of a channel.                                             *)
(***************************************************************************)
EXTENDS MCConnections, FiniteSetTheorems, SequenceTheorems, WellFoundedInduction, TLAPS

-----------------------------------------------------------------------------
(* Graceful.  The inductive invariant adds to the properties of the module *)
(* that the list holds waiting calls only and that a wait called before    *)
(* the drain is the only one that may be under way without one.            *)

ResolversWait == \A w \in idleResolvers : wait[w] = "waiting"

LateWaitsDrain == \A w \in Waits : wait[w] # "idle" /\ w \notin early => draining

IInv ==
  /\ TypeOK
  /\ CountIsServing
  /\ ResolversWait
  /\ LateWaitsDrain
  /\ WaitingIsBusy
  /\ DrainedIsDrained

\* The requests in service are finitely many, and their number is 0 only when
\* there are none.
LEMMA ServingFinite ==
  /\ IsFiniteSet(Serving)
  /\ Cardinality(Serving) \in Nat
  /\ Cardinality(Serving) = 0 <=> Serving = {}
<1>1. Serving \subseteq Requests
  BY DEF Serving
<1>2. IsFiniteSet(Serving)
  BY <1>1, FS_Subset, GracefulAssumption DEF GracefulAssumption
<1> QED
  BY <1>2, FS_CardinalityType, FS_EmptySet

-----------------------------------------------------------------------------

\* Admitting a request counts it.
LEMMA AdmitCounts ==
  ASSUME IInv, NEW q \in Requests, Admit(q)
  PROVE  IInv'
<1> USE DEF IInv, TypeOK
<1>1. Serving' = Serving \cup {q} /\ q \notin Serving
  BY DEF Admit, Serving
<1>2. Cardinality(Serving') = Cardinality(Serving) + 1
  BY <1>1, ServingFinite, FS_AddElement
<1>3. TypeOK' /\ CountIsServing'
  BY <1>2, ServingFinite DEF Admit, CountIsServing
<1>4. ResolversWait' /\ LateWaitsDrain'
  BY DEF Admit, ResolversWait, LateWaitsDrain
<1>5. WaitingIsBusy'
  BY DEF Admit, WaitingIsBusy
<1>6. DrainedIsDrained'
  BY <1>1 DEF Admit, DrainedIsDrained, LateWaitsDrain
<1> QED
  BY <1>3, <1>4, <1>5, <1>6

\* Settling a request in service counts it out and resolves the waits when it
\* was the last.
LEMMA ReleaseCounts ==
  ASSUME IInv, NEW q \in Requests, pc[q] = "serving", Release,
         NEW after \in {"finished", "closed"},
         pc' = [pc EXCEPT ![q] = after],
         UNCHANGED <<draining, early>>
  PROVE  IInv'
<1> USE DEF IInv, TypeOK
<1>1. Serving' = Serving \ {q} /\ q \in Serving
  BY DEF Serving
<1>2. IsFiniteSet(Serving') /\ Cardinality(Serving') = Cardinality(Serving) - 1
  BY <1>1, ServingFinite, FS_RemoveElement
<1>3. Cardinality(Serving') \in Nat /\ (Cardinality(Serving') = 0 <=> Serving' = {})
  BY <1>2, FS_CardinalityType, FS_EmptySet
<1>4. CountIsServing' /\ inFlightCount' \in Nat
  BY <1>2, <1>3 DEF Release, CountIsServing
<1>5. TypeOK' /\ ResolversWait' /\ LateWaitsDrain'
  <2>1. CASE inFlightCount' = 0
    BY <1>4, <2>1 DEF Release, ResolversWait, LateWaitsDrain
  <2>2. CASE inFlightCount' # 0
    BY <1>4, <2>2 DEF Release, ResolversWait, LateWaitsDrain
  <2> QED
    BY <2>1, <2>2
<1>6. WaitingIsBusy' /\ DrainedIsDrained'
  <2>1. CASE inFlightCount' = 0
    <3>1. Serving' = {}
      BY <1>3, <1>4, <2>1 DEF CountIsServing
    <3> QED
      BY <2>1, <3>1 DEF Release, WaitingIsBusy, DrainedIsDrained
  <2>2. CASE inFlightCount' # 0
    <3>1. wait' = wait /\ idleResolvers' = idleResolvers
      BY <2>2 DEF Release
    <3> QED
      BY <1>1, <1>4, <2>2, <3>1 DEF WaitingIsBusy, DrainedIsDrained
  <2> QED
    BY <2>1, <2>2
<1> QED
  BY <1>4, <1>5, <1>6

\* Every step keeps the inductive invariant.
LEMMA InvStep == IInv /\ [Next]_vars => IInv'
<1> SUFFICES ASSUME IInv, [Next]_vars PROVE IInv'
  OBVIOUS
<1> USE DEF IInv
<1>1. CASE BeginDrain
  BY <1>1 DEF BeginDrain, TypeOK, CountIsServing, Serving, ResolversWait,
              LateWaitsDrain, WaitingIsBusy, DrainedIsDrained
<1>2. ASSUME NEW q \in Requests, Refuse(q) PROVE IInv'
  <2>1. Serving' = Serving
    BY <1>2 DEF Refuse, Serving, TypeOK
  <2> QED
    BY <1>2, <2>1 DEF Refuse, TypeOK, CountIsServing, ResolversWait,
                      LateWaitsDrain, WaitingIsBusy, DrainedIsDrained
<1>3. ASSUME NEW q \in Requests, Admit(q) PROVE IInv'
  BY <1>3, AdmitCounts
<1>4. ASSUME NEW q \in Requests, Finish(q) PROVE IInv'
  BY <1>4, ReleaseCounts DEF Finish
<1>5. ASSUME NEW q \in Requests, Close(q) PROVE IInv'
  <2>1. CASE pc[q] = "serving"
    BY <1>5, <2>1, ReleaseCounts DEF Close
  <2>2. CASE pc[q] # "serving"
    <3>1. Serving' = Serving
      BY <1>5, <2>2 DEF Close, Serving, TypeOK
    <3> QED
      BY <1>5, <2>2, <3>1 DEF Close, TypeOK, CountIsServing, ResolversWait,
                              LateWaitsDrain, WaitingIsBusy, DrainedIsDrained
  <2> QED
    BY <2>1, <2>2
<1>6. ASSUME NEW w \in Waits, WaitDrained(w) PROVE IInv'
  <2>1. Serving' = Serving
    BY <1>6 DEF WaitDrained, Serving
  <2>2. CASE inFlightCount = 0
    <3>1. Serving = {}
      BY <2>2, ServingFinite DEF CountIsServing
    <3> QED
      BY <1>6, <2>1, <2>2, <3>1
      DEF WaitDrained, TypeOK, CountIsServing, ResolversWait, LateWaitsDrain,
          WaitingIsBusy, DrainedIsDrained
  <2>3. CASE inFlightCount # 0
    BY <1>6, <2>1, <2>3
    DEF WaitDrained, TypeOK, CountIsServing, ResolversWait, LateWaitsDrain,
        WaitingIsBusy, DrainedIsDrained
  <2> QED
    BY <2>2, <2>3
<1>7. ASSUME NEW w \in Waits, TimesOut(w) PROVE IInv'
  <2>1. Serving' = Serving
    BY <1>7 DEF TimesOut, Serving
  <2> QED
    BY <1>7, <2>1 DEF TimesOut, TypeOK, CountIsServing, ResolversWait,
                      LateWaitsDrain, WaitingIsBusy, DrainedIsDrained
<1>8. CASE UNCHANGED vars
  BY <1>8 DEF vars, TypeOK, CountIsServing, Serving, ResolversWait,
              LateWaitsDrain, WaitingIsBusy, DrainedIsDrained
<1> QED
  BY <1>1, <1>2, <1>3, <1>4, <1>5, <1>6, <1>7, <1>8 DEF Next

\* The initial state satisfies it.
LEMMA InvInit == Init => IInv
<1> SUFFICES ASSUME Init PROVE IInv
  OBVIOUS
<1>1. Serving = {}
  BY DEF Init, Serving
<1> QED
  BY <1>1, FS_EmptySet DEF Init, IInv, TypeOK, CountIsServing, ResolversWait,
                           LateWaitsDrain, WaitingIsBusy, DrainedIsDrained

-----------------------------------------------------------------------------

\* inFlightCount is the number of requests in service, whatever the order in
\* which "finish" and "close" come (release and settle of the middleware).
THEOREM CountedOnce == Spec => []CountIsServing
<1>1. IInv => CountIsServing
  BY DEF IInv
<1> QED
  BY <1>1, InvInit, InvStep, PTL DEF Spec

\* A wait of a draining server that reports true leaves no request in service
\* but exempt ones (waitDrained after beginDrain).
THEOREM DrainIsSafe == Spec => []DrainedIsDrained
<1>1. IInv => DrainedIsDrained
  BY DEF IInv
<1> QED
  BY <1>1, InvInit, InvStep, PTL DEF Spec

\* A waiting call is in the list and has something to wait for, so the last
\* response resolves it (waitDrained and release).
THEOREM WaitsHaveAReason == Spec => []WaitingIsBusy
<1>1. IInv => WaitingIsBusy
  BY DEF IInv
<1> QED
  BY <1>1, InvInit, InvStep, PTL DEF Spec
-----------------------------------------------------------------------------
(* Induction, and what the hub's sequences keep *)

\* Induction over the naturals, for a set of them.
LEMMA SetInduction ==
  ASSUME NEW T, T \subseteq Nat, 0 \in T, \A n \in T : n + 1 \in T
  PROVE  T = Nat
<1> DEFINE R == OpToRel(<, Nat)
<1>1. IsWellFoundedOn(R, Nat)
  BY NatLessThanWellFounded
<1>2. \A x, y \in Nat : <<x, y>> \in R <=> x < y
  BY DEF OpToRel
<1> HIDE DEF R
<1>3. SUFFICES ASSUME Nat \ T # {} PROVE FALSE
  OBVIOUS
<1>4. PICK x \in Nat \ T : \A y \in Nat \ T : ~ (<<y, x>> \in R)
  BY <1>1, <1>3, WFMin
<1>5. x # 0 /\ x - 1 \in Nat /\ x - 1 < x
  BY <1>4
<1>6. x - 1 \in T
  BY <1>2, <1>4, <1>5
<1> QED
  BY <1>4, <1>5, <1>6

\* k is the recursive function Without is defined by, on the first n elements of seq.
KeptUpTo(k, seq, cs, n) ==
  k = [i \in 0 .. n |->
         IF i = 0 THEN <<>>
         ELSE IF seq[i] \in cs THEN k[i - 1] ELSE Append(k[i - 1], seq[i])]

\* There is such a function.
LEMMA KeptExists ==
  ASSUME NEW S, NEW seq \in Seq(S), NEW cs
  PROVE  \E k : KeptUpTo(k, seq, cs, Len(seq))
<1> DEFINE T == {n \in Nat : \E k : KeptUpTo(k, seq, cs, n)}
<1>1. 0 \in T
  <2>1. KeptUpTo([i \in 0 .. 0 |-> <<>>], seq, cs, 0)
    BY DEF KeptUpTo
  <2> QED
    BY <2>1
<1>2. ASSUME NEW n \in T PROVE n + 1 \in T
  <2>1. PICK k : KeptUpTo(k, seq, cs, n)
    BY <1>2
  <2> DEFINE next == IF seq[n + 1] \in cs THEN k[n] ELSE Append(k[n], seq[n + 1])
             j == [i \in 0 .. n + 1 |-> IF i = n + 1 THEN next ELSE k[i]]
  <2>2. n \in Nat /\ \A i \in 0 .. n : j[i] = k[i]
    BY <1>2
  <2>3. j[n + 1] = next
    BY <2>2
  <2> HIDE DEF next
  <2>4. \A i \in 0 .. n : k[i] = IF i = 0 THEN <<>>
         ELSE IF seq[i] \in cs THEN k[i - 1] ELSE Append(k[i - 1], seq[i])
    BY <2>1 DEF KeptUpTo
  <2>5. \A i \in 0 .. n + 1 : j[i] = IF i = 0 THEN <<>>
         ELSE IF seq[i] \in cs THEN j[i - 1] ELSE Append(j[i - 1], seq[i])
    <3> SUFFICES ASSUME NEW i \in 0 .. n + 1 
                 PROVE j[i] = IF i = 0 THEN <<>>
         ELSE IF seq[i] \in cs THEN j[i - 1] ELSE Append(j[i - 1], seq[i])
      OBVIOUS
    <3>1. CASE i = n + 1
      <4>1. i # 0 /\ i - 1 = n
        BY <2>2, <3>1
      <4> QED
        BY <2>2, <2>3, <3>1, <4>1 DEF next
    <3>2. CASE i # n + 1
      <4>1. i \in 0 .. n /\ (i # 0 => i - 1 \in 0 .. n)
        BY <2>2, <3>2
      <4> QED
        BY <2>2, <2>4, <4>1
    <3> QED
      BY <3>1, <3>2
  <2>6. j = [i \in 0 .. n + 1 |-> j[i]]
    OBVIOUS
  <2> HIDE DEF j
  <2>7. KeptUpTo(j, seq, cs, n + 1)
    BY <2>5, <2>6 DEF KeptUpTo
  <2> QED
    BY <2>2, <2>7
<1>3. T = Nat
  <2> HIDE DEF T
  <2>1. T \subseteq Nat
    BY DEF T
  <2> QED
    BY <1>1, <1>2, <2>1, SetInduction
<1>4. Len(seq) \in Nat
  BY LenProperties
<1> QED
  BY <1>3, <1>4

\* Without is its value at the end of the sequence.
LEMMA WithoutIsKept ==
  ASSUME NEW S, NEW seq \in Seq(S), NEW cs
  PROVE  \E k : KeptUpTo(k, seq, cs, Len(seq)) /\ Hub!Without(seq, cs) = k[Len(seq)]
<1> DEFINE kept == CHOOSE k : KeptUpTo(k, seq, cs, Len(seq))
<1>1. KeptUpTo(kept, seq, cs, Len(seq))
  BY KeptExists
<1>2. Hub!Without(seq, cs) = kept[Len(seq)]
  BY DEF Hub!Without, KeptUpTo
<1> QED
  BY <1>1, <1>2

Elements(seq) == {seq[i] : i \in DOMAIN seq}

Distinct(seq) == \A i, j \in DOMAIN seq : seq[i] = seq[j] => i = j

\* Without keeps the elements of a sequence but those it is asked to leave out, and
\* repeats none.
LEMMA WithoutProperties ==
  ASSUME NEW S, NEW seq \in Seq(S), NEW cs
  PROVE  /\ Hub!Without(seq, cs) \in Seq(S)
         /\ Elements(Hub!Without(seq, cs)) = Elements(seq) \ cs
         /\ Distinct(seq) => Distinct(Hub!Without(seq, cs))
<1>1. PICK k : KeptUpTo(k, seq, cs, Len(seq)) /\ Hub!Without(seq, cs) = k[Len(seq)]
  BY WithoutIsKept
<1>2. Len(seq) \in Nat /\ DOMAIN seq = 1 .. Len(seq) /\ \A i \in 1 .. Len(seq) : seq[i] \in S
  BY LenProperties, ElementOfSeq
<1> DEFINE First(n) == {seq[i] : i \in 1 .. n}
           T == {n \in Nat : n <= Len(seq) =>
                   /\ k[n] \in Seq(S)
                   /\ Elements(k[n]) = First(n) \ cs
                   /\ Distinct(seq) => Distinct(k[n])}
<1>3. 0 \in T
  <2>1. k[0] = <<>>
    BY <1>1, <1>2 DEF KeptUpTo
  <2>2. First(0) = {}
    OBVIOUS
  <2>3. Elements(<<>>) = {} /\ Distinct(<<>>) /\ <<>> \in Seq(S)
    BY DEF Elements, Distinct
  <2>4. /\ k[0] \in Seq(S) /\ Elements(k[0]) = First(0) \ cs
        /\ Distinct(seq) => Distinct(k[0])
    BY <2>1, <2>2, <2>3
  <2> HIDE DEF First
  <2> QED
    BY <2>4
<1>4. ASSUME NEW n \in T PROVE n + 1 \in T
  <2>1. SUFFICES ASSUME n + 1 <= Len(seq)
                 PROVE  /\ k[n + 1] \in Seq(S)
                        /\ Elements(k[n + 1]) = First(n + 1) \ cs
                        /\ Distinct(seq) => Distinct(k[n + 1])
    BY <1>4
  <2>2. n \in Nat /\ n + 1 \in 1 .. Len(seq) /\ n \in 0 .. Len(seq)
    BY <1>2, <1>4, <2>1
  <2>3. /\ k[n] \in Seq(S) /\ Elements(k[n]) = First(n) \ cs
        /\ Distinct(seq) => Distinct(k[n])
    BY <1>2, <1>4, <2>2
  <2>4. k[n + 1] = IF seq[n + 1] \in cs THEN k[n] ELSE Append(k[n], seq[n + 1])
    <3>1. \A i \in 0 .. Len(seq) : k[i] = IF i = 0 THEN <<>>
            ELSE IF seq[i] \in cs THEN k[i - 1] ELSE Append(k[i - 1], seq[i])
      BY <1>1 DEF KeptUpTo
    <3>2. n + 1 \in 0 .. Len(seq) /\ n + 1 # 0 /\ (n + 1) - 1 = n
      BY <1>2, <2>2
    <3> QED
      BY <3>1, <3>2
  <2>5. First(n + 1) = First(n) \cup {seq[n + 1]}
    BY <2>2
  <2>6. CASE seq[n + 1] \in cs
    BY <2>3, <2>4, <2>5, <2>6
  <2>7. CASE seq[n + 1] \notin cs
    <3> DEFINE x == seq[n + 1]
               s == k[n]
               t == Append(s, x)
    <3>1. k[n + 1] = t /\ x \in S /\ s \in Seq(S)
      BY <1>2, <2>2, <2>3, <2>4, <2>7
    <3>2. Distinct(seq) => x \notin Elements(s)
      <4>1. Distinct(seq) => x \notin First(n)
        BY <1>2, <2>2 DEF Distinct
      <4> QED
        BY <2>3, <4>1
    <3>3. Elements(s) = First(n) \ cs /\ (Distinct(seq) => Distinct(s))
      BY <2>3
    <3> HIDE DEF x, s
    <3>4. /\ t \in Seq(S) /\ Len(s) \in Nat /\ Len(t) = Len(s) + 1
          /\ DOMAIN s = 1 .. Len(s) /\ DOMAIN t = 1 .. Len(s) + 1
          /\ \A i \in 1 .. Len(s) : t[i] = s[i]
          /\ t[Len(s) + 1] = x
      BY <3>1, AppendProperties, LenProperties
    <3> HIDE DEF t
    <3>5. Elements(t) = Elements(s) \cup {x}
      <4>1. ASSUME NEW y \in Elements(t) PROVE y \in Elements(s) \cup {x}
        BY <3>4, <4>1 DEF Elements
      <4>2. ASSUME NEW y \in Elements(s) PROVE y \in Elements(t)
        BY <3>4, <4>2 DEF Elements
      <4>3. x \in Elements(t)
        BY <3>4 DEF Elements
      <4> QED
        BY <4>1, <4>2, <4>3
    <3>6. Distinct(seq) => Distinct(t)
      BY <3>2, <3>3, <3>4 DEF Distinct, Elements
    <3>7. x \notin cs /\ x = seq[n + 1]
      BY <2>7 DEF x
    <3> QED
      BY <2>5, <3>1, <3>3, <3>4, <3>5, <3>6, <3>7
  <2> QED
    BY <2>6, <2>7
<1>5. T = Nat
  <2> HIDE DEF T
  <2>1. T \subseteq Nat
    BY DEF T
  <2> QED
    BY <1>3, <1>4, <2>1, SetInduction
<1>6. /\ k[Len(seq)] \in Seq(S)
      /\ Elements(k[Len(seq)]) = First(Len(seq)) \ cs
      /\ Distinct(seq) => Distinct(k[Len(seq)])
  <2> HIDE DEF First, T
  <2>1. Len(seq) \in T /\ Len(seq) <= Len(seq)
    BY <1>2, <1>5
  <2> QED
    BY <2>1 DEF T
<1>7. First(Len(seq)) = Elements(seq)
  BY <1>2 DEF Elements
<1> QED
  BY <1>1, <1>6, <1>7

-----------------------------------------------------------------------------
(* WebSocketHub: the two indexes.  To the properties the invariant adds    *)
(* that the hub holds only sockets whose handshake was accepted, so the    *)
(* one being attached is in neither index yet.                             *)

Agree(index, ids) ==
  /\ ids = UNION {Elements(index[u]) : u \in Users}
  /\ \A u \in Users : Distinct(index[u])
  /\ \A u, v \in Users : u # v => Elements(index[u]) \cap Elements(index[v]) = {}

Indexes == [Users -> Seq(Sockets)]

HubHoldsAttached == \A c \in byId : stage[c] = "attached"

HubInv ==
  /\ Hub!TypeOK
  /\ Agree(byUser, byId)
  /\ HubHoldsAttached
  /\ Hub!DroppedWasPinged

\* Agreement is what the module's IndexesAgree says.
LEMMA AgreeIsAgreement ==
  ASSUME Hub!TypeOK PROVE Agree(byUser, byId) <=> Hub!IndexesAgree
<1>1. \A u \in Users : Elements(byUser[u]) = Hub!Range(byUser[u])
  BY DEF Elements, Hub!Range
<1>2. ASSUME Agree(byUser, byId) PROVE Hub!IndexesAgree
  <2>1. byId = UNION {Hub!Range(byUser[u]) : u \in Users}
    BY <1>1, <1>2 DEF Agree
  <2>2. ASSUME NEW u \in Users, NEW v \in Users, NEW i \in DOMAIN byUser[u],
               NEW j \in DOMAIN byUser[v], byUser[u][i] = byUser[v][j]
        PROVE  u = v /\ i = j
    <3>1. byUser[u][i] \in Elements(byUser[u]) /\ byUser[v][j] \in Elements(byUser[v])
      BY DEF Elements
    <3>2. u = v
      BY <1>2, <2>2, <3>1 DEF Agree
    <3> QED
      BY <1>2, <2>2, <3>2 DEF Agree, Distinct
  <2> QED
    BY <2>1, <2>2 DEF Hub!IndexesAgree
<1>3. ASSUME Hub!IndexesAgree PROVE Agree(byUser, byId)
  <2>1. byId = UNION {Elements(byUser[u]) : u \in Users}
    BY <1>1, <1>3 DEF Hub!IndexesAgree
  <2>2. \A u \in Users : Distinct(byUser[u])
    BY <1>3 DEF Hub!IndexesAgree, Distinct
  <2>3. \A u, v \in Users : u # v => Elements(byUser[u]) \cap Elements(byUser[v]) = {}
    BY <1>3 DEF Hub!IndexesAgree, Elements
  <2> QED
    BY <2>1, <2>2, <2>3 DEF Agree
<1> QED
  BY <1>2, <1>3

\* Taking connections out of both indexes keeps them in agreement.
LEMMA RemovalAgrees ==
  ASSUME NEW index \in Indexes, NEW ids, Agree(index, ids), NEW cs,
         NEW new, new = [u \in Users |-> Hub!Without(index[u], cs)]
  PROVE  new \in Indexes /\ Agree(new, ids \ cs)
<1>1. \A u \in Users :
        /\ new[u] \in Seq(Sockets)
        /\ Elements(new[u]) = Elements(index[u]) \ cs
        /\ Distinct(index[u]) => Distinct(new[u])
  BY WithoutProperties DEF Indexes
<1>2. new = [u \in Users |-> new[u]]
  OBVIOUS
<1>3. new \in Indexes
  <2>1. \A u \in Users : new[u] \in Seq(Sockets)
    BY <1>1
  <2> QED
    BY ONLY <1>2, <2>1 DEF Indexes
<1>4. ids \ cs = UNION {Elements(new[u]) : u \in Users}
  <2>1. ids = UNION {Elements(index[u]) : u \in Users}
    BY DEF Agree
  <2>2. \A u \in Users : Elements(new[u]) = Elements(index[u]) \ cs
    BY <1>1
  <2> QED
    BY ONLY <2>1, <2>2
<1>5. \A u \in Users : Distinct(new[u])
  BY <1>1 DEF Agree
<1>6. \A u, v \in Users : u # v => Elements(new[u]) \cap Elements(new[v]) = {}
  <2>1. \A u, v \in Users : u # v => Elements(index[u]) \cap Elements(index[v]) = {}
    BY DEF Agree
  <2>2. \A u \in Users : Elements(new[u]) = Elements(index[u]) \ cs
    BY <1>1
  <2> QED
    BY ONLY <2>1, <2>2
<1> QED
  BY ONLY <1>3, <1>4, <1>5, <1>6 DEF Agree

\* So does entering a connection that is in neither.
LEMMA EntryAgrees ==
  ASSUME NEW index \in Indexes, NEW ids, Agree(index, ids),
         NEW c \in Sockets, c \notin ids, NEW u \in Users
  PROVE  /\ Append(index[u], c) \in Seq(Sockets)
         /\ Head(Append(index[u], c)) \in Sockets \cap Elements(Append(index[u], c))
         /\ [index EXCEPT ![u] = Append(index[u], c)] \in Indexes
         /\ Agree([index EXCEPT ![u] = Append(index[u], c)], ids \cup {c})
<1> DEFINE s == index[u]
           t == Append(s, c)
           new == [index EXCEPT ![u] = t]
<1>1. s \in Seq(Sockets) /\ c \notin Elements(s) /\ Distinct(s)
  BY DEF Indexes, Agree
<1>2. Elements(s) = Elements(index[u])
  OBVIOUS
<1>3. new \in [Users -> {t} \cup Seq(Sockets)] /\ new[u] = t
      /\ \A v \in Users : v # u => new[v] = index[v]
  BY DEF Indexes
<1> HIDE DEF s
<1>4. /\ t \in Seq(Sockets) /\ t # <<>> /\ Len(s) \in Nat /\ Len(t) = Len(s) + 1
      /\ DOMAIN s = 1 .. Len(s) /\ DOMAIN t = 1 .. Len(s) + 1
      /\ \A i \in 1 .. Len(s) : t[i] = s[i]
      /\ t[Len(s) + 1] = c
  BY <1>1, AppendProperties, LenProperties
<1> HIDE DEF t
<1>5. Elements(t) = Elements(s) \cup {c}
  <2>1. ASSUME NEW y \in Elements(t) PROVE y \in Elements(s) \cup {c}
    BY <1>4, <2>1 DEF Elements
  <2>2. ASSUME NEW y \in Elements(s) PROVE y \in Elements(t)
    BY <1>4, <2>2 DEF Elements
  <2>3. c \in Elements(t)
    BY <1>4 DEF Elements
  <2> QED
    BY <2>1, <2>2, <2>3
<1>6. Distinct(t)
  BY <1>1, <1>4 DEF Distinct, Elements
<1>7. Head(t) \in Sockets \cap Elements(t)
  <2>1. Head(t) = t[1] /\ 1 \in DOMAIN t
    BY <1>4
  <2> QED
    BY <1>4, <2>1, HeadTailProperties DEF Elements
<1> HIDE DEF new
<1>8. new \in Indexes
  BY <1>3, <1>4 DEF Indexes
<1>9. \A v \in Users : Elements(new[v]) = IF v = u THEN Elements(index[u]) \cup {c}
                                          ELSE Elements(index[v])
  BY <1>2, <1>3, <1>5
<1>10. ids \cup {c} = UNION {Elements(new[v]) : v \in Users}
  <2>1. ids = UNION {Elements(index[v]) : v \in Users}
    BY DEF Agree
  <2> QED
    BY <1>9, <2>1
<1>11. \A v \in Users : Distinct(new[v])
  BY <1>3, <1>6 DEF Agree
<1>12. \A v, w \in Users : v # w => Elements(new[v]) \cap Elements(new[w]) = {}
  <2>1. \A v \in Users : c \notin Elements(index[v])
    BY DEF Agree
  <2> QED
    BY <1>9, <2>1 DEF Agree
<1> QED
  BY <1>4, <1>7, <1>8, <1>10, <1>11, <1>12 DEF Agree, new, t, s

\* So does evicting one of the user the last one was entered under.
LEMMA EvictionAgrees ==
  ASSUME NEW index \in Indexes, NEW u \in Users, NEW ids, NEW all, NEW cs,
         [index EXCEPT ![u] = ids] \in Indexes,
         Agree([index EXCEPT ![u] = ids], all),
         cs \subseteq Elements(ids),
         NEW new, new = [index EXCEPT ![u] = Hub!Without(ids, cs)]
  PROVE  new \in Indexes /\ Agree(new, all \ cs)
<1> DEFINE between == [index EXCEPT ![u] = ids]
<1>1. between[u] = ids /\ \A v \in Users : v # u => between[v] = index[v] /\ new[v] = index[v]
  BY DEF Indexes
<1>2. new[u] = Hub!Without(ids, cs)
  BY DEF Indexes
<1>3. between \in Indexes /\ Agree(between, all)
  OBVIOUS
<1> HIDE DEF between
<1>4. ids \in Seq(Sockets)
  BY <1>1, <1>3 DEF Indexes
<1>5. /\ new[u] \in Seq(Sockets) /\ Elements(new[u]) = Elements(between[u]) \ cs
      /\ Distinct(between[u]) => Distinct(new[u])
  BY <1>1, <1>2, <1>4, WithoutProperties
<1>6. \A v \in Users : v # u => Elements(between[v]) \cap cs = {}
  BY <1>1, <1>3 DEF Agree
<1>7. \A v \in Users : Elements(new[v]) = Elements(between[v]) \ cs
  BY <1>1, <1>5, <1>6
<1>8. \A v \in Users : new[v] \in Seq(Sockets) /\ Distinct(new[v])
  BY <1>1, <1>3, <1>5 DEF Agree, Indexes
<1>9. new = [v \in Users |-> new[v]]
  BY DEF Indexes
<1>10. new \in Indexes
  BY ONLY <1>8, <1>9 DEF Indexes
<1>11. all \ cs = UNION {Elements(new[v]) : v \in Users}
  <2>1. all = UNION {Elements(between[v]) : v \in Users}
    BY <1>3 DEF Agree
  <2> QED
    BY ONLY <1>7, <2>1
<1>12. \A v, w \in Users : v # w => Elements(new[v]) \cap Elements(new[w]) = {}
  <2>1. \A v, w \in Users : v # w => Elements(between[v]) \cap Elements(between[w]) = {}
    BY <1>3 DEF Agree
  <2> QED
    BY ONLY <1>7, <2>1
<1> QED
  BY ONLY <1>8, <1>10, <1>11, <1>12 DEF Agree

\* A step that takes connections out of the hub and closes sockets.
LEMMA DepartureKeeps ==
  ASSUME HubInv, NEW cs \in SUBSET Sockets,
         byId' = byId \ cs, topic' = topic \ cs,
         byUser' = [u \in Users |-> Hub!Without(byUser[u], cs)]
  PROVE  /\ byUser' \in Indexes /\ byId' \subseteq Sockets /\ topic' \subseteq Sockets
         /\ Agree(byUser', byId')
         /\ byId' \subseteq byId
<1>1. byUser \in Indexes /\ byId \subseteq Sockets /\ topic \subseteq Sockets
  BY DEF HubInv, Hub!TypeOK, Indexes
<1>2. Agree(byUser, byId)
  BY DEF HubInv
<1>3. byUser' \in Indexes /\ Agree(byUser', byId \ cs)
  BY <1>1, <1>2, RemovalAgrees
<1> QED
  BY <1>1, <1>3

\* Closing sockets leaves each socket in some state.
LEMMA ShutType ==
  ASSUME sock \in [Sockets -> {"none", "open", "closing", "closed"}], NEW cs, Hub!Shut(cs)
  PROVE  sock' \in [Sockets -> {"none", "open", "closing", "closed"}]
  BY DEF Hub!Shut

\* A step of the hub keeps the invariant.
LEMMA HubStep ==
  ASSUME HubInv, [Hub!Next]_sockets PROVE HubInv'
<1>1. ASSUME NEW c \in Sockets, Hub!Connect(c) \/ Hub!Reject(c) PROVE HubInv'
  <2>1. /\ sock' \in [Sockets -> {"none", "open", "closing", "closed"}]
        /\ stage' \in [Sockets -> {"none", "authenticating", "rejected", "attached"}]
        /\ \A d \in Sockets : stage[d] = "attached" => stage'[d] = "attached"
        /\ UNCHANGED <<byUser, byId, topic, lost, alive, timer, pinged>>
    BY <1>1, ShutType DEF Hub!Connect, Hub!Reject, Hub!hub, HubInv, Hub!TypeOK
  <2>2. Hub!TypeOK'
    BY <2>1 DEF HubInv, Hub!TypeOK
  <2>3. HubHoldsAttached'
    BY <2>1 DEF HubInv, Hub!TypeOK, HubHoldsAttached
  <2> QED
    BY <2>1, <2>2, <2>3 DEF HubInv, Hub!DroppedWasPinged, Agree
<1>2. ASSUME NEW c \in Sockets, NEW u \in Users, Hub!Attach(c, u) PROVE HubInv'
  <2> DEFINE ids == Append(byUser[u], c)
             evicted == IF Len(ids) > MaxPerUser THEN {Head(ids)} ELSE {}
             between == [byUser EXCEPT ![u] = ids]
  <2>1. c \notin byId
    BY <1>2 DEF Hub!Attach, HubInv, HubHoldsAttached
  <2>2. byUser \in Indexes /\ Agree(byUser, byId)
    BY DEF HubInv, Hub!TypeOK, Indexes
  <2>3. /\ between \in Indexes /\ Agree(between, byId \cup {c})
        /\ ids \in Seq(Sockets) /\ evicted \subseteq Sockets \cap Elements(ids)
    BY <2>1, <2>2, EntryAgrees
  <2>4. /\ byId' = (byId \cup {c}) \ evicted /\ topic' = topic \ evicted
        /\ byUser' = [byUser EXCEPT ![u] = Hub!Without(ids, evicted)]
        /\ Hub!Shut(evicted)
        /\ stage[c] = "authenticating" /\ stage' = [stage EXCEPT ![c] = "attached"]
        /\ alive' = [alive EXCEPT ![c] = TRUE] /\ timer' = timer \cup {c}
        /\ UNCHANGED <<lost, pinged>>
    BY <1>2 DEF Hub!Attach, Hub!Register
  <2>5. byUser' \in Indexes /\ Agree(byUser', (byId \cup {c}) \ evicted)
    <3> HIDE DEF ids, evicted
    <3>1. evicted \subseteq Elements(ids)
      BY <2>3
    <3> QED
      BY <2>2, <2>3, <2>4, <3>1, EvictionAgrees
  <2>6. sock' \in [Sockets -> {"none", "open", "closing", "closed"}]
    BY <2>4, ShutType DEF HubInv, Hub!TypeOK
  <2> HIDE DEF ids, evicted, between
  <2>7. Hub!TypeOK'
    BY <2>3, <2>4, <2>5, <2>6 DEF HubInv, Hub!TypeOK, Indexes
  <2>8. HubHoldsAttached'
    BY <2>4 DEF HubInv, Hub!TypeOK, HubHoldsAttached
  <2>9. Hub!DroppedWasPinged'
    BY <2>4 DEF HubInv, Hub!TypeOK, Hub!DroppedWasPinged
  <2> QED
    BY <2>4, <2>5, <2>7, <2>8, <2>9 DEF HubInv
<1>3. ASSUME NEW c \in Sockets, Hub!Subscribe(c) \/ Hub!Unsubscribe(c) PROVE HubInv'
  <2>1. /\ topic' \subseteq Sockets
        /\ UNCHANGED <<byUser, byId, sock, lost, stage, alive, timer, pinged>>
    BY <1>3 DEF Hub!Subscribe, Hub!Unsubscribe, HubInv, Hub!TypeOK
  <2> QED
    BY <2>1 DEF HubInv, Hub!TypeOK, Agree, HubHoldsAttached, Hub!DroppedWasPinged
<1>4. ASSUME NEW targets \in SUBSET Sockets, Hub!Deliver(targets) PROVE HubInv'
  <2>1. PICK failed \in SUBSET {c \in targets : sock[c] # "open"} : Hub!Unregister(failed)
    BY <1>4 DEF Hub!Deliver
  <2>2. /\ byUser' \in Indexes /\ byId' \subseteq Sockets /\ topic' \subseteq Sockets
        /\ Agree(byUser', byId') /\ byId' \subseteq byId
    BY <2>1, DepartureKeeps DEF Hub!Unregister
  <2>3. sock' \in [Sockets -> {"none", "open", "closing", "closed"}]
    BY <2>1, ShutType DEF Hub!Unregister, HubInv, Hub!TypeOK
  <2>4. UNCHANGED <<lost, stage, alive, timer, pinged>>
    BY <1>4 DEF Hub!Deliver
  <2>5. Hub!TypeOK'
    BY <2>2, <2>3, <2>4 DEF HubInv, Hub!TypeOK, Indexes
  <2>6. HubHoldsAttached' /\ Hub!DroppedWasPinged'
    BY <2>2, <2>4 DEF HubInv, HubHoldsAttached, Hub!DroppedWasPinged
  <2> QED
    BY <2>2, <2>5, <2>6 DEF HubInv
<1>5. ASSUME NEW c \in Sockets, Hub!Beat(c) PROVE HubInv'
  <2>1. CASE alive[c]
    <3>1. /\ alive' = [alive EXCEPT ![c] = FALSE] /\ pinged' = pinged \cup {c}
          /\ UNCHANGED <<byUser, byId, topic, sock, timer, lost, stage>>
      BY <1>5, <2>1 DEF Hub!Beat, Hub!hub
    <3> QED
      BY <3>1 DEF HubInv, Hub!TypeOK, Agree, HubHoldsAttached, Hub!DroppedWasPinged
  <2>2. CASE ~alive[c]
    <3>1. /\ timer' = timer \ {c} /\ Hub!Unregister({c})
          /\ UNCHANGED <<alive, pinged, lost, stage>>
      BY <1>5, <2>2 DEF Hub!Beat
    <3>2. /\ byUser' \in Indexes /\ byId' \subseteq Sockets /\ topic' \subseteq Sockets
          /\ Agree(byUser', byId') /\ byId' \subseteq byId
      BY <3>1, DepartureKeeps DEF Hub!Unregister
    <3>3. sock' \in [Sockets -> {"none", "open", "closing", "closed"}]
      BY <3>1, ShutType DEF Hub!Unregister, HubInv, Hub!TypeOK
    <3>4. Hub!TypeOK'
      BY <3>1, <3>2, <3>3 DEF HubInv, Hub!TypeOK, Indexes
    <3>5. HubHoldsAttached' /\ Hub!DroppedWasPinged'
      BY <3>1, <3>2 DEF HubInv, HubHoldsAttached, Hub!DroppedWasPinged
    <3> QED
      BY <3>2, <3>4, <3>5 DEF HubInv
  <2> QED
    BY <2>1, <2>2
<1>6. ASSUME NEW c \in Sockets, Hub!Pong(c) PROVE HubInv'
  <2>1. /\ alive' = [alive EXCEPT ![c] = TRUE] /\ pinged' = pinged \ {c}
        /\ UNCHANGED <<byUser, byId, topic, sock, lost, stage, timer>>
    BY <1>6 DEF Hub!Pong, Hub!hub
  <2> QED
    BY <2>1 DEF HubInv, Hub!TypeOK, Agree, HubHoldsAttached, Hub!DroppedWasPinged
<1>7. ASSUME NEW c \in Sockets, Hub!Closed(c) PROVE HubInv'
  <2>1. sock' = [sock EXCEPT ![c] = "closed"] /\ UNCHANGED <<lost, stage, pinged>>
    BY <1>7 DEF Hub!Closed
  <2>2. CASE stage[c] = "attached"
    <3>1. /\ byId' = byId \ {c} /\ topic' = topic \ {c}
          /\ byUser' = [u \in Users |-> Hub!Without(byUser[u], {c})]
          /\ alive' = [alive EXCEPT ![c] = FALSE] /\ timer' = timer \ {c}
      BY <1>7, <2>2 DEF Hub!Closed
    <3>2. /\ byUser' \in Indexes /\ byId' \subseteq Sockets /\ topic' \subseteq Sockets
          /\ Agree(byUser', byId') /\ byId' \subseteq byId
      BY <3>1, DepartureKeeps
    <3>3. Hub!TypeOK'
      BY <2>1, <3>1, <3>2 DEF HubInv, Hub!TypeOK, Indexes
    <3>4. HubHoldsAttached'
      BY <2>1, <3>2 DEF HubInv, HubHoldsAttached
    <3>5. Hub!DroppedWasPinged'
      BY <2>1, <3>1 DEF HubInv, Hub!TypeOK, Hub!DroppedWasPinged
    <3> QED
      BY <3>2, <3>3, <3>4, <3>5 DEF HubInv
  <2>3. CASE stage[c] # "attached"
    <3>1. UNCHANGED <<byUser, byId, topic, alive, timer>>
      BY <1>7, <2>3 DEF Hub!Closed, Hub!hub
    <3> QED
      BY <2>1, <3>1 DEF HubInv, Hub!TypeOK, Agree, HubHoldsAttached, Hub!DroppedWasPinged
  <2> QED
    BY <2>2, <2>3
<1>8. ASSUME NEW c \in Sockets, Hub!Vanish(c) PROVE HubInv'
  BY <1>8 DEF Hub!Vanish, Hub!hub, HubInv, Hub!TypeOK, Agree, HubHoldsAttached,
     Hub!DroppedWasPinged
<1>9. CASE UNCHANGED sockets
  BY <1>9 DEF sockets, HubInv, Hub!TypeOK, Agree, HubHoldsAttached, Hub!DroppedWasPinged
<1>10. ASSUME NEW u \in Users, Hub!SendTo(u) PROVE HubInv'
  <2>1. Hub!Range(byUser[u]) \subseteq Sockets
    BY LenProperties, ElementOfSeq DEF HubInv, Hub!TypeOK, Hub!Range
  <2> QED
    BY <1>4, <1>10, <2>1 DEF Hub!SendTo
<1>11. CASE Hub!Broadcast \/ Hub!BroadcastTopic
  BY <1>4, <1>11 DEF Hub!Broadcast, Hub!BroadcastTopic, HubInv, Hub!TypeOK
<1> QED
  BY <1>1, <1>2, <1>3, <1>5, <1>6, <1>7, <1>8, <1>9, <1>10, <1>11
  DEF Hub!Next, Hub!ConnStep

\* The empty hub satisfies it.
LEMMA HubInit == Hub!Init => HubInv
  BY EmptySeq DEF Hub!Init, HubInv, Hub!TypeOK, Agree, Elements, Distinct,
     HubHoldsAttached, Hub!DroppedWasPinged

-----------------------------------------------------------------------------
(* EventStream: first in, first out, nothing lost.  To the properties the  *)
(* invariant adds that a chunk is in hand exactly at a yield.              *)

YieldsHoldChunks ==
  \A s \in Streams :
    chunk[s] \in IF iter[s] = "yielding" THEN Channel!Messages \cup {Channel!Ping} ELSE {Null}

ChannelInv ==
  /\ Channel!TypeOK
  /\ YieldsHoldChunks
  /\ Channel!FifoLossless
  /\ Channel!NoLostWakeup

\* Neither a heartbeat nor the absence of a chunk is an event.
LEMMA PingIsNoEvent ==
  /\ Channel!Ping \notin Channel!Messages /\ Null \notin Channel!Messages
  /\ Null # Channel!Ping /\ Channel!Messages \subseteq Nat
  BY ConnectionsAssumption
  DEF Channel!Ping, Channel!Messages, Channel!EventStreamAssumption

\* An event pushed comes last.
LEMMA PushedIsLast ==
  ASSUME NEW S, NEW w \in Seq(S), NEW y \in Seq(S), NEW q \in Seq(S), NEW m \in S
  PROVE  w \o y \o Append(q, m) = Append(w \o y \o q, m)
<1>1. w \o y \in Seq(S) /\ <<m>> \in Seq(S) /\ (w \o y) \o q \in Seq(S)
  BY ConcatProperties
<1>2. Append(q, m) = q \o <<m>> /\ Append((w \o y) \o q, m) = ((w \o y) \o q) \o <<m>>
  BY <1>1, AppendIsConcat
<1> QED
  BY <1>1, <1>2, ConcatAssociative

\* An event taken is the one that was first in the queue.
LEMMA TakenIsNext ==
  ASSUME NEW S, NEW w \in Seq(S), NEW q \in Seq(S), q # <<>>
  PROVE  w \o <<Head(q)>> \o Tail(q) = w \o <<>> \o q
<1>1. /\ Head(q) \in S /\ Tail(q) \in Seq(S) /\ Len(Tail(q)) = Len(q) - 1
      /\ \A i \in 1 .. Len(Tail(q)) : Tail(q)[i] = q[i + 1]
  BY HeadTailProperties
<1>2. <<Head(q)>> \in Seq(S) /\ Len(<<Head(q)>>) = 1 /\ <<Head(q)>>[1] = q[1]
  BY <1>1
<1>3. <<Head(q)>> \o Tail(q) = q
  <2> DEFINE h == <<Head(q)>>
             t == Tail(q)
  <2>1. Len(q) \in Nat /\ Len(q) # 0
    BY EmptySeq
  <2>2. h \in Seq(S) /\ Len(h) = 1 /\ h[1] = q[1]
    BY <1>2
  <2>3. t \in Seq(S) /\ Len(t) = Len(q) - 1 /\ \A i \in 1 .. Len(t) : t[i] = q[i + 1]
    BY <1>1
  <2> HIDE DEF h, t
  <2>4. /\ h \o t \in Seq(S) /\ Len(h \o t) = 1 + Len(t)
        /\ \A i \in 1 .. 1 + Len(t) : (h \o t)[i] = IF i <= 1 THEN h[i] ELSE t[i - 1]
    <3>1. /\ h \o t \in Seq(S) /\ Len(h \o t) = Len(h) + Len(t)
          /\ \A i \in 1 .. Len(h) + Len(t) :
               (h \o t)[i] = IF i <= Len(h) THEN h[i] ELSE t[i - Len(h)]
      <4>1. h \in Seq(S) /\ t \in Seq(S)
        BY <2>2, <2>3
      <4> QED
        BY <4>1, ConcatProperties, Zenon
    <3> QED
      BY <2>2, <3>1
  <2>5. \A i \in 1 .. Len(q) : (h \o t)[i] = q[i]
    BY <2>1, <2>2, <2>3, <2>4
  <2>6. Len(h \o t) = Len(q)
    BY <2>1, <2>3, <2>4
  <2>7. h \o t = q
    BY <2>4, <2>5, <2>6, SeqEqual
  <2> QED
    BY <2>7 DEF h, t
<1>4. (w \o <<Head(q)>>) \o Tail(q) = w \o (<<Head(q)>> \o Tail(q))
  BY <1>1, <1>2, ConcatAssociative
<1>5. w \o <<>> = w
  BY ConcatEmptySeq
<1> QED
  BY <1>3, <1>4, <1>5

\* A step of the channel keeps the invariant.
LEMMA ChannelStep ==
  ASSUME ChannelInv, [Channel!Next]_channel PROVE ChannelInv'
<1> DEFINE M == Channel!Messages
<1> USE DEF Channel!Stage
<1>1. CASE Channel!Publish
  <2> DEFINE m == published + 1
             targets == {s \in members : ~closed[s]}
  <2>1. m \in M /\ published' = m /\ published' \in 0 .. MaxMessages
    BY <1>1, ConnectionsAssumption
    DEF Channel!Publish, ChannelInv, Channel!TypeOK, Channel!Messages,
        Channel!EventStreamAssumption
  <2> HIDE DEF M
  <2>2. /\ Channel!Push(targets, m)
        /\ UNCHANGED <<members, gone, closed, iter, beat, chunk, written>>
    BY <1>1 DEF Channel!Publish, Channel!iterVars
  <2>3. targets \subseteq Streams /\ \A s \in targets : ~closed[s]
    BY DEF ChannelInv, Channel!TypeOK
  <2> HIDE DEF m, targets
  <2>4. \A s \in Streams : queue[s] \in Seq(M) /\ accepted[s] \in Seq(M) /\ written[s] \in Seq(M)
    BY DEF ChannelInv, Channel!TypeOK, M
  <2>5. \A s \in Streams : Append(queue[s], m) \in Seq(M) /\ Append(accepted[s], m) \in Seq(M)
    BY <2>1, <2>4, AppendProperties
  <2>6. /\ queue' \in [Streams -> Seq(M)] /\ accepted' \in [Streams -> Seq(M)]
        /\ waiter' \in [Streams -> BOOLEAN] /\ woken' \in [Streams -> BOOLEAN]
    BY <2>2, <2>4, <2>5 DEF Channel!Push, ChannelInv, Channel!TypeOK
  <2>7. Channel!TypeOK'
    BY <2>1, <2>2, <2>6 DEF ChannelInv, Channel!TypeOK, M
  <2>8. YieldsHoldChunks'
    BY <2>2 DEF ChannelInv, YieldsHoldChunks
  <2>9. Channel!FifoLossless'
    <3>1. SUFFICES ASSUME NEW s \in Streams
                   PROVE  accepted'[s] = written[s] \o Channel!Yielded(s) \o queue'[s]
      BY <2>2 DEF Channel!FifoLossless, Channel!Yielded
    <3>2. Channel!Yielded(s) \in Seq(M)
      BY DEF Channel!Yielded, M
    <3>3. accepted[s] = written[s] \o Channel!Yielded(s) \o queue[s]
      BY DEF ChannelInv, Channel!FifoLossless
    <3>4. CASE s \in targets
      <4>1. accepted'[s] = Append(accepted[s], m) /\ queue'[s] = Append(queue[s], m)
        BY <2>2, <3>4 DEF Channel!Push
      <4>2. written[s] \o Channel!Yielded(s) \o Append(queue[s], m)
              = Append(written[s] \o Channel!Yielded(s) \o queue[s], m)
        <5>1. \A w, y, q \in Seq(M) : w \o y \o Append(q, m) = Append(w \o y \o q, m)
          BY <2>1, PushedIsLast
        <5> QED
          BY <2>4, <3>2, <5>1
      <4> QED
        BY <3>3, <4>1, <4>2
    <3>5. CASE s \notin targets
      BY <2>2, <3>3, <3>5 DEF Channel!Push
    <3> QED
      BY <3>4, <3>5
  <2>10. Channel!NoLostWakeup'
    BY <2>2, <2>3 DEF Channel!Push, ChannelInv, Channel!TypeOK, Channel!NoLostWakeup
  <2> QED
    BY <2>7, <2>8, <2>9, <2>10 DEF ChannelInv
<1>2. ASSUME NEW s \in Streams, Channel!Register(s) \/ Channel!Serve(s) \/ Channel!End(s)
      PROVE  ChannelInv'
  <2>1. /\ members' \subseteq Streams
        /\ iter' \in [Streams -> Channel!Stage]
        /\ \A t \in Streams : t # s => iter'[t] = iter[t]
        /\ iter[s] \notin {"yielding", "waiting"} /\ iter'[s] \notin {"yielding", "waiting"}
        /\ UNCHANGED <<gone, queue, closed, waiter, woken, beat, chunk, written, accepted,
                       published>>
    BY <1>2 DEF Channel!Register, Channel!Serve, Channel!End, Channel!streamVars, ChannelInv,
       Channel!TypeOK
  <2> USE DEF ChannelInv
  <2>2. Channel!TypeOK' /\ YieldsHoldChunks'
    BY <2>1 DEF Channel!TypeOK, YieldsHoldChunks
  <2>3. Channel!FifoLossless' /\ Channel!NoLostWakeup'
    BY <2>1 DEF Channel!FifoLossless, Channel!Yielded, Channel!NoLostWakeup
  <2> QED
    BY <2>2, <2>3
<1>3. ASSUME NEW s \in Streams, Channel!ClientGoes(s) \/ Channel!Unregister(s)
      PROVE  ChannelInv'
  <2>1. /\ members' \subseteq Streams /\ gone' \subseteq Streams
        /\ \/ Channel!CloseStream(s)
           \/ UNCHANGED <<queue, closed, waiter, woken>>
        /\ UNCHANGED <<iter, beat, chunk, written, accepted, published>>
    BY <1>3 DEF Channel!ClientGoes, Channel!Unregister, Channel!streamVars, Channel!iterVars,
       ChannelInv, Channel!TypeOK
  <2>2. /\ closed' \in [Streams -> BOOLEAN] /\ waiter' \in [Streams -> BOOLEAN]
        /\ woken' \in [Streams -> BOOLEAN] /\ UNCHANGED queue
    BY <2>1 DEF Channel!CloseStream, ChannelInv, Channel!TypeOK
  <2> USE DEF ChannelInv
  <2>3. Channel!TypeOK' /\ YieldsHoldChunks'
    BY <2>1, <2>2 DEF Channel!TypeOK, YieldsHoldChunks
  <2>4. Channel!FifoLossless'
    BY <2>1, <2>2 DEF Channel!FifoLossless, Channel!Yielded
  <2>5. Channel!NoLostWakeup'
    BY <2>1 DEF Channel!CloseStream, Channel!TypeOK, Channel!NoLostWakeup
  <2> QED
    BY <2>3, <2>4, <2>5
<1>4. ASSUME NEW s \in Streams, Channel!HeartbeatFires(s) PROVE ChannelInv'
  BY <1>4 DEF Channel!HeartbeatFires, Channel!streamVars, ChannelInv, Channel!TypeOK,
     YieldsHoldChunks, Channel!FifoLossless, Channel!Yielded, Channel!NoLostWakeup
<1>5. ASSUME NEW s \in Streams, Channel!Take(s) PROVE ChannelInv'
  <2> HIDE DEF M
  <2>1. queue[s] \in Seq(M) /\ written[s] \in Seq(M) /\ queue[s] # <<>> /\ iter[s] = "loop"
    BY <1>5 DEF Channel!Take, ChannelInv, Channel!TypeOK, M
  <2>2. Head(queue[s]) \in M /\ Tail(queue[s]) \in Seq(M)
    BY <2>1, HeadTailProperties
  <2>3. /\ chunk' = [chunk EXCEPT ![s] = Head(queue[s])]
        /\ queue' = [queue EXCEPT ![s] = Tail(queue[s])]
        /\ iter' = [iter EXCEPT ![s] = "yielding"]
        /\ UNCHANGED <<members, gone, closed, waiter, woken, beat, written, accepted, published>>
    BY <1>5 DEF Channel!Take
  <2> USE DEF ChannelInv
  <2>4. Channel!TypeOK'
    BY <2>2, <2>3 DEF Channel!TypeOK, M
  <2>5. YieldsHoldChunks'
    BY <2>2, <2>3 DEF Channel!TypeOK, YieldsHoldChunks, M
  <2>6. Channel!FifoLossless'
    <3>1. SUFFICES ASSUME NEW t \in Streams
                   PROVE  accepted[t] = written[t] \o Channel!Yielded(t)' \o queue'[t]
      BY <2>3 DEF Channel!FifoLossless
    <3>2. accepted[t] = written[t] \o Channel!Yielded(t) \o queue[t]
      BY DEF Channel!FifoLossless
    <3>3. CASE t = s
      <4>1. Channel!Yielded(s) = <<>>
        BY <2>1, PingIsNoEvent DEF YieldsHoldChunks, Channel!Yielded
      <4>2. Channel!Yielded(s)' = <<Head(queue[s])>>
        BY <2>2, <2>3 DEF Channel!Yielded, Channel!TypeOK, M
      <4>3. queue'[s] = Tail(queue[s])
        BY <2>3 DEF Channel!TypeOK
      <4> QED
        <5>1. written[s] \o <<Head(queue[s])>> \o Tail(queue[s])
                = written[s] \o <<>> \o queue[s]
          BY <2>1, TakenIsNext, Zenon
        <5> QED
          BY <3>2, <3>3, <4>1, <4>2, <4>3, <5>1, Zenon
    <3>4. CASE t # s
      BY <2>3, <3>2, <3>4 DEF Channel!Yielded, Channel!TypeOK
    <3> QED
      BY <3>3, <3>4
  <2>7. Channel!NoLostWakeup'
    BY <2>1, <2>3 DEF Channel!TypeOK, Channel!NoLostWakeup
  <2> QED
    BY <2>4, <2>5, <2>6, <2>7
<1>6. ASSUME NEW s \in Streams, Channel!Write(s) PROVE ChannelInv'
  <2> HIDE DEF M
  <2>1. /\ iter[s] = "yielding" /\ chunk' = [chunk EXCEPT ![s] = Null]
        /\ iter' = [iter EXCEPT ![s] = "loop"]
        /\ UNCHANGED <<members, gone, queue, closed, waiter, woken, beat, accepted, published>>
        /\ written' = IF chunk[s] = Channel!Ping THEN written
                      ELSE [written EXCEPT ![s] = Append(written[s], chunk[s])]
    BY <1>6 DEF Channel!Write, Channel!streamVars
  <2>2. \A t \in Streams : written[t] \in Seq(M) /\ queue[t] \in Seq(M)
    BY DEF ChannelInv, Channel!TypeOK, M
  <2>3. chunk[s] \in M \cup {Channel!Ping}
    BY <2>1 DEF ChannelInv, YieldsHoldChunks, M
  <2>4. Channel!Yielded(s)' = <<>>
    BY <2>1, PingIsNoEvent DEF Channel!Yielded, ChannelInv, Channel!TypeOK
  <2> USE DEF ChannelInv
  <2>5. written' \in [Streams -> Seq(M)]
    BY <2>1, <2>2, <2>3, AppendProperties DEF Channel!TypeOK, M
  <2>6. Channel!TypeOK'
    BY <2>1, <2>5 DEF Channel!TypeOK, M
  <2>7. YieldsHoldChunks'
    BY <2>1 DEF Channel!TypeOK, YieldsHoldChunks
  <2>8. Channel!FifoLossless'
    <3>1. SUFFICES ASSUME NEW t \in Streams
                   PROVE  accepted[t] = written'[t] \o Channel!Yielded(t)' \o queue[t]
      BY <2>1 DEF Channel!FifoLossless
    <3>2. accepted[t] = written[t] \o Channel!Yielded(t) \o queue[t]
      BY DEF Channel!FifoLossless
    <3>3. CASE t = s /\ chunk[s] = Channel!Ping
      <4>1. Channel!Yielded(s) = <<>> /\ written' = written
        BY <2>1, <3>3, PingIsNoEvent DEF Channel!Yielded
      <4> QED
        BY <2>4, <3>2, <3>3, <4>1
    <3>4. CASE t = s /\ chunk[s] # Channel!Ping
      <4>1. chunk[s] \in M /\ Channel!Yielded(s) = <<chunk[s]>>
        BY <2>3, <3>4 DEF Channel!Yielded, M
      <4>2. written'[s] = Append(written[s], chunk[s])
        BY <2>1, <3>4 DEF Channel!TypeOK
      <4>3. written'[s] \in Seq(M) /\ written'[s] \o <<>> = written'[s]
        BY <2>5, ConcatEmptySeq
      <4>4. Append(written[s], chunk[s]) = written[s] \o <<chunk[s]>>
        BY <2>2, <4>1, AppendIsConcat
      <4> QED
        BY <2>4, <3>2, <3>4, <4>1, <4>2, <4>3, <4>4
    <3>5. CASE t # s
      BY <2>1, <3>2, <3>5 DEF Channel!Yielded, Channel!TypeOK
    <3> QED
      BY <3>3, <3>4, <3>5
  <2>9. Channel!NoLostWakeup'
    BY <2>1 DEF Channel!TypeOK, Channel!NoLostWakeup
  <2> QED
    BY <2>6, <2>7, <2>8, <2>9
<1>7. ASSUME NEW s \in Streams, Channel!Await(s) PROVE ChannelInv'
  BY <1>7 DEF Channel!Await, ChannelInv, Channel!TypeOK, YieldsHoldChunks,
     Channel!FifoLossless, Channel!Yielded, Channel!NoLostWakeup
<1>8. ASSUME NEW s \in Streams, Channel!Resume(s) PROVE ChannelInv'
  <2>1. /\ iter[s] = "waiting"
        /\ \/ chunk' = [chunk EXCEPT ![s] = Channel!Ping] /\ iter' = [iter EXCEPT ![s] = "yielding"]
           \/ UNCHANGED chunk /\ iter' = [iter EXCEPT ![s] = "loop"]
        /\ UNCHANGED <<members, gone, queue, closed, waiter, woken, beat, written, accepted,
                       published>>
    BY <1>8 DEF Channel!Resume, Channel!streamVars
  <2> USE DEF ChannelInv
  <2>2. Channel!TypeOK'
    BY <2>1 DEF Channel!TypeOK
  <2>3. YieldsHoldChunks'
    BY <2>1 DEF Channel!TypeOK, YieldsHoldChunks
  <2>4. \A t \in Streams : Channel!Yielded(t)' = Channel!Yielded(t)
    BY <2>1, PingIsNoEvent DEF Channel!TypeOK, YieldsHoldChunks, Channel!Yielded
  <2>5. Channel!FifoLossless'
    BY <2>1, <2>4 DEF Channel!FifoLossless
  <2>6. Channel!NoLostWakeup'
    BY <2>1 DEF Channel!TypeOK, Channel!NoLostWakeup
  <2> QED
    BY <2>2, <2>3, <2>5, <2>6
<1>9. CASE UNCHANGED channel
  BY <1>9 DEF channel, ChannelInv, Channel!TypeOK, YieldsHoldChunks,
     Channel!FifoLossless, Channel!Yielded, Channel!NoLostWakeup
<1> QED
  BY <1>1, <1>2, <1>3, <1>4, <1>5, <1>6, <1>7, <1>8, <1>9
  DEF Channel!Next, Channel!IteratorStep

\* Streams nobody has registered satisfy it.
LEMMA ChannelInit == Channel!Init => ChannelInv
<1> SUFFICES ASSUME Channel!Init PROVE ChannelInv
  OBVIOUS
<1>1. Channel!TypeOK /\ YieldsHoldChunks /\ Channel!NoLostWakeup
  BY ConnectionsAssumption
  DEF Channel!Init, Channel!TypeOK, YieldsHoldChunks, Channel!NoLostWakeup, Channel!Stage,
      Channel!EventStreamAssumption
<1>2. \A s \in Streams : Channel!Yielded(s) = <<>>
  BY PingIsNoEvent DEF Channel!Init, Channel!Yielded
<1>3. <<>> \o <<>> = <<>>
  BY ConcatEmptySeq, EmptySeq
<1> QED
  BY <1>1, <1>2, <1>3 DEF Channel!Init, Channel!FifoLossless, ChannelInv

-----------------------------------------------------------------------------

ConnectionsInv == HubInv /\ ChannelInv

\* Whatever part a behaviour exercises, each invariant holds of every state of it.
THEOREM ConnectionsAreSound == MCSpec => []ConnectionsInv
<1>1. MCInit => ConnectionsInv
  BY HubInit, ChannelInit DEF MCInit, ConnectionsInv
<1>2. ConnectionsInv /\ [MCNext]_<<part, vars, sockets, channel>> => ConnectionsInv'
  <2> SUFFICES ASSUME ConnectionsInv, [MCNext]_<<part, vars, sockets, channel>>
               PROVE  ConnectionsInv'
    OBVIOUS
  <2>1. [Hub!Next]_sockets /\ [Channel!Next]_channel
    BY DEF MCNext, DrainNext, SocketsNext, ChannelNext, sockets, channel
  <2> QED
    BY <2>1, HubStep, ChannelStep DEF ConnectionsInv
<1> QED
  BY <1>1, <1>2, PTL DEF MCSpec

\* The hub's two indexes hold the same connections, each under one user and once,
\* whether they leave by their own close, eviction, a failed send or the heartbeat;
\* and the heartbeat drops nobody it has not pinged.
THEOREM HubStaysSound == MCSpec => []HubIsSound
<1>1. ConnectionsInv => HubIsSound
  BY AgreeIsAgreement DEF ConnectionsInv, HubInv, HubIsSound
<1> QED
  BY <1>1, ConnectionsAreSound, PTL

\* No interleaving of push, close and heartbeat loses, repeats or reorders an event of
\* a stream, and none leaves a suspended iterator asleep with something to do.
THEOREM StreamsLoseNothing == MCSpec => []FifoLossless
<1>1. ConnectionsInv => FifoLossless
  BY DEF ConnectionsInv, ChannelInv, FifoLossless
<1> QED
  BY <1>1, ConnectionsAreSound, PTL
=============================================================================
