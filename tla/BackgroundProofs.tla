-------------------------- MODULE BackgroundProofs --------------------------
(***************************************************************************)
(* What holds of the work that goes on without a client waiting, for any   *)
(* number of publishers, subscribers, calls, jobs, workers and requests.   *)
(* Each component has an inductive invariant: a lemma that its Init        *)
(* establishes it, one that each of its steps preserves it, and a theorem  *)
(* of the whole specification, whose other steps leave the component alone.*)
(***************************************************************************)
EXTENDS MCBackground, FiniteSetTheorems, TLAPS

-----------------------------------------------------------------------------
(* RabbitBroker *)

\* the deliveries of m that were not answered: its handlers still run, on channels open
\* or closed, or its callbacks threw
Held(m) == {s \in Subscribers : <<s, m>> \in handling \cup abandoned}

\* the delivery that m still has to come
Awaited(m) == IF msg[m] \in {"unsent", "ready"} THEN 1 ELSE 0

\* the closings of a channel or of a connection so far
Closings ==
  IF closing = "channel" THEN 2 * closes - 2
  ELSE IF closing = "connection" THEN 2 * closes - 1
  ELSE 2 * closes

\* A message is sent once, by its publisher's last step, and delivered after that.
SentOnce ==
  \A p \in Publishers :
    /\ msg[p] # "unsent" => pc[p] = "done"
    /\ Held(p) # {} => msg[p] # "unsent"

\* Every delivery of a message, handled, unanswered or still to come, is paid for by
\* the sending or by one closing.
RunsArePaid ==
  \A m \in Publishers : handled[m] + Cardinality(Held(m)) + Awaited(m) <= 1 + Closings

\* A callback that threw runs no more.
ThrownIsOver == handling \cap abandoned = {}

RabbitInv ==
  Rabbit!TypeOK /\ Rabbit!AckedWasHandled /\ SentOnce /\ RunsArePaid /\ ThrownIsOver

\* The broker's initial state satisfies its invariant.
LEMMA RabbitInit == Rabbit!Init => RabbitInv
<1> SUFFICES ASSUME Rabbit!Init PROVE RabbitInv
  OBVIOUS
<1>1. Rabbit!TypeOK /\ Rabbit!AckedWasHandled
  BY DEF Rabbit!Init, Rabbit!TypeOK, Rabbit!AckedWasHandled, Rabbit!Phase,
         Rabbit!MsgState, Rabbit!Callers
<1>2. \A m \in Publishers : Held(m) = {}
  BY DEF Held, Rabbit!Init
<1>3. Cardinality({}) = 0
  BY FS_EmptySet
<1>4. \A m \in Publishers : handled[m] = 0 /\ Awaited(m) <= 1 /\ Awaited(m) \in Nat
  BY DEF Rabbit!Init, Awaited
<1>5. Closings = 0
  BY DEF Closings, Rabbit!Init
<1>6. SentOnce /\ ThrownIsOver
  BY <1>2 DEF SentOnce, ThrownIsOver, Rabbit!Init
<1>7. RunsArePaid
  BY <1>2, <1>3, <1>4, <1>5 DEF RunsArePaid
<1> QED
  BY <1>1, <1>6, <1>7 DEF RabbitInv

\* The unanswered deliveries of a message are finitely many.
LEMMA HeldIsFinite ==
  ASSUME NEW m, NEW H, NEW R, R = {s \in Subscribers : <<s, m>> \in H}
  PROVE  IsFiniteSet(R) /\ Cardinality(R) \in Nat
<1>1. R \subseteq Subscribers
  OBVIOUS
<1>2. IsFiniteSet(Subscribers)
  BY BackgroundAssumption
  DEF Rabbit!RabbitAssumption, Rabbit!IsFiniteSet, IsFiniteSet
<1>3. IsFiniteSet(R)
  BY <1>1, <1>2, FS_Subset
<1> QED
  BY <1>3, FS_CardinalityType

\* No step of the broker leaves its types.
LEMMA RabbitTypes ==
  ASSUME Rabbit!TypeOK, [Rabbit!Next]_rabbit PROVE Rabbit!TypeOK'
<1> USE BackgroundAssumption DEF Rabbit!TypeOK, Rabbit!RabbitAssumption, Rabbit!Callers,
      Rabbit!Phase, Rabbit!MsgState, Rabbit!fields, Rabbit!server, Rabbit!Goto
<1>1. ASSUME NEW c \in Publishers \cup Subscribers, Rabbit!Ready(c) PROVE Rabbit!TypeOK'
  BY <1>1 DEF Rabbit!Ready
<1>2. ASSUME NEW c \in Publishers \cup Subscribers, Rabbit!Connect(c) PROVE Rabbit!TypeOK'
  BY <1>2 DEF Rabbit!Connect
<1>3. ASSUME NEW c \in Publishers \cup Subscribers, Rabbit!OpenChannel(c)
      PROVE  Rabbit!TypeOK'
  BY <1>3 DEF Rabbit!OpenChannel
<1>4. ASSUME NEW c \in Publishers \cup Subscribers, Rabbit!ClosedUnder(c)
      PROVE  Rabbit!TypeOK'
  BY <1>4 DEF Rabbit!ClosedUnder
<1>5. ASSUME NEW p \in Publishers, Rabbit!Send(p) PROVE Rabbit!TypeOK'
  BY <1>5 DEF Rabbit!Send
<1>6. ASSUME NEW s \in Subscribers, Rabbit!Consume(s) \/ Rabbit!Unsubscribe(s)
      PROVE  Rabbit!TypeOK'
  BY <1>6 DEF Rabbit!Consume, Rabbit!Unsubscribe
<1>7. ASSUME NEW s \in Subscribers, NEW m \in Publishers, Rabbit!Deliver(s, m)
      PROVE  Rabbit!TypeOK'
  BY <1>7 DEF Rabbit!Deliver
<1>8. ASSUME NEW s \in Subscribers, NEW m \in Publishers, Rabbit!HandlerStep(s, m)
      PROVE  Rabbit!TypeOK'
  BY <1>8 DEF Rabbit!HandlerStep, Rabbit!HandlerResolves, Rabbit!HandlerRejects,
              Rabbit!HandlerThrows, Rabbit!Settle
<1>9. ASSUME Rabbit!Close \/ Rabbit!ForgetFields PROVE Rabbit!TypeOK'
  BY <1>9 DEF Rabbit!Close, Rabbit!ForgetFields
<1>10. ASSUME Rabbit!CloseChannel PROVE Rabbit!TypeOK'
  BY <1>10 DEF Rabbit!CloseChannel, Rabbit!Drop
<1>11. ASSUME Rabbit!CloseConnection PROVE Rabbit!TypeOK'
  BY <1>11 DEF Rabbit!CloseConnection, Rabbit!Drop
<1>12. CASE UNCHANGED rabbit
  BY <1>12 DEF rabbit
<1>13. ASSUME NEW c \in Publishers \cup Subscribers, Rabbit!ConnectFails(c)
       PROVE  Rabbit!TypeOK'
  BY <1>13 DEF Rabbit!ConnectFails
<1>14. ASSUME NEW s \in Subscribers, NEW m \in Publishers, Rabbit!Dies(s, m)
       PROVE  Rabbit!TypeOK'
  <2>1. /\ chans' = {} /\ conns' = {} /\ connection' = None /\ channel' = None
        /\ consumers' \subseteq consumers /\ abandoned' \subseteq abandoned
        /\ handling' = {} /\ closing' = "no" /\ UNCHANGED <<using, closes>>
    BY <1>14 DEF Rabbit!Dies, Rabbit!Drop
  <2>2. msg' \in [Publishers -> Rabbit!MsgState]
    BY <1>14 DEF Rabbit!Dies, Rabbit!Drop
  <2>3. handled' \in [Publishers -> Nat]
    BY <1>14 DEF Rabbit!Dies
  <2>4. pc' \in [Rabbit!Callers -> Rabbit!Phase]
    BY <1>14 DEF Rabbit!Dies
  <2> QED
    BY <2>1, <2>2, <2>3, <2>4
<1> QED
  BY <1>1, <1>2, <1>3, <1>4, <1>5, <1>6, <1>7, <1>8, <1>9, <1>10, <1>11, <1>12, <1>13,
     <1>14
  DEF Rabbit!Next, Rabbit!CallStep, Rabbit!CloseStep

\* A step of the broker keeps its invariant.
LEMMA RabbitStep ==
  ASSUME RabbitInv, [Rabbit!Next]_rabbit PROVE RabbitInv'
<1>1. Rabbit!TypeOK /\ Rabbit!TypeOK'
  BY RabbitTypes DEF RabbitInv
<1>2. closes \in Nat /\ Closings \in Int
  BY <1>1 DEF Rabbit!TypeOK, Closings
<1>3. \A m \in Publishers :
        /\ handled[m] \in Nat /\ handled'[m] \in Nat
        /\ IsFiniteSet(Held(m))
        /\ Cardinality(Held(m)) \in Nat /\ Cardinality(Held(m)') \in Nat
        /\ Awaited(m) \in 0..1 /\ Awaited(m)' \in 0..1
        /\ Held(m) = {} <=> \A s \in Subscribers : <<s, m>> \notin handling \cup abandoned
        /\ Held(m)' = {} <=>
             \A s \in Subscribers : <<s, m>> \notin handling' \cup abandoned'
  <2>1. \A m \in Publishers : handled[m] \in Nat /\ handled'[m] \in Nat
    BY <1>1 DEF Rabbit!TypeOK
  <2>2. \A m \in Publishers : IsFiniteSet(Held(m)) /\ Cardinality(Held(m)) \in Nat
    BY HeldIsFinite DEF Held
  <2>3. \A m \in Publishers : Cardinality(Held(m)') \in Nat
    BY HeldIsFinite DEF Held
  <2> QED
    BY <2>1, <2>2, <2>3 DEF Held, Awaited
<1> USE DEF Rabbit!fields, Rabbit!server, Rabbit!Goto
<1>4. ASSUME UNCHANGED <<msg, handling, abandoned, handled, closing, closes>>,
             \A p \in Publishers : pc[p] = "done" => pc'[p] = "done"
      PROVE  RabbitInv'
  BY <1>1, <1>4 DEF RabbitInv, Rabbit!AckedWasHandled, SentOnce, RunsArePaid, ThrownIsOver,
     Held, Awaited, Closings
<1>5. ASSUME NEW c \in Publishers \cup Subscribers, Rabbit!CallStep(c) PROVE RabbitInv'
  <2>1. UNCHANGED <<msg, handling, abandoned, handled, closing, closes>>
    BY <1>5 DEF Rabbit!CallStep, Rabbit!Ready, Rabbit!Connect, Rabbit!ConnectFails,
                Rabbit!OpenChannel, Rabbit!ClosedUnder
  <2>2. \A p \in Publishers : pc[p] = "done" => pc'[p] = "done"
    BY <1>1, <1>5 DEF Rabbit!CallStep, Rabbit!Ready, Rabbit!Connect, Rabbit!ConnectFails,
                Rabbit!OpenChannel, Rabbit!ClosedUnder, Rabbit!TypeOK, Rabbit!Callers
  <2> QED
    BY <1>4, <2>1, <2>2
<1>6. ASSUME NEW p \in Publishers, Rabbit!Send(p) PROVE RabbitInv'
  <2>1. msg[p] = "unsent" /\ Held(p) = {}
    BY <1>6 DEF Rabbit!Send, Rabbit!Declared, RabbitInv, SentOnce
  <2>2. /\ UNCHANGED <<handling, abandoned, handled, closing, closes>>
        /\ \A q \in Publishers :
             IF q = p THEN msg'[q] = "ready" /\ pc'[q] = "done"
                      ELSE msg'[q] = msg[q] /\ pc'[q] = pc[q]
    BY <1>1, <1>6 DEF Rabbit!Send, Rabbit!TypeOK, Rabbit!Callers
  <2> QED
    BY <1>1, <2>1, <2>2 DEF RabbitInv, Rabbit!AckedWasHandled, SentOnce, RunsArePaid,
       ThrownIsOver, Held, Awaited, Closings
<1>7. ASSUME NEW s \in Subscribers, Rabbit!Consume(s) \/ Rabbit!Unsubscribe(s)
      PROVE  RabbitInv'
  <2>1. UNCHANGED <<msg, handling, abandoned, handled, closing, closes>>
    BY <1>7 DEF Rabbit!Consume, Rabbit!Unsubscribe
  <2>2. \A p \in Publishers : pc[p] = "done" => pc'[p] = "done"
    BY <1>1, <1>7 DEF Rabbit!Consume, Rabbit!Unsubscribe, Rabbit!TypeOK, Rabbit!Callers
  <2> QED
    BY <1>4, <2>1, <2>2
<1>8. ASSUME NEW s \in Subscribers, NEW m \in Publishers, Rabbit!Deliver(s, m)
      PROVE  RabbitInv'
  <2>1. /\ Held(m)' = Held(m) \cup {s} /\ s \notin Held(m)
        /\ \A n \in Publishers : n # m => Held(n)' = Held(n)
    BY <1>8 DEF Rabbit!Deliver, Held
  <2>2. Cardinality(Held(m)') = Cardinality(Held(m)) + 1
    <3>1. IsFiniteSet(Held(m))
      BY <1>3
    <3>2. Cardinality(Held(m) \cup {s}) = Cardinality(Held(m)) + 1
      BY <2>1, <3>1, FS_AddElement
    <3> QED
      BY <2>1, <3>2
  <2>3. /\ UNCHANGED <<handled, pc>> /\ Closings' = Closings
        /\ \A n \in Publishers :
             IF n = m THEN msg[n] = "ready" /\ msg'[n] = "unacked" ELSE msg'[n] = msg[n]
    BY <1>1, <1>8 DEF Rabbit!Deliver, Rabbit!TypeOK, Closings
  <2>4. RunsArePaid'
    <3> SUFFICES ASSUME NEW n \in Publishers
                 PROVE  handled'[n] + Cardinality(Held(n)') + Awaited(n)' <= 1 + Closings'
      BY DEF RunsArePaid
    <3>1. handled[n] + Cardinality(Held(n)) + Awaited(n) <= 1 + Closings
      BY DEF RabbitInv, RunsArePaid
    <3>2. CASE n = m
      <4>1. Awaited(n) = 1 /\ Awaited(n)' = 0
        BY <2>3, <3>2 DEF Awaited
      <4> QED
        BY <1>2, <1>3, <2>2, <2>3, <3>1, <3>2, <4>1
    <3>3. CASE n # m
      BY <2>1, <2>3, <3>1, <3>3 DEF Awaited
    <3> QED
      BY <3>2, <3>3
  <2>5. ThrownIsOver'
    BY <1>8 DEF Rabbit!Deliver, RabbitInv, ThrownIsOver
  <2> QED
    BY <1>1, <2>1, <2>3, <2>4, <2>5 DEF RabbitInv, Rabbit!AckedWasHandled, SentOnce
<1>9. ASSUME NEW s \in Subscribers, NEW m \in Publishers,
             Rabbit!HandlerResolves(s, m) \/ Rabbit!HandlerRejects(s, m)
      PROVE  RabbitInv'
  <2> USE DEF Rabbit!HandlerResolves, Rabbit!HandlerRejects
  <2>1. /\ Held(m)' = Held(m) \ {s} /\ s \in Held(m)
        /\ \A n \in Publishers : n # m => Held(n)' = Held(n)
    BY <1>9 DEF Held, RabbitInv, ThrownIsOver
  <2>2. Cardinality(Held(m)') = Cardinality(Held(m)) - 1
    BY <1>3, <2>1, FS_RemoveElement
  <2>3. /\ UNCHANGED pc /\ Closings' = Closings
        /\ \A n \in Publishers :
             IF n = m
             THEN \/ handled'[n] = handled[n] + 1 /\ msg'[n] \in {msg[n], "acked"}
                  \/ handled'[n] = handled[n] /\ msg'[n] \in {msg[n], "discarded"}
             ELSE handled'[n] = handled[n] /\ msg'[n] = msg[n]
    BY <1>1, <1>9 DEF Rabbit!Settle, Closings, Rabbit!TypeOK
  <2>4. msg[m] # "unsent"
    BY <2>1 DEF RabbitInv, SentOnce
  <2>5. RunsArePaid'
    <3> SUFFICES ASSUME NEW n \in Publishers
                 PROVE  handled'[n] + Cardinality(Held(n)') + Awaited(n)' <= 1 + Closings'
      BY DEF RunsArePaid
    <3>1. handled[n] + Cardinality(Held(n)) + Awaited(n) <= 1 + Closings
      BY DEF RabbitInv, RunsArePaid
    <3>2. Awaited(n)' <= Awaited(n)
      BY <2>3 DEF Awaited
    <3>3. CASE n = m
      BY <1>2, <1>3, <2>2, <2>3, <3>1, <3>2, <3>3
    <3>4. CASE n # m
      BY <1>2, <1>3, <2>1, <2>3, <3>1, <3>2, <3>4
    <3> QED
      BY <3>3, <3>4
  <2>6. Rabbit!AckedWasHandled'
    BY <1>3, <2>3 DEF Rabbit!AckedWasHandled, RabbitInv
  <2>7. SentOnce'
    BY <2>1, <2>3, <2>4 DEF SentOnce, RabbitInv
  <2>8. ThrownIsOver'
    BY <1>9 DEF RabbitInv, ThrownIsOver
  <2> QED
    BY <1>1, <2>5, <2>6, <2>7, <2>8 DEF RabbitInv
<1>10. ASSUME NEW s \in Subscribers, NEW m \in Publishers, Rabbit!HandlerThrows(s, m)
       PROVE  RabbitInv'
  <2>1. /\ UNCHANGED <<pc, msg, handled, closing, closes>>
        /\ handling' = handling \ {<<s, m>>}
        /\ abandoned' \subseteq abandoned \cup {<<s, m>>} /\ <<s, m>> \in handling
    BY <1>10 DEF Rabbit!HandlerThrows
  <2>2. \A n \in Publishers : Held(n)' \subseteq Held(n)
    BY <2>1 DEF Held
  <2>3. \A n \in Publishers : Cardinality(Held(n)') <= Cardinality(Held(n))
    BY <1>3, <2>2, FS_Subset
  <2>4. \A n \in Publishers : Awaited(n)' = Awaited(n)
    BY <2>1 DEF Awaited
  <2>5. RunsArePaid'
    <3> SUFFICES ASSUME NEW n \in Publishers
                 PROVE  handled'[n] + Cardinality(Held(n)') + Awaited(n)' <= 1 + Closings'
      BY DEF RunsArePaid
    <3>1. handled[n] + Cardinality(Held(n)) + Awaited(n) <= 1 + Closings
      BY DEF RabbitInv, RunsArePaid
    <3>2. Closings' = Closings
      BY <2>1 DEF Closings
    <3> QED
      BY <1>2, <1>3, <2>1, <2>3, <2>4, <3>1, <3>2
  <2>6. ThrownIsOver'
    BY <2>1 DEF RabbitInv, ThrownIsOver
  <2>7. SentOnce'
    BY <2>1, <2>2 DEF RabbitInv, SentOnce
  <2> QED
    BY <1>1, <2>1, <2>5, <2>6, <2>7 DEF RabbitInv, Rabbit!AckedWasHandled
<1>11. ASSUME Rabbit!Close \/ Rabbit!ForgetFields PROVE RabbitInv'
  <2>1. UNCHANGED <<pc, msg, handling, abandoned, handled>>
    BY <1>11 DEF Rabbit!Close, Rabbit!ForgetFields
  <2>2. Closings' = Closings
    BY <1>2, <1>11 DEF Rabbit!Close, Rabbit!ForgetFields, Closings
  <2> QED
    BY <1>1, <2>1, <2>2 DEF RabbitInv, Rabbit!AckedWasHandled, SentOnce, RunsArePaid,
       ThrownIsOver, Held, Awaited
<1>12. ASSUME Rabbit!CloseChannel \/ Rabbit!CloseConnection PROVE RabbitInv'
  <2>1. UNCHANGED <<pc, handling, handled, closes>> /\ abandoned' \subseteq abandoned
    BY <1>12 DEF Rabbit!CloseChannel, Rabbit!CloseConnection, Rabbit!Drop
  <2>2. Closings' = Closings + 1
    BY <1>2, <1>12 DEF Rabbit!CloseChannel, Rabbit!CloseConnection, Closings
  <2>3. \A m \in Publishers :
          msg'[m] = msg[m] \/ (msg[m] = "unacked" /\ msg'[m] = "ready")
    BY <1>12 DEF Rabbit!CloseChannel, Rabbit!CloseConnection, Rabbit!Drop
  <2>4. \A m \in Publishers : Held(m)' \subseteq Held(m)
    BY <2>1 DEF Held
  <2>5. \A m \in Publishers : Cardinality(Held(m)') <= Cardinality(Held(m))
    BY <1>3, <2>4, FS_Subset
  <2>6. RunsArePaid'
    <3> SUFFICES ASSUME NEW m \in Publishers
                 PROVE  handled'[m] + Cardinality(Held(m)') + Awaited(m)' <= 1 + Closings'
      BY DEF RunsArePaid
    <3>1. handled[m] + Cardinality(Held(m)) + Awaited(m) <= 1 + Closings
      BY DEF RabbitInv, RunsArePaid
    <3>2. Awaited(m)' <= Awaited(m) + 1
      BY <1>3
    <3> QED
      BY <1>2, <1>3, <2>1, <2>2, <2>5, <3>1, <3>2
  <2>7. ThrownIsOver'
    BY <2>1 DEF RabbitInv, ThrownIsOver
  <2>8. SentOnce'
    BY <2>1, <2>3, <2>4 DEF RabbitInv, SentOnce
  <2>9. Rabbit!AckedWasHandled'
    BY <2>1, <2>3 DEF RabbitInv, Rabbit!AckedWasHandled
  <2> QED
    BY <1>1, <2>6, <2>7, <2>8, <2>9 DEF RabbitInv
<1>13. ASSUME NEW s \in Subscribers, NEW m \in Publishers, Rabbit!Dies(s, m)
       PROVE  RabbitInv'
  <2>1. /\ handling' = {} /\ abandoned' \subseteq abandoned
        /\ closing' = "no" /\ closes' = closes
        /\ \A p \in Publishers : pc[p] = "done" => pc'[p] = "done"
        /\ <<s, m>> \in handling /\ using[s] \notin chans
    BY <1>1, <1>13 DEF Rabbit!Dies, Rabbit!Drop, Rabbit!TypeOK, Rabbit!Callers
  <2>2. \A n \in Publishers :
          \/ msg'[n] = msg[n]
          \/ /\ msg[n] = "unacked" /\ msg'[n] = "ready"
             /\ \E t \in Held(n) : using[t] \in chans
    BY <1>13 DEF Rabbit!Dies, Rabbit!Drop, Held
  <2>3. \A n \in Publishers :
          handled'[n] = handled[n] \/ (n = m /\ handled'[n] = handled[n] + 1)
    BY <1>1, <1>13 DEF Rabbit!Dies, Rabbit!TypeOK
  <2>4. \A n \in Publishers : Held(n)' \subseteq {t \in Held(n) : <<t, n>> \in abandoned'}
    BY <2>1 DEF Held
  <2>5. Closings <= Closings' /\ Closings' \in Int
    BY <1>2, <2>1 DEF Closings
  <2>6. \A n \in Publishers : Held(n)' \subseteq Held(n) \ {t \in Held(n) : using[t] \in chans}
    BY <1>13, <2>1 DEF Rabbit!Dies, Rabbit!Drop, Held
  <2>7. s \in Held(m) /\ s \notin Held(m)'
    BY <2>1 DEF Held, RabbitInv, ThrownIsOver
  <2>8. RunsArePaid'
    <3> SUFFICES ASSUME NEW n \in Publishers
                 PROVE  handled'[n] + Cardinality(Held(n)') + Awaited(n)' <= 1 + Closings'
      BY DEF RunsArePaid
    <3>1. handled[n] + Cardinality(Held(n)) + Awaited(n) <= 1 + Closings
      BY DEF RabbitInv, RunsArePaid
    <3> DEFINE H == Held(n)
               J == Held(n)'
               out == H \ J
    <3>2. /\ IsFiniteSet(H) /\ J \subseteq H
          /\ IsFiniteSet(J) /\ IsFiniteSet(out)
          /\ Cardinality(out) = Cardinality(H) - Cardinality(J)
          /\ Cardinality(H) \in Nat /\ Cardinality(J) \in Nat /\ Cardinality(out) \in Nat
      <4>1. IsFiniteSet(H) /\ J \subseteq H
        BY <1>3, <2>6
      <4>2. IsFiniteSet(J) /\ IsFiniteSet(out)
        BY <4>1, FS_Subset
      <4>3. out = H \ J /\ H \cap J = J
        BY <4>1
      <4>4. Cardinality(out) = Cardinality(H) - Cardinality(J)
        BY <4>1, <4>2, <4>3, FS_Difference
      <4> QED
        BY <4>1, <4>2, <4>4, FS_CardinalityType
    <3>3. \A t \in out : Cardinality(out) >= 1
      BY <3>2, FS_EmptySet
    <3>4. ASSUME NEW t \in out, NEW u \in out, t # u PROVE Cardinality(out) >= 2
      <4>1. IsFiniteSet({t, u}) /\ Cardinality({t, u}) = 2
        <5>1. {t, u} = {t} \cup {u} /\ u \notin {t}
          BY <3>4
        <5>2. IsFiniteSet({t}) /\ Cardinality({t}) = 1
          BY FS_Singleton
        <5> QED
          BY <5>1, <5>2, FS_AddElement
      <4>2. {t, u} \subseteq out
        OBVIOUS
      <4> QED
        BY <3>2, <4>1, <4>2, FS_Subset
    <3>5. Awaited(n)' = Awaited(n) \/
          (Awaited(n) = 0 /\ Awaited(n)' = 1 /\ \E t \in out : using[t] \in chans)
      BY <2>2, <2>6 DEF Awaited
    <3>6. handled'[n] = handled[n] \/ (handled'[n] = handled[n] + 1 /\ s \in out)
      BY <2>3, <2>7
    <3>7. handled'[n] + Awaited(n)' <= handled[n] + Awaited(n) + Cardinality(out)
      <4> HIDE DEF out, H, J
      <4>1. /\ handled[n] \in Nat /\ Awaited(n) \in 0..1 /\ Cardinality(out) \in Nat
        BY <1>3, <3>2
      <4>2. CASE handled'[n] = handled[n] /\ Awaited(n)' = Awaited(n)
        BY <4>1, <4>2
      <4>3. CASE handled'[n] = handled[n] /\ Awaited(n)' = Awaited(n) + 1
        <5>1. Cardinality(out) >= 1
          BY <3>3, <3>5, <4>1, <4>3
        <5> QED
          BY <4>1, <4>3, <5>1
      <4>4. CASE handled'[n] = handled[n] + 1 /\ Awaited(n)' = Awaited(n)
        <5>1. Cardinality(out) >= 1
          BY <3>3, <3>6, <4>1, <4>4
        <5> QED
          BY <4>1, <4>4, <5>1
      <4>5. CASE handled'[n] = handled[n] + 1 /\ Awaited(n)' = Awaited(n) + 1
        <5>1. PICK t \in out : using[t] \in chans
          BY <3>5, <4>1, <4>5
        <5>2. s \in out /\ t # s
          BY <2>1, <3>6, <4>1, <4>5, <5>1
        <5>3. Cardinality(out) >= 2
          BY <3>4, <5>1, <5>2
        <5> QED
          BY <4>1, <4>5, <5>3
      <4> QED
        BY <3>5, <3>6, <4>1, <4>2, <4>3, <4>4, <4>5
    <3> QED
      BY <1>2, <1>3, <2>5, <3>1, <3>2, <3>7
  <2>9. ThrownIsOver'
    BY <2>1 DEF ThrownIsOver
  <2>10. SentOnce'
    BY <2>1, <2>2, <2>6 DEF RabbitInv, SentOnce
  <2>11. Rabbit!AckedWasHandled'
    BY <1>3, <2>2, <2>3 DEF RabbitInv, Rabbit!AckedWasHandled
  <2> QED
    BY <1>1, <2>8, <2>9, <2>10, <2>11 DEF RabbitInv
<1>14. CASE UNCHANGED rabbit
  BY <1>4, <1>14 DEF rabbit
<1> QED
  BY <1>5, <1>6, <1>7, <1>8, <1>9, <1>10, <1>11, <1>12, <1>13, <1>14
  DEF Rabbit!Next, Rabbit!HandlerStep, Rabbit!CloseStep, Rabbit!Callers

-----------------------------------------------------------------------------
(* MemoryBroker *)

\* The set object the map holds is the one of every live subscription, and a
\* subscription that was never made has filled no set object.
ObjectsAreShared ==
  /\ \A s \in live : object[s] = current
  /\ current # None => object[current] # None
  /\ \A s \in Subs : object[s] = None => members[s] = {}

\* A publish under way has run, or still has to run, what it owes.
NoneForgotten ==
  \A p \in Pubs : pub[p] = "running" => owed[p] \subseteq reached[p] \cup todo[p]

MemoryInv ==
  /\ Memory!TypeOK
  /\ Memory!LiveIsServed
  /\ ObjectsAreShared
  /\ NoneForgotten
  /\ Memory!ResolvedReachedAll

\* The in-memory broker's initial state satisfies its invariant.
LEMMA MemoryInit == Memory!Init => MemoryInv
  BY DEF Memory!Init, MemoryInv, Memory!TypeOK, Memory!LiveIsServed, ObjectsAreShared,
         NoneForgotten, Memory!ResolvedReachedAll

\* A step of the in-memory broker keeps its invariant.
LEMMA MemoryStep ==
  ASSUME MemoryInv, [Memory!Next]_memory PROVE MemoryInv'
<1> USE BackgroundAssumption DEF Memory!MemoryBrokerAssumption, MemoryInv, Memory!TypeOK
<1>1. ASSUME NEW s \in Subs, Memory!Subscribe(s) PROVE MemoryInv'
  <2> DEFINE set == IF current = None THEN s ELSE current
  <2>1. /\ members' = [members EXCEPT ![set] = @ \cup {s}]
        /\ object' = [object EXCEPT ![s] = set]
        /\ current' = set /\ live' = live \cup {s}
        /\ object[s] = None /\ set \in Subs /\ s \notin live
    BY <1>1 DEF Memory!Subscribe, ObjectsAreShared, Memory!LiveIsServed
  <2>2. UNCHANGED <<todo, pub, owed, reached>>
    BY <1>1 DEF Memory!Subscribe, Memory!pubVars
  <2> HIDE DEF set
  <2>3. Memory!TypeOK'
    BY <2>1, <2>2
  <2>4. Memory!LiveIsServed'
    BY <2>1 DEF Memory!LiveIsServed, ObjectsAreShared, set
  <2>5. ObjectsAreShared'
    BY <2>1 DEF Memory!LiveIsServed, ObjectsAreShared, set
  <2> QED
    BY <2>2, <2>3, <2>4, <2>5 DEF NoneForgotten, Memory!ResolvedReachedAll
<1>2. ASSUME NEW s \in Subs, Memory!Unsubscribe(s) PROVE MemoryInv'
  <2>1. /\ members' = [members EXCEPT ![current] = @ \ {s}] /\ live' = live \ {s}
        /\ current' = IF members'[current] = {} THEN None ELSE current
        /\ object' = object /\ s \in live /\ current \in Subs
    BY <1>2 DEF Memory!Unsubscribe, ObjectsAreShared
  <2>2. UNCHANGED <<todo, pub, owed, reached>>
    BY <1>2 DEF Memory!Unsubscribe, Memory!pubVars
  <2>3. Memory!TypeOK'
    BY <2>1, <2>2
  <2>4. Memory!LiveIsServed'
    BY <2>1 DEF Memory!LiveIsServed
  <2>5. ObjectsAreShared'
    BY <2>1, <2>4 DEF Memory!LiveIsServed, ObjectsAreShared
  <2> QED
    BY <2>2, <2>3, <2>4, <2>5 DEF NoneForgotten, Memory!ResolvedReachedAll
<1>3. ASSUME Memory!Close PROVE MemoryInv'
  BY <1>3 DEF Memory!Close, Memory!pubVars, Memory!LiveIsServed, ObjectsAreShared,
     NoneForgotten, Memory!ResolvedReachedAll
<1>4. ASSUME NEW p \in Pubs, Memory!Publish(p) PROVE MemoryInv'
  BY <1>4 DEF Memory!Publish, Memory!LiveIsServed, ObjectsAreShared,
     NoneForgotten, Memory!ResolvedReachedAll
<1>5. ASSUME NEW p \in Pubs, Memory!Resolve(p) PROVE MemoryInv'
  BY <1>5 DEF Memory!Resolve, Memory!LiveIsServed, ObjectsAreShared,
     NoneForgotten, Memory!ResolvedReachedAll
<1>6. ASSUME NEW p \in Pubs, NEW s \in Subs, Memory!HandlerResolves(p, s)
      PROVE  MemoryInv'
  BY <1>6 DEF Memory!HandlerResolves, Memory!LiveIsServed, ObjectsAreShared,
     NoneForgotten, Memory!ResolvedReachedAll
<1>7. ASSUME NEW p \in Pubs, NEW s \in Subs, Memory!HandlerThrows(p, s)
      PROVE  MemoryInv'
  BY <1>7 DEF Memory!HandlerThrows, Memory!LiveIsServed, ObjectsAreShared,
     NoneForgotten, Memory!ResolvedReachedAll
<1>8. CASE UNCHANGED memory
  BY <1>8 DEF memory, Memory!LiveIsServed, ObjectsAreShared, NoneForgotten,
     Memory!ResolvedReachedAll
<1> QED
  BY <1>1, <1>2, <1>3, <1>4, <1>5, <1>6, <1>7, <1>8 DEF Memory!Next

-----------------------------------------------------------------------------
(* TaskWorker, its calls in turn *)

\* Of calls that wait for each other one is under way at most, and how far it has
\* come says what the field and the broker hold.
WorkerInv ==
  /\ Worker!TypeOK
  /\ \A c, d \in Worker!Pending : c = d
  /\ Worker!FieldTellsTheTruth
  /\ \A c \in Starts \cup Stops :
       /\ callPc[c] = "subscribing" => unsubscribe = None /\ workers = {}
       /\ callPc[c] = "assigning" => unsubscribe = None /\ workers = {c}
       /\ callPc[c] = "cancelling" =>
            c \in Stops /\ unsubscribe # None /\ target[c] = unsubscribe
              /\ workers \subseteq {unsubscribe}
       /\ callPc[c] = "clearing" => workers = {}

\* The worker's initial state satisfies its invariant.
LEMMA WorkerInit == Worker!Init => WorkerInv
  BY DEF Worker!Init, WorkerInv, Worker!TypeOK, Worker!Pending, Worker!FieldTellsTheTruth,
         Worker!FieldIsActive, Worker!Phase, Worker!TaskState, Worker!Calls

\* A step of a worker whose calls wait for each other keeps its invariant.
LEMMA WorkerStep ==
  ASSUME WorkerInv, [Worker!Next]_worker PROVE WorkerInv'
<1> USE BackgroundAssumption DEF Worker!TaskWorkerAssumption, WorkerInv, Worker!TypeOK,
      Worker!Pending, Worker!FieldTellsTheTruth, Worker!FieldIsActive, Worker!StopFailedOn,
      Worker!Phase, Worker!TaskState, Worker!Calls, Worker!Goto, Worker!MayCall
<1>1. ASSUME NEW c \in Starts, Worker!Start(c) PROVE WorkerInv'
  BY <1>1 DEF Worker!Start
<1>2. ASSUME NEW c \in Starts, Worker!Subscribe(c) PROVE WorkerInv'
  BY <1>2 DEF Worker!Subscribe
<1>3. ASSUME NEW c \in Starts, Worker!Assign(c) PROVE WorkerInv'
  BY <1>3 DEF Worker!Assign
<1>4. ASSUME NEW c \in Stops, Worker!Stop(c) PROVE WorkerInv'
  BY <1>4 DEF Worker!Stop
<1>5. ASSUME NEW c \in Stops, Worker!Cancel(c) PROVE WorkerInv'
  BY <1>5 DEF Worker!Cancel
<1>6. ASSUME NEW c \in Stops, Worker!Clear(c) PROVE WorkerInv'
  BY <1>6 DEF Worker!Clear
<1>7. ASSUME NEW t \in Tasks, Worker!Enqueue(t) \/ Worker!Dispatch(t) PROVE WorkerInv'
  BY <1>7 DEF Worker!Enqueue, Worker!Dispatch
<1>8. CASE UNCHANGED worker
  BY <1>8 DEF worker
<1>9. ASSUME NEW c \in Starts, Worker!SubscribeFails(c) PROVE WorkerInv'
  BY <1>9 DEF Worker!SubscribeFails
<1>10. ASSUME NEW c \in Stops, Worker!CancelFails(c) PROVE WorkerInv'
  BY <1>10 DEF Worker!CancelFails
<1> QED
  BY <1>1, <1>2, <1>3, <1>4, <1>5, <1>6, <1>7, <1>8, <1>9, <1>10
  DEF Worker!Next, Worker!StartStep, Worker!StopStep

-----------------------------------------------------------------------------
(* TaskWorker, its calls overlapping *)

\* A consumer is not known to the field, nor to a stop(), before its start() is over;
\* and a consumer the field knows is active unless a stop() is about to clear the field
\* or rejected on that consumer.
HurriedInv ==
  /\ Hurried!TypeOK
  /\ \A c \in Starts :
       callPc[c] # "done" => unsubscribe # c /\ \A d \in Stops : target[d] # c
  /\ \A c \in Starts : callPc[c] = "assigning" => c \in workers
  /\ unsubscribe \notin workers \cup {None} =>
       \E d \in Stops :
         callPc[d] = "clearing" \/ (callPc[d] = "failed" /\ target[d] = unsubscribe)

\* The worker's initial state satisfies this invariant too.
LEMMA HurriedInit == Hurried!Init => HurriedInv
  BY BackgroundAssumption
  DEF Hurried!Init, HurriedInv, Hurried!TypeOK, Hurried!Phase, Hurried!TaskState,
      Hurried!Calls, Hurried!TaskWorkerAssumption

\* A step of a worker whose calls overlap keeps its invariant.
LEMMA HurriedStep ==
  ASSUME HurriedInv, [Hurried!Next]_worker PROVE HurriedInv'
<1> USE BackgroundAssumption DEF Hurried!TaskWorkerAssumption, HurriedInv, Hurried!TypeOK,
      Hurried!Phase, Hurried!TaskState, Hurried!Calls, Hurried!Goto, Hurried!MayCall
<1>1. ASSUME NEW c \in Starts, Hurried!Start(c) PROVE HurriedInv'
  BY <1>1 DEF Hurried!Start
<1>2. ASSUME NEW c \in Starts, Hurried!Subscribe(c) PROVE HurriedInv'
  BY <1>2 DEF Hurried!Subscribe
<1>3. ASSUME NEW c \in Starts, Hurried!Assign(c) PROVE HurriedInv'
  BY <1>3 DEF Hurried!Assign
<1>4. ASSUME NEW c \in Stops, Hurried!Stop(c) PROVE HurriedInv'
  BY <1>4 DEF Hurried!Stop
<1>5. ASSUME NEW c \in Stops, Hurried!Cancel(c) PROVE HurriedInv'
  BY <1>5 DEF Hurried!Cancel
<1>6. ASSUME NEW c \in Stops, Hurried!Clear(c) PROVE HurriedInv'
  BY <1>6 DEF Hurried!Clear
<1>7. ASSUME NEW t \in Tasks, Hurried!Enqueue(t) \/ Hurried!Dispatch(t) PROVE HurriedInv'
  BY <1>7 DEF Hurried!Enqueue, Hurried!Dispatch
<1>8. CASE UNCHANGED worker
  BY <1>8 DEF worker
<1>9. ASSUME NEW c \in Starts, Hurried!SubscribeFails(c) PROVE HurriedInv'
  BY <1>9 DEF Hurried!SubscribeFails
<1>10. ASSUME NEW c \in Stops, Hurried!CancelFails(c) PROVE HurriedInv'
  BY <1>10 DEF Hurried!CancelFails
<1> QED
  BY <1>1, <1>2, <1>3, <1>4, <1>5, <1>6, <1>7, <1>8, <1>9, <1>10
  DEF Hurried!Next, Hurried!StartStep, Hurried!StopStep

\* Once no call is under way, a field that holds a consumer holds an active one.
LEMMA HurriedField == HurriedInv => Hurried!FieldIsActive
  BY DEF HurriedInv, Hurried!FieldIsActive, Hurried!StopFailedOn, Hurried!Pending,
         Hurried!Calls

-----------------------------------------------------------------------------
(* Jobs *)

\* Types, and the two properties of terminal rows, which are inductive with them.
JobsInv == Table!TypeOK /\ Table!TerminalIsDated /\ Table!SucceededIsClean

\* The job table's initial state satisfies its invariant.
LEMMA JobsInit == Table!Init => JobsInv
  BY DEF Table!Init, JobsInv, Table!TypeOK, Table!TerminalIsDated, Table!SucceededIsClean,
         Table!Row, Table!NoRow, Table!JobStatus, Table!TERMINAL

\* A step that rewrites one row, to a row in which a terminal status is dated and
\* success is clean, keeps the invariant as far as the table goes.
LEMMA RowWritten ==
  ASSUME JobsInv, NEW j \in Jobs, NEW r \in Table!Row, row' = [row EXCEPT ![j] = r],
         r.status \in Table!TERMINAL => r.finished,
         r.status = "succeeded" => r.result /\ ~r.error
  PROVE  row' \in [Jobs -> Table!Row] /\ Table!TerminalIsDated' /\ Table!SucceededIsClean'
  BY DEF JobsInv, Table!TypeOK, Table!TerminalIsDated, Table!SucceededIsClean

\* A step of the job table keeps its invariant.
LEMMA JobsStep ==
  ASSUME JobsInv, [Table!Next]_jobs PROVE JobsInv'
<1> USE BackgroundAssumption DEF Table!JobsAssumption
<1>0. \A j \in Jobs : row[j] \in Table!Row
  BY DEF JobsInv, Table!TypeOK
<1>1. ASSUME NEW j \in Jobs, Table!Enqueue(j) PROVE JobsInv'
  <2> DEFINE r == [row[j] EXCEPT !.status = "queued"]
  <2>1. r \in Table!Row /\ r.status = "queued" /\ row' = [row EXCEPT ![j] = r]
    BY <1>0, <1>1 DEF Table!Enqueue, Table!Row, Table!JobStatus
  <2> HIDE DEF r
  <2> QED
    BY <1>1, <2>1, RowWritten DEF Table!Enqueue, JobsInv, Table!TypeOK, Table!TERMINAL
<1>2. ASSUME NEW w \in Workers, NEW j \in Jobs, Table!Start(w, j) PROVE JobsInv'
  <2> DEFINE r == [row[j] EXCEPT !.status = "running", !.started = TRUE,
                                 !.attempts = row[j].attempts + 1]
  <2>1. r \in Table!Row /\ r.status = "running"
    <3>1. row[j] \in Table!Row /\ row[j].attempts + 1 \in Nat
      BY <1>0 DEF Table!Row
    <3> QED
      BY <3>1 DEF Table!Row, Table!JobStatus
  <2>2. row' = [row EXCEPT ![j] = r]
    BY <1>2 DEF Table!Start
  <2> HIDE DEF r
  <2> QED
    BY <1>2, <2>1, <2>2, RowWritten DEF Table!Start, JobsInv, Table!TypeOK, Table!TERMINAL
<1>3. ASSUME NEW w \in Workers, Table!Succeed(w) PROVE JobsInv'
  <2> DEFINE j == holding[w]
             r == [row[j] EXCEPT !.status = "succeeded", !.result = TRUE, !.error = FALSE,
                                 !.finished = TRUE]
  <2>1. j \in Jobs
    BY <1>3 DEF Table!Succeed, JobsInv, Table!TypeOK
  <2>2. r \in Table!Row /\ r.finished /\ r.result /\ ~r.error /\ row' = [row EXCEPT ![j] = r]
    BY <1>0, <1>3, <2>1 DEF Table!Succeed, Table!Row, Table!JobStatus, Table!TERMINAL
  <2> HIDE DEF r
  <2> QED
    BY <1>3, <2>1, <2>2, RowWritten DEF Table!Succeed, JobsInv, Table!TypeOK
<1>4. ASSUME NEW w \in Workers, Table!Fail(w) PROVE JobsInv'
  <2> DEFINE j == holding[w]
             r == [row[j] EXCEPT !.status = "failed", !.error = TRUE, !.finished = TRUE]
  <2>1. j \in Jobs
    BY <1>4 DEF Table!Fail, JobsInv, Table!TypeOK
  <2>2. r \in Table!Row /\ r.finished /\ r.status = "failed" /\ row' = [row EXCEPT ![j] = r]
    BY <1>0, <1>4, <2>1 DEF Table!Fail, Table!Row, Table!JobStatus, Table!TERMINAL
  <2> HIDE DEF r
  <2> QED
    BY <1>4, <2>1, <2>2, RowWritten DEF Table!Fail, JobsInv, Table!TypeOK
<1>5. ASSUME NEW o \in Operators, Table!CancelWrite(o) PROVE JobsInv'
  <2> DEFINE j == cancelling[o]
             r == [row[j] EXCEPT !.status = "cancelled", !.finished = TRUE]
  <2>1. j \in Jobs
    BY <1>5 DEF Table!CancelWrite, JobsInv, Table!TypeOK
  <2>2. r \in Table!Row /\ r.finished /\ r.status = "cancelled"
          /\ row' = [row EXCEPT ![j] = r]
    BY <1>0, <1>5, <2>1 DEF Table!CancelWrite, Table!Row, Table!JobStatus, Table!TERMINAL
  <2> HIDE DEF r
  <2> QED
    BY <1>5, <2>1, <2>2, RowWritten DEF Table!CancelWrite, JobsInv, Table!TypeOK
<1>6. ASSUME NEW o \in Operators, NEW j \in Jobs, Table!CancelRead(o, j) PROVE JobsInv'
  BY <1>6 DEF Table!CancelRead, JobsInv, Table!TypeOK, Table!TerminalIsDated,
     Table!SucceededIsClean
<1>7. ASSUME NEW w \in Workers, Table!WorkerDies(w) PROVE JobsInv'
  BY <1>7 DEF Table!WorkerDies, JobsInv, Table!TypeOK, Table!TerminalIsDated,
     Table!SucceededIsClean
<1>8. CASE UNCHANGED jobs
  BY <1>8 DEF jobs, JobsInv, Table!TypeOK, Table!TerminalIsDated, Table!SucceededIsClean
<1> QED
  BY <1>1, <1>2, <1>3, <1>4, <1>5, <1>6, <1>7, <1>8 DEF Table!Next

-----------------------------------------------------------------------------
(* HttpBreaker *)

\* A request that waits to try again has an attempt left.
SleepersTryAgain == \A r \in Requests : stage[r] = "sleeping" => attempt[r] < MaxRetries

ClientInv ==
  Client!TypeOK /\ Client!OpenIsEarned /\ Client!RetriesAreUsed /\ SleepersTryAgain

\* Timers hold numbers, and every backoff is within the longest timer.
LEMMA WaitsAreBounded ==
  /\ Client!LongestTimer \in Nat
  /\ Timeout \in 0..Client!LongestTimer
  /\ \A n \in 0..MaxRetries : Client!sleepFor(n) \in 0..Client!LongestTimer
<1>1. /\ MaxRetries \in Nat /\ Timeout \in Nat
      /\ \A n \in 0..MaxRetries : Client!sleepFor(n) \in 0..Client!sleepFor(MaxRetries)
  BY BackgroundAssumption DEF Client!HttpBreakerAssumption
<1>2. MaxRetries \in 0..MaxRetries
  BY <1>1
<1> DEFINE longest == Client!sleepFor(MaxRetries)
<1> HIDE DEF longest
<1>3. longest \in 0..longest /\ \A n \in 0..MaxRetries : Client!sleepFor(n) \in 0..longest
  BY <1>1, <1>2 DEF longest
<1>4. longest \in Int
  BY <1>3
<1>5. Client!LongestTimer = IF Timeout > longest THEN Timeout ELSE longest
  BY DEF Client!LongestTimer, longest
<1> QED
  BY <1>1, <1>3, <1>4, <1>5

\* The client's initial state satisfies its invariant.
LEMMA ClientInit == Client!Init => ClientInv
  BY BackgroundAssumption, WaitsAreBounded
  DEF Client!HttpBreakerAssumption, Client!Init, ClientInv, Client!TypeOK,
      Client!OpenIsEarned, Client!RetriesAreUsed, SleepersTryAgain, Client!Stage,
      Client!Settled, Client!GaveUp

\* A step of the client keeps its invariant.
LEMMA ClientStep ==
  ASSUME ClientInv, [Client!Next]_client PROVE ClientInv'
<1> DEFINE L == Client!LongestTimer
<1>0. /\ BreakerThreshold \in Nat \ {0} /\ BreakerCooldown \in Nat \ {0}
      /\ MaxRetries \in Nat /\ Timeout \in 0..L /\ L \in Nat
      /\ \A n \in 0..MaxRetries : Client!sleepFor(n) \in 0..L
  BY BackgroundAssumption, WaitsAreBounded DEF Client!HttpBreakerAssumption
<1> HIDE DEF L
<1> USE <1>0
    DEF ClientInv, Client!OpenIsEarned, Client!RetriesAreUsed, SleepersTryAgain, Client!Stage,
      Client!Settled, Client!GaveUp, Client!breaker, Client!Goto
<1>1. ASSUME Client!Tick PROVE ClientInv'
  BY <1>1 DEF Client!Tick, Client!Less, Client!TypeOK, L
<1>2. ASSUME NEW r \in Requests, Client!Refuse(r) PROVE ClientInv'
  BY <1>2 DEF Client!Refuse, Client!TypeOK, L
<1>3. ASSUME NEW r \in Requests, Client!Begin(r) PROVE ClientInv'
  BY <1>3 DEF Client!Begin, Client!TypeOK, L
<1>4. ASSUME NEW r \in Requests, Client!Succeeds(r) PROVE ClientInv'
  BY <1>4 DEF Client!Succeeds, Client!RecordSuccess, Client!TypeOK, L
<1>5. ASSUME NEW r \in Requests, NEW last \in {"returnedBad", "threw"}, Client!Fails(r, last)
      PROVE  ClientInv'
  BY <1>5 DEF Client!Fails, Client!RecordFailure, Client!TypeOK, L
<1>6. ASSUME NEW r \in Requests, Client!Wakes(r) PROVE ClientInv'
  BY <1>6 DEF Client!Wakes, Client!TypeOK, L
<1>7. CASE UNCHANGED client
  BY <1>7 DEF client, Client!TypeOK
<1> QED
  BY <1>1, <1>2, <1>3, <1>4, <1>5, <1>6, <1>7
  DEF Client!Next, Client!RequestStep, Client!BadStatus, Client!NetworkError,
      Client!TimesOut

-----------------------------------------------------------------------------
(* The whole specification *)

\* The part that a behaviour exercises keeps its invariant.
BackgroundInv ==
  /\ part = "rabbit" => RabbitInv
  /\ part = "memory" => MemoryInv
  /\ part = "worker" => WorkerInv
  /\ part = "hurried" => HurriedInv
  /\ part = "jobs" => JobsInv
  /\ part = "client" => ClientInv

\* The invariants of all parts hold together: each step is one of the part that the
\* behaviour exercises, and leaves that name as it is.
THEOREM BackgroundIsSound == Spec => []BackgroundInv
<1>1. Init => BackgroundInv
  BY RabbitInit, MemoryInit, WorkerInit, HurriedInit, JobsInit, ClientInit
  DEF Init, BackgroundInv, Worker!Init, Hurried!Init, Worker!Calls, Hurried!Calls
<1>2. BackgroundInv /\ [Next]_vars => BackgroundInv'
  <2> SUFFICES ASSUME BackgroundInv, [Next]_vars PROVE BackgroundInv'
    OBVIOUS
  <2>1. UNCHANGED part
    BY DEF Next, RabbitNext, MemoryNext, WorkerNext, HurriedNext, JobsNext, ClientNext, vars
  <2>2. CASE part = "rabbit"
    <3>1. [Rabbit!Next]_rabbit
      BY <2>2 DEF Next, RabbitNext, MemoryNext, WorkerNext, HurriedNext, JobsNext,
         ClientNext, vars
    <3> QED
      BY <2>1, <2>2, <3>1, RabbitStep DEF BackgroundInv
  <2>3. CASE part = "memory"
    <3>1. [Memory!Next]_memory
      BY <2>3 DEF Next, RabbitNext, MemoryNext, WorkerNext, HurriedNext, JobsNext,
         ClientNext, vars
    <3> QED
      BY <2>1, <2>3, <3>1, MemoryStep DEF BackgroundInv
  <2>4. CASE part = "worker"
    <3>1. [Worker!Next]_worker
      BY <2>4 DEF Next, RabbitNext, MemoryNext, WorkerNext, HurriedNext, JobsNext,
         ClientNext, vars
    <3> QED
      BY <2>1, <2>4, <3>1, WorkerStep DEF BackgroundInv
  <2>5. CASE part = "hurried"
    <3>1. [Hurried!Next]_worker
      BY <2>5 DEF Next, RabbitNext, MemoryNext, WorkerNext, HurriedNext, JobsNext,
         ClientNext, vars
    <3> QED
      BY <2>1, <2>5, <3>1, HurriedStep DEF BackgroundInv
  <2>6. CASE part = "jobs"
    <3>1. [Table!Next]_jobs
      BY <2>6 DEF Next, RabbitNext, MemoryNext, WorkerNext, HurriedNext, JobsNext,
         ClientNext, vars
    <3> QED
      BY <2>1, <2>6, <3>1, JobsStep DEF BackgroundInv
  <2>7. CASE part = "client"
    <3>1. [Client!Next]_client
      BY <2>7 DEF Next, RabbitNext, MemoryNext, WorkerNext, HurriedNext, JobsNext,
         ClientNext, vars
    <3> QED
      BY <2>1, <2>7, <3>1, ClientStep DEF BackgroundInv
  <2>8. CASE part \notin {"rabbit", "memory", "worker", "hurried", "jobs", "client"}
    BY <2>1, <2>8 DEF BackgroundInv
  <2> QED
    BY <2>2, <2>3, <2>4, <2>5, <2>6, <2>7, <2>8
<1> QED
  BY <1>1, <1>2, PTL DEF Spec

\* RabbitMQ: an acknowledged message was handled to the end, and is handled again at
\* most once for each channel or connection that a close() closed.
THEOREM AckedMessagesWereHandled == Spec => []AckedWasHandled
<1>1. BackgroundInv => AckedWasHandled
  <2> SUFFICES ASSUME BackgroundInv, part = "rabbit"
               PROVE  Rabbit!TypeOK /\ Rabbit!AckedWasHandled /\ Rabbit!RepeatsNeedAClose
    BY DEF AckedWasHandled
  <2>1. RabbitInv
    BY DEF BackgroundInv
  <2>2. ASSUME NEW m \in Publishers PROVE handled[m] <= 1 + 2 * closes
    <3>1. /\ handled[m] \in Nat /\ closes \in Nat
          /\ handled[m] + Cardinality(Held(m)) + Awaited(m) <= 1 + Closings
      BY <2>1 DEF RabbitInv, Rabbit!TypeOK, RunsArePaid
    <3>2. Cardinality(Held(m)) \in Nat
      BY HeldIsFinite DEF Held
    <3> QED
      BY <3>1, <3>2 DEF Closings, Awaited
  <2> QED
    BY <2>1, <2>2 DEF RabbitInv, Rabbit!RepeatsNeedAClose
<1> QED
  BY <1>1, BackgroundIsSound, PTL

\* In memory: a publish that resolves has run the handler of everyone who was
\* subscribed when it was called.
THEOREM ResolvedPublishReachedAll == Spec => []ResolvedReachedAll
<1>1. BackgroundInv => ResolvedReachedAll
  BY DEF BackgroundInv, MemoryInv, ResolvedReachedAll
<1> QED
  BY <1>1, BackgroundIsSound, PTL

\* Nothing is consumed that the task worker's field does not name, for calls in turn; and
\* for overlapping ones too, a consumer it names is active unless a stop() rejected on it.
THEOREM FieldIsTruthful == Spec => []FieldTellsTheTruth
<1>1. BackgroundInv => FieldTellsTheTruth
  BY HurriedField DEF BackgroundInv, WorkerInv, HurriedInv, FieldTellsTheTruth
<1> QED
  BY <1>1, BackgroundIsSound, PTL

\* No attempt, cancellation or dead worker leaves a terminal row without its date, or
\* a succeeded one with an error.
THEOREM NoHalfWrittenRow == Spec => []TerminalRowsAreWhole
<1>1. BackgroundInv => TerminalRowsAreWhole
  BY DEF BackgroundInv, JobsInv, TerminalRowsAreWhole
<1> QED
  BY <1>1, BackgroundIsSound, PTL

\* The breaker is open only after as many failures in a row as its threshold says, and
\* no request returns a status to be retried, or throws, with an attempt left.
THEOREM BreakerOpensFairly == Spec => []BreakerIsFair
<1>1. BackgroundInv => BreakerIsFair
  BY DEF BackgroundInv, ClientInv, BreakerIsFair
<1> QED
  BY <1>1, BackgroundIsSound, PTL
=============================================================================
