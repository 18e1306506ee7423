---------------------------- MODULE OutboxProofs ----------------------------
(***************************************************************************)
(* Proofs about Outbox for any set of events, relays and loops, any        *)
(* maxAttempts, backoff, batch size and number of faults.                  *)
(***************************************************************************)
EXTENDS Outbox, TLAPS

\* Whatever a snapshot or a row claims, publish() was called at least as often.
AttemptsAreReal ==
  /\ \A e \in Events : row[e].attempts <= tries[e]
  /\ \A l \in Loops : \A s \in batch[l] : s.attempts <= tries[s.id]
  /\ \A l \in Loops : \A s \in flight[l] : s.attempts + 1 <= tries[s.id]

\* A loop about to write SENT holds an event the broker took.
MarkFollowsDelivery ==
  \A l \in Loops : pc[l] = "marking_sent" => \A s \in flight[l] : s.id \in delivered

FailedIsExhausted ==
  \A e \in Events : row[e].status = "failed" => row[e].attempts >= MaxAttempts

IInv ==
  /\ TypeOK
  /\ AttemptsAreReal
  /\ MarkFollowsDelivery
  /\ FailedIsExhausted
  /\ SentWasDelivered

\* The retry delay is a duration, however old the pass is (markFailure).
LEMMA RetryDelayType ==
  ASSUME TypeOK, NEW l \in Loops, NEW a \in Nat
  PROVE  RetryDelay(l, a) \in Nat
<1>1. a * Backoff \in Nat
  BY OutboxAssumption
<1>2. age[l] \in Nat
  BY DEF TypeOK
<1> DEFINE w == a * Backoff
<1>3. w \in Nat
  BY <1>1
<1> HIDE DEF w
<1>4. (IF w > age[l] THEN w - age[l] ELSE 0) \in Nat
  BY <1>2, <1>3
<1> QED
  BY <1>4 DEF RetryDelay, w

\* The counts stay in range: a listed row has tries left, so its next attempt is the
\* last one at most (List, markFailure).
LEMMA CountsStep == ASSUME TypeOK, [Next]_vars PROVE CountsInRange'
<1> USE OutboxAssumption
<1>a. ASSUME \A e \in Events : /\ row'[e].attempts = row[e].attempts
                               /\ row'[e].status \in {"absent", "pending"} =>
                                    row[e].status \in {"absent", "pending"},
             \A l \in Loops : batch'[l] \subseteq batch[l],
             \A l \in Loops : flight'[l] \subseteq batch[l] \cup flight[l]
      PROVE CountsInRange'
  BY <1>a, Zenon DEF TypeOK, CountsInRange
<1>1. ASSUME NEW e \in Events, Commit(e) PROVE CountsInRange'
  <2>1. \A x \in Events : /\ row'[x].attempts = row[x].attempts
                          /\ row'[x].status \in {"absent", "pending"} =>
                               row[x].status \in {"absent", "pending"}
    BY <1>1 DEF Commit, TypeOK, Row
  <2> QED
    BY <1>1, <2>1, <1>a DEF Commit, loopVars
<1>2. CASE Tick
  <2>1. \A x \in Events : row'[x].attempts = row[x].attempts
                          /\ row'[x].status = row[x].status
    BY <1>2 DEF Tick, TypeOK, Row
  <2> QED
    BY <1>2, <2>1, <1>a DEF Tick
<1>3. ASSUME NEW l \in Loops, NEW r \in Relays, Run(l, r) PROVE CountsInRange'
  BY <1>3, <1>a DEF Run, tableVars
<1>4. ASSUME NEW r \in Relays, Stop(r) PROVE CountsInRange'
  BY <1>4, <1>a DEF Stop, tableVars, loopVars
<1>5. ASSUME NEW r \in Relays, Crash(r) PROVE CountsInRange'
  <2>1. \A l \in Loops : batch'[l] \subseteq batch[l] /\ flight'[l] \subseteq flight[l]
    BY <1>5 DEF Crash, TypeOK
  <2> QED
    BY <1>5, <2>1, <1>a DEF Crash, Live, tableVars
<1>6. ASSUME NEW l \in Loops, Wake(l) \/ ListFails(l) \/ MarkSentFails(l) PROVE CountsInRange'
  BY <1>6, <1>a DEF Wake, ListFails, MarkSentFails, tableVars
<1>7. ASSUME NEW l \in Loops, List(l) PROVE CountsInRange'
  <2>1. PICK ids \in SUBSET Due :
          batch' = [batch EXCEPT ![l] = {SnapshotOf(e) : e \in ids}]
    BY <1>7 DEF List, FirstRows
  <2>2. \A s \in batch'[l] : s.attempts < MaxAttempts
    BY <2>1 DEF SnapshotOf, Due, TypeOK, CountsInRange
  <2>3. \A k \in Loops : k # l => batch'[k] = batch[k]
    BY <2>1 DEF TypeOK
  <2>4. row' = row /\ flight' = flight
    BY <1>7 DEF List, tableVars
  <2> QED
    BY <2>2, <2>3, <2>4, Zenon DEF TypeOK, CountsInRange
<1>8. ASSUME NEW l \in Loops, PublishSome(l) PROVE CountsInRange'
  <2>1. PICK s \in batch[l], accepted \in BOOLEAN, resolved \in BOOLEAN :
          Publish(l, s, accepted, resolved)
    BY <1>8 DEF PublishSome
  <2>2. \A k \in Loops : batch'[k] \subseteq batch[k]
                         /\ flight'[k] \subseteq batch[k] \cup flight[k]
    BY <2>1 DEF Publish, TypeOK
  <2> QED
    BY <2>1, <2>2, <1>a DEF Publish
<1>9. ASSUME NEW l \in Loops, MarkSent(l) PROVE CountsInRange'
  <2>1. PICK s \in flight[l] : row' = [row EXCEPT ![s.id].status = "sent"]
    BY <1>9 DEF MarkSent
  <2>2. s.id \in Events
    BY DEF TypeOK, Snapshot
  <2>3. \A e \in Events : /\ row'[e].attempts = row[e].attempts
                          /\ row'[e].status \in {"absent", "pending"} =>
                               row[e].status \in {"absent", "pending"}
    BY <2>1, <2>2 DEF TypeOK, Row
  <2>4. \A k \in Loops : batch'[k] = batch[k] /\ flight'[k] \subseteq flight[k]
    BY <1>9 DEF MarkSent, TypeOK
  <2> QED
    BY <2>3, <2>4, <1>a
<1>10. ASSUME NEW l \in Loops, MarkFailed(l) PROVE CountsInRange'
  <2>1. PICK s \in flight[l] :
          row' = [row EXCEPT ![s.id] =
            [status |-> IF Exhausted(s.attempts + 1) THEN "failed" ELSE "pending",
             attempts |-> s.attempts + 1,
             delay |-> IF Exhausted(s.attempts + 1) THEN 0
                       ELSE RetryDelay(l, s.attempts + 1)]]
    BY <1>10 DEF MarkFailed
  <2>2. s.id \in Events /\ s.attempts \in Nat /\ s.attempts < MaxAttempts
    BY DEF TypeOK, Snapshot, CountsInRange
  <2>3. /\ row'[s.id].attempts = s.attempts + 1
        /\ row'[s.id].status \in {"absent", "pending"} => ~Exhausted(s.attempts + 1)
        /\ \A e \in Events : e # s.id => row'[e] = row[e]
    BY <2>1, <2>2, Zenon DEF TypeOK
  <2>4. /\ s.attempts + 1 <= MaxAttempts
        /\ ~Exhausted(s.attempts + 1) => s.attempts + 1 < MaxAttempts
    BY <2>2 DEF Exhausted
  <2>5. \A k \in Loops : batch'[k] \cup flight'[k] \subseteq batch[k] \cup flight[k]
    BY <1>10 DEF MarkFailed, TypeOK
  <2> QED
    BY <2>3, <2>4, <2>5, Zenon DEF TypeOK, CountsInRange
<1>11. ASSUME NEW l \in Loops, MarkFailedFails(l) \/ EndPass(l) PROVE CountsInRange'
  <2>1. \A k \in Loops : batch'[k] \subseteq batch[k] /\ flight'[k] \subseteq flight[k]
    BY <1>11 DEF MarkFailedFails, EndPass, Leave, TypeOK
  <2> QED
    BY <1>11, <2>1, <1>a DEF MarkFailedFails, EndPass, tableVars
<1>12. CASE UNCHANGED vars
  BY <1>12, <1>a DEF vars
<1> QED
  BY <1>1, <1>2, <1>3, <1>4, <1>5, <1>6, <1>7, <1>8, <1>9, <1>10, <1>11, <1>12
  DEF Next, LoopStep

\* Every step of the relays, the application and the clock keeps the types.
LEMMA TypeStep == TypeOK /\ [Next]_vars => TypeOK'
<1> SUFFICES ASSUME TypeOK, [Next]_vars PROVE TypeOK'
  OBVIOUS
<1>0. CountsInRange'
  BY CountsStep
<1> USE <1>0 DEF flagVars
<1>1. ASSUME NEW e \in Events, Commit(e) PROVE TypeOK'
  BY <1>1 DEF TypeOK, Commit, loopVars, Row, OutboxStatus
<1>2. CASE Tick
  BY <1>2 DEF TypeOK, Tick, Row
<1>3. ASSUME NEW l \in Loops, NEW r \in Relays, Run(l, r) PROVE TypeOK'
  BY <1>3, OutboxAssumption DEF TypeOK, Run, tableVars, Phase
<1>4. ASSUME NEW r \in Relays, Stop(r) PROVE TypeOK'
  BY <1>4 DEF TypeOK, Stop, tableVars, loopVars
<1>5. ASSUME NEW r \in Relays, Crash(r) PROVE TypeOK'
  BY <1>5, OutboxAssumption DEF TypeOK, Crash, Live, Fault, tableVars, Phase
<1>6. ASSUME NEW l \in Loops, Wake(l) PROVE TypeOK'
  BY <1>6 DEF TypeOK, Wake, tableVars, Phase
<1>7. ASSUME NEW l \in Loops, List(l) PROVE TypeOK'
  <2>1. PICK ids \in SUBSET Events :
          batch' = [batch EXCEPT ![l] = {SnapshotOf(e) : e \in ids}]
    BY <1>7 DEF List, FirstRows, Due
  <2>2. {SnapshotOf(e) : e \in ids} \subseteq Snapshot
    BY DEF SnapshotOf, Snapshot, TypeOK, Row
  <2> QED
    BY <1>7, <2>1, <2>2 DEF TypeOK, List, tableVars, Phase, InPass
<1>8. ASSUME NEW l \in Loops, ListFails(l) PROVE TypeOK'
  BY <1>8, OutboxAssumption DEF TypeOK, ListFails, Fault, tableVars, Phase
<1>9. ASSUME NEW l \in Loops, PublishSome(l) PROVE TypeOK'
  <2>1. PICK s \in batch[l], accepted \in BOOLEAN, resolved \in BOOLEAN :
          Publish(l, s, accepted, resolved)
    BY <1>9 DEF PublishSome
  <2>2. s \in Snapshot /\ s.id \in Events
    BY DEF TypeOK, Snapshot
  <2> QED
    BY <2>1, <2>2 DEF TypeOK, Publish, Phase, InPass
<1>10. ASSUME NEW l \in Loops, MarkSent(l) PROVE TypeOK'
  <2>1. PICK s \in flight[l] : row' = [row EXCEPT ![s.id].status = "sent"]
    BY <1>10 DEF MarkSent
  <2>2. s.id \in Events
    BY DEF TypeOK, Snapshot
  <2>3. row' \in [Events -> Row]
    BY <2>1, <2>2 DEF TypeOK, Row, OutboxStatus
  <2> QED
    BY <1>10, <2>3 DEF TypeOK, MarkSent, Phase, InPass
<1>11. ASSUME NEW l \in Loops, MarkSentFails(l) PROVE TypeOK'
  BY <1>11, OutboxAssumption DEF TypeOK, MarkSentFails, Fault, tableVars, Phase, InPass
<1>12. ASSUME NEW l \in Loops, MarkFailed(l) PROVE TypeOK'
  <2>1. PICK s \in flight[l] :
          row' = [row EXCEPT ![s.id] =
            [status |-> IF Exhausted(s.attempts + 1) THEN "failed" ELSE "pending",
             attempts |-> s.attempts + 1,
             delay |-> IF Exhausted(s.attempts + 1) THEN 0
                       ELSE RetryDelay(l, s.attempts + 1)]]
    BY <1>12 DEF MarkFailed
  <2>2. s.id \in Events /\ s.attempts + 1 \in Nat
    BY DEF TypeOK, Snapshot
  <2>3. RetryDelay(l, s.attempts + 1) \in Nat
    BY <2>2, RetryDelayType
  <2>4. row' \in [Events -> Row]
    BY <2>1, <2>2, <2>3 DEF TypeOK, Row, OutboxStatus
  <2> QED
    BY <1>12, <2>4 DEF TypeOK, MarkFailed, Phase, InPass
<1>13. ASSUME NEW l \in Loops, MarkFailedFails(l) PROVE TypeOK'
  BY <1>13, OutboxAssumption
  DEF TypeOK, MarkFailedFails, Leave, Fault, tableVars, Phase
<1>14. ASSUME NEW l \in Loops, EndPass(l) PROVE TypeOK'
  BY <1>14 DEF TypeOK, EndPass, Leave, tableVars, Phase
<1>15. CASE UNCHANGED vars
  BY <1>15 DEF TypeOK, vars
<1> QED
  BY <1>1, <1>2, <1>3, <1>4, <1>5, <1>6, <1>7, <1>8, <1>9, <1>10, <1>11,
     <1>12, <1>13, <1>14, <1>15 DEF Next, LoopStep

\* The state of the outbox is well typed in every reachable state.
THEOREM TypeCorrect == Spec => []TypeOK
<1>1. Init => TypeOK
  BY OutboxAssumption DEF Init, TypeOK, CountsInRange, Row, Phase
<1> QED
  BY <1>1, TypeStep, PTL DEF Spec

-----------------------------------------------------------------------------
\* The inductive invariant is kept by every step: the counts in snapshots lag
\* behind the real number of tries, and SENT is only written after delivery.
LEMMA InvStep == IInv /\ [Next]_vars => IInv'
<1> SUFFICES ASSUME IInv, [Next]_vars PROVE IInv'
  OBVIOUS
<1>0. TypeOK /\ TypeOK'
  BY TypeStep DEF IInv
<1> USE <1>0
<1>a. ASSUME UNCHANGED <<row, tries, delivered>>,
             \A l \in Loops : batch'[l] \subseteq batch[l],
             \A l \in Loops : flight'[l] \subseteq flight[l],
             \A l \in Loops : pc'[l] = "marking_sent" => pc[l] = "marking_sent"
      PROVE IInv'
  BY <1>a DEF IInv, AttemptsAreReal, MarkFollowsDelivery, FailedIsExhausted,
              SentWasDelivered
<1>1. ASSUME NEW e \in Events, Commit(e) PROVE IInv'
  <2>1. \A x \in Events : row'[x].attempts = row[x].attempts
                          /\ (row'[x].status = row[x].status \/ row'[x].status = "pending")
    BY <1>1 DEF Commit, TypeOK, Row
  <2> QED
    BY <1>1, <2>1 DEF Commit, loopVars, IInv, AttemptsAreReal, MarkFollowsDelivery,
       FailedIsExhausted, SentWasDelivered
<1>2. CASE Tick
  <2>1. \A x \in Events : row'[x].attempts = row[x].attempts
                          /\ row'[x].status = row[x].status
    BY <1>2 DEF Tick, TypeOK, Row
  <2> QED
    BY <1>2, <2>1 DEF Tick, IInv, AttemptsAreReal, MarkFollowsDelivery,
       FailedIsExhausted, SentWasDelivered
<1>3. ASSUME NEW l \in Loops, NEW r \in Relays, Run(l, r) PROVE IInv'
  BY <1>3, <1>a DEF Run, tableVars, TypeOK
<1>4. ASSUME NEW r \in Relays, Stop(r) PROVE IInv'
  BY <1>4, <1>a DEF Stop, tableVars, loopVars
<1>5. ASSUME NEW r \in Relays, Crash(r) PROVE IInv'
  BY <1>5, <1>a DEF Crash, Live, tableVars, TypeOK
<1>6. ASSUME NEW l \in Loops, Wake(l) PROVE IInv'
  BY <1>6, <1>a DEF Wake, tableVars, TypeOK
<1>7. ASSUME NEW l \in Loops, List(l) PROVE IInv'
  <2>1. PICK ids \in SUBSET Events :
          batch' = [batch EXCEPT ![l] = {SnapshotOf(e) : e \in ids}]
    BY <1>7 DEF List, FirstRows, Due
  <2>2. \A s \in batch'[l] : s.attempts <= tries[s.id]
    BY <2>1 DEF SnapshotOf, TypeOK, IInv, AttemptsAreReal
  <2>3. \A k \in Loops : k # l => batch'[k] = batch[k]
    BY <2>1 DEF TypeOK
  <2> QED
    BY <1>7, <2>2, <2>3 DEF List, tableVars, TypeOK, IInv, AttemptsAreReal,
       MarkFollowsDelivery, FailedIsExhausted, SentWasDelivered
<1>8. ASSUME NEW l \in Loops, ListFails(l) PROVE IInv'
  BY <1>8, <1>a DEF ListFails, tableVars, TypeOK
<1>9. ASSUME NEW l \in Loops, PublishSome(l) PROVE IInv'
  <2>1. PICK s \in batch[l], accepted \in BOOLEAN, resolved \in BOOLEAN :
          Publish(l, s, accepted, resolved)
    BY <1>9 DEF PublishSome
  <2>2. s.id \in Events /\ s.attempts \in Nat
    BY DEF TypeOK, Snapshot
  <2>3. tries'[s.id] = tries[s.id] + 1 /\ \A e \in Events : tries'[e] >= tries[e]
    BY <2>1, <2>2 DEF Publish, TypeOK
  <2>4. s.attempts + 1 <= tries'[s.id]
    BY <2>2, <2>3 DEF TypeOK, IInv, AttemptsAreReal
  <2>5. AttemptsAreReal'
    <3>1. \A e \in Events : row'[e].attempts <= tries'[e]
      BY <2>1, <2>3 DEF Publish, TypeOK, Row, IInv, AttemptsAreReal
    <3>2. ASSUME NEW k \in Loops, NEW t \in batch'[k] PROVE t.attempts <= tries'[t.id]
      <4>1. t \in batch[k] /\ t \in Snapshot
        BY <2>1 DEF Publish, TypeOK
      <4> QED
        BY <4>1, <2>3 DEF TypeOK, Snapshot, IInv, AttemptsAreReal
    <3>3. ASSUME NEW k \in Loops, NEW t \in flight'[k] PROVE t.attempts + 1 <= tries'[t.id]
      <4>1. t = s \/ (t \in flight[k] /\ t \in Snapshot)
        BY <2>1 DEF Publish, TypeOK
      <4> QED
        BY <4>1, <2>3, <2>4 DEF TypeOK, Snapshot, IInv, AttemptsAreReal
    <3> QED
      BY <3>1, <3>2, <3>3 DEF AttemptsAreReal
  <2>6. MarkFollowsDelivery'
    BY <2>1 DEF Publish, TypeOK, IInv, MarkFollowsDelivery
  <2> QED
    BY <2>1, <2>5, <2>6 DEF Publish, IInv, FailedIsExhausted, SentWasDelivered
<1>10. ASSUME NEW l \in Loops, MarkSent(l) PROVE IInv'
  <2>1. PICK s \in flight[l] : row' = [row EXCEPT ![s.id].status = "sent"]
    BY <1>10 DEF MarkSent
  <2>2. s.id \in Events /\ s.id \in delivered
    BY <1>10 DEF MarkSent, TypeOK, Snapshot, IInv, MarkFollowsDelivery
  <2>3. \A e \in Events :
          /\ row'[e].attempts = row[e].attempts
          /\ row'[e].status = IF e = s.id THEN "sent" ELSE row[e].status
    BY <2>1, <2>2 DEF TypeOK, Row
  <2>4. \A k \in Loops : flight'[k] \subseteq flight[k]
                         /\ (pc'[k] = "marking_sent" => pc[k] = "marking_sent")
    BY <1>10 DEF MarkSent, TypeOK
  <2> QED
    BY <1>10, <2>2, <2>3, <2>4 DEF MarkSent, IInv, AttemptsAreReal,
       MarkFollowsDelivery, FailedIsExhausted, SentWasDelivered
<1>11. ASSUME NEW l \in Loops, MarkSentFails(l) PROVE IInv'
  BY <1>11, <1>a DEF MarkSentFails, tableVars, TypeOK
<1>12. ASSUME NEW l \in Loops, MarkFailed(l) PROVE IInv'
  <2>1. PICK s \in flight[l] :
          row' = [row EXCEPT ![s.id] =
            [status |-> IF Exhausted(s.attempts + 1) THEN "failed" ELSE "pending",
             attempts |-> s.attempts + 1,
             delay |-> IF Exhausted(s.attempts + 1) THEN 0
                       ELSE RetryDelay(l, s.attempts + 1)]]
    BY <1>12 DEF MarkFailed
  <2>2. s.id \in Events /\ s.attempts \in Nat /\ s.attempts + 1 <= tries[s.id]
    BY DEF TypeOK, Snapshot, IInv, AttemptsAreReal
  <2>3. \A e \in Events : e # s.id => row'[e] = row[e]
    BY <2>1 DEF TypeOK
  <2>4. /\ row'[s.id].attempts = s.attempts + 1
        /\ row'[s.id].status = "failed" => s.attempts + 1 >= MaxAttempts
        /\ row'[s.id].status # "sent"
    BY <2>1, <2>2 DEF TypeOK, Exhausted
  <2>5. \A k \in Loops : flight'[k] \subseteq flight[k]
                         /\ (pc'[k] = "marking_sent" => pc[k] = "marking_sent")
    BY <1>12 DEF MarkFailed, TypeOK
  <2> QED
    BY <1>12, <2>2, <2>3, <2>4, <2>5 DEF MarkFailed, IInv, AttemptsAreReal,
       MarkFollowsDelivery, FailedIsExhausted, SentWasDelivered
<1>13. ASSUME NEW l \in Loops, MarkFailedFails(l) PROVE IInv'
  BY <1>13, <1>a DEF MarkFailedFails, Leave, tableVars, TypeOK
<1>14. ASSUME NEW l \in Loops, EndPass(l) PROVE IInv'
  BY <1>14, <1>a DEF EndPass, Leave, tableVars, TypeOK
<1>15. CASE UNCHANGED vars
  BY <1>15, <1>a DEF vars
<1> QED
  BY <1>1, <1>2, <1>3, <1>4, <1>5, <1>6, <1>7, <1>8, <1>9, <1>10, <1>11,
     <1>12, <1>13, <1>14, <1>15 DEF Next, LoopStep

LEMMA InvInit == Init => IInv
<1> SUFFICES ASSUME Init PROVE IInv
  OBVIOUS
<1>1. TypeOK
  BY OutboxAssumption DEF Init, TypeOK, CountsInRange, Row, Phase
<1> QED
  BY <1>1 DEF Init, IInv, AttemptsAreReal, MarkFollowsDelivery, FailedIsExhausted,
     SentWasDelivered

\* A SENT row was delivered, for any number of relays, loops and faults.
THEOREM SentDelivered == Spec => []SentWasDelivered
<1>1. IInv => SentWasDelivered
  BY DEF IInv
<1> QED
  BY <1>1, InvInit, InvStep, PTL DEF Spec

\* No row is given up before maxAttempts calls of publish(), although
\* `attempts` is copied from stale snapshots and overwritten by other loops.
THEOREM NoEarlyGivingUp == Spec => []NeverGivesUpEarly
<1>1. IInv => NeverGivesUpEarly
  BY OutboxAssumption
  DEF IInv, TypeOK, Row, AttemptsAreReal, FailedIsExhausted, NeverGivesUpEarly
<1> QED
  BY <1>1, InvInit, InvStep, PTL DEF Spec

-----------------------------------------------------------------------------
(* A table that one loop drains *)

OneLoop == \A l, m \in Loops : l = m

InFlight(e) == \E l \in Loops : \E s \in flight[l] : s.id = e

\* The loop handles one row at a time, and only while it marks it.
OneAtATime ==
  \A l \in Loops :
    /\ pc[l] \notin {"marking_sent", "marking_failed"} => flight[l] = {}
    /\ \A s, t \in flight[l] : s = t
    /\ \A s \in flight[l], b \in batch[l] : s.id # b.id

\* With nobody else to change the rows, what a pass has listed is still so.
SnapshotsAreFresh ==
  \A l \in Loops : \A s \in batch[l] \cup flight[l] :
    row[s.id].status = "pending" /\ row[s.id].attempts = s.attempts

\* A try is written down in `attempts`, or is the one in flight, or cost a fault.
TriesAccounted ==
  \A e \in Events :
    /\ row[e].status = "absent" => tries[e] = 0 /\ row[e].attempts = 0
    /\ row[e].status = "pending" =>
         /\ row[e].attempts < MaxAttempts
         /\ tries[e] <= row[e].attempts + faults + 1
         /\ ~InFlight(e) => tries[e] <= row[e].attempts + faults
    /\ row[e].status \in Settled => tries[e] <= MaxAttempts + faults

TInv == TypeOK /\ OneAtATime /\ SnapshotsAreFresh /\ TriesAccounted

\* Every step of a lone loop, the application and the clock keeps the account of tries.
LEMMA AccountStep == ASSUME OneLoop PROVE TInv /\ [Next]_vars => TInv'
<1> SUFFICES ASSUME TInv, [Next]_vars PROVE TInv'
  OBVIOUS
<1>0. TypeOK /\ TypeOK'
  BY TypeStep DEF TInv
<1> USE <1>0, OutboxAssumption
<1>a. ASSUME UNCHANGED <<row, tries>>, faults' = faults, flight' = flight,
             \A l \in Loops : batch'[l] \subseteq batch[l],
             \A l \in Loops : pc[l] \in {"marking_sent", "marking_failed"}
                              => pc'[l] \in {"marking_sent", "marking_failed"}
      PROVE TInv'
  <2>1. OneAtATime' /\ SnapshotsAreFresh'
    BY <1>a DEF TInv, OneAtATime, SnapshotsAreFresh
  <2>2. TriesAccounted'
    BY <1>a DEF TInv, TriesAccounted, InFlight
  <2> QED
    BY <2>1, <2>2 DEF TInv
<1>b. ASSUME UNCHANGED <<row, tries>>, faults' = faults + 1,
             \A l \in Loops : batch'[l] \subseteq batch[l],
             \A l \in Loops : flight'[l] = flight[l] \/ flight'[l] = {},
             \A l \in Loops : /\ pc[l] \in {"marking_sent", "marking_failed"}
                              /\ flight'[l] # {}
                              => pc'[l] \in {"marking_sent", "marking_failed"}
      PROVE TInv'
  <2>1. OneAtATime' /\ SnapshotsAreFresh'
    BY <1>b DEF TInv, OneAtATime, SnapshotsAreFresh
  <2>2. ASSUME NEW e \in Events
        PROVE /\ row[e].attempts \in Nat /\ tries[e] \in Nat
              /\ faults \in Nat
    BY DEF TypeOK, Row
  <2>3. TriesAccounted'
    BY <1>b, <2>2 DEF TInv, TriesAccounted
  <2> QED
    BY <2>1, <2>3 DEF TInv
<1>1. ASSUME NEW e \in Events, Commit(e) PROVE TInv'
  <2>1. /\ \A x \in Events : row'[x].attempts = row[x].attempts
        /\ \A x \in Events : x # e => row'[x].status = row[x].status
        /\ row'[e].status = "pending" /\ row[e].status = "absent"
    BY <1>1 DEF Commit, TypeOK, Row
  <2>2. OneAtATime' /\ SnapshotsAreFresh'
    BY <1>1, <2>1 DEF Commit, loopVars, TInv, OneAtATime, SnapshotsAreFresh,
       TypeOK, Snapshot
  <2>3. TriesAccounted'
    BY <1>1, <2>1 DEF Commit, loopVars, TInv, TriesAccounted, InFlight, TypeOK, Row, Settled
  <2> QED
    BY <2>2, <2>3 DEF TInv
<1>2. CASE Tick
  <2>1. \A x \in Events : row'[x].attempts = row[x].attempts
                          /\ row'[x].status = row[x].status
    BY <1>2 DEF Tick, TypeOK, Row
  <2>2. OneAtATime' /\ SnapshotsAreFresh'
    BY <1>2, <2>1 DEF Tick, TInv, OneAtATime, SnapshotsAreFresh, TypeOK, Snapshot
  <2>3. TriesAccounted'
    BY <1>2, <2>1 DEF Tick, TInv, TriesAccounted, InFlight
  <2> QED
    BY <2>2, <2>3 DEF TInv
<1>3. ASSUME NEW l \in Loops, NEW r \in Relays, Run(l, r) PROVE TInv'
  BY <1>3, <1>a DEF Run, tableVars, TypeOK
<1>4. ASSUME NEW r \in Relays, Stop(r) PROVE TInv'
  BY <1>4, <1>a DEF Stop, tableVars, loopVars
<1>5. ASSUME NEW r \in Relays, Crash(r) PROVE TInv'
  BY <1>5, <1>b DEF Crash, Live, Fault, tableVars, TypeOK
<1>6. ASSUME NEW l \in Loops, Wake(l) PROVE TInv'
  BY <1>6, <1>a DEF Wake, tableVars, TypeOK
<1>7. ASSUME NEW l \in Loops, List(l) PROVE TInv'
  <2>1. PICK ids \in SUBSET Due :
          batch' = [batch EXCEPT ![l] = {SnapshotOf(e) : e \in ids}]
    BY <1>7 DEF List, FirstRows
  <2>2. flight[l] = {} /\ flight' = flight
    BY <1>7 DEF List, TInv, OneAtATime
  <2>3. \A s \in batch'[l] : row[s.id].status = "pending" /\ row[s.id].attempts = s.attempts
    BY <2>1 DEF SnapshotOf, Due, TypeOK
  <2>4. \A k \in Loops : k # l => batch'[k] = batch[k]
    BY <2>1 DEF TypeOK
  <2>5. OneAtATime' /\ SnapshotsAreFresh'
    BY <1>7, <2>2, <2>3, <2>4 DEF List, tableVars, TInv, OneAtATime, SnapshotsAreFresh, TypeOK
  <2>6. TriesAccounted'
    BY <1>7 DEF List, tableVars, TInv, TriesAccounted, InFlight
  <2> QED
    BY <2>5, <2>6 DEF TInv
<1>8. ASSUME NEW l \in Loops, ListFails(l) PROVE TInv'
  BY <1>8, <1>b DEF ListFails, Fault, tableVars, TypeOK
<1>9. ASSUME NEW l \in Loops, PublishSome(l) PROVE TInv'
  <2>1. PICK s \in batch[l], accepted \in BOOLEAN, resolved \in BOOLEAN :
          Publish(l, s, accepted, resolved)
    BY <1>9 DEF PublishSome
  <2>2. s \in Snapshot /\ s.id \in Events /\ row[s.id].status = "pending"
    BY DEF TypeOK, Snapshot, TInv, SnapshotsAreFresh
  <2>3. /\ flight[l] = {} /\ flight'[l] = {s}
        /\ batch'[l] = batch[l] \ {s}
        /\ row' = row /\ faults' = faults
        /\ pc'[l] \in {"marking_sent", "marking_failed"}
    BY <2>1 DEF Publish, TInv, OneAtATime, TypeOK
  <2>4. \A b \in batch[l] : b.id = s.id => b = s
    BY DEF TInv, SnapshotsAreFresh, TypeOK, Snapshot
  <2>5. \A k \in Loops : k = l
    BY DEF OneLoop
  <2>6. OneAtATime'
    BY <2>3, <2>4, <2>5 DEF OneAtATime
  <2>7. SnapshotsAreFresh'
    BY <2>3, <2>5 DEF TInv, SnapshotsAreFresh
  <2>8. /\ tries'[s.id] = tries[s.id] + 1
        /\ \A e \in Events : e # s.id => tries'[e] = tries[e]
    BY <2>1, <2>2 DEF Publish, TypeOK
  <2>9. ~InFlight(s.id) /\ InFlight(s.id)'
    BY <2>3, <2>5 DEF InFlight
  <2>10. \A e \in Events : ~InFlight(e)
    BY <2>3, <2>5 DEF InFlight
  <2>11. TriesAccounted'
    BY <2>2, <2>3, <2>8, <2>9, <2>10 DEF TInv, TriesAccounted, TypeOK, Row, Settled
  <2> QED
    BY <2>6, <2>7, <2>11 DEF TInv
<1>10. ASSUME NEW l \in Loops, MarkSent(l) PROVE TInv'
  <2>1. PICK s \in flight[l] : row' = [row EXCEPT ![s.id].status = "sent"]
    BY <1>10 DEF MarkSent
  <2>2. /\ s.id \in Events /\ row[s.id].status = "pending"
        /\ \A t \in flight[l] : t = s
        /\ \A b \in batch[l] : b.id # s.id
    BY DEF TypeOK, Snapshot, TInv, SnapshotsAreFresh, OneAtATime
  <2>3. \A e \in Events :
          /\ row'[e].attempts = row[e].attempts
          /\ row'[e].status = IF e = s.id THEN "sent" ELSE row[e].status
    BY <2>1, <2>2 DEF TypeOK, Row
  <2>4. /\ flight'[l] = {} /\ batch' = batch /\ tries' = tries /\ faults' = faults
        /\ \A k \in Loops : k = l
    BY <1>10 DEF MarkSent, TypeOK, OneLoop
  <2>5. OneAtATime'
    BY <2>4 DEF OneAtATime
  <2>6. SnapshotsAreFresh'
    BY <2>2, <2>3, <2>4 DEF TInv, SnapshotsAreFresh, TypeOK, Snapshot
  <2>7. \A e \in Events : e # s.id => ~InFlight(e)
    BY <2>2, <2>4 DEF InFlight
  <2>8. ASSUME NEW e \in Events PROVE row[e].attempts \in Nat /\ tries[e] \in Nat /\ faults \in Nat
    BY DEF TypeOK, Row
  <2>9. TriesAccounted'
    BY <2>2, <2>3, <2>4, <2>7, <2>8 DEF TInv, TriesAccounted, Settled
  <2> QED
    BY <2>5, <2>6, <2>9 DEF TInv
<1>11. ASSUME NEW l \in Loops, MarkSentFails(l) PROVE TInv'
  BY <1>11, <1>b DEF MarkSentFails, Fault, tableVars, TypeOK
<1>12. ASSUME NEW l \in Loops, MarkFailed(l) PROVE TInv'
  <2>1. PICK s \in flight[l] :
          row' = [row EXCEPT ![s.id] =
            [status |-> IF Exhausted(s.attempts + 1) THEN "failed" ELSE "pending",
             attempts |-> s.attempts + 1,
             delay |-> IF Exhausted(s.attempts + 1) THEN 0
                       ELSE RetryDelay(l, s.attempts + 1)]]
    BY <1>12 DEF MarkFailed
  <2>2. /\ s.id \in Events /\ row[s.id].status = "pending"
        /\ s.attempts \in Nat /\ s.attempts = row[s.id].attempts
        /\ \A t \in flight[l] : t = s
        /\ \A b \in batch[l] : b.id # s.id
    BY DEF TypeOK, Snapshot, TInv, SnapshotsAreFresh, OneAtATime
  <2>3. \A e \in Events : e # s.id => row'[e] = row[e]
    BY <2>1 DEF TypeOK
  <2>4. /\ row'[s.id].attempts = s.attempts + 1
        /\ row'[s.id].status = "failed" \/ (/\ row'[s.id].status = "pending"
                                            /\ s.attempts + 1 < MaxAttempts)
    BY <2>1, <2>2 DEF TypeOK, Exhausted
  <2>5. /\ flight'[l] = {} /\ batch' = batch /\ tries' = tries /\ faults' = faults
        /\ \A k \in Loops : k = l
    BY <1>12 DEF MarkFailed, TypeOK, OneLoop
  <2>6. OneAtATime'
    BY <2>5 DEF OneAtATime
  <2>7. SnapshotsAreFresh'
    BY <2>2, <2>3, <2>5 DEF TInv, SnapshotsAreFresh, TypeOK, Snapshot
  <2>8. \A e \in Events : e # s.id => ~InFlight(e)
    BY <2>2, <2>5 DEF InFlight
  <2>9. ASSUME NEW e \in Events PROVE row[e].attempts \in Nat /\ tries[e] \in Nat /\ faults \in Nat
    BY DEF TypeOK, Row
  <2>10. TriesAccounted'
    BY <2>2, <2>3, <2>4, <2>5, <2>8, <2>9 DEF TInv, TriesAccounted, Settled
  <2> QED
    BY <2>6, <2>7, <2>10 DEF TInv
<1>13. ASSUME NEW l \in Loops, MarkFailedFails(l) PROVE TInv'
  BY <1>13, <1>b DEF MarkFailedFails, Leave, Fault, tableVars, TypeOK
<1>14. ASSUME NEW l \in Loops, EndPass(l) PROVE TInv'
  <2>1. flight' = flight
    BY <1>14 DEF EndPass, Leave, TInv, OneAtATime, TypeOK
  <2> QED
    BY <1>14, <2>1, <1>a DEF EndPass, Leave, tableVars, TypeOK
<1>15. CASE UNCHANGED vars
  BY <1>15, <1>a DEF vars
<1> QED
  BY <1>1, <1>2, <1>3, <1>4, <1>5, <1>6, <1>7, <1>8, <1>9, <1>10, <1>11,
     <1>12, <1>13, <1>14, <1>15 DEF Next, LoopStep

\* The account of tries holds throughout, for a lone loop.
LEMMA Accounted == ASSUME OneLoop PROVE Spec => []TInv
<1>1. Init => TInv
  <2> SUFFICES ASSUME Init PROVE TInv
    OBVIOUS
  <2>1. TypeOK
    BY OutboxAssumption DEF Init, TypeOK, CountsInRange, Row, Phase
  <2> QED
    BY <2>1 DEF Init, TInv, OneAtATime, SnapshotsAreFresh, TriesAccounted, Settled
<1>2. TInv /\ [Next]_vars => TInv'
  BY AccountStep
<1> QED
  BY <1>1, <1>2, PTL DEF Spec

\* A lone loop offers an event to the broker at most maxAttempts times, and once more for
\* each fault that cost it a mark, however long it runs ("Give up (mark failed) after
\* this many attempts", db/outbox.ts).
THEOREM BoundedTries == ASSUME OneLoop PROVE Spec => []TriesAreBounded
<1>1. TInv => TriesAreBounded
  <2> SUFFICES ASSUME TInv, NEW e \in Events PROVE tries[e] <= MaxAttempts + faults
    BY DEF TriesAreBounded
  <2>1. /\ row[e].attempts \in Nat /\ tries[e] \in Nat /\ faults \in Nat
        /\ row[e].status \in {"absent", "pending"} \cup Settled
    BY DEF TInv, TypeOK, Row, OutboxStatus, Settled
  <2> QED
    BY <2>1, OutboxAssumption DEF TInv, TriesAccounted
<1> QED
  BY <1>1, Accounted, PTL

-----------------------------------------------------------------------------
(* The relay implements what OutboxDelivery promises, but for its liveness *)

\* Seen from outside, every step of a lone loop is one of the promise's steps or none:
\* only a pending event is offered, and a settled one is never touched again.
LEMMA DeliveryStep ==
  ASSUME OneLoop, IInv, TInv, TypeOK', [Next]_vars
  PROVE  [Delivery!Next]_Delivery!vars
<1> DEFINE outcome == [e \in Events |-> row[e].status]
<1> USE DEF IInv
<1>a. ASSUME UNCHANGED <<row, delivered>> PROVE [Delivery!Next]_Delivery!vars
  BY <1>a DEF Delivery!vars
<1>1. ASSUME NEW e \in Events, Commit(e) PROVE Delivery!Next
  <2>1. outcome' = [outcome EXCEPT ![e] = "pending"] /\ outcome[e] = "absent"
    <3>1. row \in [Events -> Row]
      BY DEF TypeOK
    <3>2. \A d \in Events : row'[d].status = IF d = e THEN "pending" ELSE row[d].status
      BY <1>1, <3>1 DEF Commit, Row
    <3>3. outcome[e] = "absent"
      BY <1>1 DEF Commit
    <3> QED
      BY <3>2, <3>3
  <2>2. Delivery!Commit(e)
    BY <1>1, <2>1 DEF Commit, Delivery!Commit, Delivery!Become
  <2> QED
    BY <2>2 DEF Delivery!Next
<1>2. CASE Tick
  <2>1. outcome' = outcome
    BY <1>2 DEF Tick, TypeOK, Row
  <2> QED
    BY <1>2, <2>1 DEF Tick, Delivery!vars
<1>3. ASSUME NEW l \in Loops, PublishSome(l) PROVE [Delivery!Next]_Delivery!vars
  <2>1. PICK s \in batch[l], accepted \in BOOLEAN, resolved \in BOOLEAN :
          Publish(l, s, accepted, resolved)
    BY <1>3 DEF PublishSome
  <2>2. s.id \in Events /\ row[s.id].status = "pending"
    BY DEF TypeOK, Snapshot, TInv, SnapshotsAreFresh
  <2>3. CASE accepted
    <3>1. Delivery!Deliver(s.id)
      BY <2>1, <2>2, <2>3 DEF Publish, Delivery!Deliver
    <3> QED
      BY <2>2, <3>1 DEF Delivery!Next
  <2>4. CASE ~accepted
    BY <2>1, <2>4, <1>a DEF Publish
  <2> QED
    BY <2>3, <2>4
<1>4. ASSUME NEW l \in Loops, MarkSent(l) PROVE Delivery!Next
  <2>1. PICK s \in flight[l] : row' = [row EXCEPT ![s.id].status = "sent"]
    BY <1>4 DEF MarkSent
  <2>2. s.id \in Events /\ row[s.id].status = "pending" /\ s.id \in delivered
    BY <1>4 DEF MarkSent, TypeOK, Snapshot, TInv, SnapshotsAreFresh, MarkFollowsDelivery
  <2>3. outcome' = [outcome EXCEPT ![s.id] = "sent"]
    BY <2>1, <2>2 DEF TypeOK, Row
  <2>4. Delivery!Confirm(s.id)
    BY <1>4, <2>2, <2>3 DEF MarkSent, Delivery!Confirm, Delivery!Become
  <2> QED
    BY <2>2, <2>4 DEF Delivery!Next
<1>5. ASSUME NEW l \in Loops, MarkFailed(l) PROVE [Delivery!Next]_Delivery!vars
  <2>1. PICK s \in flight[l] :
          row' = [row EXCEPT ![s.id] =
            [status |-> IF Exhausted(s.attempts + 1) THEN "failed" ELSE "pending",
             attempts |-> s.attempts + 1,
             delay |-> IF Exhausted(s.attempts + 1) THEN 0
                       ELSE RetryDelay(l, s.attempts + 1)]]
    BY <1>5 DEF MarkFailed
  <2>2. s.id \in Events /\ row[s.id].status = "pending"
    BY DEF TypeOK, Snapshot, TInv, SnapshotsAreFresh
  <2>3. CASE Exhausted(s.attempts + 1)
    <3>1. outcome' = [outcome EXCEPT ![s.id] = "failed"]
      BY <2>1, <2>2, <2>3 DEF TypeOK, Row
    <3>2. Delivery!GiveUp(s.id)
      BY <1>5, <2>2, <3>1 DEF MarkFailed, Delivery!GiveUp, Delivery!Become
    <3> QED
      BY <2>2, <3>2 DEF Delivery!Next
  <2>4. CASE ~Exhausted(s.attempts + 1)
    <3>1. outcome' = outcome
      BY <2>1, <2>2, <2>4 DEF TypeOK, Row
    <3> QED
      BY <1>5, <3>1 DEF MarkFailed, Delivery!vars
  <2> QED
    BY <2>3, <2>4
<1>6. ASSUME NEW l \in Loops,
             (\E r \in Relays : Run(l, r)) \/ Wake(l) \/ List(l) \/ ListFails(l) \/ MarkSentFails(l)
             \/ MarkFailedFails(l) \/ EndPass(l)
      PROVE [Delivery!Next]_Delivery!vars
  BY <1>6, <1>a DEF Run, Wake, List, ListFails, MarkSentFails, MarkFailedFails, EndPass,
     tableVars
<1>7. ASSUME NEW r \in Relays, Stop(r) \/ Crash(r) PROVE [Delivery!Next]_Delivery!vars
  BY <1>7, <1>a DEF Stop, Crash, Live, tableVars
<1>8. CASE UNCHANGED vars
  BY <1>8, <1>a DEF vars
<1> QED
  BY <1>1, <1>2, <1>3, <1>4, <1>5, <1>6, <1>7, <1>8 DEF Next, LoopStep

\* The safety half of ImplementsDelivery, for any events, any maxAttempts, backoff and
\* batch size, and any faults of a lone loop (OutboxRelay over db/outbox.ts).
THEOREM DeliveryRefined ==
  ASSUME OneLoop PROVE Spec => Delivery!Init /\ [][Delivery!Next]_Delivery!vars
<1>1. Init => Delivery!Init
  BY DEF Init, Delivery!Init
<1>2. IInv /\ TInv /\ TInv' /\ [Next]_vars => [Delivery!Next]_Delivery!vars
  BY DeliveryStep DEF TInv
<1> QED
  BY <1>1, <1>2, InvInit, InvStep, Accounted, PTL DEF Spec

=============================================================================
