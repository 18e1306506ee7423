------------------------------ MODULE AuditTrail ------------------------------
(***************************************************************************)
(* What changed in a row: snapshot and diffSnapshots of db/audit.ts, used  *)
(* by a service around each change (docs/recipes/database-advanced.en.md), *)
(* and read as the timeline of the row's page (buildAuditView of           *)
(* admin/router.ts).  The changes of one row follow one another, those of  *)
(* different rows overlap.  A row has a scalar, a JSON document and a      *)
(* password hash, which is left out of the snapshots; actor and context    *)
(* of an entry are columns nothing here depends on.                        *)
(***************************************************************************)
EXTENDS Naturals, Sequences, FiniteSets

CONSTANTS
  Rows, Values,
  None,         \* undefined
  HistoryLimit, \* AUDIT_HISTORY_LIMIT
  MaxTime, MaxEntries  \* bounds

AuditTrailAssumption ==
  /\ IsFiniteSet(Rows) /\ None \notin Values
  /\ HistoryLimit \in Nat \ {0} /\ MaxTime \in Nat \ {0} /\ MaxEntries \in Nat

Fields == {"name", "prefs", "hash"}
Audited == Fields \ {"hash"}
Absent == [f \in Fields |-> None]

VARIABLES
  now,      \* milliseconds
  table,    \* row -> its fields as stored, or Absent
  job,      \* row -> [pc, action, before]: the change under way
  entries,  \* the audit log, in the order of writing: [row, at, changes]
  view,     \* [row, stored, settled, history]: the page, and whether nobody was changing
            \* the row when it was built
  mutated   \* history: the rows whose document was changed in place

vars == <<now, table, job, entries, view, mutated>>

Idle == [pc |-> "idle", action |-> "none", before |-> Absent]
NoView == [row |-> None, stored |-> Absent, settled |-> FALSE, history |-> <<>>]

Init ==
  /\ now = 1 /\ table = [r \in Rows |-> Absent] /\ job = [r \in Rows |-> Idle]
  /\ entries = <<>> /\ view = NoView /\ mutated = {}

Own(r) == {i \in DOMAIN entries : entries[i].row = r}

Snapshot(row) == [row EXCEPT !.hash = None]

\* faulty variant: looks at the keys of the earlier snapshot
DiffOfBefore(before, after) ==
  [f \in {f \in Audited : before[f] # None /\ before[f] # after[f]} |-> <<before[f], after[f]>>]

Diff(before, after) ==
  [f \in {f \in Audited : before[f] # after[f]} |-> <<before[f], after[f]>>]

-----------------------------------------------------------------------------
(* A service's change                                                      *)

\* load the row and take its snapshot
Begin(r, action) ==
  /\ job[r].pc = "idle"
  /\ Len(entries) + Cardinality({q \in Rows : job[q].pc # "idle"}) < MaxEntries
  /\ IF action = "create" THEN table[r] = Absent /\ Own(r) = {} ELSE table[r] # Absent
  /\ job' = [job EXCEPT ![r] = [pc |-> "write", action |-> action, before |-> Snapshot(table[r])]]
  /\ view' = NoView
  /\ UNCHANGED <<now, table, entries, mutated>>

Store(r, row) == table' = [table EXCEPT ![r] = row] /\ job' = [job EXCEPT ![r].pc = "record"]

Write(r) ==
  /\ job[r].pc = "write"
  /\ \/ /\ job[r].action = "create"
        /\ \E v, w \in Values : Store(r, [name |-> v, prefs |-> w, hash |-> v])
     \/ job[r].action = "delete" /\ Store(r, Absent)
     \/ /\ job[r].action = "update"
        /\ \E f \in Fields, v \in Values : Store(r, [table[r] EXCEPT ![f] = v])
  /\ view' = NoView
  /\ UNCHANGED <<now, entries, mutated>>

\* the document that was loaded is changed where it is: the snapshot holds the same one
WriteInPlace(r) ==
  /\ job[r].pc = "write" /\ job[r].action = "update"
  /\ \E v \in Values :
       /\ table' = [table EXCEPT ![r].prefs = v]
       /\ job' = [job EXCEPT ![r].pc = "record", ![r].before.prefs = v]
  /\ mutated' = mutated \cup {r}
  /\ view' = NoView
  /\ UNCHANGED <<now, entries>>

\* read again, compare, and add the entry; one with no changes is an entry too
Record(r) ==
  /\ job[r].pc = "record"
  /\ entries' = Append(entries,
       [row |-> r, at |-> now, changes |-> Diff(job[r].before, Snapshot(table[r]))])
  /\ job' = [job EXCEPT ![r] = Idle]
  /\ view' = NoView
  /\ UNCHANGED <<now, table, mutated>>

Tick ==
  /\ now < MaxTime /\ now' = now + 1 /\ view' = NoView
  /\ UNCHANGED <<table, job, entries, mutated>>

-----------------------------------------------------------------------------
(* The page of a row                                                       *)

\* newest first; the database orders what has the same createdAt as it likes
Timelines(r) ==
  {order \in [1 .. Cardinality(Own(r)) -> Own(r)] :
     \A i, j \in DOMAIN order : i < j => /\ order[i] # order[j]
                                         /\ entries[order[i]].at >= entries[order[j]].at}

BuildAuditView(r) ==
  /\ table[r] # Absent
  /\ \E order \in Timelines(r) :
       view' = [row |-> r, stored |-> table[r], settled |-> job[r].pc = "idle",
                history |-> [i \in 1 .. (IF Len(order) < HistoryLimit
                                         THEN Len(order) ELSE HistoryLimit) |->
                               entries[order[i]]]]
  /\ UNCHANGED <<now, table, job, entries, mutated>>

Next ==
  \/ \E r \in Rows :
       \/ \E action \in {"create", "update", "delete"} : Begin(r, action)
       \/ Write(r) \/ WriteInPlace(r) \/ Record(r) \/ BuildAuditView(r)
  \/ Tick

Spec == Init /\ [][Next]_vars

-----------------------------------------------------------------------------

TypeOK ==
  /\ now \in 1 .. MaxTime /\ Len(entries) <= MaxEntries
  /\ table \in [Rows -> [Fields -> Values \cup {None}]]
  /\ \A i \in DOMAIN view.history : "hash" \notin DOMAIN view.history[i].changes

\* The timeline of a row that nobody is changing explains the row: undone one after
\* the other, newest first, the entries shown start at what is stored and each begins
\* where the next older one ended; and a timeline that is not cut accounts for every
\* field.  Not so for a document that was changed in place, nor in what order entries
\* of one millisecond come.
Explains(f, history) ==
  LET telling == {i \in DOMAIN history : f \in DOMAIN history[i].changes}
      next(i, k) == i < k /\ \A j \in telling : j <= i \/ k <= j
  IN /\ \A i \in telling :
          (\A j \in telling : i <= j) => history[i].changes[f][2] = view.stored[f]
     /\ \A i, k \in telling :
          next(i, k) => history[i].changes[f][1] = history[k].changes[f][2]
     /\ Len(history) < HistoryLimit => telling # {}

TimelineExplainsTheRow ==
  view.settled =>
    LET shown == view.history
        tied == \E i, j \in Own(view.row) : i # j /\ entries[i].at = entries[j].at
    IN /\ \A i \in DOMAIN shown : shown[i].row = view.row
       /\ tied \/ \A f \in Audited \ (IF view.row \in mutated THEN {"prefs"} ELSE {}) :
                    Explains(f, shown)
===============================================================================
