------------------------------- MODULE Tenants -------------------------------
(***************************************************************************)
(* A table that tenants share, worked on through TenantScopedRepository    *)
(* (src/src/db/tenant.ts) and the layers that hand a call down to it,      *)
(* BaseController and BaseService.  The database's operations are those of *)
(* tempest-db-js: each is one statement.                                   *)
(***************************************************************************)
EXTENDS Naturals, FiniteSets, TLAPS

CONSTANTS
  Ids,      \* primary keys
  Tenants,  \* values of the tenant column
  Notes,    \* values of another column
  Absent    \* no row has this id

TenantsAssumption == Absent \notin [tenant : Tenants, note : Notes]

VARIABLES
  rows,  \* id -> its row, or Absent
  last   \* what the last call was given: [by, found], found a set of ids

vars == <<rows, last>>

Fields == {"id", "tenant", "note"}

Cell(i, field) ==
  CASE field = "id" -> i [] field = "tenant" -> rows[i].tenant [] OTHER -> rows[i].note

\* a row matches when every field of the filter has the filter's value
Matching(filters) ==
  {i \in Ids : rows[i] # Absent /\ \A f \in DOMAIN filters : Cell(i, f) = filters[f]}

-----------------------------------------------------------------------------

\* faulty variant: the caller's own predicate on the tenant wins
ScopedIfUnsaid(t, filters) ==
  [f \in DOMAIN filters \cup {"tenant"} |->
     IF f \in DOMAIN filters THEN filters[f] ELSE t]

\* scoped: the tenant's predicate replaces whatever the caller said of it
Scoped(t, filters) ==
  [f \in DOMAIN filters \cup {"tenant"} |-> IF f = "tenant" THEN t ELSE filters[f]]

\* update: "never let a caller move a row to another tenant"
Safe(set) == [f \in DOMAIN set \ {"tenant"} |-> set[f]]

Init == rows \in [Ids -> [tenant : Tenants, note : Notes] \cup {Absent}]
        /\ last = [by |-> Absent, found |-> {}]

\* list, count, exists, paginate: all the rows, or one page of them; first,
\* getById, getByIdOrNull: at most one.  The service maps the rows it is given.
Read(t, filters) ==
  /\ \E page \in SUBSET Matching(Scoped(t, filters)) : last' = [by |-> t, found |-> page]
  /\ UNCHANGED rows

\* create and createMany stamp each row; one id taken fails the statement
Create(t, new) ==
  /\ \A i \in DOMAIN new : rows[i] = Absent
  /\ rows' = [i \in Ids |-> IF i \in DOMAIN new THEN [tenant |-> t, note |-> new[i]]
                            ELSE rows[i]]
  /\ last' = [by |-> t, found |-> DOMAIN new]

Update(t, filters, set) ==
  LET hit == Matching(Scoped(t, filters))
      safe == Safe(set) IN
  /\ "id" \notin DOMAIN set
  /\ rows' = [i \in Ids |->
       IF i \in hit
       THEN [tenant |-> IF "tenant" \in DOMAIN safe THEN safe["tenant"] ELSE rows[i].tenant,
             note |-> IF "note" \in DOMAIN safe THEN safe["note"] ELSE rows[i].note]
       ELSE rows[i]]
  /\ last' = [by |-> t, found |-> hit]

Delete(t, filters) ==
  LET hit == Matching(Scoped(t, filters)) IN
  /\ rows' = [i \in Ids |-> IF i \in hit THEN Absent ELSE rows[i]]
  /\ last' = [by |-> t, found |-> hit]

\* what callers pass: any predicate, and any values of the two columns
Filters ==
  UNION {{f \in [F -> Ids \cup Tenants \cup Notes] :
            /\ "id" \in F => f["id"] \in Ids
            /\ "tenant" \in F => f["tenant"] \in Tenants
            /\ "note" \in F => f["note"] \in Notes} : F \in SUBSET Fields}
Inserts == UNION {[N -> Notes] : N \in SUBSET Ids}

Next ==
  \E t \in Tenants :
    \/ \E filters \in Filters : \/ Read(t, filters) \/ Delete(t, filters)
                                \/ \E set \in Filters : Update(t, filters, set)
    \/ \E new \in Inserts : Create(t, new)

Spec == Init /\ [][Next]_vars

-----------------------------------------------------------------------------

TypeOK ==
  /\ rows \in [Ids -> [tenant : Tenants, note : Notes] \cup {Absent}]
  /\ last.found \subseteq Ids

\* A tenant's rows are its own whoever calls what with which filter: a step that
\* a tenant takes reads, changes, creates or deletes none of another's and moves
\* none of its own to another ("can't leak across tenants", tenant.ts:2).
TenantsKeepApart ==
  [][\A i \in Ids :
       /\ rows'[i] # rows[i] => /\ rows[i] # Absent => rows[i].tenant = last'.by
                                /\ rows'[i] # Absent => rows'[i].tenant = last'.by
       /\ i \in last'.found /\ rows[i] # Absent => rows[i].tenant = last'.by]_vars

-----------------------------------------------------------------------------
(* Proofs, for any rows, tenants, filters and values.  No invariant is     *)
(* needed: each call of the repository keeps to its tenant whatever the    *)
(* table holds, because the scope is the last word on the tenant column.   *)

\* What a scoped filter finds belongs to the tenant it was scoped to, whatever the
\* caller's filter says.
LEMMA ScopeHolds ==
  ASSUME NEW t, NEW filters, NEW i \in Matching(Scoped(t, filters))
  PROVE  i \in Ids /\ rows[i] # Absent /\ rows[i].tenant = t
<1> DEFINE scoped == Scoped(t, filters)
<1>1. "tenant" \in DOMAIN scoped /\ scoped["tenant"] = t
  BY DEF Scoped
<1>2. Cell(i, "tenant") = t
  BY <1>1 DEF Matching
<1> QED
  BY <1>2 DEF Matching, Cell

\* What a caller sets never includes the tenant.
LEMMA SafeSet ==
  ASSUME NEW set
  PROVE  "tenant" \notin DOMAIN Safe(set)
BY DEF Safe

KeptApart ==
  \A i \in Ids :
    /\ rows'[i] # rows[i] => /\ rows[i] # Absent => rows[i].tenant = last'.by
                             /\ rows'[i] # Absent => rows'[i].tenant = last'.by
    /\ i \in last'.found /\ rows[i] # Absent => rows[i].tenant = last'.by

\* Every call keeps apart.
LEMMA CallKeepsApart == Next => KeptApart
<1> SUFFICES ASSUME NEW t \in Tenants,
                    \/ \E filters \in Filters : \/ Read(t, filters) \/ Delete(t, filters)
                                                \/ \E set \in Filters : Update(t, filters, set)
                    \/ \E new \in Inserts : Create(t, new)
             PROVE  KeptApart
  BY DEF Next
<1>1. ASSUME NEW filters \in Filters, Read(t, filters) PROVE KeptApart
  BY <1>1, ScopeHolds DEF Read, KeptApart
<1>2. ASSUME NEW filters \in Filters, Delete(t, filters) PROVE KeptApart
  <2> DEFINE hit == Matching(Scoped(t, filters))
  <2>1. rows' = [i \in Ids |-> IF i \in hit THEN Absent ELSE rows[i]]
        /\ last' = [by |-> t, found |-> hit]
    BY <1>2 DEF Delete
  <2>2. \A i \in hit : rows[i].tenant = t
    BY ScopeHolds
  <2> QED
    BY <2>1, <2>2 DEF KeptApart
<1>3. ASSUME NEW filters \in Filters, NEW set \in Filters, Update(t, filters, set)
      PROVE KeptApart
  <2> DEFINE hit == Matching(Scoped(t, filters))
             Note(i) == IF "note" \in DOMAIN Safe(set) THEN Safe(set)["note"] ELSE rows[i].note
  <2>1. rows' = [i \in Ids |-> IF i \in hit
                               THEN [tenant |-> rows[i].tenant, note |-> Note(i)]
                               ELSE rows[i]]
        /\ last' = [by |-> t, found |-> hit]
    BY <1>3, SafeSet DEF Update
  <2>2. \A i \in hit : rows[i].tenant = t
    BY ScopeHolds
  <2>3. \A i \in hit : i \in Ids => rows'[i].tenant = t
    BY <2>1, <2>2
  <2> QED
    BY <2>1, <2>2, <2>3 DEF KeptApart
<1>4. ASSUME NEW new \in Inserts, Create(t, new) PROVE KeptApart
  <2>1. \A i \in DOMAIN new : rows[i] = Absent
    BY <1>4 DEF Create
  <2>2. rows' = [i \in Ids |-> IF i \in DOMAIN new THEN [tenant |-> t, note |-> new[i]]
                               ELSE rows[i]]
        /\ last' = [by |-> t, found |-> DOMAIN new]
    BY <1>4 DEF Create
  <2> QED
    BY <2>1, <2>2 DEF KeptApart
<1> QED
  BY <1>1, <1>2, <1>3, <1>4

\* Tenants are kept apart by every step of the repository, for any number of tenants
\* and rows and any filters ("can't leak across tenants", db/tenant.ts:2).
THEOREM Isolation == Spec => TenantsKeepApart
<1>1. [Next]_vars => [KeptApart]_vars
  BY CallKeepsApart
<1> QED
  BY <1>1, PTL DEF Spec, TenantsKeepApart, KeptApart
=============================================================================
