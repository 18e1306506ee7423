---------------------------- MODULE AdminInlines ----------------------------
(***************************************************************************)
(* The editable inline of a detail page (admin/router.ts, buildInlines and *)
(* POST .../inlines/:child): one form with a row per child of Page and a   *)
(* blank row, saved row by row, each after a look whether the row still is *)
(* a child of the page, while other operators move and remove children on  *)
(* the children's own pages.                                               *)
(*                                                                         *)
(* A row has one field.  Typing "" leaves it empty, "bad" fails its        *)
(* validation, "ok" is saved unless the database refuses.  In a form body  *)
(* a name that occurs twice arrives as an array.                           *)
(***************************************************************************)
EXTENDS Naturals, FiniteSets, Sequences, SequencesExt

CONSTANTS
  Rows,         \* identities of the children's table
  Page, Other,  \* two parents
  Shown,        \* INLINE_ROW_LIMIT
  Blank,        \* the blank row as buildFormFields fills it: "", or with its columns'
                \* literal defaults "ok" (nothing else is required) or "bad"
  CanDelete,    \* the inline, the child's admin and the policy let rows go
  MaxForeign,   \* bound: moves and removals by other operators
  MaxPosts      \* bound: submissions of the form

\* An identity neither begins with "new", which the code takes for a row to create,
\* nor holds a dot, which would split the names of its inputs.
AdminInlinesAssumption ==
  /\ IsFiniteSet(Rows) /\ "new1" \notin Rows /\ "none" \notin Rows
  /\ Page # Other /\ {Page, Other} \cap {"none", "gone"} = {}
  /\ Shown \in Nat \ {0} /\ CanDelete \in BOOLEAN /\ Blank \in {"", "ok", "bad"}
  /\ MaxForeign \in Nat /\ MaxPosts \in Nat

VARIABLES
  db,           \* Rows -> the row, or None
  form,         \* rows of the form on screen: the key of their names, what is typed
  stage,        \* "away", "page", "post"
  todo,         \* positions of the form whose keys are still to be worked off
  body,         \* what arrived: key -> value
  ticked,       \* keys whose delete box is ticked
  checked,      \* the key that owned() found, or None
  failed,       \* rows to show again
  saved,        \* history: keys whose row was written or removed as asked
  strangers,    \* history: rows that have been no children since the form was sent
  taken,        \* history: rows a colleague moved from the page or removed since it was drawn
  foreign, posts

vars == <<db, form, stage, todo, body, ticked, checked, failed, saved, strangers, taken,
          foreign, posts>>

None == "none"
Row(parent, value, by) == [parent |-> parent, value |-> value, by |-> by]
Absent == Row(None, None, None)   \* an identity not given to a row yet
Gone == Row("gone", "gone", "gone")   \* identities are not used again
ChildrenOf(p) == {r \in Rows : db[r].parent = p}
IsNew(key) == key = "new1"
FormRow(key, value) == [key |-> key, value |-> value]

Init ==
  /\ \E own \in SUBSET Rows, theirs \in SUBSET Rows :
       /\ own \cap theirs = {}
       /\ db = [r \in Rows |-> IF r \in own THEN Row(Page, "ok", None)
                               ELSE IF r \in theirs THEN Row(Other, "ok", None) ELSE Absent]
  /\ form = <<>> /\ stage = "away" /\ todo = {} /\ body = <<>> /\ ticked = {}
  /\ checked = None /\ failed = <<>> /\ saved = {} /\ strangers = {}
  /\ taken = {} /\ foreign = 0 /\ posts = 0

\* GET of the detail page: buildInlines lists the children, as many as it shows
Load ==
  /\ stage = "away"
  /\ \E shown \in SUBSET ChildrenOf(Page) :
       /\ Cardinality(shown) = IF Cardinality(ChildrenOf(Page)) <= Shown
                               THEN Cardinality(ChildrenOf(Page)) ELSE Shown
       /\ form' = Append([i \in 1 .. Cardinality(shown) |->
                            FormRow(SetToSeq(shown)[i], db[SetToSeq(shown)[i]].value)],
                         FormRow("new1", Blank))
  /\ stage' = "page" /\ taken' = {}
  /\ UNCHANGED <<db, todo, body, ticked, checked, failed, saved, strangers, foreign, posts>>

\* groupInlineSubmission: a value that is no string counts as empty
Grouped(key) ==
  LET rows == {i \in DOMAIN form' : form'[i].key = key}
  IN IF Cardinality(rows) = 1 THEN form'[CHOOSE i \in rows : TRUE].value ELSE ""

Submit ==
  /\ stage = "page" /\ posts < MaxPosts
  /\ \E typed \in [DOMAIN form -> {"ok", "bad", ""}],
        ticks \in SUBSET ({form[i].key : i \in DOMAIN form} \ {"new1"}) :
       /\ form' = [i \in DOMAIN form |-> FormRow(form[i].key, typed[i])]
       /\ ticked' = IF CanDelete THEN ticks ELSE {}
  /\ LET keys == {form[i].key : i \in DOMAIN form}
     IN body' = [k \in keys |-> Grouped(k)]
  /\ todo' = DOMAIN form
  /\ stage' = "post" /\ failed' = <<>> /\ saved' = {} /\ checked' = None
  /\ strangers' = Rows \ ChildrenOf(Page) /\ posts' = posts + 1
  /\ UNCHANGED <<db, taken, foreign>>

\* the loop's next entry: the keys in the order they first occur, each once
Working(key) ==
  stage = "post" /\ \E i \in todo : form[i].key = key /\ \A j \in todo : i <= j
Done(key) == todo' = {i \in todo : form[i].key # key} /\ checked' = None

\* what is left of the request is forgotten with the answer
Over ==
  /\ todo' = {} /\ failed' = <<>> /\ body' = <<>> /\ ticked' = {} /\ checked' = None
  /\ saved' = {} /\ strangers' = {}

ToDelete(key) == ~IsNew(key) /\ CanDelete /\ key \in ticked
SkippedBlank(key) == IsNew(key) /\ body[key] = ""
Invalid(key) == body[key] \in {"bad", ""}
\* faulty variant: only the last failure is kept
FailOnlyLast(key) == failed' = <<FormRow(key, body[key])>>
Fail(key) == failed' = Append(failed, FormRow(key, body[key]))

Skip(key) ==
  /\ Working(key) /\ SkippedBlank(key) /\ Done(key)
  /\ UNCHANGED <<db, form, stage, body, ticked, failed, saved, strangers, taken, foreign, posts>>

FailValidation(key) ==
  /\ Working(key) /\ ~ToDelete(key) /\ ~SkippedBlank(key) /\ Invalid(key)
  /\ Fail(key) /\ Done(key)
  /\ UNCHANGED <<db, form, stage, body, ticked, saved, strangers, taken, foreign, posts>>

\* faulty variant: keys are taken from the form unchecked
CheckNothing(key) ==
  /\ Working(key) /\ checked = None /\ ~IsNew(key) /\ (ToDelete(key) \/ ~Invalid(key))
  /\ checked' = key
  /\ UNCHANGED <<db, form, stage, todo, body, ticked, failed, saved, strangers, taken, foreign, posts>>

\* owned(): the row is sought among the children of the page; one that is none any more
\* is passed over, and what was typed into it is dropped
CheckOwned(key) ==
  /\ Working(key) /\ checked = None /\ ~IsNew(key) /\ (ToDelete(key) \/ ~Invalid(key))
  /\ IF db[key].parent = Page
     THEN checked' = key /\ UNCHANGED todo
     ELSE Done(key)
  /\ UNCHANGED <<db, form, stage, body, ticked, failed, saved, strangers, taken, foreign, posts>>

Delete(key) ==
  /\ Working(key) /\ checked = key /\ ToDelete(key)
  /\ db' = [db EXCEPT ![key] = Gone]
  /\ saved' = saved \cup {key} /\ Done(key)
  /\ UNCHANGED <<form, stage, body, ticked, failed, strangers, taken, foreign, posts>>

\* A look or a delete that the database refuses is caught nowhere: the answer is the
\* error page, what was saved stays, what was not worked off or had failed is lost.
RefuseDelete(key) ==
  /\ Working(key) /\ ToDelete(key)
  /\ Over /\ stage' = "away" /\ form' = <<>>
  /\ UNCHANGED <<db, taken, foreign, posts>>

\* A look, an update or an insert that it refuses is a failure of that row.
RefuseWrite(key) ==
  /\ Working(key) /\ ~ToDelete(key) /\ ~SkippedBlank(key) /\ ~Invalid(key)
  /\ Fail(key) /\ Done(key)
  /\ UNCHANGED <<db, form, stage, body, ticked, saved, strangers, taken, foreign, posts>>

\* by identity alone, with the actor's stamp: if the row is gone nothing changes, and
\* what was typed is dropped
Update(key) ==
  /\ Working(key) /\ checked = key /\ ~ToDelete(key)
  /\ IF db[key] = Gone
     THEN UNCHANGED <<db, saved>>
     ELSE /\ db' = [db EXCEPT ![key].value = body[key], ![key].by = "operator"]
          /\ saved' = saved \cup {key}
  /\ Done(key)
  /\ UNCHANGED <<form, stage, body, ticked, failed, strangers, taken, foreign, posts>>

Create(key) ==
  /\ Working(key) /\ IsNew(key) /\ ~SkippedBlank(key) /\ ~Invalid(key)
  /\ \E r \in Rows : db[r] = Absent /\ db' = [db EXCEPT ![r] = Row(Page, body[key], "operator")]
  /\ saved' = saved \cup {key} /\ Done(key)
  /\ UNCHANGED <<form, stage, body, ticked, failed, strangers, taken, foreign, posts>>

\* failures draw the page again: the block shows them and a blank row only
Answer ==
  /\ stage = "post" /\ todo = {}
  /\ IF failed = <<>>
     THEN stage' = "away" /\ form' = <<>>
     ELSE stage' = "page" /\ form' = Append(failed, FormRow("new1", Blank))
  /\ Over
  /\ UNCHANGED <<db, taken, foreign, posts>>

\* other operators, on the child's own edit and delete pages
Move(r, parent) ==
  /\ foreign < MaxForeign /\ db[r].parent \in {Page, Other} \ {parent}
  /\ db' = [db EXCEPT ![r].parent = parent, ![r].by = "colleague"]
  /\ IF parent = Page
     THEN strangers' = strangers \ {r} /\ UNCHANGED taken
     ELSE taken' = taken \cup {r} /\ UNCHANGED strangers
  /\ foreign' = foreign + 1
  /\ UNCHANGED <<form, stage, todo, body, ticked, checked, failed, saved, posts>>

Discard(r) ==
  /\ foreign < MaxForeign /\ db[r] \notin {Absent, Gone}
  /\ db' = [db EXCEPT ![r] = Gone] /\ taken' = taken \cup {r}
  /\ foreign' = foreign + 1
  /\ UNCHANGED <<form, stage, todo, body, ticked, checked, failed, saved, strangers, posts>>

FormsetStep ==
  \/ Load \/ Submit \/ Answer
  \/ \E key \in Rows \cup {"new1"} : \/ Skip(key) \/ FailValidation(key) \/ CheckOwned(key)
                       \/ Delete(key) \/ Update(key) \/ Create(key)
                       \/ RefuseDelete(key) \/ RefuseWrite(key)

Next ==
  FormsetStep \/ \E r \in Rows : Discard(r) \/ \E parent \in {Page, Other} : Move(r, parent)

Spec == Init /\ [][Next]_vars

-----------------------------------------------------------------------------

TypeOK ==
  /\ db \in [Rows -> [parent : {Page, Other, None, "gone"}, value : {"ok", None, "gone"},
                      by : {"operator", "colleague", None, "gone"}]]
  /\ stage \in {"away", "page", "post"} /\ todo \subseteq DOMAIN form
  /\ checked \in Rows \cup {None} /\ foreign \in 0 .. MaxForeign /\ posts \in 0 .. MaxPosts
  /\ taken \subseteq Rows

\* The formset keeps to the children of its page: a row that is none from the sending of
\* the form on stays as it is, and no row changes its parent.
KeepsToItsPage ==
  foreign' = foreign =>      \* it is not a colleague's step
    \A r \in Rows :
      /\ r \in strangers /\ db[r] # Absent => db'[r] = db[r]
      /\ db[r] # Absent => db'[r].parent \in {db[r].parent, Gone.parent}

FormsetKeepsToItsPage == [][KeepsToItsPage]_vars

\* What was typed into the rows of a page is saved or comes back with the answer, but for
\* a row that a colleague moved from the page or removed since it was drawn: of that the
\* operator hears nothing.  A post that a refused delete ends has no such answer.
TypedRow(i) == form[i].value # "" /\ form[i].key \notin ticked
Kept(row) ==
  row.key \in saved \cup taken \/ \E i \in DOMAIN failed : failed[i] = row

OneRowEach == \A i, j \in DOMAIN form : form[i].key = form[j].key => i = j

TypedIsKept ==
  stage = "post" /\ todo = {} =>
    \A i \in DOMAIN form : TypedRow(i) => Kept(form[i])

\* ... as long as the form does not hold two rows of one name, which it does when
\* a new row has failed and a blank one is added to it.
TypedIsKeptOnce == OneRowEach => TypedIsKept

\* "Submitting the formset without filling the extra row does not create an empty
\* child" (docs/recipes/admin.en.md), nor does it fail.
UntouchedIsSkipped ==
  stage = "post" /\ todo = {} /\ OneRowEach =>
    \A i \in DOMAIN form :
      form[i] = FormRow("new1", Blank) =>
        "new1" \notin saved /\ \A j \in DOMAIN failed : failed[j].key # "new1"
=============================================================================
