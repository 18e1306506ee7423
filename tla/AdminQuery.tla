----------------------------- MODULE AdminQuery -----------------------------
(***************************************************************************)
(* The list view of the admin panel and its export (admin/router.ts,       *)
(* resolveListQuery and renderList; admin/lenses.ts): one request's search,*)
(* filters, lens and ordering, and the links and the form the page offers, *)
(* each a request of its own.  A request is what the search box and the    *)
(* filters hold, and the parameters that only links carry; "" stands for   *)
(* one that is missing, which reads the same as an empty one.              *)
(***************************************************************************)
EXTENDS Naturals, FiniteSets

CONSTANTS
  Columns,       \* the columns of the model
  Searchable,    \* searchFields holds a text column
  Filters,       \* listFilter: column -> "text", "boolean" or "daterange"
  Lenses,        \* slug -> [filters, orderBy, descending], orderBy "" for none
  OrderKey, OrderAscending,   \* AdminModel.ordering
  Texts, MaxPage              \* bounds: what is typed, how far it is paged

VARIABLES
  request,       \* the parameters of the page on screen
  exported       \* those of the last export, or the page's own

vars == <<request, exported>>

AdminQueryAssumption ==
  /\ DOMAIN Filters \subseteq Columns /\ OrderKey \in Columns
  /\ "" \notin Texts /\ MaxPage \in Nat /\ "" \notin DOMAIN Lenses

Inputs == {<<f, "is">> : f \in {c \in DOMAIN Filters : Filters[c] # "daterange"}}
            \cup {<<f, b>> : f \in {c \in DOMAIN Filters : Filters[c] = "daterange"},
                             b \in {"from", "to"}}
Search == <<"q", "is">>
Typed == {Search} \cup Inputs

Blank == [typed |-> [i \in Typed |-> ""], sort |-> "", dir |-> "", lens |-> "", page |-> 0]

-----------------------------------------------------------------------------
(* resolveListQuery                                                        *)

Lens(r) == IF r.lens \in DOMAIN Lenses THEN r.lens ELSE ""
SortColumn(r) == IF r.sort \in Columns THEN r.sort ELSE ""

\* a boolean filter compares with "true"; a date range reaches to the end of its
\* last day; an empty value is no condition
Condition(r, input) ==
  LET value == r.typed[input]
  IN CASE value = "" -> {}
       [] value # "" /\ Filters[input[1]] = "boolean" ->
            {<<input, IF value = "true" THEN "yes" ELSE "no">>}
       [] OTHER -> {<<input, value>>}

Where(r) ==
  (IF Lens(r) # "" THEN Lenses[Lens(r)].filters ELSE {})
    \cup UNION {Condition(r, input) : input \in Inputs}
    \cup (IF r.typed[Search] # "" /\ Searchable THEN {<<Search, r.typed[Search]>>} ELSE {})

LensColumn(r) == IF Lens(r) = "" THEN "" ELSE Lenses[Lens(r)].orderBy

OrderBy(r) ==
  CASE SortColumn(r) # "" -> SortColumn(r)
    [] SortColumn(r) = "" /\ LensColumn(r) # "" -> LensColumn(r)
    [] OTHER -> OrderKey

Ascending(r) ==
  CASE SortColumn(r) # "" -> r.dir # "desc"
    [] SortColumn(r) = "" /\ LensColumn(r) # "" -> ~Lenses[Lens(r)].descending
    [] OTHER -> OrderAscending

Query(r) == [where |-> Where(r), orderBy |-> OrderBy(r), ascending |-> Ascending(r)]

-----------------------------------------------------------------------------
(* What the page offers.                                                   *)

\* faulty variant: links are built from the search box and the filters alone
BaseWithoutLens(r) == [Blank EXCEPT !.typed = r.typed]

Base(r) == [Blank EXCEPT !.typed = r.typed, !.lens = Lens(r)]

Direction(ascending) == IF ascending THEN "asc" ELSE "desc"

SortParams(r) ==
  IF SortColumn(r) = "" THEN Base(r)
  ELSE [Base(r) EXCEPT !.sort = SortColumn(r), !.dir = Direction(Ascending(r))]

PageLink(r, n) == [SortParams(r) EXCEPT !.page = n]
ExportLink(r) == SortParams(r)
TabLink(r, slug) == [Base(r) EXCEPT !.lens = slug]

\* the header of the column in use, or of the model's own, turns the order around
ActiveColumn(r) == IF SortColumn(r) # "" THEN SortColumn(r) ELSE OrderKey

SortLink(r, column) ==
  [Base(r) EXCEPT !.sort = column,
                  !.dir = Direction(IF ActiveColumn(r) = column THEN ~Ascending(r) ELSE TRUE)]

\* the form of the filter bar: a GET form sends its own inputs and nothing else
FormRequest(typed) == [Blank EXCEPT !.typed = typed]

-----------------------------------------------------------------------------

Init ==
  /\ request \in {[Blank EXCEPT !.lens = l] : l \in DOMAIN Lenses \cup {"", "unknown"}}
  /\ exported = request

Go(r) == request' = r /\ exported' = r

Apply ==
  \E field \in Typed, text \in Texts \cup {""} :
    Go(FormRequest([request.typed EXCEPT ![field] = text]))

Sort == \E c \in Columns : Go(SortLink(request, c))
Turn == \E n \in 1 .. MaxPage : Go(PageLink(request, n))
Tab == \E slug \in DOMAIN Lenses \cup {""} : Go(TabLink(request, slug))
Export == exported' = ExportLink(request) /\ UNCHANGED request

Next == Apply \/ Sort \/ Turn \/ Tab \/ Export

Spec == Init /\ [][Next]_vars

-----------------------------------------------------------------------------

TypeOK ==
  /\ request.typed \in [Typed -> Texts \cup {""}]
  /\ OrderBy(request) \in Columns /\ Ascending(request) \in BOOLEAN

\* "An export that quietly disagrees with the page it was taken from is worse than
\* no export at all": it has the page's conditions and order, and so has every page
\* that is turned to; a header keeps the conditions and turns the order of its
\* column, a tab keeps all that was typed.
LinksKeepTheQuery ==
  /\ Query(exported) = Query(request)
  /\ \A n \in 1 .. MaxPage : Query(PageLink(request, n)) = Query(request)
  /\ \A c \in Columns :
       LET sorted == Query(SortLink(request, c))
       IN /\ sorted.where = Where(request) /\ sorted.orderBy = c
          /\ SortColumn(request) = c => sorted.ascending # Ascending(request)
  /\ \A slug \in DOMAIN Lenses : Where(request) \ (IF Lens(request) = "" THEN {}
         ELSE Lenses[Lens(request)].filters) \subseteq Where(TabLink(request, slug))

\* "A lens's filters are ANDed with whatever the operator typed [...]; the lens
\* ordering holds until the operator clicks a column header" (docs/recipes/admin.en.md):
\* typing into the filter bar does not leave the lens.
KeepsTheLens == Apply => Lens(request') = Lens(request)

TypingKeepsTheLens == [][KeepsTheLens]_vars
=============================================================================
