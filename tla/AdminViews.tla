------------------------------ MODULE AdminViews ------------------------------
(***************************************************************************)
(* What the admin panel shows of things that change while they are looked  *)
(* at: the log page and its exports (admin/router.ts, admin/logs.ts), the  *)
(* search box of a foreign key with its script (admin/templates.ts), the   *)
(* cards of the dashboard (admin/dashboard.ts), and the JSON flavour of    *)
(* the panel (admin/json).  The four share nothing.                        *)
(***************************************************************************)
EXTENDS Integers, Sequences, FiniteSets, SequencesExt

CONSTANTS
  LogPageSize, LogExportMax, \* LOG_PAGE_SIZE, LOG_EXPORT_MAX
  MaxRecords,                \* bound: records logged
  People, Labels,            \* identities and labels of the related rows
  Matches,                   \* what the operator types, and the labels it finds
  AutocompleteLimit,         \* AUTOCOMPLETE_LIMIT
  MaxAsked,                  \* bound: searches
  Cards,                     \* the cards a dashboard may have
  Names, Ids                 \* resources of the JSON panel, and their records

Terms == {match[1] : match \in Matches}

AdminViewsAssumption ==
  /\ {LogPageSize, LogExportMax, AutocompleteLimit} \subseteq Nat \ {0}
  /\ {MaxRecords, MaxAsked} \subseteq Nat
  /\ \A match \in Matches : match[2] \in Labels
  /\ "" \notin Labels \cup People

VARIABLES
  log,    \* the records of the source: whether each is found by the search
  walk,   \* [page, next, prev, met]: the page on screen, what its turning has met
  file,   \* the last export: [format, rows, left, met], met being the walk's
  rows,   \* person -> label, or "" when the row is gone
  box,    \* [search, value, list, timer]: the two inputs, the options, the timer
  asked,  \* the terms of the requests under way
  shown,  \* history: the <<value, label>> pairs the panel has offered
  board,  \* [cards, view]: what the cards compute and how they are drawn
  site,   \* name -> [ops, ids]: the registered resources
  client  \* [name, ops, ids, reply]: what a frontend has read, and its last answer

logs == <<log, walk, file>>
picker == <<rows, box, asked, shown>>
json == <<site, client>>
vars == <<logs, picker, board, json>>

NoWalk == [page |-> 0, next |-> FALSE, prev |-> FALSE, met |-> {}]
NoFile == [format |-> "none", rows |-> <<>>, left |-> 0, met |-> {}]
NoReply == [status |-> 0, op |-> "none", id |-> "none"]
Operations == {"create", "update", "remove"}

LogsInit == log = <<>> /\ walk = NoWalk /\ file = NoFile

\* autocompleteLabelsFor: the edit form shows the label of the row, if it is there
PickerInit ==
  /\ rows \in [People -> Labels \cup {""}] /\ asked = <<>>
  /\ \E value \in People \cup {""} :
       LET label == IF value = "" THEN "" ELSE rows[value]
       IN /\ box = [search |-> label, value |-> value, list |-> {}, timer |-> FALSE]
          /\ shown = {<<value, label>>}

BoardInit == \E cards \in BoundedSeq(Cards, 2) : board = [cards |-> cards, view |-> <<>>]

JsonInit ==
  /\ site \in [Names -> [ops : SUBSET Operations, ids : SUBSET Ids]]
  /\ client = [name |-> "none", ops |-> {}, ids |-> {}, reply |-> NoReply]

Init == LogsInit /\ PickerInit /\ BoardInit /\ JsonInit

-----------------------------------------------------------------------------
(* Logs: readLogs selects for the page and for the export alike.           *)

Record(found) ==
  /\ Len(log) < MaxRecords /\ log' = Append(log, found)
  /\ UNCHANGED <<walk, file, picker, board, json>>

\* newest first
Selected == Reverse(SelectSeq([i \in DOMAIN log |-> i], LAMBDA i : log[i]))

Least(a, b) == IF a < b THEN a ELSE b
Pages == IF Selected = <<>> THEN 1 ELSE (Len(Selected) + LogPageSize - 1) \div LogPageSize
RowsOf(n) == SubSeq(Selected, (n - 1) * LogPageSize + 1, Least(n * LogPageSize, Len(Selected)))

\* turned forward the walk goes on, anywhere else it begins anew
OpenLogs(n) ==
  /\ n = 1 \/ (walk.next /\ n = walk.page + 1) \/ (walk.prev /\ n = walk.page - 1)
  /\ walk' = [page |-> n, next |-> n < Pages, prev |-> n > 1,
              met |-> ToSet(RowsOf(n)) \cup (IF n > walk.page /\ n > 1 THEN walk.met ELSE {})]
  /\ UNCHANGED <<log, file, picker, board, json>>

\* faulty variant: the oldest records of the selection
ExportLogsOldest(format) ==
  LET window == SubSeq(Reverse(Selected), 1, Least(LogExportMax, Len(Selected)))
  IN /\ file' = [format |-> format, rows |-> window, met |-> walk.met,
                 left |-> IF format = "md" THEN Len(Selected) - Len(window) ELSE 0]
     /\ UNCHANGED <<log, walk, picker, board, json>>

\* markdown says how many older records the cap left out, JSON does not
ExportLogs(format) ==
  LET window == SubSeq(Selected, 1, Least(LogExportMax, Len(Selected)))
  IN /\ file' = [format |-> format, rows |-> window, met |-> walk.met,
                 left |-> IF format = "md" THEN Len(Selected) - Len(window) ELSE 0]
     /\ UNCHANGED <<log, walk, picker, board, json>>

LogsNext ==
  \/ \E found \in BOOLEAN : Record(found)
  \/ \E n \in 1 .. MaxRecords : OpenLogs(n)
  \/ \E format \in {"md", "json"} : ExportLogs(format)

-----------------------------------------------------------------------------
(* The search box: two inputs, of which the hidden one is sent.            *)

\* the "input" listener, and a faulty variant that leaves the hidden input alone
TypeOnly(term) ==
  /\ box' = [box EXCEPT !.search = term, !.timer = TRUE]
  /\ UNCHANGED <<logs, rows, asked, shown, board, json>>

Type(term) ==
  /\ box' = [box EXCEPT !.search = term, !.value = "", !.timer = TRUE]
  /\ UNCHANGED <<logs, rows, asked, shown, board, json>>

\* run(): when the timer has fired, or the box gets the focus
Ask(fired) ==
  /\ Len(asked) < MaxAsked /\ (fired => box.timer)
  /\ asked' = Append(asked, box.search)
  /\ box' = [box EXCEPT !.timer = @ /\ ~fired]
  /\ UNCHANGED <<logs, rows, shown, board, json>>

\* the autocomplete route: a page of the rows whose label has the term in it
Options(term) ==
  LET found == {p \in People : rows[p] # "" /\ (term = "" \/ <<term, rows[p]>> \in Matches)}
  IN {{<<p, rows[p]>> : p \in page} :
        page \in {s \in SUBSET found :
                    Cardinality(s) = Least(AutocompleteLimit, Cardinality(found))}}

\* answers come in any order, and an error closes the list
Answered(i) ==
  /\ \E list \in {{}} \cup Options(asked[i]) :
       box' = [box EXCEPT !.list = list] /\ shown' = shown \cup list
  /\ asked' = RemoveAt(asked, i)
  /\ UNCHANGED <<logs, rows, board, json>>

Pick(option) ==
  /\ option \in box.list
  /\ box' = [box EXCEPT !.value = option[1], !.search = option[2], !.list = {}]
  /\ UNCHANGED <<logs, rows, asked, shown, board, json>>

Blur ==
  /\ box' = [box EXCEPT !.list = {}]
  /\ UNCHANGED <<logs, rows, asked, shown, board, json>>

\* a colleague renames a related row, or removes it
Change(p, label) ==
  /\ rows[p] # "" /\ rows[p] # label
  /\ rows' = [rows EXCEPT ![p] = label]
  /\ UNCHANGED <<logs, box, asked, shown, board, json>>

PickerNext ==
  \/ \E term \in Terms \cup {""} : Type(term)
  \/ \E fired \in BOOLEAN : Ask(fired)
  \/ \E i \in DOMAIN asked : Answered(i)
  \/ \E option \in box.list : Pick(option)
  \/ Blur
  \/ \E p \in People, label \in Labels \cup {""} : Change(p, label)

-----------------------------------------------------------------------------
(* The dashboard: a card that throws is drawn as one that could not be     *)
(* computed, and the next is computed.  Percentages are <<part, whole>>.   *)

SumOf(segments) == FoldSeq(LAMBDA s, total : s + total, 0, segments)

TrendDirection(card) ==
  IF card.value > card.previous THEN "up" ELSE IF card.value < card.previous THEN "down" ELSE "flat"

\* none against a baseline of 0; "+" unless it is below 0
TrendPercent(card) ==
  IF card.previous = 0 THEN "none"
  ELSE IF (card.value - card.previous) * card.previous >= 0 THEN "+" ELSE "-"

BusinessCard(card) ==
  CASE card.kind = "throws" -> [kind |-> "value", error |-> TRUE]
    [] card.kind = "value" -> [kind |-> "value", error |-> FALSE]
    [] card.kind = "trend" ->
         [kind |-> "trend", error |-> FALSE, direction |-> TrendDirection(card),
          percent |-> TrendPercent(card)]
    [] card.kind = "partition" ->
         LET total == SumOf(card.segments)
         IN [kind |-> "partition", error |-> FALSE,
             bars |-> [i \in DOMAIN card.segments |->
                         IF total = 0 THEN <<0, 1>> ELSE <<card.segments[i], total>>]]

Dashboard ==
  /\ board' = [board EXCEPT !.view = [i \in DOMAIN board.cards |-> BusinessCard(board.cards[i])]]
  /\ UNCHANGED <<logs, picker, json>>

-----------------------------------------------------------------------------
(* makeAdminJsonRouter over the resources; an operation a resource does    *)
(* not have is a 405.  "_meta" is a route of its own before the records.   *)

Meta(name) ==
  /\ client' = [name |-> name, ops |-> site[name].ops, ids |-> {}, reply |-> NoReply]
  /\ UNCHANGED <<logs, picker, board, site>>

List ==
  /\ client.name # "none"
  /\ client' = [client EXCEPT !.ids = site[client.name].ids, !.reply = NoReply]
  /\ UNCHANGED <<logs, picker, board, site>>

Reply(status, op, id) ==
  client' = [name |-> client.name, ops |-> client.ops,
             ids |-> IF op = "remove" /\ status = 200 THEN client.ids \ {id} ELSE client.ids,
             reply |-> [status |-> status, op |-> op, id |-> id]]

Get(id) ==
  /\ client.name # "none"
  /\ IF id = "_meta" THEN Reply(200, "meta", id)
     ELSE Reply(IF id \in site[client.name].ids THEN 200 ELSE 404, "get", id)
  /\ UNCHANGED <<logs, picker, board, site>>

Call(op, id) ==
  /\ client.name # "none"
  /\ IF op \notin site[client.name].ops
     THEN Reply(405, op, id) /\ UNCHANGED site
     ELSE /\ Reply(200, op, id)
          /\ site' = [site EXCEPT ![client.name].ids =
                        IF op = "create" THEN @ \cup {id}
                        ELSE IF op = "remove" THEN @ \ {id} ELSE @]
  /\ UNCHANGED <<logs, picker, board>>

JsonNext ==
  \/ \E name \in Names : Meta(name)
  \/ List
  \/ \E id \in Ids : Get(id) \/ \E op \in Operations : Call(op, id)

Next == LogsNext \/ PickerNext \/ Dashboard \/ JsonNext

Spec == Init /\ [][Next]_vars

-----------------------------------------------------------------------------

TypeOK ==
  /\ Len(log) <= MaxRecords /\ Len(asked) <= MaxAsked
  /\ rows \in [People -> Labels \cup {""}] /\ box.value \in People \cup {""}
  /\ site \in [Names -> [ops : SUBSET Operations, ids : SUBSET Ids]]

\* Turning the pages forward skips nothing, however many records come in between; and
\* an export holds every record of the walk it was taken from, but for those that
\* newer ones pushed over the cap, of which markdown says so.
LogsAreWhole ==
  /\ \A i, k \in walk.met : \A j \in i .. k : log[j] => j \in walk.met
  /\ \A j \in file.met :
       \/ j \in ToSet(file.rows)
       \/ /\ Len(file.rows) = LogExportMax
          /\ \A i \in ToSet(file.rows) : j < i
          /\ file.format = "md" => file.left > 0

\* What the form would send is what its operator reads: the value is empty or belongs
\* to the label in the box, as the panel offered the two together, whatever he types,
\* picks from an old list or leaves, and in whichever order the answers come.
SendsWhatIsShown == box.value # "" => <<box.value, box.search>> \in shown

\* "The list is of what was typed" - does not hold when answers overtake each other:
\* the last to arrive stays.
ListIsOfTheTerm ==
  asked = <<>> /\ ~box.timer /\ box.list # {} =>
    \A option \in box.list : box.search = "" \/ <<box.search, option[2]>> \in Matches

\* The arrow of a trend and the sign of its percentage agree wherever the baseline is
\* above 0, and the bars of a partition of parts that are not negative fill the card.
CardsAgree ==
  \A i \in DOMAIN board.view :
    LET card == board.cards[i]  view == board.view[i]
    IN /\ view.kind = "trend" /\ card.previous > 0 =>
            /\ view.direction = "up" => view.percent = "+"
            /\ view.direction = "down" => view.percent = "-"
       /\ view.kind = "partition" =>
            /\ \A n \in DOMAIN view.bars : view.bars[n][1] <= view.bars[n][2]
            /\ SumOf(card.segments) > 0 =>
                 SumOf([n \in DOMAIN view.bars |-> view.bars[n][1]]) = view.bars[1][2]

\* What _meta says a resource can do it does, and nothing else; a record that was
\* listed opens until it is removed.
MetaIsTrue ==
  /\ client.reply.op \in Operations =>
       (client.reply.status = 405 <=> client.reply.op \notin client.ops)
  /\ client.reply.id \in client.ids /\ client.reply.op \in {"get", "meta"} =>
       client.reply.id = "_meta" \/ client.reply.status = 200
===============================================================================
