------------------------------- MODULE MCAdmin -------------------------------
(***************************************************************************)
(* The admin panel, for TLC: signing in and writing (this module extends   *)
(* AdminPanel), walking its pages, the formset of a detail page, the list  *)
(* view and its export, forms, CSV files, the SQL console, an upload on    *)
(* its way in, what the panel is configured with, the timeline of a row,   *)
(* and views of what changes.  They are different questions to one code,   *)
(* so a behaviour exercises the one `part` names; the variables of the     *)
(* others are Off.                                                         *)
(***************************************************************************)
EXTENDS AdminPanel, Sequences, SequencesExt, TLC

CONSTANTS
  \* AdminPages
  PageSites, PagePolicies, SystemPages,
  ModelColumns, ModelOptions, AutomapCalls, NeverListed, NeverEditable, AuditFields,
  \* AdminInlines
  Children, Parent, OtherParent, InlineRowLimit, EmptyRow, ChildrenMayGo, MaxForeign, MaxPosts,
  \* AdminSql
  SqlOperators, SqlTexts, SqlPolicies, MaxFound, MaxTries,
  \* AuditTrail
  TrailRows, TrailValues, AuditHistoryLimit, MaxTime, MaxEntries,
  \* AdminViews: the JSON panel
  Resources, ResourceIds

VARIABLES
  part,
  \* AdminPages
  site, granted, page, registry, threw,
  \* AdminInlines
  db, form, stage, todo, body, ticked, checked, failed, saved, strangers, taken, foreign, posts,
  \* AdminQuery
  listed, exported,
  \* AdminForms
  column, stored, way, submitted, data,
  \* AdminFiles: CSV
  table, eol, text, records,
  \* AdminSql
  policy, console, trail, executed, tries,
  \* AdminFiles: multipart forms
  parts, sent, open, seen, fields, uploads, outcome,
  \* AuditTrail
  clock, audited, jobs, entries, view, mutated,
  \* AdminViews
  log, walk, export, related, box, asked, shown, board, resources, client

pages == <<site, granted, page>>
formset == <<db, form, stage, todo, body, ticked, checked, failed, saved, strangers, taken,
             foreign, posts>>
list == <<listed, exported>>
edit == <<column, stored, way, submitted, data>>
csv == <<table, eol, text, records>>
sql == <<policy, console, trail, executed, tries>>
upload == <<parts, sent, open, seen, fields, uploads, outcome>>
config == <<registry, threw>>
audit == <<clock, audited, jobs, entries, view, mutated>>
views == <<log, walk, export, related, box, asked, shown, board, resources, client>>

others == <<pages, formset, list, edit, csv, sql, upload, config, audit, views>>

Off == "off"

\* one operator who may do all, one who may edit
MCGranted == [a |-> Operations, b |-> {"edit", "bulk"}]

Symmetry == Permutations(Tabs)

-----------------------------------------------------------------------------
(* AdminPages: orders with an inline of items, the flags of both varied.   *)

AllFlags == {"create", "edit", "delete"}

Configured(flags, inlines) ==
  [flags |-> flags, hasActive |-> TRUE, customs |-> {"archive"}, inlines |-> inlines,
   canImport |-> TRUE, autocomplete |-> {"item"}]

Inline(slug, editable, canDelete) ==
  [slug |-> slug, editable |-> editable, canDelete |-> canDelete]

Item(flags) == [Configured(flags, {}) EXCEPT !.customs = {}, !.canImport = FALSE,
                                             !.hasActive = FALSE]

PanelSites ==
  {[order |-> Configured(AllFlags, {Inline("item", e, d)}), item |-> Item(flags)] :
     e \in BOOLEAN, d \in BOOLEAN, flags \in {AllFlags, {"create", "edit"}}}
  \cup {[order |-> Configured(AllFlags \ {f}, {Inline("note", TRUE, TRUE)}),
         item |-> Item(AllFlags)] : f \in AllFlags}

PanelPolicies == SUBSET ({"order", "item"} \X {"view", "create", "edit", "delete"})

-----------------------------------------------------------------------------

Formset == INSTANCE AdminInlines WITH
  Rows <- Children, Page <- Parent, Other <- OtherParent, Shown <- InlineRowLimit,
  Blank <- EmptyRow, CanDelete <- ChildrenMayGo

List == INSTANCE AdminQuery WITH
  Columns <- {"created", "paid", "status"}, Searchable <- TRUE,
  Filters <- [created |-> "daterange", paid |-> "boolean", status |-> "text"],
  Lenses <- [open |-> [filters |-> {<<<<"state", "lens">>, "open">>},
                       orderBy |-> "created", descending |-> TRUE],
             mine |-> [filters |-> {}, orderBy |-> "", descending |-> FALSE]],
  OrderKey <- "status", OrderAscending <- FALSE, Texts <- {"true"}, MaxPage <- 2,
  request <- listed

-----------------------------------------------------------------------------
(* AdminForms: a column of each kind, required or not, defaulted or not.   *)

ColumnOf(kind, notNull, default) ==
  [kind |-> kind, notNull |-> notNull, default |-> default, values |-> {}, related |-> {},
   upload |-> FALSE, autocomplete |-> FALSE]

NoDefault == [core |-> "missing", rest |-> ""]
Default(core) == [core |-> core, rest |-> ""]

FormColumns ==
  {ColumnOf(kind, notNull, default) :
     kind \in {"json", "integer", "text", "varchar"}, notNull \in BOOLEAN,
     default \in {NoDefault, Default("w"), [core |-> "w", rest |-> "sql"]}}
  \cup {ColumnOf(kind, notNull, NoDefault) :
          kind \in {"datetime", "date", "time"}, notNull \in BOOLEAN}
  \cup {ColumnOf("boolean", notNull, default) :
          notNull \in BOOLEAN, default \in {NoDefault, Default("true"), Default("false")}}
  \cup {[ColumnOf("enum", notNull, default) EXCEPT !.values = {"v", "u"}] :
          notNull \in BOOLEAN, default \in {NoDefault, Default("v")}}
  \cup {[ColumnOf("varchar", notNull, NoDefault) EXCEPT !.related = {"k", "l"},
                                                        !.autocomplete = auto] :
          notNull \in BOOLEAN, auto \in BOOLEAN}
  \cup {[ColumnOf("varchar", notNull, NoDefault) EXCEPT !.upload = TRUE] :
          notNull \in BOOLEAN}

FormsUtc == INSTANCE AdminForms WITH Columns <- FormColumns, Zone <- "utc", sent <- submitted
FormsFar == INSTANCE AdminForms WITH Columns <- FormColumns, Zone <- "other", sent <- submitted

-----------------------------------------------------------------------------
(* AdminFiles: every short cell next to every other, and beside a short    *)
(* row; forms of up to three parts.                                        *)

Cells ==
  {<<>>} \cup {<<c>> : c \in {"a", "q", ",", "r", "n", " "}}
    \cup {<<c, d>> : c \in {"a", "q", ","}, d \in {"a", "q", ",", "r", "n"}}

CsvTables ==
  {<<<<f, g>>>> : f \in Cells, g \in Cells}
    \cup {<<<<f, <<>>>>, <<g, <<"a">>>>>> : f \in Cells, g \in Cells}

Part(name, kind, value, size) == [name |-> name, kind |-> kind, value |-> value, size |-> size]

BodyParts ==
  {Part("t", "field", "x", 0), Part("t", "field", "y", 0), Part("d", "nameless", "", 0),
   Part("d", "file", "", 0), Part("d", "file", "", 2), Part("e", "file", "", 3)}

Files == INSTANCE AdminFiles WITH
  Tables <- CsvTables, Bodies <- BoundedSeq(BodyParts, 3), MaxBytes <- 2, MaxFiles <- 2,
  files <- uploads

-----------------------------------------------------------------------------

Statement(type, where, name) == [type |-> type, where |-> where, table |-> name]

MCTexts ==
  {<<Statement("update", FALSE, "orders")>>,
   <<Statement("select", TRUE, "cards"), Statement("delete", TRUE, "orders")>>,
   <<Statement("select", TRUE, "none")>>}

Rules(capabilities, lists, allow, deny, requireWhere) ==
  [capabilities |-> capabilities, lists |-> lists, allow |-> allow, deny |-> deny,
   requireWhere |-> requireWhere]

MCPolicies ==
  {Rules({"read", "delete"}, TRUE, {"orders", "cards"}, {}, TRUE),
   Rules({"read"}, FALSE, {}, {"cards"}, TRUE),
   Rules({"read", "update", "delete", "admin"}, FALSE, {}, {"cards"}, FALSE)}

Console == INSTANCE AdminSql WITH
  Operators <- SqlOperators, Texts <- SqlTexts, Policies <- SqlPolicies

-----------------------------------------------------------------------------
(* AdminPages: two models, configured well and badly.                      *)

Plain(model) ==
  [model |-> model, slug |-> Off, named |-> {}, readonly |-> {}, ordering |-> Off,
   uploads |-> {}, storage |-> FALSE, actions |-> <<>>]

MCColumns == [order |-> {"id", "hash", "total", "createdAt", "createdBy"},
              item |-> {"id", "name", "deletedAt"}]

MCOptions ==
  {Plain("order"), [Plain("order") EXCEPT !.slug = "item"],
   [Plain("order") EXCEPT !.named = {"hash"}, !.readonly = {"total"}],
   [Plain("order") EXCEPT !.named = {"gone"}],
   [Plain("order") EXCEPT !.ordering = "total", !.slug = "sales"],
   [Plain("order") EXCEPT !.uploads = {"total"}, !.slug = "files"],
   [Plain("order") EXCEPT !.uploads = {"total"}, !.storage = TRUE, !.slug = "files"],
   [Plain("item") EXCEPT !.actions = <<"ship", "ship">>],
   [Plain("item") EXCEPT !.actions = <<"ship">>, !.readonly = {"id"}]}

MCAutomaps ==
  {[tables |-> <<"order", "item">>, exclude |-> {}, skip |-> TRUE],
   [tables |-> <<"item", "order">>, exclude |-> {}, skip |-> FALSE],
   [tables |-> <<"order", "item">>, exclude |-> {"order"}, skip |-> FALSE]}

Pages == INSTANCE AdminPages WITH
  Sites <- PageSites, Policies <- PagePolicies, Panels <- SystemPages,
  Columns <- ModelColumns, Options <- ModelOptions, Automaps <- AutomapCalls, None <- Off,
  Hidden <- NeverListed, Fixed <- NeverEditable, Audited <- AuditFields

-----------------------------------------------------------------------------

Trail == INSTANCE AuditTrail WITH
  Rows <- TrailRows, Values <- TrailValues, None <- Off, HistoryLimit <- AuditHistoryLimit,
  now <- clock, table <- audited, job <- jobs

Trend(value, previous) == [kind |-> "trend", value |-> value, previous |-> previous]
Partition(segments) == [kind |-> "partition", segments |-> segments]

Views == INSTANCE AdminViews WITH
  LogPageSize <- 2, LogExportMax <- 3, MaxRecords <- 5,
  People <- {"p", "q"}, Labels <- {"ana", "anna"},
  Matches <- {<<"ana", "ana">>, <<"anna", "anna">>},
  AutocompleteLimit <- 1, MaxAsked <- 2,
  Cards <- {[kind |-> "throws"], [kind |-> "value"]}
             \cup {Trend(v, p) : v \in -1 .. 2, p \in -1 .. 1}
             \cup {Partition(s) : s \in {<<>>, <<0>>, <<1, 2>>, <<0, 0>>}},
  Names <- Resources, Ids <- ResourceIds,
  file <- export, rows <- related, site <- resources

-----------------------------------------------------------------------------

ASSUME AdminAssumption ==
  /\ Pages!AdminPagesAssumption /\ Formset!AdminInlinesAssumption
  /\ List!AdminQueryAssumption /\ FormsUtc!AdminFormsAssumption
  /\ FormsFar!AdminFormsAssumption /\ Console!AdminSqlAssumption
  /\ Files!AdminFilesAssumption
  /\ Trail!AuditTrailAssumption /\ Views!AdminViewsAssumption

PagesOff == site = Off /\ granted = Off /\ page = Off
FormsetOff ==
  /\ db = Off /\ form = Off /\ stage = Off /\ todo = Off /\ body = Off /\ ticked = Off
  /\ checked = Off /\ failed = Off /\ saved = Off /\ strangers = Off /\ taken = Off
  /\ foreign = Off
  /\ posts = Off
ListOff == listed = Off /\ exported = Off
EditOff == column = Off /\ stored = Off /\ way = Off /\ submitted = Off /\ data = Off
CsvOff == table = Off /\ eol = Off /\ text = Off /\ records = Off
SqlOff == policy = Off /\ console = Off /\ trail = Off /\ executed = Off /\ tries = Off
UploadOff ==
  /\ parts = Off /\ sent = Off /\ open = Off /\ seen = Off /\ fields = Off /\ uploads = Off
  /\ outcome = Off
ConfigOff == registry = Off /\ threw = Off
TrailOff ==
  /\ clock = Off /\ audited = Off /\ jobs = Off /\ entries = Off /\ view = Off
  /\ mutated = Off
ViewsOff ==
  /\ log = Off /\ walk = Off /\ export = Off /\ related = Off /\ box = Off /\ asked = Off
  /\ shown = Off /\ board = Off /\ resources = Off /\ client = Off

ViewsParts == {"logs", "picker", "dashboard", "json"}

\* of the four views, the one that is exercised begins anywhere
ViewsInit ==
  /\ Views!Init
  /\ part # "picker" => related = [p \in {"p", "q"} |-> "ana"] /\ box.value = ""
  /\ part # "dashboard" => board.cards = <<>>
  /\ part # "json" => \A name \in Resources : resources[name] = [ops |-> {}, ids |-> {}]

MCInit ==
  /\ part \in {"panel", "pages", "formset", "list", "utc", "far", "csv", "sql", "upload",
               "config", "trail"} \cup ViewsParts
  /\ Init
  /\ part # "panel" =>
       /\ account = [a \in Accounts |-> [active |-> TRUE, enrolled |-> FALSE]]
       /\ writer = [r \in Rows |-> NoWriter]
  /\ IF part = "pages" THEN Pages!WalkInit ELSE PagesOff
  /\ IF part = "formset" THEN Formset!Init ELSE FormsetOff
  /\ IF part = "list" THEN List!Init ELSE ListOff
  /\ IF part \in {"utc", "far"} THEN FormsUtc!Init ELSE EditOff
  /\ IF part = "csv" THEN Files!CsvInit ELSE CsvOff
  /\ IF part = "sql" THEN Console!Init ELSE SqlOff
  /\ IF part = "upload" THEN Files!UploadInit ELSE UploadOff
  /\ IF part = "config" THEN Pages!SiteInit ELSE ConfigOff
  /\ IF part = "trail" THEN Trail!Init ELSE TrailOff
  /\ IF part \in ViewsParts THEN ViewsInit ELSE ViewsOff

PanelNext == part = "panel" /\ Next /\ UNCHANGED others
PagesNext ==
  /\ part = "pages" /\ Pages!WalkNext
  /\ UNCHANGED <<vars, formset, list, edit, csv, sql, upload, config, audit, views>>
FormsetNext ==
  /\ part = "formset" /\ Formset!Next
  /\ UNCHANGED <<vars, pages, list, edit, csv, sql, upload, config, audit, views>>
ListNext ==
  /\ part = "list" /\ List!Next
  /\ UNCHANGED <<vars, pages, formset, edit, csv, sql, upload, config, audit, views>>
EditNext ==
  /\ \/ part = "utc" /\ FormsUtc!Next
     \/ part = "far" /\ FormsFar!Next
  /\ UNCHANGED <<vars, pages, formset, list, csv, sql, upload, config, audit, views>>
CsvNext ==
  /\ part = "csv" /\ Files!CsvNext
  /\ UNCHANGED <<vars, pages, formset, list, edit, sql, upload, config, audit, views>>
SqlNext ==
  /\ part = "sql" /\ Console!Next
  /\ UNCHANGED <<vars, pages, formset, list, edit, csv, upload, config, audit, views>>
UploadNext ==
  /\ part = "upload" /\ Files!UploadNext
  /\ UNCHANGED <<vars, pages, formset, list, edit, csv, sql, config, audit, views>>
ConfigNext ==
  /\ part = "config" /\ Pages!SiteNext
  /\ UNCHANGED <<vars, pages, formset, list, edit, csv, sql, upload, audit, views>>

TrailNext ==
  /\ part = "trail" /\ Trail!Next
  /\ UNCHANGED <<vars, pages, formset, list, edit, csv, sql, upload, config, views>>
ViewsNext ==
  /\ \/ part = "logs" /\ Views!LogsNext
     \/ part = "picker" /\ Views!PickerNext
     \/ part = "dashboard" /\ Views!Dashboard
     \/ part = "json" /\ Views!JsonNext
  /\ UNCHANGED <<vars, pages, formset, list, edit, csv, sql, upload, config, audit>>

MCNext ==
  /\ UNCHANGED part
  /\ \/ PanelNext \/ PagesNext \/ FormsetNext \/ ListNext \/ EditNext \/ CsvNext
     \/ SqlNext \/ UploadNext \/ ConfigNext \/ TrailNext \/ ViewsNext

MCSpec == MCInit /\ [][MCNext]_<<part, vars, others>>

-----------------------------------------------------------------------------

\* The doors of a page are open and do what they say, and nothing an operator may
\* do is hidden from him, under every set of flags and every policy - but for what
\* an inline shows of a child it may not view or delete (AdminPages).  And whatever
\* was registered, removed and mapped, and whichever calls threw on the way, what a
\* page lists, edits, orders by and stamps are columns of its model, no form offers
\* one that is read-only, and a file has where to go too.  What the JSON
\* panel says a resource can do, it does (AdminViews).
DoorsOpen ==
  /\ part = "pages" => Pages!WalkTypeOK /\ Pages!DoorsOpen /\ Pages!NothingHidden
  /\ part = "config" => Pages!SiteTypeOK /\ Pages!PagesAreSound
  /\ part \in ViewsParts => Views!MetaIsTrue

\* What was typed into the rows of a formset is saved or comes back with the answer,
\* while colleagues move and remove rows and the database refuses writes, as long as no
\* two rows of the form have one name; only a row that a colleague took from the page
\* since it was drawn may lose it (AdminInlines).
TypedIsKeptOnce == part = "formset" => Formset!TypeOK /\ Formset!TypedIsKeptOnce

\* The formset keeps to the children of its page: a row that is none from the sending of
\* the form on stays as it is, and no row changes its parent (AdminInlines).
FormsetKeepsToItsPage == [][part = "formset" => Formset!KeepsToItsPage]_formset

\* What goes through the panel comes out as it went in: a link or an export asks
\* for the page's own rows in their order, a form that is sent untouched changes
\* nothing its controls show, a CSV file that is exported is imported cell by cell,
\* a handler gets the whole of a submission or none of it.  And what is shown of
\* things that change is true: no log record is skipped or silently left out of a
\* markdown export, a search box sends what it shows, a card agrees with itself.
InputsArrive ==
  /\ part = "list" => List!TypeOK /\ List!LinksKeepTheQuery
  /\ part = "utc" => FormsUtc!TypeOK /\ FormsUtc!UntouchedFormsKeep
  /\ part = "far" => FormsFar!TypeOK /\ FormsFar!UntouchedFormsKeep
  /\ part = "csv" => Files!CsvRoundTrip
  /\ part = "upload" => Files!TypeOK /\ Files!SubmissionIsWhole
  /\ part \in ViewsParts =>
       Views!TypeOK /\ Views!LogsAreWhole /\ Views!SendsWhatIsShown /\ Views!CardsAgree

\* The audit hook hears of every attempt, in order and before its operator sees an
\* answer, and of nothing else; and every statement of a text that was run is of a
\* granted kind and on a table that is not denied (AdminSql).  The timeline of a row
\* explains what is stored of it (AuditTrail).
DeedsAreAccounted ==
  /\ part = "sql" => Console!TypeOK /\ Console!ConsoleIsAccountable
  /\ part = "trail" => Trail!TypeOK /\ Trail!TimelineExplainsTheRow

\* "A lens's filters are ANDed with whatever the operator typed" (AdminQuery):
\* typing into the filter bar does not leave the lens.
TypingKeepsTheLens == [][part = "list" => List!KeepsTheLens]_list
=============================================================================
