----------------------------- MODULE AdminPages -----------------------------
(***************************************************************************)
(* An operator walking through the admin panel (admin/router.ts).  The     *)
(* flags of an AdminModel are the outer bound of what may be done, an      *)
(* access policy narrows them: a site maps a slug to its configuration,    *)
(* what the policy grants are pairs of a slug and a permission (all,       *)
(* without a policy).                                                      *)
(*                                                                         *)
(* Every page is the doors it shows (the views of router.ts, of which      *)
(* templates.ts draws a link or a form for each url that is not null): the *)
(* route a door leads to, the model, and the bulk action or the inline it  *)
(* names.  Status is the answer of the route's handler to an operator who  *)
(* is signed in; following a door leads to the page it renders.  Rows      *)
(* exist while they are looked at; what writes do is in AdminPanel and     *)
(* AdminInlines.                                                           *)
(*                                                                         *)
(* And what the panel is configured with: the checks of AdminModel's       *)
(* constructor (admin/config.ts) and the registry of AdminSite             *)
(* (admin/site.ts), changed by register, unregister and automap in any     *)
(* order, some calls throwing half-way.  The two share nothing: the        *)
(* registry is complete before an operator walks.                          *)
(***************************************************************************)
EXTENDS Naturals, Sequences, FiniteSets

Door(path, slug, what) == [path |-> path, slug |-> slug, what |-> what]

FlagAllows(site, m, action) == action = "view" \/ action \in site[m].flags

Allows(site, granted, m, action) ==
  FlagAllows(site, m, action) /\ <<m, action>> \in granted

Visible(site, granted) == {m \in DOMAIN site : Allows(site, granted, m, "view")}

ResolveAdmin(site, granted, m, action) ==
  CASE m \notin Visible(site, granted) -> 404
    [] m \in Visible(site, granted) /\ ~FlagAllows(site, m, action) -> 404
    [] m \in Visible(site, granted) /\ FlagAllows(site, m, action) ->
         IF Allows(site, granted, m, action) THEN 200 ELSE 403

BulkActionsFor(site, m) ==
  {a \in {"activate", "deactivate"} : "edit" \in site[m].flags /\ site[m].hasActive}
    \cup {a \in {"delete"} : "delete" \in site[m].flags}
    \cup site[m].customs

NeededFor(action) == IF action = "delete" THEN "delete" ELSE "edit"

\* the guards a handler has after resolveAdmin let it through
BulkStatus(site, granted, m, action) ==
  IF action \notin BulkActionsFor(site, m) THEN 400
  ELSE IF Allows(site, granted, m, NeededFor(action)) THEN 200 ELSE 403

InlineStatus(site, granted, m, child) ==
  IF /\ \E i \in site[m].inlines : i.slug = child /\ i.editable
     /\ child \in DOMAIN site
     /\ Allows(site, granted, child, "edit")
  THEN 200 ELSE 404

\* a ticked row of the formset is removed, or else saved like the others
InlineDeletes(site, granted, m, child) ==
  /\ InlineStatus(site, granted, m, child) = 200
  /\ \E i \in site[m].inlines : i.slug = child /\ i.canDelete
  /\ Allows(site, granted, child, "delete")

ImportStatus(site, m) == IF site[m].canImport THEN 200 ELSE 404

AutocompleteStatus(site, granted, m, field) ==
  IF m \in Visible(site, granted) /\ field \in site[m].autocomplete THEN 200 ELSE 404

PermissionOf(path) ==
  CASE path \in {"new", "import"} -> "create"
    [] path = "edit" -> "edit"
    [] path = "delete" -> "delete"
    [] OTHER -> "view"

\* the system pages and the account ask for a session only; a formset with a
\* ticked box answers like one without
Status(site, granted, door) ==
  LET resolved == ResolveAdmin(site, granted, door.slug, PermissionOf(door.path))
      further ==
        CASE door.path = "bulk" -> BulkStatus(site, granted, door.slug, door.what)
          [] door.path = "import" -> ImportStatus(site, door.slug)
          [] door.path \in {"inlines", "tick"} ->
               InlineStatus(site, granted, door.slug, door.what)
          [] OTHER -> 200
  IN CASE door.slug = "-" -> 200
       [] door.path = "autocomplete" ->
            AutocompleteStatus(site, granted, door.slug, door.what)
       [] OTHER -> IF resolved = 200 THEN further ELSE resolved

-----------------------------------------------------------------------------

CONSTANTS
  Sites,        \* the configurations of the panel a behaviour starts with
  Policies,     \* the sets of permissions its policy may grant
  Panels,       \* the system pages that are mounted: "logs", "sql", "tasks"
  Columns,      \* table -> the columns of its model
  Options,      \* what AdminModel may be built from: [model, slug, named, readonly,
                \*   ordering, uploads, storage, actions]; slug and ordering may be None,
                \*   named are the columns the other options name, actions a sequence
  Automaps,     \* the calls of automap: [tables (a sequence), exclude, skip]
  None,
  Hidden,       \* NEVER_LISTED
  Fixed,        \* NEVER_EDITABLE
  Audited       \* AUDIT_FIELDS

VARIABLES
  site, granted, \* fixed: flags, inlines and the policy of the operator
  page,          \* the page on screen, named by the door that leads to it
  registry,      \* slug -> the page's configuration
  threw          \* did the last call of register, unregister or automap throw?

walk == <<site, granted, page>>
config == <<registry, threw>>
vars == <<walk, config>>

AdminPagesAssumption ==
  /\ Panels \subseteq {"logs", "sql", "tasks"}
  /\ \A s \in Sites : "-" \notin DOMAIN s
  /\ \A o \in Options : o.model \in DOMAIN Columns
  /\ \A a \in Automaps : \A i \in DOMAIN a.tables : a.tables[i] \in DOMAIN Columns

WalkInit ==
  /\ site \in Sites /\ granted \in Policies
  /\ page = Door("dashboard", "-", "-")

May(m, action) == Allows(site, granted, m, action)

-----------------------------------------------------------------------------
(* The doors of each page.                                                 *)

Layout ==
  {Door("dashboard", "-", "-"), Door("logout", "-", "-")}
    \cup {Door(p, "-", "-") : p \in Panels}
    \cup {Door("list", m, "-") : m \in Visible(site, granted)}

Doors(condition, doors) == IF condition THEN doors ELSE {}

DashboardDoors ==
  UNION {{Door("list", m, "-")} \cup Doors(May(m, "create"), {Door("new", m, "-")})
           : m \in Visible(site, granted)}

PermittedBulkActions(m) == {a \in BulkActionsFor(site, m) : May(m, NeededFor(a))}

\* filters, headers, tabs, pages and exports of the list ask for VIEW like the list
ListDoors(m) ==
  {Door("detail", m, "-"), Door("export", m, "-"), Door("list", m, "-")}
    \cup Doors(May(m, "create"), {Door("new", m, "-")})
    \cup Doors(May(m, "create") /\ site[m].canImport, {Door("import", m, "-")})
    \cup {Door("bulk", m, a) : a \in PermittedBulkActions(m)}

FormDoors(m, path) ==
  {Door(path, m, "-"), Door(IF path = "edit" THEN "detail" ELSE "list", m, "-")}
    \cup {Door("autocomplete", m, f) : f \in site[m].autocomplete}

ImportDoors(m) == {Door("import", m, "-"), Door("list", m, "-")}

\* what buildInlines shows of the children of a row: an editable block is a form,
\* the rows of any other are links
InlineEditable(i) == i.editable /\ i.slug \in DOMAIN site /\ May(i.slug, "edit")

InlineDoors(m, i) ==
  LET registered == i.slug \in DOMAIN site
  IN Doors(registered /\ May(i.slug, "create"), {Door("new", i.slug, "-")})
       \cup Doors(registered /\ ~InlineEditable(i), {Door("detail", i.slug, "-")})
       \cup Doors(InlineEditable(i), {Door("inlines", m, i.slug)})
       \cup Doors(InlineEditable(i) /\ i.canDelete /\ "delete" \in site[i.slug].flags,
                  {Door("tick", m, i.slug)})

DetailDoors(m) ==
  {Door("list", m, "-")}
    \cup Doors(May(m, "edit"), {Door("edit", m, "-")})
    \cup Doors(May(m, "delete"), {Door("delete", m, "-")})

InlinesOf(m) == UNION {InlineDoors(m, i) : i \in site[m].inlines}

TasksDoors == {Door("tasks", "-", "-"), Door("task", "-", "running"), Door("task", "-", "ended")}

TaskDoors(status) ==
  {Door("tasks", "-", "-")} \cup Doors(status = "running", {Door("cancel", "-", "-")})

OwnDoors ==
  CASE page.path = "dashboard" -> DashboardDoors
    [] page.path = "list" -> ListDoors(page.slug)
    [] page.path \in {"new", "edit"} -> FormDoors(page.slug, page.path)
    [] page.path = "import" -> ImportDoors(page.slug)
    [] page.path = "detail" -> DetailDoors(page.slug) \cup InlinesOf(page.slug)
    [] page.path = "tasks" -> TasksDoors
    [] page.path = "task" -> TaskDoors(page.what)
    [] OTHER -> {Door(page.path, "-", "-")}   \* logs and sql: their own form

PageDoors == Layout \cup OwnDoors

-----------------------------------------------------------------------------
(* Following a door.  A write answers with the page its handler redirects  *)
(* to; an answer other than 200 is an error page inside the layout.        *)

LandsOn(door) ==
  CASE door.path \in {"cancel"} -> Door("task", "-", "ended")
    [] door.path \in {"bulk", "delete"} -> Door("list", door.slug, "-")
    [] door.path \in {"inlines", "tick"} -> Door("detail", door.slug, "-")
    [] door.path \in {"export", "autocomplete"} -> page
    [] OTHER -> door

Follow(door) ==
  /\ page' = IF Status(site, granted, door) = 200 THEN LandsOn(door)
             ELSE Door("error", "-", "-")
  /\ UNCHANGED <<site, granted>>

SignOut ==
  /\ page' = Door("login", "-", "-") /\ UNCHANGED <<site, granted>>

SignIn ==
  /\ page.path = "login"
  /\ page' = Door("dashboard", "-", "-") /\ UNCHANGED <<site, granted>>

WalkNext ==
  \/ \E door \in PageDoors :
       /\ page.path # "login"
       /\ IF door.path = "logout" THEN SignOut ELSE Follow(door)
  \/ SignIn

-----------------------------------------------------------------------------
(* What the panel is configured with.                                      *)

\* faulty variant: an upload without a storage passes
AcceptableWithoutStorage(o) ==
  LET known == Columns[o.model] IN
  /\ Cardinality({o.actions[i] : i \in DOMAIN o.actions}) = Len(o.actions)
  /\ o.named \cup o.readonly \cup o.uploads \cup ({o.ordering} \ {None}) \subseteq known

\* the constructor throws unless an upload has a storage, actions have names of
\* their own, and every column an option names exists
Acceptable(o) ==
  LET known == Columns[o.model] IN
  /\ o.uploads # {} => o.storage
  /\ Cardinality({o.actions[i] : i \in DOMAIN o.actions}) = Len(o.actions)
  /\ o.named \cup o.readonly \cup o.uploads \cup ({o.ordering} \ {None}) \subseteq known

Slug(o) == IF o.slug = None THEN o.model ELSE o.slug

\* without an ordering, the newest rows first if the model says which they are
OrderKey(o) ==
  IF o.ordering # None THEN o.ordering
  ELSE IF "createdAt" \in Columns[o.model] THEN "createdAt" ELSE None

Listed(o) == IF o.named # {} THEN o.named ELSE Columns[o.model] \ Hidden

\* faulty variant: readonlyFields only hides the columns of the list
EditableOfListed(o) == Listed(o) \ o.readonly

\* editableFieldNames, detailFieldNames, auditFieldNames
Editable(o) == Columns[o.model] \ (o.readonly \cup Fixed)
Detailed(o) == Columns[o.model] \ (Hidden \cup Audited)
Stamped(o) == Columns[o.model] \cap Audited

Add(r, o) == [s \in DOMAIN r \cup {Slug(o)} |-> IF s = Slug(o) THEN o ELSE r[s]]

SiteInit == registry = [s \in {} |-> None] /\ threw = FALSE

\* register: throws for a configuration that is not acceptable or a slug in use
Register(o) ==
  IF Acceptable(o) /\ Slug(o) \notin DOMAIN registry
  THEN registry' = Add(registry, o) /\ threw' = FALSE
  ELSE threw' = TRUE /\ UNCHANGED registry

Unregister(slug) ==
  /\ threw' = (slug \notin DOMAIN registry)
  /\ registry' = [s \in DOMAIN registry \ {slug} |-> registry[s]]

\* automap: the models in their order, without options that name columns.  The
\* first one that throws ends the call; what was registered before it stays.
Plain(table) ==
  [model |-> table, slug |-> None, named |-> {}, readonly |-> {}, ordering |-> None,
   uploads |-> {}, storage |-> FALSE, actions |-> <<>>]

Automap(call) ==
  LET wanted == {i \in DOMAIN call.tables : call.tables[i] \notin call.exclude}
      clash == {i \in wanted : \/ call.tables[i] \in DOMAIN registry
                              \/ \E j \in wanted : j < i /\ call.tables[j] = call.tables[i]}
      reached == {i \in wanted : call.skip \/ \A j \in clash : i < j}
      added == {call.tables[i] : i \in reached} \ DOMAIN registry
  IN /\ registry' = [s \in DOMAIN registry \cup added |->
                       IF s \in added THEN Plain(s) ELSE registry[s]]
     /\ threw' = (~call.skip /\ clash # {})

Slugs == {Slug(o) : o \in Options} \cup DOMAIN Columns

SiteNext ==
  \/ \E o \in Options : Register(o)
  \/ \E s \in Slugs : Unregister(s)
  \/ \E call \in Automaps : Automap(call)

-----------------------------------------------------------------------------

Init == WalkInit /\ SiteInit

Next ==
  \/ WalkNext /\ UNCHANGED config
  \/ SiteNext /\ UNCHANGED walk

Spec == Init /\ [][Next]_vars

-----------------------------------------------------------------------------

WalkTypeOK ==
  /\ site \in Sites /\ granted \in Policies
  /\ page \in [path : {"dashboard", "logs", "sql", "tasks", "task", "error", "login",
                      "list", "new", "edit", "import", "detail"},
               slug : DOMAIN site \cup {"-"}, what : {"-", "running", "ended"}]

\* The doors of a page are open and do what they say, but for what an inline
\* shows of a child: its links ask the child for VIEW, which the block does not,
\* and its delete boxes are drawn whether or not the policy lets the rows go.
DoorsOpen ==
  \A door \in PageDoors :
    /\ \/ Status(site, granted, door) = 200
       \/ page.path = "detail" /\ door \in InlinesOf(page.slug) /\ ~May(door.slug, "view")
    /\ door.path = "tick" =>
         (InlineDeletes(site, granted, door.slug, door.what) <=> May(door.what, "delete"))

\* what may be done to the model of the page, of all that could be
Answering(paths) ==
  {d \in [path : paths, slug : {page.slug},
          what : {"-", "activate", "deactivate", "delete"} \cup site[page.slug].customs
                   \cup {i.slug : i \in site[page.slug].inlines}]
     : /\ Status(site, granted, d) = 200
       /\ d.path \notin {"bulk", "inlines"} => d.what = "-"}

\* Nothing an operator may do to a model is hidden from him: the list and the
\* detail page offer it.
NothingHidden ==
  /\ page.path = "list" => Answering({"new", "import", "bulk", "export"}) \subseteq PageDoors
  /\ page.path = "detail" => Answering({"edit", "delete", "inlines"}) \subseteq PageDoors

\* "The panel never shows a door that answers an error" (docs/recipes/admin.en.md).
NoDoorAnswersAnError == page.path # "error"

SiteTypeOK == DOMAIN registry \subseteq Slugs /\ threw \in BOOLEAN

\* Whatever was registered, removed and mapped, and whichever calls threw on the
\* way, each page stands under its own slug, what it lists, edits, orders by and
\* stamps are columns of its model, no form offers a column the panel fills in
\* itself or the configuration calls read-only, and a file has where to go.
PagesAreSound ==
  \A s \in DOMAIN registry :
    LET o == registry[s]
        known == Columns[o.model] IN
    /\ Slug(o) = s
    /\ Listed(o) \cup Editable(o) \cup Detailed(o) \cup ({OrderKey(o)} \ {None}) \subseteq known
    /\ Editable(o) \cap (Fixed \cup o.readonly) = {}
    /\ Listed(o) \cap Hidden \subseteq o.named
    /\ Stamped(o) \cap Detailed(o) = {}
    /\ o.uploads # {} => o.storage
=============================================================================
