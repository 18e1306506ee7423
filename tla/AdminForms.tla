----------------------------- MODULE AdminForms -----------------------------
(***************************************************************************)
(* The forms of the admin panel (admin/forms.ts, admin/columns.ts, the     *)
(* controls of admin/templates.ts): a stored value is drawn as a control,  *)
(* the browser submits it, the body is read back into the column.  Nobody  *)
(* touches the form: what comes back is what the conversions do to it.     *)
(*                                                                         *)
(* A value is what its control can show (core) and what some control       *)
(* cannot: "seconds" or the "hour" of a moment, "spaces" around a text.    *)
(* A moment typed without a zone is read in the server's, drawn in UTC.    *)
(***************************************************************************)
EXTENDS Naturals, FiniteSets

CONSTANTS
  Columns,   \* [kind, notNull, default, values, related, upload, autocomplete]
  Zone       \* "utc" or another: what the server's clock is set to

VARIABLES column, stored, way, sent, data

vars == <<column, stored, way, sent, data>>

AdminFormsAssumption == Zone \in {"utc", "other"}

Value(core, rest) == [core |-> core, rest |-> rest]
Null == Value("null", "")
Missing == Value("missing", "")    \* no such entry in the body, no such key in data
Error == Value("error", "")
Text(core) == Value(core, "")

-----------------------------------------------------------------------------
(* columns.ts                                                              *)

WidgetForColumn(c) ==
  CASE c.kind = "json" -> "json"
    [] c.kind = "boolean" -> "checkbox"
    [] c.kind = "enum" -> "select"
    [] c.kind \in {"smallint", "integer", "bigint", "numeric", "real", "double"} -> "number"
    [] c.kind \in {"datetime", "timestamp"} -> "datetime"
    [] c.kind \in {"date", "time"} -> c.kind
    [] c.kind \in {"text", "longvarchar"} -> "textarea"
    [] OTHER -> "text"

HasDefault(c) == c.default # Missing
IsColumnOptional(c) == ~c.notNull \/ HasDefault(c)
LiteralDefault(c) == IF c.default.rest = "sql" THEN Missing ELSE c.default

-----------------------------------------------------------------------------
(* buildFormFields: the control of a column and what it is filled with.    *)

WidgetOf(c) ==
  CASE c.upload -> "file"
    [] ~c.upload /\ c.autocomplete -> "autocomplete"
    [] ~c.upload /\ ~c.autocomplete /\ c.related # {} -> "select"
    [] OTHER -> WidgetForColumn(c)

OptionsOf(c) == IF c.related # {} THEN c.related ELSE c.values

ToBoolean(v) == v.core \in {"true", "on", "yes", "1"}

FormatFieldValue(widget, v) ==
  CASE v \in {Null, Missing} -> ""
    [] OTHER -> v.core

\* only these keep what is around the core until it is submitted
Around(widget, v) == IF widget \in {"text", "textarea", "json", "autocomplete"} THEN v.rest ELSE ""

Field(c, raw) ==
  LET widget == WidgetOf(c)
  IN [widget |-> widget,
      value |-> IF widget = "checkbox" THEN "" ELSE FormatFieldValue(widget, raw),
      around |-> Around(widget, raw),
      checked |-> widget = "checkbox" /\ ToBoolean(raw),
      required |-> ~IsColumnOptional(c),
      options |-> OptionsOf(c)]

-----------------------------------------------------------------------------
(* The browser (renderFormField draws the control).  A select shows the    *)
(* stored option or its first entry: the blank one, if it is not required. *)

Selected(f) ==
  IF f.value \in f.options THEN f.value
  ELSE IF f.required /\ f.options # {} THEN CHOOSE o \in f.options : TRUE ELSE ""

SubmittedBy(f) ==
  CASE f.widget = "checkbox" -> IF f.checked THEN Text("true") ELSE Missing
    [] f.widget = "select" -> Text(Selected(f))
    [] f.widget = "file" -> Missing
    [] OTHER -> Value(f.value, f.around)

\* the form is not sent while a required control is empty; a hidden one does not count
Blocked(f) ==
  /\ f.required
  /\ \/ f.widget = "file"
     \/ f.widget \notin {"checkbox", "file", "autocomplete"} /\ SubmittedBy(f).core = ""

-----------------------------------------------------------------------------
(* parseFormBody                                                           *)

\* a date is read as UTC, a moment without a zone as local time
CoerceValue(c, widget, raw) ==
  CASE widget = "select" /\ c.values # {} /\ raw \notin c.values -> Error
    [] widget = "datetime" /\ Zone # "utc" -> Value(raw, "shifted")
    [] OTHER -> Text(raw)

\* faulty variant: a missing field of a column with a default is cleared as well
ParseOrNull(c, body, uploadsAsText) ==
  LET widget == WidgetForColumn(c)
  IN CASE c.upload /\ ~uploadsAsText -> Missing
       [] (~c.upload \/ uploadsAsText) /\ widget = "checkbox" ->
            IF ToBoolean(body) THEN Text("true") ELSE Text("false")
       [] OTHER -> IF body.core \in {"", "missing"} THEN Null
                   ELSE CoerceValue(c, widget, body.core)

Parse(c, body, uploadsAsText) ==
  LET widget == WidgetForColumn(c)
      empty == body \in {Missing} \/ body.core = ""
  IN CASE c.upload /\ ~uploadsAsText -> Missing
       [] (~c.upload \/ uploadsAsText) /\ widget = "checkbox" ->
            IF ToBoolean(body) THEN Text("true") ELSE Text("false")
       [] (~c.upload \/ uploadsAsText) /\ widget # "checkbox" /\ empty ->
            IF ~IsColumnOptional(c) THEN Error
            ELSE IF HasDefault(c) /\ body = Missing THEN Missing ELSE Null
       [] OTHER -> CoerceValue(c, widget, body.core)

-----------------------------------------------------------------------------
(* One column of a form: edited, created, or in a CSV file without it.     *)

Values(c) ==
  (IF c.notNull THEN {} ELSE {Null})
    \cup CASE c.kind = "boolean" -> {Text("true"), Text("false")}
           [] c.kind = "enum" -> {Text(v) : v \in c.values \cup {"retired"}}
           [] c.related # {} -> {Text(v) : v \in c.related \cup {"beyond"}}
           [] c.kind \in {"datetime", "timestamp"} -> {Text("m"), Value("m", "seconds")}
           [] c.kind = "date" -> {Text("d"), Value("d", "hour")}
           [] c.kind \in {"text", "varchar"} -> {Text(""), Text("w"), Value("w", "spaces")}
           [] OTHER -> {Text("n")}

Init ==
  /\ column \in Columns
  /\ way \in {"edit", "create", "import"}
  /\ stored \in IF way = "edit" THEN Values(column) ELSE {Missing}
  /\ sent = "no" /\ data = Missing

Raw == IF way = "edit" THEN stored ELSE LiteralDefault(column)

Submit ==
  /\ sent = "no"
  /\ IF way # "import" /\ Blocked(Field(column, Raw))
     THEN sent' = "blocked" /\ UNCHANGED data
     ELSE /\ sent' = "yes"
          /\ data' = IF way = "import" THEN Parse(column, Missing, TRUE)
                     ELSE Parse(column, SubmittedBy(Field(column, Raw)), FALSE)
  /\ UNCHANGED <<column, stored, way>>

Next == Submit

Spec == Init /\ [][Next]_vars

-----------------------------------------------------------------------------

TypeOK ==
  /\ column \in Columns /\ way \in {"edit", "create", "import"}
  /\ sent \in {"no", "yes", "blocked"}

\* what a control cannot show, or the browser cannot send, is lost
Shown(c, v) ==
  /\ v.rest = "" /\ v # Text("")
  /\ WidgetOf(c) = "checkbox" => v # Null
  /\ WidgetOf(c) = "datetime" => Zone = "utc" \/ v = Null
  /\ WidgetOf(c) = "select" => v = Null \/ v.core \in OptionsOf(c)

\* A form that is opened and sent again changes nothing that its controls show,
\* and a new row takes its columns' defaults - from a CSV file without the column
\* too, but for a flag, which that clears.
UntouchedFormsKeep ==
  sent = "yes" =>
    /\ way = "edit" /\ Shown(column, stored) => data \in {stored, Missing}
    /\ way = "create" /\ ~column.upload /\ HasDefault(column)
         /\ LiteralDefault(column) # Missing /\ Shown(column, LiteralDefault(column)) =>
         data = LiteralDefault(column)
    /\ way = "import" /\ HasDefault(column) /\ column.kind # "boolean" => data = Missing

\* "Edit: no new file keeps the current one" (docs/recipes/admin.en.md).
FileMayStay == way = "edit" /\ column.upload /\ stored # Null => sent # "blocked"
=============================================================================
