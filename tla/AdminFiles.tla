----------------------------- MODULE AdminFiles -----------------------------
(***************************************************************************)
(* Files in and out of the admin panel, each a question of its own.        *)
(*                                                                         *)
(* CSV (admin/router.ts: csvField, toCsv, parseCsv): a text is a sequence  *)
(* of characters, "q" the quote, "," the separator, "r" and "n" the ends   *)
(* of lines, " " a blank, "a" any other.  Texts come from the export or    *)
(* from a spreadsheet, whose lines may end otherwise.                      *)
(*                                                                         *)
(* A multipart form on its way in (admin/multipart.ts): busboy's events,   *)
(* in the order of the body, and the one promise they settle.  busboy is   *)
(* external: it cuts a file off at the size limit and says so, skips the   *)
(* files over the count limit and says so once, fails on a broken body,    *)
(* and closes at the end.  A client that goes away in the middle ends the  *)
(* pipe without any event.                                                 *)
(***************************************************************************)
EXTENDS Naturals, Sequences, SequencesExt

CONSTANTS
  Tables,       \* the tables that are written: sequences of rows of two cells
  Bodies,       \* sequences of parts [name, kind, value, size], kind "field", "file" or
                \* "nameless" (a file control that was left empty sends such a part)
  MaxBytes, MaxFiles   \* the limits

AdminFilesAssumption == MaxBytes \in Nat \ {0} /\ MaxFiles \in Nat \ {0}

VARIABLES
  table, eol,   \* what is written, and how its lines end
  text,         \* the file
  records,      \* what was read of it
  parts,        \* what is still to be read of the body
  sent,         \* history: the whole body
  open,         \* the file being read: its part and the bytes so far, or NoFile
  seen,         \* files begun
  fields,       \* name -> its last value
  files,        \* files read to the end
  outcome       \* "pending", "resolved", "rejected"

csv == <<table, eol, text, records>>
upload == <<parts, sent, open, seen, fields, files, outcome>>
vars == <<csv, upload>>

Header == <<<<"h">>, <<"k">>>>
Unread == <<"unread">>

NoFile == [name |-> "", kind |-> "none", value |-> "", size |-> 0]
NoFields == [name \in {} |-> ""]

CsvInit ==
  /\ table \in Tables
  /\ eol \in {<<"r", "n">>, <<"n">>, <<"r">>}
  /\ text = Unread /\ records = Unread

UploadInit ==
  /\ sent \in Bodies /\ parts = sent
  /\ open = [part |-> NoFile, bytes |-> 0] /\ seen = 0
  /\ fields = NoFields /\ files = <<>> /\ outcome = "pending"

Init == CsvInit /\ UploadInit

-----------------------------------------------------------------------------
(* csvField and toCsv                                                     *)

Special(field) == \E i \in DOMAIN field : field[i] \in {"q", ",", "r", "n"}

CsvField(field) ==
  IF ~Special(field) THEN field
  ELSE <<"q">> \o FoldLeft(LAMBDA out, c : out \o (IF c = "q" THEN <<"q", "q">> ELSE <<c>>),
                           <<>>, field) \o <<"q">>

Line(row) == CsvField(row[1]) \o <<",">> \o CsvField(row[2])

\* toCsv ends every line with CRLF, the last one too
ToCsv(rows, end, closed) ==
  LET lines == [i \in 1 .. Len(rows) |->
                  Line(rows[i]) \o (IF i < Len(rows) \/ closed THEN end ELSE <<>>)]
  IN FoldLeft(LAMBDA out, line : out \o line, <<>>, lines)

-----------------------------------------------------------------------------
(* parseCsv: one pass over the characters, with one character of lookahead.*)

Start == [rows |-> <<>>, row |-> <<>>, field |-> <<>>, quoted |-> FALSE, skip |-> FALSE]

EndField(s) == [s EXCEPT !.row = Append(@, s.field), !.field = <<>>]
EndRow(s) == [EndField(s) EXCEPT !.rows = Append(@, Append(s.row, s.field)), !.row = <<>>]
Put(s, c) == [s EXCEPT !.field = Append(@, c)]

\* faulty variant: a quote inside a quoted field always ends it
ReadQuotedOnce(s, c, next) == IF c = "q" THEN [s EXCEPT !.quoted = FALSE] ELSE Put(s, c)

ReadQuoted(s, c, next) ==
  CASE c = "q" /\ next = "q" -> [Put(s, "q") EXCEPT !.skip = TRUE]
    [] c = "q" /\ next # "q" -> [s EXCEPT !.quoted = FALSE]
    [] OTHER -> Put(s, c)

ReadPlain(s, c, next) ==
  CASE c = "q" -> [s EXCEPT !.quoted = TRUE]
    [] c = "," -> EndField(s)
    [] c \in {"r", "n"} -> [EndRow(s) EXCEPT !.skip = c = "r" /\ next = "n"]
    [] OTHER -> Put(s, c)

Read(s, c, next) ==
  IF s.skip THEN [s EXCEPT !.skip = FALSE]
  ELSE IF s.quoted THEN ReadQuoted(s, c, next) ELSE ReadPlain(s, c, next)

AllRows(source) ==
  LET s == FoldLeftDomain(LAMBDA acc, i :
             Read(acc, source[i], IF i < Len(source) THEN source[i + 1] ELSE "end"),
             Start, source)
  IN IF s.field # <<>> \/ s.row # <<>> THEN EndRow(s).rows ELSE s.rows

BlankRow(row) == \A i \in DOMAIN row : \A j \in DOMAIN row[i] : row[i][j] \in {" ", "r", "n"}

\* the records, without the header and the blank rows
ParseCsv(source) == SelectSeq(Tail(AllRows(source)), LAMBDA row : ~BlankRow(row))

Export ==
  /\ text = Unread
  /\ \E closed \in BOOLEAN : text' = ToCsv(<<Header>> \o table, eol, closed)
  /\ UNCHANGED <<table, eol, records>>

Import ==
  /\ text # Unread /\ records = Unread
  /\ records' = ParseCsv(text)
  /\ UNCHANGED <<table, eol, text>>

CsvNext == Export \/ Import

-----------------------------------------------------------------------------
(* parseMultipart                                                         *)

Reading == open.part # NoFile

\* the first event to settle the promise wins
Fail == outcome' = IF outcome = "pending" THEN "rejected" ELSE outcome

Field ==
  /\ ~Reading /\ parts # <<>> /\ Head(parts).kind = "field"
  /\ fields' = [n \in DOMAIN fields \cup {Head(parts).name} |->
                  IF n = Head(parts).name THEN Head(parts).value ELSE fields[n]]
  /\ parts' = Tail(parts)
  /\ UNCHANGED <<sent, open, seen, files, outcome>>

OpenFile ==
  /\ ~Reading /\ parts # <<>> /\ Head(parts).kind # "field"
  /\ seen' = seen + 1
  /\ IF seen < MaxFiles
     THEN open' = [part |-> Head(parts), bytes |-> 0] /\ UNCHANGED <<parts, outcome>>
     ELSE parts' = Tail(parts) /\ Fail /\ UNCHANGED open
  /\ UNCHANGED <<sent, fields, files>>

\* faulty variant: too large a file is taken as far as it was read
DataQuietly ==
  /\ Reading /\ open.bytes < open.part.size
  /\ open' = IF open.bytes < MaxBytes THEN [open EXCEPT !.bytes = @ + 1]
             ELSE [open EXCEPT !.part.size = open.bytes]
  /\ UNCHANGED <<parts, sent, seen, fields, files, outcome>>

\* a byte of the file, or the news that it has too many
Data ==
  /\ Reading /\ open.bytes < open.part.size
  /\ IF open.bytes < MaxBytes
     THEN open' = [open EXCEPT !.bytes = @ + 1] /\ UNCHANGED outcome
     ELSE open' = [open EXCEPT !.part.size = open.bytes] /\ Fail
  /\ UNCHANGED <<parts, sent, seen, fields, files>>

\* a file without a name or without bytes is left out
EndFile ==
  /\ Reading /\ open.bytes = open.part.size
  /\ files' = IF open.part.kind = "nameless" \/ open.bytes = 0 THEN files
              ELSE Append(files, [field |-> open.part.name, size |-> open.bytes])
  /\ open' = [part |-> NoFile, bytes |-> 0] /\ parts' = Tail(parts)
  /\ UNCHANGED <<sent, seen, fields, outcome>>

\* the body breaks off; whatever busboy has open ends here
Broken ==
  /\ parts # <<>> /\ Fail /\ parts' = <<>>
  /\ open' = [part |-> NoFile, bytes |-> 0]
  /\ UNCHANGED <<sent, seen, fields, files>>

Close ==
  /\ ~Reading /\ parts = <<>> /\ outcome = "pending"
  /\ outcome' = "resolved"
  /\ UNCHANGED <<parts, sent, open, seen, fields, files>>

UploadNext == Field \/ OpenFile \/ Data \/ EndFile \/ Broken \/ Close

Next ==
  \/ CsvNext /\ UNCHANGED upload
  \/ UploadNext /\ UNCHANGED csv

Spec == Init /\ [][Next]_vars

-----------------------------------------------------------------------------

\* What is exported is imported, cell by cell, whatever a cell holds and however the
\* lines end; rows without any text are dropped.
CsvRoundTrip ==
  records # Unread => records = SelectSeq(table, LAMBDA row : ~BlankRow(row))

TypeOK == outcome \in {"pending", "resolved", "rejected"} /\ open.bytes \in 0 .. MaxBytes

\* What a handler gets is the whole submission: every named file that has bytes, as
\* long as it was sent, and the last value of every field - or the promise rejects.
\* A file cut off at the limit does not get through although it is read to its end.
SubmissionIsWhole ==
  outcome = "resolved" =>
    LET named == SelectSeq(sent, LAMBDA p : p.kind = "file" /\ p.size > 0)
        texts == SelectSeq(sent, LAMBDA p : p.kind = "field")
    IN /\ files = [i \in DOMAIN named |-> [field |-> named[i].name, size |-> named[i].size]]
       /\ DOMAIN fields = {texts[i].name : i \in DOMAIN texts}
       /\ \A n \in DOMAIN fields :
            fields[n] = texts[SelectLastInSeq(texts, LAMBDA p : p.name = n)].value
=============================================================================
