--------------------------------- MODULE Logs ---------------------------------
(***************************************************************************)
(* The log files: JSONLogger and its sinks (core/logging.ts), the files of *)
(* configureFileLogging (utils/log.ts), and who turns their pages, through *)
(* makeLogsRouter (api/logs.ts) or the panel's log page (admin/router.ts). *)
(* A record is its number in the order of logging.                         *)
(***************************************************************************)
EXTENDS Naturals, Sequences, FiniteSets, SequencesExt, FiniteSetsExt

CONSTANTS
  Kinds,     \* the records the code logs: [level, marked]
  Threshold, \* the loggers' level
  Source,    \* the source the reader asks for
  PageSize,
  MaxLogs,   \* bound: records logged
  MaxOpens   \* bound: calls of configureFileLogging

Levels == <<"debug", "info", "warning", "error">>
LevelFiles == {"debug", "info", "warning", "error"}
Files == LevelFiles \cup {"500"}

LogsAssumption ==
  /\ Kinds \subseteq [level : LevelFiles, marked : BOOLEAN]
  /\ Threshold \in LevelFiles /\ Source \in Files \cup {"all"}
  /\ PageSize \in Nat \ {0} /\ {MaxLogs, MaxOpens} \subseteq Nat

VARIABLES
  logged,   \* the records, in order
  handles,  \* the calls of configureFileLogging: [attached, since, until]
  pending,  \* handle -> file -> what its stream has not written yet
  files,    \* file -> the records written, in order
  reader    \* [page, pages, met, first]: the page wanted (0: at rest), the page
            \* count told last, the records met, those in the files at page 1

vars == <<logged, handles, pending, files, reader>>

Init ==
  /\ logged = <<>> /\ handles = <<>> /\ pending = <<>>
  /\ files = [f \in Files |-> <<>>]
  /\ reader = [page |-> 0, pages |-> 0, met |-> {}, first |-> {}]

Order(level) == CHOOSE i \in DOMAIN Levels : Levels[i] = level

Attached == {h \in DOMAIN handles : handles[h].attached}

\* the sink: the file of the level, and 500.log for a marked record
FilesOf(record) == {record.level} \cup (IF record.marked THEN {"500"} ELSE {})

\* configureFileLogging, and close() of one of its handles
Configure ==
  /\ Len(handles) < MaxOpens
  /\ handles' = Append(handles, [attached |-> TRUE, since |-> Len(logged), until |-> 0])
  /\ pending' = Append(pending, [f \in Files |-> <<>>])
  /\ UNCHANGED <<logged, files, reader>>

\* faulty variant: destroys the streams instead of ending them
CloseAbruptly(h) ==
  /\ h \in Attached
  /\ handles' = [handles EXCEPT ![h].attached = FALSE, ![h].until = Len(logged)]
  /\ pending' = [pending EXCEPT ![h] = [f \in Files |-> <<>>]]
  /\ UNCHANGED <<logged, files, reader>>

Close(h) ==
  /\ h \in Attached
  /\ handles' = [handles EXCEPT ![h] =
                  [attached |-> FALSE, since |-> @.since, until |-> Len(logged)]]
  /\ UNCHANGED <<logged, pending, files, reader>>

\* JSONLogger.log
Log(record) ==
  /\ Len(logged) < MaxLogs /\ Order(record.level) >= Order(Threshold)
  /\ logged' = Append(logged, record)
  /\ pending' = [h \in DOMAIN pending |-> [f \in Files |->
       IF h \in Attached /\ f \in FilesOf(record)
       THEN Append(pending[h][f], Len(logged) + 1) ELSE pending[h][f]]]
  /\ UNCHANGED <<handles, files, reader>>

\* a write stream writes its oldest line; until it is whole it does not parse,
\* and nobody sees it
Write(h, f) ==
  /\ pending[h][f] # <<>>
  /\ files' = [files EXCEPT ![f] = Append(@, Head(pending[h][f]))]
  /\ pending' = [pending EXCEPT ![h][f] = Tail(@)]
  /\ UNCHANGED <<logged, handles, reader>>

-----------------------------------------------------------------------------
(* Reading.  A missing file has no records; a line that does not parse is  *)
(* left out.                                                               *)

\* all the levels' files, one after the other; 500.log only repeats
ReadEntries(source) ==
  IF source = "all"
  THEN files["debug"] \o files["info"] \o files["warning"] \o files["error"]
  ELSE files[source]

Shown(source) == Reverse(ReadEntries(source))

\* faulty variant: forgets the last, incomplete page
FullPagesOf(entries) == Len(entries) \div PageSize

PagesOf(entries) == (Len(entries) + PageSize - 1) \div PageSize

PageOf(entries, page) ==
  SubSeq(entries, (page - 1) * PageSize + 1, Min({page * PageSize, Len(entries)}))

\* handler: one page; the panel's log page cuts the same list the same way
ReadPage ==
  /\ reader.page # 0
  /\ LET entries == Shown(Source)
         pages == PagesOf(entries)
     IN reader' = [page |-> IF reader.page < pages THEN reader.page + 1 ELSE 0,
                   pages |-> pages,
                   met |-> reader.met \cup ToSet(PageOf(entries, reader.page)),
                   first |-> IF reader.page = 1 THEN ToSet(entries) ELSE reader.first]
  /\ UNCHANGED <<logged, handles, pending, files>>

StartReading ==
  /\ reader.page = 0 /\ reader.met = {}
  /\ reader' = [reader EXCEPT !.page = 1]
  /\ UNCHANGED <<logged, handles, pending, files>>

Next ==
  \/ Configure
  \/ \E h \in DOMAIN handles : Close(h) \/ \E f \in Files : Write(h, f)
  \/ \E record \in Kinds : Log(record)
  \/ StartReading \/ ReadPage

Spec == Init /\ [][Next]_vars

-----------------------------------------------------------------------------

TypeOK ==
  /\ logged \in Seq(Kinds) /\ Len(logged) <= MaxLogs
  /\ Len(handles) \in 0 .. MaxOpens /\ DOMAIN pending = DOMAIN handles
  /\ files \in [Files -> Seq(1 .. MaxLogs)]
  /\ {reader.met, reader.first} \subseteq SUBSET (1 .. MaxLogs)

\* Who turns the pages from the first to the last meets every record that was
\* there when the first page was read, although records are appended between
\* the pages ("newest first", makeLogsRouter).
NoRecordIsSkipped == reader.page = 0 => reader.first \subseteq reader.met

\* A file holds what belongs in it: each record logged while a handle was
\* attached is, once per such handle, in the file of its level and, marked, in
\* 500.log as well, or waiting in the handle's stream, which keeps the order of
\* logging; a handle closed in the middle loses none.
StreamsAscend ==
  \A h \in DOMAIN handles, f \in Files : \A i, j \in DOMAIN pending[h][f] :
    i < j => pending[h][f][i] < pending[h][f][j]

Counted(record, f) ==
  Cardinality({i \in DOMAIN files[f] : files[f][i] = record})
  + Cardinality({h \in DOMAIN handles : \E i \in DOMAIN pending[h][f] :
                                          pending[h][f][i] = record})
Watching(record) ==
  {h \in DOMAIN handles : /\ handles[h].since < record
                          /\ handles[h].attached \/ record <= handles[h].until}
FilesAreComplete ==
  /\ StreamsAscend
  /\ \A record \in DOMAIN logged, f \in Files :
       Counted(record, f) = IF f \in FilesOf(logged[record])
                            THEN Cardinality(Watching(record)) ELSE 0

\* docs/recipes/downloads-logs.en.md:74: "serves the files paginated (newest
\* first)".  Not the source "all", the default, which shows file after file.
NewestFirst ==
  \A i, j \in DOMAIN Shown(Source) : i < j => Shown(Source)[i] >= Shown(Source)[j]
=============================================================================
