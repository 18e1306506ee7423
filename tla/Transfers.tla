------------------------------ MODULE Transfers ------------------------------
(***************************************************************************)
(* What travels in pieces: file downloads with a Range header and the path *)
(* they are served from (src/src/utils/download.ts), and the Link header   *)
(* of a paginated list (schemas/linkHeaders.ts), followed by a client.     *)
(***************************************************************************)
EXTENDS Integers, Sequences, FiniteSets, FiniteSetsExt, SequencesExt

CONSTANTS
  MaxSize, \* bound: the size of a file
  MaxAsk,  \* bound: the numbers of a Range header
  Names,   \* the names of a path's segments
  MaxPath, \* bound: segments of a path
  MaxPages \* bound: pages of a list

TransfersAssumption ==
  {MaxSize, MaxAsk, MaxPath, MaxPages} \subseteq Nat /\ Names \cap {"..", "."} = {}

VARIABLES
  ask,   \* the request: [size, start, end] with -1 for what it leaves out
  path,  \* the path asked for
  pages, \* how many pages the list has
  page,  \* the page the client is on
  seen   \* the pages it has seen

vars == <<ask, path, pages, page, seen>>

-----------------------------------------------------------------------------
(* Ranges                                                                  *)

None == [start |-> 0, end |-> -1]

\* faulty variant: the last byte may be the size
RangeToTheSize(a) ==
  LET start == IF a.start # -1 THEN a.start ELSE Max({0, a.size - a.end})
      end == IF a.start = -1 \/ a.end = -1 THEN a.size - 1 ELSE Min({a.end, a.size})
  IN IF (a.start = -1 /\ a.end = -1) \/ start > end \/ start >= a.size THEN None
     ELSE [start |-> start, end |-> end]

\* parseRange: bytes=a-b, bytes=a- and the suffix bytes=-n; None serves the file
ParseRange(a) ==
  LET start == IF a.start # -1 THEN a.start ELSE Max({0, a.size - a.end})
      end == IF a.start = -1 \/ a.end = -1 THEN a.size - 1 ELSE Min({a.end, a.size - 1})
  IN IF (a.start = -1 /\ a.end = -1) \/ start > end \/ start >= a.size THEN None
     ELSE [start |-> start, end |-> end]

\* sendFileDownload: the status, the bytes and the length it announces
Download(a) ==
  LET range == ParseRange(a) IN
  IF range # None
  THEN [status |-> 206, bytes |-> range.start .. range.end,
        length |-> range.end - range.start + 1]
  ELSE [status |-> 200, bytes |-> 0 .. a.size - 1, length |-> a.size]

\* the bytes an ask is about, written without the code's arithmetic
Asked(a) ==
  CASE a.start = -1 -> {b \in 0 .. a.size - 1 : Cardinality(b .. a.size - 1) <= a.end}
    [] a.start # -1 /\ a.end = -1 -> {b \in 0 .. a.size - 1 : b >= a.start}
    [] OTHER -> {b \in 0 .. a.size - 1 : a.start <= b /\ b <= a.end}

-----------------------------------------------------------------------------
(* Paths                                                                   *)

\* join and normalize: ".." takes the last segment back, at the front it stays
Normal(segments) ==
  FoldLeft(LAMBDA acc, s : IF s = "." THEN acc
                           ELSE IF s = ".." /\ acc # <<>> /\ Last(acc) # ".."
                                THEN Front(acc) ELSE Append(acc, s),
           <<>>, segments)

\* relative: up from what of base is not shared, then down to the target
Relative(base, target) ==
  LET shared == Max({n \in 0 .. Min({Len(base), Len(target)}) :
                       SubSeq(base, 1, n) = SubSeq(target, 1, n)})
  IN [i \in 1 .. Len(base) - shared |-> ".."] \o SubSeq(target, shared + 1, Len(target))

Root == <<"root">>

\* faulty variant: asks whether the path as given begins with ".."
EscapesAsGiven(segments) == segments # <<>> /\ Head(segments) = ".."

\* the way from the root to the target begins by leaving it
Escapes(segments) ==
  LET rel == Relative(Root, Normal(Root \o segments))
  IN rel # <<>> /\ Head(rel) = ".."

\* resolveDownloadPath: an escape throws (the empty path)
ResolveDownloadPath(segments) ==
  IF Escapes(segments) THEN <<>> ELSE Normal(Root \o segments)

-----------------------------------------------------------------------------
(* The Link header                                                         *)

\* faulty variant: the last page has a next one
LinksPastTheEnd(n, p) ==
  [rel \in {"first", "last"} \cup (IF p > 1 THEN {"prev"} ELSE {})
           \cup (IF p <= n THEN {"next"} ELSE {}) |->
     CASE rel = "first" -> 1 [] rel = "last" -> n
       [] rel = "prev" -> p - 1 [] rel = "next" -> p + 1]

\* buildPaginationLinkHeader: each relation and its page; no header for no pages
Links(n, p) ==
  IF n <= 0 THEN [rel \in {} |-> 0]
  ELSE [rel \in {"first", "last"} \cup (IF p > 1 THEN {"prev"} ELSE {})
                \cup (IF p < n THEN {"next"} ELSE {}) |->
          CASE rel = "first" -> 1 [] rel = "last" -> n
            [] rel = "prev" -> p - 1 [] rel = "next" -> p + 1]

-----------------------------------------------------------------------------

Asks == [size : 0 .. MaxSize, start : -1 .. MaxAsk, end : -1 .. MaxAsk]

\* one of the three is asked for
Init ==
  /\ page = 1 /\ seen = {}
  /\ \/ ask \in Asks /\ path = <<>> /\ pages = 0
     \/ ask = [size |-> 0, start |-> -1, end |-> -1]
        /\ path \in BoundedSeq(Names \cup {"..", "."}, MaxPath) /\ pages \in 0 .. MaxPages

\* the client sees its page and follows one of the links
Follow ==
  /\ \E rel \in DOMAIN Links(pages, page) : page' = Links(pages, page)[rel]
  /\ seen' = seen \cup {page}
  /\ UNCHANGED <<ask, path, pages>>

Spec == Init /\ [][Follow]_vars

-----------------------------------------------------------------------------

TypeOK == page \in 0 .. MaxPages + 1 /\ seen \subseteq 0 .. MaxPages + 1

\* A download serves the bytes that were asked for, all of them and of nothing
\* else, and announces as many as it sends; what cannot be served so is answered
\* with the whole file.
DownloadsAreExact ==
  LET d == Download(ask) IN
  /\ Cardinality(d.bytes) = d.length
  /\ d.status = 206 => d.bytes = Asked(ask) /\ d.bytes # {}
  /\ d.status = 200 => /\ d.bytes = 0 .. ask.size - 1
                       /\ (ask.start = -1 /\ ask.end = -1) \/ Asked(ask) = {}

\* A path that resolves stays under the root, however its ".." and "." are mixed.
PathsStayUnderTheRoot ==
  LET target == ResolveDownloadPath(path) IN
  target # <<>> => Head(target) = "root" /\ ".." \notin ToSet(target)

\* Whoever follows the links of a list stays on its pages, and from any of them
\* can go on to the last and back to the first.
LinksLeadThrough ==
  /\ pages > 0 => page \in 1 .. pages
  /\ pages > 0 => ("next" \in DOMAIN Links(pages, page) <=> page # pages)
  /\ pages > 0 => ("prev" \in DOMAIN Links(pages, page) <=> page # 1)
=============================================================================
