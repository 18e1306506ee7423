----------------------------- MODULE AdminPanel -----------------------------
(***************************************************************************)
(* Signing in to the admin panel and writing through it (admin/router.ts,  *)
(* admin/session.ts, admin/auth.ts): one browser with one cookie jar and   *)
(* several tabs, accounts that are deactivated, brought back and enrolled  *)
(* for a second factor, requests that await the database between their     *)
(* guards.  A session is the signed cookie itself; the server keeps none.  *)
(*                                                                         *)
(* A tab shows at most one page, whose forms carry the token of the        *)
(* session it was rendered under.  A request is its operation, where it    *)
(* stands, the cookie it came with and the page it was sent from.          *)
(***************************************************************************)
EXTENDS Naturals, FiniteSets

CONSTANTS
  Accounts, Tabs, Rows,
  Granted,      \* what flags and policy allow each account: operations
  Importable,   \* rows of an uploaded CSV file
  MaxLogins, MaxFiles, MaxRequests, MaxChanges   \* bounds

Operations == {"create", "edit", "delete", "bulk", "import"}

ASSUME AdminPanelAssumption ==
  /\ Granted \in [Accounts -> SUBSET Operations]
  /\ Importable \in Nat /\ MaxLogins \in Nat /\ MaxFiles \in Nat
  /\ MaxRequests \in Nat /\ MaxChanges \in Nat

VARIABLES
  account,   \* Accounts -> [active, enrolled]
  cookie,    \* the browser's session, or NoSession
  tab,       \* Tabs -> the page it shows, or NoPage
  request,   \* Tabs -> the request it waits for, or Idle
  row,       \* Rows -> the row
  writer,    \* history: Rows -> who created it, who last edited it, and whether the key
             \* of its file is one that a CSV file told
  files,     \* keys in the upload storage
  tokens, requests, changes   \* counters of the bounds

vars == <<account, cookie, tab, request, row, writer, files, tokens, requests, changes>>

Nobody == "nobody"
NoSession == [subject |-> Nobody, token |-> 0, mfa |-> FALSE]
NoPage == [shownTo |-> Nobody, token |-> 0]
Idle == [op |-> "idle", pc |-> "idle", session |-> NoSession, page |-> NoPage,
         arg |-> Nobody, file |-> 0, left |-> 0, gone |-> FALSE]
NoRow == [live |-> FALSE, active |-> FALSE, createdBy |-> Nobody, updatedBy |-> Nobody,
          file |-> 0]
NoWriter == [creator |-> Nobody, editor |-> Nobody, told |-> FALSE]

Init ==
  /\ account \in [Accounts -> [active : BOOLEAN, enrolled : BOOLEAN]]
  /\ cookie = NoSession
  /\ tab = [t \in Tabs |-> NoPage] /\ request = [t \in Tabs |-> Idle]
  /\ writer \in [Rows -> {NoWriter} \cup [creator : Accounts, editor : Accounts,
                                          told : {FALSE}]]
  /\ row = [r \in Rows |->
       IF writer[r] = NoWriter THEN NoRow
       ELSE [live |-> TRUE, active |-> TRUE, createdBy |-> writer[r].creator,
             updatedBy |-> writer[r].editor, file |-> 0]]
  /\ files = {}
  /\ tokens = 0 /\ requests = 0 /\ changes = 0

-----------------------------------------------------------------------------
(* The browser.                                                            *)

Send(t, op, arg, file, left) ==
  /\ request[t] = Idle /\ requests < MaxRequests
  /\ requests' = requests + 1
  /\ request' = [request EXCEPT ![t] =
       [op |-> op, pc |-> "load", session |-> cookie, page |-> tab[t], arg |-> arg,
        file |-> file, left |-> left,
        gone |-> cookie # NoSession /\ ~account[cookie.subject].active]]
  /\ UNCHANGED <<account, cookie, tab, row, writer, files, tokens, changes>>

\* the login page has no session to guard; without a cookie every other route
\* redirects to it at once
SendLogin(t, a) == Send(t, "login", a, 0, 0)
SendMfa(t) == cookie # NoSession /\ ~cookie.mfa /\ Send(t, "mfa", Nobody, 0, 0)
Open(t) == cookie # NoSession /\ Send(t, "open", Nobody, 0, 0)

SubmitForm(t) ==
  /\ cookie # NoSession /\ tab[t] # NoPage
  /\ \/ \E file \in {0, Cardinality(files) + 1} :
          file <= MaxFiles /\ Send(t, "create", Nobody, file, 0)
     \/ \E r \in Rows, file \in {0, Cardinality(files) + 1} :
          file <= MaxFiles /\ Send(t, "edit", r, file, 0)
     \/ \E r \in Rows, op \in {"delete", "bulk"} : Send(t, op, r, 0, 0)
     \/ Send(t, "import", Nobody, 0, Importable)

At(t, pc) == request[t].pc = pc
Subject(t) == request[t].session.subject
Goto(t, pc) == request' = [request EXCEPT ![t].pc = pc]
Answer(t) == request' = [request EXCEPT ![t] = Idle]

\* logout compares the token and clears the cookie without any await
Logout(t) ==
  /\ request[t] = Idle /\ cookie # NoSession /\ tab[t].token = cookie.token
  /\ cookie' = NoSession /\ tab' = [tab EXCEPT ![t] = NoPage]
  /\ UNCHANGED <<account, request, row, writer, files, tokens, requests, changes>>

\* the cookie's age is over: the browser drops it and load() refuses it
Expire ==
  /\ cookie # NoSession /\ cookie' = NoSession
  /\ UNCHANGED <<account, tab, request, row, writer, files, tokens, requests, changes>>

-----------------------------------------------------------------------------
(* The handlers, from one await to the next.                               *)

\* UserModelAuthBackend: an active row with isAdmin
Admits(a) == account[a].active

\* backend.authenticate: the row is read, then the password verified
Authenticate(t) ==
  /\ At(t, "load") /\ request[t].op = "login"
  /\ IF Admits(request[t].arg) THEN Goto(t, "issue") ELSE Answer(t)
  /\ UNCHANGED <<account, cookie, tab, row, writer, files, tokens, requests, changes>>

MfaEnabled(a) == account[a].enrolled

\* AdminSessionStore.issue: a session has a token of its own
NewSession(a, passed) == [subject |-> a, token |-> tokens + 1, mfa |-> passed]

Issue(t) ==
  /\ At(t, "issue") /\ tokens < MaxLogins
  /\ tokens' = tokens + 1
  /\ cookie' = NewSession(request[t].arg, ~MfaEnabled(request[t].arg))
  /\ Answer(t)
  /\ UNCHANGED <<account, tab, row, writer, files, requests, changes>>

\* the second factor: the principal is looked up, then its code is verified
FindPrincipal(t) ==
  /\ At(t, "load") /\ request[t].op = "mfa"
  /\ IF Admits(Subject(t)) THEN Goto(t, "verify") ELSE Answer(t)
  /\ UNCHANGED <<account, cookie, tab, row, writer, files, tokens, requests, changes>>

\* the answer's cookie replaces whatever the browser has now
VerifyMfa(t) ==
  /\ At(t, "verify")
  /\ \E right \in BOOLEAN :
       cookie' = IF right /\ MfaEnabled(Subject(t))
                 THEN [request[t].session EXCEPT !.mfa = TRUE] ELSE cookie
  /\ Answer(t)
  /\ UNCHANGED <<account, tab, row, writer, files, tokens, requests, changes>>

\* faulty variant: the principal is not looked up again
TrustCookie(t) ==
  /\ At(t, "load") /\ request[t].op \notin {"login", "mfa"}
  /\ IF request[t].session.mfa THEN Goto(t, "gate") ELSE Answer(t)
  /\ UNCHANGED <<account, cookie, tab, row, writer, files, tokens, requests, changes>>

\* authenticate(): a principal that no longer qualifies loses the cookie, one that
\* still owes its second factor is sent to it
LoadPrincipal(t) ==
  /\ At(t, "load") /\ request[t].op \notin {"login", "mfa"}
  /\ IF ~Admits(Subject(t)) THEN cookie' = NoSession /\ Answer(t)
     ELSE /\ IF request[t].session.mfa THEN Goto(t, "gate") ELSE Answer(t)
          /\ UNCHANGED cookie
  /\ UNCHANGED <<account, tab, row, writer, files, tokens, requests, changes>>

\* a page: its forms carry the session's token
Render(t) ==
  /\ At(t, "gate") /\ request[t].op = "open"
  /\ tab' = [tab EXCEPT ![t] = [shownTo |-> Subject(t), token |-> request[t].session.token]]
  /\ Answer(t)
  /\ UNCHANGED <<account, cookie, row, writer, files, tokens, requests, changes>>

\* faulty variant: only the routes that do not upload compare the token
TokenMatchesUnlessUpload(t) ==
  request[t].file # 0 \/ request[t].page.token = request[t].session.token

TokenMatches(t) == request[t].page.token = request[t].session.token

\* resolveAdmin, the submission and the token, an answer for each refusal; a file
\* over the cap, or a CSV that cannot be read, is answered before the token is seen
Gate(t) ==
  /\ At(t, "gate") /\ request[t].op # "open"
  /\ \E readable \in BOOLEAN :
       IF request[t].op \in Granted[Subject(t)] /\ readable /\ TokenMatches(t)
       THEN Goto(t, IF request[t].file # 0 THEN "upload" ELSE "write")
       ELSE Answer(t)
  /\ UNCHANGED <<account, cookie, tab, row, writer, files, tokens, requests, changes>>

\* applyUploads: the storage fails, or a field is in error and the file stays
Upload(t) ==
  /\ At(t, "upload")
  /\ \/ Answer(t) /\ UNCHANGED files
     \/ /\ files' = files \cup {request[t].file}
        /\ Goto(t, "write") \/ Answer(t)
  /\ UNCHANGED <<account, cookie, tab, row, writer, tokens, requests, changes>>

\* faulty variant: whoever writes last is the creator
StampBoth(r, actor, creating) == [r EXCEPT !.createdBy = actor, !.updatedBy = actor]

\* stampActor
Stamp(r, actor, creating) ==
  IF creating THEN [r EXCEPT !.createdBy = actor, !.updatedBy = actor]
  ELSE [r EXCEPT !.updatedBy = actor]

NewRow(t, file) == Stamp([NoRow EXCEPT !.live = TRUE, !.active = TRUE, !.file = file],
                         Subject(t), TRUE)

CreatedAt(t, r, file, told) ==
  /\ ~row[r].live /\ row' = [row EXCEPT ![r] = NewRow(t, file)]
  /\ writer' = [writer EXCEPT ![r] = [creator |-> Subject(t), editor |-> Subject(t),
                                     told |-> told]]

\* the database may refuse any write: the form comes back
Refused(t) ==
  /\ At(t, "write") /\ request[t].op \in {"create", "edit"} /\ Answer(t)
  /\ UNCHANGED <<account, cookie, tab, row, writer, files, tokens, requests, changes>>

Create(t) ==
  /\ At(t, "write") /\ request[t].op = "create"
  /\ \E r \in Rows : CreatedAt(t, r, request[t].file, FALSE)
  /\ Answer(t)
  /\ UNCHANGED <<account, cookie, tab, files, tokens, requests, changes>>

\* no new file keeps the current one
Edit(t) ==
  /\ At(t, "write") /\ request[t].op = "edit"
  /\ LET r == request[t].arg
         file == IF request[t].file = 0 THEN row[r].file ELSE request[t].file
     IN IF ~row[r].live THEN UNCHANGED <<row, writer>>
        ELSE /\ row' = [row EXCEPT ![r] =
                           Stamp([row[r] EXCEPT !.file = file], Subject(t), FALSE)]
             /\ writer' = [writer EXCEPT ![r].editor = Subject(t),
                                      ![r].told = @ /\ request[t].file = 0]
  /\ Answer(t)
  /\ UNCHANGED <<account, cookie, tab, files, tokens, requests, changes>>

\* of one row from its page, or of the rows ticked in the list
Delete(t) ==
  /\ At(t, "write") /\ request[t].op = "delete"
  /\ \E ids \in SUBSET Rows :
       /\ request[t].arg \in ids
       /\ row' = [r \in Rows |-> IF r \in ids THEN NoRow ELSE row[r]]
       /\ writer' = [r \in Rows |-> IF r \in ids THEN NoWriter ELSE writer[r]]
  /\ Answer(t)
  /\ UNCHANGED <<account, cookie, tab, files, tokens, requests, changes>>

\* the ticked rows, in one statement that stamps nobody
Bulk(t) ==
  /\ At(t, "write") /\ request[t].op = "bulk"
  /\ \E on \in BOOLEAN, ids \in SUBSET Rows :
       /\ request[t].arg \in ids
       /\ row' = [r \in Rows |-> IF r \in ids /\ row[r].live
                                 THEN [row[r] EXCEPT !.active = on] ELSE row[r]]
  /\ UNCHANGED writer
  /\ Answer(t)
  /\ UNCHANGED <<account, cookie, tab, files, tokens, requests, changes>>

\* the rows of the file one by one: a row in error is reported, the others go on.  A CSV
\* file has no files to save: what it tells as the key of one is stored as it is.
Import(t) ==
  /\ At(t, "write") /\ request[t].op = "import" /\ request[t].left > 0
  /\ \/ UNCHANGED <<row, writer>>
     \/ \E r \in Rows, file \in 0 .. MaxFiles : CreatedAt(t, r, file, TRUE)
  /\ request' = [request EXCEPT ![t].left = @ - 1]
  /\ UNCHANGED <<account, cookie, tab, files, tokens, requests, changes>>

ImportDone(t) ==
  /\ At(t, "write") /\ request[t].op = "import" /\ request[t].left = 0 /\ Answer(t)
  /\ UNCHANGED <<account, cookie, tab, row, writer, files, tokens, requests, changes>>

-----------------------------------------------------------------------------
(* What others do to the accounts.                                         *)

Change(a, active, enrolled) ==
  /\ changes < MaxChanges /\ changes' = changes + 1
  /\ account' = [account EXCEPT ![a] = [active |-> active, enrolled |-> enrolled]]
  /\ UNCHANGED <<cookie, tab, row, writer, files, tokens, requests>>

\* a request is marked when its account is out; it is forgiven if that ends
Deactivate(a) ==
  account[a].active /\ Change(a, FALSE, account[a].enrolled) /\ UNCHANGED request

Reactivate(a) ==
  /\ ~account[a].active /\ Change(a, TRUE, account[a].enrolled)
  /\ request' = [t \in Tabs |-> IF request[t].session.subject = a
                                THEN [request[t] EXCEPT !.gone = FALSE] ELSE request[t]]

Enroll(a) == ~account[a].enrolled /\ Change(a, account[a].active, TRUE) /\ UNCHANGED request

Write(t) == Create(t) \/ Edit(t) \/ Delete(t) \/ Bulk(t) \/ Import(t)

Next ==
  \/ \E t \in Tabs : \/ SendMfa(t) \/ Open(t) \/ SubmitForm(t) \/ Logout(t)
                     \/ Authenticate(t) \/ Issue(t) \/ FindPrincipal(t) \/ VerifyMfa(t)
                     \/ LoadPrincipal(t) \/ Render(t) \/ Gate(t) \/ Upload(t)
                     \/ Write(t) \/ Refused(t) \/ ImportDone(t)
  \/ \E t \in Tabs, a \in Accounts : SendLogin(t, a)
  \/ \E a \in Accounts : Deactivate(a) \/ Reactivate(a) \/ Enroll(a)
  \/ Expire

Spec == Init /\ [][Next]_vars

-----------------------------------------------------------------------------

Sessions == [subject : Accounts \cup {Nobody}, token : 0 .. MaxLogins, mfa : BOOLEAN]

TypeOK ==
  /\ account \in [Accounts -> [active : BOOLEAN, enrolled : BOOLEAN]]
  /\ cookie \in Sessions
  /\ tab \in [Tabs -> [shownTo : Accounts \cup {Nobody}, token : 0 .. MaxLogins]]
  /\ files \subseteq 1 .. MaxFiles /\ tokens \in 0 .. MaxLogins

\* A request about to write comes from an operator who passed the second factor,
\* may do that, and to whom the page it was sent from was shown; he was not out
\* all the time from its first moment on.  Cookies of other logins, pages of other
\* operators in another tab and accounts closed meanwhile do not get there.
WritesAreGated ==
  \A t \in Tabs :
    At(t, "write") =>
      /\ request[t].session.mfa
      /\ request[t].op \in Granted[Subject(t)]
      /\ request[t].page.shownTo = Subject(t)
      /\ ~request[t].gone

\* The columns of a row name who created it and who last edited it on its page, also after
\* writes of several operators.  The file that was uploaded for it is in the storage; a key
\* that a CSV file told may name none, until a file is uploaded in its place.
StampsNameTheWriter ==
  \A r \in Rows :
    /\ row[r].createdBy = writer[r].creator /\ row[r].updatedBy = writer[r].editor
    /\ row[r].file # 0 /\ ~writer[r].told => row[r].file \in files
=============================================================================
