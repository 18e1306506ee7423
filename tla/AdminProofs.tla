----------------------------- MODULE AdminProofs -----------------------------
(***************************************************************************)
(* Theorems about the admin panel: its sessions and writes (AdminPanel),   *)
(* and the parts that MCAdmin brings together, for any accounts, tabs,     *)
(* rows, grants, parents, limits, statements, policies, models, resources  *)
(* and bounds.                                                             *)
(***************************************************************************)
EXTENDS MCAdmin, FiniteSetTheorems, NaturalsInduction, FunctionTheorems, TLAPS

-----------------------------------------------------------------------------
(* Sessions and writes (AdminPanel).  What WritesAreGated needs beyond     *)
(* itself is that a token has one owner: whatever cookie, request or page  *)
(* carries it, from before or after a logout or a second login, names the  *)
(* same operator.                                                          *)

ShownPages == [shownTo : Accounts \cup {Nobody}, token : 0 .. MaxLogins]

Ops == Operations \cup {"idle", "login", "mfa", "open"}
Points == {"idle", "load", "issue", "verify", "gate", "upload", "write"}

Request ==
  [op : Ops, pc : Points, session : Sessions, page : ShownPages,
   arg : Accounts \cup Rows \cup {Nobody}, file : 0 .. MaxFiles, left : Nat,
   gone : BOOLEAN]

Row == [live : BOOLEAN, active : BOOLEAN, createdBy : Accounts \cup {Nobody},
        updatedBy : Accounts \cup {Nobody}, file : 0 .. MaxFiles]
Writer == [creator : Accounts \cup {Nobody}, editor : Accounts \cup {Nobody}, told : BOOLEAN]

Types ==
  /\ TypeOK
  /\ request \in [Tabs -> Request]
  /\ row \in [Rows -> Row]
  /\ writer \in [Rows -> Writer]

SomeoneOrNone(session) == session = NoSession \/ session.subject \in Accounts

\* What is known of a request from where it stands.
RequestKnows(t) ==
  /\ SomeoneOrNone(request[t].session)
  /\ request[t].op \notin {"idle", "login"} => request[t].session # NoSession
  /\ request[t].op = "idle" => request[t].pc = "idle"
  /\ request[t].op = "login" => request[t].arg \in Accounts
  /\ request[t].op = "login" => request[t].pc \in {"load", "issue"}
  /\ request[t].pc = "issue" => request[t].op = "login"
  /\ request[t].pc = "verify" => request[t].session # NoSession
  /\ request[t].gone => Subject(t) \in Accounts /\ ~account[Subject(t)].active
  /\ request[t].pc \in {"gate", "upload", "write"} => request[t].session.mfa /\ ~request[t].gone
  /\ request[t].pc \in {"upload", "write"} =>
       request[t].op \in Granted[Subject(t)] /\ TokenMatches(t)
  /\ request[t].pc = "upload" => request[t].file # 0
  /\ request[t].pc = "write" => request[t].file = 0 \/ request[t].file \in files

RequestsKnow == SomeoneOrNone(cookie) /\ \A t \in Tabs : RequestKnows(t)

\* own tells whose a token is
Owns(own) ==
  /\ own[0] = Nobody
  /\ cookie.token \in 0 .. tokens /\ cookie.subject = own[cookie.token]
  /\ \A t \in Tabs :
       /\ tab[t].token \in 0 .. tokens /\ tab[t].shownTo = own[tab[t].token]
       /\ request[t].session.token \in 0 .. tokens
       /\ request[t].session.subject = own[request[t].session.token]
       /\ request[t].page.token \in 0 .. tokens
       /\ request[t].page.shownTo = own[request[t].page.token]

TokensAreOwned == \E own \in [0 .. tokens -> Accounts \cup {Nobody}] : Owns(own)

IInv == Types /\ RequestsKnow /\ TokensAreOwned /\ StampsNameTheWriter

\* Every step keeps the types.
LEMMA TypesStep == IInv /\ [Next]_vars => Types'
<1> SUFFICES ASSUME IInv, [Next]_vars PROVE Types'
  OBVIOUS
<1> USE AdminPanelAssumption DEF IInv, AdminPanelAssumption
<1>0. Idle \in Request /\ NoPage \in ShownPages /\ NoSession \in Sessions
      /\ NoRow \in Row /\ NoWriter \in Writer
  <2>1. NoPage \in ShownPages /\ NoSession \in Sessions
    BY DEF NoPage, ShownPages, NoSession, Sessions
  <2>2. NoRow \in Row /\ NoWriter \in Writer
    BY DEF NoRow, Row, NoWriter, Writer
  <2>3. Idle \in Request
    BY <2>1 DEF Idle, Request, Ops, Points
  <2> QED
    BY <2>1, <2>2, <2>3
<1>a. ASSUME NEW t \in Tabs, Answer(t) PROVE request' \in [Tabs -> Request]
  BY <1>0, <1>a DEF Answer, Types
<1>b. ASSUME NEW t \in Tabs, NEW pc \in Points, Goto(t, pc) PROVE request' \in [Tabs -> Request]
  BY <1>b DEF Goto, Types, Request
<1>c. ASSUME NEW t \in Tabs, NEW op \in Ops, NEW arg \in Accounts \cup Rows \cup {Nobody},
             NEW file \in 0 .. MaxFiles, NEW left \in Nat, Send(t, op, arg, file, left)
      PROVE Types'
  <2>1. [op |-> op, pc |-> "load", session |-> cookie, page |-> tab[t], arg |-> arg,
         file |-> file, left |-> left,
         gone |-> cookie # NoSession /\ ~account[cookie.subject].active] \in Request
    <3>1. (cookie # NoSession /\ ~account[cookie.subject].active) \in BOOLEAN
      OBVIOUS
    <3>2. cookie \in Sessions /\ tab[t] \in ShownPages
      BY DEF Types, TypeOK, ShownPages
    <3> DEFINE gone == cookie # NoSession /\ ~account[cookie.subject].active
    <3> HIDE DEF gone
    <3>3. [op |-> op, pc |-> "load", session |-> cookie, page |-> tab[t], arg |-> arg,
           file |-> file, left |-> left, gone |-> gone] \in Request
      BY <3>1, <3>2 DEF Request, Points, gone
    <3> QED
      BY <3>3 DEF gone
  <2>2. request' \in [Tabs -> Request]
    BY <1>c, <2>1 DEF Send, Types
  <2> QED
    BY <1>c, <2>2 DEF Send, Types, TypeOK
<1>1. ASSUME NEW t \in Tabs, NEW a \in Accounts, SendLogin(t, a) PROVE Types'
  BY <1>1, <1>c DEF SendLogin, Ops
<1>2. ASSUME NEW t \in Tabs, SendMfa(t) \/ Open(t) PROVE Types'
  BY <1>2, <1>c DEF SendMfa, Open, Ops
<1>3. ASSUME NEW t \in Tabs, SubmitForm(t) PROVE Types'
  <2>1. Cardinality(files) + 1 \in Nat
    <3>1. IsFiniteSet(files)
      <4>1. 1 \in Int /\ MaxFiles \in Int
        OBVIOUS
      <4>2. IsFiniteSet(1 .. MaxFiles)
        BY <4>1, FS_Interval
      <4>3. files \in SUBSET (1 .. MaxFiles)
        BY DEF Types, TypeOK
      <4> QED
        BY <4>2, <4>3, FS_Subset
    <3> QED
      BY <3>1, FS_CardinalityType
  <2> QED
    BY <1>3, <1>c, <2>1 DEF SubmitForm, Ops, Operations
<1>4. ASSUME NEW t \in Tabs, Logout(t) PROVE Types'
  BY <1>4, <1>0 DEF Logout, Types, TypeOK, ShownPages
<1>5. CASE Expire
  BY <1>5, <1>0 DEF Expire, Types, TypeOK
<1>6. ASSUME NEW t \in Tabs,
             Authenticate(t) \/ FindPrincipal(t) \/ Gate(t) \/ Refused(t) \/ ImportDone(t)
      PROVE Types'
  <2>1. request' \in [Tabs -> Request]
    BY <1>6, <1>a, <1>b DEF Authenticate, FindPrincipal, Gate, Refused, ImportDone, Points
  <2> QED
    BY <1>6, <2>1 DEF Authenticate, FindPrincipal, Gate, Refused, ImportDone, Types, TypeOK
<1>7. ASSUME NEW t \in Tabs, Issue(t) PROVE Types'
  <2>1. request[t].arg \in Accounts
    BY <1>7 DEF Issue, At, RequestsKnow, RequestKnows
  <2>2. cookie' \in Sessions
    BY <1>7, <2>1 DEF Issue, NewSession, Sessions, MfaEnabled, Types, TypeOK
  <2> QED
    BY <1>7, <1>a, <2>2 DEF Issue, Types, TypeOK
<1>8. ASSUME NEW t \in Tabs, VerifyMfa(t) PROVE Types'
  <2>1. cookie' \in Sessions
    <3>1. cookie \in Sessions /\ request[t] \in Request
      BY DEF Types, TypeOK
    <3>2. request[t].session \in Sessions
      BY <3>1 DEF Request
    <3>3. [request[t].session EXCEPT !.mfa = TRUE] \in Sessions
      BY <3>2 DEF Sessions
    <3> QED
      BY <1>8, <3>1, <3>3 DEF VerifyMfa
  <2> QED
    BY <1>8, <1>a, <2>1 DEF VerifyMfa, Types, TypeOK
<1>9. ASSUME NEW t \in Tabs, LoadPrincipal(t) PROVE Types'
  <2>1. request' \in [Tabs -> Request]
    BY <1>9, <1>a, <1>b DEF LoadPrincipal, Points
  <2>2. cookie' \in {cookie, NoSession} /\ UNCHANGED <<account, tab, row, writer, files, tokens>>
    BY <1>9 DEF LoadPrincipal
  <2> QED
    BY <1>0, <2>1, <2>2 DEF Types, TypeOK
<1>10. ASSUME NEW t \in Tabs, Render(t) PROVE Types'
  <2>1. tab' \in [Tabs -> ShownPages]
    BY <1>10 DEF Render, Types, TypeOK, Request, Sessions, ShownPages, Subject
  <2> QED
    BY <1>10, <1>a, <2>1 DEF Render, Types, TypeOK, ShownPages
<1>11. ASSUME NEW t \in Tabs, Upload(t) PROVE Types'
  <2>1. request[t].file \in 1 .. MaxFiles
    BY <1>11 DEF Upload, At, Types, Request, RequestsKnow, RequestKnows
  <2> QED
    <3>1. request' \in [Tabs -> Request]
      BY <1>11, <1>a, <1>b DEF Upload, Points
    <3>2. files' \subseteq 1 .. MaxFiles
      BY <1>11, <2>1 DEF Upload, Types, TypeOK
    <3> QED
      BY <1>11, <3>1, <3>2 DEF Upload, Types, TypeOK
<1>12. ASSUME NEW t \in Tabs, NEW r \in Rows, NEW file \in 0 .. MaxFiles,
              NEW told \in BOOLEAN, request[t].session # NoSession, CreatedAt(t, r, file, told)
       PROVE row' \in [Rows -> Row] /\ writer' \in [Rows -> Writer]
  <2>1. Subject(t) \in Accounts
    BY <1>12 DEF Subject, RequestsKnow, RequestKnows, SomeoneOrNone
  <2>2. NewRow(t, file) \in Row
    BY <2>1 DEF NewRow, Stamp, NoRow, Row
  <2> QED
    BY <1>12, <2>1, <2>2 DEF CreatedAt, Types, Writer
<1>13. ASSUME NEW t \in Tabs, Create(t) PROVE Types'
  <2>1. PICK r \in Rows : CreatedAt(t, r, request[t].file, FALSE)
    BY <1>13 DEF Create
  <2>2. request[t].file \in 0 .. MaxFiles /\ request[t].session # NoSession
    BY <1>13 DEF Create, Types, Request, RequestsKnow, RequestKnows
  <2> QED
    BY <1>13, <1>12, <1>a, <2>1, <2>2 DEF Create, Types, TypeOK
<1>14. ASSUME NEW t \in Tabs, Edit(t) PROVE Types'
  <2>1. Subject(t) \in Accounts /\ request[t].file \in 0 .. MaxFiles
    BY <1>14 DEF Edit, Subject, Types, Request, RequestsKnow, RequestKnows, SomeoneOrNone
  <2>2. row' \in [Rows -> Row]
    <3> DEFINE k == request[t].arg
               file == IF request[t].file = 0 THEN row[k].file ELSE request[t].file
    <3>1. CASE UNCHANGED row
      BY <3>1 DEF Types
    <3>2. CASE row' = [row EXCEPT ![k] = Stamp([row[k] EXCEPT !.file = file], Subject(t), FALSE)]
      <4>1. k \in Rows => Stamp([row[k] EXCEPT !.file = file], Subject(t), FALSE) \in Row
        BY <2>1 DEF Stamp, Types, Row
      <4> QED
        BY <3>2, <4>1 DEF Types
    <3> QED
      BY <1>14, <3>1, <3>2 DEF Edit
  <2>3. writer' \in [Rows -> Writer]
    <3> DEFINE k == request[t].arg
    <3>1. CASE UNCHANGED writer
      BY <3>1 DEF Types
    <3>2. CASE writer' = [writer EXCEPT ![k].editor = Subject(t),
                                        ![k].told = @ /\ request[t].file = 0]
      <4>1. k \in Rows => [writer[k] EXCEPT !.editor = Subject(t),
                                         !.told = @ /\ request[t].file = 0] \in Writer
        BY <2>1 DEF Types, Writer
      <4> QED
        BY <3>2, <4>1 DEF Types
    <3> QED
      BY <1>14, <3>1, <3>2 DEF Edit
  <2> QED
    BY <1>14, <1>a, <2>2, <2>3 DEF Edit, Types, TypeOK
<1>15. ASSUME NEW t \in Tabs, Delete(t) PROVE Types'
  <2>1. row' \in [Rows -> Row] /\ writer' \in [Rows -> Writer]
    BY <1>15, <1>0 DEF Delete, Types
  <2> QED
    BY <1>15, <1>a, <2>1 DEF Delete, Types, TypeOK
<1>16. ASSUME NEW t \in Tabs, Bulk(t) PROVE Types'
  <2>1. row' \in [Rows -> Row]
    BY <1>16 DEF Bulk, Types, Row
  <2> QED
    BY <1>16, <1>a, <2>1 DEF Bulk, Types, TypeOK
<1>17. ASSUME NEW t \in Tabs, Import(t) PROVE Types'
  <2>1. request' \in [Tabs -> Request]
    BY <1>17 DEF Import, Types, Request
  <2>2. request[t].session # NoSession
    BY <1>17 DEF Import, RequestsKnow, RequestKnows
  <2>3. row' \in [Rows -> Row] /\ writer' \in [Rows -> Writer]
    BY <1>17, <1>12, <2>2 DEF Import, Types
  <2> QED
    BY <1>17, <2>1, <2>3 DEF Import, Types, TypeOK
<1>18. ASSUME NEW a \in Accounts, Deactivate(a) \/ Enroll(a) PROVE Types'
  <2>1. account' \in [Accounts -> [active : BOOLEAN, enrolled : BOOLEAN]]
    <3>1. account[a].enrolled \in BOOLEAN /\ account[a].active \in BOOLEAN
      BY DEF Types, TypeOK
    <3>2. PICK active \in BOOLEAN, enrolled \in BOOLEAN :
            account' = [account EXCEPT ![a] = [active |-> active, enrolled |-> enrolled]]
      BY <1>18, <3>1 DEF Deactivate, Enroll, Change
    <3> QED
      BY <3>2 DEF Types, TypeOK
  <2>2. UNCHANGED <<cookie, tab, request, row, writer, files, tokens>>
    BY <1>18 DEF Deactivate, Enroll, Change
  <2> QED
    BY <2>1, <2>2 DEF Types, TypeOK
<1>19. ASSUME NEW a \in Accounts, Reactivate(a) PROVE Types'
  <2>1. request' \in [Tabs -> Request]
    BY <1>19 DEF Reactivate, Types, Request
  <2> QED
    BY <1>19, <2>1 DEF Reactivate, Change, Types, TypeOK
<1>20. CASE UNCHANGED vars
  BY <1>20 DEF vars, Types, TypeOK
<1> QED
  BY <1>1, <1>2, <1>3, <1>4, <1>5, <1>6, <1>7, <1>8, <1>9, <1>10, <1>11, <1>13, <1>14,
     <1>15, <1>16, <1>17, <1>18, <1>19, <1>20 DEF Next, Write

-----------------------------------------------------------------------------
\* A request never gets past a guard that no longer holds of it: what it knows stays
\* true while the accounts, the cookie and the other tabs change.
LEMMA RequestsStep == IInv /\ [Next]_vars => RequestsKnow'
<1> SUFFICES ASSUME IInv, [Next]_vars PROVE RequestsKnow'
  OBVIOUS
<1> USE DEF IInv
<1>0. /\ request \in [Tabs -> Request] /\ SomeoneOrNone(cookie)
      /\ \A t \in Tabs : RequestKnows(t)
  BY DEF Types, RequestsKnow
<1>a. ASSUME NEW t \in Tabs, Answer(t), account' = account, files \subseteq files',
             SomeoneOrNone(cookie')
      PROVE RequestsKnow'
  <2>1. request'[t] = Idle /\ \A u \in Tabs : u # t => request'[u] = request[u]
    BY <1>0, <1>a DEF Answer
  <2>2. \A u \in Tabs : RequestKnows(u)'
    BY <1>0, <1>a, <2>1 DEF RequestKnows, SomeoneOrNone, Idle, Subject, TokenMatches
  <2> QED
    BY <1>a, <2>2 DEF RequestsKnow
<1>b. ASSUME NEW t \in Tabs, NEW pc \in Points, Goto(t, pc), account' = account,
             files \subseteq files', cookie' = cookie,
             RequestKnows(t)'
      PROVE RequestsKnow'
  <2>1. \A u \in Tabs : u # t => request'[u] = request[u]
    BY <1>0, <1>b DEF Goto
  <2>2. \A u \in Tabs : RequestKnows(u)'
    BY <1>0, <1>b, <2>1 DEF RequestKnows, SomeoneOrNone, Subject, TokenMatches
  <2> QED
    BY <1>b, <2>2, <1>0 DEF RequestsKnow, SomeoneOrNone
<1>c. ASSUME NEW t \in Tabs, NEW op \in Ops, NEW arg \in Accounts \cup Rows \cup {Nobody},
             NEW file, NEW left, Send(t, op, arg, file, left),
             op # "idle", op = "login" => arg \in Accounts,
             op # "login" => cookie # NoSession
      PROVE RequestsKnow'
  <2>1. /\ \A u \in Tabs : u # t => request'[u] = request[u]
        /\ request'[t] = [op |-> op, pc |-> "load", session |-> cookie, page |-> tab[t],
                          arg |-> arg, file |-> file, left |-> left,
                          gone |-> cookie # NoSession /\ ~account[cookie.subject].active]
    BY <1>0, <1>c DEF Send
  <2>2. RequestKnows(t)'
    BY <1>0, <1>c, <2>1 DEF Send, RequestKnows, SomeoneOrNone, Subject
  <2>3. \A u \in Tabs : RequestKnows(u)'
    BY <1>0, <1>c, <2>1, <2>2 DEF Send, RequestKnows, SomeoneOrNone, Subject, TokenMatches
  <2> QED
    BY <1>0, <1>c, <2>3 DEF Send, RequestsKnow, SomeoneOrNone
<1>d. ASSUME UNCHANGED <<request, account, files>>, SomeoneOrNone(cookie') PROVE RequestsKnow'
  BY <1>0, <1>d DEF RequestsKnow, RequestKnows, SomeoneOrNone, Subject, TokenMatches
<1>1. ASSUME NEW t \in Tabs, NEW a \in Accounts, SendLogin(t, a) PROVE RequestsKnow'
  BY <1>1, <1>c DEF SendLogin, Ops
<1>2. ASSUME NEW t \in Tabs, SendMfa(t) \/ Open(t) PROVE RequestsKnow'
  BY <1>2, <1>c DEF SendMfa, Open, Ops
<1>3. ASSUME NEW t \in Tabs, SubmitForm(t) PROVE RequestsKnow'
  BY <1>3, <1>c DEF SubmitForm, Ops, Operations
<1>4. ASSUME NEW t \in Tabs, Logout(t) PROVE RequestsKnow'
  BY <1>4, <1>d DEF Logout, SomeoneOrNone
<1>5. CASE Expire
  BY <1>5, <1>d DEF Expire, SomeoneOrNone
<1>6. ASSUME NEW t \in Tabs, Refused(t) \/ ImportDone(t) \/ Create(t) \/ Edit(t) \/ Delete(t)
                             \/ Bulk(t)
      PROVE RequestsKnow'
  BY <1>0, <1>6, <1>a DEF Refused, ImportDone, Create, Edit, Delete, Bulk, SomeoneOrNone
<1>7. ASSUME NEW t \in Tabs, Authenticate(t) PROVE RequestsKnow'
  <2>1. CASE Answer(t)
    BY <1>0, <1>7, <2>1, <1>a DEF Authenticate, SomeoneOrNone
  <2>2. CASE Goto(t, "issue")
    <3>1. RequestKnows(t)'
      BY <1>0, <1>7, <2>2
      DEF Authenticate, At, Goto, Request, RequestKnows, SomeoneOrNone, Subject
    <3> QED
      BY <1>7, <2>2, <3>1, <1>b DEF Authenticate, Points
  <2> QED
    BY <1>7, <2>1, <2>2 DEF Authenticate
<1>18. ASSUME NEW t \in Tabs, FindPrincipal(t) PROVE RequestsKnow'
  <2>1. CASE Answer(t)
    BY <1>0, <1>18, <2>1, <1>a DEF FindPrincipal, SomeoneOrNone
  <2>2. CASE Goto(t, "verify")
    <3>1. RequestKnows(t)'
      BY <1>0, <1>18, <2>2
      DEF FindPrincipal, At, Goto, Request, RequestKnows, SomeoneOrNone, Subject
    <3> QED
      BY <1>18, <2>2, <3>1, <1>b DEF FindPrincipal, Points
  <2> QED
    BY <1>18, <2>1, <2>2 DEF FindPrincipal
<1>8. ASSUME NEW t \in Tabs, Issue(t) PROVE RequestsKnow'
  <2>1. SomeoneOrNone(cookie')
    BY <1>0, <1>8 DEF Issue, At, NewSession, RequestKnows, SomeoneOrNone
  <2> QED
    BY <1>8, <2>1, <1>a DEF Issue
<1>9. ASSUME NEW t \in Tabs, VerifyMfa(t) PROVE RequestsKnow'
  <2>1. request[t].session.subject \in Accounts /\ request[t].session \in Sessions
    BY <1>0, <1>9 DEF VerifyMfa, At, RequestKnows, SomeoneOrNone, Request
  <2>2. SomeoneOrNone(cookie')
    BY <1>0, <1>9, <2>1 DEF VerifyMfa, SomeoneOrNone, Sessions
  <2> QED
    BY <1>9, <2>2, <1>a DEF VerifyMfa
<1>10. ASSUME NEW t \in Tabs, LoadPrincipal(t) PROVE RequestsKnow'
  <2>1. CASE Answer(t)
    BY <1>0, <1>10, <2>1, <1>a DEF LoadPrincipal, SomeoneOrNone
  <2>2. CASE ~Answer(t)
    <3>1. /\ Goto(t, "gate") /\ cookie' = cookie /\ request[t].session.mfa
          /\ account[Subject(t)].active /\ request[t].pc = "load"
          /\ request[t].op # "login"
      BY <1>10, <2>2 DEF LoadPrincipal, Admits, At
    <3>2. RequestKnows(t)'
      BY <1>0, <1>10, <3>1
      DEF LoadPrincipal, Goto, Request, RequestKnows, SomeoneOrNone, Subject
    <3> QED
      BY <1>10, <3>1, <3>2, <1>b DEF LoadPrincipal, Points
  <2> QED
    BY <2>1, <2>2
<1>11. ASSUME NEW t \in Tabs, Render(t) PROVE RequestsKnow'
  BY <1>0, <1>11, <1>a DEF Render
<1>12. ASSUME NEW t \in Tabs, Gate(t) PROVE RequestsKnow'
  <2>1. CASE Answer(t)
    BY <1>0, <1>12, <2>1, <1>a DEF Gate
  <2>2. CASE ~Answer(t)
    <3>1. /\ Goto(t, IF request[t].file # 0 THEN "upload" ELSE "write")
          /\ request[t].op \in Granted[Subject(t)] /\ TokenMatches(t)
          /\ request[t].pc = "gate"
      BY <1>12, <2>2 DEF Gate, At
    <3>2. RequestKnows(t)'
      BY <1>0, <1>12, <3>1
      DEF Gate, Goto, Request, RequestKnows, SomeoneOrNone, Subject, TokenMatches
    <3> QED
      BY <1>12, <3>1, <3>2, <1>b DEF Gate, Points
  <2> QED
    BY <2>1, <2>2
<1>13. ASSUME NEW t \in Tabs, Upload(t) PROVE RequestsKnow'
  <2>1. CASE Answer(t)
    BY <1>0, <1>13, <2>1, <1>a DEF Upload
  <2>2. CASE ~Answer(t)
    <3>1. /\ Goto(t, "write") /\ files' = files \cup {request[t].file}
          /\ request[t].pc = "upload"
      BY <1>13, <2>2 DEF Upload, At
    <3>2. RequestKnows(t)'
      BY <1>0, <1>13, <3>1
      DEF Upload, Goto, Request, RequestKnows, SomeoneOrNone, Subject, TokenMatches
    <3> QED
      BY <1>13, <3>1, <3>2, <1>b DEF Upload, Points
  <2> QED
    BY <2>1, <2>2
<1>14. ASSUME NEW t \in Tabs, Import(t) PROVE RequestsKnow'
  <2>1. \A u \in Tabs :
          /\ request'[u].op = request[u].op /\ request'[u].pc = request[u].pc
          /\ request'[u].session = request[u].session /\ request'[u].page = request[u].page
          /\ request'[u].arg = request[u].arg /\ request'[u].file = request[u].file
          /\ request'[u].gone = request[u].gone
    BY <1>0, <1>14 DEF Import, Request
  <2>2. UNCHANGED <<account, files, cookie>>
    BY <1>14 DEF Import
  <2> QED
    BY <1>0, <2>1, <2>2 DEF RequestsKnow, RequestKnows, SomeoneOrNone, Subject, TokenMatches
<1>15. ASSUME NEW a \in Accounts, Deactivate(a) \/ Enroll(a) PROVE RequestsKnow'
  <2>1. UNCHANGED <<request, files, cookie>>
    BY <1>15 DEF Deactivate, Enroll, Change
  <2>2. \A b \in Accounts : account'[b].active => account[b].active
    BY <1>15 DEF Deactivate, Enroll, Change, Types, TypeOK
  <2> QED
    BY <1>0, <2>1, <2>2 DEF RequestsKnow, RequestKnows, SomeoneOrNone, Subject, TokenMatches
<1>16. ASSUME NEW a \in Accounts, Reactivate(a) PROVE RequestsKnow'
  <2>1. \A u \in Tabs :
          /\ request'[u].op = request[u].op /\ request'[u].pc = request[u].pc
          /\ request'[u].session = request[u].session /\ request'[u].page = request[u].page
          /\ request'[u].arg = request[u].arg /\ request'[u].file = request[u].file
          /\ request'[u].gone => request[u].gone /\ request[u].session.subject # a
    BY <1>0, <1>16 DEF Reactivate, Request
  <2>2. UNCHANGED <<files, cookie>> /\ \A b \in Accounts : b # a => account'[b] = account[b]
    BY <1>16 DEF Reactivate, Change, Types, TypeOK
  <2> QED
    BY <1>0, <2>1, <2>2 DEF RequestsKnow, RequestKnows, SomeoneOrNone, Subject, TokenMatches
<1>17. CASE UNCHANGED vars
  BY <1>0, <1>17, <1>d DEF vars
<1> QED
  BY <1>1, <1>2, <1>3, <1>4, <1>5, <1>6, <1>7, <1>8, <1>9, <1>10, <1>11, <1>12, <1>13,
     <1>14, <1>15, <1>16, <1>17, <1>18 DEF Next, Write

-----------------------------------------------------------------------------
\* A token keeps its owner: only Issue makes one, and it makes a new one.
LEMMA TokensStep == IInv /\ [Next]_vars => TokensAreOwned'
<1> SUFFICES ASSUME IInv, [Next]_vars PROVE TokensAreOwned'
  OBVIOUS
<1> USE DEF IInv
<1>0. /\ request \in [Tabs -> Request] /\ tab \in [Tabs -> ShownPages]
      /\ tokens \in Nat
  BY AdminPanelAssumption DEF Types, TypeOK, ShownPages, AdminPanelAssumption
<1> PICK own \in [0 .. tokens -> Accounts \cup {Nobody}] : Owns(own)
  BY DEF TokensAreOwned
<1>1. CASE Owns(own)' /\ tokens' = tokens
  BY <1>1 DEF TokensAreOwned
<1>2. ASSUME NEW t \in Tabs, NEW op, NEW arg, NEW file, NEW left, Send(t, op, arg, file, left)
      PROVE Owns(own)' /\ tokens' = tokens
  BY <1>0, <1>2 DEF Send, Owns
<1>3. ASSUME NEW t \in Tabs, NEW a \in Accounts, SendLogin(t, a) PROVE TokensAreOwned'
  BY <1>1, <1>2, <1>3 DEF SendLogin
<1>4. ASSUME NEW t \in Tabs, SendMfa(t) \/ Open(t) PROVE TokensAreOwned'
  BY <1>1, <1>2, <1>4 DEF SendMfa, Open
<1>5. ASSUME NEW t \in Tabs, SubmitForm(t) PROVE TokensAreOwned'
  BY <1>1, <1>2, <1>5 DEF SubmitForm
<1>6. ASSUME NEW t \in Tabs, Logout(t) PROVE TokensAreOwned'
  BY <1>0, <1>1, <1>6 DEF Logout, Owns, NoSession, NoPage
<1>7. CASE Expire
  BY <1>0, <1>1, <1>7 DEF Expire, Owns, NoSession
<1>8. ASSUME NEW t \in Tabs, Answer(t), UNCHANGED <<cookie, tab, tokens>> PROVE TokensAreOwned'
  BY <1>0, <1>1, <1>8 DEF Answer, Owns, Idle, NoSession, NoPage
<1>9. ASSUME NEW t \in Tabs, NEW pc, Goto(t, pc), UNCHANGED <<cookie, tab, tokens>>
      PROVE TokensAreOwned'
  <2>1. \A u \in Tabs : request'[u].session = request[u].session
                        /\ request'[u].page = request[u].page
    BY <1>0, <1>9 DEF Goto, Request
  <2> QED
    BY <1>1, <1>9, <2>1 DEF Owns
<1>10. ASSUME NEW t \in Tabs,
              Authenticate(t) \/ FindPrincipal(t) \/ Gate(t) \/ Upload(t) \/ Refused(t)
              \/ ImportDone(t)
              \/ Create(t) \/ Edit(t) \/ Delete(t) \/ Bulk(t)
       PROVE TokensAreOwned'
  BY <1>10, <1>8, <1>9 DEF Authenticate, FindPrincipal, Gate, Upload, Refused, ImportDone,
     Create, Edit, Delete, Bulk
<1>11. ASSUME NEW t \in Tabs, Issue(t) PROVE TokensAreOwned'
  <2>1. tokens' = tokens + 1 /\ tokens' \in Nat
    BY <1>0, <1>11 DEF Issue
  <2>2. request[t].arg \in Accounts
    BY <1>11 DEF Issue, At, RequestsKnow, RequestKnows
  <2>3. PICK new \in [0 .. tokens' -> Accounts \cup {Nobody}] :
          \A k \in 0 .. tokens' : new[k] = IF k = tokens' THEN request[t].arg ELSE own[k]
    <3> DEFINE n == [k \in 0 .. tokens' |-> IF k = tokens' THEN request[t].arg ELSE own[k]]
    <3>1. n \in [0 .. tokens' -> Accounts \cup {Nobody}]
      BY <1>0, <2>1, <2>2
    <3> QED
      BY <3>1
  <2>4. cookie'.token = tokens' /\ cookie'.subject = request[t].arg
    BY <1>11, <2>1 DEF Issue, NewSession
  <2>5. new[tokens'] = request[t].arg /\ \A k \in 0 .. tokens : new[k] = own[k]
    BY <1>0, <2>1, <2>3
  <2>6. \A k \in 0 .. tokens : k \in 0 .. tokens'
    BY <1>0, <2>1
  <2>7. \A u \in Tabs : request'[u] = request[u] \/ request'[u] = Idle
    BY <1>0, <1>11 DEF Issue, Answer
  <2>8. new[0] = Nobody /\ 0 \in 0 .. tokens' /\ tokens' \in 0 .. tokens'
    BY <1>0, <2>1, <2>5 DEF Owns
  <2>9. ASSUME NEW u \in Tabs
        PROVE /\ tab'[u].token \in 0 .. tokens' /\ tab'[u].shownTo = new[tab'[u].token]
              /\ request'[u].session.token \in 0 .. tokens'
              /\ request'[u].session.subject = new[request'[u].session.token]
              /\ request'[u].page.token \in 0 .. tokens'
              /\ request'[u].page.shownTo = new[request'[u].page.token]
    <3>1. tab' = tab
      BY <1>11 DEF Issue
    <3> QED
      BY <2>5, <2>6, <2>7, <2>8, <3>1 DEF Owns, Idle, NoSession, NoPage
  <2>10. Owns(new)'
    BY <2>4, <2>5, <2>8, <2>9 DEF Owns
  <2> QED
    BY <2>3, <2>10 DEF TokensAreOwned
<1>12. ASSUME NEW t \in Tabs, VerifyMfa(t) PROVE TokensAreOwned'
  <2>1. request[t].session \in Sessions
    BY <1>0 DEF Request
  <2>2. cookie' = cookie \/ (/\ cookie'.token = request[t].session.token
                             /\ cookie'.subject = request[t].session.subject)
    BY <1>12, <2>1 DEF VerifyMfa, Sessions
  <2>3. \A u \in Tabs : request'[u] = request[u] \/ request'[u] = Idle
    BY <1>0, <1>12 DEF VerifyMfa, Answer
  <2>4. UNCHANGED <<tab, tokens>>
    BY <1>12 DEF VerifyMfa
  <2> QED
    <3>1. cookie'.token \in 0 .. tokens' /\ cookie'.subject = own[cookie'.token]
      BY <2>2, <2>4 DEF Owns
    <3>2. ASSUME NEW u \in Tabs
          PROVE  /\ tab'[u].token \in 0 .. tokens' /\ tab'[u].shownTo = own[tab'[u].token]
                 /\ request'[u].session.token \in 0 .. tokens'
                 /\ request'[u].session.subject = own[request'[u].session.token]
                 /\ request'[u].page.token \in 0 .. tokens'
                 /\ request'[u].page.shownTo = own[request'[u].page.token]
      BY <1>0, <2>3, <2>4 DEF Owns, Idle, NoSession, NoPage
    <3>3. Owns(own)'
      BY <3>1, <3>2 DEF Owns
    <3> QED
      BY <1>1, <2>4, <3>3
<1>13. ASSUME NEW t \in Tabs, LoadPrincipal(t) PROVE TokensAreOwned'
  <2>1. CASE cookie' = cookie
    BY <1>13, <2>1, <1>8, <1>9 DEF LoadPrincipal
  <2>2. CASE cookie' = NoSession /\ Answer(t)
    BY <1>0, <1>1, <1>13, <2>2 DEF LoadPrincipal, Answer, Owns, Idle, NoSession, NoPage
  <2> QED
    BY <1>13, <2>1, <2>2 DEF LoadPrincipal
<1>14. ASSUME NEW t \in Tabs, Render(t) PROVE TokensAreOwned'
  <2>1. \A u \in Tabs : request'[u] = request[u] \/ request'[u] = Idle
    BY <1>0, <1>14 DEF Render, Answer
  <2>2. \A u \in Tabs : tab'[u] = tab[u] \/ tab'[u] = [shownTo |-> Subject(t),
                                                    token |-> request[t].session.token]
    BY <1>0, <1>14 DEF Render
  <2>3. UNCHANGED <<cookie, tokens>>
    BY <1>14 DEF Render
  <2> QED
    BY <1>0, <1>1, <2>1, <2>2, <2>3 DEF Owns, Subject, Idle, NoSession, NoPage
<1>15. ASSUME NEW t \in Tabs, Import(t) PROVE TokensAreOwned'
  <2>1. \A u \in Tabs : request'[u].session = request[u].session
                        /\ request'[u].page = request[u].page
    BY <1>0, <1>15 DEF Import, Request
  <2> QED
    BY <1>1, <1>15, <2>1 DEF Import, Owns
<1>16. ASSUME NEW a \in Accounts, Deactivate(a) \/ Enroll(a) PROVE TokensAreOwned'
  BY <1>1, <1>16 DEF Deactivate, Enroll, Change, Owns
<1>17. ASSUME NEW a \in Accounts, Reactivate(a) PROVE TokensAreOwned'
  <2>1. \A u \in Tabs : request'[u].session = request[u].session
                        /\ request'[u].page = request[u].page
    BY <1>0, <1>17 DEF Reactivate, Request
  <2> QED
    BY <1>1, <1>17, <2>1 DEF Reactivate, Change, Owns
<1>18. CASE UNCHANGED vars
  BY <1>1, <1>18 DEF vars, Owns
<1> QED
  BY <1>3, <1>4, <1>5, <1>6, <1>7, <1>10, <1>11, <1>12, <1>13, <1>14, <1>15, <1>16, <1>17,
     <1>18 DEF Next, Write

-----------------------------------------------------------------------------
\* A row that is written is stamped with the operator of the request, and its file was
\* uploaded before, or is one that a CSV file told.
LEMMA StampsStep == IInv /\ [Next]_vars => StampsNameTheWriter'
<1> SUFFICES ASSUME IInv, [Next]_vars PROVE StampsNameTheWriter'
  OBVIOUS
<1> USE DEF IInv
<1>1. ASSUME UNCHANGED <<row, writer>>, files \subseteq files' PROVE StampsNameTheWriter'
  BY <1>1 DEF StampsNameTheWriter
<1>2. ASSUME NEW t \in Tabs, At(t, "write")
      PROVE  request[t].file = 0 \/ request[t].file \in files
  BY <1>2 DEF At, RequestsKnow, RequestKnows
<1>3. ASSUME NEW t \in Tabs, NEW r \in Rows, NEW file, NEW told \in BOOLEAN,
             CreatedAt(t, r, file, told), file = 0 \/ file \in files \/ told, files' = files
      PROVE  StampsNameTheWriter'
  <2>1. /\ NewRow(t, file).createdBy = Subject(t) /\ NewRow(t, file).updatedBy = Subject(t)
        /\ NewRow(t, file).file = file
    BY DEF NewRow, Stamp, NoRow
  <2>2. \A s \in Rows : s # r => row'[s] = row[s] /\ writer'[s] = writer[s]
    BY <1>3 DEF CreatedAt, Types
  <2>3. /\ row'[r] = NewRow(t, file)
        /\ writer'[r] = [creator |-> Subject(t), editor |-> Subject(t), told |-> told]
    BY <1>3 DEF CreatedAt, Types
  <2> QED
    BY <1>3, <2>1, <2>2, <2>3 DEF StampsNameTheWriter
<1>4. ASSUME NEW t \in Tabs, Create(t) PROVE StampsNameTheWriter'
  BY <1>2, <1>3, <1>4 DEF Create
<1>5. ASSUME NEW t \in Tabs, Edit(t) PROVE StampsNameTheWriter'
  <2> DEFINE k == request[t].arg
             file == IF request[t].file = 0 THEN row[k].file ELSE request[t].file
             stamped == Stamp([row[k] EXCEPT !.file = file], Subject(t), FALSE)
  <2>1. CASE UNCHANGED <<row, writer>>
    BY <1>1, <1>5, <2>1 DEF Edit
  <2>2. CASE /\ row' = [row EXCEPT ![k] = stamped]
             /\ writer' = [writer EXCEPT ![k].editor = Subject(t),
                                        ![k].told = @ /\ request[t].file = 0]
    <3>1. \A s \in Rows : s # k => row'[s] = row[s] /\ writer'[s] = writer[s]
      BY <2>2 DEF Types
    <3>2. ASSUME k \in Rows
          PROVE  /\ row'[k].createdBy = row[k].createdBy
                 /\ row'[k].updatedBy = Subject(t) /\ row'[k].file = file
                 /\ writer'[k].creator = writer[k].creator
                 /\ writer'[k].editor = Subject(t)
                 /\ writer'[k].told = (writer[k].told /\ request[t].file = 0)
      <4>1. row[k] \in Row /\ writer[k] \in Writer
        BY <3>2 DEF Types
      <4>2. /\ stamped.createdBy = row[k].createdBy /\ stamped.updatedBy = Subject(t)
            /\ stamped.file = file
        BY <4>1 DEF Stamp, Row
      <4>3. row'[k] = stamped
        BY <2>2, <3>2 DEF Types
      <4>4. writer'[k] = [writer[k] EXCEPT !.editor = Subject(t),
                                           !.told = @ /\ request[t].file = 0]
        BY <2>2, <3>2 DEF Types
      <4>5. /\ writer'[k].creator = writer[k].creator /\ writer'[k].editor = Subject(t)
            /\ writer'[k].told = (writer[k].told /\ request[t].file = 0)
        BY <4>1, <4>4 DEF Writer
      <4> QED
        BY <4>2, <4>3, <4>5
    <3>3. files' = files
      BY <1>5 DEF Edit
    <3>4. k \in Rows /\ file # 0 /\ ~(writer[k].told /\ request[t].file = 0) => file \in files
      BY <1>2, <1>5 DEF Edit, StampsNameTheWriter
    <3> DEFINE kept == writer[k].told /\ request[t].file = 0
    <3> HIDE DEF file, k, kept
    <3> QED
      BY <3>1, <3>2, <3>3, <3>4 DEF StampsNameTheWriter, kept
  <2> QED
    BY <1>5, <2>1, <2>2 DEF Edit
<1>6. ASSUME NEW t \in Tabs, Delete(t) PROVE StampsNameTheWriter'
  <2>1. \A r \in Rows : \/ row'[r] = row[r] /\ writer'[r] = writer[r]
                        \/ row'[r] = NoRow /\ writer'[r] = NoWriter
    BY <1>6 DEF Delete
  <2> QED
    BY <1>6, <2>1 DEF Delete, StampsNameTheWriter, NoRow, NoWriter
<1>7. ASSUME NEW t \in Tabs, Bulk(t) PROVE StampsNameTheWriter'
  <2>1. \A r \in Rows :
          /\ row'[r].createdBy = row[r].createdBy /\ row'[r].updatedBy = row[r].updatedBy
          /\ row'[r].file = row[r].file
    BY <1>7 DEF Bulk, Types, Row
  <2> QED
    BY <1>7, <2>1 DEF Bulk, StampsNameTheWriter
<1>8. ASSUME NEW t \in Tabs, Import(t) PROVE StampsNameTheWriter'
  BY <1>1, <1>3, <1>8 DEF Import
<1>9. ASSUME NEW t \in Tabs, NEW op, NEW arg, NEW file, NEW left,
             Send(t, op, arg, file, left)
      PROVE  StampsNameTheWriter'
  BY <1>1, <1>9 DEF Send
<1>10. ASSUME NEW t \in Tabs, NEW a \in Accounts, SendLogin(t, a) PROVE StampsNameTheWriter'
  BY <1>9, <1>10 DEF SendLogin
<1>11. ASSUME NEW t \in Tabs, SendMfa(t) \/ Open(t) \/ SubmitForm(t)
       PROVE  StampsNameTheWriter'
  BY <1>9, <1>11 DEF SendMfa, Open, SubmitForm
<1>12. ASSUME NEW t \in Tabs,
              \/ Logout(t) \/ Authenticate(t) \/ Issue(t) \/ FindPrincipal(t) \/ VerifyMfa(t)
              \/ LoadPrincipal(t) \/ Render(t) \/ Gate(t) \/ Upload(t) \/ Refused(t)
              \/ ImportDone(t)
       PROVE  StampsNameTheWriter'
  BY <1>1, <1>12 DEF Logout, Authenticate, Issue, FindPrincipal, VerifyMfa, LoadPrincipal,
     Render, Gate, Upload, Refused, ImportDone
<1>13. ASSUME NEW a \in Accounts, Deactivate(a) \/ Reactivate(a) \/ Enroll(a)
       PROVE  StampsNameTheWriter'
  BY <1>1, <1>13 DEF Deactivate, Reactivate, Enroll, Change
<1>14. CASE Expire \/ UNCHANGED vars
  BY <1>1, <1>14 DEF Expire, vars
<1> QED
  BY <1>4, <1>5, <1>6, <1>7, <1>8, <1>10, <1>11, <1>12, <1>13, <1>14 DEF Next, Write

-----------------------------------------------------------------------------
\* Nobody has a session, and what is stored was written by the one it names.
LEMMA PanelInit == Init => IInv
<1> SUFFICES ASSUME Init PROVE IInv
  OBVIOUS
<1> USE AdminPanelAssumption DEF AdminPanelAssumption
<1>1. \A r \in Rows :
        /\ writer[r] = NoWriter => row[r] = NoRow
        /\ writer[r] # NoWriter =>
             /\ writer[r].creator \in Accounts /\ writer[r].editor \in Accounts
             /\ row[r] = [live |-> TRUE, active |-> TRUE, createdBy |-> writer[r].creator,
                          updatedBy |-> writer[r].editor, file |-> 0]
  BY DEF Init
<1>2. NoRow \in Row /\ NoWriter \in Writer
  BY DEF NoRow, NoWriter, Row, Writer
<1>3. writer \in [Rows -> Writer]
  <2>1. [creator : Accounts, editor : Accounts, told : {FALSE}] \subseteq Writer
    BY DEF Writer
  <2> QED
    BY <1>2, <2>1 DEF Init
<1>4. row \in [Rows -> Row]
  <2>1. \A a, b \in Accounts :
          [live |-> TRUE, active |-> TRUE, createdBy |-> a, updatedBy |-> b, file |-> 0]
            \in Row
    BY DEF Row
  <2>2. \A r \in Rows : row[r] \in Row
    BY <1>1, <1>2, <2>1
  <2> QED
    BY <2>2 DEF Init
<1>5. NoPage \in ShownPages /\ NoSession \in Sessions
  BY DEF NoPage, ShownPages, NoSession, Sessions
<1>6. Idle \in Request
  BY <1>5 DEF Idle, Request, Ops, Points
<1>7. Types
  BY <1>3, <1>4, <1>5, <1>6 DEF Init, Types, TypeOK, ShownPages
<1>8. RequestsKnow
  BY DEF Init, RequestsKnow, RequestKnows, SomeoneOrNone, Idle, At, Subject
<1>9. TokensAreOwned
  <2>1. PICK own \in [0 .. tokens -> Accounts \cup {Nobody}] : own[0] = Nobody
    <3>1. [k \in 0 .. tokens |-> Nobody] \in [0 .. tokens -> Accounts \cup {Nobody}]
      OBVIOUS
    <3>2. 0 \in 0 .. tokens
      BY DEF Init
    <3> QED
      BY <3>1, <3>2
  <2>2. Owns(own)
    BY <2>1 DEF Init, Owns, NoSession, NoPage, Idle
  <2> QED
    BY <2>2 DEF TokensAreOwned
<1>10. StampsNameTheWriter
  <2> SUFFICES ASSUME NEW r \in Rows
               PROVE  /\ row[r].createdBy = writer[r].creator
                      /\ row[r].updatedBy = writer[r].editor
                      /\ row[r].file = 0
    BY DEF StampsNameTheWriter
  <2>1. CASE writer[r] = NoWriter
    <3>1. row[r] = NoRow
      BY <1>1, <2>1
    <3> QED
      BY <2>1, <3>1 DEF NoRow, NoWriter
  <2>2. CASE writer[r] # NoWriter
    <3>1. row[r] = [live |-> TRUE, active |-> TRUE, createdBy |-> writer[r].creator,
                    updatedBy |-> writer[r].editor, file |-> 0]
      BY <1>1, <2>2
    <3> QED
      BY <3>1
  <2> QED
    BY <2>1, <2>2
<1> QED
  BY <1>7, <1>8, <1>9, <1>10 DEF IInv

LEMMA PanelStep == IInv /\ [Next]_vars => IInv'
  BY TypesStep, RequestsStep, TokensStep, StampsStep DEF IInv

\* The invariant holds throughout, for any accounts, tabs, rows and grants.
THEOREM PanelIsSound == Spec => []IInv
  BY PanelInit, PanelStep, PTL DEF Spec

\* A request that may write is one of an operator who passed the second factor, who may
\* do that, who was shown the page it was sent from, and who was not out all the while.
THEOREM OnlyGatedWrites == Spec => []WritesAreGated
<1>1. IInv => WritesAreGated
  <2> SUFFICES ASSUME IInv, NEW t \in Tabs, At(t, "write")
               PROVE  /\ request[t].session.mfa
                      /\ request[t].op \in Granted[Subject(t)]
                      /\ request[t].page.shownTo = Subject(t)
                      /\ ~request[t].gone
    BY DEF WritesAreGated
  <2>1. /\ request[t].session.mfa /\ request[t].op \in Granted[Subject(t)]
        /\ ~request[t].gone /\ request[t].page.token = request[t].session.token
    BY DEF IInv, At, RequestsKnow, RequestKnows, TokenMatches
  <2>2. request[t].page.shownTo = Subject(t)
    BY <2>1 DEF IInv, TokensAreOwned, Owns, Subject
  <2> QED
    BY <2>1, <2>2
<1> QED
  BY <1>1, PanelIsSound, PTL

\* stampActor names who created a row and who last edited it, whatever operators write
\* at once, and the file that was uploaded for a row is in the storage.
THEOREM StampsAreTrue == Spec => []StampsNameTheWriter
<1>1. IInv => StampsNameTheWriter
  BY DEF IInv
<1> QED
  BY <1>1, PanelIsSound, PTL

-----------------------------------------------------------------------------
(* The formset of a detail page (AdminInlines)                             *)

FormKeys == Children \cup {"new1"}
Typed == {"ok", "bad", ""}
FormRows == [key : FormKeys, value : Typed \cup {"none", "gone"}]

TableRows ==
  [parent : {Parent, OtherParent, "none", "gone"}, value : {"ok", "none", "gone"},
   by : {"operator", "colleague", "none", "gone"}]

FormsetTypes ==
  /\ Formset!TypeOK
  /\ form \in Seq(FormRows) /\ failed \in Seq(FormRows)
  /\ stage = "post" =>
       body \in [{form[i].key : i \in DOMAIN form} -> Typed]
  /\ stage # "post" => todo = {} /\ failed = <<>>
  /\ strangers \subseteq Children

\* No row of the form is one that was never given to anybody, so what is created meanwhile
\* is not in the form; a row that was no child when the form was sent does not become one;
\* and what owned() found was a child when the form was sent.
KeysAreKnown ==
  /\ \A i \in DOMAIN form : form[i].key \in Children => db[form[i].key] # Formset!Absent
  /\ \A i \in DOMAIN failed : \E j \in DOMAIN form : failed[i].key = form[j].key
  /\ stage = "post" =>
       \A i \in DOMAIN form : form[i].key \in strangers => db[form[i].key].parent # Parent
  /\ checked # Formset!None =>
       /\ stage = "post" /\ checked \notin strangers
       /\ \E i \in todo : form[i].key = checked
       /\ Formset!ToDelete(checked) \/ ~Formset!Invalid(checked)

\* A row of the form that is no child of the page any more was taken from it by a
\* colleague, or deleted as asked; one that comes back was worked off.
LeftIsTaken ==
  /\ \A i \in DOMAIN form : form[i].key \in Children =>
       \/ db[form[i].key].parent = Parent \/ form[i].key \in taken
       \/ stage = "post" /\ i \notin todo
  /\ \A i \in DOMAIN failed : failed[i].key \in Children =>
       db[failed[i].key].parent = Parent \/ failed[i].key \in taken
  /\ \A i \in DOMAIN failed, j \in todo : failed[i].key # form[j].key

\* What has been worked off was saved, or waits to be shown again, or was taken.
WorkedOffIsKept ==
  Formset!OneRowEach /\ stage = "post" =>
    /\ \A i \in DOMAIN form : body[form[i].key] = form[i].value
    /\ \A i \in DOMAIN form \ todo : Formset!TypedRow(i) => Formset!Kept(form[i])

FormsetInv == FormsetTypes /\ KeysAreKnown /\ LeftIsTaken /\ WorkedOffIsKept

LEMMA FormsetConstants ==
  /\ IsFiniteSet(Children) /\ "new1" \notin Children /\ "none" \notin Children
  /\ Parent # OtherParent /\ Parent \notin {"none", "gone"} /\ OtherParent \notin {"none", "gone"}
  /\ InlineRowLimit \in Nat \ {0} /\ ChildrenMayGo \in BOOLEAN /\ EmptyRow \in {"", "ok", "bad"}
  /\ MaxForeign \in Nat /\ MaxPosts \in Nat
  BY AdminAssumption DEF Formset!AdminInlinesAssumption, Formset!IsFiniteSet, IsFiniteSet

\* A set of children has an enumeration, which is of children.
LEMMA ChildrenInOrder ==
  ASSUME NEW S \in SUBSET Children
  PROVE  /\ Formset!Cardinality(S) \in Nat
         /\ \A i \in 1 .. Formset!Cardinality(S) : Formset!SetToSeq(S)[i] \in S
<1>1. IsFiniteSet(S)
  BY FormsetConstants, FS_Subset
<1>2. /\ Cardinality(S) \in Nat
      /\ \E f \in [1 .. Cardinality(S) -> S] :
           \A a, b \in 1 .. Cardinality(S) : f[a] = f[b] => a = b
  <2>1. Cardinality(S) \in Nat /\ ExistsBijection(1 .. Cardinality(S), S)
    BY <1>1, FS_CardinalityType
  <2>2. PICK f : f \in Bijection(1 .. Cardinality(S), S)
    BY <2>1 DEF ExistsBijection
  <2> QED
    BY <2>1, <2>2, Fun_BijectionProperties
<1>3. Formset!Cardinality(S) = Cardinality(S)
  BY DEF Formset!Cardinality, Cardinality
<1>4. Formset!SetToSeq(S) \in [1 .. Cardinality(S) -> S]
  BY <1>2, <1>3 DEF Formset!SetToSeq, Formset!IsInjective
<1> QED
  BY <1>2, <1>3, <1>4

LEMMA FormsetInit == Formset!Init => FormsetInv
<1> SUFFICES ASSUME Formset!Init PROVE FormsetInv
  OBVIOUS
<1>1. FormsetTypes
  <2>1. PICK own \in SUBSET Children, theirs \in SUBSET Children :
          db = [r \in Children |-> IF r \in own THEN Formset!Row(Parent, "ok", "none")
                                   ELSE IF r \in theirs
                                        THEN Formset!Row(OtherParent, "ok", "none")
                                        ELSE Formset!Row("none", "none", "none")]
    BY DEF Formset!Init, Formset!None, Formset!Absent
  <2>2. db \in [Children -> TableRows]
    BY <2>1 DEF Formset!Row, TableRows
  <2>3. form = <<>> /\ failed = <<>> /\ stage = "away" /\ todo = {} /\ checked = "none"
        /\ foreign = 0 /\ posts = 0 /\ strangers = {} /\ taken = {}
    BY DEF Formset!Init, Formset!None
  <2>6. MaxForeign \in Nat /\ MaxPosts \in Nat
    BY FormsetConstants
  <2>4. 0 \in 0 .. MaxForeign /\ 0 \in 0 .. MaxPosts
    BY <2>6
  <2>5. <<>> \in Seq(FormRows)
    OBVIOUS
  <2> QED
    BY <2>2, <2>3, <2>4, <2>5 DEF FormsetTypes, Formset!TypeOK, Formset!None, TableRows
<1>2. KeysAreKnown
  BY DEF Formset!Init, KeysAreKnown
<1>3. WorkedOffIsKept
  BY DEF Formset!Init, WorkedOffIsKept
<1>4. LeftIsTaken
  BY DEF Formset!Init, LeftIsTaken
<1> QED
  BY <1>1, <1>2, <1>3, <1>4 DEF FormsetInv

\* What the answer, the form and a submission look like after Load and Submit.
LEMMA Loaded ==
  ASSUME FormsetTypes, Formset!Load
  PROVE  /\ form' \in Seq(FormRows)
         /\ \A i \in DOMAIN form' : form'[i].key \in Children => db[form'[i].key].parent = Parent
<1>1. PICK drawn \in SUBSET Formset!ChildrenOf(Parent) :
        form' = Append([i \in 1 .. Formset!Cardinality(drawn) |->
                          Formset!FormRow(Formset!SetToSeq(drawn)[i],
                                          db[Formset!SetToSeq(drawn)[i]].value)],
                       Formset!FormRow("new1", EmptyRow))
  BY DEF Formset!Load
<1> DEFINE n == Formset!Cardinality(drawn)
           e == Formset!SetToSeq(drawn)
           rows == [i \in 1 .. n |-> Formset!FormRow(e[i], db[e[i]].value)]
<1>2. drawn \subseteq Children /\ \A r \in drawn : db[r].parent = Parent
  BY DEF Formset!ChildrenOf
<1>3. n \in Nat /\ \A i \in 1 .. n : e[i] \in drawn
  BY <1>2, ChildrenInOrder
<1>4. \A r \in drawn : db[r].value \in {"ok", "none", "gone"}
  BY <1>2 DEF FormsetTypes, Formset!TypeOK, Formset!None
<1>5. rows \in [1 .. n -> FormRows] /\ \A i \in 1 .. n : rows[i].key = e[i]
  BY <1>2, <1>3, <1>4 DEF Formset!FormRow, FormRows, FormKeys, Typed
<1>6. rows \in Seq(FormRows) /\ Len(rows) = n /\ DOMAIN rows = 1 .. n
  BY <1>3, <1>5
<1>7. Formset!FormRow("new1", EmptyRow) \in FormRows
  BY FormsetConstants DEF Formset!FormRow, FormRows, FormKeys, Typed
<1> DEFINE last == Formset!FormRow("new1", EmptyRow)
<1>8. last.key = "new1"
  BY DEF Formset!FormRow
<1>9. form' = Append(rows, last)
  BY <1>1
<1> HIDE DEF rows, e, n, last
<1>10. form' \in Seq(FormRows) /\ DOMAIN form' = 1 .. n + 1 /\ form'[n + 1] = last
       /\ \A i \in 1 .. n : form'[i] = rows[i]
  BY <1>3, <1>6, <1>7, <1>9 DEF last
<1>11. ASSUME NEW i \in DOMAIN form', form'[i].key \in Children
       PROVE  db[form'[i].key].parent = Parent
  <2>1. CASE i \in 1 .. n
    BY <1>2, <1>3, <1>5, <1>10, <2>1
  <2>2. CASE i = n + 1
    BY <1>8, <1>10, <1>11, <2>2, FormsetConstants
  <2> QED
    BY <1>3, <1>10, <2>1, <2>2
<1> QED
  BY <1>10, <1>11

LEMMA Submitted ==
  ASSUME FormsetTypes, Formset!Submit
  PROVE  /\ form' \in Seq(FormRows) /\ DOMAIN form' = DOMAIN form
         /\ \A i \in DOMAIN form : form'[i].key = form[i].key
         /\ body' \in [{form'[i].key : i \in DOMAIN form'} -> Typed]
         /\ Formset!OneRowEach' => \A i \in DOMAIN form' : body'[form'[i].key] = form'[i].value
<1>1. PICK typed \in [DOMAIN form -> Typed] :
        form' = [i \in DOMAIN form |-> Formset!FormRow(form[i].key, typed[i])]
  BY DEF Formset!Submit, Typed
<1>2. form \in Seq(FormRows) /\ DOMAIN form = 1 .. Len(form) /\ Len(form) \in Nat
  BY DEF FormsetTypes
<1>3. \A i \in DOMAIN form : /\ form[i].key \in FormKeys
                             /\ form'[i].key = form[i].key /\ form'[i].value = typed[i]
                             /\ form'[i] \in FormRows
  <2> SUFFICES ASSUME NEW i \in DOMAIN form
               PROVE  /\ form[i].key \in FormKeys
                      /\ form'[i].key = form[i].key /\ form'[i].value = typed[i]
                      /\ form'[i] \in FormRows
    OBVIOUS
  <2>1. form[i] \in FormRows
    BY <1>2
  <2>2. form[i].key \in FormKeys
    BY <2>1 DEF FormRows
  <2>3. form'[i] = [key |-> form[i].key, value |-> typed[i]] /\ typed[i] \in Typed
    BY <1>1 DEF Formset!FormRow
  <2> QED
    BY <2>2, <2>3 DEF FormRows
<1>4. form' \in Seq(FormRows) /\ DOMAIN form' = DOMAIN form
  <2>1. form' \in [1 .. Len(form) -> FormRows]
    BY <1>1, <1>2, <1>3
  <2> QED
    BY <1>2, <2>1
<1> DEFINE keys == {form[i].key : i \in DOMAIN form}
<1>5. keys = {form'[i].key : i \in DOMAIN form'}
  BY <1>3, <1>4
<1>6. body' = [k \in keys |-> Formset!Grouped(k)]
  BY DEF Formset!Submit
<1>7. ASSUME NEW k \in keys PROVE Formset!Grouped(k) \in Typed
  <2> DEFINE rows == {i \in DOMAIN form' : form'[i].key = k}
  <2>1. (CHOOSE i \in rows : TRUE) \in rows
    BY <1>5
  <2>2. form'[CHOOSE i \in rows : TRUE].value \in Typed
    BY <1>3, <1>4, <2>1
  <2> QED
    BY <2>2 DEF Formset!Grouped, Typed
<1>8. ASSUME Formset!OneRowEach', NEW i \in DOMAIN form'
      PROVE  Formset!Grouped(form'[i].key) = form'[i].value
  <2> DEFINE rows == {j \in DOMAIN form' : form'[j].key = form'[i].key}
  <2>1. rows = {i}
    BY <1>8 DEF Formset!OneRowEach
  <2>2. Formset!Cardinality(rows) = 1
    <3>1. Formset!Cardinality({i}) = Cardinality({i})
      BY DEF Formset!Cardinality, Cardinality
    <3> QED
      BY <2>1, <3>1, FS_Singleton
  <2>3. (CHOOSE j \in rows : TRUE) = i
    BY <2>1
  <2> HIDE DEF rows
  <2> QED
    BY <2>2, <2>3 DEF Formset!Grouped, rows
<1> QED
  BY <1>3, <1>4, <1>5, <1>6, <1>7, <1>8

\* The row that is worked on is one of the form; if it fails it is shown again as typed.
LEMMA WorkedOn ==
  ASSUME FormsetTypes, NEW key, Formset!Working(key)
  PROVE  /\ stage = "post" /\ \E i \in DOMAIN form : i \in todo /\ form[i].key = key
         /\ key \in FormKeys /\ body[key] \in Typed
         /\ LET again == Append(failed, Formset!FormRow(key, body[key]))
            IN /\ again \in Seq(FormRows) /\ DOMAIN again = 1 .. Len(failed) + 1
               /\ again[Len(failed) + 1] = [key |-> key, value |-> body[key]]
               /\ DOMAIN failed = 1 .. Len(failed) /\ Len(failed) \in Nat
               /\ \A i \in DOMAIN failed : again[i] = failed[i]
<1>1. PICK i \in todo : form[i].key = key
  BY DEF Formset!Working
<1>2. i \in DOMAIN form /\ stage = "post"
  BY <1>1 DEF FormsetTypes, Formset!TypeOK, Formset!Working
<1>3. form[i] \in FormRows
  BY <1>2 DEF FormsetTypes
<1>4. key \in FormKeys
  BY <1>1, <1>3 DEF FormRows
<1>5. body[key] \in Typed
  BY <1>1, <1>2 DEF FormsetTypes
<1> DEFINE row_ == [key |-> key, value |-> body[key]]
<1>6. row_ \in FormRows /\ Formset!FormRow(key, body[key]) = row_
  BY <1>4, <1>5 DEF FormRows, Formset!FormRow
<1> HIDE DEF row_
<1>7. failed \in Seq(FormRows)
  BY DEF FormsetTypes
<1>8. LET again == Append(failed, row_)
      IN /\ again \in Seq(FormRows) /\ DOMAIN again = 1 .. Len(failed) + 1
         /\ again[Len(failed) + 1] = row_
         /\ DOMAIN failed = 1 .. Len(failed) /\ Len(failed) \in Nat
         /\ \A j \in DOMAIN failed : again[j] = failed[j]
  BY <1>6, <1>7
<1> QED
  BY <1>1, <1>2, <1>4, <1>5, <1>6, <1>8 DEF row_

Foreign(r) == Formset!Discard(r) \/ \E parent \in {Parent, OtherParent} : Formset!Move(r, parent)

LEMMA ForeignSteps ==
  ASSUME NEW r, Foreign(r)
  PROVE  /\ foreign < MaxForeign /\ foreign' = foreign + 1 /\ taken \subseteq taken'
         /\ taken' \subseteq taken \cup {r} /\ strangers' \subseteq strangers
         /\ UNCHANGED <<form, stage, todo, body, ticked, checked, failed, saved, posts>>
  BY DEF Foreign, Formset!Move, Formset!Discard

\* The steps of the formset, one by one.
LEMMA FormsetSteps ==
  ASSUME Formset!Next
  PROVE  \/ Formset!Load \/ Formset!Submit \/ Formset!Answer
         \/ \E key \in FormKeys : \/ Formset!Skip(key) \/ Formset!FailValidation(key)
                                  \/ Formset!CheckOwned(key) \/ Formset!Delete(key)
                                  \/ Formset!Update(key) \/ Formset!Create(key)
                                  \/ Formset!RefuseDelete(key) \/ Formset!RefuseWrite(key)
         \/ \E r \in Children : Foreign(r)
  BY DEF Formset!Next, Formset!FormsetStep, FormKeys, Foreign

LEMMA TableTyped ==
  ASSUME FormsetTypes
  PROVE  /\ db \in [Children -> TableRows] /\ foreign \in Nat /\ foreign <= MaxForeign
         /\ posts \in Nat /\ posts <= MaxPosts
         /\ Formset!Absent = [parent |-> "none", value |-> "none", by |-> "none"]
         /\ Formset!Gone = [parent |-> "gone", value |-> "gone", by |-> "gone"]
<1>1. MaxForeign \in Nat /\ MaxPosts \in Nat
  BY FormsetConstants
<1>2. foreign \in 0 .. MaxForeign /\ posts \in 0 .. MaxPosts
  BY DEF FormsetTypes, Formset!TypeOK
<1>3. db \in [Children -> TableRows]
  BY DEF FormsetTypes, Formset!TypeOK, Formset!None, TableRows
<1> QED
  BY <1>1, <1>2, <1>3 DEF Formset!Absent, Formset!Gone, Formset!Row, Formset!None

DeletedNow(s) ==
  /\ \E i \in todo : form[i].key = s
  /\ \A i \in todo' : form[i].key # s

\* A row of the table stays one, and keeps its parent but for a colleague's step; what was
\* given to somebody is not free again, and becomes no child of the page unless a colleague
\* brings it; and what leaves the page was taken, or deleted as the form asks.
RowKept(s) ==
  db[s] # Formset!Absent =>
    /\ db'[s] # Formset!Absent
    /\ s \in strangers' /\ db'[s].parent = Parent => db[s].parent = Parent
    /\ foreign' = foreign => db'[s].parent \in {db[s].parent, "gone"}
    /\ foreign' = foreign /\ db'[s] # db[s] => s = checked
    /\ db[s].parent = Parent /\ db'[s].parent # Parent => s \in taken' \/ DeletedNow(s)

RowsKept == db' \in [Children -> TableRows] /\ \A s \in Children : RowKept(s)

LEMMA OneRowChanges ==
  ASSUME FormsetTypes, NEW r \in Children, NEW new \in TableRows, db' = [db EXCEPT ![r] = new],
         db[r] # Formset!Absent =>
           /\ new # Formset!Absent
           /\ new.parent # Parent \/ new.parent = db[r].parent \/ r \notin strangers'
           /\ new.parent = db[r].parent \/ r \in taken' \/ DeletedNow(r)
                \/ db[r].parent # Parent
           /\ foreign' = foreign => new.parent \in {db[r].parent, "gone"} /\ r = checked
  PROVE  RowsKept
<1>0. db \in [Children -> TableRows]
  BY TableTyped
<1>1. db' \in [Children -> TableRows] /\ db'[r] = new
      /\ \A s \in Children : s # r => db'[s] = db[s]
  BY <1>0
<1>2. ASSUME NEW s \in Children PROVE RowKept(s)
  <2>1. CASE s = r
    BY <1>1, <2>1 DEF RowKept
  <2>2. CASE s # r
    BY <1>1, <2>2 DEF RowKept
  <2> QED
    BY <2>1, <2>2
<1> QED
  BY <1>1, <1>2 DEF RowsKept

LEMMA NoRowChanges == ASSUME FormsetTypes, UNCHANGED db PROVE RowsKept
  BY TableTyped DEF RowsKept, RowKept

LEMMA RowGoes ==
  ASSUME FormsetTypes, NEW r \in Children, db' = [db EXCEPT ![r] = Formset!Gone],
         foreign' = foreign => r = checked, r \in taken' \/ DeletedNow(r)
  PROVE  RowsKept
<1>1. Formset!Gone \in TableRows /\ Formset!Gone.parent = "gone" /\ Formset!Gone # Formset!Absent
  BY TableTyped DEF TableRows
<1>2. Parent # "gone"
  BY FormsetConstants
<1> QED
  BY <1>1, <1>2, OneRowChanges

\* What owned() found is a row of the table.
LEMMA CheckedIsARow ==
  ASSUME FormsetInv, NEW key \in FormKeys, checked = key
  PROVE  /\ key \in Children /\ checked # Formset!None /\ db[key] # Formset!Absent
<1>1. key \in Children /\ key # "none"
  BY FormsetConstants DEF FormsetInv, FormsetTypes, Formset!TypeOK, Formset!None, FormKeys
<1> QED
  BY <1>1 DEF FormsetInv, FormsetTypes, Formset!TypeOK, KeysAreKnown, Formset!None

LEMMA RowsStep == ASSUME FormsetInv, Formset!Next PROVE RowsKept
<1>0. FormsetTypes
  BY DEF FormsetInv
<1>1. db \in [Children -> TableRows] /\ foreign \in Nat
  BY <1>0, TableTyped
<1>2. ASSUME NEW key \in FormKeys, Formset!Update(key) PROVE RowsKept
  <2>1. CASE UNCHANGED db
    BY <1>0, <2>1, NoRowChanges
  <2>2. CASE ~UNCHANGED db
    <3>1. /\ db' = [db EXCEPT ![key].value = body[key], ![key].by = "operator"]
          /\ ~Formset!ToDelete(key) /\ Formset!Working(key) /\ key = checked
      BY <1>2, <2>2 DEF Formset!Update
    <3>2. key \in Children /\ checked # Formset!None /\ db[key] # Formset!Absent
      BY <3>1, CheckedIsARow
    <3>3. body[key] \in Typed
      BY <1>0, <3>1, WorkedOn
    <3>4. body[key] \notin {"bad", ""}
      BY <3>1, <3>2 DEF FormsetInv, KeysAreKnown, Formset!Invalid
    <3> DEFINE new == [db[key] EXCEPT !.value = "ok", !.by = "operator"]
    <3>5. body[key] = "ok"
      BY <3>1, <3>3, <3>4 DEF Typed
    <3>6. db[key] \in TableRows
      BY <1>1, <3>2
    <3>7. /\ new \in TableRows /\ new.parent = db[key].parent /\ new # Formset!Absent
      BY <3>6 DEF TableRows, Formset!Absent, Formset!Row, Formset!None
    <3>8. db' = [db EXCEPT ![key] = new]
      BY <1>1, <3>1, <3>2, <3>5
    <3> QED
      BY <1>0, <3>1, <3>2, <3>7, <3>8, OneRowChanges
  <2> QED
    BY <2>1, <2>2
<1>3. ASSUME NEW key \in FormKeys, Formset!Create(key) PROVE RowsKept
  <2>1. PICK r \in Children : db[r] = Formset!Absent
                            /\ db' = [db EXCEPT ![r] = Formset!Row(Parent, body[key], "operator")]
    BY <1>3 DEF Formset!Create
  <2>2. body[key] \notin {"bad", ""} /\ Formset!Working(key)
    BY <1>3 DEF Formset!Create, Formset!Invalid
  <2>3. body[key] = "ok"
    BY <1>0, <2>2, WorkedOn DEF Typed
  <2>4. Formset!Row(Parent, body[key], "operator") \in TableRows
    BY <2>3 DEF Formset!Row, TableRows
  <2> QED
    BY <1>0, <2>1, <2>4, OneRowChanges
<1>4. ASSUME NEW key \in FormKeys, Formset!Delete(key) PROVE RowsKept
  <2>1. key = checked /\ db' = [db EXCEPT ![key] = Formset!Gone] /\ Formset!Working(key)
        /\ Formset!Done(key)
    BY <1>4 DEF Formset!Delete
  <2>2. key \in Children
    BY <2>1, CheckedIsARow
  <2>3. DeletedNow(key)
    BY <2>1 DEF DeletedNow, Formset!Working, Formset!Done
  <2> QED
    BY <1>0, <2>1, <2>2, <2>3, RowGoes
<1>5. ASSUME NEW r \in Children, NEW parent \in {Parent, OtherParent}, Formset!Move(r, parent)
      PROVE  RowsKept
  <2> DEFINE new == [db[r] EXCEPT !.parent = parent, !.by = "colleague"]
  <2>1. /\ db' = [db EXCEPT ![r].parent = parent, ![r].by = "colleague"]
        /\ foreign' = foreign + 1 /\ db[r].parent \in {Parent, OtherParent} \ {parent}
        /\ IF parent = Parent THEN r \notin strangers' ELSE r \in taken'
    BY <1>5 DEF Formset!Move
  <2>2. db[r] \in TableRows /\ db' = [db EXCEPT ![r] = new]
    BY <1>1, <2>1
  <2>3. new \in TableRows /\ new.parent = parent /\ new # Formset!Absent
    BY <2>2, FormsetConstants DEF TableRows, Formset!Absent, Formset!Row, Formset!None
  <2>4. foreign' # foreign
    BY <1>1, <2>1
  <2>5. /\ new.parent # Parent \/ r \notin strangers'
        /\ r \in taken' \/ db[r].parent # Parent
    BY <2>1, <2>3
  <2> QED
    BY <1>0, <2>2, <2>3, <2>4, <2>5, OneRowChanges
<1>6. ASSUME NEW r \in Children, Formset!Discard(r) PROVE RowsKept
  <2>1. db' = [db EXCEPT ![r] = Formset!Gone] /\ foreign' = foreign + 1 /\ r \in taken'
    BY <1>6 DEF Formset!Discard
  <2>2. foreign' # foreign
    BY <1>1, <2>1
  <2> QED
    BY <1>0, <2>1, <2>2, RowGoes
<1>7. ASSUME NEW key \in FormKeys,
             \/ Formset!Skip(key) \/ Formset!FailValidation(key) \/ Formset!CheckOwned(key)
             \/ Formset!RefuseDelete(key) \/ Formset!RefuseWrite(key)
      PROVE  UNCHANGED db
  BY <1>7 DEF Formset!Skip, Formset!FailValidation, Formset!CheckOwned, Formset!RefuseDelete,
              Formset!RefuseWrite
<1>8. ASSUME Formset!Load \/ Formset!Submit \/ Formset!Answer PROVE UNCHANGED db
  BY <1>8 DEF Formset!Load, Formset!Submit, Formset!Answer
<1> QED
  BY <1>0, <1>2, <1>3, <1>4, <1>5, <1>6, <1>7, <1>8, FormsetSteps, NoRowChanges DEF Foreign

\* What the steps of one key have in common.
KeyStep(key) ==
  \/ Formset!Skip(key) \/ Formset!FailValidation(key) \/ Formset!CheckOwned(key)
  \/ Formset!Delete(key) \/ Formset!Update(key) \/ Formset!Create(key)
  \/ Formset!RefuseWrite(key)

\* A key is found to be a child of the page ...
Found(key) ==
  /\ UNCHANGED <<todo, failed, saved>> /\ checked' = key /\ db[key].parent = Parent
  /\ Formset!ToDelete(key) \/ ~Formset!Invalid(key)

\* ... or done with: its row is saved, or no child, or blank, or comes back.
DoneWith(key) ==
  /\ todo' = {i \in todo : form[i].key # key} /\ checked' = Formset!None
  /\ \/ UNCHANGED failed /\ saved' = saved \cup {key}
     \/ UNCHANGED <<failed, saved>> /\ body[key] = ""
     \/ UNCHANGED <<failed, saved>> /\ key \in Children /\ db[key].parent # Parent
     \/ Formset!Fail(key) /\ UNCHANGED <<saved, db>>

LEMMA KeySteps ==
  ASSUME FormsetInv, NEW key \in FormKeys, KeyStep(key)
  PROVE  /\ Formset!Working(key)
         /\ Found(key) \/ DoneWith(key)
         /\ UNCHANGED <<form, stage, body, ticked, strangers, taken, foreign, posts>>
<1>1. CASE Formset!Skip(key)
  BY <1>1 DEF Formset!Skip, Formset!Done, Formset!SkippedBlank, DoneWith
<1>2. CASE Formset!FailValidation(key)
  BY <1>2 DEF Formset!FailValidation, Formset!Done, DoneWith
<1>3. CASE Formset!CheckOwned(key)
  <2>1. key \in Children
    BY <1>3 DEF Formset!CheckOwned, Formset!IsNew, FormKeys
  <2> QED
    BY <1>3, <2>1 DEF Formset!CheckOwned, Formset!Done, Found, DoneWith
<1>4. CASE Formset!Delete(key)
  BY <1>4 DEF Formset!Delete, Formset!Done, DoneWith
<1>5. CASE Formset!Update(key)
  <2>1. key \in Children
    BY <1>5, CheckedIsARow DEF Formset!Update
  <2>2. db[key] = Formset!Gone => db[key].parent # Parent
    <3>1. Formset!Gone.parent = "gone"
      BY DEF Formset!Gone, Formset!Row
    <3>2. Parent # "gone"
      BY FormsetConstants
    <3> QED
      BY <3>1, <3>2
  <2> QED
    BY <1>5, <2>1, <2>2 DEF Formset!Update, Formset!Done, DoneWith
<1>6. CASE Formset!Create(key)
  BY <1>6 DEF Formset!Create, Formset!Done, DoneWith
<1>7. CASE Formset!RefuseWrite(key)
  BY <1>7 DEF Formset!RefuseWrite, Formset!Done, DoneWith
<1> QED
  BY <1>1, <1>2, <1>3, <1>4, <1>5, <1>6, <1>7 DEF KeyStep

LEMMA FailedStep ==
  ASSUME FormsetInv, NEW key \in FormKeys, KeyStep(key)
  PROVE  /\ failed' \in Seq(FormRows)
         /\ \A i \in DOMAIN failed : i \in DOMAIN failed' /\ failed'[i] = failed[i]
         /\ \A i \in DOMAIN failed' : i \in DOMAIN failed \/ failed'[i].key = key
         /\ Formset!Fail(key) =>
              \E i \in DOMAIN failed' : failed'[i] = [key |-> key, value |-> body[key]]
         /\ ~Formset!Fail(key) => failed' = failed
<1> USE DEF FormsetInv
<1>1. Formset!Working(key)
  BY KeySteps
<1>2. CASE Formset!Fail(key)
  <2> DEFINE again == Append(failed, Formset!FormRow(key, body[key]))
             row_ == [key |-> key, value |-> body[key]]
  <2>1. failed' = again
    BY <1>2 DEF Formset!Fail
  <2>2. /\ again \in Seq(FormRows) /\ DOMAIN again = 1 .. Len(failed) + 1
        /\ again[Len(failed) + 1] = row_ /\ DOMAIN failed = 1 .. Len(failed)
        /\ Len(failed) \in Nat /\ \A i \in DOMAIN failed : again[i] = failed[i]
    BY <1>1, WorkedOn
  <2>3. row_.key = key
    OBVIOUS
  <2> HIDE DEF again, row_
  <2> QED
    BY <1>2, <2>1, <2>2, <2>3 DEF row_
<1>3. CASE ~Formset!Fail(key)
  <2>1. failed' = failed
    BY <1>3, KeySteps DEF Found, DoneWith
  <2> QED
    BY <1>3, <2>1 DEF FormsetTypes
<1> QED
  BY <1>2, <1>3

\* What an answer or a refused delete ends.
Ending == Formset!Answer \/ \E key \in FormKeys : Formset!RefuseDelete(key)

LEMMA Ended ==
  ASSUME FormsetTypes, Ending
  PROVE  /\ stage = "post" /\ todo' = {} /\ failed' = <<>> /\ checked' = Formset!None
         /\ strangers' = {} /\ UNCHANGED <<db, taken, foreign, posts>>
         /\ stage' \in {"away", "page"} /\ form' \in Seq(FormRows)
         /\ \A i \in DOMAIN form' :
              form'[i].key \in Children => \E j \in DOMAIN failed : failed[j].key = form'[i].key
<1>1. /\ stage = "post" /\ todo' = {} /\ failed' = <<>> /\ checked' = Formset!None
      /\ strangers' = {} /\ UNCHANGED <<db, taken, foreign, posts>>
      /\ stage' \in {"away", "page"}
  BY DEF Ending, Formset!Answer, Formset!RefuseDelete, Formset!Working, Formset!Over
<1>4. <<>> \in Seq(FormRows)
  OBVIOUS
<1>5. CASE form' = <<>>
  BY <1>1, <1>4, <1>5
<1>6. CASE form' # <<>>
  <2>1. failed # <<>> /\ Formset!Answer
    BY <1>6 DEF Ending, Formset!Answer, Formset!RefuseDelete
  <2> DEFINE blank == Formset!FormRow("new1", EmptyRow)
  <2>2. form' = Append(failed, blank)
    BY <2>1 DEF Formset!Answer
  <2>7. blank \in FormRows /\ blank.key = "new1"
    BY FormsetConstants DEF Formset!FormRow, FormRows, FormKeys, Typed
  <2>3. failed \in Seq(FormRows)
    BY DEF FormsetTypes
  <2> HIDE DEF blank
  <2>4. /\ form' \in Seq(FormRows) /\ DOMAIN form' = 1 .. Len(failed) + 1
        /\ form'[Len(failed) + 1] = blank /\ DOMAIN failed = 1 .. Len(failed)
        /\ Len(failed) \in Nat /\ \A i \in DOMAIN failed : form'[i] = failed[i]
    BY <2>2, <2>3, <2>7
  <2>5. ASSUME NEW i \in DOMAIN form', form'[i].key \in Children
        PROVE  \E j \in DOMAIN failed : failed[j].key = form'[i].key
    <3>1. i # Len(failed) + 1
      BY <2>4, <2>5, <2>7, FormsetConstants
    <3> QED
      BY <2>4, <3>1
  <2> QED
    BY <1>1, <2>4, <2>5
<1> QED
  BY <1>5, <1>6

LEMMA FormsetTypesStep == ASSUME FormsetInv, Formset!Next PROVE FormsetTypes'
<1>0. FormsetTypes /\ KeysAreKnown
  BY DEF FormsetInv
<1>1. db' \in [Children -> TableRows]
  BY RowsStep DEF RowsKept
<1> DEFINE Others ==
      /\ stage' \in {"away", "page", "post"} /\ todo' \subseteq DOMAIN form'
      /\ checked' \in Children \cup {"none"} /\ foreign' \in 0 .. MaxForeign
      /\ posts' \in 0 .. MaxPosts
      /\ form' \in Seq(FormRows) /\ failed' \in Seq(FormRows)
      /\ stage' = "post" =>
           body' \in [{form'[i].key : i \in DOMAIN form'} -> Typed]
      /\ stage' # "post" => todo' = {} /\ failed' = <<>>
      /\ strangers' \subseteq Children /\ taken' \subseteq Children
<1>2. /\ stage \in {"away", "page", "post"} /\ todo \subseteq DOMAIN form
      /\ checked \in Children \cup {"none"} /\ foreign \in 0 .. MaxForeign
      /\ posts \in 0 .. MaxPosts /\ form \in Seq(FormRows) /\ failed \in Seq(FormRows)
      /\ stage = "post" => body \in [{form[i].key : i \in DOMAIN form} -> Typed]
      /\ stage # "post" => todo = {} /\ failed = <<>>
      /\ strangers \subseteq Children /\ taken \subseteq Children
  BY <1>0 DEF FormsetTypes, Formset!TypeOK, Formset!None
<1>3. ASSUME Formset!Load PROVE Others
  <2>1. form' \in Seq(FormRows)
    BY <1>0, <1>3, Loaded
  <2>2. /\ stage = "away" /\ stage' = "page"
        /\ UNCHANGED <<todo, checked, failed, strangers, foreign, posts>> /\ taken' = {}
    BY <1>3 DEF Formset!Load
  <2> QED
    BY <1>2, <2>1, <2>2
<1>4. ASSUME Formset!Submit PROVE Others
  <2>1. /\ form' \in Seq(FormRows) /\ DOMAIN form' = DOMAIN form
        /\ body' \in [{form'[i].key : i \in DOMAIN form'} -> Typed]
    BY <1>0, <1>4, Submitted
  <2>2. MaxPosts \in Nat /\ posts' = posts + 1 /\ posts < MaxPosts
    BY <1>4, FormsetConstants DEF Formset!Submit
  <2>3. posts' \in 0 .. MaxPosts
    BY <1>2, <2>2
  <2>4. /\ stage' = "post" /\ todo' = DOMAIN form /\ checked' = "none" /\ failed' = <<>>
        /\ UNCHANGED <<foreign, taken>> /\ strangers' \subseteq Children
    BY <1>4 DEF Formset!Submit, Formset!None
  <2>5. <<>> \in Seq(FormRows)
    OBVIOUS
  <2> QED
    BY <1>2, <2>1, <2>3, <2>4, <2>5
<1>5. ASSUME Ending PROVE Others
  <2>1. <<>> \in Seq(FormRows)
    OBVIOUS
  <2> QED
    BY <1>0, <1>2, <1>5, <2>1, Ended DEF Formset!None
<1>6. ASSUME NEW key \in FormKeys, KeyStep(key) PROVE Others
  <2>1. /\ Formset!Working(key)
        /\ Found(key) \/ DoneWith(key)
        /\ UNCHANGED <<form, stage, body, strangers, taken, foreign, posts>>
    BY <1>6, KeySteps
  <2>2. failed' \in Seq(FormRows) /\ stage = "post"
    BY <1>0, <1>6, <2>1, FailedStep, WorkedOn
  <2>3. todo' \subseteq todo
    BY <2>1 DEF Found, DoneWith
  <2>4. checked' \in Children \cup {"none"}
    <3>1. CASE DoneWith(key)
      BY <3>1 DEF DoneWith, Formset!None
    <3>2. CASE Found(key)
      <4>1. CASE Formset!CheckOwned(key)
        BY <3>2, <4>1 DEF Formset!CheckOwned, Formset!IsNew, FormKeys, Found
      <4>2. CASE ~Formset!CheckOwned(key)
        <5>1. checked' = Formset!None
          BY <1>6, <4>2 DEF KeyStep, Formset!Skip, Formset!FailValidation, Formset!Delete,
                            Formset!Update, Formset!Create, Formset!RefuseWrite, Formset!Done
        <5> QED
          BY <5>1 DEF Formset!None
      <4> QED
        BY <4>1, <4>2
    <3> QED
      BY <2>1, <3>1, <3>2
  <2> QED
    BY <1>2, <2>1, <2>2, <2>3, <2>4
<1>7. ASSUME NEW r \in Children, Foreign(r) PROVE Others
  <2>1. /\ foreign < MaxForeign /\ foreign' = foreign + 1
        /\ UNCHANGED <<form, stage, todo, body, checked, failed, posts>>
        /\ strangers' \subseteq strangers /\ taken' \subseteq taken \cup {r}
    BY <1>7, ForeignSteps
  <2>2. MaxForeign \in Nat
    BY FormsetConstants
  <2>3. foreign' \in 0 .. MaxForeign
    BY <1>2, <2>1, <2>2
  <2>4. strangers' \subseteq Children /\ taken' \subseteq Children
    BY <1>2, <2>1
  <2> QED
    BY <1>2, <2>1, <2>3, <2>4
<1>8. Others
  <2> HIDE DEF Others
  <2> QED
    BY <1>3, <1>4, <1>5, <1>6, <1>7, FormsetSteps DEF KeyStep, Ending
<1> QED
  BY <1>1, <1>8 DEF FormsetTypes, Formset!TypeOK, Formset!None, TableRows

LEMMA KeysAreKnownStep == ASSUME FormsetInv, Formset!Next PROVE KeysAreKnown'
<1>0. FormsetTypes /\ KeysAreKnown /\ RowsKept
  BY RowsStep DEF FormsetInv
<1>1. \A s \in Children : db[s] # Formset!Absent =>
        /\ db'[s] # Formset!Absent
        /\ s \in strangers' /\ db'[s].parent = Parent => db[s].parent = Parent
  BY <1>0 DEF RowsKept, RowKept
<1>2. \A i \in DOMAIN form : form[i].key \in Children => db[form[i].key] # Formset!Absent
  BY <1>0 DEF KeysAreKnown
<1>3. Parent # "none" /\ Formset!Absent.parent = "none"
  BY FormsetConstants DEF Formset!Absent, Formset!Row, Formset!None
<1>4. form \in Seq(FormRows)
  BY <1>0 DEF FormsetTypes
<1>5. ASSUME Formset!Load PROVE KeysAreKnown'
  <2>1. /\ stage = "away" /\ stage' = "page" /\ UNCHANGED <<db, todo, checked, failed>>
    BY <1>5 DEF Formset!Load
  <2>2. failed = <<>> /\ checked = Formset!None
    BY <1>0, <2>1 DEF FormsetTypes, KeysAreKnown
  <2>3. \A i \in DOMAIN form' : form'[i].key \in Children => db'[form'[i].key] # Formset!Absent
    BY <1>0, <1>3, <1>5, <2>1, Loaded
  <2> QED
    BY <2>1, <2>2, <2>3 DEF KeysAreKnown, Formset!None
<1>6. ASSUME Formset!Submit PROVE KeysAreKnown'
  <2>1. /\ stage' = "post" /\ UNCHANGED db /\ checked' = Formset!None /\ failed' = <<>>
        /\ strangers' = Children \ Formset!ChildrenOf(Parent)
    BY <1>6 DEF Formset!Submit
  <2>2. DOMAIN form' = DOMAIN form /\ \A i \in DOMAIN form : form'[i].key = form[i].key
    BY <1>0, <1>6, Submitted
  <2>3. \A r \in strangers' : db'[r].parent # Parent
    BY <2>1 DEF Formset!ChildrenOf
  <2> QED
    BY <1>2, <2>1, <2>2, <2>3 DEF KeysAreKnown, Formset!None
<1>7. ASSUME Ending PROVE KeysAreKnown'
  <2>1. /\ failed' = <<>> /\ UNCHANGED db /\ stage' # "post" /\ checked' = Formset!None
        /\ \A i \in DOMAIN form' :
             form'[i].key \in Children => \E j \in DOMAIN failed : failed[j].key = form'[i].key
    BY <1>0, <1>7, Ended
  <2>3. \A i \in DOMAIN form' : form'[i].key \in Children => db'[form'[i].key] # Formset!Absent
    BY <1>0, <2>1 DEF KeysAreKnown
  <2> QED
    BY <2>1, <2>3 DEF KeysAreKnown, Formset!None
<1>8. ASSUME NEW key \in FormKeys, KeyStep(key) PROVE KeysAreKnown'
  <2>1. /\ Formset!Working(key)
        /\ Found(key) \/ DoneWith(key)
        /\ UNCHANGED <<form, stage, body, ticked, strangers, foreign, posts>>
    BY <1>8, KeySteps
  <2>2. PICK i \in DOMAIN form : i \in todo /\ form[i].key = key
    BY <1>0, <2>1, WorkedOn
  <2>3. stage = "post"
    BY <1>0, <2>1, WorkedOn
  <2>4. \A j \in DOMAIN form' : form'[j].key \in Children => db'[form'[j].key] # Formset!Absent
    BY <1>1, <1>2, <2>1
  <2>5. \A j \in DOMAIN failed' : \E l \in DOMAIN form' : failed'[j].key = form'[l].key
    BY <1>0, <1>8, <2>1, <2>2, FailedStep DEF KeysAreKnown
  <2>6. ASSUME NEW j \in DOMAIN form', form'[j].key \in strangers'
        PROVE  db'[form'[j].key].parent # Parent
    <3>1. form[j].key \in strangers /\ j \in DOMAIN form
      BY <2>1, <2>6
    <3>2. db[form[j].key].parent # Parent
      BY <1>0, <2>3, <3>1 DEF KeysAreKnown
    <3>3. form[j].key \in Children
      BY <1>0, <3>1 DEF FormsetTypes
    <3> QED
      BY <1>1, <1>2, <2>1, <3>1, <3>2, <3>3
  <2>7. ASSUME checked' # Formset!None
        PROVE  /\ stage' = "post" /\ checked' \notin strangers'
               /\ \E j \in todo' : form'[j].key = checked'
               /\ (Formset!ToDelete(checked) \/ ~Formset!Invalid(checked))'
    <3>1. Found(key)
      BY <2>1, <2>7 DEF DoneWith
    <3>2. checked' = key /\ db[key].parent = Parent /\ UNCHANGED todo
          /\ (Formset!ToDelete(key) \/ ~Formset!Invalid(key))
      BY <3>1 DEF Found
    <3>3. key \notin strangers
      BY <1>0, <2>2, <2>3, <3>2 DEF KeysAreKnown
    <3>4. (Formset!ToDelete(checked) \/ ~Formset!Invalid(checked))'
      BY <2>1, <3>2 DEF Formset!ToDelete, Formset!Invalid, Formset!IsNew
    <3> QED
      BY <2>1, <2>2, <2>3, <3>2, <3>3, <3>4
  <2> QED
    BY <2>4, <2>5, <2>6, <2>7 DEF KeysAreKnown, Formset!None
<1>9. ASSUME NEW r \in Children, Foreign(r) PROVE KeysAreKnown'
  <2>1. /\ UNCHANGED <<form, stage, todo, body, ticked, checked, failed>>
        /\ strangers' \subseteq strangers
    BY <1>9, ForeignSteps
  <2>2. \A i \in DOMAIN form' : form'[i].key \in Children => db'[form'[i].key] # Formset!Absent
    BY <1>1, <1>2, <2>1
  <2>3. ASSUME stage = "post", NEW i \in DOMAIN form, form[i].key \in strangers'
        PROVE  db'[form[i].key].parent # Parent
    <3>1. form[i].key \in Children /\ db[form[i].key].parent # Parent
      BY <1>0, <2>1, <2>3 DEF FormsetTypes, KeysAreKnown
    <3> QED
      BY <1>1, <1>2, <2>3, <3>1
  <2>4. (Formset!ToDelete(checked) \/ ~Formset!Invalid(checked))
           <=> (Formset!ToDelete(checked) \/ ~Formset!Invalid(checked))'
    BY <2>1 DEF Formset!ToDelete, Formset!Invalid, Formset!IsNew
  <2>5. \A i \in DOMAIN failed' : \E j \in DOMAIN form' : failed'[i].key = form'[j].key
    BY <1>0, <2>1 DEF KeysAreKnown
  <2>6. checked' # Formset!None =>
          /\ stage' = "post" /\ checked' \notin strangers'
          /\ \E i \in todo' : form'[i].key = checked'
          /\ (Formset!ToDelete(checked) \/ ~Formset!Invalid(checked))'
    BY <1>0, <2>1, <2>4 DEF KeysAreKnown
  <2> QED
    BY <2>1, <2>2, <2>3, <2>5, <2>6 DEF KeysAreKnown, Formset!None
<1> QED
  BY <1>5, <1>6, <1>7, <1>8, <1>9, FormsetSteps DEF KeyStep, Ending

LEMMA LeftIsTakenStep == ASSUME FormsetInv, Formset!Next PROVE LeftIsTaken'
<1>0. FormsetTypes /\ KeysAreKnown /\ LeftIsTaken /\ RowsKept
  BY RowsStep DEF FormsetInv
<1>1. ASSUME Formset!Load PROVE LeftIsTaken'
  <2>1. UNCHANGED <<db, failed>> /\ failed = <<>>
    BY <1>0, <1>1 DEF Formset!Load, FormsetTypes
  <2>2. \A i \in DOMAIN form' : form'[i].key \in Children => db'[form'[i].key].parent = Parent
    BY <1>0, <1>1, <2>1, Loaded
  <2> QED
    BY <2>1, <2>2 DEF LeftIsTaken
<1>2. ASSUME Formset!Submit PROVE LeftIsTaken'
  <2>1. /\ stage # "post" /\ UNCHANGED <<db, taken>> /\ failed' = <<>>
    BY <1>2 DEF Formset!Submit
  <2>2. DOMAIN form' = DOMAIN form /\ \A i \in DOMAIN form : form'[i].key = form[i].key
    BY <1>0, <1>2, Submitted
  <2> QED
    BY <1>0, <2>1, <2>2 DEF LeftIsTaken
<1>3. ASSUME Ending PROVE LeftIsTaken'
  <2>1. /\ UNCHANGED <<db, taken>> /\ failed' = <<>> /\ todo' = {}
        /\ \A i \in DOMAIN form' :
             form'[i].key \in Children => \E j \in DOMAIN failed : failed[j].key = form'[i].key
    BY <1>0, <1>3, Ended
  <2>2. ASSUME NEW i \in DOMAIN form', form'[i].key \in Children
        PROVE  db'[form'[i].key].parent = Parent \/ form'[i].key \in taken'
    <3>1. PICK j \in DOMAIN failed : failed[j].key = form'[i].key
      BY <2>1, <2>2
    <3> QED
      BY <1>0, <2>1, <2>2, <3>1 DEF LeftIsTaken
  <2> QED
    BY <2>1, <2>2 DEF LeftIsTaken
\* of a row that leaves the page either is known
<1>4. ASSUME UNCHANGED form, taken \subseteq taken', NEW s \in Children, db[s] # Formset!Absent,
             db[s].parent = Parent \/ s \in taken
      PROVE  db'[s].parent = Parent \/ s \in taken' \/ DeletedNow(s)
  BY <1>0, <1>4 DEF RowsKept, RowKept
<1>5. ASSUME UNCHANGED <<form, stage>>, taken \subseteq taken', todo' \subseteq todo,
             stage = "post" \/ UNCHANGED todo
      PROVE  \A i \in DOMAIN form' : form'[i].key \in Children =>
               \/ db'[form'[i].key].parent = Parent \/ form'[i].key \in taken'
               \/ stage' = "post" /\ i \notin todo'
  <2> SUFFICES ASSUME NEW i \in DOMAIN form, form[i].key \in Children,
                      ~(stage = "post" /\ i \notin todo')
               PROVE  db'[form[i].key].parent = Parent \/ form[i].key \in taken'
    BY <1>5
  <2>1. db[form[i].key].parent = Parent \/ form[i].key \in taken
    BY <1>0, <1>5 DEF LeftIsTaken
  <2>2. db[form[i].key] # Formset!Absent
    BY <1>0 DEF KeysAreKnown
  <2>3. ~DeletedNow(form[i].key)
    <3>1. CASE i \in todo'
      BY <3>1 DEF DeletedNow
    <3>2. CASE stage # "post"
      BY <1>0, <3>2 DEF DeletedNow, FormsetTypes
    <3> QED
      BY <3>1, <3>2
  <2> QED
    BY <1>4, <1>5, <2>1, <2>2, <2>3
<1>6. ASSUME UNCHANGED form, taken \subseteq taken', NEW i \in DOMAIN failed,
             failed[i].key \in Children
      PROVE  db'[failed[i].key].parent = Parent \/ failed[i].key \in taken'
  <2>1. db[failed[i].key].parent = Parent \/ failed[i].key \in taken
    BY <1>0, <1>6 DEF LeftIsTaken
  <2>2. db[failed[i].key] # Formset!Absent
    BY <1>0, <1>6 DEF KeysAreKnown
  <2>3. ~DeletedNow(failed[i].key)
    BY <1>0 DEF DeletedNow, LeftIsTaken
  <2> QED
    BY <1>4, <1>6, <2>1, <2>2, <2>3
<1>7. ASSUME NEW key \in FormKeys, KeyStep(key) PROVE LeftIsTaken'
  <2>1. /\ Formset!Working(key)
        /\ Found(key) \/ DoneWith(key)
        /\ UNCHANGED <<form, stage, taken>>
    BY <1>7, KeySteps
  <2>2. /\ stage = "post" /\ \E j \in DOMAIN form : j \in todo /\ form[j].key = key
    BY <1>0, <2>1, WorkedOn
  <2>3. todo' \subseteq todo
    BY <2>1 DEF Found, DoneWith
  <2>4. /\ \A i \in DOMAIN failed : i \in DOMAIN failed' /\ failed'[i] = failed[i]
        /\ \A i \in DOMAIN failed' : i \in DOMAIN failed \/ failed'[i].key = key
        /\ ~Formset!Fail(key) => failed' = failed
    BY <1>7, FailedStep
  <2>5. ASSUME NEW i \in DOMAIN failed', i \notin DOMAIN failed
        PROVE  failed'[i].key = key /\ DoneWith(key) /\ UNCHANGED db
    <3>1. failed' # failed /\ Formset!Fail(key) /\ failed'[i].key = key
      BY <2>4, <2>5
    <3> QED
      BY <2>1, <3>1 DEF Found, DoneWith
  <2>6. \A i \in DOMAIN failed' : failed'[i].key \in Children =>
          db'[failed'[i].key].parent = Parent \/ failed'[i].key \in taken'
    <3> SUFFICES ASSUME NEW i \in DOMAIN failed', failed'[i].key \in Children
                 PROVE  db'[failed'[i].key].parent = Parent \/ failed'[i].key \in taken'
      OBVIOUS
    <3>1. CASE i \in DOMAIN failed
      <4>1. failed'[i] = failed[i]
        BY <2>4, <3>1
      <4> QED
        BY <1>6, <2>1, <3>1, <4>1
    <3>2. CASE i \notin DOMAIN failed
      <4>1. key \in Children /\ UNCHANGED db /\ failed'[i].key = key
        BY <2>5, <3>2
      <4>2. db[key].parent = Parent \/ key \in taken
        BY <1>0, <2>2, <4>1 DEF LeftIsTaken
      <4> QED
        BY <2>1, <4>1, <4>2
    <3> QED
      BY <3>1, <3>2
  <2>7. ASSUME NEW i \in DOMAIN failed', NEW j \in todo' PROVE failed'[i].key # form'[j].key
    <3>1. CASE i \in DOMAIN failed
      <4>1. failed'[i] = failed[i]
        BY <2>4, <3>1
      <4> QED
        BY <1>0, <2>1, <2>3, <3>1, <4>1 DEF LeftIsTaken
    <3>2. CASE i \notin DOMAIN failed
      BY <2>1, <2>5, <3>2 DEF DoneWith
    <3> QED
      BY <3>1, <3>2
  <2> QED
    BY <1>5, <2>1, <2>2, <2>3, <2>6, <2>7 DEF LeftIsTaken
<1>8. ASSUME NEW r \in Children, Foreign(r) PROVE LeftIsTaken'
  <2>1. taken \subseteq taken' /\ UNCHANGED <<form, stage, todo, failed>>
    BY <1>8, ForeignSteps
  <2>2. \A i \in DOMAIN failed : failed[i].key \in Children =>
          db'[failed[i].key].parent = Parent \/ failed[i].key \in taken'
    BY <1>6, <2>1
  <2>3. \A i \in DOMAIN failed, j \in todo : failed[i].key # form[j].key
    BY <1>0 DEF LeftIsTaken
  <2> QED
    BY <1>5, <2>1, <2>2, <2>3 DEF LeftIsTaken
<1> QED
  BY <1>1, <1>2, <1>3, <1>7, <1>8, FormsetSteps DEF KeyStep, Ending

LEMMA WorkedOffStep == ASSUME FormsetInv, Formset!Next PROVE WorkedOffIsKept'
<1>0. FormsetTypes /\ LeftIsTaken /\ WorkedOffIsKept
  BY DEF FormsetInv
<1>1. ASSUME Formset!Load \/ Ending PROVE WorkedOffIsKept'
  <2>1. stage' # "post"
    BY <1>0, <1>1, Ended DEF Formset!Load
  <2> QED
    BY <2>1 DEF WorkedOffIsKept
<1>2. ASSUME Formset!Submit PROVE WorkedOffIsKept'
  <2>1. todo' = DOMAIN form'
    BY <1>0, <1>2, Submitted DEF Formset!Submit
  <2> QED
    BY <1>0, <1>2, <2>1, Submitted DEF WorkedOffIsKept
<1>3. ASSUME NEW key \in FormKeys, KeyStep(key) PROVE WorkedOffIsKept'
  <2>1. /\ Formset!Working(key)
        /\ Found(key) \/ DoneWith(key)
        /\ UNCHANGED <<form, stage, body, ticked, strangers, taken, foreign, posts>>
    BY <1>3, KeySteps
  <2> SUFFICES ASSUME Formset!OneRowEach, stage = "post"
               PROVE  /\ \A i \in DOMAIN form : body[form[i].key] = form[i].value
                      /\ \A i \in DOMAIN form \ todo' :
                           Formset!TypedRow(i) => Formset!Kept(form[i])'
    BY <2>1 DEF WorkedOffIsKept, Formset!OneRowEach, Formset!TypedRow
  <2>2. /\ \A i \in DOMAIN form : body[form[i].key] = form[i].value
        /\ \A i \in DOMAIN form \ todo : Formset!TypedRow(i) => Formset!Kept(form[i])
    BY <1>0 DEF WorkedOffIsKept
  <2>3. \A typed : Formset!Kept(typed) => Formset!Kept(typed)'
    <3>1. saved \subseteq saved' /\ UNCHANGED taken
      BY <2>1 DEF Found, DoneWith
    <3>2. \A i \in DOMAIN failed : i \in DOMAIN failed' /\ failed'[i] = failed[i]
      BY <1>0, <1>3, FailedStep
    <3> QED
      BY <3>1, <3>2 DEF Formset!Kept
  <2>4. ASSUME NEW i \in DOMAIN form, i \in todo, i \notin todo', Formset!TypedRow(i)
        PROVE  Formset!Kept(form[i])'
    <3>1. form[i].key = key /\ DoneWith(key)
      BY <2>1, <2>4 DEF Found, DoneWith
    <3>2. form[i] \in FormRows
      BY <1>0 DEF FormsetTypes
    <3>3. form[i] = [key |-> key, value |-> body[key]]
      BY <2>2, <3>1, <3>2 DEF FormRows
    <3>4. body[key] # ""
      BY <2>2, <2>4, <3>1 DEF Formset!TypedRow
    <3>7. CASE key \in Children /\ db[key].parent # Parent
      <4>1. key \in taken
        BY <1>0, <2>4, <3>1, <3>7 DEF LeftIsTaken
      <4> QED
        BY <2>1, <3>1, <4>1 DEF Formset!Kept
    <3>5. CASE saved' = saved \cup {key}
      BY <2>1, <3>1, <3>5 DEF Formset!Kept
    <3>6. CASE Formset!Fail(key)
      <4>1. \E j \in DOMAIN failed' : failed'[j] = form[i]
        BY <1>0, <1>3, <3>3, <3>6, FailedStep
      <4> QED
        BY <2>1, <4>1 DEF Formset!Kept
    <3> QED
      BY <3>1, <3>4, <3>5, <3>6, <3>7 DEF DoneWith
  <2> QED
    BY <2>1, <2>2, <2>3, <2>4
<1>4. ASSUME NEW r \in Children, Foreign(r) PROVE WorkedOffIsKept'
  <2>1. UNCHANGED <<form, stage, todo, body, ticked, failed, saved>> /\ taken \subseteq taken'
    BY <1>4, ForeignSteps
  <2>2. \A typed : Formset!Kept(typed) => Formset!Kept(typed)'
    BY <2>1 DEF Formset!Kept
  <2> QED
    BY <1>0, <2>1, <2>2 DEF WorkedOffIsKept, Formset!OneRowEach, Formset!TypedRow
<1> QED
  BY <1>1, <1>2, <1>3, <1>4, FormsetSteps DEF KeyStep, Ending

LEMMA FormsetStays == ASSUME FormsetInv, UNCHANGED formset PROVE FormsetInv'
<1>1. FormsetTypes'
  BY DEF formset, FormsetInv, FormsetTypes, Formset!TypeOK
<1>2. KeysAreKnown'
  BY DEF formset, FormsetInv, KeysAreKnown, Formset!ToDelete, Formset!Invalid, Formset!IsNew
<1>3. WorkedOffIsKept'
  BY DEF formset, FormsetInv, WorkedOffIsKept, Formset!OneRowEach, Formset!TypedRow, Formset!Kept
<1>4. LeftIsTaken'
  BY DEF formset, FormsetInv, LeftIsTaken
<1> QED
  BY <1>1, <1>2, <1>3, <1>4 DEF FormsetInv

-----------------------------------------------------------------------------
(* The SQL console (AdminSql)                                              *)

ConsoleTexts == SqlTexts \cup {<<>>}
Attempts ==
  [pc : {"prompt", "run", "report", "answer"}, text : ConsoleTexts, parsed : BOOLEAN,
   listed : BOOLEAN, refused : BOOLEAN, found : Int]
Entries == [by : SqlOperators, text : ConsoleTexts, allowed : BOOLEAN, rowCount : Int]
RunTexts == [by : SqlOperators, text : ConsoleTexts]

ConsoleTypes ==
  /\ Console!TypeOK /\ console \in [SqlOperators -> Attempts]
  /\ trail \in Seq(Entries) /\ executed \in Seq(RunTexts)

\* What is not refused passed the check, and what has not run or was refused found no rows.
PassedTheCheck ==
  \A o \in SqlOperators :
    /\ console[o].pc # "prompt" /\ ~console[o].refused =>
         Console!CheckSqlPolicy(
           Console!AnalyzeSql(console[o].text, console[o].parsed, console[o].listed), policy)
    /\ console[o].pc = "run" \/ console[o].refused => console[o].found = -1
    /\ console[o].pc = "run" => ~console[o].refused

\* Those on whose attempt the audit hook still waits.
Unreported == {o \in SqlOperators : console[o].pc \in {"run", "report"}}

\* What the database ran for an operator is what his entries say, in order, but for the
\* text he still waits for, which is the latest.
AccountOf(o) ==
  LET runs == Console!RunsOf(o)
      told == Console!TrailOf(o)
  IN /\ Console!Cardinality(runs) =
          Console!Cardinality(told) + (IF Console!Waiting(o) THEN 1 ELSE 0)
     /\ \A i \in told, j \in runs :
          Console!Rank(i, told) = Console!Rank(j, runs) => trail[i].text = executed[j].text
     /\ Console!Waiting(o) =>
          \A j \in runs : Console!Rank(j, runs) = Console!Cardinality(runs) =>
                            executed[j].text = console[o].text

ConsoleInv ==
  /\ ConsoleTypes /\ PassedTheCheck
  /\ Len(trail) + Console!Cardinality(Unreported) = tries
  /\ \A o \in SqlOperators : AccountOf(o)

LEMMA ConsoleConstants ==
  /\ \A p \in SqlPolicies : "none" \notin p.deny
  /\ \A t \in SqlTexts : DOMAIN t = 1 .. Len(t)
  /\ IsFiniteSet(SqlOperators) /\ MaxFound \in Nat /\ MaxTries \in Nat
  BY AdminAssumption DEF Console!AdminSqlAssumption, Console!IsFiniteSet, IsFiniteSet

LEMMA ConsoleCardinality == \A S : Console!Cardinality(S) = Cardinality(S)
  BY DEF Console!Cardinality, Cardinality

\* Places are finite sets; one more at the end comes last and moves none.
LEMMA OneMorePlace ==
  ASSUME NEW S, IsFiniteSet(S), S \subseteq Nat, NEW n \in Nat, \A s \in S : s < n
  PROVE  LET more == S \cup {n}
         IN /\ Console!Cardinality(S) \in Nat
            /\ Console!Cardinality(more) = Console!Cardinality(S) + 1
            /\ Console!Rank(n, more) = Console!Cardinality(S) + 1
            /\ \A i \in S : /\ Console!Rank(i, more) = Console!Rank(i, S)
                            /\ Console!Rank(i, S) \in Nat
                            /\ Console!Rank(i, S) <= Console!Cardinality(S)
<1> DEFINE more == S \cup {n}
<1>1. Cardinality(S) \in Nat /\ Cardinality(more) = Cardinality(S) + 1
  <2>1. n \notin S
    OBVIOUS
  <2> QED
    BY <2>1, FS_AddElement, FS_CardinalityType
<1>2. Console!Rank(n, more) = Cardinality(more)
  <2>1. \A j \in more : j <= n
    OBVIOUS
  <2>2. {j \in more : j <= n} = more
    BY <2>1
  <2> QED
    BY <2>2, ConsoleCardinality DEF Console!Rank
<1>3. ASSUME NEW i \in S
      PROVE  /\ Console!Rank(i, more) = Console!Rank(i, S)
             /\ Console!Rank(i, S) \in Nat /\ Console!Rank(i, S) <= Cardinality(S)
  <2> DEFINE before == {j \in S : j <= i}
  <2>1. {j \in more : j <= i} = before
    OBVIOUS
  <2>2. Cardinality(before) \in Nat /\ Cardinality(before) <= Cardinality(S)
    BY FS_Subset, FS_CardinalityType
  <2>3. Console!Rank(i, more) = Cardinality(before) /\ Console!Rank(i, S) = Cardinality(before)
    BY <2>1, ConsoleCardinality DEF Console!Rank
  <2> QED
    BY <2>2, <2>3
<1> QED
  BY <1>1, <1>2, <1>3, ConsoleCardinality

LEMMA RankIsBounded ==
  ASSUME NEW S, IsFiniteSet(S), NEW i
  PROVE  Console!Rank(i, S) \in Nat /\ Console!Rank(i, S) <= Console!Cardinality(S)
<1> DEFINE before == {j \in S : j <= i}
<1>1. Cardinality(before) \in Nat /\ Cardinality(before) <= Cardinality(S)
  BY FS_Subset, FS_CardinalityType
<1> QED
  BY <1>1, ConsoleCardinality DEF Console!Rank

LEMMA PlacesOfConsole ==
  ASSUME ConsoleTypes, NEW o
  PROVE  /\ Console!TrailOf(o) \subseteq 1 .. Len(trail) /\ Len(trail) \in Nat
         /\ DOMAIN trail = 1 .. Len(trail) /\ IsFiniteSet(Console!TrailOf(o))
         /\ Console!RunsOf(o) \subseteq 1 .. Len(executed) /\ Len(executed) \in Nat
         /\ DOMAIN executed = 1 .. Len(executed) /\ IsFiniteSet(Console!RunsOf(o))
<1>1. /\ Len(trail) \in Nat /\ DOMAIN trail = 1 .. Len(trail)
      /\ Len(executed) \in Nat /\ DOMAIN executed = 1 .. Len(executed)
  BY DEF ConsoleTypes
<1>2. Console!TrailOf(o) \subseteq 1 .. Len(trail) /\ Console!RunsOf(o) \subseteq 1 .. Len(executed)
  BY <1>1 DEF Console!TrailOf, Console!RunsOf
<1>3. IsFiniteSet(1 .. Len(trail)) /\ IsFiniteSet(1 .. Len(executed))
  BY <1>1, FS_Interval
<1> QED
  BY <1>1, <1>2, <1>3, FS_Subset

LEMMA ConsoleInit == Console!Init => ConsoleInv
<1> SUFFICES ASSUME Console!Init PROVE ConsoleInv
  OBVIOUS
<1>1. /\ policy \in SqlPolicies /\ trail = <<>> /\ executed = <<>> /\ tries = 0
      /\ console = [o \in SqlOperators |-> Console!AtPrompt]
  BY DEF Console!Init
<1>2. Console!AtPrompt \in Attempts /\ Console!AtPrompt.pc = "prompt"
      /\ ~Console!AtPrompt.refused
  BY DEF Attempts, ConsoleTexts, Console!AtPrompt, Console!NoRows
<1>3. /\ <<>> \in Seq(Entries) /\ <<>> \in Seq(RunTexts) /\ Len(trail) = 0
      /\ DOMAIN trail = {} /\ DOMAIN executed = {}
  BY <1>1
<1>6. MaxTries \in Nat
  BY ConsoleConstants
<1>7. tries \in 0 .. MaxTries
  BY <1>1, <1>6
<1>4. ConsoleTypes
  BY <1>1, <1>2, <1>3, <1>7 DEF ConsoleTypes, Console!TypeOK
<1>5. Len(trail) + Console!Cardinality(Unreported) = tries /\ \A o \in SqlOperators : AccountOf(o)
  <2>1. Unreported = {}
    BY <1>1, <1>2 DEF Unreported
  <2>2. \A o : Console!TrailOf(o) = {} /\ Console!RunsOf(o) = {}
    BY <1>3 DEF Console!TrailOf, Console!RunsOf
  <2>3. Console!Cardinality({}) = 0
    BY ConsoleCardinality, FS_EmptySet
  <2>4. \A o \in SqlOperators : ~Console!Waiting(o)
    BY <1>1, <1>2 DEF Console!Waiting
  <2>5. Len(trail) + Console!Cardinality(Unreported) = tries
    BY <1>1, <1>3, <2>1, <2>3
  <2>6. ASSUME NEW o \in SqlOperators PROVE AccountOf(o)
    BY <2>2, <2>3, <2>4 DEF AccountOf
  <2> QED
    BY <2>5, <2>6
<1>8. PassedTheCheck
  BY <1>1, <1>2 DEF PassedTheCheck
<1> QED
  BY <1>4, <1>5, <1>8 DEF ConsoleInv

\* What an operator submits is the attempt on its way.
LEMMA SubmittedText ==
  ASSUME NEW o \in SqlOperators, Console!Submit(o)
  PROVE  \E new : /\ console' = [console EXCEPT ![o] = new]
                  /\ new.pc \in {"run", "report"} /\ new.found = -1
<1>1. PICK text_ \in SqlTexts, parsed \in BOOLEAN, may \in BOOLEAN :
        LET allowed == Console!CheckSqlPolicy(Console!AnalyzeSql(text_, parsed, may), policy)
        IN console' = [console EXCEPT ![o] =
             [pc |-> IF allowed THEN "run" ELSE "report", text |-> text_, parsed |-> parsed,
              listed |-> may, refused |-> ~allowed, found |-> Console!NoRows]]
  BY DEF Console!Submit
<1> DEFINE allowed == Console!CheckSqlPolicy(Console!AnalyzeSql(text_, parsed, may), policy)
           new == [pc |-> IF allowed THEN "run" ELSE "report", text |-> text_, parsed |-> parsed,
                   listed |-> may, refused |-> ~allowed, found |-> Console!NoRows]
<1>2. console' = [console EXCEPT ![o] = new]
  BY <1>1
<1>3. new.pc \in {"run", "report"} /\ new.found = -1
  BY DEF Console!NoRows
<1> HIDE DEF new
<1> QED
  BY <1>2, <1>3

LEMMA ConsoleTypesStep == ASSUME ConsoleInv, Console!Next PROVE ConsoleTypes' /\ PassedTheCheck'
<1>1. /\ console \in [SqlOperators -> Attempts] /\ policy \in SqlPolicies
      /\ tries \in 0 .. MaxTries /\ MaxTries \in Nat /\ PassedTheCheck
      /\ trail \in Seq(Entries) /\ executed \in Seq(RunTexts)
  BY ConsoleConstants DEF ConsoleInv, ConsoleTypes, Console!TypeOK
<1> DEFINE Typed_ == /\ console' \in [SqlOperators -> Attempts] /\ policy' \in SqlPolicies
                     /\ tries' \in 0 .. MaxTries
                     /\ trail' \in Seq(Entries) /\ executed' \in Seq(RunTexts)
<1>2. ASSUME NEW o \in SqlOperators, Console!Submit(o) PROVE Typed_ /\ PassedTheCheck'
  <2>1. PICK words \in SqlTexts, parsed \in BOOLEAN, inList \in BOOLEAN :
          LET allowed == Console!CheckSqlPolicy(Console!AnalyzeSql(words, parsed, inList), policy)
          IN console' = [console EXCEPT ![o] =
               [pc |-> IF allowed THEN "run" ELSE "report", text |-> words, parsed |-> parsed,
                listed |-> inList, refused |-> ~allowed, found |-> Console!NoRows]]
    BY <1>2 DEF Console!Submit
  <2> DEFINE allowed == Console!CheckSqlPolicy(Console!AnalyzeSql(words, parsed, inList), policy)
             new == [pc |-> IF allowed THEN "run" ELSE "report", text |-> words,
                     parsed |-> parsed, listed |-> inList, refused |-> ~allowed, found |-> -1]
  <2>2. allowed \in BOOLEAN
    BY DEF Console!CheckSqlPolicy
  <2>3. console' = [console EXCEPT ![o] = new]
    BY <2>1 DEF Console!NoRows
  <2>4. new \in Attempts
    BY <2>2 DEF Attempts, ConsoleTexts
  <2>5. tries < MaxTries /\ tries' = tries + 1 /\ UNCHANGED <<policy, trail, executed>>
    BY <1>2 DEF Console!Submit
  <2>6. tries' \in 0 .. MaxTries
    BY <1>1, <2>5
  <2>7. console' \in [SqlOperators -> Attempts] /\ console'[o] = new
        /\ \A p \in SqlOperators : p # o => console'[p] = console[p]
    BY <1>1, <2>3, <2>4
  <2>8. PassedTheCheck'
    <3> SUFFICES ASSUME NEW p \in SqlOperators
                 PROVE  /\ console'[p].pc # "prompt" /\ ~console'[p].refused =>
                             Console!CheckSqlPolicy(Console!AnalyzeSql(console'[p].text,
                               console'[p].parsed, console'[p].listed), policy)
                        /\ console'[p].pc = "run" \/ console'[p].refused => console'[p].found = -1
                        /\ console'[p].pc = "run" => ~console'[p].refused
      BY <2>5 DEF PassedTheCheck
    <3>1. CASE p # o
      BY <1>1, <2>7, <3>1 DEF PassedTheCheck
    <3>2. CASE p = o
      <4>1. /\ console'[p].refused = ~allowed /\ console'[p].text = words
            /\ console'[p].parsed = parsed /\ console'[p].listed = inList
            /\ console'[p].found = -1 /\ console'[p].pc = IF allowed THEN "run" ELSE "report"
        BY <2>7, <3>2
      <4> QED
        BY <4>1
    <3> QED
      BY <3>1, <3>2
  <2> QED
    BY <1>1, <2>5, <2>6, <2>7, <2>8
<1>3. ASSUME NEW o \in SqlOperators, Console!Run(o) PROVE Typed_ /\ PassedTheCheck'
  <2>1. PICK found \in {Console!NoRows} \cup 0 .. MaxFound :
          /\ console' = [console EXCEPT ![o].found = found, ![o].pc = "report"]
          /\ executed' = IF found = Console!NoRows THEN executed
                         ELSE Append(executed, [by |-> o, text |-> console[o].text])
    BY <1>3 DEF Console!Run
  <2>2. console[o].pc = "run" /\ UNCHANGED <<policy, trail, tries>>
    BY <1>3 DEF Console!Run
  <2>3. console[o] \in Attempts /\ found \in Int
    BY <1>1, ConsoleConstants DEF Console!NoRows
  <2> DEFINE new == [console[o] EXCEPT !.found = found, !.pc = "report"]
  <2>4. new \in Attempts /\ console' = [console EXCEPT ![o] = new]
    BY <1>1, <2>1, <2>3 DEF Attempts
  <2>5. [by |-> o, text |-> console[o].text] \in RunTexts
    BY <2>3 DEF Attempts, RunTexts
  <2>6. executed' \in Seq(RunTexts)
    BY <1>1, <2>1, <2>5
  <2>7. console' \in [SqlOperators -> Attempts] /\ console'[o] = new
        /\ \A p \in SqlOperators : p # o => console'[p] = console[p]
    BY <1>1, <2>4
  <2>8. new.refused = FALSE /\ new.pc = "report" /\ new.text = console[o].text
        /\ new.parsed = console[o].parsed /\ new.listed = console[o].listed
    BY <1>1, <2>2, <2>3 DEF PassedTheCheck, Attempts
  <2> HIDE DEF new
  <2>9. PassedTheCheck'
    BY <1>1, <2>2, <2>7, <2>8 DEF PassedTheCheck
  <2> QED
    BY <1>1, <2>2, <2>6, <2>7, <2>9
<1>4. ASSUME NEW o \in SqlOperators, Console!Report(o) PROVE Typed_ /\ PassedTheCheck'
  <2>1. /\ console[o].pc = "report" /\ UNCHANGED <<policy, executed, tries>>
        /\ trail' = Append(trail, Console!Entry(o))
        /\ console' = [console EXCEPT ![o].pc = "answer"]
    BY <1>4 DEF Console!Report
  <2>2. console[o] \in Attempts
    BY <1>1
  <2>3. Console!Entry(o) \in Entries
    BY <2>2 DEF Console!Entry, Entries, Attempts
  <2>4. trail' \in Seq(Entries)
    BY <1>1, <2>1, <2>3
  <2>5. console' \in [SqlOperators -> Attempts]
        /\ \A p \in SqlOperators : /\ console'[p].refused = console[p].refused
                                   /\ console'[p].found = console[p].found
                                   /\ console'[p].text = console[p].text
                                   /\ console'[p].parsed = console[p].parsed
                                   /\ console'[p].listed = console[p].listed
                                   /\ console'[p].pc = IF p = o THEN "answer" ELSE console[p].pc
    BY <1>1, <2>1 DEF Attempts
  <2>6. PassedTheCheck'
    BY <1>1, <2>1, <2>5 DEF PassedTheCheck
  <2> QED
    BY <1>1, <2>1, <2>4, <2>5, <2>6
<1>5. ASSUME NEW o \in SqlOperators, Console!Answer(o) PROVE Typed_ /\ PassedTheCheck'
  <2>1. /\ console[o].pc = "answer" /\ UNCHANGED <<policy, trail, executed, tries>>
        /\ console' = [console EXCEPT ![o].pc = "prompt"]
    BY <1>5 DEF Console!Answer
  <2>2. console' \in [SqlOperators -> Attempts]
        /\ \A p \in SqlOperators : /\ console'[p].refused = console[p].refused
                                   /\ console'[p].found = console[p].found
                                   /\ console'[p].text = console[p].text
                                   /\ console'[p].parsed = console[p].parsed
                                   /\ console'[p].listed = console[p].listed
                                   /\ console'[p].pc = IF p = o THEN "prompt" ELSE console[p].pc
    BY <1>1, <2>1 DEF Attempts
  <2>3. PassedTheCheck'
    BY <1>1, <2>1, <2>2 DEF PassedTheCheck
  <2> QED
    BY <1>1, <2>1, <2>2, <2>3
<1>6. Typed_ /\ PassedTheCheck'
  BY <1>2, <1>3, <1>4, <1>5 DEF Console!Next
<1>7. \A o \in SqlOperators : console'[o].pc \in {"prompt", "run", "report", "answer"}
  BY <1>6 DEF Attempts
<1> QED
  BY <1>6, <1>7 DEF ConsoleTypes, Console!TypeOK


LEMMA AccountStays ==
  ASSUME NEW o, AccountOf(o),
         Console!TrailOf(o)' = Console!TrailOf(o), Console!RunsOf(o)' = Console!RunsOf(o),
         \A i \in Console!TrailOf(o) : trail'[i].text = trail[i].text,
         \A j \in Console!RunsOf(o) : executed'[j].text = executed[j].text,
         Console!Waiting(o)' <=> Console!Waiting(o),
         Console!Waiting(o) => console'[o].text = console[o].text
  PROVE  AccountOf(o)'
  BY DEF AccountOf

\* What the database runs is the latest of its operator's runs, and nobody else's.
LEMMA AccountAfterRun ==
  ASSUME ConsoleInv, NEW o \in SqlOperators, Console!Run(o), NEW p \in SqlOperators
  PROVE  AccountOf(p)'
<1>1. ConsoleTypes /\ AccountOf(p) /\ console[o].pc = "run" /\ UNCHANGED trail
  BY DEF ConsoleInv, Console!Run
<1>2. PICK found \in {-1} \cup 0 .. MaxFound :
        /\ console' = [console EXCEPT ![o].found = found, ![o].pc = "report"]
        /\ executed' = IF found = -1 THEN executed
                       ELSE Append(executed, [by |-> o, text |-> console[o].text])
  BY DEF Console!Run, Console!NoRows
<1>3. /\ console'[o].found = found /\ console'[o].pc = "report"
      /\ console'[o].text = console[o].text
      /\ \A q \in SqlOperators : q # o => console'[q] = console[q]
  BY <1>1, <1>2 DEF ConsoleTypes, Attempts
<1>4. Console!TrailOf(p)' = Console!TrailOf(p)
  BY <1>1 DEF Console!TrailOf
<1>5. ~Console!Waiting(o) /\ (Console!Waiting(o)' <=> found # -1)
  BY <1>1, <1>3 DEF Console!Waiting, Console!NoRows
<1>6. CASE found = -1
  <2>1. executed' = executed
    BY <1>2, <1>6
  <2>2. Console!RunsOf(p)' = Console!RunsOf(p)
    BY <2>1 DEF Console!RunsOf
  <2>3. Console!Waiting(p)' <=> Console!Waiting(p)
    BY <1>3, <1>5, <1>6 DEF Console!Waiting
  <2>4. console'[p].text = console[p].text
    BY <1>3
  <2> QED
    BY <1>1, <1>4, <2>1, <2>2, <2>3, <2>4, AccountStays
<1>7. CASE found # -1
  <2> DEFINE new == [by |-> o, text |-> console[o].text]
             n == Len(executed) + 1
  <2>1. executed' = Append(executed, new) /\ executed \in Seq(RunTexts)
    BY <1>1, <1>2, <1>7 DEF ConsoleTypes
  <2>2. new.by = o /\ new.text = console[o].text
    OBVIOUS
  <2>9. new \in RunTexts
    BY <1>1 DEF ConsoleTypes, Attempts, RunTexts
  <2> HIDE DEF new
  <2>3. /\ DOMAIN executed = 1 .. Len(executed) /\ DOMAIN executed' = 1 .. n /\ n \in Nat
        /\ executed'[n] = new /\ \A i \in DOMAIN executed : executed'[i] = executed[i]
    BY <2>1, <2>9
  <2>4. CASE p # o
    <3>1. Console!RunsOf(p)' = Console!RunsOf(p)
      BY <2>2, <2>3, <2>4 DEF Console!RunsOf
    <3>2. console'[p] = console[p]
      BY <1>3, <2>4
    <3>3. Console!Waiting(p)' <=> Console!Waiting(p)
      BY <3>2 DEF Console!Waiting
    <3>4. \A j \in Console!RunsOf(p) : executed'[j].text = executed[j].text
      BY <2>3 DEF Console!RunsOf
    <3> QED
      BY <1>1, <1>4, <3>1, <3>2, <3>3, <3>4, AccountStays
  <2>5. CASE p = o
    <3> DEFINE runs == Console!RunsOf(o)
               more == runs \cup {n}
               told == Console!TrailOf(o)
    <3>1. Console!RunsOf(o)' = more
      BY <2>2, <2>3 DEF Console!RunsOf
    <3>2. IsFiniteSet(runs) /\ runs \subseteq Nat /\ \A j \in runs : j < n
      BY <1>1, <2>3, PlacesOfConsole
    <3>3. /\ Console!Cardinality(runs) \in Nat
          /\ Console!Cardinality(more) = Console!Cardinality(runs) + 1
          /\ Console!Rank(n, more) = Console!Cardinality(runs) + 1
          /\ \A i \in runs : /\ Console!Rank(i, more) = Console!Rank(i, runs)
                             /\ Console!Rank(i, runs) \in Nat
                             /\ Console!Rank(i, runs) <= Console!Cardinality(runs)
      BY <2>3, <3>2, OneMorePlace
    <3>10. Console!Cardinality(told) \in Nat
      BY <1>1, PlacesOfConsole, ConsoleCardinality, FS_CardinalityType
    <3>4. Console!Cardinality(runs) = Console!Cardinality(told)
      BY <1>1, <1>5, <2>5, <3>10 DEF AccountOf
    <3>5. \A i \in told : Console!Rank(i, told) <= Console!Cardinality(told)
      BY <1>1, PlacesOfConsole, RankIsBounded
    <3>6. /\ \A j \in runs : executed'[j].text = executed[j].text
          /\ executed'[n].text = console[o].text
      BY <2>2, <2>3 DEF Console!RunsOf
    <3>7. \A i \in told, j \in more :
            Console!Rank(i, told) = Console!Rank(j, more) => trail'[i].text = executed'[j].text
      <4> SUFFICES ASSUME NEW i \in told, NEW j \in more,
                          Console!Rank(i, told) = Console!Rank(j, more)
                   PROVE  trail'[i].text = executed'[j].text
        OBVIOUS
      <4>1. j # n
        BY <3>3, <3>4, <3>5
      <4>2. j \in runs /\ Console!Rank(j, more) = Console!Rank(j, runs)
        BY <3>3, <4>1
      <4> QED
        BY <1>1, <2>5, <3>6, <4>2 DEF AccountOf
    <3>8. \A j \in more : Console!Rank(j, more) = Console!Cardinality(more) =>
                              executed'[j].text = console'[o].text
      BY <1>3, <3>3, <3>6
    <3> HIDE DEF runs, more, told
    <3>9. Console!RunsOf(o)' = more /\ Console!TrailOf(o)' = told
          /\ Console!Cardinality(more) = Console!Cardinality(told) + 1
      BY <1>4, <2>5, <3>1, <3>3, <3>4 DEF told
    <3> QED
      BY <1>5, <1>7, <2>5, <3>7, <3>8, <3>9 DEF AccountOf
  <2> QED
    BY <2>4, <2>5
<1> QED
  BY <1>6, <1>7

\* What is reported is what its operator's latest run waited for, if anything was run.
LEMMA AccountAfterReport ==
  ASSUME ConsoleInv, NEW o \in SqlOperators, Console!Report(o), NEW p \in SqlOperators
  PROVE  AccountOf(p)'
<1> DEFINE new == Console!Entry(o)
           n == Len(trail) + 1
<1>1. /\ ConsoleTypes /\ AccountOf(p) /\ console[o].pc = "report" /\ UNCHANGED executed
      /\ trail' = Append(trail, new)
      /\ console' = [console EXCEPT ![o].pc = "answer"]
  BY DEF ConsoleInv, Console!Report
<1>2. /\ console'[o].pc = "answer" /\ console'[o].text = console[o].text
      /\ \A q \in SqlOperators : q # o => console'[q] = console[q]
  BY <1>1 DEF ConsoleTypes, Attempts
<1>3. Console!RunsOf(p)' = Console!RunsOf(p)
  BY <1>1 DEF Console!RunsOf
<1>4. new.by = o /\ new.text = console[o].text /\ new.rowCount = console[o].found
  BY DEF Console!Entry
<1>5. new \in Entries /\ trail \in Seq(Entries)
  BY <1>1 DEF ConsoleTypes, Attempts, Console!Entry, Entries
<1> HIDE DEF new
<1>6. /\ DOMAIN trail = 1 .. Len(trail) /\ DOMAIN trail' = 1 .. n /\ n \in Nat
      /\ trail'[n] = new /\ \A i \in DOMAIN trail : trail'[i] = trail[i]
  BY <1>1, <1>5
<1>7. ~Console!Waiting(o)' /\ (Console!Waiting(o) <=> console[o].found # -1)
  BY <1>1, <1>2 DEF Console!Waiting, Console!NoRows
<1>8. \A i \in Console!TrailOf(p) : trail'[i].text = trail[i].text
  BY <1>6 DEF Console!TrailOf
<1>9. CASE p # o \/ console[o].found = -1
  <2>1. Console!TrailOf(p)' = Console!TrailOf(p)
    BY <1>4, <1>6, <1>9 DEF Console!TrailOf, Console!NoRows
  <2>2. Console!Waiting(p)' <=> Console!Waiting(p)
    BY <1>2, <1>7, <1>9 DEF Console!Waiting
  <2>3. console'[p].text = console[p].text
    BY <1>2
  <2> QED
    BY <1>1, <1>3, <1>8, <2>1, <2>2, <2>3, AccountStays
<1>10. CASE p = o /\ console[o].found # -1
  <2> DEFINE told == Console!TrailOf(o)
             more == told \cup {n}
             runs == Console!RunsOf(o)
  <2>1. Console!TrailOf(o)' = more
    BY <1>4, <1>6, <1>10 DEF Console!TrailOf, Console!NoRows
  <2>2. IsFiniteSet(told) /\ told \subseteq Nat /\ \A j \in told : j < n
    BY <1>1, <1>6, PlacesOfConsole
  <2>3. /\ Console!Cardinality(told) \in Nat
        /\ Console!Cardinality(more) = Console!Cardinality(told) + 1
        /\ Console!Rank(n, more) = Console!Cardinality(told) + 1
        /\ \A i \in told : /\ Console!Rank(i, more) = Console!Rank(i, told)
                           /\ Console!Rank(i, told) \in Nat
                           /\ Console!Rank(i, told) <= Console!Cardinality(told)
    BY <1>6, <2>2, OneMorePlace
  <2>4. Console!Cardinality(runs) = Console!Cardinality(told) + 1
    BY <1>1, <1>7, <1>10, <2>3 DEF AccountOf
  <2>5. \A i \in more, j \in runs :
          Console!Rank(i, more) = Console!Rank(j, runs) => trail'[i].text = executed'[j].text
    <3> SUFFICES ASSUME NEW i \in more, NEW j \in runs,
                        Console!Rank(i, more) = Console!Rank(j, runs)
                 PROVE  trail'[i].text = executed'[j].text
      OBVIOUS
    <3>1. CASE i = n
      <4>1. Console!Rank(j, runs) = Console!Cardinality(runs)
        BY <2>3, <2>4, <3>1
      <4>2. executed[j].text = console[o].text
        BY <1>1, <1>7, <1>10, <4>1 DEF AccountOf
      <4> QED
        BY <1>1, <1>4, <1>6, <3>1, <4>2
    <3>2. CASE i # n
      <4>1. i \in told /\ Console!Rank(i, told) = Console!Rank(j, runs)
        BY <2>3, <3>2
      <4> QED
        BY <1>1, <1>8, <1>10, <4>1 DEF AccountOf
    <3> QED
      BY <3>1, <3>2
  <2> HIDE DEF told, more, runs
  <2>6. /\ Console!TrailOf(o)' = more /\ Console!RunsOf(o)' = runs
        /\ Console!Cardinality(more) \in Nat /\ Console!Cardinality(runs) = Console!Cardinality(more)
    BY <1>3, <1>10, <2>1, <2>3, <2>4 DEF runs
  <2> QED
    BY <1>7, <1>10, <2>5, <2>6 DEF AccountOf
<1> QED
  BY <1>9, <1>10

LEMMA AccountsStep ==
  ASSUME ConsoleInv, Console!Next, NEW p \in SqlOperators PROVE AccountOf(p)'
<1>1. ASSUME NEW o \in SqlOperators, Console!Submit(o) \/ Console!Answer(o) PROVE AccountOf(p)'
  <2>1. /\ UNCHANGED <<trail, executed>> /\ console[o].pc \in {"prompt", "answer"}
        /\ ~Console!Waiting(o)
    BY <1>1 DEF Console!Submit, Console!Answer, Console!Waiting
  <2>2. /\ \A q \in SqlOperators : q # o => console'[q] = console[q]
        /\ ~Console!Waiting(o)'
    <3>1. CASE Console!Submit(o)
      <4>1. PICK new : /\ console' = [console EXCEPT ![o] = new]
                       /\ new.found = Console!NoRows
        BY <3>1, SubmittedText DEF Console!NoRows
      <4> QED
        BY <4>1 DEF ConsoleInv, ConsoleTypes, Console!Waiting
    <3>2. CASE Console!Answer(o)
      BY <3>2 DEF Console!Answer, ConsoleInv, ConsoleTypes, Attempts, Console!Waiting
    <3> QED
      BY <1>1, <3>1, <3>2
  <2>3. Console!TrailOf(p)' = Console!TrailOf(p) /\ Console!RunsOf(p)' = Console!RunsOf(p)
    BY <2>1 DEF Console!TrailOf, Console!RunsOf
  <2>4. /\ Console!Waiting(p)' <=> Console!Waiting(p)
        /\ Console!Waiting(p) => console'[p].text = console[p].text
    BY <2>1, <2>2 DEF Console!Waiting
  <2>5. AccountOf(p)
    BY DEF ConsoleInv
  <2> QED
    BY <2>1, <2>3, <2>4, <2>5, AccountStays
<1> QED
  BY <1>1, AccountAfterRun, AccountAfterReport DEF Console!Next

\* Every attempt is reported once.
LEMMA AttemptsStep ==
  ASSUME ConsoleInv, Console!Next
  PROVE  Len(trail') + Console!Cardinality(Unreported') = tries'
<1>1. /\ ConsoleTypes /\ Len(trail) + Console!Cardinality(Unreported) = tries
      /\ console \in [SqlOperators -> Attempts] /\ trail \in Seq(Entries) /\ Len(trail) \in Nat
      /\ tries \in Nat
  BY ConsoleConstants DEF ConsoleInv, ConsoleTypes, Console!TypeOK
<1>2. IsFiniteSet(Unreported) /\ Cardinality(Unreported) \in Nat
  <2>1. Unreported \subseteq SqlOperators
    BY DEF Unreported
  <2> QED
    BY <2>1, ConsoleConstants, FS_Subset, FS_CardinalityType
<1>3. ASSUME NEW o \in SqlOperators, Console!Submit(o)
      PROVE  Len(trail') + Console!Cardinality(Unreported') = tries'
  <2>1. PICK new : console' = [console EXCEPT ![o] = new] /\ new.pc \in {"run", "report"}
    BY <1>3, SubmittedText
  <2>2. console[o].pc = "prompt" /\ tries' = tries + 1 /\ UNCHANGED trail
    BY <1>3 DEF Console!Submit
  <2>3. Unreported' = Unreported \cup {o} /\ o \notin Unreported
    BY <1>1, <2>1, <2>2 DEF Unreported
  <2>4. Cardinality(Unreported') = Cardinality(Unreported) + 1
    BY <1>2, <2>3, FS_AddElement
  <2> QED
    BY <1>1, <1>2, <2>2, <2>4, ConsoleCardinality
<1>4. ASSUME NEW o \in SqlOperators, Console!Run(o) \/ Console!Answer(o)
      PROVE  Len(trail') + Console!Cardinality(Unreported') = tries'
  <2>1. UNCHANGED <<trail, tries>>
    BY <1>4 DEF Console!Run, Console!Answer
  <2>2. /\ \A q \in SqlOperators : q # o => console'[q] = console[q]
        /\ console[o].pc \in {"run", "report"} <=> console'[o].pc \in {"run", "report"}
    BY <1>1, <1>4 DEF Console!Run, Console!Answer, Attempts
  <2>3. Unreported' = Unreported
    BY <2>2 DEF Unreported
  <2> QED
    BY <1>1, <2>1, <2>3
<1>5. ASSUME NEW o \in SqlOperators, Console!Report(o)
      PROVE  Len(trail') + Console!Cardinality(Unreported') = tries'
  <2>1. /\ console[o].pc = "report" /\ UNCHANGED tries
        /\ trail' = Append(trail, Console!Entry(o))
        /\ console' = [console EXCEPT ![o].pc = "answer"]
    BY <1>5 DEF Console!Report
  <2>2. /\ \A q \in SqlOperators : q # o => console'[q] = console[q]
        /\ console'[o].pc = "answer"
    BY <1>1, <2>1 DEF Attempts
  <2>3. Unreported' = Unreported \ {o} /\ o \in Unreported
    BY <2>1, <2>2 DEF Unreported
  <2>4. Cardinality(Unreported') = Cardinality(Unreported) - 1
    BY <1>2, <2>3, FS_RemoveElement
  <2>5. Len(trail') = Len(trail) + 1
    <3>1. Console!Entry(o) \in Entries
      BY <1>1 DEF Console!Entry, Entries, Attempts
    <3> QED
      BY <1>1, <2>1, <3>1
  <2> QED
    BY <1>1, <1>2, <2>1, <2>4, <2>5, ConsoleCardinality
<1> QED
  BY <1>3, <1>4, <1>5 DEF Console!Next

LEMMA ConsoleStep == ASSUME ConsoleInv, Console!Next PROVE ConsoleInv'
  BY ConsoleTypesStep, AccountsStep, AttemptsStep DEF ConsoleInv

LEMMA ConsoleStays == ASSUME ConsoleInv, UNCHANGED sql PROVE ConsoleInv'
<1>1. ConsoleTypes' /\ PassedTheCheck'
  BY DEF sql, ConsoleInv, ConsoleTypes, Console!TypeOK, PassedTheCheck
<1>2. (Len(trail) + Console!Cardinality(Unreported) = tries)'
  BY DEF sql, ConsoleInv, Unreported
<1>3. ASSUME NEW o \in SqlOperators PROVE AccountOf(o)'
  <2>1. Console!TrailOf(o)' = Console!TrailOf(o) /\ Console!RunsOf(o)' = Console!RunsOf(o)
    BY DEF sql, Console!TrailOf, Console!RunsOf
  <2>2. Console!Waiting(o)' <=> Console!Waiting(o)
    BY DEF sql, Console!Waiting
  <2> QED
    BY <2>1, <2>2, AccountStays DEF sql, ConsoleInv
<1> QED
  BY <1>1, <1>2, <1>3 DEF ConsoleInv

\* What passed the check is granted, statement by statement.
LEMMA CheckedIsGranted == ConsoleInv => Console!WhatRunsIsGranted
<1> SUFFICES ASSUME ConsoleInv, NEW o \in SqlOperators,
                    console[o].pc # "prompt", ~console[o].refused
             PROVE  LET text_ == console[o].text
                    IN /\ console[o].parsed =>
                            \A i \in DOMAIN text_ :
                              /\ Console!StatementCapability(text_[i].type) \in policy.capabilities
                              /\ policy.requireWhere /\ text_[i].type \in {"update", "delete"} =>
                                   text_[i].where
                       /\ ~console[o].parsed => "admin" \in policy.capabilities
                       /\ console[o].listed => \A i \in DOMAIN text_ : text_[i].table \notin policy.deny
                       /\ policy.lists => console[o].listed
                            /\ \A i \in DOMAIN text_ : text_[i].table \in policy.allow \cup {Console!None}
  BY DEF Console!WhatRunsIsGranted
<1> DEFINE said == console[o].text
           analysis == Console!AnalyzeSql(said, console[o].parsed, console[o].listed)
<1>1. Console!CheckSqlPolicy(analysis, policy)
  BY DEF ConsoleInv, PassedTheCheck
<1>2. "none" \notin policy.deny
  BY ConsoleConstants DEF ConsoleInv, ConsoleTypes, Console!TypeOK
<1>3. console[o].parsed \in BOOLEAN /\ console[o].listed \in BOOLEAN
  BY DEF ConsoleInv, ConsoleTypes, Attempts
<1> HIDE DEF said
<1>4. /\ console[o].parsed =>
           analysis.capabilities = {Console!StatementCapability(said[i].type) : i \in DOMAIN said}
      /\ ~console[o].parsed => analysis.capabilities = {"admin"}
  BY DEF Console!AnalyzeSql
<1>5. /\ console[o].listed => analysis.tables = {said[i].table : i \in DOMAIN said} \ {"none"}
      /\ ~console[o].listed => analysis.tables = {}
  BY DEF Console!AnalyzeSql, Console!None
<1>6. analysis.unscopedWrite <=>
        console[o].parsed /\ \E i \in DOMAIN said :
          said[i].type \in {"update", "delete"} /\ ~said[i].where
  BY DEF Console!AnalyzeSql
<1> HIDE DEF analysis
<1>7. /\ analysis.capabilities \subseteq policy.capabilities
      /\ ~(policy.requireWhere /\ analysis.unscopedWrite)
      /\ analysis.tables \cap policy.deny = {}
      /\ policy.lists => analysis.tables # {} /\ analysis.tables \subseteq policy.allow
  BY <1>1 DEF Console!CheckSqlPolicy
<1>8. ASSUME console[o].parsed, NEW i \in DOMAIN said
      PROVE  /\ Console!StatementCapability(said[i].type) \in policy.capabilities
             /\ policy.requireWhere /\ said[i].type \in {"update", "delete"} => said[i].where
  BY <1>4, <1>6, <1>7, <1>8
<1>9. ~console[o].parsed => "admin" \in policy.capabilities
  BY <1>4, <1>7
<1>10. ASSUME console[o].listed, NEW i \in DOMAIN said
       PROVE  said[i].table \notin policy.deny
  BY <1>2, <1>5, <1>7, <1>10
<1>11. ASSUME policy.lists
       PROVE  console[o].listed /\ \A i \in DOMAIN said : said[i].table \in policy.allow \cup {"none"}
  BY <1>5, <1>7, <1>11
<1> QED
  BY <1>8, <1>9, <1>10, <1>11 DEF said, Console!None

LEMMA ConsoleAccounts == ConsoleInv => Console!TypeOK /\ Console!ConsoleIsAccountable
<1> SUFFICES ASSUME ConsoleInv PROVE Console!TypeOK /\ Console!ConsoleIsAccountable
  OBVIOUS
<1>1. Console!TypeOK
  BY DEF ConsoleInv, ConsoleTypes
<1>2. Console!TrailIsComplete
  BY DEF ConsoleInv, AccountOf, Unreported, Console!TrailIsComplete
<1> QED
  BY <1>1, <1>2, CheckedIsGranted DEF Console!ConsoleIsAccountable

-----------------------------------------------------------------------------
(* The timeline of a row (AuditTrail)                                      *)

Stored == [Trail!Fields -> TrailValues \cup {Off}]
Jobs ==
  [pc : {"idle", "write", "record"}, action : {"none", "create", "update", "delete"},
   before : Stored]
Changes ==
  UNION {[D -> (TrailValues \cup {Off}) \X (TrailValues \cup {Off})] :
           D \in SUBSET Trail!Audited}
LogEntries == [row : TrailRows, at : Nat, changes : Changes]
Busy == {q \in TrailRows : jobs[q].pc # "idle"}

TrailTypes ==
  /\ clock \in 1 .. MaxTime /\ audited \in [TrailRows -> Stored]
  /\ jobs \in [TrailRows -> Jobs] /\ entries \in Seq(LogEntries)
  /\ Len(entries) + Trail!Cardinality(Busy) <= MaxEntries

\* A row that is stored has all its fields, and what is updated is stored.
RowsAreWhole ==
  \A r \in TrailRows :
    /\ audited[r] # Trail!Absent => audited[r] \in [Trail!Fields -> TrailValues]
    /\ jobs[r].pc = "write" /\ jobs[r].action = "update" => audited[r] # Trail!Absent

LogIsInTime ==
  \A i, j \in DOMAIN entries :
    entries[i].at <= clock /\ (i <= j => entries[i].at <= entries[j].at)

\* The entries that tell of a field of a row, and what the next one will begin with.
TellingOf(r, f) == {i \in DOMAIN entries : entries[i].row = r /\ f \in DOMAIN entries[i].changes}
Basis(r) == IF jobs[r].pc = "idle" THEN audited[r] ELSE jobs[r].before

\* The last of them ends at that, and each begins where the one before it ended.
Followed(r, f) ==
  LET T == TellingOf(r, f)
  IN /\ \A i \in T : (\A j \in T : j <= i) => entries[i].changes[f][2] = Basis(r)[f]
     /\ T = {} => Basis(r)[f] = Off
     /\ \A i, k \in T : i < k /\ (\A j \in T : j <= i \/ k <= j) =>
                          entries[i].changes[f][2] = entries[k].changes[f][1]

Accounted(r) == Trail!Audited \ (IF r \in mutated THEN {"prefs"} ELSE {})

LogFollows == \A r \in TrailRows : \A f \in Accounted(r) : Followed(r, f)

ViewIsTrue ==
  /\ Trail!TimelineExplainsTheRow
  /\ \A i \in DOMAIN view.history : "hash" \notin DOMAIN view.history[i].changes

TrailInv == TrailTypes /\ RowsAreWhole /\ LogIsInTime /\ LogFollows /\ ViewIsTrue

LEMMA TrailConstants ==
  /\ IsFiniteSet(TrailRows) /\ Off \notin TrailValues /\ AuditHistoryLimit \in Nat \ {0}
  /\ MaxTime \in Nat \ {0} /\ MaxEntries \in Nat
  BY AdminAssumption DEF Trail!AuditTrailAssumption, Trail!IsFiniteSet, IsFiniteSet

LEMMA TrailCardinality == \A S : Trail!Cardinality(S) = Cardinality(S)
  BY DEF Trail!Cardinality, Cardinality

LEMMA FieldsOfRow ==
  /\ Trail!Audited = {"name", "prefs"} /\ Trail!Fields = {"name", "prefs", "hash"}
  /\ Trail!Absent \in Stored /\ \A f \in Trail!Fields : Trail!Absent[f] = Off
  BY DEF Trail!Audited, Trail!Fields, Trail!Absent, Stored

LEMMA NoViewIsTrue == view = Trail!NoView => ViewIsTrue
  BY DEF ViewIsTrue, Trail!TimelineExplainsTheRow, Trail!NoView

LEMMA SnapshotOfRow ==
  ASSUME NEW kept \in Stored
  PROVE  /\ Trail!Snapshot(kept) \in Stored
         /\ \A f \in Trail!Audited : Trail!Snapshot(kept)[f] = kept[f]
  BY DEF Trail!Snapshot, Stored, Trail!Audited, Trail!Fields

\* A comparison has the audited fields that differ, each with what it was and what it is.
LEMMA DiffOfStored ==
  ASSUME NEW before \in Stored, NEW after \in Stored
  PROVE  LET diff == Trail!Diff(before, after)
         IN /\ diff \in Changes
            /\ \A f : f \in DOMAIN diff <=> f \in Trail!Audited /\ before[f] # after[f]
            /\ \A f \in DOMAIN diff : diff[f] = <<before[f], after[f]>>
<1> DEFINE D == {f \in Trail!Audited : before[f] # after[f]}
           V == TrailValues \cup {Off}
<1>1. Trail!Diff(before, after) = [f \in D |-> <<before[f], after[f]>>]
  BY DEF Trail!Diff
<1>2. \A f \in D : before[f] \in V /\ after[f] \in V
  BY FieldsOfRow DEF Stored
<1>3. [f \in D |-> <<before[f], after[f]>>] \in [D -> V \X V]
  BY <1>2
<1>4. D \in SUBSET Trail!Audited
  OBVIOUS
<1> HIDE DEF D, V
<1>5. Trail!Diff(before, after) \in Changes
  BY <1>1, <1>3, <1>4 DEF Changes, V
<1> QED
  BY <1>1, <1>5 DEF D

LEMMA TrailInit == Trail!Init => TrailInv
<1> SUFFICES ASSUME Trail!Init PROVE TrailInv
  OBVIOUS
<1>1. /\ clock = 1 /\ audited = [r \in TrailRows |-> Trail!Absent]
      /\ jobs = [r \in TrailRows |-> Trail!Idle] /\ entries = <<>> /\ view = Trail!NoView
  BY DEF Trail!Init
<1>2. MaxTime \in Nat /\ MaxEntries \in Nat /\ MaxTime # 0
  BY TrailConstants
<1>3. 1 \in 1 .. MaxTime
  BY <1>2
<1>4. Trail!Idle \in Jobs /\ Trail!Idle.pc = "idle"
  BY FieldsOfRow DEF Jobs, Trail!Idle
<1>5. Busy = {}
  BY <1>1, <1>4 DEF Busy
<1>6. entries \in Seq(LogEntries) /\ Len(entries) = 0 /\ DOMAIN entries = {}
  BY <1>1
<1>7. TrailTypes
  <2>1. Trail!Cardinality(Busy) = 0
    BY <1>5, TrailCardinality, FS_EmptySet
  <2> QED
    BY <1>1, <1>2, <1>3, <1>4, <1>6, <2>1, FieldsOfRow DEF TrailTypes
<1>8. RowsAreWhole /\ LogIsInTime
  BY <1>1, <1>4, <1>6 DEF RowsAreWhole, LogIsInTime
<1>9. ASSUME NEW r \in TrailRows, NEW f \in Accounted(r) PROVE Followed(r, f)
  <2>1. TellingOf(r, f) = {}
    BY <1>6 DEF TellingOf
  <2>2. Basis(r)[f] = Off
    BY <1>1, <1>4, FieldsOfRow DEF Basis, Accounted
  <2> QED
    BY <2>1, <2>2 DEF Followed
<1>10. ViewIsTrue
  BY <1>1, NoViewIsTrue
<1> QED
  BY <1>7, <1>8, <1>9, <1>10 DEF TrailInv, LogFollows

\* A row's history is followed as long as nobody adds to it or changes what comes next.
LEMMA FollowedStays ==
  ASSUME NEW r, NEW f, Followed(r, f), UNCHANGED entries, Basis(r)'[f] = Basis(r)[f]
  PROVE  Followed(r, f)'
<1>1. TellingOf(r, f)' = TellingOf(r, f)
  BY DEF TellingOf
<1> QED
  BY <1>1 DEF Followed

LEMMA LogFollowsStays ==
  ASSUME LogFollows, UNCHANGED entries,
         \A r \in TrailRows : \A f \in Accounted(r)' :
           f \in Accounted(r) /\ Basis(r)'[f] = Basis(r)[f]
  PROVE  LogFollows'
<1> SUFFICES ASSUME NEW r \in TrailRows, NEW f \in Accounted(r)' PROVE Followed(r, f)'
  BY DEF LogFollows
<1> QED
  BY FollowedStays DEF LogFollows

\* A job that is taken on is one more under way; one that is recorded is one less.
LEMMA BusyStep ==
  ASSUME TrailTypes
  PROVE  /\ IsFiniteSet(Busy) /\ Trail!Cardinality(Busy) \in Nat
         /\ \A r \in TrailRows :
              /\ r \notin Busy => Trail!Cardinality(Busy \cup {r}) = Trail!Cardinality(Busy) + 1
              /\ r \in Busy => Trail!Cardinality(Busy \ {r}) = Trail!Cardinality(Busy) - 1
<1>1. IsFiniteSet(Busy)
  <2>1. Busy \subseteq TrailRows
    BY DEF Busy
  <2> QED
    BY <2>1, TrailConstants, FS_Subset
<1> QED
  BY <1>1, TrailCardinality, FS_CardinalityType, FS_AddElement, FS_RemoveElement

LEMMA BeginStep ==
  ASSUME TrailInv, NEW r \in TrailRows, NEW action \in {"create", "update", "delete"},
         Trail!Begin(r, action)
  PROVE  TrailInv'
<1> DEFINE new == [pc |-> "write", action |-> action, before |-> Trail!Snapshot(audited[r])]
<1>1. /\ jobs[r].pc = "idle" /\ jobs' = [jobs EXCEPT ![r] = new]
      /\ Len(entries) + Trail!Cardinality(Busy) < MaxEntries
      /\ view' = Trail!NoView /\ UNCHANGED <<clock, audited, entries, mutated>>
      /\ action # "create" => audited[r] # Trail!Absent
  BY DEF Trail!Begin, Busy
<1>2. TrailTypes /\ RowsAreWhole /\ LogIsInTime /\ LogFollows
  BY DEF TrailInv
<1>3. audited[r] \in Stored /\ jobs \in [TrailRows -> Jobs]
  BY <1>2 DEF TrailTypes
<1>4. new \in Jobs /\ new.pc = "write" /\ new.action = action
      /\ \A f \in Trail!Audited : new.before[f] = audited[r][f]
  BY <1>3, SnapshotOfRow DEF Jobs
<1> HIDE DEF new
<1>5. jobs' \in [TrailRows -> Jobs] /\ jobs'[r] = new
      /\ \A q \in TrailRows : q # r => jobs'[q] = jobs[q]
  BY <1>1, <1>3, <1>4
<1>6. TrailTypes'
  <2>1. Busy' = Busy \cup {r} /\ r \notin Busy
    BY <1>1, <1>4, <1>5 DEF Busy
  <2>2. Trail!Cardinality(Busy') = Trail!Cardinality(Busy) + 1 /\ Trail!Cardinality(Busy) \in Nat
    BY <1>2, <2>1, BusyStep
  <2>3. Len(entries) \in Nat /\ MaxEntries \in Nat
    BY <1>2, TrailConstants DEF TrailTypes
  <2>4. Len(entries') + Trail!Cardinality(Busy') <= MaxEntries
    BY <1>1, <2>2, <2>3
  <2> QED
    BY <1>1, <1>2, <1>5, <2>4 DEF TrailTypes
<1>7. RowsAreWhole'
  BY <1>1, <1>2, <1>4, <1>5 DEF RowsAreWhole
<1>8. LogIsInTime'
  BY <1>1, <1>2 DEF LogIsInTime
<1>9. ASSUME NEW q \in TrailRows, NEW f \in Accounted(q)'
      PROVE  f \in Accounted(q) /\ Basis(q)'[f] = Basis(q)[f]
  BY <1>1, <1>4, <1>5 DEF Accounted, Basis
<1>10. LogFollows'
  BY <1>1, <1>2, <1>9, LogFollowsStays
<1>11. ViewIsTrue'
  BY <1>1, NoViewIsTrue DEF ViewIsTrue, Trail!TimelineExplainsTheRow, Trail!NoView
<1> QED
  BY <1>6, <1>7, <1>8, <1>10, <1>11 DEF TrailInv

\* What a change stores, the fields of its job's snapshot aside.
LEMMA WriteStep ==
  ASSUME TrailInv, NEW r \in TrailRows, Trail!Write(r) \/ Trail!WriteInPlace(r)
  PROVE  TrailInv'
<1>1. TrailTypes /\ RowsAreWhole /\ LogIsInTime /\ LogFollows
  BY DEF TrailInv
<1>2. audited \in [TrailRows -> Stored] /\ jobs \in [TrailRows -> Jobs] /\ jobs[r].pc = "write"
      /\ view' = Trail!NoView /\ UNCHANGED <<clock, entries>>
  BY <1>1 DEF TrailTypes, Trail!Write, Trail!WriteInPlace
<1>3. /\ Trail!Absent \in Stored
      /\ Trail!Fields = {"name", "prefs", "hash"} /\ Trail!Audited = {"name", "prefs"}
  BY FieldsOfRow
<1>4. /\ audited' \in [TrailRows -> Stored]
      /\ \A q \in TrailRows : q # r => audited'[q] = audited[q]
      /\ audited'[r] # Trail!Absent => audited'[r] \in [Trail!Fields -> TrailValues]
  <2> DEFINE Good(kept) == /\ kept \in Stored
                           /\ kept # Trail!Absent => kept \in [Trail!Fields -> TrailValues]
  <2>1. ASSUME NEW kept, Good(kept), audited' = [audited EXCEPT ![r] = kept]
        PROVE  /\ audited' \in [TrailRows -> Stored]
               /\ \A q \in TrailRows : q # r => audited'[q] = audited[q]
               /\ audited'[r] # Trail!Absent => audited'[r] \in [Trail!Fields -> TrailValues]
    BY <1>2, <2>1
  <2>2. ASSUME NEW v \in TrailValues, NEW f \in Trail!Fields, jobs[r].action = "update"
        PROVE  Good([audited[r] EXCEPT ![f] = v])
    <3>1. audited[r] \in [Trail!Fields -> TrailValues]
      BY <1>1, <1>2, <2>2 DEF RowsAreWhole
    <3> QED
      BY <3>1 DEF Stored
  <2>3. CASE Trail!WriteInPlace(r)
    <3>1. PICK v \in TrailValues : audited' = [audited EXCEPT ![r].prefs = v]
      BY <2>3 DEF Trail!WriteInPlace
    <3>2. jobs[r].action = "update" /\ "prefs" \in Trail!Fields
      BY <1>3, <2>3 DEF Trail!WriteInPlace
    <3> QED
      BY <2>1, <2>2, <3>1, <3>2
  <2>4. CASE Trail!Write(r)
    <3>1. PICK kept : Good(kept) /\ audited' = [audited EXCEPT ![r] = kept]
      <4>1. CASE jobs[r].action = "create"
        <5>1. PICK v \in TrailValues, w \in TrailValues :
                audited' = [audited EXCEPT ![r] = [name |-> v, prefs |-> w, hash |-> v]]
          BY <2>4, <4>1 DEF Trail!Write, Trail!Store
        <5>2. [name |-> v, prefs |-> w, hash |-> v] \in [Trail!Fields -> TrailValues]
          BY <1>3
        <5>3. [name |-> v, prefs |-> w, hash |-> v] \in Stored
          BY <5>2 DEF Stored
        <5> QED
          BY <5>1, <5>2, <5>3
      <4>2. CASE jobs[r].action = "delete"
        BY <1>3, <2>4, <4>2 DEF Trail!Write, Trail!Store
      <4>3. CASE jobs[r].action = "update"
        BY <2>2, <2>4, <4>3 DEF Trail!Write, Trail!Store
      <4> QED
        BY <2>4, <4>1, <4>2, <4>3 DEF Trail!Write
    <3> QED
      BY <2>1, <3>1
  <2> QED
    BY <2>3, <2>4
<1>5. /\ jobs' \in [TrailRows -> Jobs] /\ jobs'[r].pc = "record"
      /\ \A q \in TrailRows : q # r => jobs'[q] = jobs[q]
      /\ \A f \in Trail!Audited : (f = "prefs" /\ r \in mutated')
                                 \/ jobs'[r].before[f] = jobs[r].before[f]
      /\ mutated \subseteq mutated'
  <2>1. CASE Trail!Write(r)
    <3>1. jobs' = [jobs EXCEPT ![r].pc = "record"] /\ UNCHANGED mutated
      BY <2>1 DEF Trail!Write, Trail!Store
    <3> QED
      BY <1>2, <3>1 DEF Jobs
  <2>2. CASE Trail!WriteInPlace(r)
    <3>1. PICK v \in TrailValues : jobs' = [jobs EXCEPT ![r].pc = "record", ![r].before.prefs = v]
      BY <2>2 DEF Trail!WriteInPlace
    <3>2. mutated' = mutated \cup {r}
      BY <2>2 DEF Trail!WriteInPlace
    <3> DEFINE before == [jobs[r].before EXCEPT !.prefs = v]
               new == [jobs[r] EXCEPT !.pc = "record", !.before = before]
    <3>3. jobs[r] \in Jobs /\ jobs[r].before \in Stored
      BY <1>2 DEF Jobs
    <3>4. before \in Stored /\ \A f \in Trail!Audited : f # "prefs" => before[f] = jobs[r].before[f]
      BY <1>3, <3>3 DEF Stored
    <3>5. jobs' = [jobs EXCEPT ![r] = new]
      BY <1>2, <3>1, <3>3 DEF Jobs
    <3> HIDE DEF before
    <3>6. new \in Jobs /\ new.pc = "record" /\ new.before = before
      BY <3>3, <3>4 DEF Jobs
    <3> HIDE DEF new
    <3> QED
      BY <1>2, <3>2, <3>4, <3>5, <3>6
  <2> QED
    BY <2>1, <2>2
<1>6. TrailTypes'
  <2>1. Busy' = Busy
    BY <1>2, <1>5 DEF Busy
  <2> QED
    BY <1>1, <1>2, <1>4, <1>5, <2>1 DEF TrailTypes
<1>7. RowsAreWhole'
  BY <1>1, <1>4, <1>5 DEF RowsAreWhole
<1>8. LogIsInTime'
  BY <1>1, <1>2 DEF LogIsInTime
<1>9. ASSUME NEW q \in TrailRows, NEW f \in Accounted(q)'
      PROVE  f \in Accounted(q) /\ Basis(q)'[f] = Basis(q)[f]
  <2>1. f \in Trail!Audited /\ ~(f = "prefs" /\ q \in mutated')
    BY DEF Accounted
  <2>2. f \in Accounted(q)
    BY <1>5, <2>1 DEF Accounted
  <2>3. CASE q = r
    BY <1>2, <1>5, <2>1, <2>2, <2>3 DEF Basis
  <2>4. CASE q # r
    BY <1>4, <1>5, <2>2, <2>4 DEF Basis
  <2> QED
    BY <2>3, <2>4
<1>10. LogFollows'
  BY <1>1, <1>2, <1>9, LogFollowsStays
<1>11. ViewIsTrue'
  BY <1>2 DEF ViewIsTrue, Trail!TimelineExplainsTheRow, Trail!NoView
<1> QED
  BY <1>6, <1>7, <1>8, <1>10, <1>11 DEF TrailInv

LEMMA TickStep == ASSUME TrailInv, Trail!Tick PROVE TrailInv'
<1>1. /\ clock < MaxTime /\ clock' = clock + 1 /\ view' = Trail!NoView
      /\ UNCHANGED <<audited, jobs, entries, mutated>>
  BY DEF Trail!Tick
<1>2. TrailTypes /\ RowsAreWhole /\ LogIsInTime /\ LogFollows
  BY DEF TrailInv
<1>3. clock \in Nat /\ clock' \in 1 .. MaxTime
  BY <1>1, <1>2, TrailConstants DEF TrailTypes
<1>4. TrailTypes' /\ RowsAreWhole'
  BY <1>1, <1>2, <1>3 DEF TrailTypes, RowsAreWhole, Busy
<1>5. LogIsInTime'
  <2>2. \A i \in DOMAIN entries : entries[i] \in LogEntries
    BY <1>2 DEF TrailTypes
  <2>1. \A i \in DOMAIN entries : entries[i].at \in Nat
    BY <2>2 DEF LogEntries
  <2> QED
    BY <1>1, <1>2, <1>3, <2>1 DEF LogIsInTime
<1>6. LogFollows'
  BY <1>1, <1>2, LogFollowsStays DEF Accounted, Basis
<1>7. ViewIsTrue'
  BY <1>1 DEF ViewIsTrue, Trail!TimelineExplainsTheRow, Trail!NoView
<1> QED
  BY <1>4, <1>5, <1>6, <1>7 DEF TrailInv

\* An entry begins at what the snapshot of its job held and ends at what is stored.
LEMMA RecordFollows ==
  ASSUME TrailTypes, LogFollows, NEW r \in TrailRows, Trail!Record(r),
         NEW q \in TrailRows, NEW f \in Accounted(q)
  PROVE  Followed(q, f)'
<1> DEFINE new == [row |-> r, at |-> clock,
                   changes |-> Trail!Diff(jobs[r].before, Trail!Snapshot(audited[r]))]
           n == Len(entries) + 1
<1>1. /\ jobs[r].pc = "record" /\ entries' = Append(entries, new)
      /\ jobs' = [jobs EXCEPT ![r] = Trail!Idle] /\ UNCHANGED <<clock, audited, mutated>>
  BY DEF Trail!Record
<1>2. /\ audited[r] \in Stored /\ jobs[r].before \in Stored /\ jobs \in [TrailRows -> Jobs]
      /\ entries \in Seq(LogEntries) /\ clock \in Nat /\ f \in Trail!Audited
  BY TrailConstants DEF TrailTypes, Jobs, Accounted
<1>3. /\ new.row = r /\ new.changes \in Changes
      /\ f \in DOMAIN new.changes <=> jobs[r].before[f] # audited[r][f]
      /\ f \in DOMAIN new.changes => new.changes[f] = <<jobs[r].before[f], audited[r][f]>>
  BY <1>2, DiffOfStored, SnapshotOfRow
<1>4. new \in LogEntries
  BY <1>2, <1>3 DEF LogEntries
<1> HIDE DEF new
<1>5. /\ DOMAIN entries = 1 .. Len(entries) /\ DOMAIN entries' = 1 .. n /\ n \in Nat
      /\ entries'[n] = new /\ \A i \in DOMAIN entries : entries'[i] = entries[i]
  BY <1>1, <1>2, <1>4
<1>6. Basis(r)' = audited[r] /\ Basis(r) = jobs[r].before
      /\ \A p \in TrailRows : p # r => Basis(p)' = Basis(p)
  BY <1>1, <1>2 DEF Basis, Trail!Idle
<1>7. Followed(q, f)
  BY DEF LogFollows
<1> DEFINE T == TellingOf(q, f)
<1>8. T \subseteq DOMAIN entries /\ \A i \in T : i \in Nat /\ i < n /\ entries'[i] = entries[i]
  BY <1>5 DEF TellingOf
<1>9. CASE q = r /\ f \in DOMAIN new.changes
  <2>1. TellingOf(q, f)' = T \cup {n}
    BY <1>3, <1>5, <1>9 DEF TellingOf
  <2>2. entries'[n].changes[f][1] = Basis(q)[f] /\ entries'[n].changes[f][2] = Basis(q)'[f]
    BY <1>3, <1>5, <1>6, <1>9
  <2> HIDE DEF T
  <2>3. ASSUME NEW i \in T \cup {n}, \A j \in T \cup {n} : j <= i PROVE i = n
    <3>1. n <= i
      BY <2>3
    <3> QED
      BY <1>5, <1>8, <3>1
  <2>4. ASSUME NEW i \in T \cup {n}, NEW k \in T \cup {n}, i < k,
               \A j \in T \cup {n} : j <= i \/ k <= j
        PROVE  entries'[i].changes[f][2] = entries'[k].changes[f][1]
    <3>1. i \in T /\ i # n
      BY <1>5, <1>8, <2>4
    <3>2. CASE k = n
      <4>1. \A j \in T : j <= i
        BY <1>5, <1>8, <2>4, <3>2
      <4> QED
        BY <1>7, <1>8, <2>2, <3>1, <3>2, <4>1 DEF Followed, T
    <3>3. CASE k # n
      BY <1>7, <1>8, <2>4, <3>1, <3>3 DEF Followed, T
    <3> QED
      BY <3>2, <3>3
  <2> QED
    BY <2>1, <2>2, <2>3, <2>4 DEF Followed
<1>10. CASE ~(q = r /\ f \in DOMAIN new.changes)
  <2>1. TellingOf(q, f)' = T
    BY <1>3, <1>5, <1>10 DEF TellingOf
  <2>2. Basis(q)'[f] = Basis(q)[f]
    BY <1>3, <1>6, <1>10
  <2> QED
    BY <1>7, <1>8, <2>1, <2>2 DEF Followed
<1> QED
  BY <1>9, <1>10

LEMMA RecordStep == ASSUME TrailInv, NEW r \in TrailRows, Trail!Record(r) PROVE TrailInv'
<1> DEFINE new == [row |-> r, at |-> clock,
                   changes |-> Trail!Diff(jobs[r].before, Trail!Snapshot(audited[r]))]
           n == Len(entries) + 1
<1>1. /\ jobs[r].pc = "record" /\ entries' = Append(entries, new)
      /\ jobs' = [jobs EXCEPT ![r] = Trail!Idle] /\ UNCHANGED <<clock, audited, mutated>>
      /\ view' = Trail!NoView
  BY DEF Trail!Record
<1>0. TrailTypes /\ RowsAreWhole /\ LogIsInTime /\ LogFollows
  BY DEF TrailInv
<1>2. /\ audited[r] \in Stored /\ jobs[r].before \in Stored /\ jobs \in [TrailRows -> Jobs]
      /\ entries \in Seq(LogEntries) /\ clock \in Nat
  BY <1>0, TrailConstants DEF TrailTypes, Jobs
<1>3. new.at = clock /\ new.changes \in Changes
  BY <1>2, DiffOfStored, SnapshotOfRow
<1>4. new \in LogEntries
  BY <1>2, <1>3 DEF LogEntries
<1> HIDE DEF new
<1>5. /\ DOMAIN entries = 1 .. Len(entries) /\ DOMAIN entries' = 1 .. n /\ n \in Nat
      /\ entries'[n] = new /\ \A i \in DOMAIN entries : entries'[i] = entries[i]
      /\ entries' \in Seq(LogEntries) /\ Len(entries') = n
  BY <1>1, <1>2, <1>4
<1>6. Trail!Idle \in Jobs /\ Trail!Idle.pc = "idle"
  BY FieldsOfRow DEF Jobs, Trail!Idle
<1>7. jobs' \in [TrailRows -> Jobs] /\ jobs'[r].pc = "idle"
      /\ \A q \in TrailRows : q # r => jobs'[q] = jobs[q]
  BY <1>1, <1>2, <1>6
<1>8. TrailTypes'
  <2>1. Busy' = Busy \ {r} /\ r \in Busy
    BY <1>1, <1>7 DEF Busy
  <2>2. Trail!Cardinality(Busy') = Trail!Cardinality(Busy) - 1 /\ Trail!Cardinality(Busy) \in Nat
    BY <1>0, <2>1, BusyStep
  <2>3. Len(entries) \in Nat /\ MaxEntries \in Nat
        /\ Len(entries) + Trail!Cardinality(Busy) <= MaxEntries
    BY <1>0, TrailConstants DEF TrailTypes
  <2>4. Len(entries') + Trail!Cardinality(Busy') <= MaxEntries
    BY <1>5, <2>2, <2>3
  <2> QED
    BY <1>0, <1>1, <1>5, <1>7, <2>4 DEF TrailTypes
<1>9. RowsAreWhole'
  BY <1>0, <1>1, <1>7 DEF RowsAreWhole
<1>10. LogIsInTime'
  <2>1. \A i \in DOMAIN entries' : entries'[i].at <= clock
    BY <1>0, <1>2, <1>3, <1>5 DEF LogIsInTime
  <2>2. ASSUME NEW i \in DOMAIN entries', NEW j \in DOMAIN entries', i <= j
        PROVE  entries'[i].at <= entries'[j].at
    <3>1. CASE j = n
      BY <1>3, <1>5, <2>1, <3>1
    <3>2. CASE j # n
      BY <1>0, <1>5, <2>2, <3>2 DEF LogIsInTime
    <3> QED
      BY <3>1, <3>2
  <2> QED
    BY <1>1, <2>1, <2>2 DEF LogIsInTime
<1>11. LogFollows'
  <2> SUFFICES ASSUME NEW q \in TrailRows, NEW f \in Accounted(q)' PROVE Followed(q, f)'
    BY DEF LogFollows
  <2>1. f \in Accounted(q)
    BY <1>1 DEF Accounted
  <2> QED
    BY <1>0, <2>1, RecordFollows
<1>12. ViewIsTrue'
  BY <1>1 DEF ViewIsTrue, Trail!TimelineExplainsTheRow, Trail!NoView
<1> QED
  BY <1>8, <1>9, <1>10, <1>11, <1>12 DEF TrailInv

\* Newest first, the entries of a row that was never changed twice in a millisecond are
\* those of the log backwards, all of them.
LEMMA Backwards ==
  ASSUME TrailInv, NEW r \in TrailRows, NEW order \in Trail!Timelines(r)
  PROVE  LET c == Trail!Cardinality(Trail!Own(r))
         IN /\ c \in Nat /\ order \in [1 .. c -> Trail!Own(r)]
            /\ \A p \in Trail!Own(r) : \E m \in 1 .. c : order[m] = p
            /\ (\A i, j \in Trail!Own(r) : i # j => entries[i].at # entries[j].at) =>
                 \A i, j \in 1 .. c : i < j => order[j] < order[i]
<1> DEFINE own == Trail!Own(r)
           c == Cardinality(own)
<1>1. entries \in Seq(LogEntries) /\ DOMAIN entries = 1 .. Len(entries) /\ Len(entries) \in Nat
  BY DEF TrailInv, TrailTypes
<1>2. own \subseteq 1 .. Len(entries)
  BY <1>1 DEF Trail!Own
<1>3. IsFiniteSet(own) /\ c \in Nat
  <2>1. IsFiniteSet(1 .. Len(entries))
    BY <1>1, FS_Interval
  <2>2. IsFiniteSet(own)
    BY <1>2, <2>1, FS_Subset
  <2> QED
    BY <2>2, FS_CardinalityType
<1>4. order \in [1 .. c -> own]
      /\ \A i, j \in 1 .. c : i < j => /\ order[i] # order[j]
                                      /\ entries[order[i]].at >= entries[order[j]].at
  BY TrailCardinality DEF Trail!Timelines
<1>5. \A p \in own : \E m \in 1 .. c : order[m] = p
  <2>1. \A i, j \in 1 .. c : order[i] = order[j] => i = j
    BY <1>3, <1>4
  <2>2. order \in Injection(1 .. c, own)
    BY <1>4, <2>1 DEF Injection, IsInjective
  <2>3. Cardinality(1 .. c) = c
    BY <1>3, FS_Interval
  <2>4. order \in Surjection(1 .. c, own)
    BY <1>3, <2>2, <2>3, FS_Injection
  <2> QED
    BY <2>4 DEF Surjection
<1>6. ASSUME \A i, j \in own : i # j => entries[i].at # entries[j].at,
             NEW i \in 1 .. c, NEW j \in 1 .. c, i < j
      PROVE  order[j] < order[i]
  <2>1. /\ order[i] \in own /\ order[j] \in own /\ order[i] # order[j]
        /\ entries[order[i]].at >= entries[order[j]].at
        /\ entries[order[i]].at # entries[order[j]].at
    BY <1>4, <1>6
  <2>2. entries[order[i]].at \in Nat /\ entries[order[j]].at \in Nat
    <3>1. entries[order[i]] \in LogEntries /\ entries[order[j]] \in LogEntries
      BY <1>1, <1>2, <2>1
    <3> QED
      BY <3>1 DEF LogEntries
  <2>3. order[i] \in Nat /\ order[j] \in Nat
    BY <1>2, <2>1
  <2>4. order[i] <= order[j] => entries[order[i]].at <= entries[order[j]].at
    BY <1>1, <1>2, <2>1 DEF TrailInv, LogIsInTime
  <2> QED
    BY <2>1, <2>2, <2>3, <2>4
<1> QED
  BY <1>3, <1>4, <1>5, <1>6, TrailCardinality

\* So what is shown of it explains the row.
LEMMA ShownExplains ==
  ASSUME TrailInv, NEW r \in TrailRows, audited[r] # Trail!Absent, jobs[r].pc = "idle",
         NEW order \in Trail!Timelines(r),
         \A i, j \in Trail!Own(r) : i # j => entries[i].at # entries[j].at,
         NEW n \in Nat, n <= AuditHistoryLimit, n <= Trail!Cardinality(Trail!Own(r)),
         n < AuditHistoryLimit => n = Trail!Cardinality(Trail!Own(r)),
         NEW f \in Accounted(r)
  PROVE  LET telling == {i \in 1 .. n : f \in DOMAIN entries[order[i]].changes}
         IN /\ \A i \in telling : (\A j \in telling : i <= j) =>
                 entries[order[i]].changes[f][2] = audited[r][f]
            /\ \A i, k \in telling : i < k /\ (\A j \in telling : j <= i \/ k <= j) =>
                 entries[order[i]].changes[f][1] = entries[order[k]].changes[f][2]
            /\ n < AuditHistoryLimit => telling # {}
<1> DEFINE own == Trail!Own(r)
           c == Trail!Cardinality(own)
           T == TellingOf(r, f)
           telling == {i \in 1 .. n : f \in DOMAIN entries[order[i]].changes}
<1>1. /\ c \in Nat /\ order \in [1 .. c -> own]
      /\ \A p \in own : \E m \in 1 .. c : order[m] = p
      /\ \A i, j \in 1 .. c : i < j => order[j] < order[i]
  BY Backwards
<1>2. T \subseteq own /\ \A p \in own : p \in T <=> f \in DOMAIN entries[p].changes
  BY DEF TellingOf, Trail!Own
<1>3. own \subseteq Nat
  BY DEF TrailInv, TrailTypes, Trail!Own
<1>4. Followed(r, f) /\ Basis(r) = audited[r]
  BY DEF TrailInv, LogFollows, Basis
<1>5. n \in Nat /\ n <= c /\ (n < AuditHistoryLimit => n = c)
  OBVIOUS
<1>13. audited[r][f] # Off
  BY TrailConstants, FieldsOfRow DEF TrailInv, RowsAreWhole, Accounted
<1> HIDE DEF own, c, T
<1>6. \A i \in 1 .. n : i \in 1 .. c /\ order[i] \in own
  BY <1>1, <1>5
<1>7. \A i \in telling : i \in 1 .. n /\ order[i] \in T
  BY <1>2, <1>6
<1>8. \A p \in T : \E m \in 1 .. c : order[m] = p /\ (m <= n => m \in telling)
  <2> SUFFICES ASSUME NEW p \in T PROVE \E m \in 1 .. c : order[m] = p /\ (m <= n => m \in telling)
    OBVIOUS
  <2>1. PICK m \in 1 .. c : order[m] = p
    BY <1>1, <1>2
  <2>2. m <= n => m \in telling
    BY <1>1, <1>2, <1>5, <2>1
  <2> QED
    BY <2>1, <2>2
<1> HIDE DEF telling
<1>9. ASSUME NEW i \in telling, \A j \in telling : i <= j
      PROVE  entries[order[i]].changes[f][2] = audited[r][f]
  <2>1. ASSUME NEW p \in T PROVE p <= order[i]
    <3>1. PICK m \in 1 .. c : order[m] = p /\ (m <= n => m \in telling)
      BY <1>8
    <3>2. i <= m
      BY <1>1, <1>5, <1>7, <1>9, <3>1
    <3>3. i \in 1 .. c /\ order[i] \in Nat /\ p \in Nat
      BY <1>2, <1>3, <1>6, <1>7
    <3> QED
      BY <1>1, <3>1, <3>2, <3>3
  <2> QED
    BY <1>4, <1>7, <2>1 DEF Followed, T
<1>10. ASSUME NEW i \in telling, NEW k \in telling, i < k, \A j \in telling : j <= i \/ k <= j
       PROVE  entries[order[i]].changes[f][1] = entries[order[k]].changes[f][2]
  <2>1. order[k] < order[i] /\ order[k] \in T /\ order[i] \in T
    BY <1>1, <1>6, <1>7, <1>10
  <2>2. ASSUME NEW p \in T PROVE p <= order[k] \/ order[i] <= p
    <3>1. PICK m \in 1 .. c : order[m] = p /\ (m <= n => m \in telling)
      BY <1>8
    <3>2. i \in 1 .. c /\ k \in 1 .. c /\ k <= n
      BY <1>6, <1>7
    <3>3. m <= i \/ k <= m
      BY <1>1, <1>5, <1>10, <3>1, <3>2
    <3>4. order[i] \in Nat /\ order[k] \in Nat /\ p \in Nat
      BY <1>2, <1>3, <2>1
    <3> QED
      BY <1>1, <3>1, <3>2, <3>3, <3>4
  <2> QED
    BY <1>4, <2>1, <2>2 DEF Followed, T
<1>11. ASSUME n < AuditHistoryLimit PROVE telling # {}
  <2>1. T # {}
    BY <1>4, <1>13 DEF Followed, T
  <2>2. PICK p \in T : TRUE
    BY <2>1
  <2>3. PICK m \in 1 .. c : order[m] = p /\ (m <= n => m \in telling)
    BY <1>8
  <2> QED
    BY <1>1, <1>5, <1>11, <2>3
<1> QED
  BY <1>9, <1>10, <1>11 DEF telling

LEMMA BuildStep ==
  ASSUME TrailInv, NEW r \in TrailRows, Trail!BuildAuditView(r) PROVE TrailInv'
<1>1. audited[r] # Trail!Absent /\ UNCHANGED <<clock, audited, jobs, entries, mutated>>
  BY DEF Trail!BuildAuditView
<1>2. PICK order \in Trail!Timelines(r) :
        view' = [row |-> r, stored |-> audited[r], settled |-> jobs[r].pc = "idle",
                 history |-> [i \in 1 .. (IF Len(order) < AuditHistoryLimit
                                          THEN Len(order) ELSE AuditHistoryLimit) |->
                                entries[order[i]]]]
  BY DEF Trail!BuildAuditView
<1> DEFINE n == IF Len(order) < AuditHistoryLimit THEN Len(order) ELSE AuditHistoryLimit
           c == Trail!Cardinality(Trail!Own(r))
<1>12. PICK shown_ : shown_ = [i \in 1 .. n |-> entries[order[i]]]
  OBVIOUS
<1>3. /\ view'.row = r /\ view'.stored = audited[r] /\ view'.history = shown_
      /\ view'.settled <=> jobs[r].pc = "idle"
  BY <1>2, <1>12
<1>4. c \in Nat /\ order \in [1 .. c -> Trail!Own(r)]
  BY Backwards
<1>5. Len(order) = c
  <2>1. order \in Seq(Trail!Own(r))
    BY <1>4
  <2> QED
    BY <1>4, <2>1
<1>6. /\ n \in Nat /\ n <= AuditHistoryLimit /\ n <= c
      /\ n < AuditHistoryLimit => n = c
  BY <1>4, <1>5, TrailConstants
<1> HIDE DEF n
<1>7. /\ DOMAIN shown_ = 1 .. n /\ \A i \in 1 .. n : shown_[i] = entries[order[i]]
      /\ \A i \in 1 .. n : order[i] \in DOMAIN entries /\ entries[order[i]].row = r
      /\ Len(shown_) = n
  <2>1. \A i \in 1 .. n : order[i] \in DOMAIN entries /\ entries[order[i]].row = r
    BY <1>4, <1>6 DEF Trail!Own
  <2>2. entries \in Seq(LogEntries)
    BY DEF TrailInv, TrailTypes
  <2>3. shown_ \in [1 .. n -> LogEntries]
    BY <1>12, <2>1, <2>2
  <2>4. shown_ \in Seq(LogEntries)
    BY <1>6, <2>3
  <2> QED
    BY <1>6, <1>12, <2>1, <2>4
<1>8. \A i \in DOMAIN view'.history : "hash" \notin DOMAIN view'.history[i].changes
  <2> SUFFICES ASSUME NEW i \in 1 .. n PROVE "hash" \notin DOMAIN entries[order[i]].changes
    BY <1>3, <1>7
  <2>1. entries[order[i]] \in LogEntries
    BY <1>7 DEF TrailInv, TrailTypes
  <2>2. DOMAIN entries[order[i]].changes \subseteq Trail!Audited
    BY <2>1 DEF LogEntries, Changes
  <2> QED
    BY <2>2, FieldsOfRow
<1>9. Trail!TimelineExplainsTheRow'
  <2> DEFINE TellingIn(f) == {i \in DOMAIN shown_ : f \in DOMAIN shown_[i].changes}
             Told(f) ==
               /\ \A i \in TellingIn(f) : (\A j \in TellingIn(f) : i <= j) =>
                    shown_[i].changes[f][2] = view'.stored[f]
               /\ \A i, k \in TellingIn(f) :
                    i < k /\ (\A j \in TellingIn(f) : j <= i \/ k <= j) =>
                      shown_[i].changes[f][1] = shown_[k].changes[f][2]
               /\ Len(shown_) < AuditHistoryLimit => TellingIn(f) # {}
             tied == \E i, j \in Trail!Own(r) : i # j /\ entries[i].at = entries[j].at
  <2>3. \A i \in DOMAIN shown_ : shown_[i].row = r
    BY <1>7
  <2>4. ASSUME jobs[r].pc = "idle", ~tied, NEW f \in Accounted(r) PROVE Told(f)
    <3> DEFINE telling == {i \in 1 .. n : f \in DOMAIN entries[order[i]].changes}
    <3>4. \A i, j \in Trail!Own(r) : i # j => entries[i].at # entries[j].at
      BY <2>4
    <3>1. /\ \A i \in telling : (\A j \in telling : i <= j) =>
               entries[order[i]].changes[f][2] = audited[r][f]
          /\ \A i, k \in telling : i < k /\ (\A j \in telling : j <= i \/ k <= j) =>
               entries[order[i]].changes[f][1] = entries[order[k]].changes[f][2]
          /\ n < AuditHistoryLimit => telling # {}
      BY <1>1, <1>6, <2>4, <3>4, ShownExplains
    <3>2. telling = TellingIn(f)
      BY <1>7
    <3>3. \A i \in telling : shown_[i] = entries[order[i]]
      BY <1>7
    <3> HIDE DEF telling, TellingIn
    <3> QED
      BY <1>3, <1>7, <3>1, <3>2, <3>3
  <2>5. Trail!Own(r)' = Trail!Own(r)
    BY <1>1 DEF Trail!Own
  <2> HIDE DEF tied
  <2>6. view'.settled => tied \/ \A f \in Accounted(r) : Told(f)
    BY <1>3, <2>4
  <2> QED
    BY <1>1, <1>3, <2>3, <2>5, <2>6 DEF Trail!TimelineExplainsTheRow, Trail!Explains, Accounted, tied
<1>10. TrailTypes' /\ RowsAreWhole' /\ LogIsInTime'
  BY <1>1 DEF TrailInv, TrailTypes, Busy, RowsAreWhole, LogIsInTime
<1>11. LogFollows'
  BY <1>1, LogFollowsStays DEF TrailInv, Accounted, Basis
<1> QED
  BY <1>8, <1>9, <1>10, <1>11 DEF TrailInv, ViewIsTrue

LEMMA TrailStep == ASSUME TrailInv, Trail!Next PROVE TrailInv'
  BY BeginStep, WriteStep, RecordStep, BuildStep, TickStep DEF Trail!Next

LEMMA TrailStays == ASSUME TrailInv, UNCHANGED audit PROVE TrailInv'
<1>1. TrailTypes' /\ RowsAreWhole' /\ LogIsInTime'
  BY DEF audit, TrailInv, TrailTypes, Busy, RowsAreWhole, LogIsInTime
<1>2. LogFollows'
  BY LogFollowsStays DEF audit, TrailInv, Accounted, Basis
<1>3. ViewIsTrue'
  BY DEF audit, TrailInv, ViewIsTrue, Trail!TimelineExplainsTheRow, Trail!Explains, Trail!Own
<1> QED
  BY <1>1, <1>2, <1>3 DEF TrailInv

LEMMA TrailTold == TrailInv => Trail!TypeOK /\ Trail!TimelineExplainsTheRow
<1> SUFFICES ASSUME TrailInv PROVE Trail!TypeOK
  BY DEF TrailInv, ViewIsTrue
<1>1. Len(entries) \in Nat /\ Trail!Cardinality(Busy) \in Nat /\ MaxEntries \in Nat
      /\ Len(entries) + Trail!Cardinality(Busy) <= MaxEntries
  BY BusyStep, TrailConstants DEF TrailInv, TrailTypes
<1>2. Len(entries) <= MaxEntries
  BY <1>1
<1> QED
  BY <1>2 DEF TrailInv, TrailTypes, Stored, ViewIsTrue, Trail!TypeOK

-----------------------------------------------------------------------------
(* Walking through the panel (AdminPages)                                  *)

ModelPaths == {"list", "new", "edit", "import", "detail"}
PlainPaths == {"dashboard", "logs", "sql", "tasks", "task", "error", "login"}
Whats == {"-", "running", "ended"}

\* The page on screen is one of the panel's own, or one of a model that answered.
PagesInv ==
  /\ site \in PageSites /\ granted \in PagePolicies
  /\ \/ page.path \in PlainPaths /\ page.slug = "-"
     \/ /\ page.path \in ModelPaths /\ page.slug \in DOMAIN site /\ page.what = "-"
        /\ Pages!Status(site, granted, page) = 200
  /\ page.what \in Whats /\ page = [path |-> page.path, slug |-> page.slug, what |-> page.what]

LEMMA PagesConstants ==
  /\ SystemPages \subseteq {"logs", "sql", "tasks"}
  /\ \A s \in PageSites : "-" \notin DOMAIN s
  BY AdminAssumption DEF Pages!AdminPagesAssumption

\* What a handler answers, by the model's flags and the operator's permissions.
LEMMA Resolved ==
  ASSUME NEW s, NEW g, NEW m, NEW action
  PROVE  Pages!ResolveAdmin(s, g, m, action) = 200 <=>
           m \in Pages!Visible(s, g) /\ Pages!Allows(s, g, m, action)
  BY DEF Pages!ResolveAdmin, Pages!Allows

\* The door of that path, model and name is open.
Answers(s, g, path, m, w) == Pages!Status(s, g, Pages!Door(path, m, w)) = 200
IsOpen(door) == Pages!Status(site, granted, door) = 200

LEMMA DoorParts ==
  \A path, m, w : LET door == Pages!Door(path, m, w)
                  IN door.path = path /\ door.slug = m /\ door.what = w
  BY DEF Pages!Door

LEMMA OpenDoor ==
  \A path, m, w : Answers(site, granted, path, m, w) <=> IsOpen(Pages!Door(path, m, w))
  BY DEF Answers, IsOpen

LEMMA StatusOfDoor ==
  ASSUME NEW s, NEW g, NEW m, m # "-", NEW w
  PROVE  /\ m \in Pages!Visible(s, g) => Pages!Allows(s, g, m, "view")
         /\ Answers(s, g, "list", m, w) <=> m \in Pages!Visible(s, g)
         /\ Answers(s, g, "detail", m, w) <=> m \in Pages!Visible(s, g)
         /\ Answers(s, g, "export", m, w) <=> m \in Pages!Visible(s, g)
         /\ Answers(s, g, "new", m, w) <=>
              m \in Pages!Visible(s, g) /\ Pages!Allows(s, g, m, "create")
         /\ Answers(s, g, "edit", m, w) <=>
              m \in Pages!Visible(s, g) /\ Pages!Allows(s, g, m, "edit")
         /\ Answers(s, g, "delete", m, w) <=>
              m \in Pages!Visible(s, g) /\ Pages!Allows(s, g, m, "delete")
         /\ Answers(s, g, "import", m, w) <=>
              m \in Pages!Visible(s, g) /\ Pages!Allows(s, g, m, "create") /\ s[m].canImport
         /\ Answers(s, g, "bulk", m, w) <=>
              m \in Pages!Visible(s, g) /\ Pages!BulkStatus(s, g, m, w) = 200
         /\ Answers(s, g, "inlines", m, w) <=>
              m \in Pages!Visible(s, g) /\ Pages!InlineStatus(s, g, m, w) = 200
         /\ Answers(s, g, "tick", m, w) <=>
              m \in Pages!Visible(s, g) /\ Pages!InlineStatus(s, g, m, w) = 200
         /\ Answers(s, g, "autocomplete", m, w) <=>
              m \in Pages!Visible(s, g) /\ w \in s[m].autocomplete
<1> DEFINE visible == m \in Pages!Visible(s, g)
           may(action) == Pages!Allows(s, g, m, action)
           resolved(path) == Pages!ResolveAdmin(s, g, m, Pages!PermissionOf(path)) = 200
<1>1. visible => may("view")
  BY DEF Pages!Visible
<1>2. ASSUME NEW path, path \notin {"autocomplete", "bulk", "import", "inlines", "tick"}
      PROVE  Answers(s, g, path, m, w) <=> resolved(path)
  BY <1>2, DoorParts DEF Answers, Pages!Status
<1>3. /\ resolved("new") <=> visible /\ may("create")
      /\ resolved("import") <=> visible /\ may("create")
      /\ resolved("edit") <=> visible /\ may("edit")
      /\ resolved("delete") <=> visible /\ may("delete")
      /\ \A path \in {"list", "detail", "export", "bulk", "inlines", "tick"} :
           resolved(path) <=> visible
  BY <1>1, Resolved DEF Pages!PermissionOf
<1>4. Answers(s, g, "import", m, w) <=> resolved("import") /\ s[m].canImport
  BY DoorParts DEF Answers, Pages!Status, Pages!ImportStatus
<1>5. Answers(s, g, "bulk", m, w) <=> resolved("bulk") /\ Pages!BulkStatus(s, g, m, w) = 200
  BY DoorParts DEF Answers, Pages!Status
<1>6. ASSUME NEW path \in {"inlines", "tick"}
      PROVE  Answers(s, g, path, m, w) <=>
               resolved(path) /\ Pages!InlineStatus(s, g, m, w) = 200
  BY DoorParts DEF Answers, Pages!Status
<1>7. Answers(s, g, "autocomplete", m, w) <=> visible /\ w \in s[m].autocomplete
  BY DoorParts DEF Answers, Pages!Status, Pages!AutocompleteStatus
<1>8. \A path \in {"list", "detail", "export", "new", "edit", "delete"} :
        Answers(s, g, path, m, w) <=> resolved(path)
  BY <1>2
<1> HIDE DEF resolved
<1> QED
  BY <1>1, <1>3, <1>4, <1>5, <1>6, <1>7, <1>8

LEMMA OwnPagesAnswer ==
  ASSUME NEW s, NEW g, NEW door, door.slug = "-", door.path # "autocomplete"
  PROVE  Pages!Status(s, g, door) = 200
  BY DEF Pages!Status

\* The doors of the pages, one kind of page at a time: each is open.
LEMMA VisibleModels ==
  ASSUME PagesInv, NEW m \in Pages!Visible(site, granted) PROVE m \in DOMAIN site /\ m # "-"
  BY PagesConstants DEF PagesInv, Pages!Visible

\* A door of a model that answers is open, whatever page it is on.
LEMMA SeenModel ==
  ASSUME PagesInv, NEW m \in Pages!Visible(site, granted), NEW w
  PROVE  /\ \A path \in {"list", "detail", "export"} : IsOpen(Pages!Door(path, m, w))
         /\ Pages!May(m, "create") => IsOpen(Pages!Door("new", m, w))
         /\ Pages!May(m, "create") /\ site[m].canImport => IsOpen(Pages!Door("import", m, w))
         /\ Pages!May(m, "edit") => IsOpen(Pages!Door("edit", m, w))
         /\ Pages!May(m, "delete") => IsOpen(Pages!Door("delete", m, w))
         /\ Pages!BulkStatus(site, granted, m, w) = 200 => IsOpen(Pages!Door("bulk", m, w))
         /\ Pages!InlineStatus(site, granted, m, w) = 200 =>
              IsOpen(Pages!Door("inlines", m, w)) /\ IsOpen(Pages!Door("tick", m, w))
         /\ w \in site[m].autocomplete => IsOpen(Pages!Door("autocomplete", m, w))
<1>1. m # "-"
  BY VisibleModels
<1> QED
  BY <1>1, StatusOfDoor, OpenDoor DEF Pages!May

LEMMA LayoutOpen ==
  ASSUME PagesInv, NEW door \in Pages!Layout PROVE IsOpen(door) /\ door.path # "tick"
<1>1. ASSUME NEW m \in Pages!Visible(site, granted), door = Pages!Door("list", m, "-")
      PROVE  IsOpen(door) /\ door.path # "tick"
  BY <1>1, SeenModel, DoorParts
<1>2. ASSUME NEW p \in {"dashboard", "logout"} \cup SystemPages, door = Pages!Door(p, "-", "-")
      PROVE  IsOpen(door) /\ door.path # "tick"
  <2>1. door.path = p /\ door.slug = "-"
    BY <1>2, DoorParts
  <2>2. p \notin {"tick", "autocomplete"}
    BY PagesConstants
  <2> QED
    BY <2>1, <2>2, OwnPagesAnswer DEF IsOpen
<1> QED
  BY <1>1, <1>2 DEF Pages!Layout

\* The model of a page of one is seen.
LEMMA ModelOfPage ==
  ASSUME PagesInv, page.path \in ModelPaths
  PROVE  /\ page.slug \in Pages!Visible(site, granted) /\ IsOpen(page)
         /\ page = Pages!Door(page.path, page.slug, "-")
         /\ page.path = "import" => site[page.slug].canImport
<1>1. page.path \notin PlainPaths
  BY DEF ModelPaths, PlainPaths
<1>2. /\ page.slug \in DOMAIN site /\ page.what = "-" /\ IsOpen(page)
      /\ page = Pages!Door(page.path, page.slug, "-")
  BY <1>1 DEF PagesInv, IsOpen, Pages!Door
<1>3. page.slug # "-"
  BY <1>2, PagesConstants DEF PagesInv
<1>4. Answers(site, granted, page.path, page.slug, "-")
  BY <1>2, OpenDoor
<1>5. page.path \in {"list", "new", "edit", "import", "detail"}
  BY DEF ModelPaths
<1>6. ASSUME NEW m, m # "-", NEW path \in {"list", "new", "edit", "import", "detail"},
             Answers(site, granted, path, m, "-")
      PROVE  m \in Pages!Visible(site, granted) /\ (path = "import" => site[m].canImport)
  BY <1>6, StatusOfDoor
<1> QED
  BY <1>2, <1>3, <1>4, <1>5, <1>6

LEMMA DashboardOpen ==
  ASSUME PagesInv, NEW door \in Pages!DashboardDoors PROVE IsOpen(door) /\ door.path # "tick"
<1>1. PICK m \in Pages!Visible(site, granted) :
        \/ door = Pages!Door("list", m, "-")
        \/ door = Pages!Door("new", m, "-") /\ Pages!May(m, "create")
  BY DEF Pages!DashboardDoors, Pages!Doors
<1> QED
  BY <1>1, SeenModel, DoorParts

LEMMA ListOpen ==
  ASSUME PagesInv, NEW m \in Pages!Visible(site, granted), NEW door \in Pages!ListDoors(m)
  PROVE  IsOpen(door) /\ door.path # "tick"
<1>1. \/ \E p \in {"detail", "export", "list"} : door = Pages!Door(p, m, "-")
      \/ door = Pages!Door("new", m, "-") /\ Pages!May(m, "create")
      \/ door = Pages!Door("import", m, "-") /\ Pages!May(m, "create") /\ site[m].canImport
      \/ \E a \in Pages!BulkActionsFor(site, m) :
           door = Pages!Door("bulk", m, a) /\ Pages!May(m, Pages!NeededFor(a))
  BY DEF Pages!ListDoors, Pages!Doors, Pages!PermittedBulkActions
<1>2. ASSUME NEW a \in Pages!BulkActionsFor(site, m), Pages!May(m, Pages!NeededFor(a))
      PROVE  Pages!BulkStatus(site, granted, m, a) = 200
  BY <1>2 DEF Pages!BulkStatus, Pages!May
<1>3. CASE \E p \in {"detail", "export", "list"} : door = Pages!Door(p, m, "-")
  BY <1>3, SeenModel, DoorParts
<1>4. CASE door = Pages!Door("new", m, "-") /\ Pages!May(m, "create")
  BY <1>4, SeenModel, DoorParts
<1>5. CASE door = Pages!Door("import", m, "-") /\ Pages!May(m, "create") /\ site[m].canImport
  BY <1>5, SeenModel, DoorParts
<1>6. CASE \E a \in Pages!BulkActionsFor(site, m) :
             door = Pages!Door("bulk", m, a) /\ Pages!May(m, Pages!NeededFor(a))
  BY <1>2, <1>6, SeenModel, DoorParts
<1> QED
  BY <1>1, <1>3, <1>4, <1>5, <1>6

LEMMA FormOpen ==
  ASSUME PagesInv, page.path \in {"new", "edit"}, NEW door \in Pages!FormDoors(page.slug, page.path)
  PROVE  IsOpen(door) /\ door.path # "tick"
<1>1. /\ page.slug \in Pages!Visible(site, granted) /\ IsOpen(page)
      /\ page = Pages!Door(page.path, page.slug, "-")
  BY ModelOfPage DEF ModelPaths
<1>2. \/ door = Pages!Door(page.path, page.slug, "-")
      \/ \E p \in {"detail", "list"} : door = Pages!Door(p, page.slug, "-")
      \/ \E f \in site[page.slug].autocomplete : door = Pages!Door("autocomplete", page.slug, f)
  BY DEF Pages!FormDoors
<1>3. CASE door = page
  BY <1>1, <1>3
<1>4. CASE \E p \in {"detail", "list"} : door = Pages!Door(p, page.slug, "-")
  BY <1>1, <1>4, SeenModel, DoorParts
<1>5. CASE \E f \in site[page.slug].autocomplete : door = Pages!Door("autocomplete", page.slug, f)
  BY <1>1, <1>5, SeenModel, DoorParts
<1> QED
  BY <1>1, <1>2, <1>3, <1>4, <1>5

LEMMA ImportOpen ==
  ASSUME PagesInv, page.path = "import", NEW door \in Pages!ImportDoors(page.slug)
  PROVE  IsOpen(door) /\ door.path # "tick"
<1>1. /\ page.slug \in Pages!Visible(site, granted) /\ IsOpen(page)
      /\ page = Pages!Door("import", page.slug, "-")
  BY ModelOfPage DEF ModelPaths
<1>2. door = page \/ door = Pages!Door("list", page.slug, "-")
  BY <1>1 DEF Pages!ImportDoors
<1> QED
  BY <1>1, <1>2, SeenModel, DoorParts

LEMMA DetailOpen ==
  ASSUME PagesInv, NEW m \in Pages!Visible(site, granted), NEW door \in Pages!DetailDoors(m)
  PROVE  IsOpen(door) /\ door.path # "tick"
<1>1. \/ door = Pages!Door("list", m, "-")
      \/ door = Pages!Door("edit", m, "-") /\ Pages!May(m, "edit")
      \/ door = Pages!Door("delete", m, "-") /\ Pages!May(m, "delete")
  BY DEF Pages!DetailDoors, Pages!Doors
<1> QED
  BY <1>1, SeenModel, DoorParts

\* What a block of children shows is open, but for links to a child that is not seen; and
\* its boxes do what the policy says.
LEMMA InlineOpen ==
  ASSUME PagesInv, NEW m \in Pages!Visible(site, granted), NEW i \in site[m].inlines,
         NEW door \in Pages!InlineDoors(m, i)
  PROVE  /\ IsOpen(door) \/ ~Pages!May(door.slug, "view")
         /\ door.path = "tick" =>
              (Pages!InlineDeletes(site, granted, door.slug, door.what) <=>
                 Pages!May(door.what, "delete"))
<1>1. \/ /\ door = Pages!Door("new", i.slug, "-") /\ i.slug \in DOMAIN site
         /\ Pages!May(i.slug, "create")
      \/ door = Pages!Door("detail", i.slug, "-") /\ i.slug \in DOMAIN site
      \/ door = Pages!Door("inlines", m, i.slug) /\ Pages!InlineEditable(i)
      \/ door = Pages!Door("tick", m, i.slug) /\ Pages!InlineEditable(i) /\ i.canDelete
  BY DEF Pages!InlineDoors, Pages!Doors
<1>2. Pages!InlineEditable(i) => Pages!InlineStatus(site, granted, m, i.slug) = 200
  BY DEF Pages!InlineEditable, Pages!InlineStatus, Pages!May
<1>3. i.slug \in DOMAIN site /\ Pages!May(i.slug, "view") =>
        i.slug \in Pages!Visible(site, granted)
  BY DEF Pages!Visible, Pages!May
<1>4. CASE door = Pages!Door("new", i.slug, "-") /\ i.slug \in DOMAIN site
             /\ Pages!May(i.slug, "create")
  BY <1>3, <1>4, SeenModel, DoorParts
<1>5. CASE door = Pages!Door("detail", i.slug, "-") /\ i.slug \in DOMAIN site
  BY <1>3, <1>5, SeenModel, DoorParts
<1>6. CASE door = Pages!Door("inlines", m, i.slug) /\ Pages!InlineEditable(i)
  BY <1>2, <1>6, SeenModel, DoorParts
<1>7. CASE door = Pages!Door("tick", m, i.slug) /\ Pages!InlineEditable(i) /\ i.canDelete
  <2>1. door.slug = m /\ door.what = i.slug /\ IsOpen(door)
    BY <1>2, <1>7, SeenModel, DoorParts
  <2>2. Pages!InlineDeletes(site, granted, m, i.slug) <=> Pages!May(i.slug, "delete")
    BY <1>2, <1>7 DEF Pages!InlineDeletes, Pages!May
  <2> QED
    BY <2>1, <2>2
<1> QED
  BY <1>1, <1>4, <1>5, <1>6, <1>7

LEMMA OwnDoorsOfPage ==
  /\ page.path = "dashboard" => Pages!OwnDoors = Pages!DashboardDoors
  /\ page.path = "list" => Pages!OwnDoors = Pages!ListDoors(page.slug)
  /\ page.path \in {"new", "edit"} => Pages!OwnDoors = Pages!FormDoors(page.slug, page.path)
  /\ page.path = "import" => Pages!OwnDoors = Pages!ImportDoors(page.slug)
  /\ page.path = "detail" =>
       Pages!OwnDoors = Pages!DetailDoors(page.slug) \cup Pages!InlinesOf(page.slug)
  /\ page.path = "tasks" => Pages!OwnDoors = Pages!TasksDoors
  /\ page.path = "task" => Pages!OwnDoors = Pages!TaskDoors(page.what)
  /\ page.path \in {"logs", "sql", "error", "login"} =>
       Pages!OwnDoors = {Pages!Door(page.path, "-", "-")}
  BY DEF Pages!OwnDoors

\* The door of a page of the panel's own.
OwnDoor(door) ==
  /\ door.path \in PlainPaths \cup {"logout", "cancel"} /\ door.what \in Whats
  /\ door = Pages!Door(door.path, "-", door.what)

\* The door of a page of a model, and of what is done to one.
ModelDoor(door) ==
  /\ door.path \in ModelPaths /\ door.slug \in DOMAIN site
  /\ door = Pages!Door(door.path, door.slug, "-")

DeedDoor(door) ==
  /\ door.path \in {"bulk", "delete", "inlines", "tick", "export", "autocomplete"}
  /\ door.slug \in Pages!Visible(site, granted)

KnownDoor(door) == OwnDoor(door) \/ ModelDoor(door) \/ DeedDoor(door)

LEMMA Known ==
  ASSUME PagesInv
  PROVE  /\ \A path \in PlainPaths \cup {"logout", "cancel"}, what \in Whats :
              OwnDoor(Pages!Door(path, "-", what))
         /\ \A path \in ModelPaths, m \in DOMAIN site : ModelDoor(Pages!Door(path, m, "-"))
         /\ \A m \in Pages!Visible(site, granted) : m \in DOMAIN site
         /\ \A path \in {"bulk", "delete", "inlines", "tick", "export", "autocomplete"},
               m \in Pages!Visible(site, granted) : \A what : DeedDoor(Pages!Door(path, m, what))
  BY DoorParts DEF OwnDoor, ModelDoor, DeedDoor, Pages!Visible

LEMMA LayoutKnown == ASSUME PagesInv, NEW door \in Pages!Layout PROVE KnownDoor(door)
<1>1. ASSUME NEW m \in Pages!Visible(site, granted), door = Pages!Door("list", m, "-")
      PROVE  KnownDoor(door)
  BY <1>1, Known DEF KnownDoor, ModelPaths
<1>2. ASSUME NEW p \in {"dashboard", "logout"} \cup SystemPages, door = Pages!Door(p, "-", "-")
      PROVE  KnownDoor(door)
  <2>1. p \in PlainPaths \cup {"logout"}
    BY PagesConstants DEF PlainPaths, Whats
  <2> QED
    BY <1>2, <2>1, Known DEF KnownDoor, Whats
<1> QED
  BY <1>1, <1>2 DEF Pages!Layout

LEMMA OwnDoorsKnown == ASSUME PagesInv, NEW door \in Pages!OwnDoors PROVE KnownDoor(door)
<1> DEFINE m == page.slug
<1>1. page.path \in ModelPaths => m \in Pages!Visible(site, granted)
                                   /\ page = Pages!Door(page.path, m, "-")
  BY ModelOfPage
<1>2. ASSUME page.path = "dashboard" PROVE KnownDoor(door)
  <2>1. PICK n \in Pages!Visible(site, granted) :
          door = Pages!Door("list", n, "-") \/ door = Pages!Door("new", n, "-")
    BY <1>2, OwnDoorsOfPage DEF Pages!DashboardDoors, Pages!Doors
  <2> QED
    BY <2>1, Known DEF KnownDoor, ModelPaths
<1>3. ASSUME page.path = "list" PROVE KnownDoor(door)
  <2>1. \/ \E p \in {"detail", "list", "new", "import"} : door = Pages!Door(p, m, "-")
        \/ \E p \in {"export", "bulk"} : \E what : door = Pages!Door(p, m, what)
    BY <1>3, OwnDoorsOfPage DEF Pages!ListDoors, Pages!Doors
  <2> HIDE DEF m
  <2> QED
    BY <1>1, <1>3, <2>1, Known DEF KnownDoor, ModelPaths
<1>4. ASSUME page.path \in {"new", "edit"} PROVE KnownDoor(door)
  <2>1. \/ \E p \in {"detail", "list", "new", "edit"} : door = Pages!Door(p, m, "-")
        \/ \E what : door = Pages!Door("autocomplete", m, what)
    BY <1>4, OwnDoorsOfPage DEF Pages!FormDoors
  <2> HIDE DEF m
  <2> QED
    BY <1>1, <1>4, <2>1, Known DEF KnownDoor, ModelPaths
<1>5. ASSUME page.path = "import" PROVE KnownDoor(door)
  <2>1. door = Pages!Door("import", m, "-") \/ door = Pages!Door("list", m, "-")
    BY <1>5, OwnDoorsOfPage DEF Pages!ImportDoors
  <2> HIDE DEF m
  <2> QED
    BY <1>1, <1>5, <2>1, Known DEF KnownDoor, ModelPaths
<1>6. ASSUME page.path = "detail" PROVE KnownDoor(door)
  <2>1. CASE door \in Pages!DetailDoors(m)
    <3>1. \E p \in {"list", "edit", "delete"} : door = Pages!Door(p, m, "-")
      BY <2>1 DEF Pages!DetailDoors, Pages!Doors
    <3> HIDE DEF m
    <3> QED
      BY <1>1, <1>6, <3>1, Known DEF KnownDoor, ModelPaths
  <2>2. CASE door \in Pages!InlinesOf(m)
    <3>1. PICK i \in site[m].inlines : door \in Pages!InlineDoors(m, i)
      BY <2>2 DEF Pages!InlinesOf
    <3>2. \/ \E p \in {"new", "detail"} : door = Pages!Door(p, i.slug, "-")
                                            /\ i.slug \in DOMAIN site
          \/ \E p \in {"inlines", "tick"} : door = Pages!Door(p, m, i.slug)
      BY <3>1 DEF Pages!InlineDoors, Pages!Doors
    <3> HIDE DEF m
    <3> QED
      BY <1>1, <1>6, <3>2, Known DEF KnownDoor, ModelPaths
  <2> QED
    BY <1>6, <2>1, <2>2, OwnDoorsOfPage
<1>7. ASSUME page.path \in PlainPaths, page.path # "dashboard" PROVE KnownDoor(door)
  <2>1. \E p \in PlainPaths \cup {"cancel"}, what \in Whats : door = Pages!Door(p, "-", what)
    BY <1>7, OwnDoorsOfPage DEF Pages!TasksDoors, Pages!TaskDoors, Pages!Doors, PlainPaths, Whats
  <2> QED
    BY <2>1, Known DEF KnownDoor
<1> QED
  BY <1>2, <1>3, <1>4, <1>5, <1>6, <1>7 DEF PagesInv, ModelPaths

\* Where a door that is open leads.
LEMMA Landing ==
  ASSUME PagesInv, NEW door, KnownDoor(door), IsOpen(door)
  PROVE  LET to == Pages!LandsOn(door)
         IN \/ to = page
            \/ OwnDoor(to) /\ to.path \in PlainPaths \cup {"logout"}
            \/ ModelDoor(to) /\ IsOpen(to)
<1>1. CASE OwnDoor(door)
  <2>1. CASE door.path = "cancel"
    <3>1. Pages!LandsOn(door) = Pages!Door("task", "-", "ended")
      BY <2>1 DEF Pages!LandsOn
    <3>2. OwnDoor(Pages!Door("task", "-", "ended")) /\ Pages!Door("task", "-", "ended").path = "task"
      BY Known, DoorParts DEF PlainPaths, Whats
    <3> QED
      BY <3>1, <3>2 DEF PlainPaths
  <2>2. CASE door.path # "cancel"
    <3>1. Pages!LandsOn(door) = door
      BY <1>1, <2>2 DEF Pages!LandsOn, OwnDoor, PlainPaths
    <3> QED
      BY <1>1, <2>2, <3>1 DEF OwnDoor
  <2> QED
    BY <2>1, <2>2
<1>2. CASE ModelDoor(door)
  <2>1. Pages!LandsOn(door) = door
    BY <1>2 DEF Pages!LandsOn, ModelDoor, ModelPaths
  <2> QED
    BY <1>2, <2>1
<1>3. CASE DeedDoor(door)
  <2>1. \/ Pages!LandsOn(door) = page
        \/ \E p \in {"list", "detail"} : Pages!LandsOn(door) = Pages!Door(p, door.slug, "-")
    BY <1>3 DEF Pages!LandsOn, DeedDoor
  <2>2. door.slug \in Pages!Visible(site, granted)
    BY <1>3 DEF DeedDoor
  <2> QED
    BY <2>1, <2>2, Known, SeenModel DEF ModelPaths
<1> QED
  BY <1>1, <1>2, <1>3 DEF KnownDoor

LEMMA PagesInit == Pages!WalkInit => PagesInv
<1> SUFFICES ASSUME Pages!WalkInit PROVE PagesInv
  OBVIOUS
<1>1. /\ site \in PageSites /\ granted \in PagePolicies
      /\ page = [path |-> "dashboard", slug |-> "-", what |-> "-"]
  BY DEF Pages!WalkInit, Pages!Door
<1> QED
  BY <1>1 DEF PagesInv, PlainPaths, Whats

\* A page that was landed on.
LEMMA LandedOn ==
  ASSUME PagesInv, UNCHANGED <<site, granted>>, NEW to, page' = to,
         \/ OwnDoor(to) /\ to.path \in PlainPaths
         \/ ModelDoor(to) /\ IsOpen(to)
  PROVE  PagesInv'
<1>1. CASE OwnDoor(to) /\ to.path \in PlainPaths
  <2>1. to = [path |-> to.path, slug |-> "-", what |-> to.what] /\ to.what \in Whats
    BY <1>1 DEF OwnDoor, Pages!Door
  <2> QED
    BY <1>1, <2>1 DEF PagesInv
<1>2. CASE ModelDoor(to) /\ IsOpen(to)
  <2>1. /\ to = [path |-> to.path, slug |-> to.slug, what |-> "-"]
        /\ to.path \in ModelPaths /\ to.slug \in DOMAIN site
        /\ Pages!Status(site, granted, to) = 200
    BY <1>2 DEF ModelDoor, IsOpen, Pages!Door
  <2>2. page'.path = to.path /\ page'.slug = to.slug /\ page'.what = "-"
    BY <2>1
  <2> QED
    BY <2>1, <2>2 DEF PagesInv, Whats
<1> QED
  BY <1>1, <1>2

LEMMA PagesStay == ASSUME PagesInv, UNCHANGED pages PROVE PagesInv'
  BY DEF PagesInv, pages

LEMMA PagesStep == ASSUME PagesInv, Pages!WalkNext PROVE PagesInv'
<1>1. \A p \in PlainPaths : OwnDoor(Pages!Door(p, "-", "-")) /\ Pages!Door(p, "-", "-").path = p
  BY Known, DoorParts DEF Whats
<1>2. ASSUME NEW door \in Pages!PageDoors, door.path # "logout", Pages!Follow(door)
      PROVE  PagesInv'
  <2>1. KnownDoor(door) /\ UNCHANGED <<site, granted>>
    BY <1>2, LayoutKnown, OwnDoorsKnown DEF Pages!PageDoors, Pages!Follow
  <2>2. CASE IsOpen(door)
    <3>1. page' = Pages!LandsOn(door)
      BY <1>2, <2>2 DEF Pages!Follow, IsOpen
    <3>2. Pages!LandsOn(door).path # "logout" \/ Pages!LandsOn(door) = page
      BY <1>2 DEF Pages!LandsOn, Pages!Door
    <3>3. CASE Pages!LandsOn(door) = page
      BY <2>1, <3>1, <3>3, PagesStay DEF pages
    <3>4. CASE Pages!LandsOn(door) # page
      BY <2>1, <2>2, <3>1, <3>2, <3>4, Landing, LandedOn
    <3> QED
      BY <3>3, <3>4
  <2>3. CASE ~IsOpen(door)
    <3>1. page' = Pages!Door("error", "-", "-")
      BY <1>2, <2>3 DEF Pages!Follow, IsOpen
    <3> QED
      BY <1>1, <2>1, <3>1, LandedOn DEF PlainPaths, Whats
  <2> QED
    BY <2>2, <2>3
<1>3. ASSUME Pages!SignOut \/ Pages!SignIn PROVE PagesInv'
  <2>1. /\ UNCHANGED <<site, granted>>
        /\ \E p \in {"login", "dashboard"} : page' = Pages!Door(p, "-", "-")
    BY <1>3 DEF Pages!SignOut, Pages!SignIn
  <2> QED
    BY <1>1, <2>1, LandedOn DEF PlainPaths, Whats
<1> QED
  BY <1>2, <1>3 DEF Pages!WalkNext

LEMMA PageTyped == PagesInv => Pages!WalkTypeOK
<1> SUFFICES ASSUME PagesInv PROVE Pages!WalkTypeOK
  OBVIOUS
<1>1. /\ page.path \in PlainPaths \cup ModelPaths
      /\ page.slug \in DOMAIN site \cup {"-"} /\ page.what \in Whats
      /\ page = [path |-> page.path, slug |-> page.slug, what |-> page.what]
  BY DEF PagesInv
<1>2. PlainPaths \cup ModelPaths =
        {"dashboard", "logs", "sql", "tasks", "task", "error", "login",
         "list", "new", "edit", "import", "detail"}
  BY DEF PlainPaths, ModelPaths
<1> HIDE DEF PlainPaths, ModelPaths
<1> QED
  BY <1>1, <1>2 DEF Pages!WalkTypeOK, PagesInv, Whats

\* What a page of the panel's own shows is open.
LEMMA PlainOpen ==
  ASSUME PagesInv, page.path \in PlainPaths, NEW door \in Pages!OwnDoors
  PROVE  IsOpen(door) /\ door.path # "tick"
<1>1. CASE page.path = "dashboard"
  BY <1>1, OwnDoorsOfPage, DashboardOpen
<1>2. CASE page.path # "dashboard"
  <2>1. \E p \in PlainPaths \cup {"cancel"}, what \in Whats : door = Pages!Door(p, "-", what)
    BY <1>2, OwnDoorsOfPage DEF Pages!TasksDoors, Pages!TaskDoors, Pages!Doors, PlainPaths, Whats
  <2>2. door.slug = "-" /\ door.path \in PlainPaths \cup {"cancel"}
    BY <2>1, DoorParts
  <2>3. door.path \notin {"autocomplete", "tick"}
    BY <2>2 DEF PlainPaths
  <2> QED
    BY <2>2, <2>3, OwnPagesAnswer DEF IsOpen
<1> QED
  BY <1>1, <1>2

LEMMA PagesOpen == PagesInv => Pages!DoorsOpen
<1> SUFFICES ASSUME PagesInv, NEW door \in Pages!PageDoors
             PROVE  /\ \/ IsOpen(door)
                       \/ /\ page.path = "detail" /\ door \in Pages!InlinesOf(page.slug)
                          /\ ~Pages!May(door.slug, "view")
                    /\ door.path = "tick" =>
                         (Pages!InlineDeletes(site, granted, door.slug, door.what) <=>
                            Pages!May(door.what, "delete"))
  BY DEF Pages!DoorsOpen, IsOpen
<1>1. page.path \in ModelPaths => page.slug \in Pages!Visible(site, granted)
  BY ModelOfPage
<1>2. CASE door \in Pages!Layout
  BY <1>2, LayoutOpen
<1>3. CASE door \in Pages!OwnDoors
  <2>1. CASE page.path \in PlainPaths
    BY <1>3, <2>1, PlainOpen
  <2>2. CASE page.path = "list"
    BY <1>1, <1>3, <2>2, OwnDoorsOfPage, ListOpen DEF ModelPaths
  <2>3. CASE page.path \in {"new", "edit"}
    BY <1>3, <2>3, OwnDoorsOfPage, FormOpen
  <2>4. CASE page.path = "import"
    BY <1>3, <2>4, OwnDoorsOfPage, ImportOpen
  <2>5. CASE page.path = "detail"
    <3>1. CASE door \in Pages!DetailDoors(page.slug)
      BY <1>1, <2>5, <3>1, DetailOpen DEF ModelPaths
    <3>2. CASE door \in Pages!InlinesOf(page.slug)
      <4>1. PICK i \in site[page.slug].inlines : door \in Pages!InlineDoors(page.slug, i)
        BY <3>2 DEF Pages!InlinesOf
      <4> QED
        BY <1>1, <2>5, <3>2, <4>1, InlineOpen DEF ModelPaths
    <3> QED
      BY <1>3, <2>5, <3>1, <3>2, OwnDoorsOfPage
  <2> QED
    BY <2>1, <2>2, <2>3, <2>4, <2>5 DEF PagesInv, ModelPaths
<1> QED
  BY <1>2, <1>3 DEF Pages!PageDoors

\* An operation of a model that answers is among the doors of its page.
LEMMA Offered ==
  ASSUME PagesInv, page.path \in {"list", "detail"},
         NEW d, IsOpen(d), d = Pages!Door(d.path, page.slug, d.what),
         \/ page.path = "list" /\ d.path \in {"new", "import", "bulk", "export"}
         \/ page.path = "detail" /\ d.path \in {"edit", "delete", "inlines"},
         d.path \notin {"bulk", "inlines"} => d.what = "-"
  PROVE  d \in Pages!PageDoors
<1> PICK m : m = page.slug
  OBVIOUS
<1>1. m \in Pages!Visible(site, granted) /\ m # "-"
  BY ModelOfPage, VisibleModels DEF ModelPaths
<1>2. Answers(site, granted, d.path, m, d.what)
  BY OpenDoor
<1>3. CASE page.path = "list"
  <2>1. CASE d.path = "new"
    <3>1. Pages!May(m, "create")
      BY <1>1, <1>2, <2>1, StatusOfDoor DEF Pages!May
    <3> QED
      BY <1>3, <2>1, <3>1, OwnDoorsOfPage DEF Pages!PageDoors, Pages!ListDoors, Pages!Doors
  <2>2. CASE d.path = "import"
    <3>1. Pages!May(m, "create") /\ site[m].canImport
      BY <1>1, <1>2, <2>2, StatusOfDoor DEF Pages!May
    <3> QED
      BY <1>3, <2>2, <3>1, OwnDoorsOfPage DEF Pages!PageDoors, Pages!ListDoors, Pages!Doors
  <2>3. CASE d.path = "bulk"
    <3>1. Pages!BulkStatus(site, granted, m, d.what) = 200
      BY <1>1, <1>2, <2>3, StatusOfDoor
    <3>2. d.what \in Pages!PermittedBulkActions(m)
      BY <3>1 DEF Pages!BulkStatus, Pages!PermittedBulkActions, Pages!May
    <3> QED
      BY <1>3, <2>3, <3>2, OwnDoorsOfPage DEF Pages!PageDoors, Pages!ListDoors
  <2>4. CASE d.path = "export"
    BY <1>3, <2>4, OwnDoorsOfPage DEF Pages!PageDoors, Pages!ListDoors
  <2> QED
    BY <1>3, <2>1, <2>2, <2>3, <2>4
<1>4. CASE page.path = "detail"
  <2>1. CASE d.path \in {"edit", "delete"}
    <3>1. Pages!May(m, d.path)
      BY <1>1, <1>2, <2>1, StatusOfDoor DEF Pages!May
    <3> QED
      BY <1>4, <2>1, <3>1, OwnDoorsOfPage DEF Pages!PageDoors, Pages!DetailDoors, Pages!Doors
  <2>2. CASE d.path = "inlines"
    <3>1. Pages!InlineStatus(site, granted, m, d.what) = 200
      BY <1>1, <1>2, <2>2, StatusOfDoor
    <3>2. PICK i \in site[m].inlines : i.slug = d.what /\ Pages!InlineEditable(i)
      BY <3>1 DEF Pages!InlineStatus, Pages!InlineEditable, Pages!May
    <3>3. d \in Pages!InlineDoors(m, i)
      BY <2>2, <3>2 DEF Pages!InlineDoors, Pages!Doors
    <3> QED
      BY <1>4, <3>2, <3>3, OwnDoorsOfPage DEF Pages!PageDoors, Pages!InlinesOf
  <2> QED
    BY <1>4, <2>1, <2>2
<1> QED
  BY <1>3, <1>4

LEMMA NothingHides == PagesInv => Pages!NothingHidden
<1> SUFFICES ASSUME PagesInv PROVE Pages!NothingHidden
  OBVIOUS
<1>1. ASSUME NEW paths, NEW d \in Pages!Answering(paths)
      PROVE  /\ d.path \in paths /\ d = Pages!Door(d.path, page.slug, d.what) /\ IsOpen(d)
             /\ d.path \notin {"bulk", "inlines"} => d.what = "-"
  <2> PICK whats : d \in [path : paths, slug : {page.slug}, what : whats]
    BY DEF Pages!Answering
  <2> QED
    BY DEF Pages!Answering, Pages!Door, IsOpen
<1>2. ASSUME page.path = "list", NEW d \in Pages!Answering({"new", "import", "bulk", "export"})
      PROVE  d \in Pages!PageDoors
  <2>1. /\ d.path \in {"new", "import", "bulk", "export"} /\ IsOpen(d)
        /\ d = Pages!Door(d.path, page.slug, d.what)
        /\ d.path \notin {"bulk", "inlines"} => d.what = "-"
    BY <1>1, <1>2
  <2> QED
    BY <1>2, <2>1, Offered
<1>3. ASSUME page.path = "detail", NEW d \in Pages!Answering({"edit", "delete", "inlines"})
      PROVE  d \in Pages!PageDoors
  <2>1. /\ d.path \in {"edit", "delete", "inlines"} /\ IsOpen(d)
        /\ d = Pages!Door(d.path, page.slug, d.what)
        /\ d.path \notin {"bulk", "inlines"} => d.what = "-"
    BY <1>1, <1>3
  <2> QED
    BY <1>3, <2>1, Offered
<1> QED
  BY <1>2, <1>3 DEF Pages!NothingHidden

-----------------------------------------------------------------------------
(* What the panel is configured with (AdminPages)                          *)

\* What a page of the panel was accepted with, or mapped to.
Accepted(s, o) ==
  /\ Pages!Slug(o) = s /\ o.model \in DOMAIN ModelColumns
  /\ o.uploads # {} => o.storage
  /\ o.named \cup o.readonly \cup o.uploads \cup ({o.ordering} \ {Off})
       \subseteq ModelColumns[o.model]

SiteInv ==
  /\ Pages!SiteTypeOK
  /\ \A s \in DOMAIN registry : Accepted(s, registry[s])

LEMMA SiteConstants ==
  /\ \A o \in ModelOptions : o.model \in DOMAIN ModelColumns
  /\ \A a \in AutomapCalls : \A i \in DOMAIN a.tables : a.tables[i] \in DOMAIN ModelColumns
  BY AdminAssumption DEF Pages!AdminPagesAssumption

LEMMA SiteInit == Pages!SiteInit => SiteInv
  BY DEF Pages!SiteInit, SiteInv, Pages!SiteTypeOK

LEMMA SiteStays == ASSUME SiteInv, UNCHANGED config PROVE SiteInv'
  BY DEF SiteInv, Pages!SiteTypeOK, config

LEMMA PlainIsAccepted ==
  ASSUME NEW name \in DOMAIN ModelColumns PROVE Accepted(name, Pages!Plain(name))
  BY DEF Accepted, Pages!Plain, Pages!Slug

LEMMA SiteStep == ASSUME SiteInv, Pages!SiteNext PROVE SiteInv'
<1>1. DOMAIN registry \subseteq Pages!Slugs /\ \A s \in DOMAIN registry : Accepted(s, registry[s])
  BY DEF SiteInv, Pages!SiteTypeOK
<1>2. ASSUME NEW o \in ModelOptions, Pages!Register(o) PROVE SiteInv'
  <2>1. CASE Pages!Acceptable(o) /\ Pages!Slug(o) \notin DOMAIN registry
    <3>1. registry' = Pages!Add(registry, o) /\ threw' = FALSE
      BY <1>2, <2>1 DEF Pages!Register
    <3>2. Accepted(Pages!Slug(o), o)
      BY <2>1, SiteConstants DEF Accepted, Pages!Acceptable
    <3>3. Pages!Slug(o) \in Pages!Slugs
      BY DEF Pages!Slugs
    <3>4. /\ DOMAIN registry' = DOMAIN registry \cup {Pages!Slug(o)}
          /\ \A s \in DOMAIN registry' :
               registry'[s] = IF s = Pages!Slug(o) THEN o ELSE registry[s]
      BY <3>1 DEF Pages!Add
    <3> QED
      BY <1>1, <3>1, <3>2, <3>3, <3>4 DEF SiteInv, Pages!SiteTypeOK
  <2>2. CASE UNCHANGED registry /\ threw' = TRUE
    BY <1>1, <2>2 DEF SiteInv, Pages!SiteTypeOK
  <2> QED
    BY <1>2, <2>1, <2>2 DEF Pages!Register
<1>3. ASSUME NEW slug, Pages!Unregister(slug) PROVE SiteInv'
  <2>1. /\ DOMAIN registry' = DOMAIN registry \ {slug} /\ threw' \in BOOLEAN
        /\ \A s \in DOMAIN registry' : registry'[s] = registry[s]
    BY <1>3 DEF Pages!Unregister
  <2> QED
    BY <1>1, <2>1 DEF SiteInv, Pages!SiteTypeOK
<1>4. ASSUME NEW call \in AutomapCalls, Pages!Automap(call) PROVE SiteInv'
  <2>1. PICK added \in SUBSET {call.tables[i] : i \in DOMAIN call.tables} :
          registry' = [s \in DOMAIN registry \cup added |->
                         IF s \in added THEN Pages!Plain(s) ELSE registry[s]]
    BY <1>4 DEF Pages!Automap
  <2>2. threw' \in BOOLEAN
    BY <1>4 DEF Pages!Automap
  <2>3. added \subseteq DOMAIN ModelColumns /\ DOMAIN ModelColumns \subseteq Pages!Slugs
    BY <2>1, SiteConstants DEF Pages!Slugs
  <2>4. /\ DOMAIN registry' = DOMAIN registry \cup added
        /\ \A s \in DOMAIN registry' :
             registry'[s] = IF s \in added THEN Pages!Plain(s) ELSE registry[s]
    BY <2>1
  <2>5. \A s \in DOMAIN registry' : Accepted(s, registry'[s])
    BY <1>1, <2>3, <2>4, PlainIsAccepted
  <2> QED
    BY <1>1, <2>2, <2>3, <2>4, <2>5 DEF SiteInv, Pages!SiteTypeOK
<1> QED
  BY <1>2, <1>3, <1>4 DEF Pages!SiteNext

LEMMA AcceptedIsSound ==
  ASSUME NEW s, NEW o, Accepted(s, o)
  PROVE  LET known == ModelColumns[o.model] IN
         /\ Pages!Slug(o) = s
         /\ Pages!Listed(o) \cup Pages!Editable(o) \cup Pages!Detailed(o)
              \cup ({Pages!OrderKey(o)} \ {Off}) \subseteq known
         /\ Pages!Editable(o) \cap (NeverEditable \cup o.readonly) = {}
         /\ Pages!Listed(o) \cap NeverListed \subseteq o.named
         /\ Pages!Stamped(o) \cap Pages!Detailed(o) = {}
         /\ o.uploads # {} => o.storage
<1>1. Pages!Listed(o) \subseteq ModelColumns[o.model]
      /\ Pages!Listed(o) \cap NeverListed \subseteq o.named
  BY DEF Accepted, Pages!Listed
<1>2. {Pages!OrderKey(o)} \ {Off} \subseteq ModelColumns[o.model]
  BY DEF Accepted, Pages!OrderKey
<1>3. /\ Pages!Editable(o) \cup Pages!Detailed(o) \subseteq ModelColumns[o.model]
      /\ Pages!Editable(o) \cap (NeverEditable \cup o.readonly) = {}
      /\ Pages!Stamped(o) \cap Pages!Detailed(o) = {}
  BY DEF Pages!Editable, Pages!Detailed, Pages!Stamped
<1> QED
  BY <1>1, <1>2, <1>3 DEF Accepted

LEMMA SiteIsSound == SiteInv => Pages!SiteTypeOK /\ Pages!PagesAreSound
  BY AcceptedIsSound DEF SiteInv, Pages!PagesAreSound

-----------------------------------------------------------------------------
(* What a frontend reads of the JSON panel (AdminViews)                    *)

Sources == [ops : SUBSET Views!Operations, ids : SUBSET ResourceIds]
Replies ==
  [status : {0, 200, 404, 405}, op : Views!Operations \cup {"none", "get", "meta"},
   id : ResourceIds \cup {"none"}]
Clients ==
  [name : Resources \cup {"none"}, ops : SUBSET Views!Operations, ids : SUBSET ResourceIds,
   reply : Replies]

\* A frontend that has read what a resource can do is right about it, and so is its list.
ClientIsRight ==
  /\ resources \in [Resources -> Sources] /\ client \in Clients
  /\ client.name # "none" =>
       /\ client.ops = resources[client.name].ops
       /\ client.ids \subseteq resources[client.name].ids

ViewsInv == ClientIsRight /\ Views!MetaIsTrue

LEMMA ViewsBegin == ViewsInit => ViewsInv
<1> SUFFICES ASSUME ViewsInit PROVE ViewsInv
  OBVIOUS
<1>1. /\ resources \in [Resources -> Sources]
      /\ client = [name |-> "none", ops |-> {}, ids |-> {}, reply |-> Views!NoReply]
  <2>1. Views!JsonInit
    BY DEF ViewsInit, Views!Init
  <2> QED
    BY <2>1 DEF Views!JsonInit, Sources
<1>2. Views!NoReply \in Replies /\ Views!NoReply.op = "none"
  BY DEF Views!NoReply, Replies
<1>3. "none" \notin Views!Operations
  BY DEF Views!Operations
<1> QED
  BY <1>1, <1>2, <1>3 DEF ViewsInv, ClientIsRight, Clients, Views!MetaIsTrue

LEMMA ViewsStay == ASSUME ViewsInv, UNCHANGED <<resources, client>> PROVE ViewsInv'
  BY DEF ViewsInv, ClientIsRight, Views!MetaIsTrue

\* An answer leaves what a frontend has read, but for the record it removed.
LEMMA Replied ==
  ASSUME ViewsInv, NEW status \in {200, 404, 405}, NEW op \in Views!Operations \cup {"get", "meta"},
         NEW id \in ResourceIds, Views!Reply(status, op, id)
  PROVE  /\ client' \in Clients /\ client'.name = client.name /\ client'.ops = client.ops
         /\ client'.ids = IF op = "remove" /\ status = 200 THEN client.ids \ {id} ELSE client.ids
         /\ client'.reply.status = status /\ client'.reply.op = op /\ client'.reply.id = id
<1>1. client \in Clients
  BY DEF ViewsInv, ClientIsRight
<1>2. [status |-> status, op |-> op, id |-> id] \in Replies
  BY DEF Replies
<1>3. (IF op = "remove" /\ status = 200 THEN client.ids \ {id} ELSE client.ids)
        \in SUBSET ResourceIds
  BY <1>1 DEF Clients
<1>4. client' \in Clients
  BY <1>1, <1>2, <1>3 DEF Clients, Views!Reply
<1> QED
  BY <1>4 DEF Views!Reply

LEMMA RepliedToRead ==
  ASSUME ViewsInv, NEW status \in {200, 404, 405}, NEW op \in {"get", "meta"},
         NEW id \in ResourceIds, Views!Reply(status, op, id)
  PROVE  /\ client' \in Clients /\ client'.name = client.name /\ client'.ops = client.ops
         /\ client'.ids = client.ids
         /\ client'.reply.status = status /\ client'.reply.op = op /\ client'.reply.id = id
<1>1. op \in Views!Operations \cup {"get", "meta"} /\ op # "remove"
  OBVIOUS
<1>2. client' \in Clients
  BY <1>1, Replied
<1> QED
  BY <1>1, <1>2 DEF Views!Reply

LEMMA JsonStep == ASSUME ViewsInv, Views!JsonNext PROVE ViewsInv'
<1>1. /\ resources \in [Resources -> Sources] /\ client \in Clients
      /\ client.name # "none" =>
           /\ client.ops = resources[client.name].ops
           /\ client.ids \subseteq resources[client.name].ids
  BY DEF ViewsInv, ClientIsRight
<1>2. Views!NoReply \in Replies /\ Views!NoReply.op \notin Views!Operations \cup {"get", "meta"}
  BY DEF Views!NoReply, Views!Operations, Replies
<1>3. ASSUME NEW name \in Resources, Views!Meta(name) PROVE ViewsInv'
  <2>1. /\ resources' = resources
        /\ client' = [name |-> name, ops |-> resources[name].ops, ids |-> {},
                      reply |-> Views!NoReply]
    BY <1>3 DEF Views!Meta
  <2> QED
    BY <1>1, <1>2, <2>1 DEF ViewsInv, ClientIsRight, Views!MetaIsTrue, Clients, Sources
<1>4. ASSUME Views!List PROVE ViewsInv'
  <2>1. /\ resources' = resources /\ client.name # "none"
        /\ client' = [name |-> client.name, ops |-> client.ops,
                      ids |-> resources[client.name].ids, reply |-> Views!NoReply]
    BY <1>1, <1>4 DEF Views!List, Clients
  <2> QED
    BY <1>1, <1>2, <2>1 DEF ViewsInv, ClientIsRight, Views!MetaIsTrue, Clients, Sources
<1>5. ASSUME NEW id \in ResourceIds, Views!Get(id) PROVE ViewsInv'
  <2>1. /\ client.name # "none" /\ resources' = resources
        /\ \/ Views!Reply(200, "meta", id) /\ id = "_meta"
           \/ Views!Reply(200, "get", id)
           \/ Views!Reply(404, "get", id) /\ id \notin resources[client.name].ids
    BY <1>5 DEF Views!Get
  <2>2. /\ client' \in Clients /\ client'.name = client.name /\ client'.ops = client.ops
        /\ client'.ids = client.ids /\ client'.reply.id = id
        /\ \/ client'.reply.op = "meta" /\ id = "_meta"
           \/ client'.reply.op = "get" /\ client'.reply.status = 200
           \/ client'.reply.op = "get" /\ id \notin resources[client.name].ids
    <3>1. CASE Views!Reply(200, "meta", id) /\ id = "_meta"
      BY <1>5, <3>1, RepliedToRead
    <3>2. CASE Views!Reply(200, "get", id)
      BY <1>5, <3>2, RepliedToRead
    <3>3. CASE Views!Reply(404, "get", id) /\ id \notin resources[client.name].ids
      BY <1>5, <3>3, RepliedToRead
    <3> QED
      BY <2>1, <3>1, <3>2, <3>3
  <2>3. {"get", "meta"} \cap Views!Operations = {}
    BY DEF Views!Operations
  <2> QED
    BY <1>1, <2>1, <2>2, <2>3 DEF ViewsInv, ClientIsRight, Views!MetaIsTrue
<1>6. ASSUME NEW op \in Views!Operations, NEW id \in ResourceIds, Views!Call(op, id) PROVE ViewsInv'
  <2>1. op \notin {"get", "meta"} /\ client.name # "none"
    BY <1>6 DEF Views!Operations, Views!Call
  <2>2. CASE op \notin resources[client.name].ops
    <3>1. Views!Reply(405, op, id) /\ resources' = resources
      BY <1>6, <2>2 DEF Views!Call
    <3>2. /\ client' \in Clients /\ client'.name = client.name /\ client'.ops = client.ops
          /\ client'.ids = client.ids /\ client'.reply.status = 405
          /\ client'.reply.op = op /\ client'.reply.id = id
      BY <3>1, Replied
    <3> QED
      BY <1>1, <2>1, <2>2, <3>1, <3>2 DEF ViewsInv, ClientIsRight, Views!MetaIsTrue
  <2>3. CASE op \in resources[client.name].ops
    <3>1. Views!Reply(200, op, id)
      BY <1>6, <2>3 DEF Views!Call
    <3>2. PICK left \in SUBSET ResourceIds :
            /\ resources' = [resources EXCEPT ![client.name].ids = left]
            /\ (IF op = "remove" THEN client.ids \ {id} ELSE client.ids) \subseteq left
      <4> DEFINE old == resources[client.name].ids
                 new == IF op = "create" THEN old \cup {id}
                        ELSE IF op = "remove" THEN old \ {id} ELSE old
      <4>1. resources' = [resources EXCEPT ![client.name].ids = new]
        BY <1>6, <2>3 DEF Views!Call
      <4>2. new \in SUBSET ResourceIds
        BY <1>1, <2>1 DEF Sources, Clients
      <4> QED
        BY <1>1, <2>1, <4>1, <4>2
    <3>3. /\ resources' \in [Resources -> Sources]
          /\ resources'[client.name].ops = resources[client.name].ops
          /\ resources'[client.name].ids = left
      BY <1>1, <2>1, <3>2 DEF Sources, Clients
    <3>4. /\ client' \in Clients /\ client'.name = client.name /\ client'.ops = client.ops
          /\ client'.ids = IF op = "remove" THEN client.ids \ {id} ELSE client.ids
          /\ client'.reply.status = 200 /\ client'.reply.op = op /\ client'.reply.id = id
      BY <3>1, Replied
    <3> QED
      BY <1>1, <2>1, <2>3, <3>2, <3>3, <3>4 DEF ViewsInv, ClientIsRight, Views!MetaIsTrue
  <2> QED
    BY <2>2, <2>3
<1> QED
  BY <1>3, <1>4, <1>5, <1>6 DEF Views!JsonNext

LEMMA ViewsStep == ASSUME ViewsInv, ViewsNext PROVE ViewsInv'
<1>1. CASE Views!JsonNext
  BY <1>1, JsonStep
<1>2. CASE Views!LogsNext
  BY <1>2, ViewsStay DEF Views!LogsNext, Views!Record, Views!OpenLogs, Views!ExportLogs, Views!json
<1>3. CASE Views!PickerNext
  BY <1>3, ViewsStay DEF Views!PickerNext, Views!Type, Views!Ask, Views!Answered, Views!Pick,
     Views!Blur, Views!Change, Views!json
<1>4. CASE Views!Dashboard
  BY <1>4, ViewsStay DEF Views!Dashboard, Views!json
<1> QED
  BY <1>1, <1>2, <1>3, <1>4 DEF ViewsNext

-----------------------------------------------------------------------------
(* The parts together                                                      *)

LEMMA FormsetInvariant == MCSpec => [](part = "formset" => FormsetInv)
<1> DEFINE Inv == part = "formset" => FormsetInv
<1>1. MCInit => Inv
  BY FormsetInit DEF MCInit
<1>2. Inv /\ [MCNext]_<<part, vars, others>> => Inv'
  <2> SUFFICES ASSUME Inv, [MCNext]_<<part, vars, others>>, part' = "formset" PROVE FormsetInv'
    OBVIOUS
  <2>1. part = "formset" /\ FormsetInv
    BY DEF MCNext
  <2>2. CASE UNCHANGED formset
    BY <2>1, <2>2, FormsetStays
  <2>3. CASE FormsetNext
    <3>1. FormsetTypes' /\ KeysAreKnown' /\ LeftIsTaken' /\ WorkedOffIsKept'
      BY <2>1, <2>3, FormsetTypesStep, KeysAreKnownStep, LeftIsTakenStep, WorkedOffStep
      DEF FormsetNext
    <3> QED
      BY <3>1 DEF FormsetInv
  <2> QED
    BY <2>1, <2>2, <2>3 DEF MCNext, others, PanelNext, PagesNext, ListNext, EditNext, CsvNext,
       SqlNext, UploadNext, ConfigNext, TrailNext, ViewsNext
<1> QED
  BY <1>1, <1>2, PTL DEF MCSpec

\* What was typed into the rows of a formset is saved or comes back, whatever colleagues do
\* meanwhile, as long as no two rows of the form have one name.
THEOREM TypedIsKeptOnceHolds == MCSpec => []TypedIsKeptOnce
<1>1. ASSUME part = "formset" => FormsetInv PROVE TypedIsKeptOnce
  <2> SUFFICES ASSUME part = "formset" PROVE Formset!TypeOK /\ Formset!TypedIsKeptOnce
    BY DEF TypedIsKeptOnce
  <2>1. Formset!TypeOK /\ WorkedOffIsKept
    BY <1>1 DEF FormsetInv, FormsetTypes
  <2> QED
    BY <2>1 DEF WorkedOffIsKept, Formset!TypedIsKeptOnce, Formset!TypedIsKept
<1> QED
  BY <1>1, FormsetInvariant, PTL

\* The formset keeps to the children of its page, and no row changes its parent but on its
\* own page.
THEOREM FormsetKeepsToItsPageHolds == MCSpec => FormsetKeepsToItsPage
<1>1. ASSUME part = "formset" => FormsetInv, [MCNext]_<<part, vars, others>>
      PROVE  [part = "formset" => Formset!KeepsToItsPage]_formset
  <2> SUFFICES ASSUME ~UNCHANGED formset, part = "formset" PROVE Formset!KeepsToItsPage
    OBVIOUS
  <2>1. Formset!Next /\ FormsetInv
    BY <1>1 DEF MCNext, others, PanelNext, PagesNext, FormsetNext, ListNext, EditNext, CsvNext,
       SqlNext, UploadNext, ConfigNext, TrailNext, ViewsNext
  <2>2. RowsKept /\ KeysAreKnown
    BY <2>1, RowsStep DEF FormsetInv
  <2> SUFFICES ASSUME foreign' = foreign, NEW r \in Children, db[r] # Formset!Absent
               PROVE  /\ r \in strangers => db'[r] = db[r]
                      /\ db'[r].parent \in {db[r].parent, Formset!Gone.parent}
    BY DEF Formset!KeepsToItsPage
  <2>3. /\ db'[r].parent \in {db[r].parent, "gone"}
        /\ db'[r] # db[r] => r = checked
    BY <2>2 DEF RowsKept, RowKept
  <2>4. r = checked => r \notin strangers
    BY <2>2, FormsetConstants DEF KeysAreKnown, Formset!None
  <2>5. Formset!Gone.parent = "gone"
    BY DEF Formset!Gone, Formset!Row
  <2> QED
    BY <2>3, <2>4, <2>5
<1> QED
  BY <1>1, FormsetInvariant, PTL DEF MCSpec, FormsetKeepsToItsPage

LEMMA AccountsInvariant ==
  MCSpec => []((part = "sql" => ConsoleInv) /\ (part = "trail" => TrailInv))
<1> DEFINE Inv == (part = "sql" => ConsoleInv) /\ (part = "trail" => TrailInv)
<1>1. MCInit => Inv
  BY ConsoleInit, TrailInit DEF MCInit
<1>2. Inv /\ [MCNext]_<<part, vars, others>> => Inv'
  <2> SUFFICES ASSUME Inv, [MCNext]_<<part, vars, others>> PROVE Inv'
    OBVIOUS
  <2>1. /\ part' = part
        /\ UNCHANGED sql \/ (part = "sql" /\ Console!Next)
        /\ UNCHANGED audit \/ (part = "trail" /\ Trail!Next)
    BY DEF MCNext, others, PanelNext, PagesNext, FormsetNext, ListNext, EditNext, CsvNext,
       SqlNext, UploadNext, ConfigNext, TrailNext, ViewsNext
  <2>2. ASSUME part = "sql" PROVE ConsoleInv'
    BY <2>1, <2>2, ConsoleStep, ConsoleStays
  <2>3. ASSUME part = "trail" PROVE TrailInv'
    BY <2>1, <2>3, TrailStep, TrailStays
  <2> QED
    BY <2>1, <2>2, <2>3
<1> QED
  BY <1>1, <1>2, PTL DEF MCSpec

\* The audit hook of the SQL console hears of every attempt, in order and before its operator
\* sees an answer, and what runs is granted; and the timeline of a row explains what is stored.
THEOREM DeedsAreAccountedHolds == MCSpec => []DeedsAreAccounted
<1>1. (part = "sql" => ConsoleInv) /\ (part = "trail" => TrailInv) => DeedsAreAccounted
  BY ConsoleAccounts, TrailTold DEF DeedsAreAccounted
<1> QED
  BY <1>1, AccountsInvariant, PTL

LEMMA DoorsInvariant ==
  MCSpec => [](/\ part = "pages" => PagesInv
               /\ part = "config" => SiteInv
               /\ part \in ViewsParts => ViewsInv)
<1> DEFINE Inv == /\ part = "pages" => PagesInv
                  /\ part = "config" => SiteInv
                  /\ part \in ViewsParts => ViewsInv
<1>1. MCInit => Inv
  BY PagesInit, SiteInit, ViewsBegin DEF MCInit
<1>2. Inv /\ [MCNext]_<<part, vars, others>> => Inv'
  <2> SUFFICES ASSUME Inv, [MCNext]_<<part, vars, others>> PROVE Inv'
    OBVIOUS
  <2>1. /\ part' = part
        /\ UNCHANGED pages \/ (part = "pages" /\ Pages!WalkNext)
        /\ UNCHANGED config \/ (part = "config" /\ Pages!SiteNext)
    BY DEF MCNext, others, PanelNext, PagesNext, FormsetNext, ListNext, EditNext, CsvNext,
       SqlNext, UploadNext, ConfigNext, TrailNext, ViewsNext
  <2>2. UNCHANGED views \/ ViewsNext
    BY DEF MCNext, others, PanelNext, PagesNext, FormsetNext, ListNext, EditNext, CsvNext,
       SqlNext, UploadNext, ConfigNext, TrailNext
  <2>3. ASSUME part = "pages" PROVE PagesInv'
    BY <2>1, <2>3, PagesStep, PagesStay
  <2>4. ASSUME part = "config" PROVE SiteInv'
    BY <2>1, <2>4, SiteStep, SiteStays
  <2>5. ASSUME part \in ViewsParts PROVE ViewsInv'
    BY <2>1, <2>2, <2>5, ViewsStep, ViewsStay DEF views
  <2> QED
    BY <2>1, <2>3, <2>4, <2>5
<1> QED
  BY <1>1, <1>2, PTL DEF MCSpec

\* Every door a page shows is open and none that would answer is hidden, whatever the flags and
\* the policy; a page the panel was configured with is sound, whatever was registered, removed
\* or mapped; and what the JSON panel says of a resource is true.
THEOREM DoorsOpenHolds == MCSpec => []DoorsOpen
<1>1. (/\ part = "pages" => PagesInv
       /\ part = "config" => SiteInv
       /\ part \in ViewsParts => ViewsInv) => DoorsOpen
  BY PageTyped, PagesOpen, NothingHides, SiteIsSound DEF DoorsOpen, ViewsInv
<1> QED
  BY <1>1, DoorsInvariant, PTL

=============================================================================
