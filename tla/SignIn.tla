-------------------------------- MODULE SignIn --------------------------------
(***************************************************************************)
(* Tokens and what they open: signup(), login() and refresh() of           *)
(* UserAuthService (auth/service.ts), JWTUtils (utils/jwt.ts) and the      *)
(* guards of auth/middleware.ts, over a user store that changes meanwhile. *)
(* Nothing is kept about a token: what its claims say was true when the    *)
(* row was read, and it opens doors until it expires.  Passwords, MFA and  *)
(* one-time tokens are in Accounts; a password here is right or wrong.     *)
(*                                                                         *)
(* An address is [name, shouted]: as typed, with capitals or without.      *)
(***************************************************************************)
EXTENDS Naturals, FiniteSets

CONSTANTS
  Calls,       \* calls on the service
  Users,       \* identities of the store's rows
  Names,       \* addresses, apart from their case
  Roles,
  AccessTtl, RefreshTtl,
  Latency,     \* longest time between two steps of a call
  MaxTime,     \* bound: the clock
  MaxIssued,   \* bound: token pairs
  MaxChanges   \* bound: changes the application makes to the rows

SignInAssumption ==
  /\ AccessTtl \in Nat \ {0} /\ RefreshTtl \in Nat /\ AccessTtl < RefreshTtl
  /\ Latency \in Nat /\ MaxTime \in Nat \ {0} /\ MaxIssued \in Nat /\ MaxChanges \in Nat
  /\ "none" \notin Users \cup Names /\ "active" \notin Roles

VARIABLES
  now,     \* seconds
  rows,    \* user -> the row, or NoRow
  tokens,  \* claims of the tokens in clients' hands
  calls,   \* call -> [pc, user, row, since]
  answer,  \* what the last step answered
  lost,    \* history: user -> role, or "active" -> when it was last taken away, 0 if never
  issued, changes

vars == <<now, rows, tokens, calls, answer, lost, issued, changes>>

NoRow == [email |-> [name |-> "none", shouted |-> FALSE], active |-> FALSE, roles |-> {}]
Idle == [pc |-> "idle", user |-> "none", row |-> NoRow, since |-> 0]
Nothing == [status |-> 0, user |-> "none", needs |-> {}]
Answer(status, user, needs) == [status |-> status, user |-> user, needs |-> needs]

\* data.email.toLowerCase()
Lower(address) == [address EXCEPT !.shouted = FALSE]
FindByEmail(address) == {u \in Users : rows[u].email = address}

\* a row, the first role its own
Init ==
  /\ now = 1
  /\ \E u \in Users, n \in Names, roles \in SUBSET Roles :
       rows = [v \in Users |->
                 IF v = u THEN [email |-> [name |-> n, shouted |-> FALSE],
                                active |-> TRUE, roles |-> roles]
                 ELSE NoRow]
  /\ tokens = {} /\ calls = [c \in Calls |-> Idle] /\ answer = Nothing
  /\ lost = [u \in Users |-> [right \in Roles \cup {"active"} |-> 0]]
  /\ issued = 0 /\ changes = 0

Goto(c, pc, user, row) ==
  calls' = [calls EXCEPT ![c] = [pc |-> pc, user |-> user, row |-> row, since |-> now]]

Refused(c, status) == calls' = [calls EXCEPT ![c] = Idle] /\ answer' = Answer(status, "none", {})

-----------------------------------------------------------------------------

\* faulty variant: the address is stored as it was typed
SignupFindAsTyped(c, address, short) ==
  /\ calls[c].pc = "idle"
  /\ IF short THEN Refused(c, 422)
     ELSE IF FindByEmail(address) # {} THEN Refused(c, 409)
     ELSE /\ Goto(c, "create", "none", [NoRow EXCEPT !.email = address])
          /\ answer' = Nothing
  /\ UNCHANGED <<now, rows, tokens, lost, issued, changes>>

\* too short a password, or an address that is taken
SignupFind(c, address, short) ==
  /\ calls[c].pc = "idle"
  /\ IF short THEN Refused(c, 422)
     ELSE IF FindByEmail(Lower(address)) # {} THEN Refused(c, 409)
     ELSE /\ Goto(c, "create", "none", [NoRow EXCEPT !.email = Lower(address)])
          /\ answer' = Nothing
  /\ UNCHANGED <<now, rows, tokens, lost, issued, changes>>

\* the store has a unique index: what came between makes the insert fail
SignupCreate(c) ==
  /\ calls[c].pc = "create"
  /\ IF FindByEmail(calls[c].row.email) # {}
     THEN Refused(c, 500) /\ UNCHANGED rows
     ELSE \E u \in Users :
            /\ rows[u] = NoRow
            /\ rows' = [rows EXCEPT ![u] = [calls[c].row EXCEPT !.active = TRUE]]
            /\ Goto(c, "issue", u, rows'[u])
            /\ answer' = Nothing
  /\ UNCHANGED <<now, tokens, lost, issued, changes>>

\* one read decides: the row, its password, its isActive
LoginFind(c, address, right) ==
  /\ calls[c].pc = "idle"
  /\ LET found == FindByEmail(Lower(address))
     IN IF right /\ \E u \in found : rows[u].active
        THEN LET u == CHOOSE u \in found : TRUE
             IN Goto(c, "issue", u, rows[u]) /\ answer' = Nothing
        ELSE Refused(c, 401)
  /\ UNCHANGED <<now, rows, tokens, lost, issued, changes>>

\* jsonwebtoken: a token is expired at its exp
Live(token) == now < token.exp

RefreshDecode(c, token) ==
  /\ calls[c].pc = "idle"
  /\ IF Live(token) /\ token.type = "refresh"
     THEN Goto(c, "find", token.sub, NoRow) /\ answer' = Nothing
     ELSE Refused(c, 401)
  /\ UNCHANGED <<now, rows, tokens, lost, issued, changes>>

\* faulty variant: isActive is not looked at again
RefreshFindAnyone(c) ==
  /\ calls[c].pc = "find"
  /\ Goto(c, "issue", calls[c].user, rows[calls[c].user]) /\ answer' = Nothing
  /\ UNCHANGED <<now, rows, tokens, lost, issued, changes>>

\* the row as it is now: its roles go into the next pair
RefreshFind(c) ==
  /\ calls[c].pc = "find"
  /\ IF rows[calls[c].user].active
     THEN Goto(c, "issue", calls[c].user, rows[calls[c].user]) /\ answer' = Nothing
     ELSE Refused(c, 401)
  /\ UNCHANGED <<now, rows, tokens, lost, issued, changes>>

Token(user, type, roles, ttl) ==
  [sub |-> user, type |-> type, roles |-> roles, exp |-> now + ttl]

\* faulty variant: the two lifetimes are exchanged
IssueSwapped(c) ==
  /\ calls[c].pc = "issue" /\ issued < MaxIssued
  /\ tokens' = tokens \cup {Token(calls[c].user, "access", calls[c].row.roles, RefreshTtl),
                            Token(calls[c].user, "refresh", {}, AccessTtl)}
  /\ calls' = [calls EXCEPT ![c] = Idle]
  /\ answer' = Answer(200, calls[c].user, {})
  /\ issued' = issued + 1
  /\ UNCHANGED <<now, rows, lost, changes>>

\* issueTokens, of the row that was read
Issue(c) ==
  /\ calls[c].pc = "issue" /\ issued < MaxIssued
  /\ tokens' = tokens \cup {Token(calls[c].user, "access", calls[c].row.roles, AccessTtl),
                            Token(calls[c].user, "refresh", {}, RefreshTtl)}
  /\ calls' = [calls EXCEPT ![c] = Idle]
  /\ answer' = Answer(200, calls[c].user, {})
  /\ issued' = issued + 1
  /\ UNCHANGED <<now, rows, lost, changes>>

-----------------------------------------------------------------------------
(* makeJwtAuthMiddleware and requireRoles before a route.  A bearer token  *)
(* of any type counts; `bearer` is none of them, or one.                   *)

\* req.auth, as the set of at most one token's claims
Claims(bearer) == {token \in bearer : Live(token)}

\* requireRoles answers an anonymous request itself
Guard(bearer, required, roles) ==
  IF Claims(bearer) = {}
  THEN IF required \/ roles # {} THEN Answer(401, "none", roles) ELSE Answer(200, "none", {})
  ELSE LET token == CHOOSE t \in Claims(bearer) : TRUE
       IN IF roles # {} /\ token.roles \cap roles = {} THEN Answer(403, "none", roles)
          ELSE Answer(200, token.sub, roles)

Request(bearer, required, roles) ==
  /\ answer' = Guard(bearer, required, roles)
  /\ UNCHANGED <<now, rows, tokens, calls, lost, issued, changes>>

-----------------------------------------------------------------------------
(* The application's own administration, and time                          *)

Lose(u, right) == lost' = [lost EXCEPT ![u][right] = now]

Change(u) ==
  /\ rows[u] # NoRow /\ changes < MaxChanges
  /\ \/ \E r \in rows[u].roles :
          rows' = [rows EXCEPT ![u].roles = @ \ {r}] /\ Lose(u, r)
     \/ \E r \in Roles \ rows[u].roles :
          rows' = [rows EXCEPT ![u].roles = @ \cup {r}] /\ UNCHANGED lost
     \/ /\ rows' = [rows EXCEPT ![u].active = ~@]
        /\ IF rows[u].active THEN Lose(u, "active") ELSE UNCHANGED lost
  /\ changes' = changes + 1 /\ answer' = Nothing
  /\ UNCHANGED <<now, tokens, calls, issued>>

Tick ==
  /\ now < MaxTime
  /\ \A c \in Calls : calls[c].pc # "idle" => now < calls[c].since + Latency
  /\ now' = now + 1 /\ answer' = Nothing
  /\ UNCHANGED <<rows, tokens, calls, lost, issued, changes>>

Next ==
  \/ \E c \in Calls, n \in Names, shouted \in BOOLEAN, good \in BOOLEAN :
       \/ SignupFind(c, [name |-> n, shouted |-> shouted], ~good)
       \/ LoginFind(c, [name |-> n, shouted |-> shouted], good)
  \/ \E c \in Calls : \/ SignupCreate(c) \/ RefreshFind(c) \/ Issue(c)
                      \/ \E token \in tokens : RefreshDecode(c, token)
  \/ \E bearer \in {{}} \cup {{token} : token \in tokens}, required \in BOOLEAN,
        roles \in SUBSET Roles : Request(bearer, required, roles)
  \/ \E u \in Users : Change(u)
  \/ Tick

Spec == Init /\ [][Next]_vars

-----------------------------------------------------------------------------

TypeOK ==
  /\ now \in 1 .. MaxTime /\ issued \in 0 .. MaxIssued /\ changes \in 0 .. MaxChanges
  /\ \A token \in tokens : token.sub \in Users /\ token.type \in {"access", "refresh"}
  /\ \A c \in Calls : calls[c].pc \in {"idle", "create", "find", "issue"}

\* A role opens a door no longer than an access token lives after the store took it
\* away, refreshes included; and an account that was deactivated passes where no role
\* is asked no longer than a refresh token lives.
Within(u, right, ttl) ==
  lost[u][right] # 0 /\ now < lost[u][right] + Latency + ttl

RightsEnd ==
  answer.status = 200 /\ answer.user # "none" =>
    LET u == answer.user
    IN /\ answer.needs # {} =>
            /\ \E r \in answer.needs : r \in rows[u].roles \/ Within(u, r, AccessTtl)
            /\ rows[u].active \/ Within(u, "active", AccessTtl)
       /\ rows[u].active \/ Within(u, "active", RefreshTtl)

\* One account per address, however it is written and whichever signups overlap: the
\* unique index sees the address in lower case only.
OneAccountEach ==
  \A u, v \in Users :
    rows[u] # NoRow /\ rows[v] # NoRow /\ Lower(rows[u].email) = Lower(rows[v].email) => u = v
===============================================================================
