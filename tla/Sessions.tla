------------------------------ MODULE Sessions ------------------------------
(***************************************************************************)
(* SessionService over RedisSessionStore (src/sessions), one user: a       *)
(* session is a key with a time to live plus an entry in the user's index  *)
(* set, and no two Redis commands are atomic.  A sign-in, and each call of *)
(* resolve, destroy, destroyByUser and listByUser, is a process of its     *)
(* own; replicas share the Redis.  Ids are random, so an id is created     *)
(* once.                                                                   *)
(***************************************************************************)
EXTENDS Naturals

CONSTANTS
  Ids,        \* sessions that may be created, by idHash
  Calls,      \* calls of the other operations
  MaxFaults   \* bound: commands that fail and processes that die

SessionsAssumption == MaxFaults \in Nat

VARIABLES
  keys,     \* session keys in Redis
  index,    \* the user's index set
  expired,  \* sessions whose expiresAt has passed
  made,     \* how far each create() got
  call,     \* what each call does, where it stands, the session it works on or
            \* those still to visit, what it read last, and the sessions it has
            \* to revoke
  revoked,  \* history: sessions a finished call had to revoke
  faults

redis == <<keys, index>>
vars == <<redis, expired, made, call, revoked, faults>>

Ops == {"resolve", "destroy", "destroyByUser", "listByUser"}
Phase == {"reading", "deleting", "unindexing", "visiting", "pruning"}

Call == [op : Ops, at : Phase, ids : SUBSET Ids, found : SUBSET Ids, covers : SUBSET Ids]
Rest == {"idle", "done", "failed"}  \* not begun, returned, thrown or died

TypeOK ==
  /\ keys \subseteq Ids
  /\ index \subseteq Ids
  /\ expired \subseteq Ids
  /\ made \in [Ids -> {"no", "stored", "issued", "lost"}]
  /\ call \in [Calls -> [op : {"none"}, at : Rest] \cup Call]
  /\ revoked \subseteq Ids
  /\ faults \in 0..MaxFaults

At(c, phase) == call[c].at = phase

Begin(c, what, phase, on, covers) ==
  /\ At(c, "idle")
  /\ call' = [call EXCEPT ![c] =
       [op |-> what, at |-> phase, ids |-> on, found |-> {}, covers |-> covers]]

End(c, how) == call' = [call EXCEPT ![c] = [op |-> "none", at |-> how]]

\* a call returns; what it had to revoke counts as revoked from here on
Return(c) ==
  /\ End(c, "done")
  /\ revoked' = revoked \cup call[c].covers

Init ==
  /\ keys = {} /\ index = {} /\ expired = {}
  /\ made = [s \in Ids |-> "no"]
  /\ call = [c \in Calls |-> [op |-> "none", at |-> "idle"]]
  /\ revoked = {}
  /\ faults = 0

-----------------------------------------------------------------------------
(* create(): set() writes the key, then the index *)

SetKey(s) ==
  /\ made[s] = "no"
  /\ made' = [made EXCEPT ![s] = "stored"]
  /\ keys' = keys \cup {s}
  /\ UNCHANGED <<index, expired, call, revoked, faults>>

\* faulty variant: the index entry is not awaited, and its failure unnoticed
IssueUnindexed(s) ==
  /\ made[s] = "stored"
  /\ made' = [made EXCEPT ![s] = "issued"]
  /\ UNCHANGED <<redis, expired, call, revoked, faults>>

\* only after the index entry does the caller get the cookie value
AddToIndex(s) ==
  /\ made[s] = "stored"
  /\ index' = index \cup {s}
  /\ made' = [made EXCEPT ![s] = "issued"]
  /\ UNCHANGED <<keys, expired, call, revoked, faults>>

\* the second command fails: nobody has the cookie of the key that stays
CreateFails(s) ==
  /\ made[s] = "stored"
  /\ faults < MaxFaults
  /\ faults' = faults + 1
  /\ made' = [made EXCEPT ![s] = "lost"]
  /\ UNCHANGED <<redis, expired, call, revoked>>

\* the clock passes expiresAt; Redis drops the key then or within the second
Expire(s) ==
  /\ made[s] # "no"
  /\ s \notin expired
  /\ expired' = expired \cup {s}
  /\ UNCHANGED <<redis, made, call, revoked, faults>>

DropKey(s) ==
  /\ s \in expired \cap keys
  /\ keys' = keys \ {s}
  /\ UNCHANGED <<index, expired, made, call, revoked, faults>>

-----------------------------------------------------------------------------
(* resolve() and destroy(), by the cookie of an issued session *)

\* get(): one that outlived expiresAt is deleted and not returned
Resolve(c, s) ==
  /\ made[s] = "issued"
  /\ IF s \in keys \cap expired
       THEN Begin(c, "resolve", "reading", {s}, {})
       ELSE At(c, "idle") /\ End(c, "done")
  /\ UNCHANGED <<redis, expired, made, revoked, faults>>

Destroy(c, s) ==
  /\ made[s] = "issued"
  /\ Begin(c, "destroy", "reading", {s}, {s})
  /\ UNCHANGED <<redis, expired, made, revoked, faults>>

\* delete(): the value is read for its userId, ...
ReadValue(c) ==
  /\ At(c, "reading")
  /\ call' = [call EXCEPT ![c].found = call[c].ids \cap keys, ![c].at = "deleting"]
  /\ UNCHANGED <<redis, expired, made, revoked, faults>>

\* ... the key deleted, and without a value the call is over
DeleteKey(c) ==
  /\ At(c, "deleting")
  /\ keys' = keys \ call[c].ids
  /\ IF call[c].found = {}
       THEN Return(c)
       ELSE call' = [call EXCEPT ![c].at = "unindexing"] /\ UNCHANGED revoked
  /\ UNCHANGED <<index, expired, made, faults>>

DeleteIndex(c) ==
  /\ At(c, "unindexing")
  /\ index' = index \ call[c].ids
  /\ Return(c)
  /\ UNCHANGED <<keys, expired, made, faults>>

-----------------------------------------------------------------------------
(* destroyByUser() and listByUser() *)

\* sMembers: a global logout owes the revocation of what was issued before it
Visit(c, what) ==
  /\ Begin(c, what, "visiting", index,
       IF what = "destroyByUser" THEN {s \in Ids : made[s] = "issued"} ELSE {})
  /\ UNCHANGED <<redis, expired, made, revoked, faults>>

Visiting(c, what, s) == At(c, "visiting") /\ call[c].op = what /\ s \in call[c].ids

PruneNext(c, s) == call' = [call EXCEPT ![c].found = {s}, ![c].at = "pruning"]

DeleteNext(c, s) ==
  /\ Visiting(c, "destroyByUser", s)
  /\ keys' = keys \ {s}
  /\ PruneNext(c, s)
  /\ UNCHANGED <<index, expired, made, revoked, faults>>

\* a key that is gone leaves a stale entry to prune
ListNext(c, s) ==
  /\ Visiting(c, "listByUser", s)
  /\ IF s \in keys
       THEN call' = [call EXCEPT ![c].ids = @ \ {s}]
       ELSE PruneNext(c, s)
  /\ UNCHANGED <<redis, expired, made, revoked, faults>>

Prune(c) ==
  /\ At(c, "pruning")
  /\ index' = index \ call[c].found
  /\ call' = [call EXCEPT ![c].ids = @ \ call[c].found, ![c].found = {}, ![c].at = "visiting"]
  /\ UNCHANGED <<keys, expired, made, revoked, faults>>

EndVisit(c) ==
  /\ At(c, "visiting")
  /\ call[c].ids = {}
  /\ Return(c)
  /\ UNCHANGED <<redis, expired, made, faults>>

\* a command fails or the process dies in the middle of a call
CallFails(c) ==
  /\ call[c].at \notin Rest
  /\ faults < MaxFaults
  /\ faults' = faults + 1
  /\ End(c, "failed")
  /\ UNCHANGED <<redis, expired, made, revoked>>

-----------------------------------------------------------------------------

IdStep(s) ==
  \/ SetKey(s)
  \/ AddToIndex(s)
  \/ CreateFails(s)
  \/ Expire(s)
  \/ DropKey(s)

CallStep(c) ==
  \/ \E s \in Ids : Resolve(c, s) \/ Destroy(c, s)
  \/ ReadValue(c)
  \/ DeleteKey(c)
  \/ DeleteIndex(c)
  \/ \E what \in {"destroyByUser", "listByUser"} : Visit(c, what)
  \/ \E s \in Ids : DeleteNext(c, s) \/ ListNext(c, s)
  \/ Prune(c)
  \/ EndVisit(c)
  \/ CallFails(c)

Next == (\E s \in Ids : IdStep(s)) \/ (\E c \in Calls : CallStep(c))

Spec == Init /\ [][Next]_vars

-----------------------------------------------------------------------------

\* "Revoke every session a user owns (global logout)": a session that was issued
\* before a destroyByUser or its own destroy began, and that call returned, is
\* never resolved again, whatever sign-ins, listings and other calls ran between.
RevokedIsGone == revoked \cap keys = {}

\* The index a global logout goes by is complete: a key whose cookie somebody
\* holds is in it, through failing commands and lazy pruning.
IssuedIsIndexed == \A s \in keys : made[s] = "issued" => s \in index
=============================================================================
