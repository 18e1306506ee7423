------------------------------ MODULE Accounts ------------------------------
(***************************************************************************)
(* One account through UserAuthService (login, MFA challenge, refresh),    *)
(* PasswordResetService, ActivationService and MfaService (src/auth).  The *)
(* services keep nothing: every await on a persistence port is a step, so  *)
(* calls interleave, fail and die between a check and its effect.          *)
(*                                                                         *)
(* The ports are external: each call of one is atomic.  A code stands for  *)
(* the secret it was computed from, a JWT for the fact that it was issued. *)
(***************************************************************************)
EXTENDS Naturals

CONSTANTS
  Calls,             \* requests
  Passwords,         \* passwords; the account starts with one of them
  ResetTokens,       \* one-time tokens of requestReset
  ActivationTokens,  \* one-time tokens of start
  Secrets,           \* TOTP secrets enroll() may generate
  None,              \* no secret, no argument
  MaxFaults          \* bound: port calls that fail and processes that die

Tokens == ResetTokens \cup ActivationTokens

\* passwords, tokens and secrets are different things
AccountsAssumption ==
  /\ None \notin Passwords \cup Secrets \cup Tokens
  /\ ResetTokens \cap ActivationTokens = {}
  /\ Tokens \cap (Passwords \cup Secrets) = {}
  /\ MaxFaults \in Nat

VARIABLES
  password,   \* the password the stored hash verifies
  active,     \* AuthUser.isActive
  secret,     \* the TOTP secret, None for "" and null
  enabled,    \* the MFA flag
  tokens,     \* token hashes in the ports
  expired,    \* tokens whose expiresAt has passed
  op,         \* what each call does
  pc,         \* where it stands: the port call it awaits, or how it ended
  arg,        \* the token or secret it was called with
  new,        \* the password a reset writes
  before,     \* history: the password in force when a reset began
  old,        \* history: what a reset that returned had to put out of force
  issued,     \* tokens or requests so far: one-time tokens, passwords, secrets
  held,       \* "challenge" and "tokens" once some client holds them
  applied,    \* history: one-time tokens whose effect was written
  confirmed,  \* history: secrets a code was verified against by confirm()
  tangled,    \* history: MFA calls overlapped, or one ended half way
  faults

account == <<password, active>>
mfa == <<secret, enabled>>
onetime == <<tokens, expired>>
call == <<op, pc, arg, new>>
history == <<before, old, issued, held, applied, confirmed, tangled>>
vars == <<account, mfa, onetime, call, history, faults>>

MfaOps == {"enroll", "confirmMfa", "disable"}
Ops == MfaOps \cup {"login", "challenge", "refresh", "reset", "activate"}
Awaits == {"isEnabled", "findById", "write", "clear", "setEnabled", "setSecret"}
Ends == {"tokens", "challenged", "done", "refused", "failed"}

TypeOK ==
  /\ password \in Passwords /\ active \in BOOLEAN
  /\ secret \in Secrets \cup {None} /\ enabled \in BOOLEAN
  /\ tokens \subseteq Tokens /\ expired \subseteq Tokens
  /\ op \in [Calls -> Ops \cup {"none"}]
  /\ pc \in [Calls -> Awaits \cup Ends \cup {"idle"}]
  /\ arg \in [Calls -> Tokens \cup Secrets \cup {None}]
  /\ new \in [Calls -> Passwords \cup {None}]
  /\ before \in [Calls -> Passwords \cup {None}]
  /\ old \subseteq Passwords
  /\ issued \subseteq Tokens \cup Passwords \cup Secrets
  /\ held \subseteq {"challenge", "tokens"}
  /\ applied \subseteq Tokens /\ confirmed \subseteq Secrets
  /\ tangled \in BOOLEAN /\ faults \in 0..MaxFaults

\* an account that exists, with MFA or without
Init ==
  /\ password \in Passwords /\ active \in BOOLEAN
  /\ secret \in Secrets \cup {None} /\ enabled = (secret # None)
  /\ tokens = {} /\ expired = {}
  /\ op = [c \in Calls |-> "none"]
  /\ pc = [c \in Calls |-> "idle"]
  /\ arg = [c \in Calls |-> None]
  /\ new = [c \in Calls |-> None]
  /\ before = [c \in Calls |-> None]
  /\ old = {} /\ issued = {password, secret} \ {None} /\ held = {}
  /\ applied = {} /\ confirmed = {secret} \ {None} /\ tangled = FALSE
  /\ faults = 0

Goto(c, where) == pc' = [pc EXCEPT ![c] = where]

Begin(c, what, with, pass, where) ==
  /\ pc[c] = "idle"
  /\ op' = [op EXCEPT ![c] = what]
  /\ arg' = [arg EXCEPT ![c] = with]
  /\ new' = [new EXCEPT ![c] = pass]
  /\ Goto(c, where)

At(c, what, where) == op[c] = what /\ pc[c] = where

Running(c) == pc[c] \in Awaits

MfaRunning == \E c \in Calls : Running(c) /\ op[c] \in MfaOps

-----------------------------------------------------------------------------
(* login(), verifyMfaChallenge(), refresh() *)

\* the row is read once: the password and isActive of that moment decide
LoginFind(c, p) ==
  /\ Begin(c, "login", None, None,
       IF p = password /\ active THEN "isEnabled" ELSE "refused")
  /\ UNCHANGED <<account, mfa, onetime, history, faults>>

LoginMfa(c) ==
  /\ At(c, "login", "isEnabled")
  /\ Goto(c, IF enabled THEN "challenged" ELSE "tokens")
  /\ held' = held \cup {IF enabled THEN "challenge" ELSE "tokens"}
  /\ UNCHANGED <<account, mfa, onetime, op, arg, new, before, old, issued, applied, confirmed,
                 tangled, faults>>

\* verify() reads the secret ...
ChallengeVerify(c, s) ==
  /\ "challenge" \in held
  /\ Begin(c, "challenge", s, None, IF s = secret THEN "findById" ELSE "refused")
  /\ UNCHANGED <<account, mfa, onetime, history, faults>>

\* ... and only then the row
ChallengeIssue(c) ==
  /\ At(c, "challenge", "findById")
  /\ Goto(c, IF active THEN "tokens" ELSE "refused")
  /\ held' = IF active THEN held \cup {"tokens"} ELSE held
  /\ UNCHANGED <<account, mfa, onetime, op, arg, new, before, old, issued, applied, confirmed,
                 tangled, faults>>

\* a refresh token is not consumed: one read, and a new pair
Refresh(c) ==
  /\ "tokens" \in held
  /\ Begin(c, "refresh", None, None, IF active THEN "tokens" ELSE "refused")
  /\ UNCHANGED <<account, mfa, onetime, history, faults>>

-----------------------------------------------------------------------------
(* one-time tokens: request() and start(), confirm() and activate() *)

SaveToken(t) ==
  /\ t \notin issued
  /\ issued' = issued \cup {t}
  /\ tokens' = tokens \cup {t}
  /\ UNCHANGED <<account, mfa, expired, call, before, old, held, applied, confirmed, tangled,
                 faults>>

Expire(t) ==
  /\ t \in issued \ expired
  /\ expired' = expired \cup {t}
  /\ UNCHANGED <<account, mfa, tokens, call, history, faults>>

Accepted(t) == IF t \in tokens \ expired THEN "write" ELSE "refused"

\* every reset chooses a password the account never had
ResetFind(c, t, p) ==
  /\ t \in issued /\ p \notin issued
  /\ issued' = issued \cup {p}
  /\ Begin(c, "reset", t, p, Accepted(t))
  /\ before' = [before EXCEPT ![c] = password]
  /\ UNCHANGED <<account, mfa, onetime, old, held, applied, confirmed, tangled, faults>>

\* faulty variant: updatePassword is not awaited before the call goes on
UpdateUnawaited(c) ==
  /\ At(c, "reset", "write")
  /\ Goto(c, "clear")
  /\ applied' = applied \cup {arg[c]}
  /\ UNCHANGED <<account, mfa, onetime, op, arg, new, before, old, issued, held, confirmed,
                 tangled, faults>>

UpdatePassword(c) ==
  /\ At(c, "reset", "write")
  /\ password' = new[c]
  /\ applied' = applied \cup {arg[c]}
  /\ Goto(c, "clear")
  /\ UNCHANGED <<active, mfa, onetime, op, arg, new, before, old, issued, held, confirmed,
                 tangled, faults>>

ActivateFind(c, t) ==
  /\ t \in issued
  /\ Begin(c, "activate", t, None, Accepted(t))
  /\ UNCHANGED <<account, mfa, onetime, history, faults>>

SetActive(c) ==
  /\ At(c, "activate", "write")
  /\ active' = TRUE
  /\ applied' = applied \cup {arg[c]}
  /\ Goto(c, "clear")
  /\ UNCHANGED <<password, mfa, onetime, op, arg, new, before, old, issued, held, confirmed,
                 tangled, faults>>

\* faulty variant: the token is cleared before its effect is written
ClearFirst(c) ==
  /\ pc[c] \in {"write", "clear"}
  /\ tokens' = tokens \ {arg[c]}
  /\ Goto(c, IF pc[c] = "clear" THEN "done" ELSE "write")
  /\ UNCHANGED <<account, mfa, expired, op, arg, new, history, faults>>

\* the last step of both; the call returns
ClearToken(c) ==
  /\ pc[c] = "clear"
  /\ tokens' = tokens \ {arg[c]}
  /\ Goto(c, "done")
  /\ old' = IF op[c] = "reset" THEN old \cup {before[c]} ELSE old
  /\ UNCHANGED <<account, mfa, expired, op, arg, new, before, issued, held, applied,
                 confirmed, tangled, faults>>

\* the application's own administration
Deactivate ==
  /\ active
  /\ active' = FALSE
  /\ UNCHANGED <<password, mfa, onetime, call, history, faults>>

-----------------------------------------------------------------------------
(* enroll(), confirm() and disable() of MfaService *)

\* setSecret: from here on codes of the new secret count
EnrollSecret(c, s) ==
  /\ s \notin issued
  /\ issued' = issued \cup {s}
  /\ Begin(c, "enroll", s, None, "setEnabled")
  /\ secret' = s
  /\ tangled' = (tangled \/ MfaRunning)
  /\ UNCHANGED <<account, enabled, onetime, before, old, held, applied, confirmed, faults>>

\* faulty variant: a re-enrollment leaves the flag as it was
EnrollKeepsFlag(c) ==
  /\ At(c, "enroll", "setEnabled")
  /\ Goto(c, "done")
  /\ UNCHANGED <<account, mfa, onetime, op, arg, new, history, faults>>

EnrollFlag(c) ==
  /\ At(c, "enroll", "setEnabled")
  /\ enabled' = FALSE
  /\ Goto(c, "done")
  /\ UNCHANGED <<account, secret, onetime, op, arg, new, history, faults>>

ConfirmVerify(c, s) ==
  /\ Begin(c, "confirmMfa", s, None, IF s = secret THEN "setEnabled" ELSE "refused")
  /\ confirmed' = IF s = secret THEN confirmed \cup {s} ELSE confirmed
  /\ tangled' = (tangled \/ MfaRunning)
  /\ UNCHANGED <<account, mfa, onetime, before, old, issued, held, applied, faults>>

ConfirmEnable(c) ==
  /\ At(c, "confirmMfa", "setEnabled")
  /\ enabled' = TRUE
  /\ Goto(c, "done")
  /\ UNCHANGED <<account, secret, onetime, op, arg, new, history, faults>>

DisableVerify(c, s) ==
  /\ Begin(c, "disable", s, None, IF s = secret THEN "setEnabled" ELSE "refused")
  /\ tangled' = (tangled \/ MfaRunning)
  /\ UNCHANGED <<account, mfa, onetime, before, old, issued, held, applied, confirmed, faults>>

DisableFlag(c) ==
  /\ At(c, "disable", "setEnabled")
  /\ enabled' = FALSE
  /\ Goto(c, "setSecret")
  /\ UNCHANGED <<account, secret, onetime, op, arg, new, history, faults>>

DisableSecret(c) ==
  /\ At(c, "disable", "setSecret")
  /\ secret' = None
  /\ Goto(c, "done")
  /\ UNCHANGED <<account, enabled, onetime, op, arg, new, history, faults>>

-----------------------------------------------------------------------------

\* the awaited port call fails, or the process dies
CallFails(c) ==
  /\ Running(c)
  /\ faults < MaxFaults
  /\ faults' = faults + 1
  /\ Goto(c, "failed")
  /\ tangled' = (tangled \/ op[c] \in MfaOps)
  /\ UNCHANGED <<account, mfa, onetime, op, arg, new, before, old, issued, held, applied,
                 confirmed>>

AuthStep(c) ==
  \/ \E p \in Passwords : LoginFind(c, p)
  \/ LoginMfa(c)
  \/ \E s \in Secrets : ChallengeVerify(c, s)
  \/ ChallengeIssue(c)
  \/ Refresh(c)

TokenStep(c) ==
  \/ \E t \in ResetTokens, p \in Passwords : ResetFind(c, t, p)
  \/ UpdatePassword(c)
  \/ \E t \in ActivationTokens : ActivateFind(c, t)
  \/ SetActive(c)
  \/ ClearToken(c)

MfaStep(c) ==
  \/ \E s \in Secrets : EnrollSecret(c, s) \/ ConfirmVerify(c, s) \/ DisableVerify(c, s)
  \/ EnrollFlag(c)
  \/ ConfirmEnable(c)
  \/ DisableFlag(c)
  \/ DisableSecret(c)

Next ==
  \/ \E c \in Calls : AuthStep(c) \/ TokenStep(c) \/ MfaStep(c) \/ CallFails(c)
  \/ \E t \in Tokens : SaveToken(t) \/ Expire(t)
  \/ Deactivate

Spec == Init /\ [][Next]_vars

-----------------------------------------------------------------------------

\* A password reset that returned took the password it found out of force for good:
\* no login begun afterwards passes with it, whatever other resets, activations and
\* failing calls ran in between (updatePassword before clearResetToken before the
\* answer).
ReplacedStaysReplaced == password \notin old

\* A one-time token is spent only by its effect: when one is gone from the port, the
\* password or the activation it stood for has been written, so a user whose request
\* failed half way can use the link again.
SpentHadEffect == (issued \cap Tokens) \ tokens \subseteq applied

\* "flip MFA on" happens by a verified code only: as long as the account's MFA calls
\* neither overlapped nor failed half way, an account on which none is under way has
\* MFA enabled only with a secret that confirm() saw a code of, re-enrollments included.
EnabledWasConfirmed == ~tangled /\ ~MfaRunning /\ enabled => secret \in confirmed

\* mfa.ts:14 of setSecret(): "Persist a user's TOTP secret (pending until confirmed)".
\* Violated: a confirm() that verified the previous secret may set the flag after an
\* enroll() replaced it.
PendingUntilConfirmed == ~MfaRunning /\ enabled => secret \in confirmed
=============================================================================
