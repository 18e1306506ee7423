------------------------------- MODULE Verdicts -------------------------------
(***************************************************************************)
(* Small services that answer yes or no.  The check digits of a CPF or a   *)
(* CNPJ (utils/br.ts); the one-time code of an authenticator application,  *)
(* whose clock may differ from the server's, with the secret both compute  *)
(* it from (utils/totp.ts); a feature flag and the guard that hides a      *)
(* route behind it (flags/backends.ts, flags/service.ts).  The three share *)
(* nothing.                                                                *)
(*                                                                         *)
(* An integer JavaScript shifts has 32 bits: here a sequence of 32.        *)
(***************************************************************************)
EXTENDS Integers, Sequences, FiniteSets, SequencesExt, FiniteSetsExt

CONSTANTS
  Numbers,    \* documents without their check digits
  Secrets,    \* secrets: sequences of bytes, each a sequence of 8 bits
  Step,       \* seconds a one-time code is shown
  Window,     \* steps of tolerance
  MaxDrift,   \* bound: seconds the two clocks are apart
  MaxTime,    \* bound: the server's clock
  Backends,   \* how many a CompositeFeatureFlagBackend asks, in this order
  Default,    \* FeatureFlags.defaultEnabled
  MaxChanges  \* bound: flags set

VARIABLES
  document, verdict,    \* what is checked, and the answer
  secret, stored,       \* the bytes generated, and those read back
  now, drift,           \* the server's clock, and how far the phone's is ahead
  shown,                \* the code read off the phone: [counter, at], or NoCode
  accepted,             \* what verify() said of it: "unasked", "yes" or "no"
  opinions,             \* backend -> "on", "off", "none", or "fails"
  asking,               \* the backend isEnabled() is about to ask, 0 for none
  response,             \* of the guard: "none", "next", "hidden" or "error"
  possible,             \* history: what the flag has been since the guard asked
  changed               \* history: how often an opinion changed since then

documents == <<document, verdict>>
codes == <<secret, stored, now, drift, shown, accepted>>
flags == <<opinions, asking, response, possible, changed>>
vars == <<documents, codes, flags>>

VerdictsAssumption ==
  /\ \A p \in Numbers : p \in Seq(0 .. 9) /\ Len(p) \in {9, 12}
  /\ {Step, Backends} \subseteq Nat \ {0}
  /\ {Window, MaxDrift, MaxTime, MaxChanges} \subseteq Nat
  /\ Default \in BOOLEAN

-----------------------------------------------------------------------------
(* Documents.                                                              *)

Weighted(digits, weights) ==
  MapThenSumSet(LAMBDA i : digits[i] * weights[i], DOMAIN weights)

Repeated(digits) == \A i \in DOMAIN digits : digits[i] = digits[1]

\* each check digit follows the digits it is computed from
CpfCheckDigits(digits) ==
  /\ ~Repeated(digits)
  /\ \A size \in {9, 10} :
       LET check == (Weighted(digits, [i \in 1 .. size |-> size + 2 - i]) * 10) % 11
       IN digits[size + 1] = IF check = 10 THEN 0 ELSE check

FirstWeights == <<5, 4, 3, 2, 9, 8, 7, 6, 5, 4, 3, 2>>

CnpjCheckDigits(digits) ==
  /\ ~Repeated(digits)
  /\ \A weights \in {FirstWeights, <<6>> \o FirstWeights} :
       LET rest == Weighted(digits, weights) % 11
       IN digits[Len(weights) + 1] = IF rest < 2 THEN 0 ELSE 11 - rest

IsValidCpfCnpj(digits) ==
  \/ Len(digits) = 11 /\ CpfCheckDigits(digits)
  \/ Len(digits) = 14 /\ CnpjCheckDigits(digits)

\* somebody types a number with some check digits
Check ==
  verdict = "none" /\ \E p \in Numbers, c \in 0 .. 9, d \in 0 .. 9 :
    /\ document' = p \o <<c, d>>
    /\ verdict' = IF IsValidCpfCnpj(document') THEN "valid" ELSE "invalid"
    /\ UNCHANGED <<codes, flags>>

-----------------------------------------------------------------------------
(* The secret, in base32, and the codes computed from it.                  *)

Zeros(n) == [i \in 1 .. n |-> 0]
Shifted(value, more) == SubSeq(value \o more, Len(more) + 1, Len(more) + 32)
Bits(value, shift, width) == SubSeq(value, 33 - shift - width, 32 - shift)

\* both loops: read units of `in` bits, write one of `out` bits as soon as there is
\* one; a character is its 5 bits
Regroup(units, width) ==
  FoldLeft(LAMBDA s, unit :
    LET value == Shifted(s.value, unit)
        bits == s.bits + Len(unit)
    IN [value |-> value, bits |-> bits % width,
        out |-> s.out \o [j \in 1 .. bits \div width |-> Bits(value, bits - j * width, width)]],
    [value |-> Zeros(32), bits |-> 0, out |-> <<>>], units)

Base32Encode(bytes) ==
  LET s == Regroup(bytes, 5)
  IN IF s.bits = 0 THEN s.out
     ELSE Append(s.out, Bits(Shifted(s.value, Zeros(5 - s.bits)), 0, 5))

Base32Decode(chars) == Regroup(chars, 8).out

NoCode == [counter |-> -1, at |-> 0]
Counter(seconds) == seconds \div Step

\* generateSecret(), kept as text and decoded by verify()
Enroll ==
  \E s \in Secrets :
    /\ secret = <<>>
    /\ secret' = s /\ stored' = Base32Decode(Base32Encode(s))
    /\ UNCHANGED <<documents, now, drift, shown, accepted, flags>>

\* the phone's code is that of its own clock
Show ==
  /\ secret # <<>> /\ shown = NoCode /\ now + drift >= 0
  /\ shown' = [counter |-> Counter(now + drift), at |-> now]
  /\ UNCHANGED <<documents, secret, stored, now, drift, accepted, flags>>

\* Two counters, or two keys, are taken to have different codes.
Verify ==
  /\ shown # NoCode /\ accepted = "unasked"
  /\ accepted' =
       IF stored = secret
          /\ \E offset \in -Window .. Window : Counter(now) + offset = shown.counter
       THEN "yes" ELSE "no"
  /\ UNCHANGED <<documents, secret, stored, now, drift, shown, flags>>

Tick ==
  /\ secret # <<>> /\ accepted = "unasked" /\ now < MaxTime
  /\ now' = now + 1
  /\ UNCHANGED <<documents, secret, stored, drift, shown, accepted, flags>>

-----------------------------------------------------------------------------
(* Feature flags.                                                          *)

Opinions == {"on", "off", "none", "fails"}

\* what a composite of these backends would say at once
Composite(ops) ==
  LET heard == {b \in DOMAIN ops : ops[b] # "none"}
  IN IF heard # {} THEN ops[Min(heard)] ELSE IF Default THEN "on" ELSE "off"

\* set() of a memory backend, or whatever a backend reads
Set(b, opinion) ==
  /\ opinions[b] # opinion /\ changed < MaxChanges
  /\ opinions' = [opinions EXCEPT ![b] = opinion]
  /\ possible' = possible \cup {Composite(opinions')}
  /\ changed' = changed + 1
  /\ UNCHANGED <<documents, codes, asking, response>>

\* a request comes to makeFlagGuard
Guard ==
  /\ asking = 0
  /\ asking' = 1 /\ response' = "none"
  /\ possible' = {Composite(opinions)} /\ changed' = 0
  /\ UNCHANGED <<documents, codes, opinions>>

Answered(enabled) == IF enabled THEN "next" ELSE "hidden"

\* one turn of resolve()'s loop and, after the last, isEnabled()'s default
Resolve ==
  /\ asking # 0
  /\ \/ /\ opinions[asking] # "none"
        /\ response' = IF opinions[asking] = "fails" THEN "error"
                       ELSE Answered(opinions[asking] = "on")
        /\ asking' = 0
     \/ /\ opinions[asking] = "none" /\ asking < Backends
        /\ asking' = asking + 1 /\ UNCHANGED response
     \/ /\ opinions[asking] = "none" /\ asking = Backends
        /\ response' = Answered(Default) /\ asking' = 0
  /\ UNCHANGED <<documents, codes, opinions, possible, changed>>

-----------------------------------------------------------------------------

Init ==
  /\ document = <<>> /\ verdict = "none"
  /\ secret = <<>> /\ stored = <<>> /\ shown = NoCode /\ accepted = "unasked"
  /\ now = 0 /\ drift \in -MaxDrift .. MaxDrift
  /\ opinions \in [1 .. Backends -> Opinions]
  /\ asking = 0 /\ response = "none" /\ possible = {} /\ changed = 0

DocumentsNext == Check
CodesNext == Enroll \/ Show \/ Verify \/ Tick
FlagsNext ==
  Guard \/ Resolve \/ \E b \in 1 .. Backends, opinion \in Opinions : Set(b, opinion)

Next == DocumentsNext \/ CodesNext \/ FlagsNext
Spec == Init /\ [][Next]_vars

-----------------------------------------------------------------------------

FlagsTypeOK ==
  /\ opinions \in [1 .. Backends -> Opinions] /\ asking \in 0 .. Backends
  /\ response \in {"none", "next", "hidden", "error"}

TypeOK ==
  /\ verdict \in {"none", "valid", "invalid"}
  /\ now \in 0 .. MaxTime /\ accepted \in {"unasked", "yes", "no"}
  /\ FlagsTypeOK

\* Validators check "format + check digits" (docs/recipes/br-utils.en.md:22): a number
\* is valid when both its check digits are what the one rule for both kinds makes them,
\* though the code has it in two ways; and of a valid number one digit typed wrong is
\* noticed, but for the places where the remainders 0 and 1, which share a check digit,
\* can hide it from both.
Remainder(digits, size) ==
  LET weight(i) == IF Len(digits) = 11 THEN size + 2 - i ELSE ((size - i) % 8) + 2
  IN MapThenSumSet(LAMBDA i : digits[i] * weight(i), 1 .. size) % 11

Genuine(digits) ==
  /\ Cardinality({digits[i] : i \in DOMAIN digits}) > 1
  /\ \A size \in {Len(digits) - 2, Len(digits) - 1} :
       LET r == Remainder(digits, size)
       IN digits[size + 1] = IF r \in {0, 1} THEN 0 ELSE 11 - r

Unnoticed(digits) ==
  {i \in DOMAIN digits :
     \E d \in (0 .. 9) \ {digits[i]} : IsValidCpfCnpj(ReplaceAt(digits, i, d))}

DigitsAreChecked ==
  verdict # "none" =>
    /\ verdict = "valid" <=> Genuine(document)
    /\ verdict = "valid" =>
         Unnoticed(document) \subseteq IF Len(document) = 11 THEN {1, 6} ELSE {1, 5, 9}

\* "Clock-drift window" (totp.ts:6): a code is accepted when the phone showed it up to
\* `window` steps before or, by the server's clock, after now, however the steps of
\* the two clocks fall, and never when it is a whole step further away.  The secret
\* the codes are computed from is the one that was generated.
CodesAreCurrent ==
  /\ stored = secret
  /\ LET apart == now - (shown.at + drift)
         within(seconds) == -seconds <= apart /\ apart <= seconds
     IN /\ accepted = "no" => ~within(Window * Step)
        /\ accepted = "yes" => within((Window + 1) * Step - 1)

\* "First non-null answer wins" (backends.ts:70): while at most one opinion changes
\* between the questions to the backends, a guard lets through, hides or fails as the
\* flag asks at some moment since the request came.
FlagIsOfItsTime ==
  response # "none" /\ changed <= 1 =>
    response \in {CASE p = "on" -> "next" [] p = "off" -> "hidden" [] OTHER -> "error" :
                    p \in possible}
=============================================================================
