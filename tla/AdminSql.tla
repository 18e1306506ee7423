------------------------------ MODULE AdminSql ------------------------------
(***************************************************************************)
(* The SQL console of the admin panel (admin/sqlConsole.ts and the route   *)
(* POST /sql of admin/router.ts): a text is analysed, compared with the    *)
(* policy, run and reported to the audit hook; running and reporting are   *)
(* awaited.  A statement is its type, whether it has a WHERE, and the      *)
(* table it names.  The parser (node-sql-parser) may fail on any text, and *)
(* may understand a text without being able to list its tables.            *)
(***************************************************************************)
EXTENDS Integers, Sequences, FiniteSets

CONSTANTS
  Operators,    \* operators at the console at the same time
  Texts,        \* sequences of [type, where, table]
  Policies,     \* [capabilities, lists, allow, deny, requireWhere]
  MaxFound, MaxTries   \* bounds: rows a statement finds, attempts of all operators

VARIABLES
  policy,       \* fixed: the rules of the console
  console,      \* Operators -> the attempt on its way
  trail,        \* what the audit hook was told, in order
  executed,     \* texts the database ran, in order
  tries

vars == <<policy, console, trail, executed, tries>>

AdminSqlAssumption ==
  /\ \A p \in Policies :
       /\ p.capabilities \subseteq
            {"read", "insert", "update", "delete", "ddl", "drop", "admin"}
       /\ "none" \notin p.deny
  /\ \A text \in Texts : DOMAIN text = 1 .. Len(text)
  /\ IsFiniteSet(Operators) /\ MaxFound \in Nat /\ MaxTries \in Nat

None == "none"   \* the statement names no table
NoRows == -1     \* it never ran, or failed
AtPrompt == [pc |-> "prompt", text |-> <<>>, parsed |-> TRUE, listed |-> TRUE,
             refused |-> FALSE, found |-> NoRows]

-----------------------------------------------------------------------------

StatementCapability(type) ==
  CASE type \in {"select", "with", "explain", "show", "desc", "describe"} -> "read"
    [] type \in {"insert", "replace"} -> "insert"
    [] type \in {"update", "delete"} -> type
    [] type \in {"create", "alter", "comment", "rename"} -> "ddl"
    [] type \in {"drop", "truncate"} -> "drop"
    [] OTHER -> "admin"

\* analyzeSql: what cannot be parsed counts as one statement for the administrator
AnalyzeSql(text, parsed, listed) ==
  [capabilities |-> IF parsed THEN {StatementCapability(text[i].type) : i \in DOMAIN text}
                    ELSE {"admin"},
   tables |-> IF listed THEN {text[i].table : i \in DOMAIN text} \ {None} ELSE {},
   unscopedWrite |-> parsed /\ \E i \in DOMAIN text :
                       text[i].type \in {"update", "delete"} /\ ~text[i].where]

\* faulty variant: it is enough that one of the capabilities is granted
CheckSqlPolicyAny(analysis, rules) ==
  /\ analysis.capabilities \cap rules.capabilities # {}
  /\ ~(rules.requireWhere /\ analysis.unscopedWrite)
  /\ analysis.tables \cap rules.deny = {}
  /\ rules.lists => analysis.tables # {} /\ analysis.tables \subseteq rules.allow

\* checkSqlPolicy: with an allow list, a text that names no table is refused
CheckSqlPolicy(analysis, rules) ==
  /\ analysis.capabilities \subseteq rules.capabilities
  /\ ~(rules.requireWhere /\ analysis.unscopedWrite)
  /\ analysis.tables \cap rules.deny = {}
  /\ rules.lists => analysis.tables # {} /\ analysis.tables \subseteq rules.allow

-----------------------------------------------------------------------------

Init ==
  /\ policy \in Policies
  /\ console = [o \in Operators |-> AtPrompt]
  /\ trail = <<>> /\ executed = <<>> /\ tries = 0

\* The parser is loaded, then the text judged in one go.  (If its package cannot be
\* loaded the answer is an error page: nothing is judged, run or told to the hook.)
Submit(o) ==
  /\ console[o].pc = "prompt" /\ tries < MaxTries
  /\ tries' = tries + 1
  /\ \E text \in Texts, parsed \in BOOLEAN, listed \in BOOLEAN :
       LET allowed == CheckSqlPolicy(AnalyzeSql(text, parsed, listed), policy)
       IN console' = [console EXCEPT ![o] =
            [pc |-> IF allowed THEN "run" ELSE "report", text |-> text, parsed |-> parsed,
             listed |-> listed, refused |-> ~allowed, found |-> NoRows]]
  /\ UNCHANGED <<policy, trail, executed>>

\* The database answers with rows or with an error; both are reported.  A text of several
\* statements that fails half way is reported as failed, whatever its first ones did.
Run(o) ==
  /\ console[o].pc = "run"
  /\ \E found \in {NoRows} \cup 0 .. MaxFound :
       /\ console' = [console EXCEPT ![o].found = found, ![o].pc = "report"]
       /\ executed' = IF found = NoRows THEN executed
                      ELSE Append(executed, [by |-> o, text |-> console[o].text])
  /\ UNCHANGED <<policy, trail, tries>>

Entry(o) == [by |-> o, text |-> console[o].text, allowed |-> ~console[o].refused,
             rowCount |-> console[o].found]

\* audit: a hook that throws is logged and swallowed; whether it wrote its entry
\* before it threw is its own affair, here it did
Report(o) ==
  /\ console[o].pc = "report"
  /\ trail' = Append(trail, Entry(o))
  /\ console' = [console EXCEPT ![o].pc = "answer"]
  /\ UNCHANGED <<policy, executed, tries>>

Answer(o) ==
  /\ console[o].pc = "answer"
  /\ console' = [console EXCEPT ![o].pc = "prompt"]
  /\ UNCHANGED <<policy, trail, executed, tries>>

Next == \E o \in Operators : Submit(o) \/ Run(o) \/ Report(o) \/ Answer(o)

Spec == Init /\ [][Next]_vars

-----------------------------------------------------------------------------

TypeOK ==
  /\ policy \in Policies /\ tries \in 0 .. MaxTries
  /\ \A o \in Operators : console[o].pc \in {"prompt", "run", "report", "answer"}

\* an operator's entries of what ran, what the database ran for him, and the place of
\* one among them
TrailOf(o) == {i \in DOMAIN trail : trail[i].by = o /\ trail[i].rowCount # NoRows}
RunsOf(o) == {i \in DOMAIN executed : executed[i].by = o}
Rank(i, S) == Cardinality({j \in S : j <= i})
Waiting(o) == console[o].pc = "report" /\ console[o].found # NoRows

\* "Every attempt - allowed or refused - reaches the audit hook" before its operator
\* sees an answer, and nothing else does: what the database ran for an operator is
\* what his entries say, in order, but for the statement he still waits for.
TrailIsComplete ==
  /\ Len(trail) + Cardinality({o \in Operators : console[o].pc \in {"run", "report"}}) = tries
  /\ \A o \in Operators :
       /\ Cardinality(RunsOf(o)) = Cardinality(TrailOf(o)) + (IF Waiting(o) THEN 1 ELSE 0)
       /\ \A i \in TrailOf(o), j \in RunsOf(o) :
            Rank(i, TrailOf(o)) = Rank(j, RunsOf(o)) => trail[i].text = executed[j].text

\* Every statement of a text that the parser understood and the console ran is of a
\* granted kind, writes with a WHERE if that is asked for, and touches no table that
\* is denied or missing from the allow list; without the tables nothing passes an
\* allow list.
WhatRunsIsGranted ==
  \A o \in Operators :
    console[o].pc # "prompt" /\ ~console[o].refused =>
      LET text == console[o].text
      IN /\ console[o].parsed =>
              \A i \in DOMAIN text :
                /\ StatementCapability(text[i].type) \in policy.capabilities
                /\ policy.requireWhere /\ text[i].type \in {"update", "delete"} => text[i].where
         /\ ~console[o].parsed => "admin" \in policy.capabilities
         /\ console[o].listed => \A i \in DOMAIN text : text[i].table \notin policy.deny
         /\ policy.lists => console[o].listed
                            /\ \A i \in DOMAIN text : text[i].table \in policy.allow \cup {None}

ConsoleIsAccountable == TrailIsComplete /\ WhatRunsIsGranted
=============================================================================
