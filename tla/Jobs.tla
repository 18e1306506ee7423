-------------------------------- MODULE Jobs --------------------------------
(***************************************************************************)
(* The job rows of src/tasks/jobs.ts: workers report a run through         *)
(* JobStore.start / succeed / fail while operators cancel it from the      *)
(* admin panel.  Every transition is an update by id; only cancel reads    *)
(* the row first, and that read and its update are two awaits.             *)
(*                                                                         *)
(* The queue that hands a job to a worker is outside the store: a job is   *)
(* handed to one worker at a time, again after a failed attempt while      *)
(* attempts are left, and again after a worker died holding it.            *)
(***************************************************************************)
EXTENDS Naturals

CONSTANTS
  Jobs,
  Workers,
  Operators,
  MaxAttempts,   \* bound: attempts the queue makes at a failing job
  MaxCrashes,    \* bound: workers that die
  NoJob

JobsAssumption ==
  /\ MaxAttempts \in Nat \ {0}
  /\ MaxCrashes \in Nat
  /\ NoJob \notin Jobs

VARIABLES
  row,        \* the job table
  queue,      \* jobs waiting for a worker
  holding,    \* the job each worker runs
  cancelling, \* the job each operator has read as live and is about to cancel
  crashes

vars == <<row, queue, holding, cancelling, crashes>>

TERMINAL == {"succeeded", "failed", "cancelled"}
JobStatus == {"queued", "running"} \cup TERMINAL

\* "absent" until enqueue; the other columns by what is visible of them
Row == [status : JobStatus \cup {"absent"}, attempts : Nat,
        result : BOOLEAN, error : BOOLEAN, started : BOOLEAN, finished : BOOLEAN]

TypeOK ==
  /\ row \in [Jobs -> Row]
  /\ queue \subseteq Jobs
  /\ holding \in [Workers -> Jobs \cup {NoJob}]
  /\ cancelling \in [Operators -> Jobs \cup {NoJob}]
  /\ crashes \in Nat

NoRow == [status |-> "absent", attempts |-> 0, result |-> FALSE, error |-> FALSE,
          started |-> FALSE, finished |-> FALSE]

Init ==
  /\ row = [j \in Jobs |-> NoRow]
  /\ queue = {}
  /\ holding = [w \in Workers |-> NoJob]
  /\ cancelling = [o \in Operators |-> NoJob]
  /\ crashes = 0

-----------------------------------------------------------------------------
(* JobStore *)

Enqueue(j) ==
  /\ row[j].status = "absent"
  /\ row' = [row EXCEPT ![j].status = "queued"]
  /\ queue' = queue \cup {j}
  /\ UNCHANGED <<holding, cancelling, crashes>>

\* start(id, attempt): the queue counts the attempts
Start(w, j) ==
  /\ holding[w] = NoJob
  /\ j \in queue
  /\ queue' = queue \ {j}
  /\ holding' = [holding EXCEPT ![w] = j]
  /\ row' = [row EXCEPT ![j] = [@ EXCEPT
       !.status = "running", !.started = TRUE,
       !.attempts = row[j].attempts + 1]]
  /\ UNCHANGED <<cancelling, crashes>>

\* faulty variant: the error of an earlier attempt is left
SucceedKeepsError(w) ==
  /\ holding[w] # NoJob
  /\ row' = [row EXCEPT ![holding[w]] = [@ EXCEPT
       !.status = "succeeded", !.result = TRUE, !.finished = TRUE]]
  /\ holding' = [holding EXCEPT ![w] = NoJob]
  /\ UNCHANGED <<queue, cancelling, crashes>>

Succeed(w) ==
  /\ holding[w] # NoJob
  /\ row' = [row EXCEPT ![holding[w]] = [@ EXCEPT
       !.status = "succeeded", !.result = TRUE, !.error = FALSE, !.finished = TRUE]]
  /\ holding' = [holding EXCEPT ![w] = NoJob]
  /\ UNCHANGED <<queue, cancelling, crashes>>

\* faulty variant: a failing run is put back without a word in its row
FailUnreported(w) ==
  /\ holding[w] # NoJob
  /\ holding' = [holding EXCEPT ![w] = NoJob]
  /\ UNCHANGED <<row, queue, cancelling, crashes>>

Fail(w) ==
  /\ holding[w] # NoJob
  /\ row' = [row EXCEPT ![holding[w]] = [@ EXCEPT
       !.status = "failed", !.error = TRUE, !.finished = TRUE]]
  /\ queue' = IF row[holding[w]].attempts < MaxAttempts
              THEN queue \cup {holding[w]} ELSE queue
  /\ holding' = [holding EXCEPT ![w] = NoJob]
  /\ UNCHANGED <<cancelling, crashes>>

\* cancel(): the read.  For a missing or terminal row it returns false, no step here.
CancelRead(o, j) ==
  /\ cancelling[o] = NoJob
  /\ row[j].status \notin TERMINAL \cup {"absent"}
  /\ cancelling' = [cancelling EXCEPT ![o] = j]
  /\ UNCHANGED <<row, queue, holding, crashes>>

\* cancel(): the update, of whatever the row has become
CancelWrite(o) ==
  /\ cancelling[o] # NoJob
  /\ row' = [row EXCEPT ![cancelling[o]] = [@ EXCEPT
       !.status = "cancelled", !.finished = TRUE]]
  /\ cancelling' = [cancelling EXCEPT ![o] = NoJob]
  /\ UNCHANGED <<queue, holding, crashes>>

\* a worker dies with the job in hand; the queue hands the job out again
WorkerDies(w) ==
  /\ holding[w] # NoJob
  /\ crashes < MaxCrashes
  /\ crashes' = crashes + 1
  /\ queue' = queue \cup {holding[w]}
  /\ holding' = [holding EXCEPT ![w] = NoJob]
  /\ UNCHANGED <<row, cancelling>>

-----------------------------------------------------------------------------

Next ==
  \/ \E j \in Jobs : Enqueue(j)
  \/ \E w \in Workers, j \in Jobs : Start(w, j)
  \/ \E w \in Workers : Succeed(w) \/ Fail(w) \/ WorkerDies(w)
  \/ \E o \in Operators, j \in Jobs : CancelRead(o, j)
  \/ \E o \in Operators : CancelWrite(o)

Spec == Init /\ [][Next]_vars

\* An idle worker takes a waiting job, and a run returns or throws.
Fairness ==
  /\ \A w \in Workers : WF_vars(Succeed(w) \/ Fail(w))
  /\ WF_vars(\E w \in Workers, j \in Jobs : Start(w, j))
  /\ \A o \in Operators : WF_vars(CancelWrite(o))

FairSpec == Spec /\ Fairness

-----------------------------------------------------------------------------
(* What an operator may read off the table *)

\* "a status without a finishedAt is the kind of half-written row that makes a
\* history screen lie": no interleaving or crash leaves a terminal row open.
TerminalIsDated ==
  \A j \in Jobs : row[j].status \in TERMINAL => row[j].finished

\* A SUCCEEDED row shows a result and no error, whatever attempts failed before.
SucceededIsClean ==
  \A j \in Jobs :
    row[j].status = "succeeded" => row[j].result /\ ~row[j].error

\* A job does not stay queued or running for ever: its row ends terminal, through
\* failures, cancellations and dying workers.
EndsTerminal ==
  \A j \in Jobs : row[j].status = "queued" ~> [](row[j].status \in TERMINAL)

\* CANCELLED is among the "Statuses a job can no longer leave."
CancelledIsFinal ==
  [][\A j \in Jobs : row[j].status = "cancelled" => row'[j].status = "cancelled"]_row
=============================================================================
