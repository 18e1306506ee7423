--------------------------- MODULE OutboxDelivery ---------------------------
(***************************************************************************)
(* What the outbox promises about each committed event, with no relay in   *)
(* sight: the broker takes it any number of times while it is pending, it  *)
(* is reported sent only if the broker took it, and the report is final    *)
(* and eventually made (header and OutboxRelay of src/db/outbox.ts).       *)
(***************************************************************************)
CONSTANT Events

VARIABLES
  outcome,   \* what the event's row says
  accepted   \* events the broker has taken at least once

vars == <<outcome, accepted>>

Init ==
  /\ outcome = [e \in Events |-> "absent"]
  /\ accepted = {}

Become(e, from, to) ==
  /\ outcome[e] = from
  /\ outcome' = [outcome EXCEPT ![e] = to]

Commit(e) == Become(e, "absent", "pending") /\ UNCHANGED accepted

Deliver(e) ==
  /\ outcome[e] = "pending"
  /\ accepted' = accepted \cup {e}
  /\ UNCHANGED outcome

Confirm(e) ==
  /\ e \in accepted
  /\ Become(e, "pending", "sent")
  /\ UNCHANGED accepted

GiveUp(e) == Become(e, "pending", "failed") /\ UNCHANGED accepted

Next == \E e \in Events : Commit(e) \/ Deliver(e) \/ Confirm(e) \/ GiveUp(e)

Spec ==
  /\ Init /\ [][Next]_vars
  /\ \A e \in Events : WF_vars(Confirm(e) \/ GiveUp(e))
=============================================================================
