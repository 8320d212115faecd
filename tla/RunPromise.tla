----------------------------- MODULE RunPromise -----------------------------
(***************************************************************************)
(* What an operator who looks at a run relies on, with the worker, its     *)
(* gates, the hub and the request handlers left out: the status on screen, *)
(* the page actions since it was set, and the approvals not yet used.      *)
(***************************************************************************)
EXTENDS Naturals, RunStatus

VARIABLES
  status,   \* runs.status, as the page shows it
  acts,     \* page actions since that status was committed
  credit    \* approvals committed and not spent by an action

Init == status = "queued" /\ acts = 0 /\ credit = 0

\* The status changes.  A pending approval cannot turn into a success without a
\* status in between, nor can a run that has succeeded ask for one.
Turns(to) ==
  /\ to # status
  /\ {status, to} # {"awaiting_approval", "succeeded"}
  /\ status' = to /\ acts' = 0
  /\ UNCHANGED credit

\* An approval is committed, with the status that lets the run go on.
Approves ==
  /\ status' = "running" /\ credit' = credit + 1
  /\ acts' = IF status = "running" THEN acts ELSE 0

\* The page is acted on: once after a hold was committed, never while an approval is
\* pending or after the run has succeeded, and at the cost of an approval or of none.
Acts ==
  /\ status \notin {"awaiting_approval", "succeeded"}
  /\ status \in {"paused", "awaiting_human", "cancelled"} => acts = 0
  /\ acts' = acts + 1
  /\ \E cost \in {0, 1} : cost <= credit /\ credit' = credit - cost
  /\ UNCHANGED status

Next == (\E to \in Statuses : Turns(to)) \/ Approves \/ Acts

Spec == Init /\ [][Next]_<<status, acts, credit>>
=============================================================================
