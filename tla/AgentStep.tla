------------------------------ MODULE AgentStep ------------------------------
(***************************************************************************)
(* One run's steps, seen from the data they act on: the observation, the   *)
(* decision Jev makes of it, the approval policy, the execution, and the   *)
(* checkpoints and screenshots that put the observation on record.         *)
(*                                                                         *)
(* The page is not a variable: what an observation sees, and whether the   *)
(* target is still there when the action is executed, is the page's        *)
(* choice.  A head is a url with its title; the order of elements is left  *)
(* out.  BITWARDEN_CARD stands for the identity fill as well, SCROLL for   *)
(* going back and switching tabs.  What the request offers to Jev is left  *)
(* out too: no answer is checked against it, only against the observation. *)
(*                                                                         *)
(* The failures are those of Jev, the action, the records, the browser,    *)
(* the database and the process; the last four cut the run short.          *)
(* Research steps, pause, takeover and cancel are in Research and          *)
(* RunControl.                                                             *)
(***************************************************************************)
EXTENDS Integers, FiniteSets

CONSTANTS
  Elements,
  Modal,                  \* inside a dialog
  Sensitive,              \* its text matches the money_keyword rule
  Heads, Blank,           \* what the tab may show, and about:blank
  SensitiveHeads,         \* match the high_impact_url rule
  PointEvery, ShotEvery,  \* interval_steps of the two settings, 0 disables
  ChangeNum, ChangeDen,   \* dom_change_ratio
  None,
  MaxSteps

ASSUME AgentStepAssumption ==
  /\ Modal \subseteq Elements /\ Sensitive \subseteq Elements
  /\ IsFiniteSet(Elements)
  /\ Blank \in Heads /\ SensitiveHeads \subseteq Heads
  /\ {PointEvery, ShotEvery, ChangeNum, MaxSteps} \subseteq Nat
  /\ ChangeDen \in Nat \ {0}
  /\ None \notin [head : Heads, elements : SUBSET Elements, errors : 0..1]

VARIABLES
  at,         \* where the step is
  why,        \* force_reason of the records being taken
  steps,
  obs,        \* the observation of this step
  action,     \* the AgentAction decided on
  granted,    \* the human approved the action
  point, shot,            \* _last_fingerprint of the two writers
  sincePoint, sinceShot,  \* their _steps_since_...
  stored, pictured,       \* history: what was last written by each of them
  open,       \* action_requested is on record, its outcome not
  cut         \* a failure cut the run short

points  == <<point, sincePoint, stored>>
shots   == <<shot, sinceShot, pictured>>
writers == <<points, shots>>
vars == <<at, why, steps, obs, action, granted, writers, open, cut>>

-----------------------------------------------------------------------------
(* Observations and actions                                                *)

Bitwarden == {"BITWARDEN_LOGIN", "BITWARDEN_CARD"}
Targeted  == {"CLICK", "TYPE_TEXT"} \cup Bitwarden

Observation == [head : Heads, elements : SUBSET Elements, errors : 0..1]

Limited_Unmarked(elements) == elements

\* _limit_to_modal_candidates
Limited(elements) == IF elements \cap Modal # {} THEN elements \cap Modal ELSE elements

\* from_jev_response and _resolve_target_answer: any candidate will do as a target,
\* whatever was asked for it, and any url.
Actions(o) ==
  [kind : Targeted, target : o.elements, url : {Blank}, sure : BOOLEAN]
    \cup [kind : {"NAVIGATE"}, target : {None}, url : Heads, sure : BOOLEAN]
    \cup [kind : {"SCROLL", "DONE"}, target : {None}, url : {Blank}, sure : BOOLEAN]

\* ApprovalPolicy.evaluate over approval_policy.toml, first match.
NeedsApproval(a) ==
  \/ a.kind \in Bitwarden
  \/ a.kind = "CLICK" /\ a.target \in Sensitive
  \/ a.kind = "NAVIGATE" /\ a.url \in SensitiveHeads
  \/ ~a.sure

\* jaccard_distance >= dom_change_ratio
MajorChange(x, y) ==
  x # y /\ ChangeDen * (Cardinality(x \cup y) - Cardinality(x \cap y))
             >= ChangeNum * Cardinality(x \cup y)

Due(every, since) == every > 0 /\ since >= every

PointDue_Unforced(last, o, since, force) ==
  \/ last = None
  \/ last # None /\ \/ o.head # last.head
                    \/ MajorChange(last.elements, o.elements)
                    \/ o.errors > last.errors
  \/ Due(PointEvery, since)

\* decide_checkpoint
PointDue(last, o, since, force) ==
  \/ force # "none"
  \/ last = None
  \/ last # None /\ \/ o.head # last.head
                    \/ MajorChange(last.elements, o.elements)
                    \/ o.errors > last.errors
  \/ Due(PointEvery, since)

\* decide_screenshot
ShotDue(last, o, since, force) ==
  \/ force # "none"
  \/ last = None
  \/ last # None /\ o.head # last.head
  \/ Due(ShotEvery, since)

-----------------------------------------------------------------------------
Init ==
  /\ at = "observe" /\ why = "none" /\ steps = 0
  /\ obs = None /\ action = None /\ granted = FALSE
  /\ point = None /\ shot = None /\ sincePoint = 0 /\ sinceShot = 0
  /\ stored = None /\ pictured = None
  /\ open = FALSE /\ cut = FALSE

Goes(to) == at' = to

\* The locals of a step that is over.
NextStep == /\ Goes("observe") /\ why' = "none"
            /\ obs' = None /\ action' = None /\ granted' = FALSE

Observe_Unbounded ==
  /\ at = "observe"
  /\ \E raw \in Observation : obs' = [raw EXCEPT !.elements = Limited(@)]
  /\ steps' = steps + 1
  /\ Goes("checkpoint")
  /\ UNCHANGED <<why, action, granted, writers, open, cut>>

Observe ==
  /\ at = "observe" /\ steps < MaxSteps
  /\ \E raw \in Observation : obs' = [raw EXCEPT !.elements = Limited(@)]
  /\ steps' = steps + 1
  /\ Goes("checkpoint")
  /\ UNCHANGED <<why, action, granted, writers, open, cut>>

StepsExceeded ==
  /\ at = "observe" /\ steps = MaxSteps
  /\ Goes("ended")
  /\ UNCHANGED <<why, steps, obs, action, granted, writers, open, cut>>

Checkpoint_Slides ==
  /\ at = "checkpoint"
  /\ point' = obs
  /\ IF PointDue(point, obs, sincePoint + 1, why)
     THEN stored' = obs /\ sincePoint' = 0
     ELSE sincePoint' = sincePoint + 1 /\ UNCHANGED stored
  /\ Goes("screenshot")
  /\ UNCHANGED <<why, steps, obs, action, granted, shots, open, cut>>

\* maybe_checkpoint, and its own commit when it writes.
Checkpoint ==
  /\ at = "checkpoint"
  /\ IF PointDue(point, obs, sincePoint + 1, why)
     THEN point' = obs /\ stored' = obs /\ sincePoint' = 0
     ELSE sincePoint' = sincePoint + 1 /\ UNCHANGED <<point, stored>>
  /\ Goes("screenshot")
  /\ UNCHANGED <<why, steps, obs, action, granted, shots, open, cut>>

After(reason) == CASE reason = "none"     -> "decide"
                   [] reason = "approval" -> "waiting"
                   [] reason = "error"    -> "failing"
                   [] OTHER               -> "done"

\* maybe_screenshot: filed under the observation, whatever the page shows by now.
Screenshot ==
  /\ at = "screenshot"
  /\ IF ShotDue(shot, obs, sinceShot + 1, why)
     THEN shot' = obs /\ pictured' = obs /\ sinceShot' = 0
     ELSE sinceShot' = sinceShot + 1 /\ UNCHANGED <<shot, pictured>>
  /\ Goes(After(why))
  /\ UNCHANGED <<why, steps, obs, action, granted, points, open, cut>>

\* No image from the page, or no room in the store: the step is aborted and the
\* run fails, before whatever event the record was to precede.
RecordFails ==
  /\ at \in {"checkpoint", "screenshot"} /\ cut' = TRUE
  /\ Goes("ended")
  /\ UNCHANGED <<why, steps, obs, action, granted, writers, open>>

Decide ==
  /\ at = "decide"
  /\ \E a \in Actions(obs) :
       /\ action' = a
       /\ IF NeedsApproval(a) THEN Goes("checkpoint") /\ why' = "approval"
                              ELSE Goes("ready") /\ UNCHANGED why
  /\ UNCHANGED <<steps, obs, granted, writers, open, cut>>

\* JevClientError, or JevAdapterError: the call failed, the operation is unknown, an
\* answer it needs is missing, or the target is no candidate.
DecideFails ==
  /\ at = "decide"
  /\ Goes("ended")
  /\ UNCHANGED <<why, steps, obs, action, granted, writers, open, cut>>

Grant ==
  /\ at = "waiting"
  /\ granted' = TRUE /\ why' = "none" /\ Goes("ready")
  /\ UNCHANGED <<steps, obs, action, writers, open, cut>>

\* Denied, timed out or cancelled.
Withheld ==
  /\ at = "waiting"
  /\ Goes("ended")
  /\ UNCHANGED <<why, steps, obs, action, granted, writers, open, cut>>

\* maybe_fill_type_text found no text: action_failed without a request.
NoText ==
  /\ at = "ready" /\ action.kind = "TYPE_TEXT"
  /\ Goes("ended")
  /\ UNCHANGED <<why, steps, obs, action, granted, writers, open, cut>>

\* action_requested and its commit, before the browser is touched.
RequestAction ==
  /\ at = "ready"
  /\ open' = TRUE /\ Goes("execute")
  /\ UNCHANGED <<why, steps, obs, action, granted, writers, cut>>

\* The process dies, and recover_runs fails the run when it is back; or the next
\* commit fails, and with it goes what it was to record.
Interrupted ==
  /\ at # "ended" /\ cut' = TRUE
  /\ Goes("ended")
  /\ UNCHANGED <<why, steps, obs, action, granted, writers, open>>

\* action_completed; only a navigation or a vault fill is photographed.
Executed ==
  /\ at = "execute" /\ action.kind # "BITWARDEN_CARD"
  /\ open' = FALSE
  /\ IF action.kind \in Bitwarden \cup {"NAVIGATE"}
     THEN Goes("screenshot") /\ why' = "destructive"
     ELSE Goes("done") /\ UNCHANGED why
  /\ UNCHANGED <<steps, obs, action, granted, writers, cut>>

\* The target is gone, the page refused, or the human holds the browser: the records
\* are taken first, then comes action_failed.
ExecuteFails ==
  /\ at = "execute"
  /\ Goes("checkpoint") /\ why' = "error"
  /\ UNCHANGED <<steps, obs, action, granted, writers, open, cut>>

\* The browser is gone: the exception ends the run with the request unanswered.
ExecuteRaises ==
  /\ at = "execute" /\ cut' = TRUE
  /\ Goes("ended")
  /\ UNCHANGED <<why, steps, obs, action, granted, writers, open>>

ActionFailed_Silent ==
  /\ at = "failing"
  /\ \/ NextStep /\ UNCHANGED open
     \/ Goes("ended") /\ open' = FALSE /\ UNCHANGED <<why, obs, action, granted>>
  /\ UNCHANGED <<steps, writers, cut>>

\* action_failed; an armed step retry observes again, otherwise the run fails.
ActionFailed ==
  /\ at = "failing"
  /\ open' = FALSE
  /\ \/ NextStep
     \/ Goes("ended") /\ UNCHANGED <<why, obs, action, granted>>
  /\ UNCHANGED <<steps, writers, cut>>

StepDone ==
  /\ at = "done"
  /\ IF action.kind = "DONE" THEN Goes("ended") /\ UNCHANGED <<why, obs, action, granted>>
                             ELSE NextStep
  /\ UNCHANGED <<steps, writers, open, cut>>

Next ==
  \/ Observe \/ StepsExceeded \/ Checkpoint \/ Screenshot \/ RecordFails
  \/ Decide \/ DecideFails \/ Grant \/ Withheld \/ NoText
  \/ RequestAction \/ Executed \/ ExecuteFails \/ ExecuteRaises
  \/ ActionFailed \/ StepDone \/ Interrupted

StepSpec == Init /\ [][Next]_vars

-----------------------------------------------------------------------------
(* Properties                                                              *)

Acting == {"ready", "execute"}

\* Types of the step, the two writers and the history.
TypeOK ==
  /\ at \in {"observe", "checkpoint", "screenshot", "decide", "waiting", "ready", "execute",
             "failing", "done", "ended"}
  /\ why \in {"none", "approval", "error", "destructive"}
  /\ steps \in 0..MaxSteps
  /\ {obs, point, shot, stored, pictured} \subseteq Observation \cup {None}
  /\ {granted, open, cut} \subseteq BOOLEAN
  /\ sincePoint \in Nat /\ sinceShot \in Nat

\* Small changes do not add up unseen: whenever a decision is made, the last
\* checkpoint is of the same page, differs by less than the major ratio, has seen the
\* errors and is not older than the interval; the last screenshot is of this page.
\* (decide_checkpoint and decide_screenshot compare with what was written last.)
DecidesOnRecord ==
  at = "decide" =>
    /\ stored # None /\ pictured # None
    /\ stored.head = obs.head /\ ~MajorChange(stored.elements, obs.elements)
    /\ obs.errors <= stored.errors
    /\ PointEvery > 0 => sincePoint < PointEvery
    /\ pictured.head = obs.head
    /\ ShotEvery > 0 => sinceShot < ShotEvery

\* An operator who is asked, and one who looks at a failure, finds exactly the
\* observation of that step on record, even when it was too like the last one to be
\* written by itself (loop.py, force_reason approval and error).
JudgedOnRecord ==
  /\ at = "waiting" \/ (at \in Acting /\ granted) => stored = obs /\ pictured = obs
  /\ at = "failing" => stored = obs /\ pictured = obs

\* Nothing is executed on an element that was not shown to Jev, nor behind the dialog
\* that was open (_limit_to_modal_candidates, candidate_by_index).
ActsWithinView ==
  at \in Acting /\ action.kind \in Targeted =>
    /\ action.target \in obs.elements
    /\ obs.elements \cap Modal # {} => action.target \in Modal

\* Between steps, and when the run is over, every requested action has its outcome in
\* the log, unless the run was cut short: the browser was lost, the records of a
\* failure could not be written, the process died or the outcome's commit failed
\* (loop.py _step, recover_runs).
RequestsAnswered == open => at \notin {"observe", "decide"} /\ (at = "ended" => cut)
=============================================================================
