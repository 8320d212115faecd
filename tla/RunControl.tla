----------------------------- MODULE RunControl -----------------------------
(***************************************************************************)
(* One run under control: the runs row and its human_approvals rows in     *)
(* Postgres, the request handlers of the operators, the in-process signals *)
(* of the control hub, and the worker task that drives the agent loop.     *)
(*                                                                         *)
(* Every read and every commit of the database is a step of its own.  A    *)
(* handler reads the row without a lock and commits a new status later;    *)
(* the worker reads the row afresh in its gates, and writes it from the    *)
(* copy its long-lived session cached (session.get returns the identity    *)
(* map's object, expire_on_commit is off).                                 *)
(*                                                                         *)
(* Left out: what the page, the model and the audit trail contain; the     *)
(* wake event, which is only a hint (every wait also polls the row); and   *)
(* finished_at, which is set whenever a terminal status is written.        *)
(***************************************************************************)
EXTENDS Naturals, Sequences, FiniteSets, RunStatus

CONSTANTS
  Clients,      \* request handlers that may be in flight together
  Ops,          \* the operator requests that are made, and "restart"
  Actions,      \* the kinds of decision the model may return
  MaxSteps,     \* RunWorkerSettings.max_steps
  MaxRequests   \* bound on the requests and restarts of a behaviour

StatusOps == {"pause", "resume", "cancel", "take_control", "release_control"}
OperatorOps == StatusOps \cup {"approve", "reject", "retry", "retry_step"}

(* A "safe" action needs no approval, a "gated" one does; "done" ends the  *)
(* run through the executor; "extract" and "answer" are the research       *)
(* branch (EXTRACT, and DONE with output fields).                          *)
ActionKinds == {"safe", "gated", "done", "extract", "answer"}

ASSUME ConstantsAssumption ==
  /\ Clients # {} /\ IsFiniteSet(Clients)
  /\ Ops \subseteq OperatorOps \cup {"restart"}
  /\ Actions \subseteq ActionKinds
  /\ MaxSteps \in Nat \ {0}
  /\ MaxRequests \in Nat

VARIABLES
  status,    \* runs.status as committed
  rows,      \* human_approvals.status of the run's rows, oldest first
  req,       \* what each handler has read and still has to do
  asked,     \* operator requests and restarts so far
  pc,        \* where the worker task is; "none" when there is no live task
  gate,      \* the control gate the worker is in, or was in last
  cached,    \* runs.status in the worker session's identity map
  step,      \* steps started by the loop
  action,    \* the decision of this step
  outcome,   \* status of the LoopOutcome being persisted
  own,       \* RunControlSignals object the worker holds
  attached,  \* TRUE while the hub's entry for the run is that object
  other,     \* the hub's entry otherwise (NoSignals when there is none)
  sent,      \* history: page actions sent since the status last changed
  grants,    \* history: approvals committed as granted
  spent      \* history: actions sent that needed an approval

db      == <<status, rows>>
hub     == <<own, attached, other>>
worker  == <<pc, gate, cached, step, action, outcome>>
history == <<sent, grants, spent>>
vars    == <<db, req, asked, worker, hub, history>>

-----------------------------------------------------------------------------
(* Types                                                                   *)

Reasons == {"between_steps", "before_observe", "before_decide",
            "before_execute", "before_research_model", "after_research_model"}

(* The reads of _control_gate in their order: "cancelled" and "recheck"    *)
(* are the first and the last cancel check; "held" is the takeover check   *)
(* that sets waited_for_human; the two waits alternate a cancel check with *)
(* the check of what they wait for.                                        *)
Stages == {"cancelled", "held", "human_cancelled", "human",
           "pause_cancelled", "pause", "recheck"}

Gates == [reason : Reasons, stage : Stages, waited : BOOLEAN]

Decisions == {"none", "granted", "denied"}
Signals   == [approval_decision : Decisions, step_retry_armed : BOOLEAN]
NoSignals == [approval_decision |-> "none", step_retry_armed |-> FALSE]

Requests == [op : OperatorOps \cup {"none", "create"},
             phase : {"idle", "write", "wake", "start", "starting"},
             row : Nat]
Idle == [op |-> "none", phase |-> "idle", row |-> 0]

Waiting  == {"awaiting", "wait", "granted", "expire", "deny", "fail"}
Stepping == {"observe", "decide", "request", "read", "model", "record",
             "guard", "execute", "failed"}
Ending   == {"refresh", "persist", "discard", "release"}
Phases   == {"none", "queued", "acquire", "gate"}
              \cup Waiting \cup Stepping \cup Ending

TypeOK ==
  /\ status \in Statuses /\ cached \in Statuses
  /\ rows \in Seq({"requested", "granted", "denied"})
  /\ req \in [Clients -> Requests]
  /\ asked \in 0..MaxRequests
  /\ pc \in Phases /\ gate \in Gates
  /\ step \in 0..MaxSteps
  /\ action \in ActionKinds \cup {"none"}
  /\ outcome \in TERMINAL_STATUSES
  /\ own \in Signals /\ other \in Signals /\ attached \in BOOLEAN
  /\ sent \in Nat /\ grants \in Nat /\ spent \in Nat

-----------------------------------------------------------------------------
(* The database and the hub                                                *)

(* A commit of runs.status.                                                *)
Commit(s) ==
  /\ status' = s
  /\ sent' = IF s = status THEN sent ELSE 0

(* The worker's set_status: the row it tests and changes is the cached     *)
(* one, and an attribute set to the value it already has emits no UPDATE.  *)
set_status(s) ==
  IF cached \in {"cancelled", "awaiting_human", s}
    THEN UNCHANGED <<status, cached, sent>>
    ELSE Commit(s) /\ cached' = s

(* RunControlHub: the entry signals_for(run) returns, created when absent. *)
signals_for == IF attached THEN own ELSE other

PutSignals(sig) ==
  IF attached THEN own' = sig /\ UNCHANGED <<other, attached>>
              ELSE other' = sig /\ UNCHANGED <<own, attached>>

set_approval_decision(d) ==
  PutSignals([signals_for EXCEPT !.approval_decision = d])

arm_step_retry == PutSignals([signals_for EXCEPT !.step_retry_armed = TRUE])

discard == attached' = FALSE /\ other' = NoSignals /\ UNCHANGED own

bind_signals == own' = other /\ attached' = TRUE /\ other' = NoSignals

-----------------------------------------------------------------------------
(* Request handlers                                                        *)

(* The status check every service makes before it changes the run.  The    *)
(* idempotent answers (pause of a paused run, ...) and the 409 answers     *)
(* change nothing and are not steps.                                       *)
Accepts(op) ==
  \/ op = "pause"           /\ is_pausable(status)
  \/ op = "resume"          /\ is_resumable(status)
  \/ op = "cancel"          /\ is_cancellable(status)
  \/ op = "take_control"    /\ is_takeoverable(status)
  \/ op = "release_control" /\ is_releasable(status)
  \/ op = "retry"           /\ is_retryable_failed(status)
  \/ op = "retry_step"      /\ status \in {"running", "paused"}
  \/ op \in {"approve", "reject"} /\ status = "awaiting_approval"

Target == [pause |-> "paused", resume |-> "running", cancel |-> "cancelled",
           take_control |-> "awaiting_human", release_control |-> "running"]

(* get_pending_approval: the newest row that is still requested.           *)
NewestRequested(r) ==
  /\ r \in DOMAIN rows /\ rows[r] = "requested"
  /\ \A i \in DOMAIN rows : rows[i] = "requested" => i <= r

Reply(c) == req' = [req EXCEPT ![c] = Idle]

(* A handler loads the row, and for approve and reject the pending one.    *)
Receive(c, op) ==
  /\ req[c] = Idle /\ asked < MaxRequests
  /\ Accepts(op)
  /\ asked' = asked + 1
  /\ \E r \in 0..Len(rows) :
       /\ IF op \in {"approve", "reject"} THEN NewestRequested(r) ELSE r = 0
       /\ req' = [req EXCEPT ![c] = [op |-> op, phase |-> "write", row |-> r]]
  /\ UNCHANGED <<db, worker, hub, history>>

(* pause_run, resume_run, cancel_run, take_control, release_control.       *)
ChangeStatus(c) ==
  /\ req[c].phase = "write" /\ req[c].op \in StatusOps
  /\ Commit(Target[req[c].op])
  /\ Reply(c)
  /\ UNCHANGED <<rows, asked, worker, hub, grants, spent>>

(* _decide commits first ...                                               *)
Decide(c) ==
  /\ req[c].phase = "write" /\ req[c].op \in {"approve", "reject"}
  /\ LET granted == req[c].op = "approve" IN
       /\ rows' = [rows EXCEPT ![req[c].row] =
                     IF granted THEN "granted" ELSE "denied"]
       /\ Commit(IF granted THEN "running" ELSE "failed")
       /\ grants' = IF granted THEN grants + 1 ELSE grants
  /\ req' = [req EXCEPT ![c].phase = "wake"]
  /\ UNCHANGED <<asked, worker, hub, spent>>

(* ... and then tells the worker that is parked on the gate.               *)
Wake(c) ==
  /\ req[c].phase = "wake"
  /\ set_approval_decision(IF req[c].op = "approve" THEN "granted" ELSE "denied")
  /\ Reply(c)
  /\ UNCHANGED <<db, asked, worker, history>>

(* retry_run of a failed run: requeue it, forget its signals.              *)
Requeue(c) ==
  /\ req[c].phase = "write" /\ req[c].op = "retry"
  /\ Commit("queued")
  /\ discard
  /\ req' = [req EXCEPT ![c].phase = "start"]
  /\ UNCHANGED <<rows, asked, worker, grants, spent>>

(* retry_run of a live run: arm one step retry.                            *)
ArmStep(c) ==
  /\ req[c].phase = "write" /\ req[c].op = "retry_step"
  /\ arm_step_retry
  /\ Reply(c)
  /\ UNCHANGED <<db, asked, worker, history>>

(* Mutant of StartLoads: a terminal run without a task is given one.       *)
StartLoads_Terminal(c) ==
  /\ req[c].phase = "start"
  /\ \A d \in Clients : req[d].phase # "starting"
  /\ \/ /\ pc # "none"
        /\ Reply(c)
        /\ UNCHANGED pc
     \/ /\ pc = "none" /\ status \in TERMINAL_STATUSES \cup {"running"}
        /\ Reply(c)
        /\ pc' = "queued"
     \/ /\ pc = "none" /\ status \notin TERMINAL_STATUSES \cup {"running"}
        /\ req' = [req EXCEPT ![c].phase = "starting"]
        /\ UNCHANGED pc
  /\ UNCHANGED <<db, asked, gate, cached, step, action, outcome, hub, history>>

(* start_run, called by the create and the retry routes after their        *)
(* commit.  Its lock admits one caller at a time.  A live task is returned *)
(* as it is; a terminal run is refused; a running one gets its task now.   *)
StartLoads(c) ==
  /\ req[c].phase = "start"
  /\ \A d \in Clients : req[d].phase # "starting"
  /\ \/ /\ pc # "none" \/ status \in TERMINAL_STATUSES
        /\ Reply(c)
        /\ UNCHANGED pc
     \/ /\ pc = "none" /\ status = "running"
        /\ Reply(c)
        /\ pc' = "queued"
     \/ /\ pc = "none" /\ status \notin TERMINAL_STATUSES \cup {"running"}
        /\ req' = [req EXCEPT ![c].phase = "starting"]
        /\ UNCHANGED pc
  /\ UNCHANGED <<db, asked, gate, cached, step, action, outcome, hub, history>>

StartCommits(c) ==
  /\ req[c].phase = "starting"
  /\ Commit("running")
  /\ pc' = "queued"
  /\ Reply(c)
  /\ UNCHANGED <<rows, asked, gate, cached, step, action, outcome, hub,
                 grants, spent>>

Handler(c) ==
  \/ ChangeStatus(c) \/ Decide(c) \/ Wake(c) \/ Requeue(c) \/ ArmStep(c)
  \/ StartLoads(c) \/ StartCommits(c)

-----------------------------------------------------------------------------
(* The worker: control flow                                                *)

EnterGate(reason) ==
  /\ pc' = "gate"
  /\ gate' = [reason |-> reason, stage |-> "cancelled", waited |-> FALSE]

(* The loop returns a LoopOutcome, which run() hands to _persist_outcome.  *)
Finish(s) ==
  /\ pc' = "refresh" /\ outcome' = s /\ action' = "none"
  /\ UNCHANGED gate

(* Mutant of NextStep: the loop allows one step more than its budget.      *)
NextStep_OffByOne ==
  \/ /\ step <= MaxSteps
     /\ EnterGate("between_steps") /\ action' = "none"
     /\ UNCHANGED outcome
  \/ /\ step > MaxSteps
     /\ Finish("failed")

(* A step returned None: the while loop of run() goes on or gives up.      *)
NextStep ==
  \/ /\ step < MaxSteps
     /\ EnterGate("between_steps") /\ action' = "none"
     /\ UNCHANGED outcome
  \/ /\ step = MaxSteps
     /\ Finish("failed")

Go(phase) == pc' = phase /\ UNCHANGED <<gate, outcome, action>>

-----------------------------------------------------------------------------
(* The worker: one attempt                                                 *)

(* _guarded_run has the semaphore: the session caches the row.             *)
LoadRun ==
  /\ pc = "queued"
  /\ cached' = status /\ step' = 0
  /\ Go("acquire")
  /\ UNCHANGED <<db, req, asked, hub, history>>

(* Mutant of AcquireBrowser: an aborted start returns without an outcome.  *)
AcquireBrowser_Unpersisted ==
  /\ pc = "acquire"
  /\ \/ EnterGate("between_steps") /\ bind_signals
     \/ pc' = "release" /\ UNCHANGED <<gate, hub>>
  /\ UNCHANGED <<db, req, asked, cached, step, action, outcome, history>>

(* The browser session is attached and the hub's signals are bound, or the *)
(* attempt aborts (browser busy, Chrome down) with a failed outcome.       *)
AcquireBrowser ==
  /\ pc = "acquire"
  /\ \/ /\ EnterGate("between_steps")
        /\ bind_signals
        /\ UNCHANGED <<outcome, action>>
     \/ Finish("failed") /\ UNCHANGED hub
  /\ UNCHANGED <<db, req, asked, cached, step, history>>

(* What the last read of a gate opens.                                     *)
PassGate ==
  LET next == [before_observe |-> "observe",
               before_decide |-> "decide",
               before_execute |-> IF action \in {"extract", "answer"}
                                    THEN "read" ELSE "guard",
               before_research_model |-> "model",
               after_research_model  |-> "record"]
  IN /\ IF gate.reason = "between_steps"
          THEN EnterGate("before_observe")
          ELSE pc' = next[gate.reason] /\ UNCHANGED gate
     /\ step' = IF gate.reason = "between_steps" THEN step + 1 ELSE step
     /\ UNCHANGED <<outcome, action>>

Advance(stage) ==
  /\ gate' = [gate EXCEPT !.stage = stage]
  /\ UNCHANGED <<pc, outcome, action, step>>

(* One read of is_cancelled, alone or inside one of the waits.             *)
GateReadsCancelled ==
  /\ pc = "gate"
  /\ gate.stage \in {"cancelled", "human_cancelled", "pause_cancelled", "recheck"}
  /\ \/ /\ status = "cancelled"
        /\ Finish("cancelled") /\ UNCHANGED step
     \/ /\ status # "cancelled" /\ gate.stage # "recheck"
        /\ Advance([cancelled |-> "held", human_cancelled |-> "human",
                    pause_cancelled |-> "pause"][gate.stage])
     \/ /\ status # "cancelled" /\ gate.stage = "recheck"
        /\ PassGate
  /\ UNCHANGED <<db, req, asked, cached, hub, history>>

(* The takeover check before wait_while_awaiting_human.                    *)
GateReadsHeld ==
  /\ pc = "gate" /\ gate.stage = "held"
  /\ gate' = [gate EXCEPT !.stage = "human_cancelled",
                          !.waited = (status = "awaiting_human")]
  /\ UNCHANGED <<db, req, asked, pc, cached, step, action, outcome, hub, history>>

(* Mutant of GateReadsHuman: wait for "running" rather than for the end of *)
(* the takeover.                                                           *)
GateReadsHuman_UntilRunning ==
  /\ pc = "gate" /\ gate.stage = "human"
  /\ IF status = "running" THEN Advance("pause_cancelled")
                           ELSE Advance("human_cancelled")
  /\ UNCHANGED <<db, req, asked, cached, hub, history>>

(* Inside the wait; a worker that was held in mid-step observes afresh.    *)
GateReadsHuman ==
  /\ pc = "gate" /\ gate.stage = "human"
  /\ \/ /\ status = "awaiting_human"
        /\ Advance("human_cancelled")
     \/ /\ status # "awaiting_human"
        /\ gate.waited /\ gate.reason \notin {"between_steps", "before_observe"}
        /\ NextStep /\ UNCHANGED step
     \/ /\ status # "awaiting_human"
        /\ ~gate.waited \/ gate.reason \in {"between_steps", "before_observe"}
        /\ Advance("pause_cancelled")
  /\ UNCHANGED <<db, req, asked, cached, hub, history>>

(* Mutant of GateReadsPaused: the pause is polled only once.               *)
GateReadsPaused_Once ==
  /\ pc = "gate" /\ gate.stage = "pause"
  /\ Advance("recheck")
  /\ UNCHANGED <<db, req, asked, cached, hub, history>>

GateReadsPaused ==
  /\ pc = "gate" /\ gate.stage = "pause"
  /\ Advance(IF status = "paused" THEN "pause_cancelled" ELSE "recheck")
  /\ UNCHANGED <<db, req, asked, cached, hub, history>>

(* Observe, checkpoint and screenshot; each external call may raise.       *)
Observe ==
  /\ pc = "observe"
  /\ \/ /\ EnterGate("before_decide") /\ UNCHANGED <<outcome, action>>
     \/ Finish("failed")
  /\ UNCHANGED <<db, req, asked, cached, step, hub, sent, grants, spent>>

(* Jev decides, from_jev_response validates, needs_approval classifies.    *)
JevDecides ==
  /\ pc = "decide"
  /\ \/ \E a \in Actions :
          /\ action' = a
          /\ IF a = "gated" THEN pc' = "request" /\ UNCHANGED gate
                            ELSE EnterGate("before_execute")
          /\ UNCHANGED outcome
     \/ Finish("failed")
  /\ UNCHANGED <<db, req, asked, cached, step, hub, history>>

(* on_approval_requested inserts the pending row.                          *)
RequestApproval ==
  /\ pc = "request"
  /\ rows' = Append(rows, "requested")
  /\ Go("awaiting")
  /\ UNCHANGED <<status, req, asked, cached, step, hub, history>>

SetAwaitingApproval ==
  /\ pc = "awaiting"
  /\ set_status("awaiting_approval")
  /\ Go("wait")
  /\ UNCHANGED <<rows, req, asked, step, hub, grants, spent>>

(* wait_for_approval_decision: cancel, then a decision, then the deadline. *)
WaitReadsCancelled ==
  /\ pc = "wait" /\ status = "cancelled"
  /\ Finish("cancelled")
  /\ UNCHANGED <<db, req, asked, cached, step, hub, history>>

(* Mutant of ConsumeDecision: the decision is read but not cleared.        *)
ConsumeDecision_Kept ==
  /\ pc = "wait" /\ own.approval_decision # "none"
  /\ IF own.approval_decision = "granted" THEN Go("granted") ELSE Finish("failed")
  /\ UNCHANGED <<db, req, asked, cached, step, hub, history>>

ConsumeDecision ==
  /\ pc = "wait" /\ own.approval_decision # "none"
  /\ own' = [own EXCEPT !.approval_decision = "none"]
  /\ IF own.approval_decision = "granted" THEN Go("granted") ELSE Finish("failed")
  /\ UNCHANGED <<db, req, asked, cached, step, attached, other, history>>

ApprovalDeadline ==
  /\ pc = "wait" /\ own.approval_decision = "none"
  /\ Go("expire")
  /\ UNCHANGED <<db, req, asked, cached, step, hub, history>>

(* mark_approval_timed_out reads the row it was given, then writes it.     *)
TimeoutReadsRow ==
  /\ pc = "expire"
  /\ Go(IF rows[Len(rows)] = "requested" THEN "deny" ELSE "fail")
  /\ UNCHANGED <<db, req, asked, cached, step, hub, history>>

TimeoutDeniesRow ==
  /\ pc = "deny"
  /\ rows' = [rows EXCEPT ![Len(rows)] = "denied"]
  /\ Go("fail")
  /\ UNCHANGED <<status, req, asked, cached, step, hub, history>>

FailTimedOut ==
  /\ pc = "fail"
  /\ set_status("failed")
  /\ Finish("failed")
  /\ UNCHANGED <<rows, req, asked, step, hub, grants, spent>>

(* Mutant of SetRunningAgain: the run is not set back to running.          *)
SetRunningAgain_Silent ==
  /\ pc = "granted"
  /\ EnterGate("before_execute") /\ UNCHANGED <<outcome, action>>
  /\ UNCHANGED <<db, req, asked, cached, step, hub, history>>

SetRunningAgain ==
  /\ pc = "granted"
  /\ set_status("running")
  /\ EnterGate("before_execute") /\ UNCHANGED <<outcome, action>>
  /\ UNCHANGED <<rows, req, asked, step, hub, grants, spent>>

(* _research_step: a guarded fresh read of the page (an answer only checks *)
(* that there is evidence), the model, the record of the evidence.  A      *)
(* refused read abandons the step.                                         *)
ReadPage ==
  LET refused == action = "extract" /\ status = "awaiting_human" IN
  /\ pc = "read"
  /\ \/ refused /\ NextStep
     \/ /\ ~refused
        /\ EnterGate("before_research_model") /\ UNCHANGED <<outcome, action>>
     \/ ~refused /\ Finish("failed")
  /\ UNCHANGED <<db, req, asked, cached, step, hub, sent, grants, spent>>

ResearchModel ==
  /\ pc = "model"
  /\ \/ EnterGate("after_research_model") /\ UNCHANGED <<outcome, action>>
     \/ Finish("failed")
  /\ UNCHANGED <<db, req, asked, cached, step, hub, history>>

RecordResearch ==
  /\ pc = "record"
  /\ IF action = "answer" THEN Finish("succeeded") ELSE NextStep
  /\ UNCHANGED <<db, req, asked, cached, step, hub, history>>

(* The text model fills a TYPE_TEXT action and may raise; then             *)
(* TakeoverGuardedBrowserPort reads the row and refuses a held browser.    *)
Guard ==
  /\ pc = "guard"
  /\ \/ Go(IF status = "awaiting_human" THEN "failed" ELSE "execute")
     \/ Finish("failed")
  /\ UNCHANGED <<db, req, asked, cached, step, hub, history>>

(* The inner port acts on the page; it, or the audit of its result, may    *)
(* raise.                                                                  *)
Execute ==
  /\ pc = "execute"
  /\ sent' = sent + 1
  /\ spent' = IF action = "gated" THEN spent + 1 ELSE spent
  /\ \/ action = "done" /\ Finish("succeeded")
     \/ action # "done" /\ NextStep
     \/ Go("failed")
     \/ Finish("failed")
  /\ UNCHANGED <<db, req, asked, cached, step, hub, grants>>

(* A failed action fails the run unless a step retry was armed.            *)
ActionFailed ==
  /\ pc = "failed"
  /\ own' = [own EXCEPT !.step_retry_armed = FALSE]
  /\ IF own.step_retry_armed THEN NextStep ELSE Finish("failed")
  /\ UNCHANGED <<db, req, asked, cached, step, attached, other, history>>

(* _persist_outcome refreshes the cached row, keeps an operator's cancel   *)
(* or reject, and otherwise writes the outcome over what it read.          *)
RefreshRun ==
  /\ pc = "refresh"
  /\ cached' = status
  /\ Go("persist")
  /\ UNCHANGED <<db, req, asked, step, hub, history>>

KeepsStatus == cached \in {"cancelled", outcome}

PersistOutcome ==
  /\ pc = "persist"
  /\ IF KeepsStatus THEN UNCHANGED <<status, cached, sent>>
                    ELSE Commit(outcome) /\ cached' = outcome
  /\ Go("discard")
  /\ UNCHANGED <<rows, req, asked, step, hub, grants, spent>>

DiscardSignals ==
  /\ pc = "discard"
  /\ discard
  /\ Go("release")
  /\ UNCHANGED <<db, req, asked, cached, step, history>>

(* The browser is released, the session closed, and the task is done.      *)
ReleaseBrowser ==
  /\ pc = "release"
  /\ Go("none")
  /\ own' = NoSignals
  /\ UNCHANGED <<db, req, asked, cached, step, attached, other, history>>

Worker ==
  \/ LoadRun \/ AcquireBrowser
  \/ GateReadsCancelled \/ GateReadsHeld \/ GateReadsHuman \/ GateReadsPaused
  \/ Observe \/ JevDecides
  \/ RequestApproval \/ SetAwaitingApproval \/ WaitReadsCancelled
  \/ ConsumeDecision \/ ApprovalDeadline \/ TimeoutReadsRow
  \/ TimeoutDeniesRow \/ FailTimedOut \/ SetRunningAgain
  \/ ReadPage \/ ResearchModel \/ RecordResearch
  \/ Guard \/ Execute \/ ActionFailed
  \/ RefreshRun \/ PersistOutcome \/ DiscardSignals \/ ReleaseBrowser

-----------------------------------------------------------------------------
(* The process dies with its tasks, its signals and its requests.  When it *)
(* starts again recover_runs, before any request is served, restarts a     *)
(* queued run and fails one whose worker was lost; the open request of a   *)
(* run that awaited an approval is denied.                                 *)
Restart ==
  /\ "restart" \in Ops /\ asked < MaxRequests
  /\ asked' = asked + 1
  /\ req' = [c \in Clients |-> Idle]
  /\ own' = NoSignals /\ attached' = FALSE /\ other' = NoSignals
  /\ rows' = [i \in DOMAIN rows |->
                IF status = "awaiting_approval" /\ NewestRequested(i)
                  THEN "denied" ELSE rows[i]]
  /\ \/ /\ status = "queued"
        /\ Commit("running") /\ pc' = "queued"
     \/ /\ status \notin TERMINAL_STATUSES \cup {"queued"}
        /\ Commit("failed") /\ pc' = "none"
     \/ /\ status \in TERMINAL_STATUSES
        /\ UNCHANGED <<status, sent>> /\ pc' = "none"
  /\ action' = "none"
  /\ UNCHANGED <<gate, cached, step, outcome, grants, spent>>

(* The run is queued and the create route is about to call start_run.      *)
Init ==
  /\ status = "queued" /\ cached = "queued" /\ rows = <<>>
  /\ \E c \in Clients :
       req = [x \in Clients |->
                IF x = c THEN [op |-> "create", phase |-> "start", row |-> 0]
                         ELSE Idle]
  /\ asked = 0
  /\ pc = "none" /\ step = 0 /\ action = "none" /\ outcome = "failed"
  /\ gate = [reason |-> "between_steps", stage |-> "cancelled", waited |-> FALSE]
  /\ own = NoSignals /\ attached = FALSE /\ other = NoSignals
  /\ sent = 0 /\ grants = 0 /\ spent = 0

Next ==
  \/ \E c \in Clients : Handler(c)
  \/ \E c \in Clients, op \in Ops \ {"restart"} : Receive(c, op)
  \/ Worker
  \/ Restart

Spec == Init /\ [][Next]_vars

(* The event loop runs the worker task and the handlers it has accepted;   *)
(* nothing obliges an operator to make a request, or the process to die.   *)
Fairness ==
  /\ WF_vars(Worker)
  /\ \A c \in Clients : WF_vars(Handler(c))

FairSpec == Spec /\ Fairness

-----------------------------------------------------------------------------
(* What holds                                                              *)

(* While a run stays paused, held by a human or cancelled, the worker      *)
(* sends at most the one page action it had already cleared; while it      *)
(* awaits an approval it sends none (the gates of AgentLoop._step and the  *)
(* takeover guard, controls.py "an in-flight browser action may finish").  *)
HeldRunIsLeftAlone ==
  /\ status \in {"paused", "awaiting_human", "cancelled"} => sent <= 1
  /\ status = "awaiting_approval" => sent = 0

(* A run shown as awaiting approval has a live worker behind it that is    *)
(* still at that gate or on its way out of it: nothing in                  *)
(* wait_for_approval_decision, the timeout or the exits leaves a request   *)
(* on screen that nobody waits for.                                        *)
ApprovalHasWaiter ==
  status = "awaiting_approval" =>
    pc \in {"wait", "granted", "expire", "deny", "fail", "refresh", "persist"}

(* Every action that needed approval was paid for by an approval of its    *)
(* own that an operator committed: no race of approve, reject, cancel,     *)
(* timeout and retry executes more gated actions than were ever granted.   *)
SpentWithinGrants == spent <= grants

(* A task always comes to its end, and frees the semaphore and the         *)
(* browser, unless an operator holds the run: the approval wait has a      *)
(* deadline and the loop a step budget.                                    *)
UnheldTaskEnds ==
  pc # "none" ~> (pc = "none" \/ status \in {"paused", "awaiting_human"})

(* When operators only end the run or arm a retry (no hold, no approval),  *)
(* it always comes to rest: no task is left, and the row says it is over,  *)
(* whichever of the worker, the handlers and a recovery wrote it last.     *)
RunSettles == <>[](pc = "none" /\ status \in TERMINAL_STATUSES)

(* Whatever the worker, the handlers and the recovery interleave to, an    *)
(* operator sees the run of RunPromise: no action under a pending approval *)
(* or after a success, one at most after a hold, and no gated action that  *)
(* was not approved (start_run, _control_gate, _persist_outcome, _decide). *)
Promise == INSTANCE RunPromise
             WITH status <- status, acts <- sent, credit <- grants - spent
KeepsPromise == Promise!Spec

-----------------------------------------------------------------------------
(* What the documentation says and the code does not do                   *)

(* docs/approvals.md: the action does not execute until granted.           *)
ExecutesOnlyGranted ==
  pc = "execute" /\ action = "gated" => rows[Len(rows)] = "granted"

(* services/runs.py, cancel_run: already terminal runs are returned        *)
(* unchanged.  Only a failed run may be retried.                           *)
TerminalRunUnchanged ==
  [][(status \in {"succeeded", "cancelled"}) => UNCHANGED status]_vars
=============================================================================
