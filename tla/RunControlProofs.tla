-------------------------- MODULE RunControlProofs --------------------------
(***************************************************************************)
(* Proofs about RunControl for every set of clients, every step budget and *)
(* every number of operator requests.                                      *)
(***************************************************************************)
EXTENDS RunControl, FiniteSetTheorems, TLAPS

-----------------------------------------------------------------------------
(* Type correctness                                                        *)

(* A task that waits at the gate between two steps still has a step to     *)
(* spend; a task that has not yet started its loop has spent none.         *)
StepBudget ==
  /\ pc = "acquire" => step = 0
  /\ pc = "gate" /\ gate.reason = "between_steps" => step < MaxSteps

TypeInv == TypeOK /\ StepBudget

Outcomes == {"requested", "granted", "denied"}

(* Deciding an approval row keeps the table of approvals typed.            *)
LEMMA RowUpdate ==
  ASSUME NEW r \in Seq(Outcomes), NEW i, NEW v \in Outcomes
  PROVE  /\ [r EXCEPT ![i] = v] \in Seq(Outcomes)
         /\ Len([r EXCEPT ![i] = v]) = Len(r)
<1>1. r \in [1..Len(r) -> Outcomes]
  OBVIOUS
<1>2. [r EXCEPT ![i] = v] \in [1..Len(r) -> Outcomes]
  BY <1>1
<1> QED BY <1>2

(* A request that moves to another phase stays a request.                  *)
LEMMA PhaseUpdate ==
  ASSUME NEW r \in [Clients -> Requests], NEW c \in Clients,
         NEW p \in {"idle", "write", "wake", "start", "starting"}
  PROVE  [r EXCEPT ![c].phase = p] \in [Clients -> Requests]
<1>1. [r[c] EXCEPT !.phase = p] \in Requests
  BY DEF Requests
<1> QED BY <1>1

(* The initial state is well typed.                                        *)
LEMMA TypeInit == Init => TypeInv
<1> SUFFICES ASSUME Init PROVE TypeInv
  OBVIOUS
<1>1. req \in [Clients -> Requests]
  BY DEF Init, Requests, Idle
<1>2. rows \in Seq({"requested", "granted", "denied"})
  BY DEF Init
<1>3. own \in Signals /\ other \in Signals /\ gate \in Gates
  BY DEF Init, Signals, NoSignals, Decisions, Gates, Reasons, Stages
<1>4. step \in 0..MaxSteps /\ asked \in 0..MaxRequests
  BY ConstantsAssumption DEF Init
<1> QED
  BY <1>1, <1>2, <1>3, <1>4 DEF Init, TypeInv, TypeOK, StepBudget, Statuses,
     Phases, TERMINAL_STATUSES

(* The steps of a request handler keep the types.                          *)
LEMMA TypeHandler ==
  ASSUME TypeInv, NEW c \in Clients, Handler(c)
  PROVE  TypeInv'
<1>1. CASE ChangeStatus(c)
  BY <1>1 DEF TypeInv, TypeOK, StepBudget, ChangeStatus, Commit, Reply, Idle, Requests,
     StatusOps, Target, Statuses, worker, hub
<1>2. CASE Decide(c)
  <2>1. rows' \in Seq({"requested", "granted", "denied"})
    BY <1>2, RowUpdate DEF Decide, TypeInv, TypeOK, Outcomes
  <2>2. req' \in [Clients -> Requests]
    BY <1>2, PhaseUpdate DEF Decide, TypeInv, TypeOK
  <2> QED
    BY <1>2, <2>1, <2>2 DEF TypeInv, TypeOK, StepBudget, Decide, Commit, Statuses,
       worker, hub
<1>3. CASE Wake(c)
  BY <1>3 DEF TypeInv, TypeOK, StepBudget, Wake, set_approval_decision, PutSignals,
     signals_for, Signals, Decisions, Reply, Idle, Requests, db, worker, history
<1>4. CASE Requeue(c)
  <2>1. req' \in [Clients -> Requests]
    BY <1>4, PhaseUpdate DEF Requeue, TypeInv, TypeOK
  <2>2. status' \in Statuses /\ sent' \in Nat
    BY <1>4 DEF Requeue, Commit, Statuses, TypeInv, TypeOK
  <2>3. other' \in Signals /\ own' \in Signals /\ attached' \in BOOLEAN
    BY <1>4 DEF Requeue, discard, Signals, NoSignals, Decisions, TypeInv, TypeOK
  <2> QED
    BY <1>4, <2>1, <2>2, <2>3 DEF TypeInv, TypeOK, StepBudget, Requeue, worker
<1>5. CASE ArmStep(c)
  BY <1>5 DEF TypeInv, TypeOK, StepBudget, ArmStep, arm_step_retry, PutSignals,
     signals_for, Signals, Decisions, Reply, Idle, Requests, db, worker, history
<1>6. CASE StartLoads(c)
  <2>1. Idle \in Requests
    BY DEF Idle, Requests
  <2>2. req' \in [Clients -> Requests]
    <3>1. CASE Reply(c)
      BY <3>1, <2>1 DEF Reply, TypeInv, TypeOK
    <3>2. CASE req' = [req EXCEPT ![c].phase = "starting"]
      BY <3>2, PhaseUpdate DEF TypeInv, TypeOK
    <3> QED BY <1>6, <3>1, <3>2 DEF StartLoads
  <2>3. (pc' \in Phases /\ pc' \notin {"acquire", "gate"}) \/ pc' = pc
    BY <1>6 DEF StartLoads, Phases
  <2> QED
    BY <1>6, <2>2, <2>3 DEF TypeInv, TypeOK, StepBudget, StartLoads, db, hub, history
<1>7. CASE StartCommits(c)
  BY <1>7 DEF TypeInv, TypeOK, StepBudget, StartCommits, Commit, Reply, Idle, Requests,
     Statuses, Phases, hub
<1> QED BY <1>1, <1>2, <1>3, <1>4, <1>5, <1>6, <1>7 DEF Handler

(* So does receiving a request.                                            *)
LEMMA TypeReceive ==
  ASSUME TypeInv, NEW c \in Clients, NEW op \in Ops \ {"restart"}, Receive(c, op)
  PROVE  TypeInv'
BY ConstantsAssumption DEF TypeInv, TypeOK, StepBudget, Receive, Requests,
   db, worker, hub, history
(* Setting one field of a signal object gives a signal object.             *)
LEMMA SignalUpdate ==
  ASSUME NEW s \in Signals, NEW d \in Decisions, NEW b \in BOOLEAN
  PROVE  /\ [s EXCEPT !.approval_decision = d] \in Signals
         /\ [s EXCEPT !.step_retry_armed = b] \in Signals
         /\ NoSignals \in Signals
BY DEF Signals, NoSignals, Decisions

(* The worker's own state, which its control flow moves, and the rest.     *)
ControlOK ==
  /\ pc \in Phases /\ gate \in Gates /\ step \in 0..MaxSteps
  /\ action \in ActionKinds \cup {"none"} /\ outcome \in TERMINAL_STATUSES
  /\ StepBudget

DataOK ==
  /\ status \in Statuses /\ cached \in Statuses
  /\ rows \in Seq(Outcomes)
  /\ own \in Signals /\ other \in Signals /\ attached \in BOOLEAN
  /\ sent \in Nat /\ grants \in Nat /\ spent \in Nat

RequestsOK == req \in [Clients -> Requests] /\ asked \in 0..MaxRequests

(* The types fall into those of control, of data and of the requests.      *)
LEMMA TypeParts == TypeInv <=> ControlOK /\ DataOK /\ RequestsOK
BY DEF TypeInv, TypeOK, ControlOK, DataOK, RequestsOK, Outcomes

(* Entering a gate between two steps needs a step that is left.            *)
LEMMA EnterGateType ==
  ASSUME NEW reason \in Reasons, EnterGate(reason), ControlOK,
         reason = "between_steps" => step < MaxSteps,
         action' \in ActionKinds \cup {"none"}, UNCHANGED <<step, outcome>>
  PROVE  ControlOK'
<1>1. gate' \in Gates /\ pc' \in Phases
  BY DEF EnterGate, Gates, Stages, Phases
<1> QED BY <1>1 DEF EnterGate, ControlOK, StepBudget

(* Winding down keeps the types of control.                                *)
LEMMA FinishType ==
  ASSUME NEW s \in TERMINAL_STATUSES, Finish(s), ControlOK, UNCHANGED step
  PROVE  ControlOK'
BY DEF Finish, ControlOK, StepBudget, Phases, Ending

(* The end of a step, and of the budget.                                   *)
LEMMA NextStepType ==
  ASSUME NextStep, ControlOK, UNCHANGED step
  PROVE  ControlOK'
<1>1. CASE step = MaxSteps /\ Finish("failed")
  BY <1>1, FinishType DEF TERMINAL_STATUSES
<1>2. CASE step < MaxSteps /\ EnterGate("between_steps") /\ action' = "none"
           /\ UNCHANGED outcome
  BY <1>2, EnterGateType DEF Reasons
<1> QED BY <1>1, <1>2 DEF NextStep

(* Moving on in the loop keeps the types of control.                       *)
LEMMA GoType ==
  ASSUME NEW p \in Phases \ {"acquire", "gate"}, Go(p), ControlOK, UNCHANGED step
  PROVE  ControlOK'
BY DEF Go, ControlOK, StepBudget

(* set_status leaves a status in the row and in the copy.                  *)
LEMMA SetStatusType ==
  ASSUME NEW s \in Statuses, set_status(s), DataOK
  PROVE  status' \in Statuses /\ cached' \in Statuses /\ sent' \in Nat
BY DEF set_status, Commit, DataOK

(* The next read of a gate is one of its stages.                           *)
LEMMA AdvanceType ==
  ASSUME NEW s \in Stages, Advance(s), ControlOK
  PROVE  ControlOK'
<1>1. gate' \in Gates /\ gate'.reason = gate.reason
  BY DEF Advance, Gates, ControlOK
<1> QED BY <1>1 DEF Advance, ControlOK, StepBudget

(* Passing the gate between two steps starts one that is left.             *)
LEMMA PassGateType ==
  ASSUME PassGate, ControlOK, pc = "gate"
  PROVE  ControlOK'
<1>0. gate.reason \in Reasons /\ UNCHANGED <<outcome, action>>
  BY DEF ControlOK, Gates, PassGate
<1>1. step' \in 0..MaxSteps
  BY ConstantsAssumption DEF PassGate, ControlOK, StepBudget
<1>2. CASE gate.reason = "between_steps"
  <2>1. EnterGate("before_observe")
    BY <1>2 DEF PassGate
  <2> QED
    BY <1>0, <1>1, <2>1 DEF EnterGate, ControlOK, StepBudget, Gates, Reasons, Stages, Phases
<1>3. CASE gate.reason # "between_steps"
  <2>1. pc' \in Stepping /\ UNCHANGED gate
    BY <1>0, <1>3 DEF PassGate, Reasons, Stepping
  <2> QED
    BY <1>0, <1>1, <2>1 DEF ControlOK, StepBudget, Phases, Stepping
<1> QED BY <1>2, <1>3

(* Every step of the worker keeps the types of control.                    *)
LEMMA ControlWorker ==
  ASSUME ControlOK, Worker
  PROVE  ControlOK'
<1>1. CASE LoadRun
  BY <1>1, ConstantsAssumption DEF LoadRun, Go, ControlOK, StepBudget, Phases
<1>2. CASE AcquireBrowser
  <2>1. CASE EnterGate("between_steps") /\ UNCHANGED <<outcome, action>>
    BY <1>2, <2>1, EnterGateType, ConstantsAssumption
    DEF AcquireBrowser, Reasons, ControlOK, StepBudget
  <2>2. CASE Finish("failed")
    BY <1>2, <2>2, FinishType DEF AcquireBrowser, TERMINAL_STATUSES
  <2> QED BY <1>2, <2>1, <2>2 DEF AcquireBrowser
<1>3. CASE GateReadsCancelled
  <2>1. CASE Finish("cancelled") /\ UNCHANGED step
    BY <2>1, FinishType DEF TERMINAL_STATUSES
  <2>2. CASE \E s \in Stages : Advance(s)
    BY <2>2, AdvanceType
  <2>3. CASE PassGate
    BY <1>3, <2>3, PassGateType DEF GateReadsCancelled
  <2> QED BY <1>3, <2>1, <2>2, <2>3 DEF GateReadsCancelled, Stages
<1>4. CASE GateReadsHeld
  <2>1. gate' \in Gates /\ gate'.reason = gate.reason
    BY <1>4 DEF GateReadsHeld, Gates, Stages, ControlOK
  <2> QED BY <1>4, <2>1 DEF GateReadsHeld, ControlOK, StepBudget
<1>5. CASE GateReadsHuman
  BY <1>5, NextStepType, AdvanceType DEF GateReadsHuman, Stages
<1>6. CASE GateReadsPaused
  BY <1>6, AdvanceType DEF GateReadsPaused, Stages
<1>7. CASE Observe
  <2>1. CASE EnterGate("before_decide") /\ UNCHANGED <<outcome, action>>
    BY <1>7, <2>1, EnterGateType DEF Observe, Reasons, ControlOK
  <2>2. CASE Finish("failed")
    BY <1>7, <2>2, FinishType DEF Observe, TERMINAL_STATUSES
  <2> QED BY <1>7, <2>1, <2>2 DEF Observe
<1>8. CASE JevDecides
  <2>1. CASE Finish("failed")
    BY <1>8, <2>1, FinishType DEF JevDecides, TERMINAL_STATUSES
  <2>2. ASSUME NEW a \in Actions, action' = a, UNCHANGED outcome,
               a = "gated", pc' = "request", UNCHANGED gate
        PROVE  ControlOK'
    BY <1>8, <2>2 DEF JevDecides, ControlOK, StepBudget, ActionKinds, Phases, Stepping
  <2>3. ASSUME NEW a \in Actions, action' = a, UNCHANGED outcome,
               EnterGate("before_execute")
        PROVE  ControlOK'
    BY <1>8, <2>3, EnterGateType, ConstantsAssumption DEF JevDecides, Reasons
  <2> QED BY <1>8, <2>1, <2>2, <2>3 DEF JevDecides
<1>9. CASE \/ RequestApproval \/ SetAwaitingApproval \/ ApprovalDeadline
           \/ TimeoutReadsRow \/ TimeoutDeniesRow \/ RefreshRun
           \/ PersistOutcome \/ DiscardSignals \/ ReleaseBrowser
  <2>1. UNCHANGED step /\ \E p \in Phases \ {"acquire", "gate"} : Go(p)
    BY <1>9 DEF RequestApproval, SetAwaitingApproval, ApprovalDeadline,
       TimeoutReadsRow, TimeoutDeniesRow, RefreshRun, PersistOutcome,
       DiscardSignals, ReleaseBrowser, Phases, Waiting, Ending
  <2> QED BY <2>1, GoType
<1>10. CASE WaitReadsCancelled \/ FailTimedOut
  BY <1>10, FinishType DEF WaitReadsCancelled, FailTimedOut, TERMINAL_STATUSES
<1>11. CASE ConsumeDecision
  BY <1>11, FinishType, GoType DEF ConsumeDecision, TERMINAL_STATUSES, Phases, Waiting
<1>12. CASE SetRunningAgain
  BY <1>12, EnterGateType DEF SetRunningAgain, Reasons, ControlOK
<1>13. CASE ReadPage
  <2>1. CASE EnterGate("before_research_model") /\ UNCHANGED <<outcome, action>>
    BY <1>13, <2>1, EnterGateType DEF ReadPage, Reasons, ControlOK
  <2> QED BY <1>13, <2>1, FinishType, NextStepType DEF ReadPage, TERMINAL_STATUSES
<1>14. CASE ResearchModel
  <2>1. CASE EnterGate("after_research_model") /\ UNCHANGED <<outcome, action>>
    BY <1>14, <2>1, EnterGateType DEF ResearchModel, Reasons, ControlOK
  <2> QED BY <1>14, <2>1, FinishType DEF ResearchModel, TERMINAL_STATUSES
<1>15. CASE RecordResearch \/ ActionFailed
  BY <1>15, FinishType, NextStepType DEF RecordResearch, ActionFailed, TERMINAL_STATUSES
<1>16. CASE Guard \/ Execute
  BY <1>16, FinishType, NextStepType, GoType
  DEF Guard, Execute, TERMINAL_STATUSES, Phases, Stepping
<1> QED
  BY <1>1, <1>2, <1>3, <1>4, <1>5, <1>6, <1>7, <1>8, <1>9, <1>10, <1>11, <1>12,
     <1>13, <1>14, <1>15, <1>16 DEF Worker

(* Every step of the worker keeps the types of the data.                   *)
LEMMA DataWorker ==
  ASSUME DataOK, ControlOK, Worker
  PROVE  DataOK' /\ UNCHANGED <<req, asked>>
<1>1. UNCHANGED <<req, asked>>
  BY DEF Worker, LoadRun, AcquireBrowser, GateReadsCancelled, GateReadsHeld,
     GateReadsHuman, GateReadsPaused, Observe, JevDecides, RequestApproval,
     SetAwaitingApproval, WaitReadsCancelled, ConsumeDecision, ApprovalDeadline,
     TimeoutReadsRow, TimeoutDeniesRow, FailTimedOut, SetRunningAgain, ReadPage,
     ResearchModel, RecordResearch, Guard, Execute, ActionFailed, RefreshRun,
     PersistOutcome, DiscardSignals, ReleaseBrowser
<1>2. CASE LoadRun \/ RefreshRun
  BY <1>2 DEF DataOK, LoadRun, RefreshRun, db, hub, history
<1>9. CASE Observe \/ ReadPage \/ Execute
  <2>1. sent' \in Nat /\ spent' \in Nat /\ grants' \in Nat
    BY <1>9 DEF DataOK, Observe, ReadPage, Execute
  <2> QED BY <1>1, <1>9, <2>1 DEF DataOK, Observe, ReadPage, Execute, db, hub
<1>3. CASE SetAwaitingApproval \/ FailTimedOut \/ SetRunningAgain
  BY <1>3, SetStatusType
  DEF DataOK, SetAwaitingApproval, FailTimedOut, SetRunningAgain, Statuses, hub
<1>4. CASE RequestApproval
  <2>1. rows' \in Seq(Outcomes)
    BY <1>4 DEF RequestApproval, DataOK, Outcomes
  <2> QED BY <1>4, <2>1 DEF DataOK, RequestApproval, hub, history
<1>5. CASE TimeoutDeniesRow
  <2>1. rows' \in Seq(Outcomes)
    BY <1>5, RowUpdate DEF TimeoutDeniesRow, DataOK, Outcomes
  <2> QED BY <1>5, <2>1 DEF DataOK, TimeoutDeniesRow, hub, history
<1>6. CASE \/ AcquireBrowser \/ ConsumeDecision \/ ActionFailed
           \/ DiscardSignals \/ ReleaseBrowser
  <2>1. own' \in Signals /\ other' \in Signals /\ attached' \in BOOLEAN
    BY <1>6, SignalUpdate
    DEF AcquireBrowser, ConsumeDecision, ActionFailed, DiscardSignals,
        ReleaseBrowser, bind_signals, discard, DataOK, Decisions, hub
  <2> QED
    BY <1>6, <2>1 DEF DataOK, AcquireBrowser, ConsumeDecision, ActionFailed,
       DiscardSignals, ReleaseBrowser, db, history
<1>7. CASE PersistOutcome
  <2>1. outcome \in Statuses
    BY DEF ControlOK, TERMINAL_STATUSES, Statuses
  <2> QED BY <1>7, <2>1 DEF DataOK, PersistOutcome, Commit, hub
<1>8. CASE \/ GateReadsCancelled \/ GateReadsHeld \/ GateReadsHuman \/ GateReadsPaused
           \/ JevDecides \/ WaitReadsCancelled \/ ApprovalDeadline \/ TimeoutReadsRow
           \/ ResearchModel \/ RecordResearch \/ Guard
  BY <1>8 DEF DataOK, GateReadsCancelled, GateReadsHeld, GateReadsHuman, GateReadsPaused,
     JevDecides, WaitReadsCancelled, ApprovalDeadline, TimeoutReadsRow, ResearchModel,
     RecordResearch, Guard, db, hub, history
<1> QED
  BY <1>1, <1>2, <1>3, <1>4, <1>5, <1>6, <1>7, <1>8, <1>9 DEF Worker

(* The restart keeps the types.                                            *)
LEMMA TypeRestart ==
  ASSUME TypeInv, Restart
  PROVE  TypeInv'
<1>1. ControlOK' 
  BY DEF Restart, TypeInv, TypeOK, ControlOK, StepBudget, Phases
<1>2. rows' \in Seq(Outcomes)
  <2>1. rows \in [1..Len(rows) -> Outcomes] /\ Len(rows) \in Nat
    BY DEF TypeInv, TypeOK, Outcomes
  <2>2. rows' \in [1..Len(rows) -> Outcomes]
    BY <2>1 DEF Restart, Outcomes
  <2> QED BY <2>1, <2>2
<1>3. status' \in Statuses /\ sent' \in Nat
  BY DEF Restart, Commit, Statuses, TypeInv, TypeOK
<1>4. req' \in [Clients -> Requests]
  BY DEF Restart, Idle, Requests
<1>5. own' \in Signals /\ other' \in Signals /\ attached' \in BOOLEAN
  BY SignalUpdate DEF Restart, Signals, NoSignals, Decisions
<1>6. asked' \in 0..MaxRequests
  BY ConstantsAssumption DEF Restart, TypeInv, TypeOK
<1>7. UNCHANGED <<cached, grants, spent>>
  BY DEF Restart
<1> QED
  BY <1>1, <1>2, <1>3, <1>4, <1>5, <1>6, <1>7
  DEF TypeInv, TypeOK, ControlOK, StepBudget, Outcomes

(* Every step keeps the types.                                             *)
LEMMA TypeStep == TypeInv /\ [Next]_vars => TypeInv'
<1> SUFFICES ASSUME TypeInv, [Next]_vars PROVE TypeInv'
  OBVIOUS
<1>1. ASSUME NEW c \in Clients, Handler(c) PROVE TypeInv'
  BY <1>1, TypeHandler
<1>2. ASSUME NEW c \in Clients, NEW op \in Ops \ {"restart"}, Receive(c, op) PROVE TypeInv'
  BY <1>2, TypeReceive
<1>3. CASE Worker
  <2>1. ControlOK /\ DataOK /\ RequestsOK
    BY TypeParts
  <2>2. ControlOK' /\ DataOK' /\ RequestsOK'
    BY <1>3, <2>1, ControlWorker, DataWorker DEF RequestsOK
  <2> QED BY <2>2 DEF TypeInv, TypeOK, ControlOK, DataOK, RequestsOK, Outcomes
<1>4. CASE UNCHANGED vars
  BY <1>4 DEF TypeInv, TypeOK, StepBudget, vars, db, worker, hub, history
<1> QED BY <1>1, <1>2, <1>3, <1>4, TypeRestart DEF Next

(* Every variable keeps its type, and the loop never starts more steps     *)
(* than its budget (RunWorkerSettings.max_steps), in every behaviour.      *)
THEOREM TypeCorrect == Spec => []TypeOK
<1>1. Init => TypeInv
  BY TypeInit
<1>2. TypeInv /\ [Next]_vars => TypeInv'
  BY TypeStep
<1>3. TypeInv => TypeOK
  BY DEF TypeInv
<1> QED BY <1>1, <1>2, <1>3, PTL DEF Spec

-----------------------------------------------------------------------------
(* A run that awaits an approval                                           *)

(* The worker's cached row agrees with the database while the run awaits   *)
(* an approval, so that each way out of the gate does change the status.   *)
AwaitingInv ==
  status = "awaiting_approval" =>
    /\ sent = 0 /\ cached = "awaiting_approval"
    /\ pc \in {"wait", "granted", "expire", "deny", "fail", "refresh", "persist"}

(* A handler never makes a row awaiting_approval.                          *)
LEMMA AwaitingHandler ==
  ASSUME TypeInv, AwaitingInv, NEW c \in Clients, Handler(c)
  PROVE  AwaitingInv'
<1>1. CASE ChangeStatus(c) \/ Decide(c) \/ Requeue(c) \/ StartCommits(c)
  <2>1. status' # "awaiting_approval"
    BY <1>1 DEF ChangeStatus, Decide, Requeue, StartCommits, Commit, StatusOps, Target
  <2> QED BY <2>1 DEF AwaitingInv
<1>2. CASE Wake(c) \/ ArmStep(c)
  BY <1>2 DEF Wake, ArmStep, AwaitingInv, db, worker, history
<1>3. CASE StartLoads(c)
  BY <1>3 DEF StartLoads, AwaitingInv, TERMINAL_STATUSES, db, history
<1> QED BY <1>1, <1>2, <1>3 DEF Handler

(* When the worker makes a row awaiting_approval, its copy says so, too.   *)
LEMMA AwaitingWorker ==
  ASSUME TypeInv, AwaitingInv, Worker
  PROVE  AwaitingInv'
<1>1. CASE SetAwaitingApproval
  BY <1>1 DEF SetAwaitingApproval, set_status, Commit, Go, AwaitingInv
<1>2. CASE SetRunningAgain \/ FailTimedOut
  BY <1>2 DEF SetRunningAgain, FailTimedOut, set_status, Commit, AwaitingInv
<1>3. CASE PersistOutcome
  BY <1>3 DEF PersistOutcome, KeepsStatus, Commit, AwaitingInv, TypeInv, TypeOK,
     TERMINAL_STATUSES
<1>4. CASE \/ WaitReadsCancelled \/ ConsumeDecision \/ ApprovalDeadline
           \/ TimeoutReadsRow \/ TimeoutDeniesRow \/ RefreshRun
  BY <1>4 DEF WaitReadsCancelled, ConsumeDecision, ApprovalDeadline, TimeoutReadsRow,
     TimeoutDeniesRow, RefreshRun, Go, Finish, AwaitingInv, db, history
<1>5. CASE \/ GateReadsCancelled \/ GateReadsHeld \/ GateReadsHuman \/ GateReadsPaused
           \/ LoadRun \/ AcquireBrowser \/ Observe \/ JevDecides \/ RequestApproval
           \/ ReadPage \/ ResearchModel \/ RecordResearch \/ Guard \/ Execute
           \/ ActionFailed \/ DiscardSignals \/ ReleaseBrowser
  <2>1. status # "awaiting_approval"
    BY <1>5 DEF AwaitingInv, GateReadsCancelled, GateReadsHeld, GateReadsHuman,
       GateReadsPaused, LoadRun, AcquireBrowser, Observe, JevDecides, RequestApproval,
       ReadPage, ResearchModel, RecordResearch, Guard, Execute, ActionFailed,
       DiscardSignals, ReleaseBrowser
  <2>2. UNCHANGED status
    BY <1>5 DEF GateReadsCancelled, GateReadsHeld, GateReadsHuman,
       GateReadsPaused, LoadRun, AcquireBrowser, Observe, JevDecides, RequestApproval,
       ReadPage, ResearchModel, RecordResearch, Guard, Execute, ActionFailed,
       DiscardSignals, ReleaseBrowser, db
  <2> QED BY <2>1, <2>2 DEF AwaitingInv
<1> QED BY <1>1, <1>2, <1>3, <1>4, <1>5 DEF Worker

(* Every step keeps the invariant of the approval gate.                    *)
LEMMA AwaitingStep == TypeInv /\ AwaitingInv /\ [Next]_vars => AwaitingInv'
<1> SUFFICES ASSUME TypeInv, AwaitingInv, [Next]_vars PROVE AwaitingInv'
  OBVIOUS
<1>1. ASSUME NEW c \in Clients, NEW op \in Ops \ {"restart"}, Receive(c, op) PROVE AwaitingInv'
  BY <1>1 DEF Receive, AwaitingInv, db, worker, history
<1>2. CASE UNCHANGED vars
  BY <1>2 DEF AwaitingInv, vars, db, worker, history
<1>3. CASE Restart
  BY <1>3 DEF Restart, Commit, AwaitingInv, TERMINAL_STATUSES
<1> QED BY <1>1, <1>2, <1>3, AwaitingHandler, AwaitingWorker DEF Next

(* A run shown as awaiting approval always has a live worker at that gate  *)
(* or on its way out of it.                                                *)
THEOREM ApprovalWaited == Spec => []ApprovalHasWaiter
<1>1. Init => TypeInv /\ AwaitingInv
  BY TypeInit DEF Init, AwaitingInv
<1>2. TypeInv /\ AwaitingInv /\ [Next]_vars => TypeInv' /\ AwaitingInv'
  BY TypeStep, AwaitingStep
<1>3. AwaitingInv => ApprovalHasWaiter
  BY DEF AwaitingInv, ApprovalHasWaiter
<1> QED BY <1>1, <1>2, <1>3, PTL DEF Spec

-----------------------------------------------------------------------------
(* A run that an operator holds                                            *)

Held == {"paused", "awaiting_human", "cancelled"}

(* Where the worker can be after it acted on a page while the run was held *)
(* as st: at its end, or at the gate that opens the next step, before the  *)
(* read that finds the run held.                                           *)
Ended == pc \in {"none", "failed"} \cup Ending

Unread(st) ==
  CASE st = "cancelled"      -> {"cancelled"}
    [] st = "awaiting_human" -> {"cancelled", "held", "human_cancelled", "human"}
    [] st = "paused"         -> Stages \ {"recheck"}

HeldInv ==
  status \in Held /\ sent > 0 =>
    /\ sent = 1
    /\ \/ Ended
       \/ /\ pc = "gate" /\ gate.reason = "between_steps"
          /\ gate.stage \in Unread(status)

(* A handler that changes the status resets what was sent.                 *)
LEMMA HeldHandler ==
  ASSUME TypeInv, HeldInv, NEW c \in Clients, Handler(c)
  PROVE  HeldInv'
<1>1. CASE ChangeStatus(c)
  <2>1. UNCHANGED <<status, sent, pc, gate>> \/ sent' = 0
    BY <1>1 DEF ChangeStatus, Commit, worker
  <2> QED BY <2>1 DEF HeldInv, Ended
<1>2. CASE Decide(c) \/ Requeue(c) \/ StartCommits(c)
  <2>1. status' \notin Held
    BY <1>2 DEF Decide, Requeue, StartCommits, Commit, Held
  <2> QED BY <2>1 DEF HeldInv
<1>3. CASE Wake(c) \/ ArmStep(c)
  <2>1. UNCHANGED <<status, sent, pc, gate>>
    BY <1>3 DEF Wake, ArmStep, db, worker, history
  <2> QED BY <2>1 DEF HeldInv, Ended
<1>4. CASE StartLoads(c)
  <2>1. UNCHANGED <<status, sent, pc, gate>> \/ (UNCHANGED status /\ status = "running")
    BY <1>4 DEF StartLoads, db, history
  <2> QED BY <2>1 DEF HeldInv, Ended, Held
<1> QED BY <1>1, <1>2, <1>3, <1>4 DEF Handler

(* A finished step goes to the first read of the next one or to the end.   *)
LEMMA StepOver ==
  ASSUME NextStep \/ \E s \in TERMINAL_STATUSES : Finish(s)
  PROVE  \/ Ended'
         \/ /\ pc' = "gate" /\ gate'.reason = "between_steps"
            /\ gate'.stage = "cancelled"
BY DEF NextStep, EnterGate, Finish, Ended, Ending

(* The first read of a gate comes before the one that finds a run held.    *)
LEMMA FirstReadUnread == ASSUME NEW st \in Held PROVE "cancelled" \in Unread(st)
BY DEF Held, Unread, Stages

(* The worker of a held run gets no further than the read that finds it.   *)
LEMMA HeldWorker ==
  ASSUME TypeInv, HeldInv, Worker
  PROVE  HeldInv'
<1>1. CASE SetAwaitingApproval \/ SetRunningAgain \/ FailTimedOut
  <2>1. (UNCHANGED <<status, sent>> /\ pc \in Waiting) \/ sent' = 0
             \/ (UNCHANGED <<status, sent>> /\ sent = 0)
    BY <1>1 DEF SetAwaitingApproval, SetRunningAgain, FailTimedOut, set_status, Commit,
       Waiting
  <2>2. UNCHANGED <<status, sent>> /\ pc \in Waiting => HeldInv'
    BY DEF HeldInv, Ended, Waiting, Ending
  <2> QED BY <2>1, <2>2 DEF HeldInv
<1>2. CASE PersistOutcome
  BY <1>2 DEF PersistOutcome, Commit, Go, HeldInv, Ended, Ending
<1>3. CASE Execute
  <2>1. status \in Held => sent = 0
    BY <1>3 DEF Execute, HeldInv, Ended, Ending, TypeInv, TypeOK
  <2>2. UNCHANGED status /\ sent' = sent + 1
    BY <1>3 DEF Execute, db
  <2>3. Ended' \/ (pc' = "gate" /\ gate'.reason = "between_steps" /\ gate'.stage = "cancelled")
    BY <1>3, StepOver DEF Execute, Ended, Ending, Go, TERMINAL_STATUSES
  <2> QED BY <2>1, <2>2, <2>3, FirstReadUnread DEF HeldInv
<1>4. CASE ActionFailed
  <2>1. Ended' \/ (pc' = "gate" /\ gate'.reason = "between_steps" /\ gate'.stage = "cancelled")
    BY <1>4, StepOver DEF ActionFailed, TERMINAL_STATUSES
  <2>2. UNCHANGED <<status, sent>>
    BY <1>4 DEF ActionFailed, db, history
  <2> QED BY <2>1, <2>2, FirstReadUnread DEF HeldInv
<1>5. CASE RefreshRun \/ DiscardSignals \/ ReleaseBrowser
  BY <1>5 DEF RefreshRun, DiscardSignals, ReleaseBrowser, Go, HeldInv, Ended, Ending,
     db, history
<1>6. CASE GateReadsCancelled
  <2>1. UNCHANGED <<status, sent>> /\ pc = "gate"
    BY <1>6 DEF GateReadsCancelled, db, history
  <2>2. CASE Finish("cancelled")
    BY <2>1, <2>2 DEF Finish, HeldInv, Ended, Ending
  <2>3. CASE status # "cancelled" /\ gate.stage # "recheck"
    BY <1>6, <2>1, <2>3 DEF GateReadsCancelled, Advance, HeldInv, Ended, Ending, Held, Unread, Stages, TypeInv, TypeOK, Gates
  <2>4. CASE status # "cancelled" /\ gate.stage = "recheck"
    BY <2>1, <2>4 DEF HeldInv, Ended, Ending, Held, Unread, Stages
  <2> QED BY <1>6, <2>2, <2>3, <2>4 DEF GateReadsCancelled
<1>7. CASE GateReadsHeld
  BY <1>7 DEF GateReadsHeld, HeldInv, Ended, Ending, Held, Unread, Stages, TypeInv, TypeOK, Gates, db, history
<1>8. CASE GateReadsHuman
  <2>1. UNCHANGED <<status, sent>> /\ pc = "gate" /\ gate.stage = "human"
    BY <1>8 DEF GateReadsHuman, db, history
  <2>2. CASE Advance("human_cancelled") /\ status = "awaiting_human"
    BY <2>1, <2>2 DEF Advance, HeldInv, Ended, Ending, Held, Unread, Stages, TypeInv, TypeOK, Gates
  <2>3. CASE Advance("pause_cancelled") /\ status # "awaiting_human"
    BY <2>1, <2>3 DEF Advance, HeldInv, Ended, Ending, Held, Unread, Stages, TypeInv, TypeOK, Gates
  <2>4. CASE NextStep
    <3>1. Ended' \/ (pc' = "gate" /\ gate'.reason = "between_steps" /\ gate'.stage = "cancelled")
      BY <2>4, StepOver
    <3> QED BY <2>1, <3>1, FirstReadUnread DEF HeldInv
  <2> QED BY <1>8, <2>2, <2>3, <2>4 DEF GateReadsHuman
<1>9. CASE GateReadsPaused
  BY <1>9 DEF GateReadsPaused, Advance, HeldInv, Ended, Ending, Held, Unread, Stages, TypeInv, TypeOK, Gates, db, history
<1>10. CASE \/ LoadRun \/ AcquireBrowser \/ Observe \/ JevDecides \/ RequestApproval
            \/ WaitReadsCancelled \/ ConsumeDecision \/ ApprovalDeadline
            \/ TimeoutReadsRow \/ TimeoutDeniesRow
            \/ ReadPage \/ ResearchModel \/ RecordResearch \/ Guard
  <2>1. UNCHANGED <<status, sent>>
    BY <1>10 DEF LoadRun, AcquireBrowser, Observe, JevDecides, RequestApproval,
       WaitReadsCancelled, ConsumeDecision, ApprovalDeadline, TimeoutReadsRow,
       TimeoutDeniesRow, ReadPage, ResearchModel, RecordResearch, Guard, db, history
  <2>2. pc \notin {"none", "failed", "gate"} \cup Ending
    BY <1>10 DEF LoadRun, AcquireBrowser, Observe, JevDecides, RequestApproval,
       WaitReadsCancelled, ConsumeDecision, ApprovalDeadline, TimeoutReadsRow,
       TimeoutDeniesRow, ReadPage, ResearchModel, RecordResearch, Guard, Ending
  <2> QED BY <2>1, <2>2 DEF HeldInv, Ended
<1> QED
  BY <1>1, <1>2, <1>3, <1>4, <1>5, <1>6, <1>7, <1>8, <1>9, <1>10 DEF Worker

(* Every step keeps the invariant of held runs.                            *)
LEMMA HeldStep == TypeInv /\ HeldInv /\ [Next]_vars => HeldInv'
<1> SUFFICES ASSUME TypeInv, HeldInv, [Next]_vars PROVE HeldInv'
  OBVIOUS
<1>1. ASSUME NEW c \in Clients, NEW op \in Ops \ {"restart"}, Receive(c, op) PROVE HeldInv'
  BY <1>1 DEF Receive, HeldInv, Ended, db, worker, history
<1>2. CASE UNCHANGED vars
  BY <1>2 DEF HeldInv, Ended, vars, db, worker, history
<1>3. CASE Restart
  BY <1>3 DEF Restart, Commit, HeldInv, Ended, Held
<1> QED BY <1>1, <1>2, <1>3, HeldHandler, HeldWorker DEF Next

(* However pauses, takeovers, cancels and approvals interleave with the    *)
(* worker's reads, a held run sees at most one more page action and a run  *)
(* that awaits an approval sees none.                                      *)
THEOREM HeldLeftAlone == Spec => []HeldRunIsLeftAlone
<1>1. Init => TypeInv /\ AwaitingInv /\ HeldInv
  BY TypeInit DEF Init, AwaitingInv, HeldInv, Held
<1>2. TypeInv /\ AwaitingInv /\ HeldInv /\ [Next]_vars
        => TypeInv' /\ AwaitingInv' /\ HeldInv'
  BY TypeStep, AwaitingStep, HeldStep
<1>3. TypeInv /\ AwaitingInv /\ HeldInv => HeldRunIsLeftAlone
  BY DEF AwaitingInv, HeldInv, Held, HeldRunIsLeftAlone, TypeInv, TypeOK
<1> QED BY <1>1, <1>2, <1>3, PTL DEF Spec

-----------------------------------------------------------------------------
(* Approvals and the actions they pay for                                  *)

(* A committed approval lives in one place at a time until it is spent or  *)
(* lost: in the handler that has still to wake the worker, in one of the   *)
(* two signal objects, or with the worker that carries the cleared action. *)
Approving == {c \in Clients : req[c].phase = "wake" /\ req[c].op = "approve"}

InSignals(sig) == IF sig.approval_decision = "granted" THEN 1 ELSE 0

Cleared ==
  \/ pc = "granted"
  \/ action = "gated" /\ pc \in {"guard", "execute"}
  \/ action = "gated" /\ pc = "gate" /\ gate.reason = "before_execute"

Carried == IF Cleared THEN 1 ELSE 0

GrantsInv ==
  spent + Cardinality(Approving) + InSignals(own) + InSignals(other) + Carried
    <= grants

(* The approvals under way can be counted.                                 *)
LEMMA ApprovingFinite == IsFiniteSet(Approving) /\ Cardinality(Approving) \in Nat
<1>1. IsFiniteSet(Approving)
  BY FS_Subset, ConstantsAssumption DEF Approving
<1> QED BY <1>1, FS_CardinalityType

(* The worker's phases that carry a cleared action are entered only from   *)
(* one another, and first by the decision that clears it.                  *)
LEMMA ClearedSteps ==
  ASSUME ControlOK, Worker, ~ConsumeDecision
  PROVE  Cleared' => Cleared
<1>1. CASE \/ NextStep \/ \E st \in TERMINAL_STATUSES : Finish(st)
  BY <1>1 DEF NextStep, EnterGate, Finish, Cleared
<1>2. CASE \E reason \in Reasons \ {"before_execute"} : EnterGate(reason)
  BY <1>2 DEF EnterGate, Cleared
<1>3. CASE \E p \in Phases \ {"granted", "guard", "execute", "gate"} : Go(p)
  BY <1>3 DEF Go, Cleared
<1>4. CASE GateReadsCancelled
  <2>1. CASE \E st \in Stages : Advance(st)
    BY <1>4, <2>1 DEF GateReadsCancelled, Advance, Cleared, ControlOK, Gates
  <2>2. CASE PassGate
    <3>1. gate.reason \in Reasons /\ pc = "gate" /\ UNCHANGED action
      BY <1>4, <2>2 DEF GateReadsCancelled, PassGate, ControlOK, Gates
    <3>2. CASE gate.reason = "before_execute"
      BY <2>2, <3>1, <3>2 DEF PassGate, EnterGate, Cleared
    <3>3. CASE gate.reason # "before_execute"
      BY <2>2, <3>1, <3>3 DEF PassGate, EnterGate, Cleared, Reasons
    <3> QED BY <3>2, <3>3
  <2> QED BY <1>1, <1>4, <2>1, <2>2 DEF GateReadsCancelled, Stages, TERMINAL_STATUSES
<1>5. CASE GateReadsHeld
  BY <1>5 DEF GateReadsHeld, Cleared, ControlOK, Gates
<1>6. CASE GateReadsHuman
  <2>1. CASE \E st \in Stages : Advance(st)
    BY <1>6, <2>1 DEF GateReadsHuman, Advance, Cleared, ControlOK, Gates
  <2> QED BY <1>1, <1>6, <2>1 DEF GateReadsHuman, Stages
<1>7. CASE GateReadsPaused
  BY <1>7 DEF GateReadsPaused, Advance, Cleared, ControlOK, Gates
<1>8. CASE JevDecides
  <2>1. CASE \E a \in Actions : action' = a /\ a # "gated"
    BY <1>8, <2>1 DEF Cleared, JevDecides, EnterGate, Finish
  <2>2. CASE action' = "gated" /\ pc' = "request"
    BY <2>2 DEF Cleared
  <2> QED BY <1>1, <1>8, <2>1, <2>2 DEF JevDecides, TERMINAL_STATUSES
<1>9. CASE SetRunningAgain
  BY <1>9 DEF SetRunningAgain, Cleared
<1>10. CASE Guard
  BY <1>1, <1>10 DEF Guard, Go, Cleared, TERMINAL_STATUSES
<1>11. CASE Execute
  BY <1>1, <1>3, <1>11 DEF Execute, TERMINAL_STATUSES, Phases, Stepping
<1>12. CASE LoadRun \/ RequestApproval \/ SetAwaitingApproval \/ ApprovalDeadline
            \/ TimeoutReadsRow \/ TimeoutDeniesRow \/ RefreshRun \/ PersistOutcome
            \/ DiscardSignals \/ ReleaseBrowser
  BY <1>3, <1>12 DEF LoadRun, RequestApproval, SetAwaitingApproval, ApprovalDeadline,
     TimeoutReadsRow, TimeoutDeniesRow, RefreshRun, PersistOutcome, DiscardSignals,
     ReleaseBrowser, Phases, Waiting, Ending
<1>13. CASE AcquireBrowser \/ Observe \/ ReadPage \/ ResearchModel
  BY <1>1, <1>2, <1>13 DEF AcquireBrowser, Observe, ReadPage, ResearchModel,
     TERMINAL_STATUSES, Reasons
<1>14. CASE WaitReadsCancelled \/ FailTimedOut \/ RecordResearch \/ ActionFailed
  BY <1>1, <1>14 DEF WaitReadsCancelled, FailTimedOut, RecordResearch, ActionFailed,
     TERMINAL_STATUSES
<1> QED
  BY <1>4, <1>5, <1>6, <1>7, <1>8, <1>9, <1>10, <1>11, <1>12, <1>13, <1>14 DEF Worker

(* An action that needed approval is sent only with its approval in hand,  *)
(* and sending it gives the approval up.                                   *)
LEMMA ExecuteSpends ==
  ASSUME Execute
  PROVE  ~Cleared' /\ (action = "gated" => Cleared)
BY DEF Execute, NextStep, EnterGate, Finish, Go, Cleared

(* The worker spends an approval it has.                                   *)
LEMMA GrantsWorker ==
  ASSUME TypeInv, GrantsInv, Worker
  PROVE  GrantsInv'
<1>1. /\ ControlOK /\ Cardinality(Approving) \in Nat
      /\ own \in Signals /\ other \in Signals /\ spent \in Nat /\ grants \in Nat
  BY ApprovingFinite, TypeParts DEF DataOK
<1>2. Approving' = Approving /\ UNCHANGED grants
  <2>1. UNCHANGED req
    BY <1>1, DataWorker, TypeParts
  <2>2. UNCHANGED grants
    BY DEF Worker, LoadRun, AcquireBrowser, GateReadsCancelled, GateReadsHeld,
       GateReadsHuman, GateReadsPaused, Observe, JevDecides, RequestApproval,
       SetAwaitingApproval, WaitReadsCancelled, ConsumeDecision, ApprovalDeadline,
       TimeoutReadsRow, TimeoutDeniesRow, FailTimedOut, SetRunningAgain, ReadPage,
       ResearchModel, RecordResearch, Guard, Execute, ActionFailed, RefreshRun,
       PersistOutcome, DiscardSignals, ReleaseBrowser, history
  <2> QED BY <2>1, <2>2 DEF Approving
<1>3. CASE ConsumeDecision
  <2>1. UNCHANGED <<spent, other>> /\ InSignals(own') = 0
    BY <1>1, <1>3 DEF ConsumeDecision, history, InSignals, Signals
  <2>2. Cleared' => InSignals(own) = 1
    BY <1>3 DEF ConsumeDecision, Finish, Cleared, InSignals
  <2> QED BY <1>1, <1>2, <2>1, <2>2 DEF GrantsInv, Carried, InSignals
<1>4. CASE Execute
  <2>1. UNCHANGED <<own, other>>
    BY <1>4 DEF Execute, hub
  <2>2. spent' = IF action = "gated" THEN spent + 1 ELSE spent
    BY <1>4 DEF Execute
  <2> QED
    BY <1>1, <1>2, <1>4, <2>1, <2>2, ExecuteSpends DEF GrantsInv, Carried, InSignals
<1>5. CASE ~ConsumeDecision /\ ~Execute
  <2>1. Cleared' => Cleared
    BY <1>1, <1>5, ClearedSteps
  <2>2. UNCHANGED spent
    BY <1>5 DEF Worker, LoadRun, AcquireBrowser, GateReadsCancelled, GateReadsHeld,
       GateReadsHuman, GateReadsPaused, Observe, JevDecides, RequestApproval,
       SetAwaitingApproval, WaitReadsCancelled, ApprovalDeadline,
       TimeoutReadsRow, TimeoutDeniesRow, FailTimedOut, SetRunningAgain, ReadPage,
       ResearchModel, RecordResearch, Guard, ActionFailed, RefreshRun,
       PersistOutcome, DiscardSignals, ReleaseBrowser, history
  <2>3. InSignals(own') + InSignals(other') <= InSignals(own) + InSignals(other)
    <3>1. CASE AcquireBrowser
      BY <1>1, <3>1 DEF AcquireBrowser, bind_signals, hub, InSignals, NoSignals
    <3>2. CASE ActionFailed
      BY <1>1, <3>2 DEF ActionFailed, InSignals, Signals
    <3>3. CASE DiscardSignals \/ ReleaseBrowser
      BY <1>1, <3>3 DEF DiscardSignals, ReleaseBrowser, discard, InSignals, NoSignals
    <3>4. CASE ~AcquireBrowser /\ ~ActionFailed /\ ~DiscardSignals /\ ~ReleaseBrowser
      <4>1. UNCHANGED <<own, other>>
        BY <1>5, <3>4 DEF Worker, LoadRun, GateReadsCancelled, GateReadsHeld,
           GateReadsHuman, GateReadsPaused, Observe, JevDecides, RequestApproval,
           SetAwaitingApproval, WaitReadsCancelled, ApprovalDeadline, TimeoutReadsRow,
           TimeoutDeniesRow, FailTimedOut, SetRunningAgain, ReadPage, ResearchModel,
           RecordResearch, Guard, RefreshRun, PersistOutcome, hub
      <4> QED BY <4>1 DEF InSignals
    <3> QED BY <3>1, <3>2, <3>3, <3>4
  <2>4. /\ InSignals(own) \in Nat /\ InSignals(other) \in Nat
        /\ InSignals(own') \in Nat /\ InSignals(other') \in Nat
    BY DEF InSignals
  <2> QED
    <3>1. Carried' <= Carried /\ Carried \in Nat /\ Carried' \in Nat
      BY <2>1 DEF Carried
    <3> HIDE DEF Carried
    <3>2. InSignals(own)' = InSignals(own') /\ InSignals(other)' = InSignals(other')
      BY DEF InSignals
    <3> QED
      BY <1>1, <1>2, <2>2, <2>3, <2>4, <3>1, <3>2 DEF GrantsInv
<1> QED BY <1>3, <1>4, <1>5

(* A handler grants one, and hands it to one signal object.                *)
LEMMA GrantsHandler ==
  ASSUME TypeInv, GrantsInv, NEW c \in Clients, Handler(c)
  PROVE  GrantsInv'
<1>1. /\ IsFiniteSet(Approving) /\ Cardinality(Approving) \in Nat
      /\ own \in Signals /\ other \in Signals /\ spent \in Nat /\ grants \in Nat
      /\ req \in [Clients -> Requests]
  BY ApprovingFinite DEF TypeInv, TypeOK
<1>2. CASE Decide(c)
  <2>1. UNCHANGED <<spent, own, other, pc, gate, action>>
    BY <1>2 DEF Decide, hub, worker
  <2>2. CASE req[c].op = "approve"
    <3>1. Approving' = Approving \cup {c} /\ c \notin Approving
      BY <1>1, <1>2, <2>2 DEF Decide, Approving, Requests
    <3>2. Cardinality(Approving') = Cardinality(Approving) + 1
      BY <1>1, <3>1, FS_AddElement
    <3>3. grants' = grants + 1
      BY <1>2, <2>2 DEF Decide
    <3> QED BY <1>1, <2>1, <3>2, <3>3 DEF GrantsInv, Carried, Cleared, InSignals
  <2>3. CASE req[c].op # "approve"
    <3>1. Approving' = Approving /\ UNCHANGED grants
      BY <1>1, <1>2, <2>3 DEF Decide, Approving, Requests
    <3> QED BY <1>1, <2>1, <3>1 DEF GrantsInv, Carried, Cleared, InSignals
  <2> QED BY <2>2, <2>3
<1>3. CASE Wake(c)
  <2>1. UNCHANGED <<spent, grants, pc, gate, action>>
    BY <1>3 DEF Wake, history, worker
  <2>2. CASE req[c].op = "approve"
    <3>1. Approving' = Approving \ {c} /\ c \in Approving
      BY <1>1, <1>3, <2>2 DEF Wake, Reply, Idle, Approving, Requests
    <3>2. Cardinality(Approving') = Cardinality(Approving) - 1
      BY <1>1, <3>1, FS_RemoveElement
    <3>3. InSignals(own') + InSignals(other') <= InSignals(own) + InSignals(other) + 1
      BY <1>1, <1>3 DEF Wake, set_approval_decision, PutSignals, signals_for, InSignals, Signals
    <3> QED BY <1>1, <2>1, <3>2, <3>3 DEF GrantsInv, Carried, Cleared, InSignals
  <2>3. CASE req[c].op # "approve"
    <3>1. Approving' = Approving
      BY <1>1, <1>3, <2>3 DEF Wake, Reply, Idle, Approving, Requests
    <3>3. InSignals(own') + InSignals(other') <= InSignals(own) + InSignals(other)
      BY <1>1, <1>3, <2>3 DEF Wake, set_approval_decision, PutSignals, signals_for, InSignals, Signals
    <3> QED BY <1>1, <2>1, <3>1, <3>3 DEF GrantsInv, Carried, Cleared, InSignals
  <2> QED BY <2>2, <2>3
<1>4. CASE ChangeStatus(c) \/ Requeue(c) \/ ArmStep(c) \/ StartLoads(c) \/ StartCommits(c)
  <2>1. UNCHANGED <<spent, grants>>
    BY <1>4 DEF ChangeStatus, Requeue, ArmStep, StartLoads, StartCommits, history
  <2>2. Approving' = Approving
    BY <1>1, <1>4 DEF ChangeStatus, Requeue, ArmStep, StartLoads, StartCommits, Reply,
       Idle, Approving, Requests
  <2>3. Cleared' => Cleared
    BY <1>4 DEF ChangeStatus, Requeue, ArmStep, StartLoads, StartCommits, Cleared, worker
  <2>4. InSignals(own') + InSignals(other') <= InSignals(own) + InSignals(other)
    BY <1>1, <1>4 DEF ChangeStatus, Requeue, ArmStep, StartLoads, StartCommits, hub,
       discard, arm_step_retry, PutSignals, signals_for, InSignals, Signals, NoSignals
  <2> QED BY <1>1, <2>1, <2>2, <2>3, <2>4 DEF GrantsInv, Carried, InSignals
<1> QED BY <1>2, <1>3, <1>4 DEF Handler

(* Every step keeps the count of approvals within the grants.              *)
LEMMA GrantsStep == TypeInv /\ GrantsInv /\ [Next]_vars => GrantsInv'
<1> SUFFICES ASSUME TypeInv, GrantsInv, [Next]_vars PROVE GrantsInv'
  OBVIOUS
<1>1. ASSUME NEW c \in Clients, NEW op \in Ops \ {"restart"}, Receive(c, op) PROVE GrantsInv'
  <2>1. Approving' = Approving
    BY <1>1 DEF Receive, Approving, Idle, TypeInv, TypeOK
  <2> QED BY <1>1, <2>1 DEF Receive, GrantsInv, Carried, Cleared, InSignals, worker,
     hub, history
<1>2. CASE UNCHANGED vars
  BY <1>2 DEF GrantsInv, Approving, Carried, Cleared, InSignals, vars, worker, hub, history
<1>3. CASE Restart
  <2>1. Approving' = {}
    BY <1>3 DEF Restart, Approving, Idle
  <2>2. UNCHANGED <<spent, grants>> /\ ~Cleared' /\ own' = NoSignals /\ other' = NoSignals
    BY <1>3 DEF Restart, Cleared
  <2>3. spent \in Nat /\ grants \in Nat /\ Cardinality(Approving) \in Nat
    BY ApprovingFinite DEF TypeInv, TypeOK
  <2> QED
    BY <2>1, <2>2, <2>3, FS_EmptySet DEF GrantsInv, Carried, InSignals, NoSignals
<1> QED BY <1>1, <1>2, <1>3, GrantsHandler, GrantsWorker DEF Next

(* Initially there is no approval.                                         *)
LEMMA GrantsInit == Init => GrantsInv
<1> SUFFICES ASSUME Init PROVE GrantsInv
  OBVIOUS
<1>1. Approving = {}
  BY DEF Init, Approving, Idle
<1> QED BY <1>1, FS_EmptySet DEF Init, GrantsInv, Carried, Cleared, InSignals, NoSignals

(* No interleaving of approvals, rejections, cancels, timeouts and retries *)
(* sends more actions that needed approval than were ever approved.        *)
THEOREM ActionsPaidFor == Spec => []SpentWithinGrants
<1>1. Init => TypeInv /\ GrantsInv
  BY TypeInit, GrantsInit
<1>2. TypeInv /\ GrantsInv /\ [Next]_vars => TypeInv' /\ GrantsInv'
  BY TypeStep, GrantsStep
<1>3. TypeInv /\ GrantsInv => SpentWithinGrants
  BY ApprovingFinite DEF GrantsInv, Carried, InSignals, SpentWithinGrants, TypeInv, TypeOK
<1> QED BY <1>1, <1>2, <1>3, PTL DEF Spec

-----------------------------------------------------------------------------
(* What an operator is promised                                            *)

(* A run shown as succeeded has no worker in its loop, and a worker that   *)
(* ends under a pending approval does not report a success.                *)
SuccessInv ==
  /\ status = "succeeded" => pc \in {"none", "discard", "release"}
  /\ status = "awaiting_approval" /\ pc \in {"refresh", "persist"} => outcome # "succeeded"

(* No handler starts a worker on a run that has succeeded.                 *)
LEMMA SuccessHandler ==
  ASSUME TypeInv, SuccessInv, NEW c \in Clients, Handler(c)
  PROVE  SuccessInv'
<1>1. CASE ChangeStatus(c) \/ Decide(c) \/ Requeue(c) \/ StartCommits(c)
  <2>1. status' \notin {"awaiting_approval", "succeeded"}
    BY <1>1 DEF ChangeStatus, Decide, Requeue, StartCommits, Commit, StatusOps, Target
  <2> QED BY <2>1 DEF SuccessInv
<1>2. CASE Wake(c) \/ ArmStep(c)
  BY <1>2 DEF Wake, ArmStep, SuccessInv, db, worker, history
<1>3. CASE StartLoads(c)
  BY <1>3 DEF StartLoads, SuccessInv, TERMINAL_STATUSES, db
<1> QED BY <1>1, <1>2, <1>3 DEF Handler

(* Only the last step of a worker reports a success, and not under a       *)
(* pending approval.                                                       *)
LEMMA SuccessWorker ==
  ASSUME TypeInv, AwaitingInv, SuccessInv, Worker
  PROVE  SuccessInv'
<1>1. CASE SetAwaitingApproval
  BY <1>1 DEF SetAwaitingApproval, set_status, Commit, Go, SuccessInv
<1>2. CASE SetRunningAgain
  BY <1>2 DEF SetRunningAgain, set_status, Commit, EnterGate, SuccessInv
<1>3. CASE FailTimedOut
  BY <1>3 DEF FailTimedOut, set_status, Commit, Finish, SuccessInv
<1>4. CASE PersistOutcome
  BY <1>4 DEF PersistOutcome, Commit, Go, SuccessInv, TypeInv, TypeOK, TERMINAL_STATUSES
<1>5. CASE RefreshRun \/ DiscardSignals \/ ReleaseBrowser
  BY <1>5 DEF RefreshRun, DiscardSignals, ReleaseBrowser, Go, SuccessInv, db
<1>6. CASE \/ WaitReadsCancelled \/ ConsumeDecision \/ ApprovalDeadline
           \/ TimeoutReadsRow \/ TimeoutDeniesRow
  BY <1>6 DEF WaitReadsCancelled, ConsumeDecision, ApprovalDeadline, TimeoutReadsRow,
     TimeoutDeniesRow, Go, Finish, SuccessInv, db
<1>7. CASE \/ GateReadsCancelled \/ GateReadsHeld \/ GateReadsHuman \/ GateReadsPaused
           \/ LoadRun \/ AcquireBrowser \/ Observe \/ JevDecides \/ RequestApproval
           \/ ReadPage \/ ResearchModel \/ RecordResearch \/ Guard \/ Execute
           \/ ActionFailed
  <2>1. status \notin {"awaiting_approval", "succeeded"}
    BY <1>7 DEF AwaitingInv, SuccessInv, GateReadsCancelled, GateReadsHeld, GateReadsHuman,
       GateReadsPaused, LoadRun, AcquireBrowser, Observe, JevDecides, RequestApproval,
       ReadPage, ResearchModel, RecordResearch, Guard, Execute, ActionFailed
  <2>2. UNCHANGED status
    BY <1>7 DEF GateReadsCancelled, GateReadsHeld, GateReadsHuman,
       GateReadsPaused, LoadRun, AcquireBrowser, Observe, JevDecides, RequestApproval,
       ReadPage, ResearchModel, RecordResearch, Guard, Execute, ActionFailed, db
  <2> QED BY <2>1, <2>2 DEF SuccessInv
<1> QED BY <1>1, <1>2, <1>3, <1>4, <1>5, <1>6, <1>7 DEF Worker

(* Every step keeps what is said of a success.                             *)
LEMMA SuccessStep == TypeInv /\ AwaitingInv /\ SuccessInv /\ [Next]_vars => SuccessInv'
<1> SUFFICES ASSUME TypeInv, AwaitingInv, SuccessInv, [Next]_vars PROVE SuccessInv'
  OBVIOUS
<1>1. ASSUME NEW c \in Clients, NEW op \in Ops \ {"restart"}, Receive(c, op) PROVE SuccessInv'
  BY <1>1 DEF Receive, SuccessInv, db, worker
<1>2. CASE UNCHANGED vars
  BY <1>2 DEF SuccessInv, vars, db, worker
<1>3. CASE Restart
  BY <1>3 DEF Restart, Commit, SuccessInv, TERMINAL_STATUSES
<1> QED BY <1>1, <1>2, <1>3, SuccessHandler, SuccessWorker DEF Next

(* What the operator sees of a step: nothing, or one that is promised.     *)
Seen == Promise!Next \/ UNCHANGED <<status, sent, grants, spent>>

(* A commit of another status is a turn of the promise.                    *)
LEMMA CommitTurns ==
  ASSUME NEW s \in Statuses, Commit(s), UNCHANGED <<grants, spent>>,
         {status, s} # {"awaiting_approval", "succeeded"}
  PROVE  Seen
<1>1. CASE s = status
  BY <1>1 DEF Commit, Seen
<1>2. CASE s # status
  <2>1. Promise!Turns(s)
    BY <1>2 DEF Commit, Promise!Turns
  <2>2. s \in Promise!Statuses
    BY DEF Statuses, Promise!Statuses
  <2> QED BY <2>1, <2>2 DEF Seen, Promise!Next
<1> QED BY <1>1, <1>2

(* What the handlers do to a run.                                          *)
LEMMA PromiseHandler ==
  ASSUME TypeInv, NEW c \in Clients, Handler(c)
  PROVE  Seen
<1>1. CASE ChangeStatus(c) \/ Requeue(c) \/ StartCommits(c)
  <2>1. PICK s \in Statuses \ {"awaiting_approval", "succeeded"} : Commit(s)
    BY <1>1 DEF ChangeStatus, Requeue, StartCommits, StatusOps, Target, Statuses
  <2>2. UNCHANGED <<grants, spent>>
    BY <1>1 DEF ChangeStatus, Requeue, StartCommits
  <2> QED BY <2>1, <2>2, CommitTurns
<1>2. CASE Decide(c)
  <2>1. CASE req[c].op = "approve"
    <3>1. Commit("running") /\ grants' = grants + 1 /\ spent' = spent
      BY <1>2, <2>1 DEF Decide
    <3>2. grants' - spent' = grants - spent + 1
      BY <3>1 DEF TypeInv, TypeOK
    <3>3. Promise!Approves
      BY <3>1, <3>2 DEF Commit, Promise!Approves
    <3> QED BY <3>3 DEF Seen, Promise!Next
  <2>2. CASE req[c].op # "approve"
    <3>1. Commit("failed") /\ UNCHANGED <<grants, spent>>
      BY <1>2, <2>2 DEF Decide
    <3> QED BY <3>1, CommitTurns DEF Statuses
  <2> QED BY <2>1, <2>2
<1>3. CASE Wake(c) \/ ArmStep(c) \/ StartLoads(c)
  BY <1>3 DEF Wake, ArmStep, StartLoads, Seen, db, history
<1> QED BY <1>1, <1>2, <1>3 DEF Handler

(* What the worker does to a run.                                          *)
LEMMA PromiseWorker ==
  ASSUME TypeInv, AwaitingInv, HeldInv, GrantsInv, SuccessInv, Worker
  PROVE  Seen
<1>1. CASE SetAwaitingApproval \/ SetRunningAgain \/ FailTimedOut
  <2>1. PICK s \in {"awaiting_approval", "running", "failed"} :
          /\ set_status(s)
          /\ s = "awaiting_approval" => pc = "awaiting"
    BY <1>1 DEF SetAwaitingApproval, SetRunningAgain, FailTimedOut
  <2>2. UNCHANGED <<grants, spent>>
    BY <1>1 DEF SetAwaitingApproval, SetRunningAgain, FailTimedOut
  <2>3. s \in Statuses /\ {status, s} # {"awaiting_approval", "succeeded"}
    BY <2>1 DEF SuccessInv, Statuses
  <2>4. Commit(s) \/ UNCHANGED <<status, sent>>
    BY <2>1 DEF set_status
  <2> QED BY <2>2, <2>3, <2>4, CommitTurns DEF Seen
<1>2. CASE PersistOutcome
  <2>1. outcome \in Statuses /\ {status, outcome} # {"awaiting_approval", "succeeded"}
    BY <1>2 DEF PersistOutcome, SuccessInv, TypeInv, TypeOK, TERMINAL_STATUSES, Statuses
  <2>2. UNCHANGED <<grants, spent>> /\ (Commit(outcome) \/ UNCHANGED <<status, sent>>)
    BY <1>2 DEF PersistOutcome
  <2> QED BY <2>1, <2>2, CommitTurns DEF Seen
<1>3. CASE Execute
  <2>1. /\ status \notin {"awaiting_approval", "succeeded"}
        /\ status \in Held => sent = 0
    BY <1>3 DEF Execute, AwaitingInv, SuccessInv, HeldInv, Ended, Ending, TypeInv, TypeOK
  <2>2. UNCHANGED <<status, grants>> /\ sent' = sent + 1
    BY <1>3 DEF Execute, db
  <2>3. PICK cost \in {0, 1} : spent' = spent + cost /\ cost <= Carried
    BY <1>3 DEF Execute, Carried, Cleared
  <2>4. cost <= grants - spent /\ grants' - spent' = grants - spent - cost
    <3>1. /\ spent \in Nat /\ grants \in Nat /\ Cardinality(Approving) \in Nat
          /\ InSignals(own) \in Nat /\ InSignals(other) \in Nat /\ Carried \in Nat
      BY ApprovingFinite DEF TypeInv, TypeOK, InSignals, Carried
    <3> QED BY <2>2, <2>3, <3>1 DEF GrantsInv
  <2>5. Promise!Acts
    BY <2>1, <2>2, <2>4 DEF Promise!Acts, Held
  <2> QED BY <2>5 DEF Seen, Promise!Next
<1>4. CASE \/ LoadRun \/ AcquireBrowser
           \/ GateReadsCancelled \/ GateReadsHeld \/ GateReadsHuman \/ GateReadsPaused
           \/ Observe \/ JevDecides \/ RequestApproval \/ WaitReadsCancelled
           \/ ConsumeDecision \/ ApprovalDeadline \/ TimeoutReadsRow \/ TimeoutDeniesRow
           \/ ReadPage \/ ResearchModel \/ RecordResearch \/ Guard \/ ActionFailed
           \/ RefreshRun \/ DiscardSignals \/ ReleaseBrowser
  BY <1>4 DEF LoadRun, AcquireBrowser, GateReadsCancelled, GateReadsHeld, GateReadsHuman,
     GateReadsPaused, Observe, JevDecides, RequestApproval, WaitReadsCancelled,
     ConsumeDecision, ApprovalDeadline, TimeoutReadsRow, TimeoutDeniesRow, ReadPage,
     ResearchModel, RecordResearch, Guard, ActionFailed, RefreshRun, DiscardSignals,
     ReleaseBrowser, Seen, db, history
<1> QED BY <1>1, <1>2, <1>3, <1>4 DEF Worker

(* RunControl implements RunPromise: whatever the worker, any number of    *)
(* handlers and the recovery interleave to, an operator sees the run of    *)
(* the promise.                                                            *)
THEOREM PromiseKept == Spec => KeepsPromise
<1> DEFINE Inv == TypeInv /\ AwaitingInv /\ HeldInv /\ GrantsInv /\ SuccessInv
<1>1. Init => Inv
  <2> SUFFICES ASSUME Init PROVE Inv
    OBVIOUS
  <2>1. AwaitingInv /\ HeldInv /\ SuccessInv
    BY DEF Init, AwaitingInv, HeldInv, Held, SuccessInv
  <2> QED BY <2>1, TypeInit, GrantsInit
<1>2. Inv /\ [Next]_vars => Inv'
  BY TypeStep, AwaitingStep, HeldStep, GrantsStep, SuccessStep
<1>3. Init => Promise!Init
  BY DEF Init, Promise!Init
<1>4. Inv /\ [Next]_vars => [Promise!Next]_<<status, sent, grants - spent>>
  <2> SUFFICES ASSUME Inv, [Next]_vars PROVE Seen
    BY DEF Seen
  <2>1. ASSUME NEW c \in Clients, NEW op \in Ops \ {"restart"}, Receive(c, op) PROVE Seen
    BY <2>1 DEF Receive, Seen, db, history
  <2>2. CASE UNCHANGED vars
    BY <2>2 DEF Seen, vars, db, history
  <2>3. CASE Restart
    <3>1. UNCHANGED <<grants, spent>>
      BY <2>3 DEF Restart
    <3>2. Commit("running") \/ Commit("failed") \/ UNCHANGED <<status, sent>>
      BY <2>3 DEF Restart
    <3> QED BY <3>1, <3>2, CommitTurns DEF Statuses, Seen
  <2> QED BY <2>1, <2>2, <2>3, PromiseHandler, PromiseWorker DEF Next
<1> QED
  BY <1>1, <1>2, <1>3, <1>4, PTL DEF Spec, KeepsPromise, Promise!Spec
=============================================================================
