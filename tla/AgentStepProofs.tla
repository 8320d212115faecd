--------------------------- MODULE AgentStepProofs ---------------------------
(****************************************************************************)
(* What a step of the loop decides, asks and executes, for any page, any    *)
(* settings of the two record writers and any number of steps.              *)
(****************************************************************************)
EXTENDS AgentStep, TLAPS

(* The last checkpoint and screenshot stand for the observation at hand.    *)
PointCovers ==
  /\ stored # None /\ stored.head = obs.head
  /\ ~MajorChange(stored.elements, obs.elements)
  /\ obs.errors <= stored.errors
  /\ PointEvery > 0 => sincePoint < PointEvery

ShotCovers ==
  /\ pictured # None /\ pictured.head = obs.head
  /\ ShotEvery > 0 => sinceShot < ShotEvery

InView(a, o) ==
  a.kind \in Targeted =>
    /\ a.target \in o.elements
    /\ o.elements \cap Modal # {} => a.target \in Modal

(* Why records are taken where the step is.                                 *)
WhyOK ==
  /\ at \in {"observe", "decide", "ready", "execute"} => why = "none"
  /\ at = "waiting" => why = "approval"
  /\ at = "failing" => why = "error"
  /\ at = "done" => why \in {"none", "destructive"}
  /\ at = "checkpoint" => why # "destructive"

Recording == at \in {"checkpoint", "screenshot"}

SeenOK ==
  at \notin {"observe", "ended"} =>
    obs \in Observation /\ (obs.elements \cap Modal # {} => obs.elements \subseteq Modal)

RecordsOK ==
  /\ stored = point /\ pictured = shot
  /\ at \in {"screenshot", "decide"} /\ why # "destructive" => PointCovers
  /\ at = "decide" => ShotCovers
  /\ at = "screenshot" /\ why \in {"approval", "error"} => stored = obs
  /\ at \in {"waiting", "failing"} \/ (at \in Acting /\ granted) =>
       stored = obs /\ pictured = obs

ActionOK ==
  at \in {"waiting"} \cup Acting \/ (Recording /\ why = "approval") => InView(action, obs)

ConsentOK ==
  /\ at \in {"observe", "decide", "waiting"} => ~granted
  /\ Recording /\ why \in {"none", "approval"} => ~granted

OpenOK ==
  open => \/ at \in {"execute", "failing"}
          \/ Recording /\ why = "error"
          \/ at = "ended" /\ cut

StepInv == TypeOK /\ WhyOK /\ SeenOK /\ RecordsOK /\ ActionOK /\ ConsentOK /\ OpenOK

-----------------------------------------------------------------------------

(* None is no observation of the page.                                     *)
LEMMA NotObserved == None \notin Observation
  BY AgentStepAssumption DEF Observation

(* While a dialog is open, only elements of it are targets.                 *)
LEMMA LimitedFacts ==
  ASSUME NEW elements \in SUBSET Elements
  PROVE  /\ Limited(elements) \subseteq Elements
         /\ Limited(elements) \cap Modal # {} => Limited(elements) \subseteq Modal
  BY DEF Limited

(* The answers of Jev name a target the request showed, whichever it is.    *)
LEMMA AnswersInView ==
  ASSUME NEW o \in Observation,
         o.elements \cap Modal # {} => o.elements \subseteq Modal,
         NEW a \in Actions(o)
  PROVE  InView(a, o)
<1>1. a.kind \in Targeted => a.target \in o.elements
  BY DEF Actions, Targeted, Bitwarden
<1> QED
  BY <1>1 DEF InView

(* A checkpoint that is not due is one that still covers the page.          *)
LEMMA NotDueCovers ==
  ASSUME NEW last \in Observation \cup {None}, NEW o \in Observation, NEW since \in Nat,
         NEW force, ~PointDue(last, o, since, force)
  PROVE  /\ last # None /\ last.head = o.head
         /\ ~MajorChange(last.elements, o.elements)
         /\ o.errors <= last.errors
         /\ PointEvery > 0 => since < PointEvery
         /\ force = "none"
<1>1. last \in Observation
  BY DEF PointDue
<1>2. o.errors \in 0..1 /\ last.errors \in 0..1 /\ PointEvery \in Nat
  BY <1>1, AgentStepAssumption DEF Observation
<1> QED
  BY <1>1, <1>2, NotObserved DEF PointDue, Due

(* When no screenshot is due, the last one has the head of the page.       *)
LEMMA NotDueShows ==
  ASSUME NEW last \in Observation \cup {None}, NEW o \in Observation, NEW since \in Nat,
         NEW force, ~ShotDue(last, o, since, force)
  PROVE  /\ last # None /\ last.head = o.head
         /\ ShotEvery > 0 => since < ShotEvery
         /\ force = "none"
<1>1. ShotEvery \in Nat
  BY AgentStepAssumption
<1> QED
  BY <1>1, NotObserved DEF ShotDue, Due

(* A page has not changed with respect to itself.                          *)
LEMMA NoChange == ASSUME NEW x PROVE ~MajorChange(x, x)
  BY DEF MajorChange

-----------------------------------------------------------------------------

(* Every run starts between steps with nothing on record.                   *)
THEOREM StepInvInit == Init => StepInv
<1> SUFFICES ASSUME Init PROVE StepInv
  OBVIOUS
<1>1. 0 \in 0..MaxSteps
  BY AgentStepAssumption
<1>2. TypeOK
  BY <1>1 DEF Init, TypeOK
<1>3. at = "observe" /\ why = "none" /\ ~granted /\ ~open /\ stored = point /\ pictured = shot
  BY DEF Init
<1> QED
  BY <1>2, <1>3
  DEF StepInv, WhyOK, SeenOK, RecordsOK, ActionOK, ConsentOK, OpenOK, Recording, Acting

(* A fresh observation is limited to the dialog before anyone uses it.     *)
LEMMA ObserveStep == StepInv /\ Observe => StepInv'
<1> SUFFICES ASSUME StepInv, Observe PROVE StepInv'
  OBVIOUS
<1>1. PICK raw \in Observation : obs' = [raw EXCEPT !.elements = Limited(@)]
  BY DEF Observe
<1>2. /\ obs' \in Observation
      /\ obs'.elements \cap Modal # {} => obs'.elements \subseteq Modal
  BY <1>1, LimitedFacts DEF Observation
<1>3. steps' \in 0..MaxSteps
  BY AgentStepAssumption DEF Observe, StepInv, TypeOK
<1> QED
  BY <1>2, <1>3
  DEF Observe, Goes, StepInv, TypeOK, WhyOK, SeenOK, RecordsOK, ActionOK, ConsentOK, OpenOK,
      Recording, Acting, writers, points, shots

(* The checkpoint writer moves its fingerprint with what it stored.        *)
LEMMA CheckpointStep == StepInv /\ Checkpoint => StepInv'
<1> SUFFICES ASSUME StepInv, Checkpoint PROVE StepInv'
  OBVIOUS
<1> USE DEF StepInv, Checkpoint, Goes, shots
<1>1. obs \in Observation /\ point \in Observation \cup {None} /\ sincePoint + 1 \in Nat
  BY DEF SeenOK, TypeOK
<1>2. TypeOK'
  BY <1>1 DEF TypeOK
<1>3. PointCovers' /\ (why \in {"approval", "error"} => stored' = obs) /\ stored' = point'
  <2>1. CASE PointDue(point, obs, sincePoint + 1, why)
    <3>1. stored' = obs /\ sincePoint' = 0 /\ point' = obs /\ obs' = obs
      BY <2>1
    <3>2. obs.errors <= obs.errors
      BY <1>1 DEF Observation
    <3> QED
      BY <3>1, <3>2, <1>1, NoChange, NotObserved DEF PointCovers, MajorChange
  <2>2. CASE ~PointDue(point, obs, sincePoint + 1, why)
    <3>1. stored' = point /\ sincePoint' = sincePoint + 1 /\ point' = point /\ obs' = obs
      BY <2>2 DEF RecordsOK
    <3> QED
      BY <3>1, <2>2, <1>1, NotDueCovers DEF PointCovers, MajorChange
  <2> QED
    BY <2>1, <2>2
<1>4. RecordsOK'
  BY <1>3 DEF RecordsOK, Acting
<1>5. WhyOK' /\ SeenOK' /\ ActionOK'
  BY DEF WhyOK, SeenOK, ActionOK, Recording, Acting, InView
<1>6. ConsentOK' /\ OpenOK'
  BY DEF ConsentOK, OpenOK, Recording, Acting
<1> QED
  BY <1>2, <1>4, <1>5, <1>6

(* So does the screenshot writer.                                          *)
LEMMA ScreenshotStep == StepInv /\ Screenshot => StepInv'
<1> SUFFICES ASSUME StepInv, Screenshot PROVE StepInv'
  OBVIOUS
<1> USE DEF StepInv, Screenshot, Goes, points
<1>1. obs \in Observation /\ shot \in Observation \cup {None} /\ sinceShot + 1 \in Nat
      /\ why \in {"none", "approval", "error", "destructive"}
  BY DEF SeenOK, TypeOK
<1>2. /\ at' \in {"decide", "waiting", "failing", "done"}
      /\ why = "none" <=> at' = "decide"
      /\ why = "approval" <=> at' = "waiting"
      /\ why = "error" <=> at' = "failing"
      /\ why = "destructive" <=> at' = "done"
  BY <1>1 DEF After
<1>3. TypeOK'
  BY <1>1, <1>2 DEF TypeOK
<1>4. ShotCovers' /\ (why # "none" => pictured' = obs) /\ pictured' = shot'
  <2>1. CASE ShotDue(shot, obs, sinceShot + 1, why)
    BY <2>1, <1>1, NotObserved DEF ShotCovers
  <2>2. CASE ~ShotDue(shot, obs, sinceShot + 1, why)
    <3>1. pictured' = shot /\ sinceShot' = sinceShot + 1 /\ shot' = shot
      BY <2>2 DEF RecordsOK
    <3> QED
      BY <3>1, <2>2, <1>1, NotDueShows DEF ShotCovers
  <2> QED
    BY <2>1, <2>2
<1>5. why # "destructive" => PointCovers'
  BY DEF RecordsOK, PointCovers, MajorChange
<1>6. RecordsOK'
  BY <1>2, <1>4, <1>5 DEF RecordsOK, Acting
<1>7. WhyOK' /\ SeenOK' /\ ActionOK'
  BY <1>2 DEF WhyOK, SeenOK, ActionOK, Recording, Acting, InView
<1>8. ConsentOK' /\ OpenOK'
  BY <1>2 DEF ConsentOK, OpenOK, Recording, Acting
<1> QED
  BY <1>3, <1>6, <1>7, <1>8

(* Whatever decides, the action fits the limited view.                     *)
LEMMA DecideStep == StepInv /\ Decide => StepInv'
<1> SUFFICES ASSUME StepInv, Decide PROVE StepInv'
  OBVIOUS
<1> USE DEF StepInv, Goes, writers, points, shots
<1>1. /\ obs \in Observation /\ (obs.elements \cap Modal # {} => obs.elements \subseteq Modal)
      /\ why = "none" /\ ~granted /\ ~open
  BY DEF Decide, SeenOK, WhyOK, ConsentOK, OpenOK, Recording, TypeOK
<1>2. action' \in Actions(obs)
  BY DEF Decide
<1>3. InView(action', obs)
  BY <1>1, <1>2, AnswersInView
<1>4. /\ NeedsApproval(action') => at' = "checkpoint" /\ why' = "approval"
      /\ ~NeedsApproval(action') => at' = "ready" /\ why' = "none"
      /\ UNCHANGED <<steps, obs, granted, writers, open, cut>>
  BY <1>1 DEF Decide
<1>5. TypeOK' /\ WhyOK' /\ SeenOK' /\ OpenOK'
  BY <1>1, <1>4 DEF TypeOK, WhyOK, SeenOK, OpenOK
<1>6. RecordsOK'
  BY <1>1, <1>4 DEF RecordsOK, Acting
<1>7. ActionOK'
  BY <1>3, <1>4 DEF ActionOK, InView
<1>8. ConsentOK'
  BY <1>1, <1>4 DEF ConsentOK, Acting, Recording
<1> QED
  BY <1>5, <1>6, <1>7, <1>8

(* The steps that move on without a new observation, record or decision.    *)
LEMMA PlainStep ==
  StepInv /\ (Grant \/ RequestAction \/ Executed \/ ExecuteFails) => StepInv'
<1> SUFFICES ASSUME StepInv, Grant \/ RequestAction \/ Executed \/ ExecuteFails
             PROVE  StepInv'
  OBVIOUS
<1> USE DEF StepInv, Goes, writers, points, shots, Grant, RequestAction, Executed, ExecuteFails
<1>1. TypeOK' /\ WhyOK' /\ SeenOK'
  BY DEF TypeOK, WhyOK, SeenOK
<1>2. RecordsOK'
  BY DEF RecordsOK, Acting, WhyOK
<1>3. ActionOK'
  BY DEF ActionOK, Recording, Acting, InView
<1>4. ConsentOK'
  BY DEF ConsentOK, Recording, Acting
<1>5. OpenOK'
  BY DEF OpenOK, Recording, WhyOK
<1> QED
  BY <1>1, <1>2, <1>3, <1>4, <1>5

(* The steps that end the run, or the step.                                 *)
LEMMA EndingStep ==
  StepInv /\ (\/ StepsExceeded \/ RecordFails \/ DecideFails \/ Withheld \/ NoText
              \/ ExecuteRaises \/ ActionFailed \/ StepDone \/ Interrupted) => StepInv'
<1> SUFFICES ASSUME StepInv,
                    \/ StepsExceeded \/ RecordFails \/ DecideFails \/ Withheld \/ NoText
                    \/ ExecuteRaises \/ ActionFailed \/ StepDone \/ Interrupted
             PROVE  StepInv'
  OBVIOUS
<1> USE DEF StepInv, Goes, writers, points, shots, StepsExceeded, RecordFails, DecideFails,
            Withheld, NoText, ExecuteRaises, ActionFailed, StepDone, Interrupted, NextStep
<1>1. at' \in {"ended", "observe"} /\ (at' = "observe" => why' = "none" /\ ~granted')
  OBVIOUS
<1>2. cut' \in BOOLEAN
  BY DEF TypeOK
<1>3. TypeOK'
  <2>1. obs' \in {obs, None} /\ why' \in {why, "none"} /\ granted' \in {granted, FALSE}
        /\ open' \in {open, FALSE}
    OBVIOUS
  <2>2. UNCHANGED <<point, shot, stored, pictured, sincePoint, sinceShot, steps>>
    OBVIOUS
  <2> QED
    BY ONLY <1>1, <1>2, <2>1, <2>2, TypeOK DEF TypeOK
<1>4. stored' = stored /\ point' = point /\ pictured' = pictured /\ shot' = shot
  OBVIOUS
<1>5. RecordsOK'
  <2>1. stored' = point' /\ pictured' = shot'
    BY <1>4 DEF RecordsOK
  <2> QED
    BY ONLY <2>1, <1>1 DEF RecordsOK, Acting
<1>7. WhyOK' /\ SeenOK' /\ ActionOK' /\ ConsentOK'
  BY ONLY <1>1 DEF WhyOK, SeenOK, ActionOK, ConsentOK, Recording, Acting
<1>6. OpenOK'
  <2>1. CASE RecordFails \/ ExecuteRaises \/ Interrupted
    <3>1. cut' /\ at' = "ended"
      BY <2>1
    <3> QED
      BY <3>1 DEF OpenOK
  <2>2. CASE ActionFailed
    BY <2>2 DEF OpenOK
  <2>3. CASE StepsExceeded \/ DecideFails \/ Withheld \/ NoText \/ StepDone
    <3>1. ~open
      BY <2>3 DEF OpenOK, Recording
    <3> QED
      BY <2>3, <3>1 DEF OpenOK
  <2> QED
    BY <2>1, <2>2, <2>3
<1> QED
  BY <1>3, <1>5, <1>6, <1>7

(* Every step of the loop keeps the invariant.                              *)
THEOREM StepInvStep == StepInv /\ [Next]_vars => StepInv'
<1> SUFFICES ASSUME StepInv, [Next]_vars PROVE StepInv'
  OBVIOUS
<1>1. CASE Next
  BY <1>1, ObserveStep, CheckpointStep, ScreenshotStep, DecideStep, PlainStep, EndingStep
  DEF Next
<1>2. CASE UNCHANGED vars
  BY <1>2 DEF vars, writers, points, shots, StepInv, TypeOK, WhyOK, SeenOK, RecordsOK,
      ActionOK, ConsentOK, OpenOK, Recording, Acting, InView,
      PointCovers, ShotCovers, MajorChange
<1> QED
  BY <1>1, <1>2

(* The invariant of the step holds in every reachable state.               *)
LEMMA StepInvHolds == StepSpec => []StepInv
  BY StepInvInit, StepInvStep, PTL DEF StepSpec

(* The state stays well typed: among others, the step budget is kept.       *)
THEOREM StepTyped == StepSpec => []TypeOK
<1>1. StepInv => TypeOK
  BY DEF StepInv
<1> QED
  BY <1>1, StepInvHolds, PTL

(* Decisions are made on record: small changes, errors and age never leave  *)
(* the audit trail behind the observation Jev sees (decide_checkpoint).     *)
THEOREM DecisionsRecorded == StepSpec => []DecidesOnRecord
<1>1. StepInv => DecidesOnRecord
  BY DEF StepInv, RecordsOK, WhyOK, PointCovers, ShotCovers, DecidesOnRecord
<1> QED
  BY <1>1, StepInvHolds, PTL

(* An operator who is asked, and whoever reads of a failure, has exactly    *)
(* the observation of that step (loop.py, force_reason).                    *)
THEOREM JudgementsRecorded == StepSpec => []JudgedOnRecord
<1>1. StepInv => JudgedOnRecord
  BY DEF StepInv, RecordsOK, JudgedOnRecord
<1> QED
  BY <1>1, StepInvHolds, PTL

(* Nothing is executed on an element that was not shown to Jev, nor behind  *)
(* an open dialog (_limit_to_modal_candidates, from_jev_response).          *)
THEOREM ViewRespected == StepSpec => []ActsWithinView
<1>1. StepInv => ActsWithinView
  BY DEF StepInv, ActionOK, InView, ActsWithinView, Acting
<1> QED
  BY <1>1, StepInvHolds, PTL

(* A requested action is answered in the log before the next step begins,   *)
(* and before the run ends unless it is cut short (_step, recover_runs).    *)
THEOREM RequestsClosed == StepSpec => []RequestsAnswered
<1>1. StepInv => RequestsAnswered
  BY DEF StepInv, OpenOK, Recording, RequestsAnswered
<1> QED
  BY <1>1, StepInvHolds, PTL
=============================================================================
