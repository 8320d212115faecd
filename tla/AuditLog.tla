------------------------------ MODULE AuditLog ------------------------------
(***************************************************************************)
(* The audit events of one run: a hash chain in the database, extended by  *)
(* the run's worker, by operators' requests and by the idle browser timer, *)
(* each in a transaction of its own session, and the checkpoints signed    *)
(* over the chain's head.                                                  *)
(*                                                                         *)
(* An append locks the run's row until its transaction ends, so one        *)
(* transaction at a time sees rows of its own: `view' is what the owner of *)
(* the row sees, and equals the committed rows when nobody owns it.  A     *)
(* session keeps the run it loaded first (the identity map): the           *)
(* SELECT ... FOR UPDATE of an append does not refresh its status.         *)
(*                                                                         *)
(* Hashing is a function of the hashed fields; an event is its place in    *)
(* the chain and whether its type ends a run.  Redaction, the signatures   *)
(* themselves and the other columns of an event are left out.              *)
(***************************************************************************)
EXTENDS Naturals, Sequences

CONSTANTS
  Requests,    \* operators' requests, each with its session
  Worker,      \* the session of the run's worker
  Idle,        \* the session of the idle browser timer
  Nobody,      \* owner of an unlocked row
  Genesis,     \* GENESIS_PREV_HASH
  Interval,    \* AUDIT_CHECKPOINT_INTERVAL, 0 for the terminal events only
  MaxEvents,   \* bound on the events of the run
  MaxFaults    \* bound on rollbacks and restarts

ASSUME AuditAssumption ==
  /\ Worker # Idle /\ {Worker, Idle} \cap Requests = {}
  /\ Nobody \notin Requests \cup {Worker, Idle}
  /\ Interval \in Nat /\ MaxEvents \in Nat /\ MaxFaults \in Nat

VARIABLES
  db,        \* committed rows: agent_events, audit_checkpoints, runs.status
  view,      \* the same rows, as the transaction that owns the run's row sees them
  rowLock,   \* who owns the run's row
  seen,      \* runs.status in the identity map of each session
  worker,    \* where the run's worker is
  faults,    \* rollbacks and restarts so far
  denied,    \* the hub holds a rejection that no gate has consumed
  late,      \* history: the late events, see append
  unsaid     \* history: the last events before an end that recorded none

auditVars == <<db, view, rowLock, seen, worker, faults, denied, late, unsaid>>

Writers == Requests \cup {Worker, Idle}

Ended == {"failed", "stopped"}      \* stopped: cancelled or succeeded
Statuses == {"queued", "live"} \cup Ended

(* Types of events: those in TERMINAL_EVENT_TYPES, and all the others.     *)
EventTypes == {"final", "plain"}

-----------------------------------------------------------------------------
(* The chain                                                               *)

compute_event_hash(seq, type, prev) == <<seq, type, prev>>

HeadHash(log) == IF log = <<>> THEN Genesis ELSE log[Len(log)].event_hash

(* Mutant of NextEvent: the last event is the last committed one.          *)
NextEvent_Committed(log, type) ==
  LET seq == Len(db.log) + 1
  IN [seq |-> seq, type |-> type, prev_hash |-> HeadHash(db.log),
      event_hash |-> compute_event_hash(seq, type, HeadHash(db.log))]

NextEvent(log, type) ==
  LET seq == Len(log) + 1
  IN [seq |-> seq, type |-> type, prev_hash |-> HeadHash(log),
      event_hash |-> compute_event_hash(seq, type, HeadHash(log))]

verify_events_chain(log) ==
  \A i \in 1..Len(log) :
    /\ log[i].seq = i
    /\ log[i].prev_hash = IF i = 1 THEN Genesis ELSE log[i-1].event_hash
    /\ log[i].event_hash
         = compute_event_hash(log[i].seq, log[i].type, log[i].prev_hash)

(* A checkpoint signs a sequence number together with the hash there.      *)
Checkpoint(event) == [seq |-> event.seq, hash |-> event.event_hash]

(* Mutant of maybe_checkpoint: only the newest checkpoint of a run is kept. *)
maybe_checkpoint_Newest(sealed, event, terminal) ==
  IF terminal \/ (Interval # 0 /\ event.seq % Interval = 0)
    THEN {Checkpoint(event)}
    ELSE sealed

maybe_checkpoint(sealed, event, terminal) ==
  IF terminal \/ (Interval # 0 /\ event.seq % Interval = 0)
    THEN sealed \cup {Checkpoint(event)}
    ELSE sealed

verify_run_audit(rows) ==
  LET n == Len(rows.log)
  IN /\ n > 0 /\ verify_events_chain(rows.log)
     /\ rows.sealed # {}
     /\ \A c \in rows.sealed : c.seq \in 1..n /\ rows.log[c.seq].event_hash = c.hash
     /\ (rows.status \in Ended \/ rows.log[n].type = "final")
          => \E c \in rows.sealed : c.seq = n

-----------------------------------------------------------------------------
(* Transactions                                                            *)

Init ==
  /\ db = [log |-> <<>>, sealed |-> {}, status |-> "queued"]
  /\ view = db
  /\ rowLock = Nobody
  /\ seen = [w \in Writers |-> "unread"]
  /\ worker = "none" /\ faults = 0
  /\ denied = FALSE /\ late = {} /\ unsaid = {}

Owns(w) == rowLock \in {Nobody, w}

(* Mutant of append: only the event's type makes it a terminal one.        *)
append_ByType(w, type, known, status) ==
  LET event == NextEvent(view.log, type)
      terminal == type = "final"
  IN /\ Owns(w) /\ Len(view.log) < MaxEvents
     /\ rowLock' = w
     /\ seen' = [seen EXCEPT ![w] = known]
     /\ view' = [log |-> Append(view.log, event),
                 sealed |-> maybe_checkpoint(view.sealed, event, terminal),
                 status |-> status]
     /\ late' = IF ~(terminal \/ known \in Ended)
                     /\ (view.status \in Ended \/ worker = "persist")
                  THEN late \cup {event.seq} ELSE late \ {event.seq}
     /\ UNCHANGED <<db, faults, unsaid>>

(* AuditWriter.append by w, whose session takes the run to be `known', in  *)
(* a transaction that has set the row's status to `status'.  An event is   *)
(* late when its session takes the run to be going on while the run has    *)
(* ended, or the loop has committed its last event.                        *)
append(w, type, known, status) ==
  LET event == NextEvent(view.log, type)
      terminal == type = "final" \/ known \in Ended
  IN /\ Owns(w) /\ Len(view.log) < MaxEvents
     /\ rowLock' = w
     /\ seen' = [seen EXCEPT ![w] = known]
     /\ view' = [log |-> Append(view.log, event),
                 sealed |-> maybe_checkpoint(view.sealed, event, terminal),
                 status |-> status]
     /\ late' = IF ~terminal /\ (view.status \in Ended \/ worker = "persist")
                  THEN late \cup {event.seq} ELSE late \ {event.seq}
     /\ UNCHANGED <<db, faults, unsaid>>

Commit == db' = view /\ view' = view /\ rowLock' = Nobody

(* Mutant of Rollback: checkpoints are written outside the transaction.    *)
Rollback_KeepsCheckpoints ==
  /\ view' = [db EXCEPT !.sealed = view.sealed] /\ rowLock' = Nobody
  /\ faults < MaxFaults /\ faults' = faults + 1
  /\ late' = {n \in late : n <= Len(db.log)}
  /\ UNCHANGED <<db, denied, unsaid>>

Rollback ==
  /\ view' = db /\ rowLock' = Nobody
  /\ faults < MaxFaults /\ faults' = faults + 1
  /\ late' = {n \in late : n <= Len(db.log)}
  /\ UNCHANGED <<db, denied, unsaid>>

(* session.close, or the end of a request: the identity map is gone.       *)
Forgets(w) == seen' = [seen EXCEPT ![w] = "unread"]

(* What a session that reads the run finds in its row.                     *)
Known(w) == IF seen[w] = "unread" THEN view.status ELSE seen[w]

-----------------------------------------------------------------------------
(* The worker                                                              *)

Moves(from, to) == worker = from /\ worker' = to

(* start_run: the row goes to running; one task per run.                   *)
StartRun ==
  /\ view.status \notin Ended /\ rowLock = Nobody
  /\ Moves("none", "starting")
  /\ db' = [db EXCEPT !.status = "live"] /\ view' = db'
  /\ UNCHANGED <<rowLock, seen, faults, denied, late, unsaid>>

(* Once it has a slot, the task loads the run, whatever its status is now. *)
WorkerLoads ==
  /\ Moves("starting", "running")
  /\ seen' = [seen EXCEPT ![Worker] = db.status]
  /\ UNCHANGED <<db, view, rowLock, faults, denied, late, unsaid>>

(* The loop records what it does, and at last how it ended.                *)
LoopRecords ==
  /\ Moves("running", "running")
  /\ append(Worker, "plain", seen[Worker], view.status)
  /\ UNCHANGED denied

LoopEnds ==
  /\ Moves("running", "ending")
  /\ append(Worker, "final", seen[Worker], view.status)
  /\ UNCHANGED denied

(* The gate, which has committed what it recorded, consumes a rejection and *)
(* leaves the end of the run to the request's approval_denied.  Nothing    *)
(* ties the rejection to this gate, nor to the last event.                 *)
LoopDenied ==
  /\ denied /\ rowLock # Worker
  /\ Moves("running", "denied") /\ denied' = FALSE
  /\ UNCHANGED <<db, view, rowLock, seen, faults, late, unsaid>>

(* set_status: unless the run it loaded was cancelled, a status that goes  *)
(* on, in a transaction of its own.                                        *)
LoopSetsStatus ==
  /\ Owns(Worker) /\ seen[Worker] \notin Ended
  /\ Moves("running", "running")
  /\ db' = [view EXCEPT !.status = "live"] /\ view' = db' /\ rowLock' = Nobody
  /\ seen' = [seen EXCEPT ![Worker] = "live"]
  /\ UNCHANGED <<faults, denied, late, unsaid>>

(* An exception leaves the loop, or persisting its outcome failed:         *)
(* run_failed is committed with the status.                                *)
LoopAborts ==
  /\ \E from \in {"running", "persist", "denied"} : Moves(from, "aborting")
  /\ append(Worker, "final", seen[Worker], view.status)
  /\ UNCHANGED denied

LoopCommits ==
  /\ rowLock = Worker
  /\ \/ Moves("running", "running")
     \/ Moves("ending", "persist")
  /\ Commit
  /\ UNCHANGED <<seen, faults, denied, late, unsaid>>

(* _persist_outcome refreshes the run; a cancelled run stays cancelled.    *)
PersistOutcome ==
  /\ Owns(Worker)
  /\ \E from \in {"persist", "aborting", "denied"} : Moves(from, "release")
  /\ \E outcome \in Ended :
       LET status == IF view.status = "stopped" THEN "stopped" ELSE outcome
       IN /\ db' = [view EXCEPT !.status = status]
          /\ seen' = [seen EXCEPT ![Worker] = status]
  /\ view' = db' /\ rowLock' = Nobody
  /\ unsaid' = IF worker = "denied" THEN unsaid \cup {Len(view.log)} ELSE unsaid
  /\ UNCHANGED <<faults, denied, late>>

(* The database fails the worker, and the abort cannot be recorded either. *)
WorkerRollsBack ==
  /\ Owns(Worker) /\ worker \in {"running", "denied", "ending", "persist", "aborting"}
  /\ worker' = "release"
  /\ Rollback /\ Forgets(Worker)

(* The release of the browser, which records browser_stopped if it is      *)
(* stopped at once.                                                        *)
ReleaseRecords ==
  /\ Moves("release", "released")
  /\ append(Worker, "plain", Known(Worker), view.status)
  /\ UNCHANGED denied

(* The hub has discarded the run's signals by now, unless a rejection was  *)
(* put there after that.                                                   *)
WorkerLeaves ==
  /\ \/ Moves("release", "none") /\ UNCHANGED <<db, view, rowLock>>
     \/ Moves("released", "none") /\ Commit
  /\ Forgets(Worker)
  /\ denied' \in {FALSE, denied}
  /\ UNCHANGED <<faults, late, unsaid>>

-----------------------------------------------------------------------------
(* Operators' requests, and the idle timer                                 *)

RequestLoads(r) ==
  /\ seen[r] = "unread"
  /\ seen' = [seen EXCEPT ![r] = db.status]
  /\ UNCHANGED <<db, view, rowLock, worker, faults, denied, late, unsaid>>

Asks(r) == seen[r] # "unread" /\ rowLock # r

(* cancel_run, or the rejection of an action of a run that goes on.        *)
RequestEnds(r) ==
  /\ Asks(r) /\ seen[r] \notin Ended
  /\ \E status \in Ended :
       /\ status = "failed" => seen[r] = "live"
       /\ append(r, "final", status, status)
  /\ UNCHANGED <<worker, denied>>

(* pause_run, resume_run, take_control, release_control and approve_run    *)
(* set a status that goes on; the retry of a step sets none.               *)
RequestControls(r) ==
  /\ Asks(r) /\ seen[r] = "live"
  /\ \E status \in {"live", view.status} : append(r, "plain", "live", status)
  /\ UNCHANGED <<worker, denied>>

(* Mutant of RequestRequeues: the row keeps no status.                     *)
RequestRequeues_Clears(r) ==
  /\ Asks(r) /\ seen[r] = "failed"
  /\ append(r, "plain", "queued", "none")
  /\ denied' = FALSE
  /\ UNCHANGED worker

(* retry_run of a failed run, which discards its signals.                  *)
RequestRequeues(r) ==
  /\ Asks(r) /\ seen[r] = "failed"
  /\ append(r, "plain", "queued", "queued")
  /\ denied' = FALSE
  /\ UNCHANGED worker

(* get_session commits after the request; or it did nothing.  A rejection  *)
(* is put into the hub after its commit, where an approval replaces it.    *)
RequestCommits(r) ==
  /\ seen[r] # "unread"
  /\ IF rowLock = r THEN Commit ELSE UNCHANGED <<db, view, rowLock>>
  /\ denied' \in CASE rowLock = r /\ seen[r] = "failed" -> {TRUE}
                   [] rowLock = r /\ seen[r] = "live"   -> {FALSE, denied}
                   [] OTHER                             -> {denied}
  /\ Forgets(r)
  /\ UNCHANGED <<worker, faults, late, unsaid>>

RequestRollsBack(r) ==
  /\ rowLock = r
  /\ Rollback /\ Forgets(r)
  /\ UNCHANGED worker

(* _emit_audit with a session of its own; the run has left its browser.    *)
IdleRecords ==
  /\ worker = "none" /\ db.log # <<>>
  /\ rowLock # Idle
  /\ append(Idle, "plain", view.status, view.status)
  /\ UNCHANGED <<worker, denied>>

IdleCommits ==
  /\ rowLock = Idle
  /\ Commit /\ Forgets(Idle)
  /\ UNCHANGED <<worker, faults, denied, late, unsaid>>

IdleRollsBack ==
  /\ rowLock = Idle
  /\ Rollback /\ Forgets(Idle)
  /\ UNCHANGED worker

-----------------------------------------------------------------------------
(* The process dies, and recover_runs fails a run that was being worked on *)
Restart ==
  /\ faults < MaxFaults /\ faults' = faults + 1
  /\ rowLock' = Nobody /\ worker' = "none"
  /\ seen' = [w \in Writers |-> "unread"] /\ denied' = FALSE
  /\ IF db.status = "live"
       THEN /\ Len(db.log) < MaxEvents
            /\ LET event == NextEvent(db.log, "final")
               IN /\ db' = [log |-> Append(db.log, event),
                            sealed |-> maybe_checkpoint(db.sealed, event, TRUE),
                            status |-> "failed"]
       ELSE UNCHANGED db
  /\ late' = {n \in late : n <= Len(db.log)}
  /\ view' = db'
  /\ UNCHANGED unsaid

-----------------------------------------------------------------------------

WorkerSteps ==
  \/ StartRun \/ WorkerLoads \/ LoopRecords \/ LoopSetsStatus \/ LoopEnds
  \/ LoopDenied \/ LoopAborts \/ LoopCommits \/ PersistOutcome \/ WorkerRollsBack
  \/ ReleaseRecords \/ WorkerLeaves

RequestSteps(r) ==
  \/ RequestLoads(r) \/ RequestEnds(r) \/ RequestControls(r)
  \/ RequestRequeues(r) \/ RequestCommits(r) \/ RequestRollsBack(r)

IdleSteps == IdleRecords \/ IdleCommits \/ IdleRollsBack

Records == WorkerSteps \/ (\E r \in Requests : RequestSteps(r)) \/ IdleSteps

AuditNext == Records \/ Restart

AuditSpec == Init /\ [][AuditNext]_auditVars

-----------------------------------------------------------------------------
(* Properties                                                              *)

TypeOK ==
  /\ \A rows \in {db, view} :
       /\ rows.status \in Statuses
       /\ Len(rows.log) <= MaxEvents
       /\ \A i \in 1..Len(rows.log) : rows.log[i].type \in EventTypes
  /\ rowLock \in Writers \cup {Nobody}
  /\ seen \in [Writers -> Statuses \cup {"unread"}]
  /\ worker \in {"none", "starting", "running", "denied", "ending", "persist",
                 "aborting", "release", "released"}
  /\ faults \in 0..MaxFaults /\ denied \in BOOLEAN
  /\ late \subseteq 1..MaxEvents /\ unsaid \subseteq 0..MaxEvents

(* Every stored event follows the one before it, whoever wrote the two and *)
(* whatever was rolled back in between: AuditWriter.append never forks,    *)
(* skips or repeats a sequence number.                                     *)
ChainIntact == verify_events_chain(db.log)

(* Every checkpoint is of a stored event, and every event whose type ends  *)
(* the run has one: the two are written in one transaction.                *)
Signed(rows) ==
  /\ \A c \in rows.sealed :
       c.seq \in 1..Len(rows.log) /\ c.hash = rows.log[c.seq].event_hash
  /\ \A i \in 1..Len(rows.log) :
       rows.log[i].type = "final" => Checkpoint(rows.log[i]) \in rows.sealed
FinalEventsSigned == Signed(db)

(* A run that has ended passes verify_run_audit unless its last event      *)
(*   - is a late one: the worker or a request took the run to be going on  *)
(*     when it recorded it, and so did not sign it; or                     *)
(*   - was the last one when the worker ended the run on a rejection and   *)
(*     recorded nothing (loop.py, decision "denied").                      *)
UnsealedOnlyWhenLate ==
  db.status \in Ended => verify_run_audit(db) \/ Len(db.log) \in late \cup unsaid

(* The committed rows are an append-only ledger (writer.py, models.py "Rows *)
(* must never be updated or deleted"): no commit, rollback, recovery or    *)
(* late writer changes, drops or re-links a stored event, or moves or      *)
(* loses a checkpoint.                                                     *)
StoredRows == INSTANCE Ledger WITH entries <- db.log, marks <- db.sealed
RowsAreLedger == StoredRows!Spec
=============================================================================
