--------------------------- MODULE AuditLogProofs ---------------------------
(***************************************************************************)
(* The hash chain and its checkpoints, for any set of requests, any        *)
(* interval and any number of events, rollbacks and restarts.              *)
(***************************************************************************)
EXTENDS AuditLog, TLAPS

IsSeq(s) == \E S : s \in Seq(S)

(* Rows that a transaction may see: a chain whose checkpoints match it.    *)
Sound(rows) ==
  /\ rows = [log |-> rows.log, sealed |-> rows.sealed, status |-> rows.status]
  /\ IsSeq(rows.log)
  /\ verify_events_chain(rows.log)
  /\ Signed(rows)

(* The last event is signed, or late, or the run ended on a rejection.     *)
HeadSigned(rows) ==
  \/ Len(rows.log) \in late \cup unsaid
  \/ \E c \in rows.sealed : c.seq = Len(rows.log)

(* Whoever owns the row sees what is committed and what it added; a worker *)
(* between its last event and its outcome has left a head that is signed.  *)
AuditInv ==
  /\ Sound(db) /\ Sound(view)
  /\ Len(db.log) <= Len(view.log)
  /\ rowLock = Nobody => view = db
  /\ (db.status \in Ended \/ worker = "persist") => HeadSigned(db)
  /\ (view.status \in Ended \/ worker \in {"ending", "persist", "aborting"})
       => HeadSigned(view)
  /\ worker \in {"ending", "aborting"} => rowLock = Worker

-----------------------------------------------------------------------------

(* What Append does to a sequence over no particular set.                  *)
LEMMA AppendFacts ==
  ASSUME NEW s, IsSeq(s), NEW e
  PROVE  /\ Len(s) \in Nat
         /\ IsSeq(Append(s, e))
         /\ Len(Append(s, e)) = Len(s) + 1
         /\ \A i \in 1..Len(s) : Append(s, e)[i] = s[i]
         /\ Append(s, e)[Len(s) + 1] = e
<1>1. PICK S : s \in Seq(S)
  BY DEF IsSeq
<1> DEFINE T == S \cup {e}
<1>2. s \in Seq(T)
  BY <1>1
<1>3. Append(s, e) \in Seq(T)
  BY <1>2
<1>4. QED
  BY <1>2, <1>3 DEF IsSeq

(* The next event continues the chain it was computed from.                *)
LEMMA ChainGrows ==
  ASSUME NEW log, IsSeq(log), verify_events_chain(log), NEW type
  PROVE  verify_events_chain(Append(log, NextEvent(log, type)))
<1> DEFINE e == NextEvent(log, type)
           more == Append(log, e)
<1>1. /\ Len(log) \in Nat /\ Len(more) = Len(log) + 1
      /\ \A i \in 1..Len(log) : more[i] = log[i]
      /\ more[Len(log) + 1] = e
  BY AppendFacts
<1>2. /\ e.seq = Len(log) + 1 /\ e.prev_hash = HeadHash(log)
      /\ e.event_hash = compute_event_hash(e.seq, e.type, e.prev_hash)
  BY DEF NextEvent
<1>3. log = <<>> <=> Len(log) = 0
  BY DEF IsSeq
<1>4. HeadHash(log) = IF Len(log) = 0 THEN Genesis ELSE more[Len(log)].event_hash
  BY <1>1, <1>3 DEF HeadHash
<1> HIDE DEF e, more
<1>5. ASSUME NEW i \in 1..Len(more)
      PROVE  /\ more[i].seq = i
             /\ more[i].prev_hash = IF i = 1 THEN Genesis ELSE more[i-1].event_hash
             /\ more[i].event_hash
                  = compute_event_hash(more[i].seq, more[i].type, more[i].prev_hash)
  <2>1. CASE i \in 1..Len(log)
    <3>1. more[i] = log[i] /\ (i # 1 => more[i-1] = log[i-1])
      BY <1>1, <2>1
    <3>2. QED
      BY <2>1, <3>1 DEF verify_events_chain
  <2>2. CASE i = Len(log) + 1
    BY <1>1, <1>2, <1>4, <2>2
  <2>3. QED
    BY <1>1, <2>1, <2>2
<1>6. QED
  BY <1>5 DEF verify_events_chain, more, e

\* The rows with one more event, signed when it is terminal.
Grown(rows, type, terminal, status) ==
  [log |-> Append(rows.log, NextEvent(rows.log, type)),
   sealed |-> maybe_checkpoint(rows.sealed, NextEvent(rows.log, type), terminal),
   status |-> status]

(* An append keeps rows sound, and signs its event when it has to.         *)
LEMMA SoundGrows ==
  ASSUME NEW rows, Sound(rows), NEW type, NEW terminal \in BOOLEAN, NEW status,
         type = "final" => terminal, NEW more, more = Grown(rows, type, terminal, status)
  PROVE  /\ Sound(more)
         /\ Len(more.log) = Len(rows.log) + 1 /\ Len(rows.log) \in Nat
         /\ NextEvent(rows.log, type).seq = Len(more.log)
         /\ terminal => \E c \in more.sealed : c.seq = Len(more.log)
<1> DEFINE e == NextEvent(rows.log, type)
           sealed == maybe_checkpoint(rows.sealed, e, terminal)
<1>0. more = [log |-> Append(rows.log, e), sealed |-> sealed, status |-> status]
  BY DEF Grown
<1>1. /\ Len(rows.log) \in Nat /\ IsSeq(more.log)
      /\ Len(more.log) = Len(rows.log) + 1
      /\ \A i \in 1..Len(rows.log) : more.log[i] = rows.log[i]
      /\ more.log[Len(rows.log) + 1] = e
  BY <1>0, AppendFacts DEF Sound
<1>2. e.seq = Len(rows.log) + 1 /\ e.type = type
  BY DEF NextEvent
<1>3. verify_events_chain(more.log)
  BY <1>0, ChainGrows DEF Sound
<1>4. /\ rows.sealed \subseteq sealed
      /\ \A c \in sealed : c \in rows.sealed \/ c = Checkpoint(e)
      /\ terminal => Checkpoint(e) \in sealed
  BY DEF maybe_checkpoint
<1>5. Checkpoint(e).seq = e.seq /\ Checkpoint(e).hash = e.event_hash
  BY DEF Checkpoint
<1>6. more.sealed = sealed
  BY <1>0
<1> HIDE DEF e, sealed
<1>7. Signed(more)
  <2>1. ASSUME NEW c \in sealed
        PROVE  c.seq \in 1..Len(more.log) /\ c.hash = more.log[c.seq].event_hash
    <3>1. CASE c \in rows.sealed
      BY <1>1, <3>1 DEF Sound, Signed
    <3>2. CASE c = Checkpoint(e)
      BY <1>1, <1>2, <1>5, <3>2
    <3>3. QED
      BY <1>4, <2>1, <3>1, <3>2
  <2>2. ASSUME NEW i \in 1..Len(more.log), more.log[i].type = "final"
        PROVE  Checkpoint(more.log[i]) \in sealed
    <3>1. CASE i \in 1..Len(rows.log)
      BY <1>1, <1>4, <2>2, <3>1 DEF Sound, Signed
    <3>2. CASE i = Len(rows.log) + 1
      BY <1>1, <1>2, <1>4, <2>2, <3>2
    <3>3. QED
      BY <1>1, <2>2, <3>1, <3>2
  <2>3. QED
    BY <1>6, <2>1, <2>2 DEF Signed
<1>8. Sound(more)
  BY <1>0, <1>1, <1>3, <1>7 DEF Sound
<1>9. terminal => \E c \in more.sealed : c.seq = Len(more.log)
  BY <1>1, <1>2, <1>4, <1>5, <1>6
<1>10. QED
  BY <1>1, <1>2, <1>8, <1>9 DEF e, sealed

(* Replacing the status of the rows leaves their log and checkpoints.      *)
LEMMA StatusChange ==
  ASSUME NEW rows, Sound(rows), NEW status
  PROVE  /\ Sound([rows EXCEPT !.status = status])
         /\ [rows EXCEPT !.status = status].log = rows.log
         /\ [rows EXCEPT !.status = status].sealed = rows.sealed
         /\ [rows EXCEPT !.status = status].status = status
<1>1. [rows EXCEPT !.status = status]
        = [log |-> rows.log, sealed |-> rows.sealed, status |-> status]
  BY DEF Sound
<1>2. QED
  BY <1>1 DEF Sound, Signed

(* What AuditWriter.append does to the rows and to who owns them.          *)
LEMMA AppendKeeps ==
  ASSUME AuditInv, NEW w \in Writers, NEW type, NEW known, NEW status,
         append(w, type, known, status),
         status \in Ended => type = "final" \/ view.status \in Ended
  PROVE  /\ db' = db /\ rowLock' = w /\ rowLock' # Nobody
         /\ rowLock \in {Nobody, w}
         /\ Sound(view') /\ Len(db.log) <= Len(view'.log)
         /\ (type = "final" \/ view'.status \in Ended \/ worker = "persist")
              => HeadSigned(view)'
         /\ HeadSigned(db) => HeadSigned(db)'
<1> DEFINE e == NextEvent(view.log, type)
           terminal == type = "final" \/ known \in Ended
           more == [log |-> Append(view.log, e),
                    sealed |-> maybe_checkpoint(view.sealed, e, terminal),
                    status |-> status]
<1>1. /\ view' = more /\ db' = db /\ rowLock' = w /\ rowLock \in {Nobody, w}
      /\ unsaid' = unsaid
      /\ late' = IF ~terminal /\ (view.status \in Ended \/ worker = "persist")
                   THEN late \cup {e.seq} ELSE late \ {e.seq}
  BY DEF append, Owns
<1>2. w # Nobody
  BY AuditAssumption DEF Writers
<1>3. /\ Sound(more)
      /\ Len(more.log) = Len(view.log) + 1 /\ Len(view.log) \in Nat
      /\ e.seq = Len(more.log)
      /\ terminal => \E c \in more.sealed : c.seq = Len(more.log)
  <2>1. terminal \in BOOLEAN /\ (type = "final" => terminal)
    OBVIOUS
  <2>2. Sound(view)
    BY DEF AuditInv
  <2>3. more = Grown(view, type, terminal, status) /\ e = NextEvent(view.log, type)
    BY DEF Grown
  <2> HIDE DEF e, more, terminal
  <2>4. QED
    BY ONLY <2>1, <2>2, <2>3, SoundGrows
<1>4. Len(db.log) \in Nat /\ Len(db.log) <= Len(view.log)
  BY AppendFacts DEF AuditInv, Sound
<1>5. more.status = status
  OBVIOUS
<1> HIDE DEF e, more
<1>6. ASSUME type = "final" \/ status \in Ended \/ worker = "persist"
      PROVE  HeadSigned(view)'
  <2>1. CASE terminal
    BY <1>1, <1>3, <2>1 DEF HeadSigned
  <2>2. CASE ~terminal
    <3>1. view.status \in Ended \/ worker = "persist"
      BY <1>6, <2>2
    <3>2. Len(more.log) \in late'
      BY <1>1, <1>3, <2>2, <3>1
    <3>3. QED
      BY <1>1, <1>3, <3>2 DEF HeadSigned
  <2>3. QED
    BY <2>1, <2>2
<1>7. HeadSigned(db) => HeadSigned(db)'
  <2>1. e.seq # Len(db.log)
    BY <1>3, <1>4
  <2>2. Len(db.log) \in late => Len(db.log) \in late'
    BY <1>1, <2>1
  <2>3. QED
    BY <1>1, <2>2 DEF HeadSigned
<1>8. QED
  BY <1>1, <1>2, <1>3, <1>4, <1>5, <1>6, <1>7

(* Initially nothing is stored and nobody owns the run's row.              *)
THEOREM AuditInvInit == Init => AuditInv
<1> SUFFICES ASSUME Init PROVE AuditInv
  OBVIOUS
<1>1. /\ db = [log |-> <<>>, sealed |-> {}, status |-> "queued"] /\ view = db
      /\ worker = "none"
  BY DEF Init
<1>2. IsSeq(<<>>) /\ Len(<<>>) = 0
  BY DEF IsSeq
<1>3. Sound(db)
  BY <1>1, <1>2 DEF Sound, verify_events_chain, Signed
<1>4. QED
  BY <1>1, <1>2, <1>3 DEF AuditInv, Ended

(* A rollback leaves only committed rows, and forgets later late events.   *)
LEMMA RollbackKeeps ==
  ASSUME AuditInv, Rollback, worker' = worker \/ worker' = "release",
         worker \in {"ending", "aborting"} => worker' = "release"
  PROVE  AuditInv'
<1>1. Len(db.log) \in Nat
  BY AppendFacts DEF AuditInv, Sound
<1>2. /\ view' = db /\ db' = db /\ rowLock' = Nobody
      /\ late' = {n \in late : n <= Len(db.log)} /\ unsaid' = unsaid
  BY DEF Rollback
<1>3. HeadSigned(db) => HeadSigned(db)' /\ HeadSigned(view)'
  BY <1>1, <1>2 DEF HeadSigned
<1>4. Sound(db)' /\ Sound(view)'
  BY <1>2 DEF AuditInv, Sound, Signed, IsSeq, verify_events_chain, Checkpoint,
              compute_event_hash
<1>5. Len(db'.log) <= Len(view'.log)
  BY <1>1, <1>2
<1>6. QED
  BY <1>2, <1>3, <1>4, <1>5 DEF AuditInv

(* A commit makes the view of the owner the committed rows.                *)
LEMMA CommitKeeps ==
  ASSUME AuditInv, Commit, late' = late, unsaid' = unsaid,
         worker' = "persist" => worker \in {"ending", "persist"},
         worker' \notin {"ending", "aborting"}
  PROVE  AuditInv'
<1>1. db' = view /\ view' = view /\ rowLock' = Nobody
  BY DEF Commit
<1>2. Len(view.log) \in Nat
  BY AppendFacts DEF AuditInv, Sound
<1>3. HeadSigned(view) => HeadSigned(db)' /\ HeadSigned(view)'
  BY <1>1 DEF HeadSigned
<1>4. Sound(db)' /\ Sound(view)'
  BY <1>1 DEF AuditInv, Sound, Signed, IsSeq, verify_events_chain, Checkpoint,
              compute_event_hash
<1>5. QED
  BY <1>1, <1>2, <1>3, <1>4 DEF AuditInv

(* What an append does to the invariant, when the step is not the end of a *)
(* loop that has ended, and the event of a loop that ends is a final one.  *)
LEMMA AppendStep ==
  ASSUME AuditInv, NEW w \in Writers, NEW type, NEW known, NEW status,
         append(w, type, known, status),
         status \in Ended => type = "final" \/ view.status \in Ended,
         worker' \in {"ending", "aborting"} => w = Worker /\ type = "final",
         worker' = "persist" => worker = "persist"
  PROVE  AuditInv'
<1>1. /\ db' = db /\ rowLock' = w /\ rowLock' # Nobody
      /\ Sound(view') /\ Len(db.log) <= Len(view'.log)
      /\ (type = "final" \/ view'.status \in Ended \/ worker = "persist")
           => HeadSigned(view)'
      /\ HeadSigned(db) => HeadSigned(db)'
  BY AppendKeeps
<1>2. Sound(db)' /\ Sound(view)'
  BY <1>1 DEF AuditInv, Sound, Signed, IsSeq, verify_events_chain, Checkpoint,
              compute_event_hash
<1>3. QED
  BY <1>1, <1>2 DEF AuditInv

(* Only the status of the committed rows is set, by the owner of the row.  *)
LEMMA StatusStep ==
  ASSUME AuditInv, NEW rows \in {db, view}, NEW status,
         rows = view \/ rowLock = Nobody,
         db' = [rows EXCEPT !.status = status], view' = db', rowLock' = Nobody,
         late' = late, unsaid \subseteq unsaid',
         worker' \notin {"ending", "persist", "aborting"},
         status \in Ended => HeadSigned(rows) \/ Len(rows.log) \in unsaid'
  PROVE  AuditInv'
<1>1. Sound(rows) /\ Len(rows.log) \in Nat
  BY AppendFacts DEF AuditInv, Sound
<1>2. /\ Sound(db') /\ db'.log = rows.log /\ db'.sealed = rows.sealed
      /\ db'.status = status
  BY <1>1, StatusChange
<1>3. Sound(db)' /\ Sound(view)'
  BY <1>2 DEF Sound, Signed, IsSeq, verify_events_chain, Checkpoint,
              compute_event_hash
<1>4. status \in Ended => HeadSigned(db)' /\ HeadSigned(view)'
  BY <1>2 DEF HeadSigned
<1>5. QED
  BY <1>1, <1>2, <1>3, <1>4 DEF AuditInv

(* recover_runs appends a signed final event to the run it fails.          *)
LEMMA RestartKeeps ==
  ASSUME AuditInv, Restart
  PROVE  AuditInv'
<1>1. Sound(db) /\ Len(db.log) \in Nat
  BY AppendFacts DEF AuditInv, Sound
<1>2. /\ rowLock' = Nobody /\ worker' = "none" /\ view' = db'
      /\ late' = {n \in late : n <= Len(db.log)} /\ unsaid' = unsaid
  BY DEF Restart
<1>3. CASE db.status = "live"
  <2> DEFINE e == NextEvent(db.log, "final")
             more == [log |-> Append(db.log, e),
                      sealed |-> maybe_checkpoint(db.sealed, e, TRUE),
                      status |-> "failed"]
  <2>1. db' = more
    BY <1>3 DEF Restart
  <2>2. /\ Sound(more) /\ Len(more.log) = Len(db.log) + 1
        /\ \E c \in more.sealed : c.seq = Len(more.log)
    <3> DEFINE terminal == TRUE
               type == "final"
    <3>1. more = Grown(db, type, terminal, "failed") /\ Sound(db)
      BY <1>1 DEF Grown
    <3>2. terminal \in BOOLEAN /\ (type = "final" => terminal)
      OBVIOUS
    <3>3. terminal
      OBVIOUS
    <3> HIDE DEF more, terminal, type
    <3>4. /\ Sound(more) /\ Len(more.log) = Len(db.log) + 1
          /\ terminal => \E c \in more.sealed : c.seq = Len(more.log)
      BY ONLY <3>1, <3>2, SoundGrows
    <3>5. QED
      BY ONLY <3>3, <3>4
  <2> HIDE DEF e, more
  <2>3. Sound(db)' /\ Sound(view)'
    BY <1>2, <2>1, <2>2 DEF Sound, Signed, IsSeq, verify_events_chain, Checkpoint,
                            compute_event_hash
  <2>4. HeadSigned(db)' /\ HeadSigned(view)'
    BY <1>1, <1>2, <2>1, <2>2 DEF HeadSigned
  <2>5. Len(db'.log) <= Len(view'.log)
    BY <1>1, <1>2, <2>1, <2>2
  <2>6. QED
    BY <1>2, <2>3, <2>4, <2>5 DEF AuditInv
<1>4. CASE db.status # "live"
  <2>1. db' = db
    BY <1>4 DEF Restart
  <2>2. Sound(db)' /\ Sound(view)'
    BY <1>1, <1>2, <2>1 DEF Sound, Signed, IsSeq, verify_events_chain, Checkpoint,
                            compute_event_hash
  <2>3. HeadSigned(db) => HeadSigned(db)' /\ HeadSigned(view)'
    BY <1>1, <1>2, <2>1 DEF HeadSigned
  <2>4. Len(db'.log) <= Len(view'.log)
    BY <1>1, <1>2, <2>1
  <2>5. QED
    BY <1>2, <2>1, <2>2, <2>3, <2>4 DEF AuditInv
<1>5. QED
  BY <1>3, <1>4

(* The writers are distinct.                                               *)
LEMMA WorkerIsNotOthers ==
  /\ Worker \in Writers /\ Idle \in Writers /\ Requests \subseteq Writers
  /\ Worker # Nobody /\ Worker # Idle
  /\ \A r \in Requests : r # Worker /\ r # Nobody
  BY AuditAssumption DEF Writers

(* Every step keeps the invariant, one action at a time.                   *)
THEOREM AuditInvStep == AuditInv /\ [AuditNext]_auditVars => AuditInv'
<1> SUFFICES ASSUME AuditInv, [AuditNext]_auditVars PROVE AuditInv'
  OBVIOUS
<1> USE WorkerIsNotOthers
<1> DEFINE Same == /\ UNCHANGED <<db, view, rowLock, late, unsaid>>
                   /\ worker' = worker
                      \/ worker' \notin {"ending", "persist", "aborting"}
<1>1. ASSUME Same PROVE AuditInv'
  <2>1. Sound(db)' /\ Sound(view)'
    BY <1>1 DEF AuditInv, Sound, Signed, IsSeq, verify_events_chain, Checkpoint,
                compute_event_hash
  <2>2. /\ HeadSigned(db) => HeadSigned(db)'
        /\ HeadSigned(view) => HeadSigned(view)'
    BY <1>1 DEF HeadSigned
  <2>3. QED
    BY <1>1, <2>1, <2>2 DEF AuditInv
<1>2. CASE StartRun
  BY <1>2, StatusStep DEF StartRun, Moves, Ended
<1>3. CASE WorkerLoads
  BY <1>1, <1>3 DEF WorkerLoads, Moves
<1>4. CASE LoopRecords
  BY <1>4, AppendStep DEF LoopRecords, Moves
<1>5. CASE LoopSetsStatus
  BY <1>5, StatusStep DEF LoopSetsStatus, Moves, Ended
<1>6. CASE LoopEnds
  BY <1>6, AppendStep DEF LoopEnds, Moves
<1>7. CASE LoopAborts
  BY <1>7, AppendStep DEF LoopAborts, Moves
<1>8. CASE LoopCommits
  BY <1>8, CommitKeeps DEF LoopCommits, Moves
<1>9. CASE PersistOutcome
  <2>1. PICK outcome \in Ended :
          db' = [view EXCEPT !.status = IF view.status = "stopped" THEN "stopped"
                                        ELSE outcome]
    BY <1>9 DEF PersistOutcome
  <2>2. /\ unsaid \subseteq unsaid'
        /\ HeadSigned(view) \/ Len(view.log) \in unsaid'
    BY <1>9 DEF PersistOutcome, AuditInv, Moves
  <2>3. QED
    BY <1>9, <2>1, <2>2, StatusStep DEF PersistOutcome, Moves
<1>10. CASE WorkerRollsBack
  BY <1>10, RollbackKeeps DEF WorkerRollsBack
<1>11. CASE ReleaseRecords
  BY <1>11, AppendStep DEF ReleaseRecords, Moves
<1>12. CASE WorkerLeaves
  BY <1>1, <1>12, CommitKeeps DEF WorkerLeaves, Moves
<1>13. ASSUME NEW r \in Requests, RequestSteps(r) PROVE AuditInv'
  <2>1. CASE RequestLoads(r)
    BY <1>1, <2>1 DEF RequestLoads
  <2>3. ASSUME rowLock \in {Nobody, r} PROVE worker \notin {"ending", "aborting"}
    BY <2>3 DEF AuditInv
  <2>4. CASE RequestEnds(r)
    <3>1. PICK status \in Ended : append(r, "final", status, status)
      BY <2>4 DEF RequestEnds
    <3>2. worker' = worker /\ rowLock \in {Nobody, r}
      BY <2>4, <3>1 DEF RequestEnds, append, Owns
    <3>3. QED
      BY <2>3, <3>1, <3>2, AppendStep
  <2>5. CASE RequestControls(r)
    <3>1. PICK status \in {"live", view.status} : append(r, "plain", "live", status)
      BY <2>5 DEF RequestControls
    <3>2. worker' = worker /\ rowLock \in {Nobody, r}
      BY <2>5, <3>1 DEF RequestControls, append, Owns
    <3>3. QED
      BY <2>3, <3>1, <3>2, AppendStep DEF Ended
  <2>6. CASE RequestRequeues(r)
    <3>1. append(r, "plain", "queued", "queued") /\ worker' = worker
      BY <2>6 DEF RequestRequeues
    <3>2. rowLock \in {Nobody, r}
      BY <3>1 DEF append, Owns
    <3>3. QED
      BY <2>3, <3>1, <3>2, AppendStep DEF Ended
  <2>7. CASE RequestCommits(r)
    <3>1. CASE rowLock = r
      BY <2>3, <2>7, <3>1, CommitKeeps DEF RequestCommits
    <3>2. CASE rowLock # r
      BY <1>1, <2>7, <3>2 DEF RequestCommits
    <3>3. QED
      BY <3>1, <3>2
  <2>8. CASE RequestRollsBack(r)
    BY <2>3, <2>8, RollbackKeeps DEF RequestRollsBack
  <2>9. QED
    BY <1>13, <2>1, <2>4, <2>5, <2>6, <2>7, <2>8 DEF RequestSteps
<1>14. CASE IdleSteps
  <2>1. rowLock = Idle => worker \notin {"ending", "aborting"}
    BY DEF AuditInv
  <2>2. CASE IdleRecords
    BY <2>2, AppendStep DEF IdleRecords
  <2>3. CASE IdleCommits
    BY <2>1, <2>3, CommitKeeps DEF IdleCommits
  <2>4. CASE IdleRollsBack
    BY <2>1, <2>4, RollbackKeeps DEF IdleRollsBack
  <2>5. QED
    BY <1>14, <2>2, <2>3, <2>4 DEF IdleSteps
<1>15. CASE Restart
  BY <1>15, RestartKeeps
<1>16. CASE UNCHANGED auditVars
  BY <1>1, <1>16 DEF auditVars
<1>17. CASE LoopDenied
  BY <1>1, <1>17 DEF LoopDenied, Moves
<1>18. QED
  BY <1>2, <1>3, <1>4, <1>5, <1>6, <1>7, <1>8, <1>9, <1>10, <1>11, <1>12, <1>13,
     <1>14, <1>15, <1>16, <1>17 DEF AuditNext, Records, WorkerSteps

-----------------------------------------------------------------------------

(* Appends, commits, rollbacks and restarts keep the chain, its checkpoints *)
(* and what is known of late events as AuditInv says.                       *)
THEOREM AuditInvHolds == AuditSpec => []AuditInv
  BY AuditInvInit, AuditInvStep, PTL DEF AuditSpec

(* AuditWriter.append never forks, skips or repeats a sequence number.     *)
THEOREM ChainHolds == AuditSpec => []ChainIntact
<1>1. AuditInv => ChainIntact
  BY DEF AuditInv, Sound, ChainIntact
<1>2. QED
  BY <1>1, AuditInvHolds, PTL

(* Checkpoints and events go together, and no final event lacks its own.   *)
THEOREM FinalEventsHold == AuditSpec => []FinalEventsSigned
<1>1. AuditInv => FinalEventsSigned
  BY DEF AuditInv, Sound, FinalEventsSigned
<1>2. QED
  BY <1>1, AuditInvHolds, PTL

(* An ended run verifies unless its last event is late, or was the last    *)
(* one when the worker ended the run on a rejection and recorded nothing.  *)
THEOREM UnsealedHolds == AuditSpec => []UnsealedOnlyWhenLate
<1>1. ASSUME AuditInv, db.status \in Ended, Len(db.log) \notin late \cup unsaid
      PROVE  verify_run_audit(db)
  <2>1. /\ HeadSigned(db) /\ verify_events_chain(db.log) /\ Signed(db)
    BY <1>1 DEF AuditInv, Sound
  <2>2. PICK c \in db.sealed : c.seq = Len(db.log)
    BY <1>1, <2>1 DEF HeadSigned
  <2>3. QED
    BY <2>1, <2>2 DEF verify_run_audit, HeadSigned, Signed
<1>2. AuditInv => UnsealedOnlyWhenLate
  BY <1>1 DEF UnsealedOnlyWhenLate
<1>3. QED
  BY <1>2, AuditInvHolds, PTL

-----------------------------------------------------------------------------
(* Types                                                                   *)

TypedRows(rows) ==
  /\ rows.status \in Statuses
  /\ Len(rows.log) <= MaxEvents
  /\ \A i \in 1..Len(rows.log) : rows.log[i].type \in EventTypes

(* An append of a typed event, within the bound, keeps rows typed.         *)
LEMMA TypedGrows ==
  ASSUME NEW rows, Sound(rows), TypedRows(rows), Len(rows.log) < MaxEvents,
         NEW type \in EventTypes, NEW status \in Statuses, NEW sealed
  PROVE  /\ TypedRows([log |-> Append(rows.log, NextEvent(rows.log, type)),
                       sealed |-> sealed, status |-> status])
         /\ NextEvent(rows.log, type).seq \in 1..MaxEvents
<1> DEFINE e == NextEvent(rows.log, type)
           log == Append(rows.log, e)
           more == [log |-> log, sealed |-> sealed, status |-> status]
<1>1. /\ Len(rows.log) \in Nat /\ Len(log) = Len(rows.log) + 1
      /\ \A i \in 1..Len(rows.log) : log[i] = rows.log[i]
      /\ log[Len(rows.log) + 1] = e
  BY AppendFacts DEF Sound
<1>2. e.seq = Len(rows.log) + 1 /\ e.type = type
  BY DEF NextEvent
<1>3. more.log = log /\ more.status = status
  OBVIOUS
<1> HIDE DEF e, log, more
<1>4. \A i \in 1..Len(log) : log[i].type \in EventTypes
  BY <1>1, <1>2 DEF TypedRows
<1>5. Len(log) <= MaxEvents /\ e.seq \in 1..MaxEvents
  BY <1>1, <1>2, AuditAssumption
<1>6. TypedRows(more)
  BY <1>3, <1>4, <1>5 DEF TypedRows
<1>7. QED
  BY <1>5, <1>6 DEF more, log, e

(* An append keeps the types, given what its caller knows and sets.        *)
LEMMA AppendTyped ==
  ASSUME AuditInv, TypeOK, NEW w \in Writers, NEW type \in EventTypes,
         NEW known \in Statuses \cup {"unread"}, NEW status \in Statuses,
         append(w, type, known, status)
  PROVE  /\ TypedRows(db') /\ TypedRows(view')
         /\ rowLock' \in Writers \cup {Nobody}
         /\ seen' \in [Writers -> Statuses \cup {"unread"}]
         /\ faults' \in 0..MaxFaults /\ late' \subseteq 1..MaxEvents
         /\ unsaid' \subseteq 0..MaxEvents
<1>1. TypedRows(db) /\ TypedRows(view) /\ Sound(view)
  BY DEF TypeOK, TypedRows, AuditInv
<1>2. Len(view.log) < MaxEvents
  BY DEF append
<1>3. TypedRows(view') /\ NextEvent(view.log, type).seq \in 1..MaxEvents
  <2>1. PICK sealed : view' = [log |-> Append(view.log, NextEvent(view.log, type)),
                               sealed |-> sealed, status |-> status]
    BY DEF append
  <2>2. QED
    BY <1>1, <1>2, <2>1, TypedGrows
<1>4. late' \subseteq 1..MaxEvents
  BY <1>3 DEF append, TypeOK
<1>5. db' = db /\ rowLock' = w /\ faults' = faults /\ unsaid' = unsaid
  BY DEF append
<1>6. seen' \in [Writers -> Statuses \cup {"unread"}]
  BY DEF append, TypeOK
<1>7. QED
  BY <1>1, <1>3, <1>4, <1>5, <1>6 DEF TypeOK

(* Every step keeps the types.                                             *)
LEMMA TypeStep ==
  ASSUME AuditInv, TypeOK, [AuditNext]_auditVars
  PROVE  TypeOK'
<1> USE WorkerIsNotOthers
<1> DEFINE Seen == Statuses \cup {"unread"}
           Places == {"none", "starting", "running", "denied", "ending", "persist",
                      "aborting", "release", "released"}
           Stored == /\ TypedRows(db') /\ TypedRows(view')
                     /\ rowLock' \in Writers \cup {Nobody}
                     /\ faults' \in 0..MaxFaults /\ late' \subseteq 1..MaxEvents
                     /\ unsaid' \subseteq 0..MaxEvents
           Sessions == seen' \in [Writers -> Seen]
           Moved == worker' \in Places
<1>0. denied' \in BOOLEAN
  <2>1. denied' \in {TRUE, FALSE, denied}
    BY Zenon DEF AuditNext, Records, WorkerSteps, RequestSteps, IdleSteps, auditVars,
      StartRun, WorkerLoads, LoopRecords, LoopSetsStatus, LoopEnds, LoopDenied, LoopAborts,
      LoopCommits, PersistOutcome, WorkerRollsBack, ReleaseRecords, WorkerLeaves,
      RequestLoads, RequestEnds, RequestControls, RequestRequeues, RequestCommits,
      RequestRollsBack, IdleRecords, IdleCommits, IdleRollsBack, Rollback, Restart
  <2>2. QED
    BY <2>1 DEF TypeOK
<1> SUFFICES Stored /\ Sessions /\ Moved
  BY <1>0 DEF TypeOK, TypedRows
<1>1. /\ Sound(db) /\ Sound(view) /\ TypedRows(db) /\ TypedRows(view)
      /\ db.status \in Statuses /\ view.status \in Statuses
      /\ rowLock \in Writers \cup {Nobody} /\ seen \in [Writers -> Seen]
      /\ worker \in Places /\ faults \in 0..MaxFaults /\ late \subseteq 1..MaxEvents
      /\ MaxFaults \in Nat /\ unsaid \subseteq 0..MaxEvents
  BY AuditAssumption DEF TypeOK, TypedRows, AuditInv
<1>2. /\ "final" \in EventTypes /\ "plain" \in EventTypes
      /\ "live" \in Statuses /\ "queued" \in Statuses /\ Ended \subseteq Statuses
  BY DEF EventTypes, Statuses
<1>3. /\ \A w \in Writers : seen[w] \in Seen
      /\ \A w \in Writers, s \in Seen : [seen EXCEPT ![w] = s] \in [Writers -> Seen]
  BY <1>1
<1>4. ASSUME NEW w \in Writers, NEW type \in EventTypes, NEW known \in Seen,
             NEW status \in Statuses, append(w, type, known, status)
      PROVE  Stored /\ Sessions
  BY <1>4, AppendTyped
<1>5. ASSUME UNCHANGED <<db, view, rowLock, faults, late, unsaid>> PROVE Stored
  BY <1>1, <1>5
<1>6. ASSUME Commit, UNCHANGED <<faults, late, unsaid>> PROVE Stored
  BY <1>1, <1>6 DEF Commit
<1>7. ASSUME Rollback PROVE Stored
  <2>1. faults' \in 0..MaxFaults
    BY <1>1, <1>7 DEF Rollback
  <2>2. /\ db' = db /\ view' = db /\ rowLock' = Nobody /\ late' \subseteq late
        /\ unsaid' = unsaid
    BY <1>7 DEF Rollback
  <2>3. QED
    BY <1>1, <2>1, <2>2
<1>8. ASSUME NEW rows \in {db, view}, NEW status \in Statuses,
             db' = [rows EXCEPT !.status = status], view' = db',
             rowLock' \in {rowLock, Nobody}, UNCHANGED <<faults, late>>,
             unsaid' \subseteq unsaid \cup {Len(view.log)}
      PROVE  Stored
  <2>1. db'.log = rows.log /\ db'.status = status
    BY <1>1, <1>8, StatusChange
  <2>2. TypedRows(db')
    BY <1>1, <2>1 DEF TypedRows
  <2>3. Len(view.log) \in 0..MaxEvents
    BY <1>1, AppendFacts, AuditAssumption DEF Sound, TypedRows
  <2>4. QED
    BY <1>1, <1>8, <2>2, <2>3
<1>9. \A w \in Writers : Forgets(w) => Sessions
  BY <1>3 DEF Forgets
<1>10. worker' = worker => Moved
  BY <1>1
<1>11. ASSUME NEW a, NEW b \in Places, Moves(a, b) PROVE Moved
  BY <1>11 DEF Moves
<1> HIDE DEF Stored, Sessions, Moved
<1>12. CASE WorkerSteps
  <2>0. seen[Worker] \in Seen /\ Known(Worker) \in Seen
    BY <1>1, <1>3 DEF Known
  <2>1. CASE StartRun
    <3>1. Stored
      BY <1>2, <1>8, <2>1 DEF StartRun
    <3>2. Sessions /\ Moved
      BY <1>1, <2>1 DEF StartRun, Sessions, Moved, Moves
    <3>3. QED
      BY <3>1, <3>2
  <2>2. CASE WorkerLoads
    <3>1. Sessions /\ Moved
      BY <1>1, <1>3, <2>2 DEF WorkerLoads, Sessions, Moved, Moves
    <3>2. QED
      BY <1>5, <2>2, <3>1 DEF WorkerLoads
  <2>3. CASE LoopRecords \/ LoopEnds \/ LoopAborts \/ ReleaseRecords
    <3>1. Stored /\ Sessions
      BY <1>1, <1>2, <1>4, <2>0, <2>3
      DEF LoopRecords, LoopEnds, LoopAborts, ReleaseRecords
    <3>2. Moved
      BY <2>3 DEF LoopRecords, LoopEnds, LoopAborts, ReleaseRecords, Moves, Moved
    <3>3. QED
      BY <3>1, <3>2
  <2>4. CASE LoopSetsStatus
    <3>1. Stored
      BY <1>2, <1>8, <2>4 DEF LoopSetsStatus
    <3>2. Sessions /\ Moved
      BY <1>2, <1>3, <2>4 DEF LoopSetsStatus, Sessions, Moved, Moves
    <3>3. QED
      BY <3>1, <3>2
  <2>5. CASE LoopCommits
    <3>1. Sessions /\ Moved
      BY <1>1, <2>5 DEF LoopCommits, Sessions, Moved, Moves
    <3>2. QED
      BY <1>6, <2>5, <3>1 DEF LoopCommits
  <2>6. CASE PersistOutcome
    <3>1. PICK status \in Statuses :
            /\ db' = [view EXCEPT !.status = status]
            /\ seen' = [seen EXCEPT ![Worker] = status]
      BY <1>2, <2>6 DEF PersistOutcome, Ended
    <3>2. Stored
      BY <1>8, <2>6, <3>1 DEF PersistOutcome
    <3>3. Sessions /\ Moved
      BY <1>3, <2>6, <3>1 DEF PersistOutcome, Sessions, Moved, Moves
    <3>4. QED
      BY <3>2, <3>3
  <2>7. CASE WorkerRollsBack
    BY <1>7, <1>9, <2>7 DEF WorkerRollsBack, Moved
  <2>8. CASE WorkerLeaves
    <3>1. Stored
      BY <1>5, <1>6, <2>8 DEF WorkerLeaves
    <3>2. Sessions /\ Moved
      BY <1>9, <2>8 DEF WorkerLeaves, Moves, Moved
    <3>3. QED
      BY <3>1, <3>2
  <2>9. CASE LoopDenied
    <3>1. Sessions /\ Moved
      BY <1>1, <2>9 DEF LoopDenied, Sessions, Moved, Moves
    <3>2. QED
      BY <1>5, <2>9, <3>1 DEF LoopDenied
  <2>10. QED
    BY <1>12, <2>1, <2>2, <2>3, <2>4, <2>5, <2>6, <2>7, <2>8, <2>9 DEF WorkerSteps
<1>13. ASSUME NEW r \in Requests, RequestSteps(r) PROVE Stored /\ Sessions /\ Moved
  <2>1. CASE RequestLoads(r)
    <3>1. Sessions
      BY <1>1, <1>3, <2>1 DEF RequestLoads, Sessions
    <3>2. QED
      BY <1>5, <1>10, <2>1, <3>1 DEF RequestLoads
  <2>2. CASE RequestEnds(r)
    BY <1>2, <1>4, <1>10, <2>2 DEF RequestEnds
  <2>3. CASE RequestControls(r)
    BY <1>1, <1>2, <1>4, <1>10, <2>3 DEF RequestControls
  <2>4. CASE RequestRequeues(r)
    BY <1>2, <1>4, <1>10, <2>4 DEF RequestRequeues
  <2>5. CASE RequestCommits(r)
    BY <1>5, <1>6, <1>9, <1>10, <2>5 DEF RequestCommits
  <2>6. CASE RequestRollsBack(r)
    BY <1>7, <1>9, <1>10, <2>6 DEF RequestRollsBack
  <2>7. QED
    BY <1>13, <2>1, <2>2, <2>3, <2>4, <2>5, <2>6 DEF RequestSteps
<1>14. CASE IdleSteps
  <2>1. CASE IdleRecords
    BY <1>1, <1>2, <1>4, <1>10, <2>1 DEF IdleRecords
  <2>2. CASE IdleCommits
    BY <1>6, <1>9, <1>10, <2>2 DEF IdleCommits
  <2>3. CASE IdleRollsBack
    BY <1>7, <1>9, <1>10, <2>3 DEF IdleRollsBack
  <2>4. QED
    BY <1>14, <2>1, <2>2, <2>3 DEF IdleSteps
<1>15. CASE Restart
  <2>1. TypedRows(db')
    <3>1. CASE db.status = "live"
      <4>1. PICK sealed :
              db' = [log |-> Append(db.log, NextEvent(db.log, "final")),
                     sealed |-> sealed, status |-> "failed"]
        BY <1>15, <3>1 DEF Restart
      <4>2. Len(db.log) < MaxEvents /\ "failed" \in Statuses
        BY <1>15, <3>1 DEF Restart, Statuses, Ended
      <4>3. QED
        BY <1>1, <1>2, <4>1, <4>2, TypedGrows
    <3>2. CASE db.status # "live"
      BY <1>1, <1>15, <3>2 DEF Restart
    <3>3. QED
      BY <3>1, <3>2
  <2>2. Stored
    <3>1. faults' \in 0..MaxFaults
      BY <1>1, <1>15 DEF Restart
    <3>2. view' = db' /\ rowLock' = Nobody /\ late' \subseteq late /\ unsaid' = unsaid
      BY <1>15 DEF Restart
    <3>3. QED
      BY <1>1, <2>1, <3>1, <3>2 DEF Stored
  <2>3. Sessions /\ Moved
    BY <1>15 DEF Restart, Sessions, Moved
  <2>4. QED
    BY <2>2, <2>3
<1>16. CASE UNCHANGED auditVars
  BY <1>1, <1>5, <1>16 DEF auditVars, Sessions, Moved
<1>17. QED
  BY <1>12, <1>13, <1>14, <1>15, <1>16 DEF AuditNext, Records

(* The stored rows, the sessions and the worker keep their types, and the  *)
(* bounds on events and faults are kept.                                   *)
THEOREM AuditTyped == AuditSpec => []TypeOK
<1>1. Init => TypeOK
  <2> SUFFICES ASSUME Init PROVE TypeOK
    OBVIOUS
  <2>1. /\ db.status = "queued" /\ db.log = <<>> /\ Len(db.log) = 0 /\ view = db
        /\ 0 <= MaxEvents /\ 0 \in 0..MaxFaults
    BY AuditAssumption DEF Init
  <2>2. seen \in [Writers -> Statuses \cup {"unread"}]
    BY DEF Init
  <2>3. /\ rowLock = Nobody /\ worker = "none" /\ faults = 0
        /\ denied \in BOOLEAN /\ late = {} /\ unsaid = {}
    BY DEF Init
  <2>4. QED
    BY <2>1, <2>2, <2>3 DEF TypeOK, Statuses
<1>2. TypeOK /\ AuditInv /\ [AuditNext]_auditVars => TypeOK'
  BY TypeStep
<1>3. QED
  BY <1>1, <1>2, AuditInvHolds, PTL DEF AuditSpec

-----------------------------------------------------------------------------
(* The ledger                                                              *)

(* Whoever owns the row sees every committed event and checkpoint, and     *)
(* writes after them: what a commit makes of the log extends it.           *)
ViewExtends ==
  /\ StoredRows!Extends(db.log, view.log)
  /\ db.sealed \subseteq view.sealed

(* A log that is unchanged extends itself.                                 *)
LEMMA ExtendsItself == ASSUME NEW log, IsSeq(log) PROVE StoredRows!Extends(log, log)
  BY AppendFacts DEF StoredRows!Extends

(* An append extends what its transaction sees.                            *)
LEMMA GrownExtends ==
  ASSUME NEW rows, Sound(rows), NEW type, NEW terminal, NEW status,
         NEW more, more = Grown(rows, type, terminal, status)
  PROVE  /\ StoredRows!Extends(rows.log, more.log)
         /\ rows.sealed \subseteq more.sealed
<1>1. more.log = Append(rows.log, NextEvent(rows.log, type)) /\ IsSeq(rows.log)
  BY DEF Grown, Sound
<1>2. StoredRows!Extends(rows.log, more.log)
  BY <1>1, AppendFacts DEF StoredRows!Extends
<1>3. rows.sealed \subseteq more.sealed
  BY DEF Grown, maybe_checkpoint
<1> QED
  BY <1>2, <1>3

(* Extending twice is extending.                                           *)
LEMMA ExtendsTwice ==
  ASSUME NEW s, NEW t, NEW u, IsSeq(s), IsSeq(t), IsSeq(u),
         StoredRows!Extends(s, t), StoredRows!Extends(t, u)
  PROVE  StoredRows!Extends(s, u)
<1>1. Len(s) \in Nat /\ Len(t) \in Nat /\ Len(u) \in Nat
  BY AppendFacts
<1> QED
  BY <1>1 DEF StoredRows!Extends

(* What a step does to the committed rows: nothing, or a commit of what    *)
(* their owner sees, or the event of recover_runs.                         *)
LEMMA WhatIsStored ==
  ASSUME AuditInv, [AuditNext]_auditVars
  PROVE  \/ db'.log = db.log /\ db'.sealed = db.sealed
         \/ db'.log = view.log /\ db'.sealed = view.sealed
         \/ db' = Grown(db, "final", TRUE, "failed")
<1>1. \A status : /\ [view EXCEPT !.status = status].log = view.log
                  /\ [view EXCEPT !.status = status].sealed = view.sealed
                  /\ [db EXCEPT !.status = status].log = db.log
                  /\ [db EXCEPT !.status = status].sealed = db.sealed
  BY StatusChange DEF AuditInv
<1>2. CASE Restart
  BY <1>2 DEF Restart, Grown
<1>3. CASE StartRun
  BY <1>1, <1>3 DEF StartRun
<1>4. CASE LoopSetsStatus
  BY <1>1, <1>4 DEF LoopSetsStatus
<1>5. CASE PersistOutcome
  BY <1>1, <1>5 DEF PersistOutcome
<1>6. CASE LoopCommits \/ WorkerLeaves \/ IdleCommits \/ \E r \in Requests : RequestCommits(r)
  BY <1>6 DEF LoopCommits, WorkerLeaves, IdleCommits, RequestCommits, Commit
<1>7. CASE \/ WorkerLoads \/ LoopRecords \/ LoopEnds \/ LoopDenied \/ LoopAborts
           \/ WorkerRollsBack \/ ReleaseRecords \/ IdleRecords \/ IdleRollsBack \/ UNCHANGED auditVars
           \/ \E r \in Requests : \/ RequestLoads(r) \/ RequestEnds(r) \/ RequestControls(r)
                                  \/ RequestRequeues(r) \/ RequestRollsBack(r)
  <2>1. db' = db
    BY <1>7 DEF WorkerLoads, LoopRecords, LoopEnds, LoopDenied, LoopAborts, WorkerRollsBack,
                ReleaseRecords, IdleRecords, IdleRollsBack, RequestLoads, RequestEnds,
                RequestControls, RequestRequeues, RequestRollsBack, append, Rollback,
                auditVars
  <2> QED
    BY <2>1
<1> QED
  BY <1>2, <1>3, <1>4, <1>5, <1>6, <1>7
  DEF AuditNext, Records, WorkerSteps, RequestSteps, IdleSteps

(* What a step does to what the owner of the row sees: nothing, or an      *)
(* append to it, or it is again what is committed.                         *)
LEMMA WhatIsSeen ==
  ASSUME AuditInv, [AuditNext]_auditVars
  PROVE  \/ view'.log = db'.log /\ view'.sealed = db'.sealed
         \/ UNCHANGED <<db, view>>
         \/ /\ db' = db
            /\ \E type, terminal, status : view' = Grown(view, type, terminal, status)
<1>1. ASSUME NEW w, NEW type, NEW known, NEW status, append(w, type, known, status)
      PROVE  /\ db' = db
             /\ \E t, terminal, st : view' = Grown(view, t, terminal, st)
  <2>1. db' = db /\ view' = Grown(view, type, type = "final" \/ known \in Ended, status)
    BY <1>1 DEF append, Grown
  <2> QED
    BY <2>1
<1>2. CASE StartRun \/ LoopSetsStatus \/ PersistOutcome \/ Restart
  BY <1>2 DEF StartRun, LoopSetsStatus, PersistOutcome, Restart
<1>3. CASE \/ LoopCommits \/ WorkerLeaves \/ IdleCommits
           \/ \E r \in Requests : RequestCommits(r)
  BY <1>3 DEF LoopCommits, WorkerLeaves, IdleCommits, RequestCommits, Commit
<1>4. CASE WorkerRollsBack \/ IdleRollsBack \/ \E r \in Requests : RequestRollsBack(r)
  BY <1>4 DEF WorkerRollsBack, IdleRollsBack, RequestRollsBack, Rollback
<1>5. CASE LoopRecords \/ LoopEnds \/ LoopAborts \/ ReleaseRecords \/ IdleRecords
  BY <1>1, <1>5 DEF LoopRecords, LoopEnds, LoopAborts, ReleaseRecords, IdleRecords
<1>6. CASE \E r \in Requests : RequestEnds(r) \/ RequestControls(r) \/ RequestRequeues(r)
  BY <1>1, <1>6 DEF RequestEnds, RequestControls, RequestRequeues
<1>7. CASE \/ WorkerLoads \/ LoopDenied \/ UNCHANGED auditVars
           \/ \E r \in Requests : RequestLoads(r)
  BY <1>7 DEF WorkerLoads, LoopDenied, RequestLoads, auditVars
<1> QED
  BY <1>2, <1>3, <1>4, <1>5, <1>6, <1>7
  DEF AuditNext, Records, WorkerSteps, RequestSteps, IdleSteps

(* The owner of the row goes on seeing all that is committed.              *)
LEMMA ViewExtendsStep ==
  ASSUME AuditInv, AuditInv', ViewExtends, [AuditNext]_auditVars
  PROVE  ViewExtends'
<1>1. /\ Sound(view) /\ IsSeq(db.log) /\ IsSeq(view.log)
      /\ IsSeq(db'.log) /\ IsSeq(view'.log)
  BY DEF AuditInv, Sound, IsSeq
<1>2. CASE view'.log = db'.log /\ view'.sealed = db'.sealed
  BY <1>1, <1>2, ExtendsItself DEF ViewExtends, StoredRows!Extends
<1>3. CASE UNCHANGED <<db, view>>
  BY <1>3 DEF ViewExtends, StoredRows!Extends
<1>4. ASSUME db' = db, NEW type, NEW terminal, NEW status,
             view' = Grown(view, type, terminal, status)
      PROVE  ViewExtends'
  <2>1. StoredRows!Extends(view.log, view'.log) /\ view.sealed \subseteq view'.sealed
    BY <1>1, <1>4, GrownExtends
  <2>2. StoredRows!Extends(db.log, view'.log)
    BY <1>1, <2>1, ExtendsTwice DEF ViewExtends
  <2> QED
    BY <1>4, <2>1, <2>2 DEF ViewExtends, StoredRows!Extends
<1> QED
  BY <1>2, <1>3, <1>4, WhatIsSeen

(* Rows that are sound and extend the committed ones are a step of the     *)
(* ledger.                                                                 *)
LEMMA SoundIsGrowth ==
  ASSUME Sound(db), Sound(db'),
         StoredRows!Extends(db.log, db'.log), db.sealed \subseteq db'.sealed
  PROVE  StoredRows!Grow
<1>1. Len(db.log) \in Nat /\ Len(db'.log) \in Nat
  BY AppendFacts DEF Sound
<1>2. verify_events_chain(db'.log) /\ Signed(db')
  BY DEF Sound
<1>3. ASSUME NEW i \in Len(db.log) + 1 .. Len(db'.log)
      PROVE  /\ StoredRows!Linked(i)
             /\ db'.log[i].type = "final" => \E m \in db'.sealed : StoredRows!Marks(m, i)
  <2>1. i \in 1..Len(db'.log)
    BY <1>1, <1>3
  <2>2. StoredRows!Linked(i)
    BY <1>2, <2>1 DEF verify_events_chain, StoredRows!Linked
  <2>3. ASSUME db'.log[i].type = "final"
        PROVE  StoredRows!Marks(Checkpoint(db'.log[i]), i) /\ Checkpoint(db'.log[i]) \in db'.sealed
    BY <1>2, <2>1, <2>3 DEF Signed, Checkpoint, verify_events_chain, StoredRows!Marks
  <2> QED
    BY <2>2, <2>3
<1>4. ASSUME NEW m \in db'.sealed
      PROVE  \E i \in 1..Len(db'.log) : StoredRows!Marks(m, i)
  BY <1>2 DEF Signed, StoredRows!Marks
<1> QED
  BY <1>3, <1>4 DEF StoredRows!Grow

(* The committed rows are an append-only ledger, for any number of writers, *)
(* whatever is rolled back, recovered or recorded late: no stored event is *)
(* ever changed, dropped or linked anew, no checkpoint lost or moved.      *)
THEOREM LedgerKept == AuditSpec => RowsAreLedger
<1>1. Init => StoredRows!Init /\ ViewExtends
  BY DEF Init, StoredRows!Init, ViewExtends, StoredRows!Extends
<1>2. AuditInv /\ AuditInv' /\ ViewExtends /\ [AuditNext]_auditVars => ViewExtends'
  BY ViewExtendsStep
<1>3. AuditInv /\ AuditInv' /\ ViewExtends /\ [AuditNext]_auditVars
        => [StoredRows!Grow]_<<db.log, db.sealed>>
  <2> SUFFICES ASSUME AuditInv, AuditInv', ViewExtends, [AuditNext]_auditVars
               PROVE  StoredRows!Grow \/ UNCHANGED <<db.log, db.sealed>>
    OBVIOUS
  <2>1. Sound(db) /\ Sound(db')
    BY DEF AuditInv, Sound, IsSeq, Signed, verify_events_chain, Checkpoint, compute_event_hash
  <2>2. CASE db'.log = view.log /\ db'.sealed = view.sealed
    BY <2>1, <2>2, SoundIsGrowth DEF ViewExtends
  <2>3. CASE db' = Grown(db, "final", TRUE, "failed")
    <3> DEFINE ends == TRUE
    <3>1. db' = Grown(db, "final", ends, "failed")
      BY <2>3
    <3> HIDE DEF ends
    <3>2. StoredRows!Extends(db.log, db'.log) /\ db.sealed \subseteq db'.sealed
      BY ONLY <2>1, <3>1, GrownExtends
    <3> QED
      BY <2>1, <3>2, SoundIsGrowth
  <2> QED
    BY <2>2, <2>3, WhatIsStored
<1> QED
  BY <1>1, <1>2, <1>3, AuditInvHolds, PTL DEF AuditSpec, RowsAreLedger, StoredRows!Spec

=============================================================================
