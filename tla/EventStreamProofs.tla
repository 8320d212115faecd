------------------------- MODULE EventStreamProofs -------------------------
(***************************************************************************)
(* What a connection sends and what it may miss, for any replay limit, any *)
(* window of the page, and any number of events, rollbacks and restarts.   *)
(***************************************************************************)
EXTENDS EventStream, AuditLogProofs, SequenceTheorems, FiniteSetTheorems

(* The first event the bus has to bring lies above this one: what precedes *)
(* it is replayed, or was sent.                                            *)
Base == IF conn = "subscribed" THEN Len(db.log) ELSE last_seq

(* n is one of the first k messages of the queue q.                        *)
Queued(q, n, k) == \E i \in 1..k : q[i] = n

(* Before a message come all those the bus has to bring below it, unless   *)
(* they may be missed; so do all that are recorded, over the whole queue.  *)
(* What was sent goes up to last_seq, without a gap.                       *)
StreamInv ==
  /\ queue \in Seq(Nat) /\ sent \in Seq(Nat)
  /\ after \in Nat /\ last_seq \in Nat /\ lastSeq \in Nat
  /\ conn = "closed" => queue = <<>> /\ sent = <<>>
  /\ SentInOrder
  /\ \A i \in 1..Len(sent) : sent[i] <= last_seq
  /\ \A i \in 1..Len(queue) : \A n \in Nat :
       Base < n /\ n < queue[i] => n \in missable \/ Queued(queue, n, i - 1)
  /\ conn # "closed" => \A n \in Nat :
       Base < n /\ n <= Len(view.log) => n \in missable \/ Queued(queue, n, Len(queue))
  /\ conn = "open" => \A n \in Nat :
       after < n /\ n <= last_seq => n \in Sent \cup missable

-----------------------------------------------------------------------------

(* Newest is the greatest of the set it is given, when it has one.         *)
LEMMA NewestIs ==
  ASSUME NEW S \in SUBSET Nat, NEW k \in S, \A n \in S : n <= k
  PROVE  Newest(S) = k
<1>1. k \in S \cup {0} /\ \A n \in S : n <= k
  OBVIOUS
<1>2. ASSUME NEW n \in S \cup {0}, \A m \in S : m <= n
      PROVE  n = k
  BY <1>2
<1>3. QED
  BY <1>1, <1>2 DEF Newest

\* A stretch of the log together with one number.
Stretch(a, b, x) == a + 1 .. b \cup {x}

(* The page's lastSeq is a number, whatever interval it is given.          *)
LEMMA NewestNat ==
  ASSUME NEW a \in Nat, NEW b \in Nat, NEW x \in Nat,
         NEW S, S = Stretch(a, b, x)
  PROVE  Newest(S) = IF a < b /\ x < b THEN b ELSE x
<1>1. S \in SUBSET Nat /\ S = a + 1 .. b \cup {x}
  BY DEF Stretch
<1>2. CASE a < b /\ x < b
  <2>1. S \in SUBSET Nat /\ b \in S /\ \A n \in S : n <= b
    BY <1>1, <1>2
  <2>2. Newest(S) = b
    BY ONLY <2>1, NewestIs
  <2>3. QED
    BY <1>2, <2>2
<1>3. CASE ~(a < b /\ x < b)
  <2>1. S \in SUBSET Nat /\ x \in S /\ \A n \in S : n <= x
    BY <1>1, <1>3
  <2>2. Newest(S) = x
    BY ONLY <2>1, NewestIs
  <2>3. QED
    BY <1>3, <2>2
<1>4. QED
  BY <1>2, <1>3

(* The greatest of nothing is 0.                                           *)
LEMMA NewestEmpty == Newest({}) = 0
<1>1. 0 \in {} \cup {0} /\ \A n \in {} \cup {0} : n = 0
  OBVIOUS
<1>2. QED
  BY <1>1 DEF Newest

(* The page's lastSeq stays a number when it is shown one message.         *)
LEMMA NewestOfTwo ==
  ASSUME NEW x \in Nat, NEW y \in Nat
  PROVE  Newest({x} \cup {y}) \in Nat
<1> DEFINE S == {x} \cup {y}
<1>1. /\ S \in SUBSET Nat /\ x \in S /\ y \in S
      /\ \A n \in S : n = x \/ n = y
  OBVIOUS
<1> HIDE DEF S
<1>2. CASE x <= y
  <2>1. \A n \in S : n <= y
    BY <1>1, <1>2
  <2>2. QED
    BY <1>1, <2>1, NewestIs DEF S
<1>3. CASE y <= x
  <2>1. \A n \in S : n <= x
    BY <1>1, <1>3
  <2>2. QED
    BY <1>1, <2>1, NewestIs DEF S
<1>4. QED
  BY <1>2, <1>3

(* What updateEvents does to lastSeq, apart from what it does to the page. *)
LEMMA PageMoves ==
  ASSUME NEW S, NEW undone, updateEvents(S, undone)
  PROVE  lastSeq' = Newest(S \cup {lastSeq})
  BY DEF updateEvents

(* What a transaction does to the length of the log: an append adds one    *)
(* event that is not committed, and no other step makes what the owner of  *)
(* the row sees longer, nor what is committed shorter.                     *)
LEMMA LengthsStep ==
  ASSUME AuditInv, Records
  PROVE  \/ /\ Len(view'.log) = Len(view.log) + 1
            /\ Len(db'.log) = Len(db.log)
         \/ /\ Len(view'.log) <= Len(view.log)
            /\ Len(db.log) <= Len(db'.log)
<1> DEFINE Grows == /\ Len(view'.log) = Len(view.log) + 1
                    /\ Len(db'.log) = Len(db.log)
           Keeps == /\ Len(view'.log) <= Len(view.log)
                    /\ Len(db.log) <= Len(db'.log)
<1> SUFFICES Grows \/ Keeps
  OBVIOUS
<1>1. /\ Sound(db) /\ Sound(view)
      /\ Len(db.log) \in Nat /\ Len(view.log) \in Nat
      /\ Len(db.log) <= Len(view.log)
      /\ rowLock = Nobody => view = db
  BY AppendFacts DEF AuditInv, Sound
<1>2. ASSUME NEW w, NEW type, NEW known, NEW status, append(w, type, known, status)
      PROVE  Grows
  <2>1. Len(Append(view.log, NextEvent(view.log, type))) = Len(view.log) + 1
    BY <1>1, AppendFacts DEF Sound
  <2>2. view'.log = Append(view.log, NextEvent(view.log, type)) /\ db' = db
    BY <1>2 DEF append
  <2>3. QED
    BY <2>1, <2>2
<1>3. ASSUME Commit PROVE Keeps
  BY <1>1, <1>3 DEF Commit
<1>4. ASSUME Rollback PROVE Keeps
  BY <1>1, <1>4 DEF Rollback
<1>5. ASSUME UNCHANGED <<db, view>> PROVE Keeps
  BY <1>1, <1>5
<1>6. ASSUME NEW status, NEW rows \in {db, view}, rows = view \/ rowLock = Nobody,
             db' = [rows EXCEPT !.status = status], view' = db'
      PROVE  Keeps
  <2>1. db'.log = rows.log /\ view'.log = rows.log /\ rows.log = view.log
    BY <1>1, <1>6, StatusChange
  <2>2. QED
    BY <1>1, <2>1
<1> HIDE DEF Grows, Keeps
<1>7. CASE WorkerSteps
  <2>1. CASE StartRun
    BY <1>6, <2>1 DEF StartRun
  <2>2. CASE WorkerLoads
    BY <1>5, <2>2 DEF WorkerLoads
  <2>3. CASE LoopRecords \/ LoopEnds \/ LoopAborts \/ ReleaseRecords
    BY <1>2, <2>3 DEF LoopRecords, LoopEnds, LoopAborts, ReleaseRecords
  <2>4. CASE LoopSetsStatus
    BY <1>6, <2>4 DEF LoopSetsStatus
  <2>5. CASE LoopCommits
    BY <1>3, <2>5 DEF LoopCommits
  <2>6. CASE PersistOutcome
    <3>1. PICK status : db' = [view EXCEPT !.status = status]
      BY <2>6 DEF PersistOutcome
    <3>2. view' = db'
      BY <2>6 DEF PersistOutcome
    <3>3. QED
      BY <1>6, <3>1, <3>2
  <2>7. CASE WorkerRollsBack
    BY <1>4, <2>7 DEF WorkerRollsBack
  <2>8. CASE WorkerLeaves
    BY <1>3, <1>5, <2>8 DEF WorkerLeaves
  <2>9. CASE LoopDenied
    BY <1>5, <2>9 DEF LoopDenied
  <2>10. QED
    BY <1>7, <2>1, <2>2, <2>3, <2>4, <2>5, <2>6, <2>7, <2>8, <2>9 DEF WorkerSteps
<1>8. ASSUME NEW r \in Requests, RequestSteps(r) PROVE Grows \/ Keeps
  <2>1. CASE RequestLoads(r)
    BY <1>5, <2>1 DEF RequestLoads
  <2>2. CASE RequestEnds(r) \/ RequestControls(r) \/ RequestRequeues(r)
    BY <1>2, <2>2 DEF RequestEnds, RequestControls, RequestRequeues
  <2>3. CASE RequestCommits(r)
    BY <1>3, <1>5, <2>3 DEF RequestCommits
  <2>4. CASE RequestRollsBack(r)
    BY <1>4, <2>4 DEF RequestRollsBack
  <2>5. QED
    BY <1>8, <2>1, <2>2, <2>3, <2>4 DEF RequestSteps
<1>9. CASE IdleSteps
  BY <1>2, <1>3, <1>4, <1>9 DEF IdleSteps, IdleRecords, IdleCommits, IdleRollsBack
<1>10. QED
  BY <1>7, <1>8, <1>9 DEF Records

-----------------------------------------------------------------------------

(* A connection that is closed has nothing to keep.                        *)
LEMMA HangsKeeps ==
  ASSUME Hangs, lastSeq' \in Nat
  PROVE  StreamInv'
<1>1. /\ conn' = "closed" /\ queue' = <<>> /\ sent' = <<>>
      /\ after' = 0 /\ last_seq' = 0
  BY DEF Hangs
<1>2. SentInOrder'
  BY <1>1 DEF SentInOrder
<1>3. QED
  BY <1>1, <1>2 DEF StreamInv

(* What is in flight when the bus is subscribed to may be missed, and the  *)
(* replay has to bring the rest.                                           *)
LEMMA ConnectKeeps ==
  ASSUME AuditInv, StreamInv, Connect
  PROVE  StreamInv'
<1>1. /\ conn' = "subscribed" /\ queue' = <<>> /\ sent' = <<>>
      /\ after' = lastSeq /\ last_seq' = lastSeq /\ lastSeq' = lastSeq
      /\ missable' = InFlight /\ db' = db /\ view' = view
  BY DEF Connect, auditVars, page
<1>2. Len(db.log) \in Nat /\ Len(view.log) \in Nat
  BY AppendFacts DEF AuditInv, Sound
<1>3. SentInOrder'
  BY <1>1 DEF SentInOrder
<1>4. \A n \in Nat : Base' < n /\ n <= Len(view'.log) => n \in missable'
  BY <1>1, <1>2 DEF Base, InFlight
<1>5. QED
  BY <1>1, <1>3, <1>4 DEF StreamInv

(* A transaction's step leaves what was sent, and an append publishes its  *)
(* event after all that were recorded before.                              *)
LEMMA HearsKeeps ==
  ASSUME AuditInv, StreamInv, Records, Hears
  PROVE  StreamInv'
<1>1. /\ Len(db.log) \in Nat /\ Len(view.log) \in Nat
  BY AppendFacts DEF AuditInv, Sound
<1>2. /\ conn' = conn /\ after' = after /\ last_seq' = last_seq /\ sent' = sent
      /\ lastSeq' = lastSeq
      /\ missable \subseteq missable'
  BY DEF Hears, Haunts, page
<1>3. SentInOrder' /\ Sent' = Sent
  BY <1>2 DEF StreamInv, SentInOrder, Sent
<1>4. CASE conn # "closed" /\ Len(view'.log) > Len(view.log)
  <2>1. Len(view'.log) = Len(view.log) + 1 /\ Len(db'.log) = Len(db.log)
    BY <1>1, <1>4, LengthsStep
  <2>2. queue' = Append(queue, Len(view'.log))
    BY <1>4 DEF Hears, Publish
  <2>3. /\ queue' \in Seq(Nat)
        /\ Len(queue) \in Nat /\ Len(queue') = Len(queue) + 1
        /\ \A i \in 1..Len(queue) : queue'[i] = queue[i]
        /\ queue'[Len(queue) + 1] = Len(view.log) + 1
    <3>1. queue \in Seq(Nat) /\ Len(view'.log) \in Nat
      BY <1>1, <2>1 DEF StreamInv
    <3>2. QED
      BY ONLY <1>1, <2>1, <2>2, <3>1, AppendProperties, LenProperties
  <2>4. Base' = Base
    BY <1>2, <2>1 DEF Base
  <2>5. \A k \in 0..Len(queue) : \A n : Queued(queue, n, k) => Queued(queue', n, k)
    <3>1. \A k \in 0..Len(queue) : \A i \in 1..k : i \in 1..Len(queue)
      BY <2>3
    <3>2. QED
      BY ONLY <2>3, <3>1, Zenon DEF Queued
  <2>6. \A n \in Nat : Base' < n /\ n <= Len(view.log)
          => n \in missable' \/ Queued(queue', n, Len(queue))
    <3>1. TAKE n \in Nat
    <3>2. HAVE Base' < n /\ n <= Len(view.log)
    <3>3. n \in missable \/ Queued(queue, n, Len(queue))
      BY <1>4, <2>4, <3>2 DEF StreamInv
    <3>4. QED
      BY <1>2, <2>3, <2>5, <3>3
  <2>7. ASSUME NEW i \in 1..Len(queue'), NEW n \in Nat, Base' < n, n < queue'[i]
        PROVE  n \in missable' \/ Queued(queue', n, i - 1)
    <3>1. CASE i = Len(queue) + 1
      BY <1>1, <2>3, <2>6, <2>7, <3>1
    <3>2. CASE i \in 1..Len(queue)
      <4>1. n \in missable \/ Queued(queue, n, i - 1)
        BY <2>3, <2>4, <2>7, <3>2 DEF StreamInv
      <4>2. i - 1 \in 0..Len(queue)
        BY <2>3, <3>2
      <4>3. QED
        BY <1>2, <2>5, <4>1, <4>2
    <3>3. QED
      BY <2>3, <3>1, <3>2
  <2>8. ASSUME NEW n \in Nat, Base' < n, n <= Len(view'.log)
        PROVE  n \in missable' \/ Queued(queue', n, Len(queue'))
    <3>1. CASE n = Len(view.log) + 1
      BY <2>3, <3>1 DEF Queued
    <3>2. CASE n <= Len(view.log)
      <4>1. n \in missable' \/ Queued(queue', n, Len(queue))
        BY <2>6, <2>8, <3>2
      <4>2. Queued(queue', n, Len(queue)) => Queued(queue', n, Len(queue'))
        BY <2>3 DEF Queued
      <4>3. QED
        BY <4>1, <4>2
    <3>3. QED
      BY <1>1, <2>1, <2>8, <3>1, <3>2
  <2>9. QED
    BY <1>2, <1>3, <1>4, <2>3, <2>7, <2>8 DEF StreamInv
<1>5. CASE ~(conn # "closed" /\ Len(view'.log) > Len(view.log))
  <2>1. queue' = queue
    BY <1>5 DEF Hears, Publish
  <2>2. \A n, k : Queued(queue, n, k) => Queued(queue', n, k)
    BY <2>1 DEF Queued
  <2>3. conn # "closed" => Len(view'.log) <= Len(view.log) /\ Len(db.log) <= Len(db'.log)
    BY <1>1, <1>5, LengthsStep
  <2>4. AuditInv'
    BY AuditInvStep DEF AuditNext
  <2>5. Len(db'.log) \in Nat /\ Len(view'.log) \in Nat
    BY <2>4, AppendFacts DEF AuditInv, Sound
  <2>6. conn # "closed" => Base <= Base'
    BY <1>1, <1>2, <2>3 DEF Base, StreamInv
  <2>7. Base \in Nat /\ Base' \in Nat
    BY <1>1, <1>2, <2>5 DEF Base, StreamInv
  <2>8. ASSUME NEW i \in 1..Len(queue'), NEW n \in Nat, Base' < n, n < queue'[i]
        PROVE  n \in missable' \/ Queued(queue', n, i - 1)
    <3>1. conn # "closed"
      BY <2>1, <2>8 DEF StreamInv
    <3>2. n \in missable \/ Queued(queue, n, i - 1)
      BY <2>1, <2>6, <2>7, <2>8, <3>1 DEF StreamInv
    <3>3. QED
      BY <1>2, <2>2, <3>2
  <2>9. ASSUME conn' # "closed", NEW n \in Nat, Base' < n, n <= Len(view'.log)
        PROVE  n \in missable' \/ Queued(queue', n, Len(queue'))
    <3>1. n \in missable \/ Queued(queue, n, Len(queue))
      BY <1>1, <1>2, <2>3, <2>5, <2>6, <2>7, <2>9 DEF StreamInv
    <3>2. QED
      BY <1>2, <2>1, <2>2, <3>1
  <2>10. QED
    BY <1>2, <1>3, <2>1, <2>8, <2>9 DEF StreamInv
<1>6. QED
  BY <1>4, <1>5

(* A message from the queue is a duplicate, or goes above all that were    *)
(* sent; what lies between it and the last one sent may be missed.         *)
LEMMA SendLiveKeeps ==
  ASSUME AuditInv, StreamInv, SendLive
  PROVE  StreamInv'
<1> DEFINE h == Head(queue)
           fresh == h > last_seq
<1>1. /\ conn = "open" /\ conn' = "open" /\ queue # <<>>
      /\ queue' = Tail(queue)
      /\ after' = after /\ missable' = missable /\ view' = view
  BY DEF SendLive, auditVars
<1>2. /\ queue \in Seq(Nat) /\ sent \in Seq(Nat)
      /\ last_seq \in Nat /\ lastSeq \in Nat /\ after \in Nat
      /\ Len(view.log) \in Nat
  BY AppendFacts DEF StreamInv, AuditInv, Sound
<1>3. /\ Len(queue) \in Nat \ {0} /\ h \in Nat /\ h = queue[1]
      /\ queue' \in Seq(Nat) /\ Len(queue') = Len(queue) - 1
      /\ \A i \in 1..Len(queue') : queue'[i] = queue[i + 1]
  BY <1>1, <1>2, HeadTailProperties, LenProperties
<1>4. /\ Len(sent) \in Nat /\ \A i \in 1..Len(sent) : sent[i] \in Nat
      /\ Len(sent') = IF fresh THEN Len(sent) + 1 ELSE Len(sent)
      /\ sent' \in Seq(Nat)
      /\ \A i \in 1..Len(sent) : sent'[i] = sent[i]
      /\ fresh => sent'[Len(sent) + 1] = h
  <2>1. sent' = IF fresh THEN Append(sent, h) ELSE sent
    BY <1>2, <1>3 DEF SendLive
  <2>2. QED
    BY <1>2, <1>3, <2>1, AppendProperties, LenProperties, ElementOfSeq
<1>5. /\ last_seq' = IF fresh THEN h ELSE last_seq
      /\ last_seq' \in Nat /\ last_seq <= last_seq' /\ h <= last_seq'
  BY <1>2, <1>3 DEF SendLive
<1>6. lastSeq' \in Nat
  <2>1. CASE fresh
    <3>1. updateEvents({h}, 1 \in voided)
      BY <1>2, <1>3, <2>1 DEF SendLive
    <3>2. h \in Nat /\ lastSeq \in Nat
      BY <1>2, <1>3
    <3>3. QED
      BY ONLY <3>1, <3>2, PageMoves, NewestOfTwo, Zenon
  <2>2. CASE ~fresh
    BY <1>2, <1>3, <2>2 DEF SendLive
  <2>3. QED
    BY <2>1, <2>2
<1>7. Base = last_seq /\ Base' = last_seq'
  BY <1>1 DEF Base
<1> HIDE DEF h
<1>8. \A n \in Nat, k \in 1..Len(queue) :
        n > last_seq' /\ Queued(queue, n, k) => Queued(queue', n, k - 1)
  <2>1. TAKE n \in Nat, k \in 1..Len(queue)
  <2>2. HAVE n > last_seq' /\ Queued(queue, n, k)
  <2>3. PICK j \in 1..k : queue[j] = n
    BY <2>2 DEF Queued
  <2>4. j # 1
    BY <1>3, <1>5, <2>2, <2>3
  <2>5. j - 1 \in 1..k - 1 /\ queue'[j - 1] = n
    BY <1>3, <2>3, <2>4
  <2>6. QED
    BY <2>5 DEF Queued
<1>9. ASSUME NEW i \in 1..Len(queue'), NEW n \in Nat, Base' < n, n < queue'[i]
      PROVE  n \in missable' \/ Queued(queue', n, i - 1)
  <2>1. i + 1 \in 1..Len(queue) /\ i \in 1..Len(queue) /\ queue'[i] = queue[i + 1]
    BY <1>3
  <2>2. Base < n /\ n < queue[i + 1] /\ (i + 1) - 1 = i
    BY <1>2, <1>5, <1>7, <1>9, <2>1
  <2>3. n \in missable \/ Queued(queue, n, (i + 1) - 1)
    BY <2>1, <2>2 DEF StreamInv
  <2>4. QED
    BY <1>1, <1>7, <1>8, <1>9, <2>1, <2>2, <2>3
<1>10. ASSUME NEW n \in Nat, Base' < n, n <= Len(view'.log)
       PROVE  n \in missable' \/ Queued(queue', n, Len(queue'))
  <2>1. n \in missable \/ Queued(queue, n, Len(queue))
    BY <1>1, <1>2, <1>5, <1>7, <1>10 DEF StreamInv
  <2>2. QED
    BY <1>1, <1>3, <1>7, <1>8, <1>10, <2>1
<1>11. ASSUME NEW n \in Nat, after' < n, n <= last_seq'
       PROVE  n \in Sent' \cup missable'
  <2>1. Sent \subseteq Sent' /\ (fresh => h \in Sent')
    BY <1>4 DEF Sent
  <2>2. CASE n <= last_seq
    BY <1>1, <1>11, <2>1, <2>2 DEF StreamInv
  <2>3. CASE last_seq < n /\ n < h
    <3>1. n \in missable \/ Queued(queue, n, 1 - 1)
      BY <1>3, <1>7, <2>3 DEF StreamInv
    <3>2. ~Queued(queue, n, 1 - 1)
      BY DEF Queued
    <3>3. QED
      BY <1>1, <3>1, <3>2
  <2>4. CASE last_seq < n /\ n = h
    BY <1>2, <2>1, <2>4
  <2>5. QED
    BY <1>2, <1>3, <1>5, <1>11, <2>2, <2>3, <2>4
<1>12. ASSUME NEW i \in 1..Len(sent')
       PROVE  /\ sent'[i] <= last_seq'
              /\ \A j \in 1..Len(sent') : i < j => sent'[i] < sent'[j]
  <2>1. /\ \A k \in 1..Len(sent) : sent[k] <= last_seq
        /\ \A k, l \in 1..Len(sent) : k < l => sent[k] < sent[l]
    BY DEF StreamInv, SentInOrder
  <2>2. CASE fresh
    <3>1. last_seq < h /\ last_seq' = h /\ Len(sent') = Len(sent) + 1
      BY <1>2, <1>3, <1>4, <1>5, <2>2
    <3>2. ASSUME NEW k \in 1..Len(sent) PROVE sent'[k] \in Nat /\ sent'[k] < h
      <4>1. sent'[k] = sent[k] /\ sent[k] \in Nat /\ sent[k] <= last_seq
        BY <1>4, <2>1
      <4>2. last_seq \in Nat /\ h \in Nat
        BY <1>2, <1>3
      <4>3. QED
        BY ONLY <3>1, <4>1, <4>2
    <3>3. sent'[Len(sent) + 1] = h
      BY <1>4, <2>2
    <3> HIDE DEF fresh
    <3>4. sent'[i] <= h
      BY <1>3, <1>4, <3>1, <3>2, <3>3
    <3>5. ASSUME NEW j \in 1..Len(sent'), i < j PROVE sent'[i] < sent'[j]
      <4>1. Len(sent) \in Nat /\ i \in 1..Len(sent)
        BY <1>4, <3>1, <3>5
      <4>2. CASE j = Len(sent) + 1
        BY <3>2, <3>3, <4>1, <4>2
      <4>3. CASE j # Len(sent) + 1
        <5>1. j \in 1..Len(sent)
          BY <3>1, <4>1, <4>3
        <5>2. QED
          BY <1>4, <2>1, <3>5, <4>1, <5>1
      <4>4. QED
        BY <4>2, <4>3
    <3>6. QED
      BY <3>1, <3>4, <3>5
  <2>3. CASE ~fresh
    BY <1>2, <1>4, <1>5, <2>1, <2>3
  <2>4. QED
    BY <2>2, <2>3
<1>13. SentInOrder'
  BY <1>12 DEF SentInOrder
<1>14. QED
  BY <1>1, <1>2, <1>3, <1>4, <1>5, <1>6, <1>9, <1>10, <1>11, <1>12, <1>13
  DEF StreamInv

(* The replay sends what follows after_seq; what it leaves out may be      *)
(* missed, and the queue holds what was not committed when it was read.    *)
LEMMA ReplayOpens ==
  ASSUME AuditInv, StreamInv, Replay, conn' = "open"
  PROVE  StreamInv'
<1> DEFINE upto == Least(after + ReplayLimit, Len(db.log))
           replay == after + 1 .. upto
<1>1. /\ conn = "subscribed"
      /\ sent' = [i \in 1..Cardinality(replay) |-> after + i]
      /\ last_seq' = Newest(replay \cup {after})
      /\ missable' = missable \cup upto + 1 .. Len(db.log)
      /\ lastSeq' = Newest(replay \cup {lastSeq})
      /\ queue' = queue /\ after' = after /\ db' = db /\ view' = view
  BY DEF Replay, Hangs, updateEvents, auditVars
<1>2. /\ after \in Nat /\ lastSeq \in Nat /\ Len(db.log) \in Nat
      /\ Len(view.log) \in Nat /\ upto \in Nat /\ upto <= Len(db.log)
  BY AppendFacts, StreamAssumption DEF StreamInv, AuditInv, Sound, Least
<1> HIDE DEF upto
<1>3. /\ last_seq' = IF after < upto THEN upto ELSE after
      /\ lastSeq' \in Nat
  <2> DEFINE S == replay \cup {after}
             T == replay \cup {lastSeq}
  <2>1. S = Stretch(after, upto, after) /\ T = Stretch(after, upto, lastSeq)
    BY DEF Stretch
  <2>2. last_seq' = Newest(S) /\ lastSeq' = Newest(T)
    BY <1>1
  <2> HIDE DEF S, T
  <2>3. Newest(S) = IF after < upto /\ after < upto THEN upto ELSE after
    BY ONLY <1>2, <2>1, NewestNat, Zenon
  <2>4. Newest(T) = IF after < upto /\ lastSeq < upto THEN upto ELSE lastSeq
    BY ONLY <1>2, <2>1, NewestNat, Zenon
  <2>5. QED
    BY <1>2, <2>2, <2>3, <2>4
<1>4. Cardinality(replay) = IF after < upto THEN upto - after ELSE 0
  <2>1. after + 1 \in Int /\ upto \in Int
    BY <1>2
  <2>2. Cardinality(replay) = IF after + 1 > upto THEN 0 ELSE upto - (after + 1) + 1
    BY <2>1, FS_Interval, Zenon
  <2> HIDE DEF replay
  <2>3. QED
    BY <1>2, <2>2
<1>5. /\ sent' \in Seq(Nat) /\ Len(sent') = Cardinality(replay)
      /\ \A i \in 1..Len(sent') : sent'[i] = after + i
  BY <1>1, <1>2, <1>4
<1>6. /\ SentInOrder'
      /\ \A i \in 1..Len(sent') : sent'[i] <= last_seq'
  BY <1>2, <1>3, <1>4, <1>5 DEF SentInOrder
<1>7. ASSUME NEW n \in Nat, after' < n, n <= last_seq'
      PROVE  n \in Sent' \cup missable'
  <2>1. n - after \in 1..Len(sent') /\ sent'[n - after] = n
    BY <1>1, <1>2, <1>3, <1>4, <1>5, <1>7
  <2>2. QED
    BY <2>1 DEF Sent
<1>8. Base = Len(db.log) /\ Base' = last_seq' /\ last_seq' \in Nat
  BY <1>1, <1>2, <1>3 DEF Base
<1>9. ASSUME NEW n \in Nat, Base' < n
      PROVE  Base < n \/ n \in missable'
  BY <1>1, <1>2, <1>3, <1>8, <1>9
<1>10. ASSUME NEW i \in 1..Len(queue'), NEW n \in Nat, Base' < n, n < queue'[i]
       PROVE  n \in missable' \/ Queued(queue', n, i - 1)
  BY <1>1, <1>9, <1>10 DEF StreamInv
<1>11. ASSUME NEW n \in Nat, Base' < n, n <= Len(view'.log)
       PROVE  n \in missable' \/ Queued(queue', n, Len(queue'))
  BY <1>1, <1>9, <1>11 DEF StreamInv
<1>12. QED
  BY <1>1, <1>2, <1>3, <1>5, <1>6, <1>7, <1>8, <1>10, <1>11 DEF StreamInv

(* The replay opens the connection, or breaks it off.                      *)
LEMMA ReplayKeeps ==
  ASSUME AuditInv, StreamInv, Replay
  PROVE  StreamInv'
<1>1. CASE conn' = "open"
  BY <1>1, ReplayOpens
<1>2. CASE conn' # "open"
  <2> DEFINE upto == Least(after + ReplayLimit, Len(db.log))
  <2>1. PICK n \in after + 1 .. upto : updateEvents(after + 1 .. n, FALSE)
    BY <1>2 DEF Replay
  <2>2. after \in Nat /\ lastSeq \in Nat /\ upto \in Nat
    BY AppendFacts, StreamAssumption DEF StreamInv, AuditInv, Sound, Least
  <2>3. n \in Nat /\ lastSeq' = Newest(after + 1 .. n \cup {lastSeq})
    BY <2>1, <2>2 DEF updateEvents
  <2>4. lastSeq' \in Nat
    <3> DEFINE S == after + 1 .. n \cup {lastSeq}
    <3>1. S = Stretch(after, n, lastSeq) /\ lastSeq' = Newest(S)
      BY <2>3 DEF Stretch
    <3> HIDE DEF S
    <3>2. Newest(S) = IF after < n /\ lastSeq < n THEN n ELSE lastSeq
      <4>1. after \in Nat /\ n \in Nat /\ lastSeq \in Nat
        BY <2>2, <2>3
      <4>2. QED
        BY ONLY <3>1, <4>1, NewestNat, Zenon
    <3>3. QED
      BY <2>2, <2>3, <3>1, <3>2
  <2>5. QED
    BY <1>2, <2>4, HangsKeeps DEF Replay
<1>3. QED
  BY <1>1, <1>2

(* The poll reads the newest events, up to the last one.                   *)
LEMMA PollKeeps ==
  ASSUME AuditInv, StreamInv, Poll
  PROVE  StreamInv'
<1>1. Len(db.log) \in Nat /\ lastSeq \in Nat /\ Window \in Nat \ {0}
  BY AppendFacts, StreamAssumption DEF StreamInv, AuditInv, Sound
<1>2. /\ Recent \in SUBSET Nat /\ \A n \in Recent : n <= Len(db.log)
      /\ Len(db.log) # 0 => Len(db.log) \in Recent
      /\ Len(db.log) = 0 => Recent = {}
  BY <1>1 DEF Recent
<1>3. CASE db.status = cfgStatus
  <2>1. lastSeq' = Newest(Recent \cup {lastSeq})
    BY <1>3 DEF Poll, updateEvents
  <2>2. lastSeq' \in Nat
    <3>1. CASE Len(db.log) <= lastSeq
      BY <1>1, <1>2, <2>1, <3>1, NewestIs
    <3>2. CASE lastSeq < Len(db.log)
      BY <1>1, <1>2, <2>1, <3>2, NewestIs
    <3>3. QED
      BY <1>1, <3>1, <3>2
  <2>3. UNCHANGED <<auditVars, socket>>
    BY <1>3 DEF Poll
  <2>4. Base' = Base /\ SentInOrder' = SentInOrder /\ Sent' = Sent
    BY <2>3 DEF Base, SentInOrder, Sent, socket, auditVars
  <2>5. QED
    BY <2>2, <2>3, <2>4 DEF StreamInv, socket, auditVars
<1>4. CASE db.status # cfgStatus
  <2>1. lastSeq' = Newest(Recent) /\ Hangs
    BY <1>4 DEF Poll
  <2>2. lastSeq' \in Nat
    <3>1. CASE Len(db.log) = 0
      <4>1. Recent = {}
        BY <1>2, <3>1
      <4>2. QED
        BY ONLY <2>1, <4>1, NewestEmpty
    <3>2. CASE Len(db.log) # 0
      BY <1>1, <1>2, <2>1, <3>2, NewestIs
    <3>3. QED
      BY <3>1, <3>2
  <2>3. QED
    BY <2>1, <2>2, HangsKeeps
<1>5. QED
  BY <1>3, <1>4

-----------------------------------------------------------------------------

(* Initially there is no connection.                                       *)
THEOREM StreamInvInit == StreamInit => StreamInv
  BY DEF StreamInit, StreamInv, SentInOrder

(* Every step of the stream is a step of the log, or leaves it alone.      *)
LEMMA StreamWrites == [StreamNext]_vars => [AuditNext]_auditVars
<1> SUFFICES ASSUME [StreamNext]_vars PROVE [AuditNext]_auditVars
  OBVIOUS
<1>1. CASE Records /\ Hears
  BY <1>1 DEF AuditNext
<1>2. CASE Recovers
  BY <1>2 DEF Recovers, AuditNext
<1>3. CASE Connect \/ Replay \/ SendLive \/ Disconnect \/ Poll
  BY <1>3 DEF Connect, Replay, SendLive, Disconnect, Poll
<1>4. CASE UNCHANGED vars
  BY <1>4 DEF vars
<1>5. QED
  BY <1>1, <1>2, <1>3, <1>4 DEF StreamNext

(* Every step of the log, the socket and the page keeps the invariant.     *)
THEOREM StreamInvStep ==
  AuditInv /\ StreamInv /\ [StreamNext]_vars => StreamInv'
<1> SUFFICES ASSUME AuditInv, StreamInv, [StreamNext]_vars PROVE StreamInv'
  OBVIOUS
<1>1. CASE Records /\ Hears
  BY <1>1, HearsKeeps
<1>2. CASE Recovers
  BY <1>2, HangsKeeps DEF Recovers, Haunts, StreamInv
<1>3. CASE Connect
  BY <1>3, ConnectKeeps
<1>4. CASE Replay
  BY <1>4, ReplayKeeps
<1>5. CASE SendLive
  BY <1>5, SendLiveKeeps
<1>6. CASE Disconnect
  BY <1>6, HangsKeeps DEF Disconnect, page, StreamInv
<1>7. CASE Poll
  BY <1>7, PollKeeps
<1>8. CASE UNCHANGED vars
  <2>1. /\ UNCHANGED <<conn, queue, after, last_seq, sent, missable, lastSeq>>
        /\ UNCHANGED <<db, view>>
    BY <1>8 DEF vars, auditVars, socket, page
  <2>2. Base' = Base /\ SentInOrder' = SentInOrder /\ Sent' = Sent
    BY <2>1 DEF Base, SentInOrder, Sent
  <2>3. QED
    BY <2>1, <2>2 DEF StreamInv
<1>9. QED
  BY <1>1, <1>2, <1>3, <1>4, <1>5, <1>6, <1>7, <1>8 DEF StreamNext

-----------------------------------------------------------------------------

(* The log of the stream is the log of AuditLog: subscribers, sockets and  *)
(* polls add nothing to what the writers may do.                           *)
THEOREM StreamImplementsAudit == StreamSpec => AuditSpec
<1>1. StreamInit => Init
  BY DEF StreamInit
<1>2. QED
  BY <1>1, StreamWrites, PTL DEF StreamSpec, AuditSpec

(* The invariants of the log and of the stream hold together: what         *)
(* run_events_ws queues, sends and may miss fits what is recorded.         *)
THEOREM StreamInvHolds == StreamSpec => [](AuditInv /\ StreamInv)
<1>1. StreamInit => AuditInv /\ StreamInv
  BY AuditInvInit, StreamInvInit DEF StreamInit
<1>2. AuditInv /\ StreamInv /\ [StreamNext]_vars => (AuditInv /\ StreamInv)'
  BY StreamWrites, AuditInvStep, StreamInvStep
<1>3. QED
  BY <1>1, <1>2, PTL DEF StreamSpec

(* run_events_ws never sends an event twice, nor one before another that   *)
(* it follows.                                                             *)
THEOREM SentInOrderHolds == StreamSpec => []SentInOrder
<1>1. StreamInv => SentInOrder
  BY DEF StreamInv
<1>2. QED
  BY <1>1, StreamInvHolds, PTL

(* A connection that has caught up has missed nothing but what was being   *)
(* written when it subscribed, cut off by replay_limit, or rolled back.    *)
THEOREM MissedHolds == StreamSpec => []MissedOnlyInFlight
<1>1. ASSUME AuditInv, StreamInv, CaughtUp, NEW n \in after + 1 .. Len(db.log)
      PROVE  n \in Sent \cup missable
  <2>1. /\ conn = "open" /\ queue = <<>> /\ view = db
        /\ Len(db.log) \in Nat /\ after \in Nat /\ last_seq \in Nat /\ n \in Nat
    BY <1>1, AppendFacts DEF CaughtUp, AuditInv, Sound, StreamInv
  <2>2. CASE n <= last_seq
    BY <1>1, <2>1, <2>2 DEF StreamInv
  <2>3. CASE last_seq < n
    <3>1. n \in missable \/ Queued(queue, n, Len(queue))
      BY <1>1, <2>1, <2>3 DEF StreamInv, Base
    <3>2. ~Queued(queue, n, Len(queue))
      BY <2>1 DEF Queued
    <3>3. QED
      BY <3>1, <3>2
  <2>4. QED
    BY <2>1, <2>2, <2>3
<1>2. AuditInv /\ StreamInv => MissedOnlyInFlight
  BY <1>1 DEF MissedOnlyInFlight
<1>3. QED
  BY <1>2, StreamInvHolds, PTL

-----------------------------------------------------------------------------
(* Types                                                                   *)

(* updateEvents keeps to the numbers it is given.                          *)
LEMMA PageTyped ==
  ASSUME NEW S \in SUBSET (0..MaxEvents), NEW undone, updateEvents(S, undone),
         shown \subseteq 0..MaxEvents, lastSeq \in 0..MaxEvents,
         NEW k \in S \cup {lastSeq}, \A n \in S \cup {lastSeq} : n <= k
  PROVE  /\ shown' \subseteq 0..MaxEvents /\ lastSeq' \in 0..MaxEvents
         /\ ghosts' \subseteq shown'
<1>1. lastSeq' = Newest(S \cup {lastSeq})
  BY PageMoves
<1>2. Newest(S \cup {lastSeq}) = k
  <2> DEFINE T == S \cup {lastSeq}
  <2>1. T \in SUBSET Nat /\ k \in T /\ \A n \in T : n <= k
    BY AuditAssumption
  <2> HIDE DEF T
  <2>2. Newest(T) = k
    BY <2>1, NewestIs
  <2>3. QED
    BY <2>2 DEF T
<1>3. k \in 0..MaxEvents
  OBVIOUS
<1>4. shown' \subseteq shown \cup S /\ ghosts' \subseteq shown'
  BY DEF updateEvents
<1>5. QED
  BY <1>1, <1>2, <1>3, <1>4

(* Every step keeps the types; what is published is the number of an event *)
(* that is within the bound on events.                                     *)
LEMMA StreamTypeStep ==
  ASSUME AuditInv, StreamTypeOK, TypeOK', [StreamNext]_vars
  PROVE  StreamTypeOK'
<1> DEFINE Ns == 0..MaxEvents
           Ms == 1..MaxEvents
           Socket == /\ conn' \in {"closed", "subscribed", "open"}
                     /\ after' \in Ns /\ last_seq' \in Ns /\ missable' \subseteq Ns
                     /\ queue' \in Seq(Ms) /\ sent' \in Seq(Ms)
                     /\ voided' \subseteq 1..Len(queue')
           Page == /\ lastSeq' \in Ns /\ shown' \subseteq Ns /\ cfgStatus' \in Statuses
                   /\ ghosts' \subseteq shown'
<1> SUFFICES Socket /\ Page
  BY DEF StreamTypeOK
<1>1. /\ conn \in {"closed", "subscribed", "open"}
      /\ after \in Ns /\ last_seq \in Ns /\ missable \subseteq Ns
      /\ queue \in Seq(Ms) /\ sent \in Seq(Ms)
      /\ lastSeq \in Ns /\ shown \subseteq Ns /\ cfgStatus \in Statuses
      /\ voided \subseteq 1..Len(queue) /\ ghosts \subseteq shown
  BY DEF StreamTypeOK
<1>2. /\ MaxEvents \in Nat /\ ReplayLimit \in Nat \ {0} /\ Window \in Nat \ {0}
      /\ Len(db.log) \in Ns /\ Len(view.log) \in Ns /\ db.status \in Statuses
  BY AuditAssumption, StreamAssumption, AppendFacts
  DEF AuditInv, Sound, StreamTypeOK, TypeOK
<1>3. /\ Len(view'.log) <= MaxEvents
      /\ db'.status \in Statuses
  BY DEF TypeOK
<1>4. Hangs => Socket
  BY <1>2 DEF Hangs
<1>5. UNCHANGED page => Page
  BY <1>1 DEF page
<1>6. InFlight \subseteq Ns
  BY <1>2 DEF InFlight
<1>7. CASE Records /\ Hears
  <2>1. queue' \in Seq(Ms)
    <3>1. CASE Len(view'.log) > Len(view.log)
      <4>1. Len(view'.log) = Len(view.log) + 1
        BY <1>2, <1>7, <3>1, LengthsStep
      <4>2. Len(view'.log) \in Ms
        BY <1>2, <1>3, <4>1
      <4>3. QED
        BY <1>1, <1>7, <4>2, AppendProperties DEF Hears, Publish
    <3>2. CASE ~(Len(view'.log) > Len(view.log))
      BY <1>1, <1>7, <3>2 DEF Hears, Publish
    <3>3. QED
      BY <3>1, <3>2
  <2>2. /\ conn' = conn /\ after' = after /\ last_seq' = last_seq /\ sent' = sent
        /\ missable' \subseteq missable \cup InFlight
    BY <1>7 DEF Hears
  <2>3. Page
    BY <1>1, <1>5, <1>7 DEF Hears, Haunts
  <2>4. voided' \subseteq 1..Len(queue')
    <3>1. voided' \subseteq 1..Len(queue)
      BY <1>1, <1>7 DEF Hears
    <3>2. Len(queue) <= Len(queue')
      BY <1>1, <1>2, <1>7, AppendProperties DEF Hears, Publish
    <3>3. QED
      BY <1>1, <2>1, <3>1, <3>2, LenProperties
  <2>5. QED
    BY <1>1, <1>6, <2>1, <2>2, <2>3, <2>4
<1>8. CASE Recovers
  BY <1>1, <1>4, <1>8 DEF Recovers, Haunts
<1>9. CASE Connect
  <2>1. /\ conn' = "subscribed" /\ queue' = <<>> /\ sent' = <<>>
        /\ after' = lastSeq /\ last_seq' = lastSeq /\ missable' = InFlight
        /\ voided' = {} /\ UNCHANGED page
    BY <1>9 DEF Connect
  <2>2. QED
    BY <1>1, <1>5, <1>6, <2>1
<1>10. CASE Replay
  <2> DEFINE upto == Least(after + ReplayLimit, Len(db.log))
             replay == after + 1 .. upto
  <2>1. upto \in Ns
    BY <1>1, <1>2 DEF Least
  <2>2. cfgStatus' = cfgStatus
    BY <1>10 DEF Replay
  <2>3. CASE conn' = "open"
    <3>1. /\ sent' = [i \in 1..Cardinality(replay) |-> after + i]
          /\ last_seq' = Newest(replay \cup {after})
          /\ missable' = missable \cup upto + 1 .. Len(db.log)
          /\ updateEvents(replay, FALSE)
          /\ queue' = queue /\ voided' = voided /\ after' = after
      BY <1>10, <2>3 DEF Replay, Hangs
    <3> HIDE DEF upto
    <3>2. upto \in Nat /\ after \in Nat /\ lastSeq \in Nat
      BY <1>1, <1>2, <2>1
    <3>3. last_seq' = IF after < upto /\ after < upto THEN upto ELSE after
      <4> DEFINE S == replay \cup {after}
      <4>1. S = Stretch(after, upto, after) /\ last_seq' = Newest(S)
        BY <3>1 DEF Stretch
      <4> HIDE DEF S
      <4>2. Newest(S) = IF after < upto /\ after < upto THEN upto ELSE after
        BY ONLY <3>2, <4>1, NewestNat, Zenon
      <4>3. QED
        BY <4>1, <4>2
    <3>4. last_seq' \in Ns
      BY <1>1, <2>1, <3>3
    <3>5. Cardinality(replay)
            = IF after + 1 > upto THEN 0 ELSE upto - (after + 1) + 1
      <4>1. after + 1 \in Int /\ upto \in Int
        BY <3>2
      <4>2. QED
        BY <4>1, FS_Interval, Zenon
    <3>6. sent' \in Seq(Ms)
      <4>1. /\ Cardinality(replay) \in Nat
            /\ \A i \in 1..Cardinality(replay) : after + i \in Ms
        BY <1>1, <1>2, <2>1, <3>2, <3>5
      <4> HIDE DEF replay, Ms
      <4>2. QED
        BY <3>1, <4>1
    <3>7. missable' \subseteq Ns
      <4>1. ASSUME NEW n \in upto + 1 .. Len(db.log) PROVE n \in Ns
        BY <1>2, <3>2
      <4>2. QED
        BY <1>1, <3>1, <4>1
    <3>8. replay \in SUBSET (0..MaxEvents)
      BY <1>2, <2>1, <3>2
    <3>9. PICK k \in replay \cup {lastSeq} : \A n \in replay \cup {lastSeq} : n <= k
      <4>1. CASE after < upto /\ lastSeq < upto
        BY <3>2, <4>1
      <4>2. CASE ~(after < upto /\ lastSeq < upto)
        BY <3>2, <4>2
      <4>3. QED
        BY <4>1, <4>2
    <3>10. Page
      BY <1>1, <2>2, <3>1, <3>8, <3>9, PageTyped
    <3>11. QED
      BY <1>1, <2>3, <3>1, <3>4, <3>6, <3>7, <3>10
  <2>4. CASE conn' # "open"
    <3>1. PICK n \in replay : updateEvents(after + 1 .. n, FALSE)
      BY <1>10, <2>4 DEF Replay
    <3>2. Hangs
      BY <1>10, <2>4 DEF Replay
    <3>3. /\ n \in after + 1 .. upto /\ after \in Nat /\ lastSeq \in Nat
          /\ after + 1 .. n \in SUBSET (0..MaxEvents)
      BY <1>1, <1>2, <2>1, <3>1
    <3>4. PICK k \in (after + 1 .. n) \cup {lastSeq} :
            \A m \in (after + 1 .. n) \cup {lastSeq} : m <= k
      <4>1. CASE lastSeq < n
        BY <3>3, <4>1
      <4>2. CASE ~(lastSeq < n)
        BY <3>3, <4>2
      <4>3. QED
        BY <4>1, <4>2
    <3>5. Page
      BY <1>1, <2>2, <3>1, <3>3, <3>4, PageTyped
    <3>6. QED
      BY <1>4, <3>2, <3>5
  <2>5. QED
    BY <2>3, <2>4
<1>11. CASE SendLive
  <2> DEFINE h == Head(queue)
  <2>1. h \in Ms /\ Tail(queue) \in Seq(Ms)
    BY <1>1, <1>11, HeadTailProperties DEF SendLive
  <2>2. /\ conn' = conn /\ after' = after /\ missable' = missable
        /\ cfgStatus' = cfgStatus /\ queue' = Tail(queue)
        /\ voided' = {i - 1 : i \in voided \ {1}}
    BY <1>11 DEF SendLive
  <2>0. voided' \subseteq 1..Len(queue')
    <3>1. Len(queue) \in Nat /\ Len(queue') = Len(queue) - 1
      BY <1>1, <1>11, <2>2, HeadTailProperties, LenProperties DEF SendLive
    <3>2. QED
      BY <1>1, <2>2, <3>1
  <2>3. CASE h <= last_seq
    BY <1>1, <1>11, <2>0, <2>1, <2>2, <2>3 DEF SendLive
  <2>4. CASE ~(h <= last_seq)
    <3>1. sent' = Append(sent, h) /\ last_seq' = h /\ updateEvents({h}, 1 \in voided)
      BY <1>11, <2>4 DEF SendLive
    <3> HIDE DEF h
    <3>2. h \in Nat /\ h \in Ns /\ lastSeq \in Nat /\ {h} \in SUBSET (0..MaxEvents)
      BY <1>1, <1>2, <2>1
    <3>3. PICK k \in {h} \cup {lastSeq} : \A n \in {h} \cup {lastSeq} : n <= k
      <4>1. CASE lastSeq < h
        BY <3>2, <4>1
      <4>2. CASE ~(lastSeq < h)
        BY <3>2, <4>2
      <4>3. QED
        BY <4>1, <4>2
    <3>4. Page
      BY <1>1, <2>2, <3>1, <3>2, <3>3, PageTyped
    <3>5. sent' \in Seq(Ms)
      BY <1>1, <2>1, <3>1, AppendProperties
    <3>6. QED
      BY <1>1, <2>0, <2>1, <2>2, <3>1, <3>2, <3>4, <3>5
  <2>5. QED
    BY <2>3, <2>4
<1>12. CASE Disconnect
  BY <1>4, <1>5, <1>12 DEF Disconnect
<1>13. CASE Poll
  <2>1. /\ Recent \in SUBSET (0..MaxEvents)
        /\ \A n \in Recent : n <= Len(db.log)
        /\ Len(db.log) # 0 => Len(db.log) \in Recent
        /\ Len(db.log) = 0 => Recent = {}
    BY <1>2 DEF Recent
  <2>2. CASE db.status = cfgStatus
    <3>1. updateEvents(Recent, FALSE) /\ UNCHANGED <<cfgStatus, socket>>
      BY <1>13, <2>2 DEF Poll
    <3>2. PICK k \in Recent \cup {lastSeq} : \A n \in Recent \cup {lastSeq} : n <= k
      <4>1. CASE lastSeq < Len(db.log)
        BY <1>1, <1>2, <2>1, <4>1
      <4>2. CASE ~(lastSeq < Len(db.log))
        BY <1>1, <1>2, <2>1, <4>2
      <4>3. QED
        BY <4>1, <4>2
    <3>3. Page
      BY <1>1, <2>1, <3>1, <3>2, PageTyped
    <3>4. QED
      BY <1>1, <3>1, <3>3 DEF socket
  <2>3. CASE db.status # cfgStatus
    <3>1. /\ cfgStatus' = db.status /\ shown' = Recent /\ lastSeq' = Newest(Recent)
          /\ ghosts' = {}
          /\ Hangs
      BY <1>13, <2>3 DEF Poll
    <3>2. CASE Len(db.log) = 0
      <4>1. Recent = {}
        BY <2>1, <3>2
      <4>2. lastSeq' = 0
        BY ONLY <3>1, <4>1, NewestEmpty
      <4>3. QED
        BY <1>2, <1>4, <2>1, <3>1, <4>2
    <3>3. CASE Len(db.log) # 0
      <4>1. Newest(Recent) = Len(db.log)
        <5>1. Recent \in SUBSET Nat
          BY <2>1
        <5>2. QED
          BY <2>1, <3>3, <5>1, NewestIs
      <4>2. QED
        BY <1>2, <1>4, <2>1, <3>1, <4>1
    <3>4. QED
      BY <3>2, <3>3
  <2>4. QED
    BY <2>2, <2>3
<1>14. CASE UNCHANGED vars
  BY <1>1, <1>5, <1>14 DEF vars, socket
<1>15. QED
  BY <1>7, <1>8, <1>9, <1>10, <1>11, <1>12, <1>13, <1>14 DEF StreamNext

(* The socket and the page only hold numbers of events the log can have.   *)
THEOREM StreamTyped == StreamSpec => []StreamTypeOK
<1>1. StreamInit /\ TypeOK => StreamTypeOK
  BY AuditAssumption DEF StreamInit, StreamTypeOK, Statuses
<1>2. AuditInv /\ StreamTypeOK /\ TypeOK' /\ [StreamNext]_vars => StreamTypeOK'
  BY StreamTypeStep
<1>3. StreamSpec => []TypeOK
  BY StreamImplementsAudit, AuditTyped
<1>4. QED
  BY <1>1, <1>2, <1>3, StreamInvHolds, PTL DEF StreamSpec

-----------------------------------------------------------------------------
(* The page of a run that has ended                                        *)

(* A page that no longer follows the run has no connection left.           *)
Stopped == conn = "closed" /\ ghosts = {} /\ shown \subseteq 1..Len(db.log)

(* The log only grows under a page, whatever is rolled back.               *)
LEMMA LogGrows ==
  ASSUME AuditInv, AuditInv', [AuditNext]_auditVars
  PROVE  /\ Len(db.log) \in Nat /\ Len(db'.log) \in Nat
         /\ Len(db.log) <= Len(db'.log)
<1>1. /\ Len(db.log) \in Nat /\ Len(view.log) \in Nat
      /\ Len(db'.log) \in Nat /\ Len(view'.log) \in Nat
      /\ Len(db.log) <= Len(view.log)
  BY AppendFacts DEF AuditInv, Sound, IsSeq
<1>2. Len(Append(db.log, NextEvent(db.log, "final"))) = Len(db.log) + 1
  BY AppendFacts DEF AuditInv, Sound
<1>3. \/ db'.log = db.log \/ db'.log = view.log
      \/ db'.log = Append(db.log, NextEvent(db.log, "final"))
  <2> DEFINE grown == Grown(db, "final", TRUE, "failed")
  <2>1. grown.log = Append(db.log, NextEvent(db.log, "final"))
    BY DEF Grown
  <2>2. db'.log = db.log \/ db'.log = view.log \/ db' = grown
    BY WhatIsStored
  <2> HIDE DEF grown
  <2>3. QED
    BY ONLY <2>1, <2>2
<1>4. QED
  BY <1>1, <1>2, <1>3

(* The reload that ends the polling leaves committed events only, and no   *)
(* step of the writers, the bus or the old socket reaches the page again.  *)
LEMMA StoppedStep ==
  ASSUME AuditInv, AuditInv', ~Following => Stopped, [StreamNext]_vars
  PROVE  (~Following => Stopped)'
<1>1. /\ Len(db.log) \in Nat /\ Len(db'.log) \in Nat
      /\ Len(db.log) <= Len(db'.log)
  BY StreamWrites, LogGrows
<1>2. CASE ~Following /\ ((Records /\ Hears) \/ Recovers)
  <2>1. UNCHANGED <<shown, cfgStatus>> /\ conn' = "closed"
    BY <1>2 DEF Hears, Recovers, Haunts, Hangs, Stopped, page
  <2>2. ghosts' = {}
    BY <1>1, <1>2 DEF Hears, Recovers, Haunts, Stopped, page
  <2>3. QED
    BY <1>1, <1>2, <2>1, <2>2 DEF Stopped
<1>3. CASE Following /\ ~Poll
  <2>1. cfgStatus' = cfgStatus
    BY <1>3 DEF StreamNext, Hears, Recovers, Haunts, Connect, Replay, SendLive,
                Disconnect, vars, page
  <2>2. QED
    BY <1>3, <2>1 DEF Following
<1>4. CASE Poll
  <2>1. CASE db.status = cfgStatus
    BY <1>4, <2>1 DEF Poll, Following
  <2>2. CASE db.status # cfgStatus
    <3>1. conn' = "closed" /\ ghosts' = {} /\ shown' = Recent /\ db' = db
      BY <1>4, <2>2 DEF Poll, Hangs, auditVars
    <3>2. QED
      BY <3>1 DEF Stopped, Recent
  <2>3. QED
    BY <2>1, <2>2
<1>5. CASE ~Following /\ (Connect \/ Replay \/ SendLive \/ Disconnect \/ UNCHANGED vars)
  <2>1. UNCHANGED <<auditVars, page>> /\ conn' = "closed"
    BY <1>5 DEF Connect, Replay, SendLive, Disconnect, Hangs, Stopped, vars, socket, page
  <2>2. QED
    BY <1>5, <2>1 DEF Stopped, auditVars, page
<1>6. QED
  BY <1>2, <1>3, <1>4, <1>5 DEF StreamNext

(* A page that no longer follows the run shows committed events only, for  *)
(* any window and any number of rolled-back events it showed before.       *)
THEOREM StoppedPageHolds == StreamSpec => []StoppedPageIsTrue
<1>1. StreamInit => (~Following => Stopped)
  BY DEF StreamInit, Following, Ended
<1>2. /\ AuditInv /\ AuditInv' /\ (~Following => Stopped) /\ [StreamNext]_vars
      => (~Following => Stopped)'
  BY StoppedStep
<1>3. (~Following => Stopped) => StoppedPageIsTrue
  BY DEF Stopped, StoppedPageIsTrue
<1>4. QED
  BY <1>1, <1>2, <1>3, StreamInvHolds, PTL DEF StreamSpec
=============================================================================
