----------------------- MODULE ArtifactRetentionProofs -----------------------
(****************************************************************************)
(* Blobs and rows under retention, for any contents, groups, sampling and   *)
(* any number of writers, jobs and faults.                                  *)
(****************************************************************************)
EXTENDS ArtifactRetention, FiniteSetTheorems, WellFoundedInduction, TLAPS

(* A row that found or wrote its object has it, or lost it to the race.     *)
BlobHeld ==
  \A i \in Ids : rows[i].state \in {"stored", "live"} =>
    rows[i].key \in blobs \/ i \in raced

(* Of the rows the job has read, none that stays live has a removable key.  *)
RemovableUnused ==
  /\ job.seen \subseteq Committed
  /\ \A i \in job.seen : rows[i].key \in job.removable =>
       \/ job.phase = "unlinking" /\ rows[i].state = "marked"
       \/ job.phase = "marked" /\ (rows[i].state = "marked" \/ i \in job.plan)

(* Before each row to be marked there is a live one that is not.            *)
PlanKeepsOldest ==
  job.phase \in {"planned", "marked"} =>
    \A i \in job.plan : \E j \in Live(Ids) \ job.plan :
      j < i /\ rows[j].group = rows[i].group

RetInv ==
  TypeOK /\ BlobHeld /\ RemovableUnused /\ PlanKeepsOldest /\ OldestKept

-----------------------------------------------------------------------------

(* A set of numbers that is not empty has a least one.                     *)
LEMMA LeastNumber ==
  ASSUME NEW S, S \subseteq Nat, S # {}
  PROVE  \E m \in S : \A k \in S : m <= k
<1>1. PICK m \in S : \A k \in S : ~ (<<k, m>> \in OpToRel(<, Nat))
  BY NatLessThanWellFounded, WFMin
<1>2. \A k \in S : ~ (k < m)
  BY <1>1 DEF OpToRel
<1>3. QED
  BY <1>2

(* The first old row of a group has ordinal zero: the planner keeps it.     *)
LEMMA FirstIsKept ==
  ASSUME TypeOK, NEW i \in plan_retention(Committed)
  PROVE  \E j \in Live(Ids) \ plan_retention(Committed) :
           j < i /\ rows[j].group = rows[i].group
<1> DEFINE S == Committed
<1>1. i \in Ids /\ i \in Live(S) /\ i <= aged /\ Ids \subseteq Nat
      /\ S \subseteq Ids /\ KeepEvery \in Nat \ {0}
      /\ Ordinal(i, S) % KeepEvery # 0
  BY RetentionAssumption DEF plan_retention, Live, Committed, TypeOK
<1>2. Before(i, S) # {}
  <2>1. SUFFICES ASSUME Before(i, S) = {} PROVE FALSE
    OBVIOUS
  <2>2. Ordinal(i, S) = 0
    BY <2>1, FS_EmptySet DEF Ordinal
  <2>3. 0 % KeepEvery = 0
    BY <1>1
  <2>4. QED
    BY <1>1, <2>2, <2>3
<1>3. PICK j \in Before(i, S) : \A k \in Before(i, S) : j <= k
  <2>1. Before(i, S) \subseteq Nat
    BY <1>1 DEF Before, Live
  <2>2. QED
    BY <1>2, <2>1, LeastNumber
<1>4. j \in Live(Ids) /\ j < i /\ rows[j].group = rows[i].group
      /\ j \in Nat /\ i \in Nat
  BY <1>1, <1>3 DEF Before, Live
<1>5. Before(j, S) = {}
  <2>1. SUFFICES ASSUME NEW k \in Before(j, S) PROVE FALSE
    OBVIOUS
  <2>2. k \in Before(i, S) /\ k < j /\ k \in Nat
    BY <1>1, <1>4, <2>1 DEF Before, Live
  <2>3. QED
    BY <1>3, <1>4, <2>2
<1>6. j \notin plan_retention(S)
  <2>1. Ordinal(j, S) = 0
    BY <1>5, FS_EmptySet DEF Ordinal
  <2>2. 0 % KeepEvery = 0
    BY <1>1
  <2>3. QED
    BY <2>1, <2>2 DEF plan_retention
<1>7. QED
  BY <1>4, <1>6

-----------------------------------------------------------------------------

(* The empty store satisfies the inductive invariant.                       *)
THEOREM RetInvInit == Init => RetInv
<1>1. SUFFICES ASSUME Init PROVE RetInv
  OBVIOUS
<1>2. Ids = {} /\ Cardinality({}) = 0 /\ 1 .. 0 = {}
  BY <1>1, FS_EmptySet DEF Init, Ids
<1>3. TypeOK
  BY <1>1, <1>2, RetentionAssumption DEF Init, TypeOK, JobType, Resting, KeysOf
<1>4. BlobHeld /\ RemovableUnused /\ PlanKeepsOldest /\ OldestKept
  BY <1>1, <1>2 DEF Init, BlobHeld, RemovableUnused, PlanKeepsOldest,
    OldestKept, Resting
<1>5. QED
  BY <1>3, <1>4 DEF RetInv

(* What a change of one row's state does to the sets built from rows.       *)
LEMMA SetStateFacts ==
  ASSUME TypeOK, NEW i \in Ids, NEW s \in RowStates, SetState(i, s)
  PROVE  /\ Ids' = Ids
         /\ \A j \in Ids : rows'[j].key = rows[j].key
                           /\ rows'[j].group = rows[j].group
                           /\ rows'[j] \in Row
         /\ rows'[i].state = s
         /\ \A j \in Ids \ {i} : rows'[j] = rows[j]
         /\ KeysOf(Ids)' = KeysOf(Ids)
<1>1. /\ Ids' = Ids
      /\ \A j \in Ids \ {i} : rows'[j] = rows[j]
      /\ rows'[i] = [rows[i] EXCEPT !.state = s]
  BY DEF SetState, Ids
<1>2. \A j \in Ids : rows[j] \in Row
  BY DEF TypeOK
<1>3. QED
  BY <1>1, <1>2 DEF Row, KeysOf

(* A change of one row that marks none, and takes no row from the live ones *)
(* or the committed ones.                                                   *)
LEMMA RowStepKeeps ==
  ASSUME RetInv, NEW i \in Ids, NEW s \in RowStates \ {"marked"},
         SetState(i, s), rows[i].state \in {"absent", "stored"},
         UNCHANGED job
  PROVE  RemovableUnused' /\ PlanKeepsOldest' /\ OldestKept'
<1>1. TypeOK /\ RemovableUnused /\ PlanKeepsOldest /\ OldestKept
  BY DEF RetInv
<1>2. /\ Ids' = Ids
      /\ \A j \in Ids : rows'[j].key = rows[j].key
                        /\ rows'[j].group = rows[j].group
      /\ rows'[i].state = s
      /\ \A j \in Ids \ {i} : rows'[j] = rows[j]
  BY <1>1, SetStateFacts
<1>3. Live(Ids) \subseteq Live(Ids)' /\ Committed \subseteq Committed'
      /\ i \notin Committed
  BY <1>2 DEF Live, Committed
<1>4. RemovableUnused'
  BY <1>1, <1>2, <1>3 DEF RemovableUnused, Committed
<1>5. PlanKeepsOldest'
  <2>1. job.plan \subseteq Ids
    BY <1>1 DEF TypeOK
  <2>2. QED
    BY <1>1, <1>2, <1>3, <2>1 DEF PlanKeepsOldest, Live
<1>6. OldestKept'
  BY <1>1, <1>2, <1>3 DEF OldestKept, Live
<1>7. QED
  BY <1>4, <1>5, <1>6

(* A put adds a row nobody else has read yet.                              *)
LEMMA PutKeeps ==
  ASSUME RetInv, NEW k \in Keys, NEW g \in Groups, NEW b \in BOOLEAN, Put(k, g, b)
  PROVE  RetInv'
<1> DEFINE n == Cardinality(Ids)
<1>1. TypeOK /\ BlobHeld /\ RemovableUnused /\ PlanKeepsOldest /\ OldestKept
  BY DEF RetInv
<1>2. n \in Nat /\ n + 1 <= MaxRows /\ MaxRows \in Nat /\ Ids = 1 .. n
  BY <1>1, RetentionAssumption DEF Put, TypeOK
<1>3. /\ Ids' = 1 .. (n + 1) /\ Ids \subseteq Ids' /\ n + 1 \notin Ids
      /\ \A j \in Ids : rows'[j] = rows[j]
      /\ rows'[n + 1] = [group |-> g, key |-> k, boundary |-> b,
                   state |-> IF k \in blobs THEN "stored" ELSE "absent"]
      /\ Ids' = Ids \cup {n + 1}
  BY <1>2 DEF Put, Ids
<1>4. Cardinality(Ids') = n + 1
  BY <1>2, <1>3, FS_Interval
<1>5. Live(Ids) \subseteq Live(Ids)' /\ Committed' = Committed
  BY <1>3 DEF Live, Committed
<1>6. TypeOK'
  <2>1. \A i \in Ids' : rows'[i] \in Row
    BY <1>1, <1>3 DEF TypeOK, Row, RowStates
  <2>2. KeysOf(Ids) \subseteq KeysOf(Ids)'
    BY <1>3 DEF KeysOf
  <2>3. aged' \in 0 .. Cardinality(Ids')
    BY <1>1, <1>2, <1>4 DEF TypeOK, Put
  <2>4. QED
    BY <1>1, <1>2, <1>3, <1>4, <2>1, <2>2, <2>3 DEF TypeOK, Put
<1>7. BlobHeld'
  BY <1>1, <1>3 DEF BlobHeld, Put
<1>8. RemovableUnused'
  BY <1>1, <1>3, <1>5 DEF RemovableUnused, Put, Committed
<1>9. PlanKeepsOldest'
  <2>1. job.plan \subseteq Ids
    BY <1>1 DEF TypeOK
  <2>2. QED
    BY <1>1, <1>3, <1>5, <2>1 DEF PlanKeepsOldest, Put, Live
<1>10. OldestKept'
  BY <1>1, <1>3, <1>5 DEF OldestKept, Live
<1>11. QED
  BY <1>6, <1>7, <1>8, <1>9, <1>10 DEF RetInv

(* Writing the object, committing and abandoning the row.                  *)
LEMMA WriterKeeps ==
  ASSUME RetInv, NEW i \in Ids,
         WriteBlob(i) \/ CommitRow(i) \/ AbandonRow(i)
  PROVE  RetInv'
<1>1. TypeOK /\ BlobHeld /\ OldestKept
  BY DEF RetInv
<1>2. CASE WriteBlob(i)
  <2>1. SetState(i, "stored") /\ "stored" \in RowStates \ {"marked"}
        /\ rows[i].state = "absent" /\ UNCHANGED job
    BY <1>2 DEF WriteBlob, RowStates
  <2>2. RemovableUnused' /\ PlanKeepsOldest' /\ OldestKept'
    BY <2>1, RowStepKeeps
  <2>3. TypeOK' /\ BlobHeld'
    BY <1>1, <1>2, <2>1, SetStateFacts DEF WriteBlob, TypeOK, BlobHeld, KeysOf
  <2>4. QED
    BY <2>2, <2>3 DEF RetInv
<1>3. CASE CommitRow(i)
  <2>1. SetState(i, "live") /\ "live" \in RowStates \ {"marked"}
        /\ rows[i].state = "stored" /\ UNCHANGED job
    BY <1>3 DEF CommitRow, RowStates
  <2>2. RemovableUnused' /\ PlanKeepsOldest' /\ OldestKept'
    BY <2>1, RowStepKeeps
  <2>3. TypeOK' /\ BlobHeld'
    BY <1>1, <1>3, <2>1, SetStateFacts DEF CommitRow, TypeOK, BlobHeld
  <2>4. QED
    BY <2>2, <2>3 DEF RetInv
<1>4. CASE AbandonRow(i)
  <2>1. SetState(i, "gone") /\ "gone" \in RowStates \ {"marked"}
        /\ rows[i].state \in {"absent", "stored"} /\ UNCHANGED job
    BY <1>4 DEF AbandonRow, RowStates
  <2>2. RemovableUnused' /\ PlanKeepsOldest' /\ OldestKept'
    BY <2>1, RowStepKeeps
  <2>3. faults' \in 0 .. MaxFaults
    BY <1>1, <1>4, RetentionAssumption DEF AbandonRow, TypeOK
  <2>4. TypeOK' /\ BlobHeld'
    BY <1>1, <1>4, <2>1, <2>3, SetStateFacts DEF AbandonRow, TypeOK, BlobHeld, KeysOf
  <2>5. QED
    BY <2>2, <2>4 DEF RetInv
<1>5. QED
  BY <1>2, <1>3, <1>4

-----------------------------------------------------------------------------
(* The job.                                                                 *)

(* The inventory plans from the committed rows and keeps the oldest.       *)
LEMMA InventoryKeeps ==
  ASSUME RetInv, Inventory
  PROVE  RetInv'
<1>1. TypeOK /\ BlobHeld /\ OldestKept
  BY DEF RetInv
<1>2. /\ job' = [phase |-> "planned", plan |-> plan_retention(Committed),
                 seen |-> {}, removable |-> {}]
      /\ jobs' \in 0 .. MaxJobs
      /\ UNCHANGED <<rows, blobs, aged, faults, raced, leaked>>
  <2>1. jobs' \in 0 .. MaxJobs
    BY <1>1, RetentionAssumption DEF Inventory, TypeOK
  <2>2. QED
    BY <2>1 DEF Inventory, Resting
<1>3. plan_retention(Committed) \subseteq Ids /\ Ids \subseteq 1 .. MaxRows
  BY <1>1, RetentionAssumption DEF plan_retention, Live, Committed, TypeOK
<1>4. TypeOK'
  BY <1>1, <1>2, <1>3 DEF TypeOK, JobType, Ids, KeysOf
<1>5. PlanKeepsOldest'
  BY <1>1, <1>2, FirstIsKept DEF PlanKeepsOldest, Live, Ids
<1>6. BlobHeld' /\ RemovableUnused' /\ OldestKept'
  BY <1>1, <1>2 DEF BlobHeld, RemovableUnused, OldestKept, Live, Ids
<1>7. QED
  BY <1>4, <1>5, <1>6 DEF RetInv

(* Marking is of planned rows only.                                        *)
LEMMA MarkRowsKeeps ==
  ASSUME RetInv, MarkRows
  PROVE  RetInv'
<1> DEFINE P == Live(job.plan \cap Committed)
<1>1. TypeOK /\ BlobHeld /\ OldestKept /\ PlanKeepsOldest
  BY DEF RetInv
<1>2. /\ job.phase = "planned"
      /\ job' = [phase |-> "marked", plan |-> P, seen |-> Committed,
                 removable |-> Removable(Committed, P)]
      /\ UNCHANGED <<rows, blobs, aged, jobs, faults, raced, leaked>>
  BY <1>1 DEF MarkRows, TypeOK, JobType
<1>3. /\ P \subseteq job.plan /\ P \subseteq Ids /\ P \subseteq Live(Ids)
      /\ Committed \subseteq Ids /\ Ids \subseteq 1 .. MaxRows
  BY <1>1, RetentionAssumption DEF Live, Committed, TypeOK
<1>4. Removable(Committed, P) \subseteq Keys \cap KeysOf(Ids)
  BY <1>1, <1>3 DEF Removable, KeysOf, TypeOK, Row
<1>5. TypeOK'
  <2>1. job' \in JobType
    BY <1>2, <1>3, <1>4 DEF JobType
  <2>2. /\ job'.plan \cup job'.seen \subseteq Ids /\ job'.removable \subseteq KeysOf(Ids)
        /\ Ids' = Ids /\ KeysOf(Ids)' = KeysOf(Ids)
    BY <1>2, <1>3, <1>4 DEF Ids, KeysOf
  <2>3. QED
    BY <1>1, <1>2, <2>1, <2>2 DEF TypeOK
<1>6. RemovableUnused'
  <2>1. \A i \in Committed : rows[i].key \in Removable(Committed, P) =>
          rows[i].state = "marked" \/ i \in P
    BY DEF Removable, KeysOf, Live, Committed
  <2>2. QED
    BY <1>2, <2>1 DEF RemovableUnused, Committed, Ids
<1>7. PlanKeepsOldest'
  BY <1>1, <1>2, <1>3 DEF PlanKeepsOldest, Live, Ids
<1>8. BlobHeld' /\ OldestKept'
  BY <1>1, <1>2 DEF BlobHeld, OldestKept, Live, Ids
<1>9. QED
  BY <1>5, <1>6, <1>7, <1>8 DEF RetInv

(* After the commit, what may be unlinked is what no live row refers to.   *)
LEMMA CommitMarksKeeps ==
  ASSUME RetInv, CommitMarks
  PROVE  RetInv'
<1>1. TypeOK /\ BlobHeld /\ RemovableUnused /\ PlanKeepsOldest /\ OldestKept
  BY DEF RetInv
<1>2. /\ job.phase = "marked" /\ job' = [job EXCEPT !.phase = "unlinking"]
      /\ job.plan \subseteq Ids /\ Ids \subseteq Nat
      /\ UNCHANGED <<blobs, aged, jobs, faults, raced, leaked>>
  BY <1>1 DEF CommitMarks, TypeOK
<1>3. /\ Ids' = Ids
      /\ \A i \in Ids : /\ rows'[i] \in Row
                        /\ rows'[i].key = rows[i].key
                        /\ rows'[i].group = rows[i].group
      /\ \A i \in Ids \ job.plan : rows'[i] = rows[i]
      /\ \A i \in job.plan : rows'[i].state = "marked"
  <2>1. /\ Ids' = Ids
        /\ \A i \in Ids \ job.plan : rows'[i] = rows[i]
        /\ \A i \in job.plan : rows'[i] = [rows[i] EXCEPT !.state = "marked"]
    BY <1>2 DEF CommitMarks, Ids
  <2>2. \A i \in Ids : rows[i] \in Row
    BY <1>1 DEF TypeOK
  <2>3. ASSUME NEW r \in Row
        PROVE  /\ [r EXCEPT !.state = "marked"] \in Row
               /\ [r EXCEPT !.state = "marked"].key = r.key
               /\ [r EXCEPT !.state = "marked"].group = r.group
               /\ [r EXCEPT !.state = "marked"].state = "marked"
    BY DEF Row, RowStates
  <2>4. ASSUME NEW i \in Ids
        PROVE  /\ rows'[i] \in Row
               /\ rows'[i].key = rows[i].key
               /\ rows'[i].group = rows[i].group
               /\ i \in job.plan => rows'[i].state = "marked"
    <3>1. rows[i] \in Row
      BY <2>2
    <3>2. CASE i \in job.plan
      BY <2>1, <2>3, <3>1, <3>2
    <3>3. CASE i \notin job.plan
      BY <2>1, <3>1, <3>3
    <3>4. QED
      BY <3>2, <3>3
  <2>5. QED
    BY <1>2, <2>1, <2>4
<1>4. TypeOK'
  <2>1. KeysOf(Ids)' = KeysOf(Ids)
    BY <1>3 DEF KeysOf
  <2>2. job' \in JobType /\ job'.plan = job.plan /\ job'.seen = job.seen
    BY <1>1, <1>2 DEF TypeOK, JobType
  <2>3. QED
    BY <1>1, <1>2, <1>3, <2>1, <2>2 DEF TypeOK
<1>5. BlobHeld'
  BY <1>1, <1>2, <1>3 DEF BlobHeld
<1>6. RemovableUnused'
  <2>1. job'.phase = "unlinking" /\ job'.seen = job.seen
        /\ job'.removable = job.removable
    BY <1>1, <1>2 DEF TypeOK, JobType
  <2>2. Committed \subseteq Committed'
    BY <1>3 DEF Committed
  <2>3. \A i \in job.seen : rows'[i].key \in job.removable =>
          rows'[i].state = "marked"
    BY <1>1, <1>2, <1>3 DEF RemovableUnused, Committed
  <2>4. QED
    BY <1>1, <2>1, <2>2, <2>3 DEF RemovableUnused
<1>7. PlanKeepsOldest'
  BY <1>1, <1>2 DEF PlanKeepsOldest, TypeOK, JobType
<1>8. OldestKept'
  <2>1. Live(Ids)' = Live(Ids) \ job.plan
    BY <1>3 DEF Live
  <2>2. ASSUME NEW i \in job.plan
        PROVE  \E j \in Live(Ids) \ job.plan :
                 j < i /\ rows[j].group = rows[i].group
    BY <1>1, <1>2, <2>2 DEF PlanKeepsOldest
  <2>3. ASSUME NEW i \in Ids, rows'[i].state = "marked"
        PROVE  \E j \in Live(Ids) \ job.plan :
                 j < i /\ rows[j].group = rows[i].group
    <3>1. CASE i \in job.plan
      BY <2>2, <3>1
    <3>2. CASE i \notin job.plan
      <4>1. PICK j \in Live(Ids) : j < i /\ rows[j].group = rows[i].group
        BY <1>1, <1>3, <2>3, <3>2 DEF OldestKept
      <4>2. CASE j \in job.plan
        <5>1. PICK h \in Live(Ids) \ job.plan :
                h < j /\ rows[h].group = rows[j].group
          BY <2>2, <4>2
        <5>2. h < i
          BY <1>2, <2>3, <4>1, <5>1 DEF Live
        <5>3. QED
          BY <4>1, <5>1, <5>2
      <4>3. QED
        BY <4>1, <4>2
    <3>3. QED
      BY <3>1, <3>2
  <2>4. QED
    BY <1>3, <2>1, <2>3 DEF OldestKept, Live
<1>9. QED
  BY <1>4, <1>5, <1>6, <1>7, <1>8 DEF RetInv

(* Unlinking takes only keys that were found unused.                       *)
LEMMA DeleteBlobKeeps ==
  ASSUME RetInv, NEW k \in Keys, DeleteBlob(k)
  PROVE  RetInv'
<1>1. TypeOK /\ BlobHeld /\ RemovableUnused /\ OldestKept
  BY DEF RetInv
<1>2. /\ job.phase = "unlinking" /\ k \in job.removable
      /\ blobs' = blobs \ {k} /\ raced' = raced \cup Unseen(k)
      /\ job' = [job EXCEPT !.removable = job.removable \ {k}]
      /\ UNCHANGED <<rows, aged, jobs, faults, leaked>>
  BY DEF DeleteBlob
<1>3. /\ job' \in JobType /\ job'.phase = "unlinking" /\ job'.plan = job.plan
      /\ job'.seen = job.seen /\ job'.removable = job.removable \ {k}
  BY <1>1, <1>2 DEF TypeOK, JobType
<1>4. TypeOK'
  BY <1>1, <1>2, <1>3 DEF TypeOK, Unseen, Ids, KeysOf
<1>5. BlobHeld'
  <2>1. SUFFICES ASSUME NEW i \in Ids, rows[i].state \in {"stored", "live"}
        PROVE  rows[i].key \in blobs' \/ i \in raced'
    BY <1>2 DEF BlobHeld, Ids
  <2>2. CASE rows[i].key # k
    BY <1>1, <1>2, <2>1, <2>2 DEF BlobHeld
  <2>3. CASE rows[i].key = k /\ i \notin job.seen
    BY <1>2, <2>1, <2>3 DEF Unseen
  <2>4. CASE rows[i].key = k /\ i \in job.seen
    BY <1>1, <1>2, <2>1, <2>4 DEF RemovableUnused
  <2>5. QED
    BY <2>2, <2>3, <2>4
<1>6. RemovableUnused' /\ PlanKeepsOldest' /\ OldestKept'
  BY <1>1, <1>2, <1>3 DEF RemovableUnused, PlanKeepsOldest, OldestKept,
    Committed, Live, Ids
<1>7. QED
  BY <1>4, <1>5, <1>6 DEF RetInv

(* A job that ends or dies leaves the rows as they are.                    *)
LEMMA JobStopsKeeps ==
  ASSUME RetInv, JobEnds \/ JobDies
  PROVE  RetInv'
<1>1. TypeOK /\ BlobHeld /\ OldestKept
  BY DEF RetInv
<1>2. job' = [phase |-> "rest", plan |-> {}, seen |-> {}, removable |-> {}]
      /\ UNCHANGED <<rows, blobs, aged, jobs, raced>>
  BY DEF JobEnds, JobDies, Resting
<1>3. leaked' \subseteq KeysOf(Ids) /\ faults' \in 0 .. MaxFaults
  <2>1. job.removable \subseteq KeysOf(Ids)
    BY <1>1 DEF TypeOK
  <2>2. QED
    BY <1>1, <2>1, RetentionAssumption DEF JobEnds, JobDies, TypeOK
<1>4. TypeOK'
  BY <1>1, <1>2, <1>3 DEF TypeOK, JobType, Ids, KeysOf
<1>5. BlobHeld' /\ RemovableUnused' /\ PlanKeepsOldest' /\ OldestKept'
  BY <1>1, <1>2 DEF BlobHeld, RemovableUnused, PlanKeepsOldest, OldestKept,
    Live, Ids
<1>6. QED
  BY <1>4, <1>5 DEF RetInv

-----------------------------------------------------------------------------

(* Every step of a writer, of time and of the job preserves the invariant.  *)
THEOREM RetInvStep == RetInv /\ [Next]_vars => RetInv'
<1>1. SUFFICES ASSUME RetInv, [Next]_vars PROVE RetInv'
  OBVIOUS
<1>2. TypeOK
  BY <1>1 DEF RetInv
<1>3. ASSUME NEW k \in Keys, NEW g \in Groups, NEW b \in BOOLEAN, Put(k, g, b)
      PROVE  RetInv'
  BY <1>1, <1>3, PutKeeps
<1>4. CASE Write \/ \E i \in Ids : AbandonRow(i)
  BY <1>1, <1>4, WriterKeeps DEF Write
<1>5. CASE Age
  <2>1. aged' \in 0 .. Cardinality(Ids) /\ UNCHANGED <<rows, blobs, job, jobs,
          faults, raced, leaked>>
    BY <1>2, <1>5 DEF Age, TypeOK
  <2>2. QED
    BY <1>1, <2>1 DEF RetInv, TypeOK, BlobHeld, RemovableUnused,
      PlanKeepsOldest, OldestKept, Live, Committed, KeysOf, Ids
<1>6. CASE Job
  BY <1>1, <1>6, InventoryKeeps, MarkRowsKeeps, CommitMarksKeeps,
    DeleteBlobKeeps, JobStopsKeeps DEF Job
<1>7. CASE JobDies
  BY <1>1, <1>7, JobStopsKeeps
<1>8. CASE UNCHANGED vars
  BY <1>1, <1>8 DEF RetInv, TypeOK, BlobHeld, RemovableUnused,
    PlanKeepsOldest, OldestKept, Live, Committed, KeysOf, Ids, vars
<1>9. QED
  BY <1>1, <1>3, <1>4, <1>5, <1>6, <1>7, <1>8 DEF Next

(* No deduplication, second job, rollback or half-done job makes a          *)
(* committed row lose its blob, except in the window between the job's      *)
(* select and its unlink.                                                   *)
THEOREM BlobsKept == Spec => []BlobLostOnlyToRace
<1>1. RetInv => BlobLostOnlyToRace
  BY DEF RetInv, BlobHeld, BlobLostOnlyToRace, Live
<1>2. QED
  BY <1>1, RetInvInit, RetInvStep, PTL DEF Spec

(* However often it samples, the job leaves a live row of the group before  *)
(* every row it has marked.                                                 *)
THEOREM StartsKept == Spec => []OldestKept
<1>1. RetInv => OldestKept
  BY DEF RetInv
<1>2. QED
  BY <1>1, RetInvInit, RetInvStep, PTL DEF Spec

(* Every variable of the store and the job has its type.                    *)
THEOREM TypeCorrect == Spec => []TypeOK
<1>1. RetInv => TypeOK
  BY DEF RetInv
<1>2. QED
  BY <1>1, RetInvInit, RetInvStep, PTL DEF Spec

-----------------------------------------------------------------------------
(* Storage.                                                                 *)

(* An orphan is remembered by a fault, or by the job that is unlinking; and *)
(* the key of a row about to be marked is removable, or kept by a live row. *)
OrphanInv ==
  /\ \A k \in Orphans : k \in leaked
                        \/ (job.phase = "unlinking" /\ k \in job.removable)
  /\ job.phase = "marked" =>
       \A i \in job.plan :
         \/ rows[i].key \in job.removable
         \/ \E j \in Live(Ids) \ job.plan : rows[j].key = rows[i].key

(* A row that enters, or leaves one of the uncommitted states, makes no     *)
(* orphan unless its put was abandoned.                                     *)
LEMMA WriterMakesNoOrphan ==
  ASSUME RetInv, OrphanInv,
         \/ \E k \in Keys, g \in Groups, b \in BOOLEAN : Put(k, g, b)
         \/ \E i \in Ids : WriteBlob(i) \/ CommitRow(i) \/ AbandonRow(i)
  PROVE  OrphanInv'
<1>1. TypeOK
  BY DEF RetInv
<1>2. CASE \E k \in Keys, g \in Groups, b \in BOOLEAN : Put(k, g, b)
  <2>1. PICK k \in Keys, g \in Groups, b \in BOOLEAN : Put(k, g, b)
    BY <1>2
  <2>2. Cardinality(Ids) \in Nat /\ Ids = 1 .. Cardinality(Ids)
    BY <1>1, RetentionAssumption DEF TypeOK
  <2>3. Ids \subseteq Ids' /\ \A j \in Ids : rows'[j] = rows[j]
    BY <2>1, <2>2 DEF Put, Ids
  <2>4. ASSUME NEW j \in Ids' \ Ids
        PROVE  rows'[j].state \notin {"marked", "gone"}
    BY <2>1, <2>2, <2>4 DEF Put, Ids
  <2>5. UNCHANGED <<blobs, job, leaked>>
    BY <2>1 DEF Put
  <2>6. Orphans' \subseteq Orphans
    BY <2>3, <2>4, <2>5 DEF Orphans
  <2>7. Live(Ids) \subseteq Live(Ids)' /\ job.plan \subseteq Ids
    BY <1>1, <2>3 DEF Live, TypeOK
  <2>8. QED
    BY <2>3, <2>5, <2>6, <2>7 DEF OrphanInv, Live
<1>3. CASE \E i \in Ids : WriteBlob(i) \/ CommitRow(i) \/ AbandonRow(i)
  <2>1. PICK i \in Ids : WriteBlob(i) \/ CommitRow(i) \/ AbandonRow(i)
    BY <1>3
  <2>2. PICK s \in RowStates \ {"marked"} :
          /\ SetState(i, s) /\ rows[i].state \in {"absent", "stored"}
          /\ s = "gone" => rows[i].key \in leaked'
    BY <2>1 DEF WriteBlob, CommitRow, AbandonRow, RowStates
  <2>3. /\ leaked \subseteq leaked' /\ UNCHANGED job
        /\ blobs' \subseteq blobs \cup (IF s = "gone" THEN {} ELSE {rows[i].key})
    <3>1. rows'[i].state = s
      BY <1>1, <2>2, SetStateFacts
    <3>2. CASE WriteBlob(i)
      <4>1. rows'[i].state = "stored"
        BY <1>1, <3>2, SetStateFacts DEF WriteBlob, RowStates
      <4>2. QED
        BY <3>1, <3>2, <4>1 DEF WriteBlob
    <3>3. CASE CommitRow(i) \/ AbandonRow(i)
      BY <3>3 DEF CommitRow, AbandonRow
    <3>4. QED
      BY <2>1, <3>2, <3>3
  <2>4. /\ Ids' = Ids
        /\ \A j \in Ids : rows'[j].key = rows[j].key
        /\ rows'[i].state = s
        /\ \A j \in Ids \ {i} : rows'[j] = rows[j]
    BY <1>1, <2>2, SetStateFacts
  <2>5. ASSUME NEW k \in Orphans', k \notin leaked'
        PROVE  k \in Orphans
    <3>1. k \in blobs' /\ \A j \in Ids : rows[j].key = k =>
                            rows'[j].state \in {"marked", "gone"}
      BY <2>4, <2>5 DEF Orphans
    <3>2. rows[i].key # k
      BY <2>2, <2>4, <2>5, <3>1
    <3>3. QED
      BY <2>3, <2>4, <2>5, <3>1, <3>2 DEF Orphans
  <2>6. Live(Ids) \subseteq Live(Ids)' /\ job.plan \subseteq Ids
    BY <1>1, <2>2, <2>4 DEF Live, TypeOK
  <2>7. QED
    BY <2>3, <2>4, <2>5, <2>6 DEF OrphanInv, Live
<1>4. QED
  BY <1>2, <1>3

(* Marking, unlinking and stopping leave no orphan behind unremembered.     *)
LEMMA JobMakesNoOrphan ==
  ASSUME RetInv, OrphanInv, Job \/ JobDies
  PROVE  OrphanInv'
<1>1. TypeOK
  BY DEF RetInv
<1>2. CASE Inventory
  BY <1>2 DEF Inventory, OrphanInv, Orphans, Resting, Ids
<1>3. CASE MarkRows
  <2> DEFINE P == Live(job.plan \cap Committed)
  <2>1. /\ job'.phase = "marked" /\ job'.plan = P
        /\ job'.removable = Removable(Committed, P)
        /\ job.phase = "planned" /\ UNCHANGED <<rows, blobs, leaked>>
    BY <1>1, <1>3 DEF MarkRows, TypeOK, JobType
  <2>2. \A i \in P : \/ rows[i].key \in Removable(Committed, P)
                     \/ \E j \in Live(Ids) \ P : rows[j].key = rows[i].key
    BY DEF Removable, KeysOf, Live, Committed
  <2>3. QED
    BY <2>1, <2>2 DEF OrphanInv, Orphans, Live, Ids
<1>4. CASE CommitMarks
  <2>1. /\ job.phase = "marked" /\ job'.phase = "unlinking"
        /\ job'.removable = job.removable /\ UNCHANGED <<blobs, leaked>>
    BY <1>1, <1>4 DEF CommitMarks, TypeOK, JobType
  <2>2. /\ Ids' = Ids
        /\ \A i \in Ids \ job.plan : rows'[i] = rows[i]
        /\ \A i \in Ids : rows'[i].key = rows[i].key
    <3>1. /\ Ids' = Ids
          /\ \A i \in Ids \ job.plan : rows'[i] = rows[i]
          /\ \A i \in Ids : i \in job.plan =>
               rows'[i] = [rows[i] EXCEPT !.state = "marked"]
      BY <1>4 DEF CommitMarks, Ids
    <3>2. \A r \in Row : [r EXCEPT !.state = "marked"].key = r.key
      BY DEF Row
    <3>3. QED
      BY <1>1, <3>1, <3>2 DEF TypeOK
  <2>3. ASSUME NEW k \in Orphans'
        PROVE  k \in leaked \/ k \in job.removable
    <3>1. k \in blobs /\ \A j \in Ids : rows[j].key = k =>
                           rows'[j].state \in {"marked", "gone"}
      BY <2>1, <2>2, <2>3 DEF Orphans
    <3>2. CASE \E i \in job.plan : rows[i].key = k
      <4>1. PICK i \in job.plan : rows[i].key = k
        BY <3>2
      <4>2. ~ \E j \in Live(Ids) \ job.plan : rows[j].key = k
        BY <2>2, <3>1 DEF Live
      <4>3. QED
        BY <2>1, <4>1, <4>2 DEF OrphanInv
    <3>3. CASE ~ \E i \in job.plan : rows[i].key = k
      <4>1. k \in Orphans
        BY <2>2, <2>3, <3>1, <3>3 DEF Orphans
      <4>2. QED
        BY <2>1, <4>1 DEF OrphanInv
    <3>4. QED
      BY <3>2, <3>3
  <2>4. QED
    BY <2>1, <2>3 DEF OrphanInv
<1>5. CASE \E k \in Keys : DeleteBlob(k)
  <2>1. PICK k \in Keys : DeleteBlob(k)
    BY <1>5
  <2>2. /\ job.phase = "unlinking" /\ job'.phase = "unlinking"
        /\ job'.removable = job.removable \ {k}
        /\ blobs' = blobs \ {k} /\ UNCHANGED <<rows, leaked>>
    BY <1>1, <2>1 DEF DeleteBlob, TypeOK, JobType
  <2>3. QED
    BY <2>2 DEF OrphanInv, Orphans, Ids
<1>6. CASE JobEnds \/ JobDies
  <2>1. job'.phase = "rest" /\ UNCHANGED <<rows, blobs>>
    BY <1>6 DEF JobEnds, JobDies, Resting
  <2>2. leaked \subseteq leaked'
        /\ (job.phase = "unlinking" => job.removable \subseteq leaked')
    BY <1>6 DEF JobEnds, JobDies
  <2>3. QED
    BY <2>1, <2>2 DEF OrphanInv, Orphans, Ids
<1>7. QED
  BY <1>2, <1>3, <1>4, <1>5, <1>6 DEF Job

(* With the job at rest, an object whose rows are all marked was left by a  *)
(* job that died or by a put that was rolled back.                          *)
THEOREM OrphansExplained == Spec => []OrphanOnlyFromFault
<1>1. Init => OrphanInv
  BY DEF Init, OrphanInv, Orphans, Resting
<1>2. RetInv /\ OrphanInv /\ [Next]_vars => OrphanInv'
  <2>1. SUFFICES ASSUME RetInv, OrphanInv, [Next]_vars PROVE OrphanInv'
    OBVIOUS
  <2>2. CASE Age \/ UNCHANGED vars
    BY <2>1, <2>2 DEF Age, vars, OrphanInv, Orphans, Live, Ids
  <2>3. CASE Write
    BY <2>1, <2>3, WriterMakesNoOrphan DEF Write
  <2>4. QED
    BY <2>1, <2>2, <2>3, WriterMakesNoOrphan, JobMakesNoOrphan DEF Next
<1>3. OrphanInv => OrphanOnlyFromFault
  BY DEF OrphanInv, OrphanOnlyFromFault
<1>4. QED
  BY <1>1, <1>2, <1>3, RetInvInit, RetInvStep, PTL DEF Spec
=============================================================================
