-------------------------- MODULE ArtifactRetention --------------------------
(* The content-addressed artifact store, the writers that put blobs and     *)
(* their metadata rows (artifacts/store.py, s3_store.py), and the retention *)
(* job that soft-deletes old rows and unlinks blobs (retention.py).         *)
(* A row's number is its created_at order; its group is its (kind, run).    *)
EXTENDS Integers, FiniteSets

CONSTANTS Keys,       \* contents that may be stored, named by their digest
          Groups,     \* (kind, run) pairs
          Sampled,    \* the groups whose kind has a retention period
          KeepEvery,  \* *_keep_every
          MaxRows,    \* bound: artifacts ever put
          MaxJobs,    \* bound: times the retention job is started
          MaxFaults   \* bound: rollbacks, and jobs that die

ASSUME RetentionAssumption ==
  /\ KeepEvery \in Nat \ {0}
  /\ Sampled \subseteq Groups
  /\ MaxRows \in Nat /\ MaxJobs \in Nat /\ MaxFaults \in Nat

VARIABLES rows,    \* id -> [group, key, boundary, state]
          blobs,   \* keys whose object exists
          aged,    \* rows 1..aged are older than the retention period
          job,     \* the retention job: [phase, plan, seen, removable]
          jobs, faults,
          raced,   \* history: rows whose blob went while no job had read them
          leaked   \* history: keys left by a job that died, or a rollback

vars == <<rows, blobs, aged, job, jobs, faults, raced, leaked>>

Ids == DOMAIN rows

(* A row is being put ("absent": the store had no such object when asked;   *)
(* "stored": the object is there), committed ("live"), soft-deleted         *)
(* ("marked") or rolled back ("gone").                                      *)
RowStates == {"absent", "stored", "live", "marked", "gone"}
Row == [group : Groups, key : Keys, boundary : BOOLEAN, state : RowStates]

Committed == {i \in Ids : rows[i].state \in {"live", "marked"}}
Live(S) == {i \in S : rows[i].state = "live"}
KeysOf(S) == {rows[i].key : i \in S}

Resting == [phase |-> "rest", plan |-> {}, seen |-> {}, removable |-> {}]

-----------------------------------------------------------------------------
(* A writer.                                                                *)

(* put: digest the content and ask the store whether it has the object.     *)
Put(k, g, b) ==
  /\ Cardinality(Ids) < MaxRows
  /\ rows' = [i \in 1 .. Cardinality(Ids) + 1 |->
                IF i \in Ids THEN rows[i]
                ELSE [group |-> g, key |-> k, boundary |-> b,
                      state |-> IF k \in blobs THEN "stored" ELSE "absent"]]
  /\ UNCHANGED <<blobs, aged, job, jobs, faults, raced, leaked>>

SetState(i, s) == rows' = [rows EXCEPT ![i].state = s]

(* _write_if_absent, put_stream, _put_object: the object replaces whatever  *)
(* another writer of the same content has put there since.                  *)
WriteBlob(i) ==
  /\ rows[i].state = "absent"
  /\ SetState(i, "stored")
  /\ blobs' = blobs \cup {rows[i].key}
  /\ UNCHANGED <<aged, job, jobs, faults, raced, leaked>>

(* record_artifact_metadata adds the row; the caller's commit shows it.     *)
CommitRow(i) ==
  /\ rows[i].state = "stored"
  /\ SetState(i, "live")
  /\ UNCHANGED <<blobs, aged, job, jobs, faults, raced, leaked>>

(* The write or the caller's transaction fails; the object stays.           *)
AbandonRow(i) ==
  /\ rows[i].state \in {"absent", "stored"} /\ faults < MaxFaults
  /\ SetState(i, "gone")
  /\ leaked' = leaked \cup {rows[i].key}
  /\ faults' = faults + 1
  /\ UNCHANGED <<blobs, aged, job, jobs, raced>>

Write == \E i \in Ids : WriteBlob(i) \/ CommitRow(i)

(* Time passes: the oldest row still within its period leaves it.           *)
Age ==
  /\ aged < Cardinality(Ids)
  /\ aged' = aged + 1
  /\ UNCHANGED <<rows, blobs, job, jobs, faults, raced, leaked>>

-----------------------------------------------------------------------------
(* The retention job.                                                       *)

(* The rows of i's group the planner has counted before it reaches i: the   *)
(* old ones that are not marked yet, boundaries included.                   *)
Before(i, S) ==
  {j \in Live(S) : j < i /\ j <= aged /\ rows[j].group = rows[i].group}

Ordinal_OneBased(i, S) == Cardinality(Before(i, S)) + 1

Ordinal(i, S) == Cardinality(Before(i, S))

(* plan_retention: old rows of a sampled kind, neither marked, nor a        *)
(* boundary, nor the one in KeepEvery that stays.                           *)
plan_retention(S) ==
  {i \in Live(S) : /\ i <= aged /\ rows[i].group \in Sampled
                   /\ ~rows[i].boundary
                   /\ Ordinal(i, S) % KeepEvery # 0}

(* _cli: select the inventory and plan.                                     *)
Inventory ==
  /\ job.phase = "rest" /\ jobs < MaxJobs
  /\ jobs' = jobs + 1
  /\ job' = [Resting EXCEPT !.phase = "planned",
                            !.plan = plan_retention(Committed)]
  /\ UNCHANGED <<rows, blobs, aged, faults, raced, leaked>>

Removable_Ids(S, P) == P \ (Live(S) \ P)
Removable_Sampled(S, P) ==
  KeysOf(P) \ KeysOf({i \in Live(S) \ P : rows[i].group \in Sampled})
Removable_BeforeMarks(S, P) == KeysOf(P) \ KeysOf(Live(S))

(* The keys of the rows about to be marked, less those of the rows that     *)
(* stay live, of whatever kind.                                             *)
Removable(S, P) == KeysOf(P) \ KeysOf(Live(S) \ P)

(* apply_retention selects every row again, and marks the planned ones in   *)
(* its session: the database still shows them live.                         *)
MarkRows ==
  /\ job.phase = "planned"
  /\ job' = [job EXCEPT !.phase = "marked", !.seen = Committed,
                        !.plan = Live(job.plan \cap Committed),
                        !.removable = Removable(Committed,
                                                Live(job.plan \cap Committed))]
  /\ UNCHANGED <<rows, blobs, aged, jobs, faults, raced, leaked>>

CommitMarks ==
  /\ job.phase = "marked"
  /\ rows' = [i \in Ids |-> IF i \in job.plan
                            THEN [rows[i] EXCEPT !.state = "marked"] ELSE rows[i]]
  /\ job' = [job EXCEPT !.phase = "unlinking"]
  /\ UNCHANGED <<blobs, aged, jobs, faults, raced, leaked>>

(* Rows no select of the job has returned that rely on the object.          *)
Unseen(k) ==
  {i \in Ids \ job.seen : rows[i].key = k /\ rows[i].state \in {"stored", "live"}}

(* store.delete, once per removable key.                                    *)
DeleteBlob(k) ==
  /\ job.phase = "unlinking" /\ k \in job.removable
  /\ blobs' = blobs \ {k}
  /\ raced' = raced \cup Unseen(k)
  /\ job' = [job EXCEPT !.removable = @ \ {k}]
  /\ UNCHANGED <<rows, aged, jobs, faults, leaked>>

JobEnds ==
  /\ job.phase = "unlinking" /\ job.removable = {}
  /\ job' = Resting
  /\ UNCHANGED <<rows, blobs, aged, jobs, faults, raced, leaked>>

(* The process dies, or the database or the store raises.  The keys it had  *)
(* still to unlink are remembered nowhere.                                  *)
JobDies ==
  /\ job.phase # "rest" /\ faults < MaxFaults
  /\ faults' = faults + 1
  /\ leaked' = IF job.phase = "unlinking" THEN leaked \cup job.removable
               ELSE leaked
  /\ job' = Resting
  /\ UNCHANGED <<rows, blobs, aged, jobs, raced>>

Job ==
  \/ Inventory \/ MarkRows \/ CommitMarks \/ JobEnds
  \/ \E k \in Keys : DeleteBlob(k)

-----------------------------------------------------------------------------
Init ==
  /\ rows = [i \in {} |-> 0] /\ blobs = {} /\ aged = 0
  /\ job = Resting /\ jobs = 0 /\ faults = 0
  /\ raced = {} /\ leaked = {}

Next ==
  \/ \E k \in Keys, g \in Groups, b \in BOOLEAN : Put(k, g, b)
  \/ Write \/ Age \/ Job \/ JobDies
  \/ \E i \in Ids : AbandonRow(i)

Spec == Init /\ [][Next]_vars

-----------------------------------------------------------------------------
JobType ==
  [phase : {"rest", "planned", "marked", "unlinking"},
   plan : SUBSET (1 .. MaxRows), seen : SUBSET (1 .. MaxRows),
   removable : SUBSET Keys]

(* Every variable has its type; the job never holds a row or a key that     *)
(* does not exist.                                                          *)
TypeOK ==
  /\ Ids = 1 .. Cardinality(Ids) /\ Cardinality(Ids) \in 0 .. MaxRows
  /\ \A i \in Ids : rows[i] \in Row
  /\ blobs \subseteq KeysOf(Ids) /\ aged \in 0 .. Cardinality(Ids)
  /\ job \in JobType /\ job.plan \cup job.seen \subseteq Ids
  /\ job.removable \subseteq KeysOf(Ids)
  /\ jobs \in 0 .. MaxJobs /\ faults \in 0 .. MaxFaults
  /\ raced \subseteq Ids /\ leaked \subseteq KeysOf(Ids)

(* The blob of a committed row is lost only to the one window the job       *)
(* leaves open: its put found or wrote the object, and was not yet          *)
(* committed, when apply_retention read the rows.  No interleaving of       *)
(* dedupe, second jobs, rollbacks and half-done jobs loses any other.       *)
BlobLostOnlyToRace ==
  \A i \in Live(Ids) : rows[i].key \in blobs \/ i \in raced

(* Compaction never loses the start of a run: every row it marked is        *)
(* preceded by a committed row of its group that is still live, whatever    *)
(* commits late and however often the job samples what it left.             *)
OldestKept ==
  \A i \in Ids : rows[i].state = "marked" =>
    \E j \in Live(Ids) : j < i /\ rows[j].group = rows[i].group

(* Storage does not leak by itself: with the job at rest, an object whose   *)
(* rows are all marked is left only by a job that died between its commit   *)
(* and its deletes, or by a put that was rolled back.                       *)
Orphans ==
  {k \in blobs : /\ \E i \in Ids : rows[i].key = k /\ rows[i].state = "marked"
                 /\ \A i \in Ids : rows[i].key = k =>
                      rows[i].state \in {"marked", "gone"}}
OrphanOnlyFromFault == job.phase = "rest" => Orphans \subseteq leaked
=============================================================================
