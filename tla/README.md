# A TLA+ model of the browser agent controller

The repository is an always-on controller for a browser agent: a FastAPI
service that accepts runs ("do this in the browser"), drives Chrome with a
decision model in a loop (observe, decide, ask for approval, execute), lets
operators pause, cancel, take over, approve or retry a run while it is going,
and records everything in Postgres. This directory holds its verification:
TLA+ modules, TLC configurations, and TLAPS proofs. Paths below are relative to
`src/src/browser_use_agent/`.

    tlc -workers 2 -config RunControl_safety.cfg MCRunControl.tla
    tlc -workers 2 -config BrowserSessions.cfg MCBrowserSessions.tla
    tlapm RunControlProofs.tla

## Inventory

| Component | State it keeps | Operations | Hard part |
| --- | --- | --- | --- |
| Run lifecycle: `runs/status.py`, `services/runs.py`, `services/takeover.py`, `services/approvals.py` | `runs.status`, `human_approvals.status` | pause, resume, cancel, take and release control, approve, reject, retry | each handler reads without a lock and commits later |
| Control hub: `agent/controls.py` | one `RunControlSignals` per run (decision, step retry, wake event), in process | signals_for, discard, set and consume a decision, arm and consume a retry | objects outlive the entry that led to them; decisions outlive their gate |
| Agent loop: `agent/loop.py`, `agent/approvals.py`, `agent/takeover.py` | step counter, decision, approval deadline, research evidence | run, _step, _control_gate, approval wait, research step, guarded execute | long waits between a check and its use |
| Run worker: `agent/worker.py` | task table, semaphore, one long database session per run | start_run, _execute_run, _persist_outcome, recover_runs | identity-map copies of the row, wind-down against restart, process death |
| Browser sessions: `browser/session.py` | holder and attachment per profile, idle timers, whether Compose started Chrome | acquire_for_run, release, idle disconnect, shutdown | timers against acquires, several profiles on one service |
| Audit log: `audit/writer.py`, `audit/hashchain.py`, `audit/signed_checkpoints.py` | events with a sequence number and a hash chain, signed checkpoints | append, maybe_checkpoint, verify | rollback after the append hook, order at the end of a run |
| Event stream: `api/events_bus.py`, `api/ws.py` | subscriber queues | publish, subscribe, replay and live | publication before commit, join of replay and live, queue limit |
| Artifacts: `artifacts/store.py`, `artifacts/retention.py` | content-addressed objects | put, get, delete, retention plan and application | delete against a concurrent put of the same content |
| Checkpoints and screenshots: `audit/checkpoints.py`, `audit/screenshots.py`, `artifacts/state_diff.py` | counters of the policy | decide whether to record, compute a diff | boundaries of the policies |
| Model policy: `policy/*.py` | none | adapt a request, validate an answer, parse research text | chunk offsets, targets limited by a dialog, rules an answer may not satisfy |
| Auth, CSRF, redaction, configuration, telemetry, database schema, web pages, evaluation replay | request-local or none | | no protocol between actors |

How they interact. A route creates the row and calls `start_run`, which starts
one asyncio task per run. The task takes a slot of the global semaphore,
acquires the browser, binds the control signals and runs the loop. Operators
act through other request handlers, which change the row in a session of their
own and, for decisions and step retries, set a field of the signals in memory.
The loop reads the row afresh in its gates, but writes it through the copy its
own session holds. Every component appends to the audit log, whose hook
publishes to the event bus, which feeds the WebSockets. When the loop returns,
the task writes the outcome, forgets the signals and releases the browser.

What makes each component correct:

* lifecycle and loop: a held run is left alone; no action that needs approval
  runs more often than operators approved; a run shown as waiting has a worker
  that waits; every task ends; an operator's decision is not lost or undone;
* step: what is decided, approved or judged is on record; nothing is done to an
  element the model was not shown; every requested action has an outcome, unless
  the run is cut short;
* research: evidence and read chunks are saved together and in order; a stored
  answer agrees with the stored evidence; an answer is possible;
* worker: one task per run, slots and browsers are freed, a run never stays
  live without a task;
* browser: one holder per profile, no disconnect under a running task, no
  attachment left for ever;
* audit and stream: contiguous and chained events, checkpoints that verify,
  each client sees each committed event once and in order, and in the end only
  committed ones;
* artifacts: an object that a live row refers to is not deleted, and none is
  left behind.

The hazards, each at its line, are in `PROJECT.json` under `hazards`.

## Modules

| Module | What it holds |
| --- | --- |
| `RunStatus` | lifecycle values and the predicates of the services |
| `RunPromise` | the abstract promise of a run: the status shown, the page actions since, the approvals not yet used |
| `RunControl` | one run: database rows, request handlers, control hub, worker task, agent loop, process restart; implements `RunPromise` |
| `AgentStep` | the data of a step: observation, decision, approval policy, execution, checkpoints and screenshots |
| `Research` | the EXTRACT and DONE steps: chunked reads, evidence, synthesis, retry |
| `BrowserLease` | the abstract promise: at most one run uses a profile |
| `BrowserSessions` | several runs, the semaphore, `BrowserSessionManager`, Chromium and Compose; implements `BrowserLease` |
| `Ledger` | the abstract promise of an audit trail: linked entries are added at the end, marks stay |
| `AuditLog` | the events of a run: row lock, transactions, hash chain, signed checkpoints, verification; implements `Ledger` |
| `EventStream` | `AuditLog` composed with the event bus, the WebSocket and the page that follows a run |
| `ArtifactRetention` | the content-addressed store, its writers and the retention job |
| `MC...` | each of them for TLC |
| `...Proofs` | the theorems about `RunControl`, `AgentStep`, `Research`, `BrowserSessions`, `AuditLog`, `EventStream` and `ArtifactRetention` |

Each module takes one part of the code as its subject and leaves the others to
their modules. The loop is cut three ways: `RunControl` keeps its interleaving
with operators and abstracts every action to its kind; `AgentStep` keeps what a
step knows and forgets the operators; `Research` keeps both for the research
branch, where the page may change and a human may take over between any two
reads. The worker's task appears in `RunControl` (status and signals), in
`BrowserSessions` (slot and browser) and in `AuditLog` (its transactions).

Three abstract specifications state what a part promises to the others, and the
detailed one is shown to implement it, by TLC on its run and by a theorem for
every value of the constants:

| Abstract | Detailed | Refinement mapping |
| --- | --- | --- |
| `RunPromise` | `RunControl` (`KeepsPromise`) | `status` is the row's, `acts` is `sent`, `credit` is `grants - spent` |
| `BrowserLease` | `BrowserSessions` (`ImplementsLease`) | `users`: the tasks that were handed a session and have neither given it back nor had it stopped |
| `Ledger` | `AuditLog` (`RowsAreLedger`) | `entries` and `marks` are the committed events and checkpoints |

`RunPromise` says what an operator sees of a run: a hold lets one more page action
through at most, an action while an approval is pending none, an action after
success none, an approval pays for one action, and a run that waits for an
approval does not turn into a success without a status in between. `Ledger`
knows nothing of transactions: a rollback is a step in which nothing happens.

### How RunControl corresponds to the code

The granularity is that of the database and of the event loop: every read of
the row, every commit and every change of the signals is a step, and anything
between two of them that other actors cannot see belongs to one of them.

*Handlers.* `Receive` loads the row and applies the check of the service;
`ChangeStatus`, `Decide`, `Requeue` and `ArmStep` commit. A status that the row
no longer has is overwritten, because no service locks the row or makes its
update conditional. (The audit append does take `FOR UPDATE`, but after the
check and without refreshing the object that was checked, so it orders the
commits and does not validate them.) `Decide` commits first and wakes the
worker in a step of its own, `Wake`, as `_decide` does. Requests that change
nothing (409, idempotent answers) are not steps. `StartLoads` and
`StartCommits` are the two halves of `start_run`, which the create and the retry
route call after their commit; its lock admits one caller at a time.

*The hub.* The worker binds the `RunControlSignals` object it finds once, at
the start of its attempt. `own` is that object; `attached` says that the hub's
entry is still the same one; after a `discard` the entry is `other`, created
when first asked for. So a decision set after a discard goes to an object that
the worker does not read, as in the code.

*The worker.* `pc` follows `_execute_run` and `_step`; the synchronous and the
asynchronous variant have the same logic. `cached` is the row in the worker
session's identity map: `session.get` returns it without a query, and the only
statement that refreshes it is the `refresh` in `_persist_outcome`. The gates
select the status column and see the committed value; `set_status` tests and
writes the copy. `_control_gate` is modelled read by read: cancel, takeover
held, the wait for the takeover, the wait for the pause, and cancel again;
`gate.waited` is `waited_for_human`. An action that fails at the guard or in the
port reaches `ActionFailed`, which consumes an armed step retry or fails the
run. The research branch (`extract`, `answer`) has its own gates. Any external
call (browser, model) may raise; the exception reaches `_persist_outcome` with
`failed`.

*Restart.* The process dies at any moment with its tasks, handlers and
signals; `recover_runs` then runs before any request is served. It is one step
because nothing else is running.

*History.* `sent` counts the page actions since the status last changed,
`grants` the committed approvals, and `spent` the gated actions sent.

Abstracted: page contents, model answers (a kind of action), the wake event (a
hint; every wait also polls), timestamps, audit events. The approval deadline
may pass at any moment of the wait. Failures of the database itself are in
`AuditLog` and `Research`, not here.

### How AgentStep corresponds to the code

`at` is the place in `AgentLoop._step`: `Observe` takes an observation and
limits it to the open dialog as `observation_from_browser_state` does;
`Checkpoint` and `Screenshot` are `maybe_checkpoint` and `maybe_screenshot` with
their settings, fingerprints and counters. They are called from four places
(each step, before an approval, after a failure, after a navigation), and `why`
is the `force_reason` of the call; `After` says where the step goes on. `Decide`
is the request to Jev, its answer and the approval policy. `Actions` is the set
of answers `from_jev_response` turns into an action; which of them comes is the
model's choice. The code checks an answer against the observation only: any
candidate's index is a target for any kind of action, and any url is navigated
to. What `to_jev_request` offered is therefore not modelled. `DecideFails` is
what it refuses: a failed call, an unknown operation, a missing answer, an index
that is no candidate. `RequestAction` commits `action_requested` before the
browser is touched; `Executed`, `ExecuteFails` and `ExecuteRaises` are the three
ways the port returns. The approval wait itself is in `RunControl`; here it is
granted or not.

A step may be cut short anywhere: `RecordFails` (no image, no room in the store),
`ExecuteRaises` (the browser is gone) and `Interrupted` (the process dies and
`recover_runs` fails the run, or the next commit fails). `cut` is history and says
that this has happened; `RequestsAnswered` needs it, since nothing gives an
outcome to the request that was open then.

Elements are a set with the attributes that matter (inside a dialog, sensitive
text), urls and titles are one value, the DOM hash is the set of elements.
`stored` and `pictured` are history: the observation last written.

### How Research corresponds to the code

`at` follows `_research_step`, cut at its awaits: the first read, the read of
the next chunk, the read again when the hash differs, the gate, the model call,
the second gate, and the commit. `evidence` and `pages` are the loop's lists,
`saved` is `runs.metadata`. A page is a content in some number of chunks;
`ChunksOf` counts them, and `NextChunk` is the `max(offset + 10_000)` over the
chunks read of this url and content that have text remaining. `Acceptable` is
the rule set of `parse_synthesis`; which acceptable answer comes is the model's
choice. Excerpts, redaction and confidences are left out, values are compared
after `Norm` (casefolding). A takeover during a model call drops its findings, and
the chunk is sent to the model again; `CollectedOnce` is about what is recorded. `quiet` is history: the page has not changed since
the step began.

### How BrowserSessions corresponds to the code

All of the manager runs on one event loop, so a step reaches from one await to
the next. `lock` and `waiters` are the `asyncio.Lock` with its queue, `slots` the
queue of the semaphore, `holder`, `browsers`, `timer` and `composed` the fields
of the manager. An idle timer that is cancelled while it waits for the lock
leaves the queue (`CancelTimers`, `Without`); it cannot be cancelled while it holds the
lock, because whoever cancels needs it. `Disconnect` stops the attachment and may
stop the Compose service, which cuts off whatever else it serves. `DetachNow`
are the runs whose release detaches at once. Chromium that goes away leaves a
cached attachment `dead`; nobody tells the manager, and `Attach` hands it out.
`CommitHold` is the commit after `acquire_for_run`; if it fails the hold stays.

### How AuditLog and EventStream correspond to the code

`append` takes `FOR UPDATE` on the run, reads the last event and adds one, in the
caller's transaction. `rowLock` is that lock, `view` the rows as its owner sees
them, `db` the committed ones. `seen` is the status in each session's identity
map: the terminal flag of `maybe_checkpoint` is computed from it. `worker`
follows the transactions of `_execute_async_run`; requests and the idle timer
have sessions of their own. A hash is the tuple of what it covers, so it is
injective by construction; that is the assumption made of SHA-256, and a
checkpoint is the pair it signs; a signing key is taken to be configured. `late`
is history: the events recorded by a session that took the run to be going on
when it had ended, or when the loop had committed its last event.

`denied` is a rejection in the hub that no gate has consumed. `LoopDenied`
consumes it and ends the run as failed without an event, because the request that
rejected has recorded `approval_denied`. Nothing ties the two together: an approve
and a reject that both passed the check leave a rejection for the next gate, which
then ends the run with an unsigned head. `unsaid` is history: the last events
before such an end.

`EventStream` extends `AuditLog`: each of its steps that appends also publishes
(`Hears`), before the commit. The bus has one queue per connection without a
limit. A connection subscribes, reads the replay in one query and sends it, then
relays; it may break anywhere. The page merges what it gets into a window and
polls. `updateEvents` skips a number that the page holds, as `addEvent` does. A
message carries a number, and a rolled-back event has the number of another one:
`voided` (the places of rolled-back events in the queue) and `ghosts` (the numbers
on the page that stand for rolled-back events) are the history that tells them
apart. `Poll` reloads the page when the status has changed, which closes its
connection and drops the ghosts; the reloads for a changed result or changed
evidence are left out.

### How ArtifactRetention corresponds to the code

`Put` asks the store for the object and `WriteBlob` writes it if it was absent;
`CommitRow` and `AbandonRow` are the caller's transaction. The job is
`_cli`: select and plan, then `apply_retention`: select again, mark, commit, and
delete one object at a time. It may die anywhere, and a second job may run later.
The order of `created_at` is the order of puts, and `Age` moves rows past their
period. `raced` and `leaked` are history.

## Runs

`CHECK_DEADLOCK` is off in every run, because the system may stop: a run that has
ended with no requests left has nothing to do, and the counters bound the rest.

Runs that pass:

| Run | Shows | Bounds |
| --- | --- | --- |
| `safety` | a held run is left alone, a shown request has a waiter, gated actions are paid for, `RunPromise` is implemented | two handlers, every operation and restarts, every kind of action, 2 steps, 4 requests or restarts |
| `liveness` | `UnheldTaskEnds`: a task ends unless the run is paused or a human holds it | two handlers, every operation and restarts, gated and research actions, 2 steps, 3 requests |
| `settles` | `RunSettles`: with operators that only end the run or arm a retry, no task is left and the status is terminal | two handlers, 2 steps, 3 requests |
| `sessions` | `ImplementsLease`, `StoppedOnlyByShutdown`, `NobodyForgotten` (queues and lock), `EveryTaskEnds`, `AttachmentSettles` | three runs (two share a profile), two slots, 4 starts, Compose serving one profile, the other one's Chromium flaky, failing attaches and commits, a shutdown |
| `audit` | the chain, its checkpoints, that committed rows only grow (`RowsAreLedger`), and when an ended run may fail to verify | worker, idle timer and two requests, 5 events, interval 3, 2 rollbacks or restarts |
| `stream` | order, what a connection may miss, that the page shows each committed event itself or is full or blocked by a rolled-back one (`PageCatchesUp`), and that it ends with committed events only (`StoppedPageIsTrue`, `PageEndsTrue`) | 4 events, replay of 2, window of 2, 1 rollback or restart, any number of reconnects |
| `retention` | which objects are lost or left | 3 artifacts of 2 contents in a sampled and an unsampled group, 2 jobs, 1 fault, every second kept |
| `research` | evidence, chunks and answers, and when an answer is possible | two urls, contents of three and of one chunk, one field, three values and a second wording, two citations per answer, 4 steps, 1 page change, 1 retry, 1 fault |
| `step` | records, view and request of a step | four elements, three heads, intervals 3 and 2, ratio 1/2, 5 steps |

Why the bounds are enough. `RunControl`: two handlers are enough for the races
of a read and a commit between two operators, with the worker as the third
party; two steps let a leftover of the first (a decision, an armed retry, a stale
read) meet the second; four requests let a takeover be released, or a run fail
and be retried, and one more operator interfere. `sessions`: two runs contend
for a profile while a third holds the other, and a fourth start comes back after
a hold was lost. `audit`: five events reach the interval and the end of a run
with a late event after it, or a rejection that is left over for a second gate,
and two faults roll back one writer between two others. `stream`: more events than
replay or window hold, together with one that is rolled back and another that
takes its number. `retention`: the third artifact shares the content of one
that is being deleted, and the second job samples what the first one left.
`research`: four steps read the long page to its end and once more, or two
chunks, an answer and a step between; three values are one more than an answer may
cite; the page change, the retry and the fault fall anywhere. `step`: five steps pass both intervals after a record that was
forced. `safety` and `retention` use symmetry (of handlers, of contents); they
check invariants, and `safety` the steps of `RunPromise`, whose variables do not
depend on which handler is which.

Runs that TLC refutes, each a statement of the documentation or of a comment
that the code does not keep:

| Run | Property | What happens |
| --- | --- | --- |
| `terminal_changed` | `TerminalRunUnchanged` | `start_run` overwrites a cancel committed after its read (and a handler that read a live status can overwrite `succeeded` the same way) |
| `ungranted` | `ExecutesOnlyGranted` | the second of two approvals of one request is consumed by the next gate |
| `stream_gap` | `StreamHasNoGap` | an event published before the subscription and committed after the replay was read is never sent |

### Other disagreements

Met while modelling; the modules contain the behaviour, and no run is kept for it.

* `set_status` (`agent/worker.py:442`) tests the identity map's copy, so a cancel
  or takeover of another session is overwritten; `agent/worker.py:690` says "Do
  not clobber an operator cancel that raced the gate."
* `_persist_async_outcome` (`agent/worker.py:588`) refreshes and writes without a
  lock: a cancel in between is overwritten.
* `_decide` (`services/approvals.py:116`) may commit `granted` over the `denied` of
  the timeout.
* A takeover and release around the approval gate leave a waiting run shown as
  running (`services/takeover.py:53`).
* A takeover the gate does not see at its first check is released into the stale
  decision (`agent/loop.py:1340`; docs/takeover.md:25 promises a fresh observe).
* A takeover just before the guard fails the run it took (`agent/loop.py:790`).
* `start_run` hands a retried run its old task, which ends; the queued run is
  never started (`agent/worker.py:249`).
* `browser_stopped` is appended after the terminal checkpoint was signed, and
  requests sign by a stale copy of the status: an ended run need not verify
  (db/README.md:24-26). A rejection left over from an approve and a reject that
  both passed the check ends the run with no final event at all
  (`agent/loop.py:570`). `UnsealedOnlyWhenLate` says that there is no other way.
* An event that was published and rolled back stays on the page, and hides the
  committed event that takes its number until the page is reloaded
  (`web/static/run.js:58`).
* A missing `type_target` falls back to `click_target` although fields were offered,
  and any candidate index and any url is accepted as an answer, not only what the
  request offered (`policy/jev_adapter.py:309-324`, `:640`).
* More distinct values of one field than an answer may cite (60) leave no answer
  that `parse_synthesis` accepts: every DONE is rejected
  (`policy/research.py:80`, `:181`).
* A put that found its object present may lose it to the job before it commits
  (`artifacts/retention.py:207`; docs/artifacts.md:88-90). `BlobLostOnlyToRace`
  says exactly when.
* docs/ws-events.md:51 promises "recent history" for `after_seq=0`; the query
  orders ascending, so the oldest `replay_limit` events are sent.

### Fairness

`RunControl`: `WF(Worker)`, because the event loop resumes a task whose awaited
call returned, calls to the browser and the models have timeouts, and the
approval wait has a deadline; `WF(Handler(c))`, because an accepted request runs
to its end. Nothing is assumed of operators (`Receive`) or of `Restart`. In a
gate, a worker that polls is enabled all the time, so weak fairness is enough.

`BrowserSessions`: `WF` of each task's admission and of its own steps, of each
idle timer and of the shutdown. Both locks are first come, first served in the
model as in asyncio, so weak fairness is enough. Starts, operators, faults and
Chromium are not scheduled; `EveryTaskEnds` assumes that operators let go of the
runs in the end.

`EventStream`: `WF(Poll)`: the page's timer fires again whatever the request gave.
`PageEndsTrue` is about a run that has ended for good; that it ends is not assumed.
Nothing is assumed of the socket. `Research`: `WF(Loop)`, for the same reasons as
the worker's.

## Proofs

Seven modules of proofs, for every value of the constants, from the named
assumptions of the modules alone. Each follows the same line: an invariant that
is inductive, `Init => Inv`, `Inv /\ [Next]_vars => Inv'` with a step per action,
and the properties as consequences.

`RunControlProofs`:

* `TypeCorrect`: `Spec => []TypeOK`. `TypeOK` bounds `step` by `MaxSteps`. It is
  not inductive alone: a worker may pass the gate between two steps, which
  starts a step, only because a step is left. `StepBudget` adds that, and that
  a task that has not entered its loop has spent none. The worker's actions are
  proved in two halves, control (`pc`, `gate`, `step`, `action`, `outcome`) and
  data, since each action disturbs few conjuncts of each.
* `ApprovalWaited`: `Spec => []ApprovalHasWaiter`. The strengthening
  `AwaitingInv` adds that the worker's copy of the row also says
  `awaiting_approval`. Otherwise `set_status` would leave the status as it is
  because its copy already has the new value, and the worker would walk away
  from a run still shown as waiting.
* `HeldLeftAlone`: `Spec => []HeldRunIsLeftAlone`. `HeldInv` says where a worker
  can be that acted while the run was held: winding down, or at the gate that
  opens the next step before the read that finds the run held. For each status
  the reads that come before are listed (`Unread`); a status change resets
  `sent`.
* `ActionsPaidFor`: `Spec => []SpentWithinGrants`. A committed approval is in
  one place until it is spent or lost: a handler that has yet to wake the
  worker, one of the two signal objects, or the worker with the cleared action.
  `GrantsInv` counts these together with `spent` and bounds them by `grants`.
* `PromiseKept`: `Spec => KeepsPromise`. The four invariants above give what
  `Acts` and `Approves` need. `Turns` needs one more, `SuccessInv`: a task whose
  run is `succeeded` has left its loop, and a task that refreshes or persists the
  row of a run that awaits approval has another outcome than success. Handlers
  and worker are proved apart (`PromiseHandler`, `PromiseWorker`).

`BrowserSessionsProofs`: `LeaseInv` ties the places of the tasks to the fields of
the manager: whoever is between `acquire_for_run` and `release` is the holder of
its profile or was stopped by the shutdown; an owner of the lock is where its
place says; a timer that detaches has the lock, and its profile no holder.
`LeaseImplemented` then maps every step to `Take`, `Give` or a stutter of
`BrowserLease`, and `SessionsKept` follows from the invariant. `NobodyIsForgotten`
and `SessionsTyped` add the queues: whoever waits is in its queue once and nobody
else is, and the owner of the lock is in a section that gives it back. Every step
appends to a queue, takes its head, or takes its head and what was cancelled
(`JoinProperties`, `LeaveProperties`, `WithoutProperties`). `Without` is a
recursive function; what it computes is proved by induction in the form of a
smallest counterexample (`LeastNat`, from `WFMin` of the library), first that the
recursion defines a function (`FilterExists`), then what its values are.

`AuditLogProofs`: `AuditInv` says of both the committed rows and the owner's view
that they are chained and signed, that the view equals the committed rows when
nobody owns the row, and that the last event of a run that has ended, or whose
loop is about to, is signed, `late` or `unsaid`. A rollback returns to rows that were sound already. It gives
`ChainHolds`, `FinalEventsHold` and `UnsealedHolds`. `AuditTyped` needs the same
invariant: only rows that are records can have their status replaced.
`LedgerKept` adds `ViewExtends`: the owner's view has the committed rows as its
first ones, whatever was rolled back, so that a commit extends them
(`GrownExtends`, `ExtendsTwice`) and what it adds is linked and marked.

`EventStreamProofs`: `StreamImplementsAudit` shows that the bus, the socket and the
page leave the log as its writers leave it, so that `AuditInv` holds here too.
`StreamInv` says what the queue owes the connection: below each message every
number that the bus has to bring (`Base`: those not yet committed before the
replay, those above `last_seq` after it) is queued earlier or may be missed, and
so is every number that is recorded, over the whole queue. A rollback leaves stale
and repeated numbers in the queue, so that the queue is not sorted and the
invariant cannot say that it is. `LengthsStep` reduces all the writers' steps to
what they do to the two lengths of the log. It gives `SentInOrderHolds` and
`MissedHolds`; `StreamTyped` uses `AuditTyped`. `StoppedPageHolds` rests on an
invariant of its own: a page that has stopped has no connection left, so that no
message, whatever was rolled back, reaches it, and the log only grows under it
(`LogGrows`).

`ArtifactRetentionProofs`: the invariant says that of the rows the job has read
none that stays live has a key it will unlink (`RemovableUnused`), and that each
row it will mark is preceded by a live one it will not (`PlanKeepsOldest`).
`StartsKept` rests on the lemma that a set of numbers has a least element
(`LeastNumber`): the first of the rows that count has ordinal 0, and
`0 % KeepEvery` is 0.

`AgentStepProofs`: `StepInv` relates the writers' fingerprints to what was stored
(they are equal, since both change together), and says at each place of the step
which records are already taken. `NotDueShows` turns a policy that declines to
write into the closeness that `DecidesOnRecord` states. An open request is tied to
the places between `RequestAction` and its outcome, or to a step that was cut short.

`ResearchProofs`: `ResearchInv` adds to the properties that the chunk in hand, when
it is to be read, is one that follows the chunks already saved, and that the loop's
memory equals what is saved whenever a task exists. `GreatestNumber` gives the
`max` in `NextChunk` its meaning. `AnswersUpToLimit` has two halves. Where the
distinct values may all be cited it builds the answer that passes: the evidence is
finite (every extraction is), so one source can be chosen for each distinct value
(`OneOfEach`), and an answer that cites just these, with a disagreement where there
is more than one, is acceptable (`AnswerExists`). Conversely every acceptable answer
cites each distinct value (`AnswerCitesAll`), so that one value too many is a dead
end.

The three invariants of `RunControlProofs` were checked with TLC as invariants of
the `safety` instance before they were proved; every property that a theorem
states is checked by a run.

Every invariant of the runs that pass is a theorem, and so are the three
refinements and `ExtractAdvances`. Only model-checked: liveness (`UnheldTaskEnds`, `RunSettles`, `EveryTaskEnds`,
`AttachmentSettles`, `PageCatchesUp`, `PageEndsTrue`, `ResearchEnds`), which is out of the
prover's reach, as is `ENABLED`. `NobodyForgotten` is the part of `EveryTaskEnds`
that is a safety property. The modules proved about declare no recursive operator.

## Not modelled, and what comes next

* `security/redaction.py`, `api/auth.py`, `api/csrf.py`: string and token functions
  of one request. `artifacts/state_diff.py` and `zstd.py`: functions on trees and
  a codec.
* `audit/model_calls.py`, `audit/browser_actions.py`, `audit/costs.py`: rows that
  ride in their event's transaction and that nothing reads back.
* The HTTP clients, the commands sent to Chrome and the vault: an answer or an
  exception here. The schema, migrations, pages, telemetry and the offline replay.
* Several controller processes on one database: `start_run`'s lock, the hub and the
  bus are in-process, and the code supports one process.

Next: the merge of EventStream with a second connection, and an abstract feed for
the page that `EventStream` implements.
