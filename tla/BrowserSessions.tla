--------------------------- MODULE BrowserSessions ---------------------------
(***************************************************************************)
(* The tasks of several runs, the worker's semaphore, and the              *)
(* BrowserSessionManager they share: the holder and the attachment of each *)
(* profile, the idle timers, and the Chromium the attachments talk to.     *)
(*                                                                         *)
(* Everything runs on one event loop.  A step ends at an await, or where   *)
(* the manager's asyncio.Lock is taken or given back; the manager's fields *)
(* are only touched by the owner of that lock.                             *)
(*                                                                         *)
(* Without configured profile ids, list_profiles returns the default       *)
(* profile only, and the extra busy test of that mode is the ordinary one. *)
(* Audit events and download paths are left out.                           *)
(***************************************************************************)
EXTENDS Naturals, Sequences, FiniteSets

CONSTANTS
  Runs, Profiles,
  ProfileOf,           \* runs.profile_id
  MaxConcurrentRuns,   \* RunWorkerSettings.max_concurrent_runs
  ComposeControl,      \* BROWSER_COMPOSE_CONTROL
  StopOnIdle,          \* BROWSER_STOP_ON_IDLE
  Served,              \* profiles whose Chromium is the Compose service
  DetachNow,           \* runs released with shutdown_now, all if the TTL is 0
  NoRun,               \* stands for "no holder"
  Flaky,               \* profiles whose Chromium may go away by itself
  Faults,              \* "attach", "commit": what may fail besides
  MaxStarts            \* bound on the tasks started in a behaviour

ASSUME SessionsAssumption ==
  /\ ProfileOf \in [Runs -> Profiles]
  /\ NoRun \notin Runs
  /\ Served \subseteq Profiles /\ Flaky \subseteq Profiles /\ DetachNow \subseteq Runs
  /\ MaxConcurrentRuns \in Nat \ {0} /\ MaxStarts \in Nat
  /\ ComposeControl \in BOOLEAN /\ StopOnIdle \in BOOLEAN
  /\ Faults \subseteq {"attach", "commit"}

VARIABLES
  phase,       \* where the task of each run is
  starts,      \* tasks started so far
  session,     \* what became of the BrowserSession a task was given
  lock,        \* owner of the manager's lock
  waiters,     \* who waits for it, in the order of arrival
  slots,       \* runs that wait for the semaphore, in the order of arrival
  holder,      \* _holder_run_ids (and _run_profiles, its inverse)
  browsers,    \* _browsers: the cached attachment of each profile
  timer,       \* the task in _idle_tasks
  composed,    \* _chrome_started_via_compose
  chrome,      \* profiles whose CDP endpoint answers
  stopping,    \* shutdown() of the application's lifespan
  refused      \* history: profiles an acquire failed on since the last attach

tasks   == <<phase, starts, session, slots>>
manager == <<holder, browsers, timer, composed>>
mutex   == <<lock, waiters>>
vars    == <<tasks, mutex, manager, chrome, stopping, refused>>

-----------------------------------------------------------------------------
(* Types                                                                   *)

Free  == <<"nobody", "">>
ByRun(r)   == <<"run", r>>
ByTimer(p) == <<"timer", p>>
ByShutdown == <<"shutdown", "">>
Parties == {ByRun(r) : r \in Runs} \cup {ByTimer(p) : p \in Profiles}
             \cup {ByShutdown}

Acquiring == {"ensure", "composed", "attach"}
Using     == {"commit", "using", "held", "release"}
Phases    == {"none", "waiting", "acquire", "detach", "closing"}
               \cup Acquiring \cup Using

TypeOK ==
  /\ phase \in [Runs -> Phases]
  /\ starts \in 0..MaxStarts
  /\ session \in [Runs -> {"none", "open", "lost", "stopped"}]
  /\ slots \in Seq(Runs)
  /\ waiters \in Seq(Parties)
  /\ lock \in Parties \cup {Free}
  /\ holder \in [Profiles -> Runs \cup {NoRun}]
  /\ browsers \in [Profiles -> {"none", "live", "dead"}]
  /\ timer \in [Profiles -> {"none", "sleeping", "waiting", "detaching"}]
  /\ composed \in BOOLEAN
  /\ chrome \subseteq Profiles
  /\ stopping \in {"no", "waiting", "detaching", "done"}
  /\ refused \subseteq Profiles

Init ==
  /\ phase = [r \in Runs |-> "none"] /\ starts = 0
  /\ session = [r \in Runs |-> "none"]
  /\ lock = Free /\ waiters = <<>> /\ slots = <<>>
  /\ holder = [p \in Profiles |-> NoRun]
  /\ browsers = [p \in Profiles |-> "none"]
  /\ timer = [p \in Profiles |-> "none"]
  /\ composed = FALSE
  /\ chrome = IF ComposeControl THEN Profiles \ Served ELSE Profiles
  /\ stopping = "no"
  /\ refused = {}

-----------------------------------------------------------------------------
(* Tasks and the semaphore                                                 *)

Goes(r, ph) == phase' = [phase EXCEPT ![r] = ph]

Admitted == {r \in Runs : phase[r] \notin {"none", "waiting"}}

(* asyncio.Lock: first come, first served.                                 *)
Await(x) == waiters' = Append(waiters, x)
Turn(x)  == lock = Free /\ waiters # <<>> /\ Head(waiters) = x
Dequeue  == waiters' = Tail(waiters)

(* start_run; a run that ended may be retried.  One task per run.          *)
Start(r) ==
  /\ phase[r] = "none" /\ starts < MaxStarts
  /\ starts' = starts + 1
  /\ slots' = Append(slots, r)
  /\ Goes(r, "waiting")
  /\ UNCHANGED <<session, mutex, manager, chrome, stopping, refused>>

(* _guarded_run: the global semaphore, in the order of arrival.  The task  *)
(* then asks for the browser.                                              *)
Admit(r) ==
  /\ phase[r] = "waiting" /\ slots # <<>> /\ Head(slots) = r
  /\ Cardinality(Admitted) < MaxConcurrentRuns
  /\ slots' = Tail(slots)
  /\ Goes(r, "acquire") /\ Await(ByRun(r))
  /\ UNCHANGED <<starts, session, lock, manager, chrome, stopping, refused>>

(* The commit after acquire_for_run: only then is browser_held set, so an  *)
(* error here leaves the hold behind.                                      *)
CommitHold(r) ==
  /\ phase[r] = "commit"
  /\ \/ Goes(r, "using")
     \/ "commit" \in Faults /\ Goes(r, "closing")
  /\ UNCHANGED <<starts, session, slots, mutex, manager, chrome, stopping,
                 refused>>

(* The loop of the run, which operators may hold, ends some way or other.  *)
FinishLoop(r) ==
  /\ phase[r] = "using"
  /\ Goes(r, "release") /\ Await(ByRun(r))
  /\ UNCHANGED <<starts, session, slots, lock, manager, chrome, stopping,
                 refused>>

OperatorHolds(r) ==
  /\ \/ phase[r] = "using" /\ Goes(r, "held")
     \/ phase[r] = "held" /\ Goes(r, "using")
  /\ UNCHANGED <<starts, session, slots, mutex, manager, chrome, stopping,
                 refused>>

Close(r) ==
  /\ phase[r] = "closing"
  /\ Goes(r, "none")
  /\ session' = [session EXCEPT ![r] = "none"]
  /\ UNCHANGED <<starts, slots, mutex, manager, chrome, stopping, refused>>

-----------------------------------------------------------------------------
(* Chromium                                                                *)

(* Chromium of the profiles of ps is gone: what was attached to it is cut  *)
(* off, and nobody tells the manager.                                      *)
CutOff(ps, s) ==
  [r \in Runs |-> IF ProfileOf[r] \in ps /\ s[r] = "open" THEN "lost" ELSE s[r]]

Stale(ps, bs) ==
  [p \in Profiles |-> IF p \in ps /\ bs[p] = "live" THEN "dead" ELSE bs[p]]

(* Chromium of a profile goes away, or is restarted by its supervisor.     *)
ChromeChanges(p) ==
  /\ p \in Flaky
  /\ \/ /\ p \in chrome
        /\ chrome' = chrome \ {p}
        /\ session' = CutOff({p}, session)
        /\ browsers' = Stale({p}, browsers)
     \/ /\ p \notin chrome
        /\ chrome' = chrome \cup {p}
        /\ UNCHANGED <<session, browsers>>
  /\ UNCHANGED <<phase, starts, slots, mutex, holder, timer, composed,
                 stopping, refused>>

-----------------------------------------------------------------------------
(* acquire_for_run                                                         *)

(* Mutant of busy: a held profile is handed to whoever asks.                *)
busy_Never(r) == FALSE

busy(r) == holder[ProfileOf[r]] \notin {NoRun, r}

(* A queue that the members of gone have left; the others keep their order. *)
Without(q, gone) ==
  LET kept[n \in 0..Len(q)] ==
        IF n = 0 THEN <<>>
        ELSE IF q[n] \in gone THEN kept[n-1] ELSE Append(kept[n-1], q[n])
  IN  kept[Len(q)]

(* _cancel_idle_timer, by the party at the head of the queue: a timer that  *)
(* waits for the lock leaves the queue, too.                               *)
CancelTimers(ps) == waiters' = Without(Tail(waiters), {ByTimer(p) : p \in ps})

(* Mutant of cancel_idle_timer: the task stays in the table.                *)
cancel_idle_timer_KeepsTask(p) ==
  /\ timer' = [timer EXCEPT ![p] = "cancelled"]
  /\ CancelTimers({p})

(* Mutant of cancel_idle_timer: a timer that waits stays in the queue.      *)
cancel_idle_timer_Queued(p) ==
  /\ timer' = [timer EXCEPT ![p] = "none"]
  /\ Dequeue

cancel_idle_timer(p) ==
  /\ timer' = [timer EXCEPT ![p] = "none"]
  /\ CancelTimers({p})

(* An error on the way: the lock is released, the task aborts.             *)
(* Mutant of AcquireFails: the error leaves the lock taken.                 *)
AcquireFails_KeepsLock(r) ==
  /\ Goes(r, "closing")
  /\ refused' = refused \cup {ProfileOf[r]}
  /\ UNCHANGED lock

AcquireFails(r) ==
  /\ lock' = Free
  /\ Goes(r, "closing")
  /\ refused' = refused \cup {ProfileOf[r]}

Handed(r, s) ==
  /\ lock' = Free
  /\ Goes(r, "commit")
  /\ session' = [session EXCEPT ![r] = IF s = "live" THEN "open" ELSE "lost"]

BusyError(r) ==
  /\ phase[r] = "acquire" /\ Turn(ByRun(r))
  /\ busy(r)
  /\ Dequeue
  /\ Goes(r, "closing")
  /\ UNCHANGED <<starts, session, slots, lock, manager, chrome, stopping,
                 refused>>

(* The run still holds the profile: an earlier task of it left the hold.   *)
AcquireAgain(r) ==
  /\ phase[r] = "acquire" /\ Turn(ByRun(r))
  /\ holder[ProfileOf[r]] = r /\ browsers[ProfileOf[r]] # "none"
  /\ cancel_idle_timer(ProfileOf[r])
  /\ Handed(r, browsers[ProfileOf[r]])
  /\ UNCHANGED <<starts, slots, holder, browsers, composed, chrome, stopping,
                 refused>>

AcquireLocks(r) ==
  /\ phase[r] = "acquire" /\ Turn(ByRun(r))
  /\ ~busy(r)
  /\ ~(holder[ProfileOf[r]] = r /\ browsers[ProfileOf[r]] # "none")
  /\ lock' = ByRun(r)
  /\ cancel_idle_timer(ProfileOf[r])
  /\ Goes(r, "ensure")
  /\ UNCHANGED <<starts, session, slots, holder, browsers, composed, chrome,
                 stopping, refused>>

(* ensure_chrome: wait_for_cdp, then the Compose service, then wait again. *)
ChromeReady(r) ==
  /\ phase[r] \in {"ensure", "composed"}
  /\ ProfileOf[r] \in chrome
  /\ Goes(r, "attach")
  /\ UNCHANGED <<starts, session, slots, mutex, manager, chrome, stopping,
                 refused>>

ComposeUp(r) ==
  /\ phase[r] = "ensure" /\ ComposeControl
  /\ ProfileOf[r] \notin chrome
  /\ composed' = TRUE
  /\ chrome' = chrome \cup Served
  /\ Goes(r, "composed")
  /\ UNCHANGED <<starts, session, slots, mutex, holder, browsers, timer,
                 stopping, refused>>

(* CDP never answers, or docker compose fails.                             *)
ChromeUnavailable(r) ==
  /\ phase[r] \in {"ensure", "composed"}
  /\ ProfileOf[r] \notin chrome
  /\ AcquireFails(r)
  /\ UNCHANGED <<starts, session, slots, waiters, manager, chrome, stopping>>

(* A cached attachment is handed out as it is; a new one may fail, and does *)
(* when Chromium went away since it answered.                              *)
Attach(r) ==
  LET p == ProfileOf[r] IN
  /\ phase[r] = "attach"
  /\ IF browsers[p] # "none"
       THEN UNCHANGED browsers
       ELSE p \in chrome /\ browsers' = [browsers EXCEPT ![p] = "live"]
  /\ holder' = [holder EXCEPT ![p] = r]
  /\ Handed(r, browsers'[p])
  /\ refused' = refused \ {p}
  /\ UNCHANGED <<starts, slots, waiters, timer, composed, chrome, stopping>>

AttachFails(r) ==
  /\ phase[r] = "attach"
  /\ browsers[ProfileOf[r]] = "none"
  /\ "attach" \in Faults \/ ProfileOf[r] \notin chrome
  /\ AcquireFails(r)
  /\ UNCHANGED <<starts, session, slots, waiters, manager, chrome, stopping>>

-----------------------------------------------------------------------------
(* release, the idle timer and shutdown                                    *)

(* BrowserSession.stop: whoever has the session cannot use it any more.    *)
Stop(p) ==
  [r \in Runs |-> IF ProfileOf[r] = p /\ session[r] # "none"
                    THEN "stopped" ELSE session[r]]

(* _disconnect stops the attachment and then, when it may and can, the     *)
(* Compose service, whichever profiles that serves.                        *)
Disconnect(p) ==
  LET left == [browsers EXCEPT ![p] = "none"] IN
  \/ /\ browsers' = left /\ session' = Stop(p)
     /\ UNCHANGED <<chrome, composed>>
  \/ /\ ComposeControl /\ StopOnIdle /\ composed
     /\ browsers' = Stale(Served, left)
     /\ session' = CutOff(Served, Stop(p))
     /\ chrome' = chrome \ Served
     /\ composed' = FALSE

(* release by a run that holds nothing returns at once (after shutdown).   *)
ReleaseNothing(r) ==
  /\ phase[r] = "release" /\ Turn(ByRun(r))
  /\ holder[ProfileOf[r]] # r
  /\ Dequeue
  /\ Goes(r, "closing")
  /\ UNCHANGED <<starts, session, slots, lock, manager, chrome, stopping,
                 refused>>

(* Mutant of Release: no idle timer is armed.                               *)
Release_NoTimer(r) ==
  /\ phase[r] = "release" /\ Turn(ByRun(r)) /\ Dequeue
  /\ holder[ProfileOf[r]] = r
  /\ holder' = [holder EXCEPT ![ProfileOf[r]] = NoRun]
  /\ session' = [session EXCEPT ![r] = "none"]
  /\ Goes(r, "closing")
  /\ UNCHANGED <<starts, slots, lock, browsers, timer, composed, chrome,
                 stopping, refused>>

Release(r) ==
  LET p == ProfileOf[r] IN
  /\ phase[r] = "release" /\ Turn(ByRun(r))
  /\ holder[p] = r
  /\ holder' = [holder EXCEPT ![p] = NoRun]
  /\ session' = [session EXCEPT ![r] = "none"]
  /\ IF r \in DetachNow
       THEN lock' = ByRun(r) /\ Goes(r, "detach") /\ Dequeue
            /\ UNCHANGED timer
       ELSE /\ timer' = [timer EXCEPT ![p] = "sleeping"]
            /\ CancelTimers({p})
            /\ Goes(r, "closing") /\ UNCHANGED lock
  /\ UNCHANGED <<starts, slots, browsers, composed, chrome, stopping,
                 refused>>

DetachReleased(r) ==
  /\ phase[r] = "detach"
  /\ Disconnect(ProfileOf[r])
  /\ lock' = Free
  /\ Goes(r, "closing")
  /\ UNCHANGED <<starts, slots, waiters, holder, timer, stopping, refused>>

TimerElapses(p) ==
  /\ timer[p] = "sleeping"
  /\ timer' = [timer EXCEPT ![p] = "waiting"]
  /\ Await(ByTimer(p))
  /\ UNCHANGED <<tasks, lock, holder, browsers, composed, chrome, stopping,
                 refused>>

(* The timer gets the lock: the profile may be held again by now.          *)
TimerLocks(p) ==
  /\ Turn(ByTimer(p))
  /\ Dequeue
  /\ IF holder[p] # NoRun
       THEN timer' = [timer EXCEPT ![p] = "none"] /\ UNCHANGED lock
       ELSE timer' = [timer EXCEPT ![p] = "detaching"] /\ lock' = ByTimer(p)
  /\ UNCHANGED <<tasks, holder, browsers, composed, chrome, stopping,
                 refused>>

TimerDetaches(p) ==
  /\ timer[p] = "detaching"
  /\ Disconnect(p)
  /\ lock' = Free
  /\ timer' = [timer EXCEPT ![p] = "none"]
  /\ UNCHANGED <<phase, starts, slots, waiters, holder, stopping, refused>>

(* shutdown: the lifespan ends while tasks may be running.                 *)
ShutdownBegins ==
  /\ stopping = "no"
  /\ stopping' = "waiting" /\ Await(ByShutdown)
  /\ UNCHANGED <<tasks, lock, manager, chrome, refused>>

ShutdownLocks ==
  /\ Turn(ByShutdown)
  /\ lock' = ByShutdown /\ stopping' = "detaching"
  /\ timer' = [p \in Profiles |-> "none"] /\ CancelTimers(Profiles)
  /\ UNCHANGED <<tasks, holder, browsers, composed, chrome, refused>>

ShutdownDetaches(p) ==
  /\ stopping = "detaching" /\ browsers[p] # "none"
  /\ Disconnect(p)
  /\ UNCHANGED <<phase, starts, slots, mutex, holder, timer, stopping,
                 refused>>

ShutdownEnds ==
  /\ stopping = "detaching" /\ \A p \in Profiles : browsers[p] = "none"
  /\ holder' = [p \in Profiles |-> NoRun]
  /\ lock' = Free /\ stopping' = "done"
  /\ UNCHANGED <<tasks, waiters, browsers, timer, composed, chrome, refused>>

-----------------------------------------------------------------------------

AcquireStep(r) ==
  \/ BusyError(r) \/ AcquireAgain(r) \/ AcquireLocks(r)
  \/ ChromeReady(r) \/ ComposeUp(r) \/ ChromeUnavailable(r)
  \/ Attach(r) \/ AttachFails(r)

ReleaseStep(r) == ReleaseNothing(r) \/ Release(r) \/ DetachReleased(r)

Task(r) ==
  \/ CommitHold(r) \/ FinishLoop(r) \/ Close(r)
  \/ AcquireStep(r) \/ ReleaseStep(r)

Timer(p) == TimerElapses(p) \/ TimerLocks(p) \/ TimerDetaches(p)

Shutdown == ShutdownLocks \/ ShutdownEnds \/ \E p \in Profiles : ShutdownDetaches(p)

Next ==
  \/ \E r \in Runs : Start(r) \/ Admit(r) \/ Task(r) \/ OperatorHolds(r)
  \/ \E p \in Profiles : Timer(p) \/ ChromeChanges(p)
  \/ ShutdownBegins \/ Shutdown

Spec == Init /\ [][Next]_vars

(* The event loop resumes whoever can go on, and calls to Chromium and to  *)
(* docker end, in an answer or in a timeout.  Starts, operators, faults    *)
(* and the shutdown are not scheduled.                                     *)
Fairness ==
  /\ \A r \in Runs : WF_vars(Admit(r)) /\ WF_vars(Task(r))
  /\ \A p \in Profiles : WF_vars(Timer(p))
  /\ WF_vars(Shutdown)

FairSpec == Spec /\ Fairness

-----------------------------------------------------------------------------
(* Properties                                                              *)

(* A user of a profile is a task that was handed its session and has not   *)
(* given it back or had it stopped.                                        *)
users == [p \in Profiles |->
  {r \in Runs : phase[r] \in Using /\ ProfileOf[r] = p /\ session[r] # "stopped"}]

Lease == INSTANCE BrowserLease WITH users <- users

(* Whatever the timers, failed acquires, lost holds and the shutdown do,   *)
(* the tasks take turns on a profile: nobody is handed a session while     *)
(* another run still uses it (docs/browser-runtime.md, exclusivity).       *)
ImplementsLease == Lease!Spec

(* A run keeps its session until it gives it back: no idle timer, armed by *)
(* whichever release, and no disconnect for another run stops it.  Only    *)
(* the shutdown may.  (The acquire cancels the timer and the timer tests   *)
(* the holder: either alone would do.)                                     *)
StoppedOnlyByShutdown ==
  \A r \in Runs : session[r] = "stopped" => stopping \in {"detaching", "done"}

Among(x, q) == \E i \in 1..Len(q) : q[i] = x
Once(q)     == \A i, j \in 1..Len(q) : q[i] = q[j] => i = j

(* No step loses a waiter or leaves the lock behind: whoever awaits the    *)
(* lock or a slot of the semaphore is in its queue, once, nobody else is,  *)
(* and the owner of the lock is in a section that gives it back, whatever  *)
(* failed, was cancelled or shut down meanwhile.                           *)
NobodyForgotten ==
  /\ Once(waiters) /\ Once(slots)
  /\ \A r \in Runs : Among(r, slots) <=> phase[r] = "waiting"
  /\ \A r \in Runs : Among(ByRun(r), waiters) <=> phase[r] \in {"acquire", "release"}
  /\ \A p \in Profiles : Among(ByTimer(p), waiters) <=> timer[p] = "waiting"
  /\ Among(ByShutdown, waiters) <=> stopping = "waiting"
  /\ \/ lock = Free
     \/ \E r \in Runs : lock = ByRun(r) /\ phase[r] \in Acquiring \cup {"detach"}
     \/ \E p \in Profiles : lock = ByTimer(p) /\ timer[p] = "detaching"
     \/ lock = ByShutdown /\ stopping = "detaching"

(* If operators leave the runs alone in the end, every task that starts    *)
(* ends: it gets its slot of the semaphore and its turns of the manager's  *)
(* lock, whatever fails on the way.                                        *)
EveryTaskEnds ==
  <>[](\A r \in Runs : phase[r] # "held")
    => \A r \in Runs : (phase[r] # "none") ~> (phase[r] = "none")

(* An attachment nobody holds is detached by its idle timer or held again, *)
(* unless an acquire failed on it: that cancelled the timer and armed no   *)
(* other, and the attachment stays until the profile is used again.        *)
AttachmentSettles ==
  \A p \in Profiles :
    (browsers[p] # "none" /\ holder[p] = NoRun)
      ~> (browsers[p] = "none" \/ holder[p] # NoRun \/ p \in refused)
=============================================================================
