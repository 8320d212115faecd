----------------------- MODULE BrowserSessionsProofs -----------------------
(***************************************************************************)
(* The session manager implements the lease and forgets nobody in its      *)
(* queues, for any number of runs, profiles, slots and starts, with or     *)
(* without Compose control, and with every fault of the model.             *)
(***************************************************************************)
EXTENDS BrowserSessions, TLAPS, WellFoundedInduction

LeaseTypes ==
  /\ phase \in [Runs -> Phases]
  /\ session \in [Runs -> {"none", "open", "lost", "stopped"}]
  /\ holder \in [Profiles -> Runs \cup {NoRun}]
  /\ browsers \in [Profiles -> {"none", "live", "dead"}]
  /\ timer \in [Profiles -> {"none", "sleeping", "waiting", "detaching"}]

(* What the owner of the lock relies on: nobody else moves a holder, so    *)
(* the busy test of an acquire and the empty hold of a disconnect stay.    *)
LockOwned ==
  /\ \A r \in Runs :
       /\ phase[r] \in Acquiring => lock = ByRun(r) /\ ~busy(r)
       /\ phase[r] = "detach" => lock = ByRun(r) /\ holder[ProfileOf[r]] = NoRun
  /\ \A p \in Profiles :
       timer[p] = "detaching" => lock = ByTimer(p) /\ holder[p] = NoRun
  /\ stopping = "detaching" => lock = ByShutdown

(* A session that still works, or would if Chromium did, is the attachment *)
(* of a profile held by its run: also when the hold was left behind.       *)
SessionHeld ==
  \A r \in Runs :
    /\ session[r] \in {"open", "lost"} =>
         holder[ProfileOf[r]] = r /\ browsers[ProfileOf[r]] # "none"
    /\ phase[r] \in Using => session[r] # "none"
    /\ phase[r] \notin Using \cup {"closing"} => session[r] = "none"

LeaseInv == LeaseTypes /\ LockOwned /\ SessionHeld /\ StoppedOnlyByShutdown

-----------------------------------------------------------------------------

(* The manager starts with nothing held, nothing attached and no timers.    *)
THEOREM LeaseInvInit == Init => LeaseInv
  BY SessionsAssumption
  DEF Init, LeaseInv, LeaseTypes, LockOwned, SessionHeld, StoppedOnlyByShutdown,
      Phases, Acquiring, Using

(* The parties that wait for the lock are distinct.                        *)
LEMMA OwnersDistinct ==
  /\ \A r \in Runs : ByRun(r) # Free /\ ByRun(r) # ByShutdown
  /\ \A p \in Profiles : ByTimer(p) # Free /\ ByTimer(p) # ByShutdown
  /\ ByShutdown # Free
  /\ \A r, q \in Runs : ByRun(r) = ByRun(q) => r = q
  /\ \A p, q \in Profiles : ByTimer(p) = ByTimer(q) => p = q
  /\ \A r \in Runs, p \in Profiles : ByRun(r) # ByTimer(p)
  BY DEF Free, ByRun, ByTimer, ByShutdown

(* _disconnect stops the sessions of its profile and of no other.          *)
LEMMA DisconnectTypes ==
  ASSUME LeaseTypes, NEW p \in Profiles, Disconnect(p)
  PROVE  /\ session' \in [Runs -> {"none", "open", "lost", "stopped"}]
         /\ browsers' \in [Profiles -> {"none", "live", "dead"}]
         /\ \A r \in Runs :
              /\ (session'[r] = "none") <=> (session[r] = "none")
              /\ (ProfileOf[r] = p /\ session[r] # "none")
                   => session'[r] = "stopped"
              /\ ProfileOf[r] # p
                   => ((session'[r] = "stopped") <=> (session[r] = "stopped"))
         /\ \A q \in Profiles :
              (browsers'[q] = "none") <=> (q = p \/ browsers[q] = "none")
  BY SessionsAssumption DEF LeaseTypes, Disconnect, Stop, CutOff, Stale

(* Every step keeps the invariant: acquire_for_run and release work on the  *)
(* holder of their profile only, and an idle timer detaches none that is    *)
(* held (session.py, under the manager's lock).                             *)
THEOREM LeaseInvStep == LeaseInv /\ [Next]_vars => LeaseInv'
<1> SUFFICES ASSUME LeaseInv, [Next]_vars PROVE LeaseInv'
  OBVIOUS
<1> USE SessionsAssumption, OwnersDistinct
    DEF LeaseInv, LeaseTypes, LockOwned, SessionHeld, StoppedOnlyByShutdown,
        Phases, Acquiring, Using, Goes, busy
<1>1. CASE UNCHANGED vars
  BY <1>1 DEF vars, tasks, mutex, manager
<1>2. ASSUME NEW r \in Runs, Start(r) PROVE LeaseInv'
  BY <1>2 DEF Start, mutex, manager
<1>3. ASSUME NEW r \in Runs, Admit(r) PROVE LeaseInv'
  BY <1>3 DEF Admit, manager
<1>4. ASSUME NEW r \in Runs, CommitHold(r) PROVE LeaseInv'
  <2>1. CASE Goes(r, "using")
    BY <1>4, <2>1 DEF CommitHold, mutex, manager
  <2>2. CASE Goes(r, "closing")
    BY <1>4, <2>2 DEF CommitHold, mutex, manager
  <2>. QED
    BY <1>4, <2>1, <2>2 DEF CommitHold
<1>5. ASSUME NEW r \in Runs, FinishLoop(r) PROVE LeaseInv'
  BY <1>5 DEF FinishLoop, manager
<1>6. ASSUME NEW r \in Runs, OperatorHolds(r) PROVE LeaseInv'
  BY <1>6 DEF OperatorHolds, mutex, manager
<1>7. ASSUME NEW r \in Runs, Close(r) PROVE LeaseInv'
  BY <1>7 DEF Close, mutex, manager
<1>8. ASSUME NEW r \in Runs, BusyError(r) PROVE LeaseInv'
  BY <1>8 DEF BusyError, manager
<1>9. ASSUME NEW r \in Runs, AcquireAgain(r) PROVE LeaseInv'
  BY <1>9 DEF AcquireAgain, cancel_idle_timer, Handed, Turn
<1>10. ASSUME NEW r \in Runs, AcquireLocks(r) PROVE LeaseInv'
  BY <1>10 DEF AcquireLocks, cancel_idle_timer, Turn
<1>11. ASSUME NEW r \in Runs, ChromeReady(r) PROVE LeaseInv'
  BY <1>11 DEF ChromeReady, mutex, manager
<1>12. ASSUME NEW r \in Runs, ComposeUp(r) PROVE LeaseInv'
  BY <1>12 DEF ComposeUp, mutex
<1>13. ASSUME NEW r \in Runs, ChromeUnavailable(r) PROVE LeaseInv'
  BY <1>13 DEF ChromeUnavailable, AcquireFails, manager
<1>14. ASSUME NEW r \in Runs, Attach(r) PROVE LeaseInv'
  BY <1>14 DEF Attach, Handed
<1>15. ASSUME NEW r \in Runs, AttachFails(r) PROVE LeaseInv'
  BY <1>15 DEF AttachFails, AcquireFails, manager
<1>16. ASSUME NEW r \in Runs, ReleaseNothing(r) PROVE LeaseInv'
  BY <1>16 DEF ReleaseNothing, manager
<1>17. ASSUME NEW r \in Runs, Release(r) PROVE LeaseInv'
  BY <1>17 DEF Release, Turn
<1>18. ASSUME NEW r \in Runs, DetachReleased(r) PROVE LeaseInv'
  BY <1>18, DisconnectTypes DEF DetachReleased
<1>19. ASSUME NEW p \in Profiles, TimerElapses(p) PROVE LeaseInv'
  BY <1>19 DEF TimerElapses, tasks
<1>20. ASSUME NEW p \in Profiles, TimerLocks(p) PROVE LeaseInv'
  BY <1>20 DEF TimerLocks, Turn, tasks
<1>21. ASSUME NEW p \in Profiles, TimerDetaches(p) PROVE LeaseInv'
  BY <1>21, DisconnectTypes DEF TimerDetaches
<1>22. ASSUME NEW p \in Profiles, ChromeChanges(p) PROVE LeaseInv'
  BY <1>22 DEF ChromeChanges, CutOff, Stale, mutex
<1>23. CASE ShutdownBegins
  BY <1>23 DEF ShutdownBegins, tasks, manager
<1>24. CASE ShutdownLocks
  BY <1>24 DEF ShutdownLocks, Turn, tasks
<1>25. ASSUME NEW p \in Profiles, ShutdownDetaches(p) PROVE LeaseInv'
  BY <1>25, DisconnectTypes DEF ShutdownDetaches, mutex
<1>26. CASE ShutdownEnds
  BY <1>26 DEF ShutdownEnds, tasks
<1>. QED
  BY <1>1, <1>2, <1>3, <1>4, <1>5, <1>6, <1>7, <1>8, <1>9, <1>10, <1>11, <1>12,
     <1>13, <1>14, <1>15, <1>16, <1>17, <1>18, <1>19, <1>20, <1>21, <1>22,
     <1>23, <1>24, <1>25, <1>26
  DEF Next, Task, AcquireStep, ReleaseStep, Timer, Shutdown

(* A disconnect for whoever, a cancelled timer, a lost hold: StoppedOnlyByShutdown  *)
(* holds in every reachable state.                                         *)
THEOREM SessionsKept == Spec => []StoppedOnlyByShutdown
<1>1. LeaseInv => StoppedOnlyByShutdown
  BY DEF LeaseInv
<1>. QED
  BY <1>1, LeaseInvInit, LeaseInvStep, PTL DEF Spec

-----------------------------------------------------------------------------
(* The refinement: how a step of the sessions moves the users.             *)

IsUser(r) == phase[r] \in Using /\ session[r] # "stopped"

(* Who uses what depends on IsUser alone.                                  *)
LEMMA UsersUnchanged ==
  ASSUME \A r \in Runs : IsUser(r)' <=> IsUser(r)
  PROVE  users' = users
  BY DEF users, IsUser

(* A run that becomes a user of a profile that is not busy takes it.       *)
LEMMA UserTakes ==
  ASSUME NEW r \in Runs, SessionHeld, LeaseTypes,
         ~busy(r), ~IsUser(r), IsUser(r)',
         \A q \in Runs \ {r} : IsUser(q)' <=> IsUser(q)
  PROVE  Lease!Take(r, ProfileOf[r])
<1>1. \A q \in Runs : IsUser(q) => holder[ProfileOf[q]] = q
  BY DEF SessionHeld, LeaseTypes, IsUser
<1>2. users[ProfileOf[r]] = {}
  BY <1>1, SessionsAssumption DEF users, IsUser, busy
<1>3. ASSUME NEW p \in Profiles
      PROVE  users'[p] = IF p = ProfileOf[r] THEN {r} ELSE users[p]
  <2>1. users[p] = {q \in Runs : IsUser(q) /\ ProfileOf[q] = p}
    BY DEF users, IsUser
  <2>2. users'[p] = {q \in Runs : IsUser(q)' /\ ProfileOf[q] = p}
    BY DEF users, IsUser
  <2>3. CASE p = ProfileOf[r]
    <3>1. \A q \in Runs \ {r} : ProfileOf[q] = p => ~IsUser(q)'
      BY <1>2, <2>1, <2>3
    <3> HIDE DEF IsUser
    <3>2. QED
      BY <2>2, <2>3, <3>1
  <2>4. CASE p # ProfileOf[r]
    <3> HIDE DEF IsUser
    <3>1. QED
      BY <2>1, <2>2, <2>4
  <2>5. QED
    BY <2>3, <2>4
<1>4. users' = [users EXCEPT ![ProfileOf[r]] = {r}]
  BY <1>3 DEF users
<1>. QED
  BY <1>2, <1>4 DEF Lease!Take

(* The only user of a profile gives it back when it stops being one.       *)
LEMMA UserGives ==
  ASSUME NEW r \in Runs, SessionHeld, LeaseTypes,
         IsUser(r), ~IsUser(r)',
         \A q \in Runs \ {r} : IsUser(q)' <=> IsUser(q)
  PROVE  Lease!Give(r, ProfileOf[r])
<1>1. \A q \in Runs : IsUser(q) => holder[ProfileOf[q]] = q
  BY DEF SessionHeld, LeaseTypes, IsUser
<1>2. users[ProfileOf[r]] = {r}
  BY <1>1, SessionsAssumption DEF users, IsUser
<1>3. \A p \in Profiles : users'[p] = IF p = ProfileOf[r] THEN {} ELSE users[p]
  <2>1. \A q \in Runs : ProfileOf[q] = ProfileOf[r] => ~IsUser(q)'
    BY <1>1
  <2>. QED
    BY <2>1, SessionsAssumption DEF users, IsUser
<1>4. users' = [users EXCEPT ![ProfileOf[r]] = {}]
  BY <1>3 DEF users
<1>. QED
  BY <1>2, <1>4 DEF Lease!Give

(* A step that at most ends the use of one run.                            *)
LEMMA UserMayGive ==
  ASSUME NEW r \in Runs, SessionHeld, LeaseTypes, IsUser(r)' => IsUser(r),
         \A q \in Runs \ {r} : IsUser(q)' <=> IsUser(q)
  PROVE  Lease!Next \/ users' = users
<1>1. CASE IsUser(r) /\ ~IsUser(r)'
  BY <1>1, UserGives, SessionsAssumption DEF Lease!Next
<1>2. CASE IsUser(r) <=> IsUser(r)'
  BY <1>2, UsersUnchanged
<1>. QED
  BY <1>1, <1>2

(* _disconnect of a profile: its users, if any, are one, its holder.       *)
LEMMA DisconnectGives ==
  ASSUME LeaseInv, NEW p \in Profiles, Disconnect(p), UNCHANGED phase
  PROVE  Lease!Next \/ users' = users
<1>1. \A r \in Runs : ProfileOf[r] # p => (IsUser(r)' <=> IsUser(r))
  BY DisconnectTypes DEF IsUser, LeaseInv
<1>2. \A r \in Runs : ProfileOf[r] = p /\ IsUser(r) => holder[p] = r
  BY DEF LeaseInv, SessionHeld, LeaseTypes, IsUser
<1>3. \A r \in Runs : ProfileOf[r] = p => ~IsUser(r)'
  BY DisconnectTypes DEF IsUser, LeaseInv, SessionHeld
<1>4. CASE \E r \in Runs : ProfileOf[r] = p /\ IsUser(r)
  <2>1. PICK r \in Runs : ProfileOf[r] = p /\ IsUser(r)
    BY <1>4
  <2>2. \A q \in Runs \ {r} : IsUser(q)' <=> IsUser(q)
    BY <2>1, <1>1, <1>2, <1>3
  <2>. QED
    BY <2>1, <2>2, <1>3, UserMayGive DEF LeaseInv
<1>5. CASE \A r \in Runs : ProfileOf[r] = p => ~IsUser(r)
  BY <1>5, <1>1, <1>3, UsersUnchanged
<1>. QED
  BY <1>4, <1>5

(* Every step of the manager takes a profile for a run, gives it back, or   *)
(* changes nothing of who uses what.                                        *)
THEOREM LeaseStep == LeaseInv /\ [Next]_vars => [Lease!Next]_users
<1> SUFFICES ASSUME LeaseInv, [Next]_vars PROVE Lease!Next \/ users' = users
  BY DEF Lease!Next
<1> USE SessionsAssumption DEF LeaseInv, Goes
<1>1. CASE UNCHANGED vars
  BY <1>1 DEF vars, tasks, users
<1>2. ASSUME NEW r \in Runs, Start(r) \/ Admit(r) \/ FinishLoop(r) \/ OperatorHolds(r)
      PROVE  Lease!Next \/ users' = users
  <2>1. \A q \in Runs : IsUser(q)' <=> IsUser(q)
    BY <1>2 DEF Start, Admit, FinishLoop, OperatorHolds, IsUser, Using, LeaseTypes
  <2>. QED
    BY <2>1, UsersUnchanged
<1>3. ASSUME NEW r \in Runs, CommitHold(r) \/ Close(r) \/ ReleaseNothing(r) \/ Release(r)
      PROVE  Lease!Next \/ users' = users
  <2>1. (IsUser(r)' => IsUser(r)) /\ \A q \in Runs \ {r} : IsUser(q)' <=> IsUser(q)
    BY <1>3 DEF CommitHold, Close, ReleaseNothing, Release, IsUser, Using, LeaseTypes
  <2>. QED
    BY <2>1, UserMayGive
<1>4. ASSUME NEW r \in Runs, AcquireAgain(r) \/ Attach(r)
      PROVE  Lease!Next \/ users' = users
  <2>1. /\ ~IsUser(r) /\ IsUser(r)'
        /\ \A q \in Runs \ {r} : IsUser(q)' <=> IsUser(q)
    BY <1>4 DEF AcquireAgain, Attach, Handed, IsUser, Using, LeaseTypes
  <2>2. ~busy(r)
    BY <1>4 DEF AcquireAgain, Attach, LockOwned, Acquiring, busy
  <2>. QED
    BY <2>1, <2>2, UserTakes DEF Lease!Next
<1>5. ASSUME NEW r \in Runs,
             \/ BusyError(r) \/ AcquireLocks(r) \/ ChromeReady(r) \/ ComposeUp(r)
             \/ ChromeUnavailable(r) \/ AttachFails(r)
      PROVE  Lease!Next \/ users' = users
  <2>1. \A q \in Runs : IsUser(q)' <=> IsUser(q)
    BY <1>5 DEF BusyError, AcquireLocks, ChromeReady, ComposeUp,
         ChromeUnavailable, AttachFails, AcquireFails, IsUser, Using, LeaseTypes
  <2>. QED
    BY <2>1, UsersUnchanged
<1>6. ASSUME NEW r \in Runs, DetachReleased(r) PROVE Lease!Next \/ users' = users
  <2>1. \A q \in Runs : ProfileOf[q] = ProfileOf[r] => ~IsUser(q)
    BY <1>6 DEF DetachReleased, IsUser, LockOwned, SessionHeld, LeaseTypes
  <2>2. \A q \in Runs : IsUser(q)' <=> IsUser(q)
    BY <1>6, <2>1, DisconnectTypes
    DEF DetachReleased, IsUser, Using, LeaseTypes, SessionHeld
  <2>. QED
    BY <2>2, UsersUnchanged
<1>7. ASSUME NEW p \in Profiles, TimerElapses(p) \/ TimerLocks(p)
      PROVE  Lease!Next \/ users' = users
  BY <1>7 DEF TimerElapses, TimerLocks, tasks, users
<1>8. ASSUME NEW p \in Profiles, TimerDetaches(p) PROVE Lease!Next \/ users' = users
  BY <1>8, DisconnectGives DEF TimerDetaches
<1>9. ASSUME NEW p \in Profiles, ChromeChanges(p) PROVE Lease!Next \/ users' = users
  <2>1. \A q \in Runs : IsUser(q)' <=> IsUser(q)
    BY <1>9 DEF ChromeChanges, CutOff, IsUser, LeaseTypes
  <2>. QED
    BY <2>1, UsersUnchanged
<1>10. CASE ShutdownBegins \/ ShutdownLocks \/ ShutdownEnds
  BY <1>10 DEF ShutdownBegins, ShutdownLocks, ShutdownEnds, tasks, users
<1>11. ASSUME NEW p \in Profiles, ShutdownDetaches(p) PROVE Lease!Next \/ users' = users
  BY <1>11, DisconnectGives DEF ShutdownDetaches
<1>. QED
  BY <1>1, <1>2, <1>3, <1>4, <1>5, <1>6, <1>7, <1>8, <1>9, <1>10, <1>11
  DEF Next, Task, AcquireStep, ReleaseStep, Timer, Shutdown

(* ImplementsLease: the promise of docs/browser-runtime.md holds whatever  *)
(* the timers, the failures and the shutdown do.                           *)
THEOREM LeaseImplemented == Spec => ImplementsLease
<1>1. Init => Lease!Init
  BY DEF Init, Lease!Init, users, Using
<1>. QED
  BY <1>1, LeaseInvInit, LeaseInvStep, LeaseStep, PTL
  DEF Spec, ImplementsLease, Lease!Spec
-----------------------------------------------------------------------------
(* Queues                                                                  *)

(* A set of numbers has a least one: what induction is done with below,    *)
(* as a smallest counterexample.                                           *)
LEMMA LeastNat ==
  ASSUME NEW T, T \subseteq Nat, T # {}
  PROVE  \E n \in T : \A m \in T : n <= m
<1>1. PICK n \in T : \A m \in T : ~ (<<m, n>> \in OpToRel(<, Nat))
  BY WFMin, NatLessThanWellFounded
<1>2. \A m \in T : ~(m < n)
  BY <1>1 DEF OpToRel
<1>. QED
  BY <1>2


(* f is the function Without defines, up to k.                             *)
Filters(f, q, gone, k) ==
  f = [n \in 0..k |->
         IF n = 0 THEN <<>>
         ELSE IF q[n] \in gone THEN f[n-1] ELSE Append(f[n-1], q[n])]

(* The recursion of Without defines a function.                            *)
LEMMA FilterExists ==
  ASSUME NEW q, NEW gone, NEW k \in Nat
  PROVE  \E f : Filters(f, q, gone, k)
<1> DEFINE T == {n \in Nat : ~ \E f : Filters(f, q, gone, n)}
<1> SUFFICES ASSUME T # {} PROVE FALSE
  OBVIOUS
<1>1. PICK n \in T : \A m \in T : n <= m
  <2> HIDE DEF T
  <2>1. T \subseteq Nat
    BY DEF T
  <2>. QED
    BY <2>1, LeastNat
<1>2. CASE n = 0
  <2>1. Filters([i \in 0..0 |-> <<>>], q, gone, 0)
    BY DEF Filters
  <2>. QED
    BY <1>2, <2>1
<1>3. CASE n # 0
  <2>1. n - 1 \in Nat /\ n - 1 \notin T
    BY <1>1, <1>3
  <2>2. PICK f : Filters(f, q, gone, n - 1)
    BY <2>1
  <2> DEFINE g == [i \in 0..n |->
                    IF i < n THEN f[i]
                    ELSE IF q[n] \in gone THEN f[n-1] ELSE Append(f[n-1], q[n])]
  <2>3. \A i \in 0..n-1 : f[i] = IF i = 0 THEN <<>>
         ELSE IF q[i] \in gone THEN f[i-1] ELSE Append(f[i-1], q[i])
    BY <2>2 DEF Filters
  <2>4. \A i \in 0..n : g[i] = IF i = 0 THEN <<>>
         ELSE IF q[i] \in gone THEN g[i-1] ELSE Append(g[i-1], q[i])
    BY <2>3, <1>3, <1>1
  <2>5. Filters(g, q, gone, n)
    BY <2>4 DEF Filters
  <2>. QED
    BY <2>5
<1>. QED
  BY <1>2, <1>3

(* Without is the last value of that function.                             *)
LEMMA WithoutIsFilter ==
  ASSUME NEW q, Len(q) \in Nat, NEW gone
  PROVE  \E f : Filters(f, q, gone, Len(q)) /\ Without(q, gone) = f[Len(q)]
<1> DEFINE f == CHOOSE f : Filters(f, q, gone, Len(q))
<1>1. Filters(f, q, gone, Len(q))
  BY FilterExists
<1>2. Without(q, gone) = f[Len(q)]
  BY DEF Without, Filters
<1>. QED
  BY <1>1, <1>2

(* What leaves a queue leaves it, and nothing else does (a cancelled task   *)
(* in the waiters of asyncio.Lock).                                        *)
LEMMA WithoutProperties ==
  ASSUME NEW S, NEW q \in Seq(S), NEW gone
  PROVE  /\ Without(q, gone) \in Seq(S)
         /\ \A x : Among(x, Without(q, gone)) <=> Among(x, q) /\ x \notin gone
         /\ Once(q) => Once(Without(q, gone))
<1>1. PICK f : Filters(f, q, gone, Len(q)) /\ Without(q, gone) = f[Len(q)]
  BY WithoutIsFilter
<1>2. /\ f[0] = <<>>
      /\ \A n \in 1..Len(q) :
           f[n] = IF q[n] \in gone THEN f[n-1] ELSE Append(f[n-1], q[n])
  <2>1. Len(q) \in Nat
    OBVIOUS
  <2>2. \A n \in 0..Len(q) : f[n] = IF n = 0 THEN <<>>
          ELSE IF q[n] \in gone THEN f[n-1] ELSE Append(f[n-1], q[n])
    BY <1>1, Zenon DEF Filters
  <2>. QED
    BY <2>1, <2>2
<1> DEFINE Good(n) ==
      /\ f[n] \in Seq(S)
      /\ \A x : Among(x, f[n]) <=> x \notin gone /\ \E i \in 1..n : q[i] = x
      /\ Once(q) => Once(f[n])
    T == {n \in 0..Len(q) : ~Good(n)}
<1>3. Good(0)
  BY <1>2 DEF Among, Once
<1>4. ASSUME NEW n \in 1..Len(q), Good(n - 1) PROVE Good(n)
  <2>1. CASE q[n] \in gone
    <3>1. f[n] = f[n-1]
      BY <1>2, <2>1
    <3>2. \A x : x \notin gone => ((\E i \in 1..n : q[i] = x) <=> \E i \in 1..n-1 : q[i] = x)
      BY <2>1
    <3>. QED
      BY <3>1, <3>2, <1>4
  <2>2. CASE q[n] \notin gone
    <3> DEFINE g == f[n-1]
    <3>1. f[n] = Append(g, q[n])
      BY <1>2, <2>2
    <3>2. g \in Seq(S) /\ q[n] \in S
      BY <1>4
    <3>3. \A x : Among(x, g) <=> x \notin gone /\ \E i \in 1..n-1 : q[i] = x
      BY <1>4
    <3>4. Once(q) => Once(g)
      BY <1>4
    <3> HIDE DEF g
    <3>5. /\ Len(f[n]) = Len(g) + 1 /\ f[n][Len(g) + 1] = q[n]
          /\ \A i \in 1..Len(g) : f[n][i] = g[i]
      BY <3>1, <3>2
    <3>6. \A x : Among(x, f[n]) <=> Among(x, g) \/ x = q[n]
      BY <3>5, <3>2 DEF Among
    <3>7. \A x : (\E i \in 1..n : q[i] = x) <=> (\E i \in 1..n-1 : q[i] = x) \/ x = q[n]
      OBVIOUS
    <3>8. \A x : Among(x, f[n]) <=> x \notin gone /\ \E i \in 1..n : q[i] = x
      BY <3>3, <3>6, <3>7, <2>2
    <3>9. Once(q) => ~Among(q[n], g)
      BY <3>3 DEF Once
    <3>10. Once(q) => Once(f[n])
      BY <3>4, <3>5, <3>9, <3>2 DEF Once, Among
    <3>11. f[n] \in Seq(S)
      BY <3>1, <3>2
    <3>. QED
      BY <3>8, <3>10, <3>11
  <2>. QED
    BY <2>1, <2>2
<1> HIDE DEF Good
<1>5. T = {}
  <2> SUFFICES ASSUME T # {} PROVE FALSE
    OBVIOUS
  <2>1. PICK n \in T : \A m \in T : n <= m
    <3>1. T \subseteq Nat
      OBVIOUS
    <3> HIDE DEF T
    <3>. QED
      BY <3>1, LeastNat
  <2>2. n # 0
    BY <1>3
  <2>3. n - 1 \in 0..Len(q) /\ n - 1 \notin T
    BY <2>1, <2>2
  <2>. QED
    BY <2>1, <2>2, <2>3, <1>4
<1>6. Good(Len(q))
  <2>1. Len(q) \in 0..Len(q)
    OBVIOUS
  <2>. QED
    BY <1>5, <2>1
<1>. QED
  BY <1>1, <1>6 DEF Good, Among

(* Joining a queue, at its end.                                            *)
LEMMA JoinProperties ==
  ASSUME NEW S, NEW q \in Seq(S), NEW x \in S
  PROVE  /\ Append(q, x) \in Seq(S)
         /\ \A y : Among(y, Append(q, x)) <=> Among(y, q) \/ y = x
         /\ Once(q) /\ ~Among(x, q) => Once(Append(q, x))
<1> DEFINE a == Append(q, x)
<1>1. /\ a \in Seq(S) /\ Len(a) = Len(q) + 1 /\ a[Len(q) + 1] = x
      /\ \A i \in 1..Len(q) : a[i] = q[i]
  OBVIOUS
<1> HIDE DEF a
<1>2. \A y : Among(y, a) <=> Among(y, q) \/ y = x
  BY <1>1 DEF Among
<1>3. Once(q) /\ ~Among(x, q) => Once(a)
  BY <1>1 DEF Among, Once
<1>. QED
  BY <1>1, <1>2, <1>3 DEF a

(* Leaving a queue, at its head.                                           *)
LEMMA LeaveProperties ==
  ASSUME NEW S, NEW q \in Seq(S), q # <<>>, Once(q)
  PROVE  /\ Tail(q) \in Seq(S) /\ Once(Tail(q)) /\ Among(Head(q), q)
         /\ \A y : Among(y, Tail(q)) <=> Among(y, q) /\ y # Head(q)
<1> DEFINE t == Tail(q)
<1>1. /\ t \in Seq(S) /\ Len(t) = Len(q) - 1 /\ Len(q) \in Nat \ {0}
      /\ Head(q) = q[1] /\ \A i \in 1..Len(t) : t[i] = q[i + 1]
  OBVIOUS
<1> HIDE DEF t
<1>2. \A y : Among(y, t) => Among(y, q) /\ y # Head(q)
  BY <1>1 DEF Among, Once
<1>3. ASSUME NEW i \in 1..Len(q), q[i] # Head(q) PROVE Among(q[i], t)
  <2>1. i - 1 \in 1..Len(t) /\ t[i - 1] = q[i]
    BY <1>1, <1>3
  <2>. QED
    BY <2>1 DEF Among
<1>4. \A y : Among(y, q) /\ y # Head(q) => Among(y, t)
  BY <1>3 DEF Among
<1>5. Once(t)
  BY <1>1 DEF Once
<1>6. Among(Head(q), q)
  BY <1>1 DEF Among
<1>. QED
  BY <1>1, <1>2, <1>4, <1>5, <1>6 DEF t

-----------------------------------------------------------------------------
(* NobodyForgotten and the rest of the types.                              *)

(* What the queues and the counters range over.                            *)
QueueTypes ==
  /\ starts \in 0..MaxStarts /\ chrome \subseteq Profiles /\ refused \subseteq Profiles
  /\ composed \in BOOLEAN /\ stopping \in {"no", "waiting", "detaching", "done"}
  /\ slots \in Seq(Runs) /\ waiters \in Seq(Parties) /\ lock \in Parties \cup {Free}

SessionsInv == LeaseInv /\ QueueTypes /\ NobodyForgotten

(* The moves of the lock's queue: one party joins, or the first one leaves, *)
(* with timers that are cancelled or without.                              *)
Joins(x)      == \A y : Among(y, waiters)' <=> Among(y, waiters) \/ y = x
Leaves(x, gs) == \A y : Among(y, waiters)' <=> Among(y, waiters) /\ y # x /\ y \notin gs

QueueKept == waiters' \in Seq(Parties) /\ Once(waiters)'

(* Await: a party that is not in the queue joins it.                       *)
LEMMA AwaitJoins ==
  ASSUME waiters \in Seq(Parties), Once(waiters), NEW x \in Parties,
         ~Among(x, waiters), Await(x)
  PROVE  QueueKept /\ Joins(x)
BY JoinProperties DEF Await, QueueKept, Joins

(* Turn and Dequeue: the party whose turn it is leaves the queue.          *)
LEMMA DequeueLeaves ==
  ASSUME waiters \in Seq(Parties), Once(waiters), NEW x, Turn(x), Dequeue
  PROVE  QueueKept /\ Leaves(x, {}) /\ Among(x, waiters)
BY LeaveProperties DEF Turn, Dequeue, QueueKept, Leaves

(* _cancel_idle_timer: so do the timers that are cancelled.                *)
LEMMA CancelLeaves ==
  ASSUME waiters \in Seq(Parties), Once(waiters), NEW x, NEW ps, Turn(x), CancelTimers(ps)
  PROVE  QueueKept /\ Leaves(x, {ByTimer(p) : p \in ps}) /\ Among(x, waiters)
<1> DEFINE t == Tail(waiters)
<1>1. /\ t \in Seq(Parties) /\ Once(t) /\ Among(x, waiters)
      /\ \A y : Among(y, t) <=> Among(y, waiters) /\ y # x
  BY LeaveProperties DEF Turn
<1> HIDE DEF t
<1> DEFINE gone == {ByTimer(p) : p \in ps}
<1>2. waiters' = Without(t, gone)
  BY DEF CancelTimers, t
<1> HIDE DEF gone
<1>3. /\ Without(t, gone) \in Seq(Parties) /\ Once(Without(t, gone))
      /\ \A y : Among(y, Without(t, gone)) <=> Among(y, t) /\ y \notin gone
  BY <1>1, WithoutProperties
<1>4. QueueKept
  BY <1>2, <1>3 DEF QueueKept
<1>5. Leaves(x, gone)
  BY <1>1, <1>2, <1>3 DEF Leaves
<1>. QED
  BY <1>1, <1>4, <1>5 DEF gone

(* Nothing waits and nobody owns the lock at first.                        *)
LEMMA SessionsInvInit == Init => SessionsInv
<1> SUFFICES ASSUME Init PROVE SessionsInv
  OBVIOUS
<1>1. QueueTypes
  <2>1. starts \in 0..MaxStarts /\ chrome \subseteq Profiles /\ refused \subseteq Profiles
    BY SessionsAssumption DEF Init
  <2>2. composed \in BOOLEAN /\ stopping \in {"no", "waiting", "detaching", "done"}
    BY DEF Init
  <2>3. slots \in Seq(Runs) /\ waiters \in Seq(Parties) /\ lock \in Parties \cup {Free}
    BY DEF Init
  <2>. QED
    BY <2>1, <2>2, <2>3 DEF QueueTypes
<1>2. \A x : ~Among(x, <<>>)
  BY DEF Among
<1>3. Once(<<>>)
  BY DEF Once
<1>4. NobodyForgotten
  BY <1>2, <1>3 DEF Init, NobodyForgotten
<1>. QED
  BY <1>1, <1>4, LeaseInvInit DEF SessionsInv

(* The parties are of their types.                                         *)
LEMMA OwnersAreParties ==
  /\ \A r \in Runs : ByRun(r) \in Parties
  /\ \A p \in Profiles : ByTimer(p) \in Parties
  /\ ByShutdown \in Parties
  BY DEF Parties

(* A step that leaves both queues alone.                                   *)
LEMMA SameQueues ==
  ASSUME UNCHANGED <<waiters, slots>>
  PROVE  /\ Once(waiters)' <=> Once(waiters)
         /\ Once(slots)' <=> Once(slots)
         /\ \A x : (Among(x, waiters)' <=> Among(x, waiters)) /\ (Among(x, slots)' <=> Among(x, slots))
  BY DEF Once, Among

(* Every step keeps the queues and the lock in order.                      *)
THEOREM SessionsInvStep == SessionsInv /\ [Next]_vars => SessionsInv'
<1> SUFFICES ASSUME SessionsInv, [Next]_vars
             PROVE  QueueTypes' /\ NobodyForgotten'
  BY LeaseInvStep DEF SessionsInv
<1> USE SessionsAssumption, OwnersDistinct, OwnersAreParties
    DEF SessionsInv, LeaseInv, LeaseTypes, LockOwned, QueueTypes, NobodyForgotten,
        Phases, Acquiring, Using, Goes
<1>1. CASE UNCHANGED vars
  BY <1>1, SameQueues DEF vars, tasks, mutex, manager
<1>2. ASSUME NEW r \in Runs, Start(r) PROVE QueueTypes' /\ NobodyForgotten'
  <2>1. slots' \in Seq(Runs) /\ Once(slots)' /\ \A x : Among(x, slots)' <=> Among(x, slots) \/ x = r
    BY <1>2, JoinProperties DEF Start
  <2>. QED
    BY <1>2, <2>1, SameQueues DEF Start, mutex, manager
<1>3. ASSUME NEW r \in Runs, Admit(r) PROVE QueueTypes' /\ NobodyForgotten'
  <2>1. slots' \in Seq(Runs) /\ Once(slots)' /\ \A x : Among(x, slots)' <=> Among(x, slots) /\ x # r
    BY <1>3, LeaveProperties DEF Admit
  <2>2. QueueKept /\ Joins(ByRun(r))
    BY <1>3, AwaitJoins DEF Admit
  <2>. QED
    BY <1>3, <2>1, <2>2 DEF Admit, manager, QueueKept, Joins
<1>4. ASSUME NEW r \in Runs, CommitHold(r) PROVE QueueTypes' /\ NobodyForgotten'
  BY <1>4, SameQueues DEF CommitHold, mutex, manager
<1>5. ASSUME NEW r \in Runs, FinishLoop(r) PROVE QueueTypes' /\ NobodyForgotten'
  <2>1. QueueKept /\ Joins(ByRun(r))
    BY <1>5, AwaitJoins DEF FinishLoop
  <2>. QED
    BY <1>5, <2>1, SameQueues DEF FinishLoop, manager, QueueKept, Joins
<1>6. ASSUME NEW r \in Runs, OperatorHolds(r) PROVE QueueTypes' /\ NobodyForgotten'
  BY <1>6, SameQueues DEF OperatorHolds, mutex, manager
<1>7. ASSUME NEW r \in Runs, Close(r) PROVE QueueTypes' /\ NobodyForgotten'
  BY <1>7, SameQueues DEF Close, mutex, manager
<1>8. ASSUME NEW r \in Runs, BusyError(r) PROVE QueueTypes' /\ NobodyForgotten'
  <2>1. QueueKept /\ Leaves(ByRun(r), {})
    BY <1>8, DequeueLeaves DEF BusyError
  <2>. QED
    BY <1>8, <2>1, SameQueues DEF BusyError, manager, QueueKept, Leaves
<1>9. ASSUME NEW r \in Runs, AcquireAgain(r) PROVE QueueTypes' /\ NobodyForgotten'
  <2>1. QueueKept /\ Leaves(ByRun(r), {ByTimer(p) : p \in {ProfileOf[r]}})
    BY <1>9, CancelLeaves DEF AcquireAgain, cancel_idle_timer
  <2>. QED
    BY <1>9, <2>1, SameQueues DEF AcquireAgain, cancel_idle_timer, Handed, Turn, QueueKept, Leaves
<1>10. ASSUME NEW r \in Runs, AcquireLocks(r) PROVE QueueTypes' /\ NobodyForgotten'
  <2>1. QueueKept /\ Leaves(ByRun(r), {ByTimer(p) : p \in {ProfileOf[r]}})
    BY <1>10, CancelLeaves DEF AcquireLocks, cancel_idle_timer
  <2>. QED
    BY <1>10, <2>1, SameQueues DEF AcquireLocks, cancel_idle_timer, Turn, QueueKept, Leaves
<1>11. ASSUME NEW r \in Runs, ChromeReady(r) PROVE QueueTypes' /\ NobodyForgotten'
  BY <1>11, SameQueues DEF ChromeReady, mutex, manager
<1>12. ASSUME NEW r \in Runs, ComposeUp(r) PROVE QueueTypes' /\ NobodyForgotten'
  BY <1>12, SameQueues DEF ComposeUp, mutex
<1>13. ASSUME NEW r \in Runs, ChromeUnavailable(r) PROVE QueueTypes' /\ NobodyForgotten'
  BY <1>13, SameQueues DEF ChromeUnavailable, AcquireFails, manager
<1>14. ASSUME NEW r \in Runs, Attach(r) PROVE QueueTypes' /\ NobodyForgotten'
  BY <1>14, SameQueues DEF Attach, Handed
<1>15. ASSUME NEW r \in Runs, AttachFails(r) PROVE QueueTypes' /\ NobodyForgotten'
  BY <1>15, SameQueues DEF AttachFails, AcquireFails, manager
<1>16. ASSUME NEW r \in Runs, ReleaseNothing(r) PROVE QueueTypes' /\ NobodyForgotten'
  <2>1. QueueKept /\ Leaves(ByRun(r), {})
    BY <1>16, DequeueLeaves DEF ReleaseNothing
  <2>. QED
    BY <1>16, <2>1, SameQueues DEF ReleaseNothing, manager, QueueKept, Leaves
<1>17. ASSUME NEW r \in Runs, Release(r) PROVE QueueTypes' /\ NobodyForgotten'
  <2> DEFINE p == ProfileOf[r]
  <2>1. /\ phase[r] = "release" /\ lock = Free /\ Turn(ByRun(r))
        /\ UNCHANGED <<starts, slots, composed, chrome, stopping, refused>>
    BY <1>17 DEF Release, Turn
  <2>2. CASE r \in DetachNow
    <3>1. lock' = ByRun(r) /\ Goes(r, "detach") /\ Dequeue /\ UNCHANGED timer
      BY <1>17, <2>2 DEF Release
    <3>2. QueueKept /\ Leaves(ByRun(r), {})
      BY <2>1, <3>1, DequeueLeaves
    <3>. QED
      BY <2>1, <3>1, <3>2, SameQueues DEF QueueKept, Leaves
  <2>3. CASE r \notin DetachNow
    <3>1. timer' = [timer EXCEPT ![p] = "sleeping"] /\ CancelTimers({p})
          /\ Goes(r, "closing") /\ UNCHANGED lock
      BY <1>17, <2>3 DEF Release
    <3>2. QueueKept /\ Leaves(ByRun(r), {ByTimer(q) : q \in {p}})
      BY <2>1, <3>1, CancelLeaves
    <3>. QED
      BY <2>1, <3>1, <3>2, SameQueues DEF QueueKept, Leaves
  <2>. QED
    BY <2>2, <2>3
<1>18. ASSUME NEW r \in Runs, DetachReleased(r) PROVE QueueTypes' /\ NobodyForgotten'
  <2>1. chrome' \subseteq Profiles /\ composed' \in BOOLEAN
    BY <1>18 DEF DetachReleased, Disconnect
  <2>. QED
    BY <1>18, <2>1, SameQueues DEF DetachReleased
<1>19. ASSUME NEW p \in Profiles, TimerElapses(p) PROVE QueueTypes' /\ NobodyForgotten'
  <2>1. QueueKept /\ Joins(ByTimer(p))
    BY <1>19, AwaitJoins DEF TimerElapses
  <2>. QED
    BY <1>19, <2>1, SameQueues DEF TimerElapses, tasks, QueueKept, Joins
<1>20. ASSUME NEW p \in Profiles, TimerLocks(p) PROVE QueueTypes' /\ NobodyForgotten'
  <2>1. QueueKept /\ Leaves(ByTimer(p), {})
    BY <1>20, DequeueLeaves DEF TimerLocks
  <2>. QED
    BY <1>20, <2>1, SameQueues DEF TimerLocks, Turn, tasks, QueueKept, Leaves
<1>21. ASSUME NEW p \in Profiles, TimerDetaches(p) PROVE QueueTypes' /\ NobodyForgotten'
  <2>1. chrome' \subseteq Profiles /\ composed' \in BOOLEAN
    BY <1>21 DEF TimerDetaches, Disconnect
  <2>. QED
    BY <1>21, <2>1, SameQueues DEF TimerDetaches
<1>22. ASSUME NEW p \in Profiles, ChromeChanges(p) PROVE QueueTypes' /\ NobodyForgotten'
  BY <1>22, SameQueues DEF ChromeChanges, mutex
<1>23. CASE ShutdownBegins
  <2>1. QueueKept /\ Joins(ByShutdown)
    BY <1>23, AwaitJoins DEF ShutdownBegins
  <2>. QED
    BY <1>23, <2>1, SameQueues DEF ShutdownBegins, tasks, manager, QueueKept, Joins
<1>24. CASE ShutdownLocks
  <2>1. QueueKept /\ Leaves(ByShutdown, {ByTimer(p) : p \in Profiles})
    BY <1>24, CancelLeaves DEF ShutdownLocks
  <2>. QED
    BY <1>24, <2>1, SameQueues DEF ShutdownLocks, Turn, tasks, QueueKept, Leaves
<1>25. ASSUME NEW p \in Profiles, ShutdownDetaches(p) PROVE QueueTypes' /\ NobodyForgotten'
  BY <1>25, SameQueues DEF ShutdownDetaches, Disconnect, mutex
<1>26. CASE ShutdownEnds
  BY <1>26, SameQueues DEF ShutdownEnds, tasks
<1>. QED
  BY <1>1, <1>2, <1>3, <1>4, <1>5, <1>6, <1>7, <1>8, <1>9, <1>10, <1>11,
     <1>12, <1>13, <1>14, <1>15, <1>16, <1>17, <1>18, <1>19, <1>20, <1>21,
     <1>22, <1>23, <1>24, <1>25, <1>26
  DEF Next, Task, AcquireStep, ReleaseStep, Timer, Shutdown

(* TypeOK: every field of the manager, the queues and the tasks keeps its  *)
(* type, and no more than MaxStarts tasks are started.                     *)
THEOREM SessionsTyped == Spec => []TypeOK
<1>1. SessionsInv => TypeOK
  BY DEF SessionsInv, LeaseInv, LeaseTypes, QueueTypes, TypeOK
<1>. QED
  BY <1>1, SessionsInvInit, SessionsInvStep, PTL DEF Spec

(* NobodyForgotten: what asyncio.Lock and the semaphore promise survives   *)
(* timers that are cancelled while they wait, failures under the lock and  *)
(* the shutdown; no task is ever parked for good by a step that forgot it. *)
THEOREM NobodyIsForgotten == Spec => []NobodyForgotten
<1>1. SessionsInv => NobodyForgotten
  BY DEF SessionsInv
<1>. QED
  BY <1>1, SessionsInvInit, SessionsInvStep, PTL DEF Spec
=============================================================================
