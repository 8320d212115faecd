---------------------------- MODULE BrowserLease ----------------------------
(***************************************************************************)
(* What BrowserSessionManager promises (docs/browser-runtime.md,           *)
(* "Per-profile exclusivity"): at most one run uses the browser of a       *)
(* profile, and runs with different profiles do not wait for each other.   *)
(***************************************************************************)
EXTENDS Naturals

CONSTANTS Runs, Profiles

VARIABLE users    \* the runs that use the browser of each profile

Init == users = [p \in Profiles |-> {}]

Take(r, p) ==
  /\ users[p] = {}
  /\ users' = [users EXCEPT ![p] = {r}]

Give(r, p) ==
  /\ users[p] = {r}
  /\ users' = [users EXCEPT ![p] = {}]

Next == \E r \in Runs, p \in Profiles : Take(r, p) \/ Give(r, p)

Spec == Init /\ [][Next]_users
=============================================================================
