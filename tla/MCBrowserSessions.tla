------------------------- MODULE MCBrowserSessions -------------------------
(* BrowserSessions for TLC: two runs share a profile, a third has another. *)
EXTENDS BrowserSessions
CONSTANTS r1, r2, r3, p1, p2

MCRuns == {r1, r2, r3}
MCProfiles == {p1, p2}
MCFlaky == {p2}
MCProfileOf == [r \in MCRuns |-> IF r = r3 THEN p2 ELSE p1]
=============================================================================
