----------------------------- MODULE MCAuditLog -----------------------------
(* AuditLog for TLC: two requests beside the worker and the idle timer.    *)
EXTENDS AuditLog
CONSTANTS r1, r2

MCRequests == {r1, r2}
=============================================================================
