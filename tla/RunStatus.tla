----------------------------- MODULE RunStatus -----------------------------
(***************************************************************************)
(* The lifecycle values of a run (runs/status.py) and the predicates that  *)
(* the operator services ask of a status before they change it             *)
(* (agent/controls.py, agent/takeover.py).                                 *)
(***************************************************************************)

Statuses == {"queued", "running", "paused", "awaiting_approval",
             "awaiting_human", "succeeded", "failed", "cancelled"}

TERMINAL_STATUSES == {"succeeded", "failed", "cancelled"}

is_pausable(s)         == s = "running"
is_resumable(s)        == s = "paused"
is_cancellable(s)      == s \notin TERMINAL_STATUSES
is_retryable_failed(s) == s = "failed"
is_takeoverable(s)     == s \in {"running", "paused"}
is_releasable(s)       == s = "awaiting_human"
=============================================================================
