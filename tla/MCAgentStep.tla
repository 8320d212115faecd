----------------------------- MODULE MCAgentStep -----------------------------
(* A field, a purchase button, a plain link and a button of a dialog; two  *)
(* heads beside the blank page, one of them a payment page.                *)
EXTENDS AgentStep
=============================================================================
