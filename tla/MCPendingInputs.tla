-------------------------- MODULE MCPendingInputs --------------------------
(* Three inputs: one runs, one is sent into it, one waits or races them.     *)
EXTENDS PendingInputs
=============================================================================
