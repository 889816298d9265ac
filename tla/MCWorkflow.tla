----------------------------- MODULE MCWorkflow -----------------------------
(* Two mapper tasks, one user text and one result of another tool call. *)
EXTENDS Workflow

UserText    == {<<"user", 1>>}
OtherResult == {<<"tool", 1>>}
=============================================================================
