---------------------------- MODULE MCApprovals ----------------------------
(* Small instances of Approvals: two tool calls of a thread, which ask for    *)
(* the same rule.                                                            *)
EXTENDS Approvals

SameRule == [r \in Requests |-> "x"]
=============================================================================
