----------------------------- MODULE RunLedger -----------------------------
(***************************************************************************)
(* What the run history of the scheduler promises, whoever writes it.      *)
(*                                                                         *)
(* A run is a row of runs/<task>.jsonl seen through Store.list_runs: the    *)
(* last snapshot appended for a run_id.  The promise of the package is the  *)
(* docstring of Store.finish_run_if_running: a run has one logical terminal *)
(* state, the first one written, and whoever waited for the run is given    *)
(* that state.                                                             *)
(***************************************************************************)
CONSTANT Runs        \* run ids

VARIABLES rows,      \* run -> "absent", "running" or its terminal status
          results    \* run -> status handed to the waiters, "none" before
vars == <<rows, results>>

\* The terminal values of scheduler.domain.RunStatus.
Terminal == {"completed", "silent", "failed", "inactivity_timeout",
             "abandoned", "cancelled"}
Status  == {"absent", "running"} \cup Terminal
Open(r) == rows[r] \notin Terminal

Init == /\ rows = [r \in Runs |-> "absent"]
        /\ results = [r \in Runs |-> "none"]

\* The RUNNING snapshot of a run: always its first row.
Begin(r) == /\ rows[r] = "absent"
            /\ rows' = [rows EXCEPT ![r] = "running"]
            /\ UNCHANGED results

\* A terminal snapshot closes an open run (from "absent": a skipped run).
Conclude(r, s) == /\ Open(r)
                  /\ rows' = [rows EXCEPT ![r] = s]
                  /\ UNCHANGED results

\* The waiters are given the durable terminal status, once.
Publish(r) == /\ ~Open(r) /\ results[r] = "none"
              /\ results' = [results EXCEPT ![r] = rows[r]]
              /\ UNCHANGED rows

\* A run that ends without having run is closed and published in one step.
ConcludeAndPublish(r, s) ==
  /\ Open(r) /\ results[r] = "none"
  /\ rows' = [rows EXCEPT ![r] = s]
  /\ results' = [results EXCEPT ![r] = s]

\* Start-up recovery closes every run a dead process left open.
Abandon(S, s) == /\ \A r \in S : rows[r] = "running"
                 /\ rows' = [r \in Runs |-> IF r \in S THEN s ELSE rows[r]]
                 /\ UNCHANGED results

Next == \/ \E r \in Runs : Begin(r) \/ Publish(r)
        \/ \E r \in Runs, s \in Terminal : Conclude(r, s) \/ ConcludeAndPublish(r, s)
        \/ \E S \in SUBSET Runs, s \in Terminal : Abandon(S, s)

Spec == Init /\ [][Next]_vars

\* A terminal row is never replaced by another status.
FirstTerminalWins ==
  [][\A r \in Runs : rows[r] \in Terminal => rows'[r] = rows[r]]_vars

\* What the waiters were told is what the history says.
ResultIsDurable == \A r \in Runs : results[r] # "none" => results[r] = rows[r]
=============================================================================
