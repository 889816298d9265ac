-------------------------- MODULE MCScheduledRuns --------------------------
(* Small instances of ScheduledRuns: runs of one task, or of one ALLOW and    *)
(* one FORBID task that share the slots.                                      *)
EXTENDS ScheduledRuns

TwoRuns   == 1..2
ThreeRuns == 1..3
FourRuns  == 1..4

OneTask  == [r \in Runs |-> "t"]
TwoTasks == [r \in Runs |-> IF r \in {1, 4} THEN "t" ELSE "u"]

Distinct == [r \in Runs |-> r]
\* Run 4 resubmits the reservation of run 1.
Resubmitted == [r \in Runs |-> IF r = 4 THEN 1 ELSE r]

ForbidAll      == [t \in Tasks |-> "forbid"]
ReplaceAll     == [t \in Tasks |-> "replace"]
AllowAndForbid == [t \in Tasks |-> IF t = "t" THEN "allow" ELSE "forbid"]
=============================================================================
