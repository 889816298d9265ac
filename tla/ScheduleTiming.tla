--------------------------- MODULE ScheduleTiming ---------------------------
(***************************************************************************)
(* The time arithmetic of the scheduler (src/scheduler/timing.py), over     *)
(* integer instants.  A trigger is a record: type "once" with its instant   *)
(* in at; "every" (SECONDS and INTERVAL) with its period; "cron" with the   *)
(* instants of one cycle of length period at which it matches, which need   *)
(* not be evenly spaced.                                                   *)
(***************************************************************************)
EXTENDS Integers

CONSTANTS GraceMin, GraceMax,   \* GRACE_MIN_SECONDS, GRACE_MAX_SECONDS
          OneshotGrace          \* ONESHOT_GRACE_SECONDS

ASSUME GraceAssumption ==
  GraceMin \in Nat /\ GraceMax \in Nat /\ GraceMin <= GraceMax /\ OneshotGrace \in Nat

\* The trigger has a matching instant after every instant.
Recurs(g) == /\ g.type \in {"every", "cron"} /\ g.period \in Nat \ {0}
             /\ g.type = "cron" => g.at # {} /\ g.at \subseteq 0..(g.period - 1)

\* Mutant: a match at the instant itself counts.
MatchFrom(g, after) ==
  CHOOSE m \in after..(after + g.period - 1) :
    /\ m % g.period \in g.at
    /\ \A k \in after..(m - 1) : k % g.period \notin g.at
\* The first match strictly after an instant: croniter.get_next.
NextMatch(g, after) ==
  CHOOSE m \in (after + 1)..(after + g.period) :
    /\ m % g.period \in g.at
    /\ \A k \in (after + 1)..(m - 1) : k % g.period \notin g.at

\* compute_next_run_at
NextRun(g, after) == IF g.type = "every" THEN after + g.period ELSE NextMatch(g, after)

\* compute_first_run_at: a one-shot keeps its instant, past or not.
FirstRun(g, now) == IF g.type = "once" THEN CHOOSE i \in g.at : TRUE ELSE NextRun(g, now)

\* _period_seconds: for cron the distance of the next two matches, seen from
\* the moment of the call.
Period(g, now) ==
  IF g.type = "every" THEN g.period
  ELSE NextRun(g, NextRun(g, now)) - NextRun(g, now)

\* grace_seconds_for_period: half a period, clamped.
Grace(period) ==
  LET half == period \div 2
  IN  IF half < GraceMin THEN GraceMin ELSE IF half > GraceMax THEN GraceMax ELSE half

\* is_stale_recurring and is_within_oneshot_grace
StaleRecurring(g, window, now) == now - window > Grace(Period(g, now))
WithinOneshotGrace(window, now) == window >= now - OneshotGrace
=============================================================================
