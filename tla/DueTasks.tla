------------------------------ MODULE DueTasks ------------------------------
(***************************************************************************)
(* Scheduled tasks: scheduler.store.Store, its ticker, and the handlers of  *)
(* hosts/web/routers/cron.py and tools/builtin/schedule_tool.py that edit   *)
(* tasks.  Every handler reads and writes the task file in one synchronous  *)
(* stretch, and reserve_due_tasks works under the scheduler file lock, so   *)
(* each is one action.  A reservation leaves the ticker for the run manager *)
(* (module ScheduledRuns), of which only the end of the run is kept here.   *)
(***************************************************************************)
EXTENDS ScheduleTiming, FiniteSets

CONSTANTS
  Tasks,      \* task ids
  Triggers,   \* triggers a user may give
  Policies,   \* misfire policies the task file may give a task
  Handlers,   \* bound: which ways of touching a task are used
  Horizon,    \* bound: last instant of the clock
  MaxManual   \* bound: manual runs asked for per task

None == -1    \* no instant

ASSUME DueTasksAssumption ==
  /\ \A g \in Triggers : \/ Recurs(g)
                         \/ g.type = "once" /\ g.at # {} /\ g.at \subseteq Nat
  /\ Policies \subseteq {"skip", "catch_up_once", "fire_now"}
  /\ Handlers \subseteq {"pause", "web resume", "tool resume", "update", "delete",
                         "manual", "crash"}
  /\ Horizon \in Nat /\ MaxManual \in Nat

VARIABLES
  now,        \* the clock
  up,         \* "up" or "down": a process with a ticker
  life,       \* task -> its lifecycle, "new" before creation, "gone" after deletion
  misfire,    \* task -> its misfire_policy
  trigger,    \* task -> its trigger
  next,       \* task -> next_run_at
  manual,     \* task -> manual_run_requested_at
  last,       \* task -> "none" or "set": last_run_at
  out,        \* reservations the ticker, or the tool's run_now, has yet to submit
  live,       \* tasks with a run that has not ended
  served,     \* history: task -> its last formal window that was reserved
  asked,      \* history: task -> manual runs accepted
  given       \* history: task -> manual runs reserved

tasks   == <<life, misfire, trigger, next, manual, last>>
history == <<served, asked, given>>
vars    == <<now, up, tasks, out, live, history>>

Lifecycles == {"new", "scheduled", "paused", "disabled", "exhausted", "gone"}
Instants   == Nat \cup {None}
Kinds      == {"due", "late", "now", "manual", "tool"}
Reservations == [task : Tasks, window : Nat, kind : Kinds]

TypeOK ==
  /\ now \in Nat /\ up \in {"up", "down"}
  /\ life \in [Tasks -> Lifecycles] /\ misfire \in [Tasks -> Policies]
  /\ trigger \in [Tasks -> Triggers]
  /\ next \in [Tasks -> Instants] /\ manual \in [Tasks -> Instants]
  /\ last \in [Tasks -> {"none", "set"}]
  /\ out \subseteq Reservations /\ live \subseteq Tasks
  /\ served \in [Tasks -> Instants]
  /\ asked \in [Tasks -> Nat] /\ given \in [Tasks -> Nat]

Init ==
  /\ now = 0 /\ up = "up"
  /\ life = [t \in Tasks |-> "new"] /\ misfire \in [Tasks -> Policies]
  /\ trigger \in [Tasks -> Triggers]
  /\ next = [t \in Tasks |-> None] /\ manual = [t \in Tasks |-> None]
  /\ last = [t \in Tasks |-> "none"]
  /\ out = {} /\ live = {}
  /\ served = [t \in Tasks |-> None]
  /\ asked = [t \in Tasks |-> 0] /\ given = [t \in Tasks |-> 0]

Exists(t) == life[t] \notin {"new", "gone"}
OneShot(t) == trigger[t].type = "once"
Reservation(t, window, kind) == [task |-> t, window |-> window, kind |-> kind]

-----------------------------------------------------------------------------
(* reserve_due_tasks *)

\* A manual request is claimed before, and instead of, whatever else is due.
ManualDue(t) == Exists(t) /\ manual[t] # None

\* Mutants: a one-shot is claimed early; a window is due only after its instant.
DueEarly(t) == /\ life[t] = "scheduled" /\ next[t] # None /\ ~ManualDue(t)
               /\ OneShot(t) \/ next[t] <= now
DueStrictly(t) == /\ life[t] = "scheduled" /\ next[t] # None /\ ~ManualDue(t)
                  /\ next[t] < now
\* SCHEDULED, with a cursor that is not in the future.
Due(t) == life[t] = "scheduled" /\ next[t] # None /\ ~ManualDue(t) /\ next[t] <= now

OneShotDue(t)   == Due(t) /\ OneShot(t) /\ WithinOneshotGrace(next[t], now)
RecurringDue(t) == Due(t) /\ ~OneShot(t)
Stale(t)        == StaleRecurring(trigger[t], next[t], now)

\* Mutant: the cursor moves on by one match however late the tick is.
OneMatchOn(t) == NextRun(trigger[t], next[t])
\* The new cursor: the match after the consumed window, unless it has passed.
Advanced(t) ==
  LET following == NextRun(trigger[t], next[t])
  IN  IF Stale(t) \/ following <= now THEN NextRun(trigger[t], now) ELSE following

\* What one pass of the loop hands out for a task.
Handed(t) ==
  IF ManualDue(t) THEN {Reservation(t, manual[t], "manual")}
  ELSE IF OneShotDue(t) \/ (RecurringDue(t) /\ ~Stale(t)) THEN {Reservation(t, next[t], "due")}
  ELSE IF ~RecurringDue(t) \/ misfire[t] = "skip" THEN {}
  ELSE IF misfire[t] = "catch_up_once" THEN {Reservation(t, next[t], "late")}
  ELSE {Reservation(t, now, "now")}

\* Mutant: the request is handed out and stays pending.
RequestKept(t) == manual[t]
RequestAfter(t) == IF ManualDue(t) THEN None ELSE manual[t]

\* One tick, once the reservations of the previous one are submitted.
Tick ==
  /\ up = "up" /\ \A r \in out : r.kind = "tool"
  /\ out' = out \cup UNION {Handed(t) : t \in Tasks}
  /\ life' = [t \in Tasks |-> IF OneShotDue(t) THEN "exhausted" ELSE life[t]]
  /\ next' = [t \in Tasks |-> IF OneShotDue(t) THEN None
                              ELSE IF RecurringDue(t) THEN Advanced(t) ELSE next[t]]
  /\ manual' = [t \in Tasks |-> RequestAfter(t)]
  /\ served' = [t \in Tasks |->
                  IF \E r \in Handed(t) : r.kind # "manual"
                  THEN (CHOOSE r \in Handed(t) : TRUE).window ELSE served[t]]
  /\ given' = [t \in Tasks |-> IF ManualDue(t) THEN given[t] + 1 ELSE given[t]]
  /\ UNCHANGED <<now, up, misfire, trigger, last, live, asked>>

\* Who made it submits a reservation: the run manager owns it now.
Submit(r) == /\ up = "up" /\ r \in out
             /\ out' = out \ {r} /\ live' = live \cup {r.task}
             /\ UNCHANGED <<now, up, tasks, history>>

\* A run ends: its finished_at becomes the task's last_run_at.  Other runs of
\* the task may go on; they are not counted.
RunEnds(t) == /\ t \in live
              /\ live' \in {live, live \ {t}}
              /\ last' = [last EXCEPT ![t] = IF Exists(t) THEN "set" ELSE @]
              /\ UNCHANGED <<now, up, life, misfire, trigger, next, manual, out, history>>

-----------------------------------------------------------------------------
(* Handlers *)

\* create_task_with_thread: the cursor was computed before the task's thread was
\* awaited, which may have taken an instant (the bound of this await).
Created(t, g, since) ==
  /\ up = "up" /\ life[t] = "new"
  /\ life' = [life EXCEPT ![t] = "scheduled"]
  /\ trigger' = [trigger EXCEPT ![t] = g]
  /\ next' = [next EXCEPT ![t] = FirstRun(g, since)]
  /\ UNCHANGED <<now, up, misfire, manual, last, out, live, history>>
Since == {now, now - 1} \cap Nat

\* create_cron_task takes a one-shot in the past, _do_create does not.
WebCreate(t, g)  == \E since \in Since : Created(t, g, since)
ToolCreate(t, g) ==
  \E since \in Since : /\ g.type = "once" => WithinOneshotGrace(FirstRun(g, since), since)
                       /\ Created(t, g, since)

\* pause_cron_task, _do_pause
Pause(t) == /\ "pause" \in Handlers /\ up = "up" /\ Exists(t)
            /\ life' = [life EXCEPT ![t] = "paused"]
            /\ UNCHANGED <<now, up, misfire, trigger, next, manual, last, out, live, history>>

\* resume_cron_task: whatever the lifecycle, with a recomputed cursor.
WebResume(t) == /\ "web resume" \in Handlers /\ up = "up" /\ Exists(t)
                /\ life' = [life EXCEPT ![t] = "scheduled"]
                /\ next' = [next EXCEPT ![t] = FirstRun(trigger[t], now)]
                /\ UNCHANGED <<now, up, misfire, trigger, manual, last, out, live, history>>

\* _do_resume: the cursor stays as it is.
ToolResume(t) == /\ "tool resume" \in Handlers /\ up = "up" /\ Exists(t)
                 /\ life[t] # "scheduled"
                 /\ life' = [life EXCEPT ![t] = "scheduled"]
                 /\ UNCHANGED <<now, up, misfire, trigger, next, manual, last, out, live, history>>

\* update_cron_task with a schedule, a lifecycle or both: an exhausted task
\* that is given a one-shot starts a new life, whatever lifecycle is asked for.
Keep == [type |-> "keep", period |-> 0, at |-> {}]
Update(t, g, l) ==
  LET revived == g.type = "once" /\ life[t] = "exhausted"
  IN  /\ "update" \in Handlers /\ up = "up" /\ Exists(t)
      /\ trigger' = [trigger EXCEPT ![t] = IF g = Keep THEN @ ELSE g]
      /\ next' = [next EXCEPT ![t] = IF g = Keep THEN @ ELSE FirstRun(g, now)]
      /\ life' = [life EXCEPT ![t] = IF revived THEN "scheduled" ELSE IF l = "keep" THEN @ ELSE l]
      /\ last' = [last EXCEPT ![t] = IF revived THEN "none" ELSE @]
      /\ UNCHANGED <<now, up, misfire, manual, out, live, history>>

Delete(t) == /\ "delete" \in Handlers /\ up = "up" /\ Exists(t)
             /\ life' = [life EXCEPT ![t] = "gone"]
             /\ UNCHANGED <<now, up, misfire, trigger, next, manual, last, out, live, history>>

\* run_now_cron_task and request_manual_run: 409 while a request is pending.
\* Its 409 while the latest run is RUNNING changes nothing, and a run that has
\* no row yet does not cause it: the request may be accepted either way.
RunNow(t) == /\ "manual" \in Handlers /\ up = "up" /\ Exists(t)
             /\ manual[t] = None /\ asked[t] < MaxManual
             /\ manual' = [manual EXCEPT ![t] = now]
             /\ asked' = [asked EXCEPT ![t] = @ + 1]
             /\ UNCHANGED <<now, up, life, misfire, trigger, next, last, out, live, served, given>>

\* Mutant: a task without a cursor is reserved for no instant.
CursorOnly(t) == next[t]
\* scheduled_for = task.next_run_at or now_iso: often a window yet to come.
ToolWindow(t) == IF next[t] = None THEN now ELSE next[t]

\* _do_run_now: a reservation of the next window, made without the store: the
\* task, its cursor included, is left as it is, and the ticker will reserve that
\* window again when it comes.  Bound: one of a task at a time awaits submission.
ToolRunNow(t) ==
  /\ "manual" \in Handlers /\ up = "up" /\ Exists(t)
  /\ \A r \in out : r.task = t => r.kind # "tool"
  /\ out' = out \cup {Reservation(t, ToolWindow(t), "tool")}
  /\ UNCHANGED <<now, up, tasks, live, history>>

-----------------------------------------------------------------------------
(* Time and processes *)

Advance == /\ now < Horizon /\ now' = now + 1
           /\ UNCHANGED <<up, tasks, out, live, history>>

\* The process dies: reservations and runs are gone, the task file stays.
Crash == /\ "crash" \in Handlers /\ up = "up"
         /\ up' = "down" /\ out' = {} /\ live' = {}
         /\ UNCHANGED <<now, tasks, history>>

Boot == /\ up = "down" /\ up' = "up"
        /\ UNCHANGED <<now, tasks, out, live, history>>

Next == \/ Tick \/ Advance \/ Crash \/ Boot
        \/ \E r \in out : Submit(r)
        \/ \E t \in live : RunEnds(t)
        \/ \E t \in Tasks : \/ Pause(t) \/ WebResume(t) \/ ToolResume(t) \/ Delete(t)
                            \/ RunNow(t) \/ ToolRunNow(t)
                            \/ \E g \in Triggers : WebCreate(t, g) \/ ToolCreate(t, g)
                            \/ \E g \in Triggers \cup {Keep},
                                  l \in {"keep", "scheduled", "paused", "disabled"} : Update(t, g, l)

Spec == Init /\ [][Next]_vars

\* run_ticker_loop ticks and submits for as long as the process lives.  An agent
\* that calls the tool may be cancelled in front of its submission.
FairSpec == /\ Spec /\ WF_vars(Tick)
            /\ WF_vars(\E r \in out : r.kind # "tool" /\ Submit(r))

-----------------------------------------------------------------------------
(* Properties *)

Formal(r) == r.kind \in {"due", "late", "now"}

\* The scheduler reserves no window before its time, whichever trigger, policy
\* or edit put it there.  Only the tool's run_now reserves ahead of time.
NoEarlyFire == \A r \in out : r.kind # "tool" => r.window <= now

\* The ticker reserves the formal windows of a recurring task in strictly
\* increasing order, hence none of them twice: across late ticks, misfire
\* policies, pauses, resumes, new schedules, manual runs and crashes.  Nor does
\* the tool's run_now take a window the ticker has had (the converse is not
\* promised: the ticker reserves a window that run_now took before its time).
WindowsInOrder ==
  [][\A r \in out' \ out : (Formal(r) \/ r.kind = "tool") /\ ~OneShot(r.task)
                           => r.window > served[r.task]]_vars

\* Every accepted manual request is reserved exactly once: none is dropped by
\* a tick, a pause or a crash, none is handed out twice.
ManualOnce ==
  \A t \in Tasks : asked[t] = given[t] + (IF manual[t] = None THEN 0 ELSE 1)

\* A due window of a recurring task is reserved or moved on, although a manual
\* request takes a tick from it.
DueIsServed ==
  \A t \in Tasks : (life[t] = "scheduled" /\ ~OneShot(t) /\ next[t] # None /\ next[t] <= now)
                   ~> (life[t] # "scheduled" \/ OneShot(t) \/ next[t] > now \/ up = "down")

\* The docstring of reserve_due_tasks: a one-shot is due if it has not run
\* (last_run_at is None), so it is not reserved again after its run.
OneShotOnce ==
  [][\A r \in out' \ out : Formal(r) /\ OneShot(r.task) => last[r.task] = "none"]_vars
=============================================================================
