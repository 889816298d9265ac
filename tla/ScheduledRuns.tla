--------------------------- MODULE ScheduledRuns ---------------------------
(***************************************************************************)
(* ScheduledRunManager and ExecutionBridge                                 *)
(* (src/application/scheduled_runs) over the run rows of the scheduler      *)
(* Store: what happens to a reservation from submit_scheduled_run to the    *)
(* durable terminal row, with user cancels, REPLACE cancels, shutdown,      *)
(* a second process sharing the home directory, crashes and restarts.       *)
(*                                                                         *)
(* A run id is minted per accepted submission in increasing order, so a     *)
(* run number is also its cell's submission_sequence.  An action is what a  *)
(* coroutine does between two awaits.  asyncio starts tasks and grants an   *)
(* asyncio.Lock in FIFO order, which Admit keeps per task; where a lock or  *)
(* the semaphore is free the code does not yield and the model may: it has  *)
(* more interleavings than the code there, never fewer.                     *)
(***************************************************************************)
EXTENDS Naturals, FiniteSets

CONSTANTS
  Runs,           \* run numbers that may be minted, in submission order
  Tasks,          \* scheduled tasks
  TaskOf,         \* run -> its task
  ReservationOf,  \* run -> the reservation it is submitted for
  Policy,         \* task -> ConcurrencyPolicy
  Outcomes,       \* RunStatus values _drive_runner may propose
  MaxInflight,    \* the manager's semaphore
  MaxRetained,    \* max_retained_runs
  Disturbances,   \* bound: which of the process and disk events may happen
  MaxCrashes,     \* bound: process deaths
  Contended       \* another process may hold the scheduler file lock

None == 0         \* no run

ASSUME RunsAssumption == Runs \subseteq Nat \ {None}
ASSUME TasksAssumption == /\ TaskOf \in [Runs -> Tasks]
                          /\ Policy \in [Tasks -> {"forbid", "replace", "allow"}]
ASSUME OutcomesAssumption ==
  Outcomes \subseteq {"completed", "silent", "failed", "inactivity_timeout", "cancelled"}
ASSUME LimitsAssumption ==
  /\ MaxInflight \in Nat \ {0} /\ MaxRetained \in Nat \ {0} /\ MaxCrashes \in Nat
  /\ Disturbances \subseteq {"shutdown", "peer", "delete", "crash", "write error"}
  /\ Contended \in BOOLEAN

VARIABLES
  rows,       \* durable: run -> latest status of its row
  deleted,    \* durable: hard deleted tasks
  phase,      \* where the cell's owner (_run_cell) is, see Phases
  thrown,     \* runs whose owner has an exception coming (owner.cancel(), store error)
  victims,    \* REPLACE owner: the runs it still has to cancel
  waiting,    \* REPLACE owner: the victim whose end it awaits
  agent,      \* where the run task that drives the bridge is, see AgentPhases
  acancel,    \* runs whose run task was cancelled, CancelledError not yet delivered
  proposal,   \* the terminal status the bridge is about to persist
  requested,  \* runs whose cell.requested_cancel_reason is set
  final,      \* cell.final_run, "none" when unset
  results,    \* cell.result_future: "none", a status, or "error"
  waiters,    \* <<kind, run>>: the _cancel_cell calls that await the run's owner
  unserved,   \* runs whose aclose cancel task has not started
  retained,   \* _cells_by_run
  mode,       \* "open", "closed" (after aclose) or "down": no process
  crashes     \* process deaths so far

durable == <<rows, deleted>>
owners  == <<phase, thrown, victims, waiting>>
agents  == <<agent, acancel, proposal>>
cells   == <<requested, final, results>>
portal  == <<waiters, unserved, retained>>
host    == <<mode, crashes>>
vars    == <<durable, owners, agents, cells, portal, host>>

Terminal == {"completed", "silent", "failed", "inactivity_timeout",
             "abandoned", "cancelled"}
Statuses == {"absent", "running"} \cup Terminal

(* "created": owner task not started; "locking": waiting for the admission *)
(* lock; "replacing": holding it; "gated": waiting for the semaphore;       *)
(* "driving": awaiting run_scheduled_text; "closing": awaiting             *)
(* dispatcher.aclose; "publishing": FINISHING; "done": FINISHED; "aborted": *)
(* cancelled before its first step; "failed": _finish_cell raised; "lost":  *)
(* its process died.                                                       *)
Phases == {"none", "created", "locking", "replacing", "gated", "driving", "closing",
           "publishing", "done", "aborted", "failed", "lost"}
AgentPhases == {"none", "queued", "starting", "running", "delivering", "returned"}

Live == {"created", "locking", "replacing", "gated", "driving", "closing", "aborted"}
\* Mutant: an owner cancelled before its first step is not seen as done.
OwnerRan(r)  == phase[r] \in {"done", "failed"}
OwnerDone(r) == phase[r] \in {"done", "aborted", "failed"}
HasDispatcher(r) == phase[r] \in {"driving", "closing"}
Executing(r) == agent[r] \in {"starting", "running", "delivering"}
LockHeld(t) == \E q \in Runs : TaskOf[q] = t /\ phase[q] = "replacing"

\* Mutant: only cells in state RUNNING count as live.
ActiveRunning(r) == {q \in Runs : q < r /\ TaskOf[q] = TaskOf[r] /\ HasDispatcher(q)}

\* _run_ids_by_task minus this cell and later submissions.
Active(r) == {q \in Runs : q < r /\ TaskOf[q] = TaskOf[r] /\ phase[q] \in Live}

\* Where SchedulerBusyError strikes: nowhere, or at one of the locked writes.
Busy   == IF Contended THEN {"no", "first"} ELSE {"no"}
BusyAt == IF Contended THEN {"no", "first", "second"} ELSE {"no"}

TypeOK ==
  /\ rows \in [Runs -> Statuses] /\ deleted \subseteq Tasks
  /\ phase \in [Runs -> Phases] /\ thrown \subseteq Runs
  /\ victims \in [Runs -> SUBSET Runs] /\ waiting \in [Runs -> Runs \cup {None}]
  /\ agent \in [Runs -> AgentPhases] /\ acancel \subseteq Runs
  /\ proposal \in [Runs -> Outcomes \cup {"none"}]
  /\ requested \subseteq Runs /\ final \in [Runs -> Terminal \cup {"none"}]
  /\ results \in [Runs -> Terminal \cup {"none", "error"}]
  /\ waiters \subseteq {"user", "replace", "shutdown"} \X Runs
  /\ unserved \subseteq Runs /\ retained \subseteq Runs
  /\ mode \in {"open", "closed", "down"} /\ crashes \in Nat

Init ==
  /\ rows = [r \in Runs |-> "absent"] /\ deleted = {}
  /\ phase = [r \in Runs |-> "none"] /\ thrown = {}
  /\ victims = [r \in Runs |-> {}] /\ waiting = [r \in Runs |-> None]
  /\ agent = [r \in Runs |-> "none"] /\ acancel = {}
  /\ proposal = [r \in Runs |-> "none"]
  /\ requested = {} /\ final = [r \in Runs |-> "none"]
  /\ results = [r \in Runs |-> "none"]
  /\ waiters = {} /\ unserved = {} /\ retained = {}
  /\ mode = "open" /\ crashes = 0

-----------------------------------------------------------------------------
(* Submission and the end of a cell *)

\* submit_scheduled_run.  A reservation whose cell is still indexed gets the
\* DUPLICATE receipt of that cell and changes nothing.
Submit(r) ==
  /\ mode = "open"
  /\ \A q \in Runs : q >= r => phase[q] = "none"
  /\ \A q \in retained : ReservationOf[q] # ReservationOf[r]
  /\ phase' = [phase EXCEPT ![r] = "created"]
  /\ retained' = retained \cup {r}
  /\ UNCHANGED <<durable, thrown, victims, waiting, agents, cells,
                 waiters, unserved, host>>

\* Mutants: the skip is not persisted; the row is written from the cached run.
UnrecordedSkip(r) == rows[r]
CachedRow(r)      == final[r]
\* record_skipped_submission appends CANCELLED whatever the row says.
SkippedRow(r)  == IF final[r] = "none" THEN "cancelled" ELSE rows[r]
SettledRun(r)  == IF final[r] = "none" THEN "cancelled" ELSE final[r]

\* _finish_cell up to its await: a cell without a final run is recorded as
\* skipped.  The append needs no lock; the last_run_at write after it does,
\* and when it fails the owner dies in FINISHING and its future gets the error.
FinishCell(r, busy) ==
  /\ rows' = [rows EXCEPT ![r] = SkippedRow(r)]
  /\ \/ /\ busy # "no" /\ final[r] = "none"
        /\ phase' = [phase EXCEPT ![r] = "failed"]
        /\ results' = [results EXCEPT ![r] = "error"]
        /\ UNCHANGED final
     \/ /\ busy = "no" \/ final[r] # "none"
        /\ phase' = [phase EXCEPT ![r] = "publishing"]
        /\ results' = [results EXCEPT ![r] = SettledRun(r)]
        /\ final' = [final EXCEPT ![r] = SettledRun(r)]

\* Mutant: live cells are dropped as well.
PrunedLive(S) == {q \in S : Cardinality({p \in S : p >= q}) <= MaxRetained}

\* _prune_finished_cells: drop the oldest finished cells beyond the limit.
Pruned(S) ==
  LET finished == {q \in S : phase'[q] = "done"}
  IN  {q \in S : q \in finished => Cardinality({p \in finished : p >= q}) <= MaxRetained}

\* The finished notification returns: FINISHED.
Published(r) ==
  /\ phase[r] = "publishing"
  /\ phase' = [phase EXCEPT ![r] = "done"]
  /\ retained' = Pruned(retained)
  /\ UNCHANGED <<durable, thrown, victims, waiting, agents, cells,
                 waiters, unserved, host>>

-----------------------------------------------------------------------------
(* Cancellation *)

\* A REPLACE owner inside `await victim.dispatcher.interrupt()`.
Interrupting(r) == waiting[r] # None /\ Executing(waiting[r])

\* owner.cancel().  Awaiting a victim's interrupt, the CancelledError is caught
\* by TaskRegistry.cancel_subtree and only reaches the victim's run task;
\* awaiting gather(victim.owner_task), it is passed on to that owner as well.
\* In `closing` and `publishing` the code catches it and ends as it would have.
Catchable == {"created", "locking", "replacing", "gated", "driving"}
CancelOwner(r) ==
  LET hit == IF Interrupting(r) THEN {}
             ELSE {q \in Runs : q \in {r, waiting[r]} /\ phase[q] \in Catchable}
  IN  /\ thrown' = thrown \cup hit
      /\ acancel' = IF Interrupting(r) THEN acancel \cup {waiting[r]} ELSE acancel
      /\ UNCHANGED agent

\* AgentManager.interrupt: the registry closes, so a run task that has not
\* started never will; a started one gets CancelledError at its next await.
Interrupt(r) ==
  /\ agent' = [agent EXCEPT ![r] = IF @ = "queued" THEN "returned" ELSE @]
  /\ acancel' = IF Executing(r) THEN acancel \cup {r} ELSE acancel

\* The synchronous part of _cancel_cell(v).  With a dispatcher,
\* cancel_admitted_run turns RUNNING into CANCELLED and adopts the terminal
\* row, if there is one, as the final run.
CancelCell(v) ==
  /\ requested' = requested \cup {v}
  /\ IF HasDispatcher(v)
       THEN LET row == IF rows[v] = "running" THEN "cancelled" ELSE rows[v]
            IN  /\ rows' = [rows EXCEPT ![v] = row]
                /\ final' = [final EXCEPT ![v] = IF row = "absent" THEN @ ELSE row]
                /\ Interrupt(v)
                /\ UNCHANGED thrown
       ELSE /\ CancelOwner(v)
            /\ UNCHANGED <<rows, final>>

\* The same with the scheduler lock taken by another process: the error leaves
\* _cancel_cell before or after the row was written, and nothing is interrupted.
CancelCellFails(v, at) ==
  /\ at # "no" /\ HasDispatcher(v) /\ rows[v] = "running"
  /\ requested' = requested \cup {v}
  /\ rows' = [rows EXCEPT ![v] = IF at = "second" THEN "cancelled" ELSE @]
  /\ UNCHANGED <<final, agent, acancel>>

\* cancel_run(run_id)
UserCancel(r) ==
  /\ mode # "down" /\ r \in retained /\ phase[r] \in Live /\ <<"user", r>> \notin waiters
  /\ \/ CancelCell(r) /\ waiters' = waiters \cup {<<"user", r>>}
     \/ \E at \in BusyAt : CancelCellFails(r, at) /\ UNCHANGED <<waiters, thrown>>
  /\ UNCHANGED <<deleted, phase, victims, waiting, proposal, results,
                 unserved, retained, host>>

\* aclose, under the submit lock.
Shutdown ==
  /\ "shutdown" \in Disturbances /\ mode = "open"
  /\ mode' = "closed"
  /\ requested' = requested \cup {r \in Runs : phase[r] \in Live \cup {"publishing", "failed"}}
  /\ unserved' = {r \in Runs : phase[r] \in Live}
  /\ UNCHANGED <<durable, owners, agents, final, results, waiters, retained, crashes>>

\* One of the cancel tasks aclose created starts; the owners, created before
\* them, have started.
ShutdownCancel(r) ==
  /\ r \in unserved /\ phase[r] # "created"
  /\ unserved' = unserved \ {r}
  /\ \/ /\ phase[r] \in Live
        /\ \/ CancelCell(r) /\ waiters' = waiters \cup {<<"shutdown", r>>}
           \/ \E at \in BusyAt : CancelCellFails(r, at) /\ UNCHANGED <<waiters, thrown>>
     \/ /\ phase[r] \notin Live
        /\ UNCHANGED <<rows, thrown, agent, acancel, requested, final, waiters>>
  /\ UNCHANGED <<deleted, phase, victims, waiting, proposal, results,
                 retained, host>>

\* The shutdown deadline: what has not ended is cancelled and no longer awaited.
\* The cancel tasks have all started by then, the deadline being in the future
\* when they are created.
Deadline(r) ==
  /\ mode = "closed" /\ unserved = {} /\ phase[r] \in Live \ {"aborted"}
  /\ waiters' = waiters \ {<<"shutdown", r>>}
  /\ CancelOwner(r)
  /\ UNCHANGED <<durable, phase, victims, waiting, proposal, cells,
                 unserved, retained, host>>

\* A REPLACE owner starts cancelling its next victim.
CancelVictim(r, v) ==
  /\ phase[r] = "replacing" /\ r \notin thrown /\ waiting[r] = None
  /\ v \in victims[r] /\ phase[v] \in Live
  /\ victims' = [victims EXCEPT ![r] = @ \ {v}]
  /\ \/ /\ CancelCell(v)
        /\ waiting' = [waiting EXCEPT ![r] = v]
        /\ waiters' = waiters \cup {<<"replace", v>>}
     \/ \E at \in BusyAt : /\ CancelCellFails(v, at)
                           /\ thrown' = thrown \cup {r}
                           /\ UNCHANGED <<waiting, waiters>>
  /\ UNCHANGED <<deleted, phase, proposal, results, unserved, retained, host>>

\* _cancel_cell after its awaits.  An owner cancelled before its first step ran
\* none of its finally blocks: the caller records and finishes the cell for it.
AfterOwner(k, r) ==
  /\ <<k, r>> \in waiters /\ OwnerDone(r)
  /\ waiters' = waiters \ {<<k, r>>}
  /\ \E busy \in Busy :
       \/ /\ phase[r] = "aborted" /\ busy = "no"
          /\ FinishCell(r, busy)
          /\ UNCHANGED thrown
       \/ /\ phase[r] = "failed" /\ busy = "no"
          /\ rows' = [rows EXCEPT ![r] = SkippedRow(r)]
          /\ final' = [final EXCEPT ![r] = SettledRun(r)]
          /\ UNCHANGED <<phase, results, thrown>>
       \/ /\ phase[r] \in {"aborted", "failed"} /\ final[r] = "none" /\ busy # "no"
          /\ rows' = [rows EXCEPT ![r] = "cancelled"]
          /\ thrown' = thrown \cup {q \in Runs : k = "replace" /\ waiting[q] = r}
          /\ UNCHANGED <<phase, results, final>>
       \/ /\ phase[r] = "done" /\ busy = "no"
          /\ UNCHANGED <<rows, phase, results, final, thrown>>
  /\ waiting' = [q \in Runs |-> IF k = "replace" /\ waiting[q] = r THEN None ELSE waiting[q]]
  /\ UNCHANGED <<deleted, victims, agents, requested, unserved, retained, host>>

-----------------------------------------------------------------------------
(* The owner: _run_cell *)

\* asyncio.Lock is FIFO and owners start in submission order.
MyTurn(r) == \A q \in Runs : q < r /\ TaskOf[q] = TaskOf[r]
                               => phase[q] \notin {"created", "locking"}

WaitForLock(r) ==
  /\ phase[r] = "created" /\ r \notin thrown
  /\ LockHeld(TaskOf[r]) \/ ~MyTurn(r)
  /\ phase' = [phase EXCEPT ![r] = "locking"]
  /\ UNCHANGED <<durable, thrown, victims, waiting, agents, cells, portal, host>>

\* With the admission lock: FORBID skips the run if an earlier submission is
\* live, REPLACE goes on to cancel them, ALLOW passes.
Admit(r) ==
  /\ phase[r] \in {"created", "locking"} /\ r \notin thrown
  /\ ~LockHeld(TaskOf[r]) /\ MyTurn(r)
  /\ LET policy == Policy[TaskOf[r]]
     IN  \/ /\ policy = "forbid" /\ Active(r) # {}
            /\ \E busy \in Busy : FinishCell(r, busy)
            /\ UNCHANGED victims
         \/ /\ policy = "replace" /\ Active(r) # {}
            /\ phase' = [phase EXCEPT ![r] = "replacing"]
            /\ victims' = [victims EXCEPT ![r] = Active(r)]
            /\ UNCHANGED <<rows, final, results>>
         \/ /\ policy = "allow" \/ Active(r) = {}
            /\ phase' = [phase EXCEPT ![r] = "gated"]
            /\ UNCHANGED <<rows, final, results, victims>>
  /\ UNCHANGED <<deleted, thrown, waiting, agents, requested, portal, host>>

ReleaseLock(r) ==
  /\ phase[r] = "replacing" /\ r \notin thrown
  /\ \A v \in victims[r] : phase[v] \notin Live
  /\ phase' = [phase EXCEPT ![r] = "gated"]
  /\ victims' = [victims EXCEPT ![r] = {}]
  /\ UNCHANGED <<durable, thrown, waiting, agents, cells, portal, host>>

\* Every victim has ended or was already finishing: the lock is released.
Replaced(r) == waiting[r] = None /\ ReleaseLock(r)

\* Mutant: a slot is only taken by the durable start.
SlotFreeStarted == Cardinality({q \in Runs : Executing(q)}) < MaxInflight
\* The manager's semaphore, held until the dispatcher is closed.
SlotFree == Cardinality({q \in Runs : HasDispatcher(q)}) < MaxInflight

\* The semaphore is free: state RUNNING, the dispatcher is built and the run's
\* text becomes a mail of its fresh root agent.
Dispatch(r) ==
  /\ phase[r] = "gated" /\ r \notin thrown /\ SlotFree
  /\ phase' = [phase EXCEPT ![r] = "driving"]
  /\ agent' = [agent EXCEPT ![r] = "queued"]
  /\ UNCHANGED <<durable, thrown, victims, waiting, acancel, proposal, cells, portal, host>>

\* The run's Result arrives, or the owner is cancelled while waiting for it:
\* dispatcher.aclose interrupts whatever still runs.
OwnerResumes(r) ==
  /\ phase[r] = "driving" /\ (agent[r] = "returned" \/ r \in thrown)
  /\ phase' = [phase EXCEPT ![r] = "closing"]
  /\ thrown' = thrown \ {r}
  /\ Interrupt(r)
  /\ UNCHANGED <<durable, victims, waiting, proposal, cells, portal, host>>

\* aclose returns: dispatcher = None, semaphore released, _finish_cell.
CloseDispatcher(r) ==
  /\ phase[r] = "closing" /\ agent[r] = "returned"
  /\ \E busy \in Busy : FinishCell(r, busy)
  /\ UNCHANGED <<deleted, thrown, victims, waiting, agents, requested, portal, host>>

\* An exception ends an owner that has no dispatcher: except and finally both
\* come down to recording the skip and finishing the cell.
OwnerUnwinds(r) ==
  /\ r \in thrown
  /\ thrown' = thrown \ {r}
  /\ \/ /\ phase[r] = "created"
        /\ phase' = [phase EXCEPT ![r] = "aborted"]
        /\ UNCHANGED <<rows, final, results>>
     \/ /\ phase[r] \in {"locking", "replacing", "gated"} /\ waiting[r] = None
        /\ \E busy \in Busy : FinishCell(r, busy)
  /\ victims' = [victims EXCEPT ![r] = {}]
  /\ UNCHANGED <<deleted, waiting, agents, requested, portal, host>>

-----------------------------------------------------------------------------
(* The run task: scheduled_mail_run_bridge and execute_admitted *)

Return(r) == agent' = [agent EXCEPT ![r] = "returned"]

\* The root agent takes the mail.  A cancel requested before is honoured here:
\* nothing ran, the run is recorded as skipped.
BridgeSkips(r) ==
  /\ agent[r] = "queued" /\ r \in requested
  /\ rows' = [rows EXCEPT ![r] = "cancelled"]
  /\ \E busy \in Busy : final' = [final EXCEPT ![r] = IF busy = "no" THEN "cancelled" ELSE @]
  /\ Return(r)
  /\ UNCHANGED <<deleted, owners, acancel, proposal, requested, results, portal, host>>

\* The RUNNING row is appended, or its write fails and FAILED is.
DurableStart(r) ==
  /\ agent[r] = "queued"
  /\ \/ /\ rows' = [rows EXCEPT ![r] = "running"]
        /\ agent' = [agent EXCEPT ![r] = "starting"]
        /\ UNCHANGED final
     \/ /\ "write error" \in Disturbances
        /\ rows' = [rows EXCEPT ![r] = "failed"]
        /\ \E busy \in Busy : final' = [final EXCEPT ![r] = IF busy = "no" THEN "failed" ELSE @]
        /\ Return(r)
  /\ UNCHANGED <<deleted, owners, acancel, proposal, requested, results, portal, host>>

BridgeStarts(r) == r \notin requested /\ DurableStart(r)

\* Mutant: the terminal row is appended without looking at the current one.
PersistBlindly(r, s) == /\ rows' = [rows EXCEPT ![r] = s]
                        /\ final' = [final EXCEPT ![r] = s]

\* _persist_terminal_run and the finishing audit: compare-and-set on RUNNING
\* under the file lock, then last_run_at and audit under it again.  The loser
\* of the race adopts the winner.
PersistTerminal(r, s) ==
  \E at \in BusyAt :
    \/ /\ at # "first" /\ rows[r] = "running"
       /\ rows' = [rows EXCEPT ![r] = s]
       /\ final' = [final EXCEPT ![r] = IF at = "second" THEN @ ELSE s]
    \/ /\ at # "first" /\ rows[r] # "running"
       /\ final' = [final EXCEPT ![r] = IF at = "second" THEN @ ELSE rows[r]]
       /\ UNCHANGED rows
    \/ /\ at = "first"
       /\ UNCHANGED <<rows, final>>

\* on_started returns; the run_started audit; the model preset is resolved.
BridgeRuns(r) ==
  /\ agent[r] = "starting"
  /\ \/ /\ r \in acancel \/ Contended
        /\ Return(r)
        /\ UNCHANGED <<rows, final>>
     \/ /\ r \notin acancel
        /\ agent' = [agent EXCEPT ![r] = "running"]
        /\ UNCHANGED <<rows, final>>
     \/ /\ r \notin acancel
        /\ PersistTerminal(r, "failed")
        /\ Return(r)
  /\ UNCHANGED <<deleted, owners, acancel, proposal, requested, results, portal, host>>

\* _drive_runner returns.  A cancel (interrupt or watchdog) becomes a result,
\* or is swallowed when it hits the await of the watchdog's own end.  A run
\* closed by someone else meanwhile is not delivered.
RunnerEnds(r, s) ==
  /\ agent[r] = "running"
  /\ acancel' = acancel \ {r}
  /\ \/ /\ rows[r] = "running"
        /\ proposal' = [proposal EXCEPT ![r] = s]
        /\ agent' = [agent EXCEPT ![r] = "delivering"]
        /\ UNCHANGED final
     \/ /\ rows[r] # "running"
        /\ final' = [final EXCEPT ![r] = rows[r]]
        /\ Return(r)
        /\ UNCHANGED proposal
  /\ UNCHANGED <<durable, owners, requested, results, portal, host>>

\* DeliveryDispatcher.deliver returns (its failures are data), or is cancelled.
DeliveryEnds(r) ==
  /\ agent[r] = "delivering"
  /\ Return(r)
  /\ \/ r \in acancel /\ UNCHANGED <<rows, final>>
     \/ r \notin acancel /\ PersistTerminal(r, proposal[r])
  /\ UNCHANGED <<deleted, owners, acancel, proposal, requested, results, portal, host>>

-----------------------------------------------------------------------------
(* Processes and tasks *)

\* Mutant: nothing is recovered.
NothingRecovered == rows
\* recover_stale_runs walks the tasks that still exist.
Recovered == [r \in Runs |-> IF rows[r] = "running" /\ TaskOf[r] \notin deleted
                             THEN "abandoned" ELSE rows[r]]

\* Another process (CLI beside web) starts on the same home directory.
PeerStarts == /\ "peer" \in Disturbances /\ mode # "down" /\ rows' = Recovered /\ rows' # rows
              /\ UNCHANGED <<deleted, owners, agents, cells, portal, host>>

\* delete_task: the run file of a hard deleted task stays.
DeleteTask(t) == /\ "delete" \in Disturbances /\ mode # "down" /\ deleted' = deleted \cup {t} /\ deleted' # deleted
                 /\ UNCHANGED <<rows, owners, agents, cells, portal, host>>

\* The process dies, with everything the manager holds.
Crash ==
  /\ "crash" \in Disturbances /\ mode # "down" /\ crashes < MaxCrashes
  /\ mode' = "down" /\ crashes' = crashes + 1
  /\ phase' = [r \in Runs |-> IF phase[r] \in {"none", "done"} THEN phase[r] ELSE "lost"]
  /\ thrown' = {} /\ victims' = [r \in Runs |-> {}]
  /\ waiting' = [r \in Runs |-> None]
  /\ agent' = [r \in Runs |-> "none"] /\ acancel' = {}
  /\ waiters' = {} /\ unserved' = {} /\ retained' = {}
  /\ UNCHANGED <<durable, proposal, cells>>

\* Start-up: recovery first, then an empty manager takes submissions.
Boot == /\ mode = "down" /\ mode' = "open" /\ rows' = Recovered
        /\ UNCHANGED <<deleted, owners, agents, cells, portal, crashes>>

-----------------------------------------------------------------------------
Owner(r) == \/ WaitForLock(r) \/ Admit(r) \/ Replaced(r) \/ Dispatch(r)
            \/ OwnerResumes(r) \/ CloseDispatcher(r) \/ OwnerUnwinds(r) \/ Published(r)
            \/ \E v \in Runs : CancelVictim(r, v)
Bridge(r) == \/ BridgeSkips(r) \/ BridgeStarts(r) \/ BridgeRuns(r) \/ DeliveryEnds(r)
             \/ \E s \in Outcomes : RunnerEnds(r, s)
Canceller(r) == \/ ShutdownCancel(r)
                \/ \E k \in {"user", "replace", "shutdown"} : AfterOwner(k, r)
Environment == \/ Shutdown \/ PeerStarts \/ Crash \/ Boot
               \/ \E t \in Tasks : DeleteTask(t)
               \/ \E r \in Runs : Submit(r) \/ UserCancel(r) \/ Deadline(r)

Next == Environment \/ \E r \in Runs : Owner(r) \/ Bridge(r) \/ Canceller(r)

Spec == Init /\ [][Next]_vars

\* The event loop runs every coroutine that is ready; a runner ends by itself,
\* at max_turns, or cancelled by its inactivity watchdog.
Fairness == \A r \in Runs : /\ WF_vars(Owner(r)) /\ WF_vars(Bridge(r))
                            /\ WF_vars(Canceller(r))
FairSpec == Spec /\ Fairness

-----------------------------------------------------------------------------
(* Properties *)

\* The rows and the results are the history; everything else is hidden.
Ledger == INSTANCE RunLedger WITH Runs <- Runs, rows <- rows, results <- results
LedgerSpec == Ledger!Spec

\* finish_run_if_running: a run has one logical terminal state, the first one,
\* whichever of completion, watchdog, user, REPLACE, shutdown and another
\* process's recovery gets there.
FirstTerminalWins ==
  [][\A r \in Runs : rows[r] \in Terminal => rows'[r] = rows[r]]_vars

\* wait_for_run and cancel_run return the durable result: what the waiters of a
\* run are told is what its row says, for ever.
ResultIsDurable ==
  \A r \in Runs : results[r] \in Terminal => results[r] = rows[r]

\* Concurrency policy: two runs of a FORBID or REPLACE task never execute at
\* the same time.
SerialTask ==
  \A q, r \in Runs : /\ q # r /\ TaskOf[q] = TaskOf[r]
                     /\ Policy[TaskOf[r]] # "allow"
                     => ~(Executing(q) /\ Executing(r))

\* max_inflight bounds the runs that execute, also while dispatchers close,
\* owners are cancelled and cells finish.
InflightBound == Cardinality({r \in Runs : Executing(r)}) <= MaxInflight

\* _cancel_cell comes back, to cancel_run or to the owner of a REPLACE, only when
\* nothing of the run executes any more and its row is terminal: whichever of the
\* bridge, the run's owner, the canceller and a busy lock was first, and also when
\* the owner was cancelled before its first step or died in FINISHING.
CancelSettles ==
  [][\A k \in {"user", "replace"}, r \in Runs :
       /\ <<k, r>> \in waiters /\ <<k, r>> \notin waiters'
       /\ mode' # "down"
       => ~Executing(r)' /\ rows'[r] \in Terminal]_vars

\* A RUNNING row of an existing task has an owner in this process that will
\* close it: after any restart nothing shows as running that is not.
NoStrayRunning ==
  \A r \in Runs : mode # "down" /\ rows[r] = "running" /\ TaskOf[r] \notin deleted
                 => HasDispatcher(r)

\* A reservation has at most one cell that has not finished, however often it
\* is submitted and however few finished cells are retained.
OneLiveRunPerReservation ==
  \A q, r \in Runs : q # r /\ ReservationOf[q] = ReservationOf[r]
                     => ~(phase[q] \in Live /\ phase[r] \in Live)

\* Every accepted run is resolved, unless its process dies.
Resolved == \A r \in Runs : phase[r] = "created" ~> results[r] # "none" \/ phase[r] = "lost"

-----------------------------------------------------------------------------
(* The inductive invariant behind SerialTask and the typing of final runs. *)

\* A run task exists only under an open dispatcher, and executes only with a
\* row to close and, while it delivers, a terminal status to close it with.
BridgeInv ==
  \A r \in Runs :
    /\ agent[r] \in {"queued", "starting", "running", "delivering"} => HasDispatcher(r)
    /\ Executing(r) => rows[r] # "absent"
    /\ agent[r] = "delivering" => proposal[r] # "none"

Unfinished == Live \ {"aborted"}
Admitted   == {"gated", "driving", "closing"}

\* Behind an admitted run of a FORBID or REPLACE task no earlier run is left,
\* and a replacing owner still has every one of them on its list or awaits it.
AdmissionInv ==
  \A q, r \in Runs :
    q < r /\ TaskOf[q] = TaskOf[r] /\ Policy[TaskOf[r]] # "allow" /\ phase[q] \in Unfinished
    => /\ phase[r] \notin Admitted
       /\ phase[r] = "replacing" /\ r \notin thrown => q \in victims[r] \cup {waiting[r]}

SerialInv == TypeOK /\ BridgeInv /\ AdmissionInv
=============================================================================
