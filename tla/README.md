# Verification of the kongming-agent kernel

TLA+ models of kongming-agent (`src/`), TLC runs over small instances of them,
and TLAPS proofs. Paths below are relative to the repository; line numbers are
those of the modelled commit. Every modelling definition is tied to its lines in
`PROJECT.json`, under `map`.

## 1. The system

An asynchronous Python agent kernel. A host (web or CLI) drives agents through a
dispatcher; an agent is a mail loop that runs a model/tool runner; the scheduler
starts the same agents from a clock. State is kept in JSON files under one home
directory, which a web host and a CLI may use at the same time.

| component | state it keeps | operations | what makes it hard |
|---|---|---|---|
| scheduler store `src/scheduler/store.py` | task file; one append-only history of runs per task; incidents, audits; a file lock | create, update, delete, request a manual run, reserve due tasks; append, finish, cancel, recover runs | several processes, a non-blocking lock (`SchedulerBusyError`), crashes between the cursor and the run row |
| timing, ticker | none; the clock | next window, grace, staleness; tick | boundaries, late ticks, uneven cron cycles |
| scheduled run manager `src/application/scheduled_runs/manager.py` | cells by run and by reservation, a lock per task, a semaphore, futures | submit, wait, cancel, close | owners cancel owners; cancellation at every await; shutdown deadline; retention |
| execution bridge `execution_bridge.py` | none of its own; writes rows | start, drive, deliver, persist the terminal row | completion against cancel, watchdog, recovery and a busy lock |
| cron router, schedule tool | none of their own | edit tasks, run now | read-then-write; two surfaces with different rules for one action |
| agents `src/application/agents` | task registry tree, mail queues, epochs, run loop | send, interrupt, cancel a subtree, tear down | CancelledError swallowed or delivered late, mail left behind, orphans |
| host dispatcher `src/hosts/shared/host_dispatcher.py` | root agent, a FIFO of result futures | run a text, interrupt, reset, close | futures matched with results by position; resets while loops still run |
| core runner `src/core/runner.py` | run state, turn counters | model turn, tool calls, stop | partial tool batches, cancel between call and result |
| approvals `src/safety/approval` | pendings with futures and timers, a book of remembered rules per thread with its revision, an inbox | decide, ask, resolve, expire, review, cancel, close | an answer being saved races the timeout, the countdown and cancels; saves on a stale revision |
| web thread manager `src/hosts/web/threads/manager.py` | thread cells: queue of inputs, send-now claims, current run task | submit, send now, cancel, reorder, interrupt, evict | one input in five places of four objects; the end of a run against all of them |
| agent workflows `src/application/agent_workflows` | active workflows, a demux per workflow, one result file per task | run a strategy, spawn and await mappers, retry, reduce, cancel, finalize | two timeouts and a deadline over one wait, retries on the same session, a second reader of the root's mailbox |
| sessions, memory, evolution, sitian | files | append, compact | mostly text and I/O |
| tools, MCP, LLM providers, tracing, configuration | pools, caches | call, reconnect | external services |
| frontend, packaging, evaluations | - | - | outside the kernel |

Interactions that matter here: the ticker calls `Store.reserve_due_tasks` and
submits each reservation to the run manager; the manager's owner coroutine builds
a dispatcher and mails the task's text to a fresh root agent, whose run task calls
back into the bridge; the bridge drives the runner under a watchdog, delivers and
writes the terminal row. An interactive host mails each text to the root of a
tree of agents and waits on a future; a run of the root may spawn children, whose
results come back as mails to the root. Interrupts close the tree's registry and
cancel its runs, and a reset then drops the tree. A Web thread puts a queue in
front of that: its inputs become run tasks, mails or steers of the run under way,
and what a run could not take comes back with its result. A tool call of a run that
needs consent awaits the approval manager, which the user answers from the Web
inbox or at the CLI's prompt. A tool call may also start a workflow, whose mappers
spawn children of the root and read their results off the root's mailbox while the
root's loop awaits the run that made the call. Cancels of scheduled runs come from
users (`cancel_run`), from REPLACE owners, from `aclose`, and from any process that
starts and runs `recover_stale_runs`. `PROJECT.json` lists all components with their
status, and the hazards at their lines.

## 2. Modules

| module | models |
|---|---|
| `RunLedger` | what the run history promises whoever writes it: one terminal state per run, and waiters who are told that state |
| `ScheduledRuns` | the manager and the bridge, over the durable rows, with the agents and the dispatcher reduced to what a scheduled run uses of them |
| `ScheduleTiming` | the pure time arithmetic; croniter is the one external definition |
| `DueTasks` | tasks of the store, the ticker, the router and the tool |
| `AgentSession` | one session's agent tree: dispatcher, agent manager, task registry and agent loops |
| `ApprovalPromise` | what a tool call may rely on: it gets one decision, and is approved only if someone allowed it |
| `Approvals` | the decision engine, the approval manager, the book of rules with its store, and the inbox |
| `PendingInputs` | the inputs of one Web thread, through queue, run tasks, root mailbox and the runner's steer buffer |
| `Workflow` | one map_reduce workflow call of a root's run: mappers, their children, the demux on the root's mailbox, interrupt and cancel |
| `MC...` | values of the constants for TLC, one for each module that is run |
| `InputLife` | what a Web thread owes to its inputs: each accepted one it has until it is heard, once, or dropped for good |
| `Queues` | taking items out of a queue, as `AgentSession` and `PendingInputs` do it |
| `RunLedgerProofs`, `ScheduledRunsProofs`, `DueTaskProofs`, `AgentSessionProofs`, `ApprovalProofs`, `PendingInputProofs`, `WorkflowProofs` | theorems, see 4 |
| `DataLemmas` | what those proofs need to know of numbers and queues |

`ScheduledRuns` implements `RunLedger` (`Ledger == INSTANCE RunLedger`): the rows
and results are the same, everything else is hidden. `Approvals` implements
`ApprovalPromise`: the decision is read off the pending's future and the call's
outcome, the rest is hidden. `PendingInputs` implements `InputLife`: the inputs the
thread has are those with a copy in one of its places. `DueTasks` and
`ScheduledRuns` meet at the reservation: `Submit` of the one is `Submit` of the
other.

### ScheduledRuns against the code

A run has three concurrent parts, and an action is what one of them does between
two awaits.

* The **owner** is `_run_cell`. `phase` is where it stands: waiting for its task's
  admission lock (`locking`), cancelling victims with the lock held
  (`replacing`), waiting for the semaphore (`gated`), awaiting the run
  (`driving`) or `dispatcher.aclose` (`closing`), notifying (`publishing`). The
  cell states of the code are unions of these: PENDING is everything up to
  `gated`, RUNNING is `driving` and `closing`, FINISHING is `publishing`.
  `thrown` holds the owners with an exception on its way.
* The **run task** is `scheduled_mail_run_bridge` with `execute_admitted`, run by
  the agent's loop. `agent` is where it stands; `acancel` is a CancelledError not
  yet delivered; `proposal` is what the runner came back with while delivery is
  under way.
* The **callers of `_cancel_cell`**, in `waiters`: users, REPLACE owners and
  shutdown. `CancelCell` is the part up to the first await, `AfterOwner` the part
  after it, where an owner cancelled before its first step must be finished by
  its canceller since none of its `finally` blocks ran.

Where asyncio makes a difference it is modelled: a task cancelled before it
starts runs nothing (`aborted`); `TaskRegistry.cancel_subtree` catches the
CancelledError of a REPLACE owner that awaits its victim's interrupt
(`Interrupting`), whose cancel therefore only survives in `requested`; a
CancelledError while the owner gathers a victim's owner is passed on to that
victim; locks are FIFO. The file lock is a possible failure (`Contended`) of each
locked write, before the first, or between the terminal row and what follows it.
Actions may be interleaved where the code does not yield, never the other way
round.

### DueTasks against the code

Instants are integers and stand for minutes. `Tick` is one whole pass of
`reserve_due_tasks` over all tasks, its save included; `Handed` is what a pass
gives out for a task, `Advanced` its new cursor. Each handler is one action,
`Update` being PATCH with a schedule, a lifecycle or both. `WebCreate` and
`ToolCreate` are the two surfaces that create a task: the router computes the
cursor and then awaits the task's thread, so its cursor may be counted from an
earlier instant (`Since`, bounded by one instant), the tool's cannot. `served`, `asked` and
`given` are history variables: they only record. The three misfire policies can
be found in a task file; the program's own surfaces write `skip`. `ToolRunNow` is the
tool's run_now: it reserves the window the cursor shows, often one yet to come, without
the store and without moving the cursor (`ToolWindow`), and submits it beside the
ticker's. `NoEarlyFire` is therefore about the ticker's reservations, and
`WindowsInOrder` says that the ticker hands out each window once and that the tool
takes none it has handed out; the ticker does hand out, when it comes, a window the
tool took ahead.

### AgentSession against the code

A text stands for its mail and its future, a child for its seed mail, its run and
its result mail. `loop[a]` is the agent_loop of `a`: at `mailbox.get` (`idle`),
awaiting its run (`busy`), or ended; `run[a]` is the run task, `doomed` the runs
with a CancelledError on its way, `record[a]` what the registry holds of the latest
run. An action is again what one coroutine does between two awaits:

* `RunText` is `run_text` up to its await, with the lazy boot; `RootTakes` and
  `KidTakes` are `_run_one_mail` up to `await run_task`, with the epoch gate and the
  registration that a closed registry refuses (`Refused`, `Start`); `RunEnds` is the
  task's end with its done callback; `RootResumes` and `KidResumes` are the rest of
  the turn: the oldest future is resolved (`Popped`), or the parent gets a mail.
* A controller is a coroutine in `interrupt`, `cancel_agent_run`, `reset_for_reuse`
  or `aclose`. `Cut` is `TaskRegistry.cancel_subtree` of one agent and `CutsDone`
  what follows the last; `StopLoop`, `LoopEnded` and `TornDown` are `teardown_root`,
  one loop after the other. Operations are sequences of these: `interrupt` alone,
  `stop` (an interrupt, then a reset: Ctrl-C, the Web's Stop), `close` (`aclose`),
  `drain` (`aclose(drain=True)`), `reset` (the Web's, of a tree left closed), and
  `cancel_child` (a workflow's timeout).

Resets meet. The CLI's loop stops, resets and drains one after the other, a Web
thread does it under `pending_input_lock`; but an eviction closes the dispatcher
without that lock, beside a Stop that cuts or tears down the same tree. Of two that
reset, one only closes (`HostAssumption`); interrupts and child cancels run beside both.
Two teardowns of one manager await the same loops and are woken one behind the other
with nothing between, so `TornDown` ends both; one that comes to its reset later finds
no manager (`Stopped`). Once a close has begun no text is posted (`shut`): a
scheduled run has had its one; a cell being evicted is blocked and out of the table,
its run task was cancelled and awaited first, and a run task made before that one has
taken its first step, which posts, before it. Which is why no new tree is booted
between the two resets. A session is drained, in the CLI, or closed, not both at once.
Between `Interrupt` and the first `Cut` other coroutines may step: they do in
the code if an external process is killed first, and otherwise the model allows
more than the code. A run's body is one step that may take any time. A cancelled
run returns a cancelled Result, which is emitted to the tree only. Children have no
children (`max_spawn_depth` is one by default). External processes are left out;
steering of a running turn is in `PendingInputs`.

### Approvals against the code

A request stands for one tool call of a thread. Its call coroutine is
`SafetyDecisionEngine.decide` down to `ApprovalManager.request`: `call` is where it
stands, from the snapshot of the book (`Snapshot`, `Ruled`) over the pending and its
announcement to the sinks (`Ask`, `Announced`) and the future (`Wake`) to the
cleanup (`Removed`, `Raised`). `Told` is the broadcaster getting its lock: until then
a cancel of the call takes the emit with it. Cancelled while announcing, or a second
time while raising, a call is `torn` and may leave its entry in the inbox.

The manager's own lock is never held across an await, so a `resolve` that has nothing
to remember runs through (`Resolve`). One that remembers (`ResolveRemember`) goes
through `write_entry`, and `stage` is where it stands: waiting for the thread's lock,
between the read of the book and its write, back with the outcome, or gone with an
error. Only the Web can remember: the CLI's payload carries no `rememberRule`, so there
such an answer is refused, the sink returns, and the request waits for its timeout
(`AnswerRefused`). A request handler of the Web is not cancelled while the process
lives, so neither is a resolve call. `SaveFails` lists how a save can fail: refused by
the file system, failing after the replace, or with an OSError of the lock file that
`resolve` does not catch. The timeout, the LLM reviewer with its
countdown, `cancel*` and `aclose` are the other ways a future gets set. In the CLI
the sink prompts and calls `resolve` itself, so the announcement lasts as long as
the answer. Which guard rule a call matches, and
the thread's mode, are choices: `AnswerAtOnce`, `AskAtOnce` and `Snapshot` stand for
the three ways they send a call.

### PendingInputs against the code

One input is one model value, from `_submit_pending_input` until it is in the
history. `queue`, `claims`, `current` and `block` are fields of `ThreadCell`;
`task[i]` is the run task started for an input, `ready` those the event loop has
not stepped yet, `left[i]` the `steer_undelivered` of its Result. `Post` is the first
step of `run_text`, `LoopTakes` the root loop's, and `stage` is where
`_run_with_seed` stands: before the buffer is registered (`starting`), before the
seed is in the history (`seeding`), between turns (`open`), with steers taken from the
buffer and not yet written (`injecting`, `settling`), in the hooks (`closing`). A
cancel is delivered at each of these awaits (`Strike`). `SteerNow`, `StartNow` and
`RefuseNow` are the branches of `send_pending_input_now`; `RunDone` and
`StaleRunDone` are `_handle_pending_run_done`. `Interrupt` holds `pending_input_lock`
until `TornDown`; `EvictMarks`, `EvictCancels` and `EvictCloses` are `evict_cell`,
which does not take the lock. `fate` is a history variable. The tree is a root
without children, of which `AgentSession` says more; a teardown that meets a loop
about to resume hangs here as it does there (`TeardownHangs`).

### Workflow against the code

A mapper task has a coroutine in `asyncio.gather` of `_run_mapper_tasks`; `mapper[t]`
is where it stands: waiting for the semaphore (`queued`), in `asyncio.wait_for`
(`awaiting`), with its timeout fired (`stopping`) or its cancel delivered
(`cancelling`) and awaiting the end of what it cancelled, or gone. `inner[t]` is the
`run_subagent_task` inside it: at `demux.wait` (`waiting`, or `deaf` when the demux
has been closed under it), in its TimeoutError handler (`timing out`), in its
CancelledError handler (`cut`), or back with an outcome. An attempt is a pair of a
task and a number, and stands for its child agent, TaskRecord and result mail;
`child[c]` is the child's run, `result[t]` the status in the task's result.json, which
all attempts share.

`Attempt` is one turn of the attempt loop up to its await, with the spawn that a
closed registry refuses and the demux that the first spawn opens. `InnerTimer` and
`OuterTimer` are the two timeouts over one wait; `scope` says whether the outer one is
the mapper's or what is left of the workflow's (`late`). `ChildStops` wakes whoever
awaits a cancelled child. `Pump` is one turn of the demux; while it is on, a mail is
read when it is put, since the demux is the only reader then. `Strike` delivers a
CancelledError to `result_task` and so to every mapper at once; an interrupt first
cancels the children one by one (`Cut`) as `AgentManager.cancel_subtree` does.
`GatherRaises` leaves the other mappers running, `Leave` is the `finally` of
`run_workflow` with `_finalize_cancelled_workflow`; `Awake` says that what is already
scheduled runs first, because the end of gather takes more turns of the event loop to
reach `run_workflow`. `asyncio.wait_for` and `gather` are those of Python 3.11, which
`.python-version` pins: a cancel that meets `wait_for` while it awaits what it timed
out leaves that behind.

## 3. Runs

| run | question | bounds |
|---|---|---|
| `runs_slots` | slots and resubmitted reservations | 4 runs, two of an ALLOW task of which the second resubmits the first one's reservation, two of a FORBID task; 1 slot, 1 retained cell |
| `runs_recovery` | crash and restart, a second process, hard delete, a failed first write, shutdown: is the ledger implemented, and does every accepted run resolve? | 2 REPLACE runs, 1 crash, three outcomes |
| `runs_contended` | do REPLACE runs exclude one another through every interleaving of cancels, and what survives a busy lock anywhere? | 3 runs, 2 slots: a victim, its canceller and a canceller of both; the lock busy at any locked write |
| `runs_contended_terminal` | violated, see 5 | 2 runs |
| `due_tasks` | windows in time, in order and once; manual requests exactly once; due windows served although manual requests take ticks | 1 task, 3 triggers (a one-shot created before and after its instant, a period, an uneven cron cycle), 3 misfire policies, 6 instants, 1 manual request, 1 reservation of the tool on its way, every handler, crashes |
| `due_oneshot_once` | violated, see 5 | 1 task |
| `agents_tree` | is a closed tree still, a reset clean, an answer that of its text; are callers answered, do interrupts return, do children leave? | 2 texts, 1 child, a host that stops, resets or drains, an eviction that closes and a coroutine that interrupts or cancels the child, 2 operations |
| `agents_ctrl_c` | violated, see 5 | 2 texts, no child, one Ctrl-C |
| `approvals` | one decision per call, approved only if allowed and in time; the saved rule is the answer, no edit of the book is lost, the inbox shows what is pending | 1 request in either host, cancelled at any await and again, 2 resolve calls, every failure of a save, 2 edits by others |
| `approvals_countdown` | violated, see 5 | 2 requests |
| `pending_inputs` | is every input in one place until it is heard once or dropped for good (`InputLife`), with only the named causes to lose it, and does none wait behind a run for ever? | 3 inputs, one of them an answer to a choice, two that may be steered; a queue of 2; interrupt, eviction and a failing history |
| `workflow` | do a task's attempts exclude one another, is the root spared the mappers' results, do a finished workflow's results stay, and does every foreign mail reach the root? | 2 mappers with 1 retry, both may run at once; every timeout; 1 text and 1 result of another tool call; an interrupt or a `cancel_workflow` |

Why these bounds are enough: exclusion, cancels and retention relate at most a
run, its victim and its canceller, hence three runs; recovery and contention
relate a run and its successor. Tasks of the store do not interact except through
the tick, which treats each by itself, so one task with all triggers and policies
shows what several would. Six instants hold more than a period of the longest trigger, with graces of one and two instants so that on time, late within
grace and stale all occur. In a session the
hazards relate a text, the one behind it and the future of each, and two siblings
of which one is cut while the other starts, under at most two overlapping
operations: two texts, one child beside the root, two operations. Requests meet only
in the book, its lock and the cache, which `EditBook` lets others change at any
moment: one request is enough, and the theorems are about any number. A second
resolve call is what a save that failed needs to be tried again. Of inputs, one
runs, one is steered into it or queued behind it, and one races them; capacity two
because a full queue only refuses. Mappers meet in the demux, in gather and in the
interrupt's order: one that raises and one that is left running are two; a retry is
one more attempt. With two mappers and two slots the semaphore is never full: it
delays a mapper's start, which `Start` may do anyway. `CHECK_DEADLOCK FALSE`: a
manager with all run numbers
used and every run ended has nothing left to do, and the clock stops at its
horizon; a session with all texts answered, a thread with all inputs done, a call with
its answer and a workflow that is over are at rest.

Properties, and what would break them, are commented where they are stated. Each
has a mutant of a mapped definition that TLC finds violated: an admission that
looks only at RUNNING cells, a REPLACE owner that does not await its last victim,
a slot that is only taken by the durable start, a skip that is not persisted,
pruning of live cells, a restart without recovery, a terminal row appended without
compare-and-set, a cron match that counts the instant itself, a manual request
that stays pending, a closed registry that goes on registering, a cancelled future
taken out of the FIFO, a teardown of the root's loop only, a timeout that stays off after a
failed save, a compare of revisions only when the book is read, a run's end that
does not requeue what came back, a timed-out child whose end is not awaited, a demux
that forgets what it ignores or gives back only half, and so on.

### Fairness

`ScheduledRuns!Fairness`: weak fairness of every owner, run task and canceller.
The event loop runs each ready coroutine, and a runner returns by itself, at
`max_turns`, or cancelled by its inactivity watchdog. Users, deadlines, other
processes and crashes are not fair. `DueTasks!FairSpec`: `run_ticker_loop` ticks
and submits for as long as the process lives; the clock and the handlers are not
fair. `AgentSession!Fairness`: agent loops, run tasks and controllers that have
begun an operation; whether anyone interrupts, resets or spawns is not fair.
`Approvals!FairSpec`: the call, a resolve call under way and the timeout task, each
of which the loop or a timer resumes; the user, the reviewer and its countdown owe
nothing, so a call is decided because its timeout is armed. `PendingInputs!Fairness`:
run tasks, the root loop, a run that is left alone, and teardowns and evictions that
have begun; users, interrupts and evictions owe nothing. `Workflow!Fairness`: what the
event loop and its timers do of themselves; nothing is assumed of a child's own run,
which the timeouts end, and no user has to stop anything.

## 4. Proofs

`ScheduledRunsProofs`, for any runs, tasks, policies, slots, retention,
disturbances and with or without a contended lock:

* `TypeCorrect` - every reachable state is well typed. `TypeOK` is not inductive:
  `DeliveryEnds` writes `proposal`, which is "none" until the runner returned, and
  a final run is read from a row that must exist. `BridgeInv` says that a run task
  exists only under an open dispatcher, executes only with a row, and delivers
  only with a proposal.
* `SerialRuns` - two runs of a FORBID or REPLACE task never execute together. The
  invariant is `SerialInv == TypeOK /\ BridgeInv /\ AdmissionInv`. `AdmissionInv`
  says of two runs of such a task, the earlier not yet ended: the later one is not
  past admission, and while it is replacing (and not itself being thrown out) the
  earlier one is on its list or is the one it awaits. Exclusion follows because
  executing implies a dispatcher, which implies both admitted and unfinished. The
  lemmas go one action at a time (`TypeStep`, `BridgeStep`, `AdmissionStep`).
* `CancelReturnsSettled` - `CancelSettles`: when `_cancel_cell` comes back, to a user or
  to the owner of a REPLACE, its run executes nothing any more and its row is
  terminal, also with the lock contended. The owner's end gives the first half
  (`BridgeInv`: only an open dispatcher has a run task); the second needs `DurableInv`,
  that a cell past `_finish_cell` has a final run, and `FinalInv`, that the row of such
  a run is closed. Where the owner ended without one, cancelled before its first step
  or dead in FINISHING, the canceller itself writes the row (`AfterOwner`).
* `BoundedInflight` - never more than `MaxInflight` runs execute. The invariant
  counts the runs with an open dispatcher, not the executing ones: that set is
  finite and within the bound, only `Dispatch` enlarges it and only behind
  `SlotFree`, and executing implies membership (`BridgeInv`).
* `RunningHasOwner` - `NoStrayRunning`: in a live process a
  RUNNING row of an existing task has an owner with an open dispatcher. It is
  strengthened by `FinalInv` (a cell's final run is one whose row is terminal)
  and `FreshInv` (a cell before its bridge has no final run): without the first a
  dispatcher could close over a row that its skip does not touch, without the
  second `BridgeStarts` could reopen a row that a final run already speaks of. A
  dying process leaves stray rows, and `Boot` recovers before anything else runs.
* `ResultStays` - `ResultIsDurable`: what the waiters of a run are told is what its
  row says, also when other processes hold the file lock. A row may then be settled
  twice (`runs_contended_terminal`), but not once it was published: `DurableInv`
  says that a cell's final run is its row's status and that a result is its final
  run, and that a cell whose owner is not yet past `_finish_cell` has published
  nothing. It needs `OwnedInv`, for the bridge of a settled cell writes no row.

* `OneRunPerReservation` - a reservation never has two
  unfinished cells. `RetainedInv`: a live cell is indexed, because only finished
  ones are pruned. A submission is refused while the index knows the reservation,
  and every other step only ends cells (`LiveShrinks`).
* `ImplementsLedger` - `~Contended => (Spec =>
  LedgerSpec)`: without another process on the lock, every step is a step of the
  abstract history or leaves it alone. The strengthening is `HistoryInv`. `RowInv`:
  a final run is the row, and a cell whose run task returned without a final run
  has no row, so the skip that `_finish_cell` records never overwrites one.
  `DoomedInv` is why that is so: whoever has a cancel coming had it requested, and
  if it already executes its row was closed by `cancel_admitted_run` before the
  interrupt. `PublishedInv`: results are given out once, when the cell ends.
  The assumption is needed: `runs_contended_terminal` is the counterexample
  without it. `TerminalRowsStay` draws `FirstTerminalWins` from the same invariant.

`RunLedgerProofs`: the abstract history keeps its promises
(`LedgerResultIsDurable`, `LedgerFirstTerminalWins`), through the invariant that
whatever was published is the terminal status of its row.

`AgentSessionProofs`, for any texts, children, controllers and number of
operations:

* `NoRunInClosedTree` - `NothingRunsInClosedTree`: once every interrupt has
  returned, what still runs in a closed tree has a cancel coming. `RunInv` says that
  a run without one is held by the registry as running, `CutInv` that in a closed
  tree whatever is pending or running is still on the list of someone who is
  cutting. The closed registry is what keeps `CutInv`: a loop that takes a mail
  behind the cut finds its registration refused.
* `ResetIsClean` - `ResetLeavesNothing`: when the manager is dropped after an
  interrupt, no loop of the tree lives and none of its runs goes on. `TearInv`: every
  live loop is one the teardown still has to stop or is waiting for. It needs that
  no loop starts behind the snapshot, hence `HostInv`: whoever resets without
  draining has a closed registry, or has lost its manager to another reset. Of the two
  one is a close (`HostAssumption`), and behind a close nobody boots another tree with
  an open registry. `LoopInv` (a run has a loop that awaits it) and `BootInv` (no
  manager, neither root loop nor tree) carry it over runs.
* `OwnResult` - `OwnResultUnlessFed`: unless the root has run a child's result, a call
  returns the Result of its own text. `Aligned` is the reason: as long as nothing but
  texts was run, the futures are those of the text in hand and of the texts in the
  mailbox, in their order, through cancelled callers, interrupts and resets.
  `WorkInv` says when the root has a mail in hand. `SessionTypes` - `TypeOK` - comes
  from the same invariant, `TextInv`, which stands on `SessionInv`.

`DueTaskProofs`, for any tasks, triggers, policies, grace and horizon:

* `WindowsAreInOrder` - `WindowsInOrder`: the ticker reserves the formal windows of a
  recurring task in order, so none twice, and the tool's run_now none of them again. It
  rests on what `compute_next_run_at` returns:
  `NextMatchIsFirst` says that the next match of a cron expression exists, lies within
  one period and passes over none, `NextRunIsLater` that no trigger gives back the
  instant it was asked at or an earlier one. `Cursors` relates the clock to the
  tasks: a recurring task has a cursor, past whatever it was served, and nothing was
  served or asked for in the future.
* `NothingFiresEarly` - what the ticker hands out has come, beside reservations of the
  tool that have not; `TaskFileTypes`. Both from the same invariant, `Inv`.
* `TicksMoveOn` - a tick that consumes a window leaves the cursor in the future,
  however late it is, and passes over no match on the way there: a backlog costs one
  window and never more. No run checks this one; it is a consequence of the lemmas.
* `ManualRequestsAreKept` - `ManualOnce`: requests asked for are those given out and
  the one pending. Only `Tick` and `RunNow` touch the three.

`ApprovalProofs`, for any requests, rules, hosts, faults and numbers of tries and
edits:

* `KeepsThePromise` - `Spec => PromiseSpec`, the refinement, from which
  `ApprovedWasAllowed` follows: no call is approved that no user, rule or reviewer
  allowed. `ApprovalInv` has five parts. `PlaceInv`: what a request has (a pending,
  tasks, a resolver) at each place of its call, so a call that has ended or not begun has
  nothing left that could act. `OwnsInv`: a resolve call that is going to answer owns
  its request, so nobody else settles it meanwhile. `AnswerInv` relates the future to
  the outcome, `AllowedInv` says that whatever would approve a call (a said "allow",
  a countdown, an allowing future) was allowed, `KeptInv` that a verdict saved for a
  request is the one its call gets.
* `SavedRuleIsTheAnswer`, `InboxIsPending` and `FailsClosed` - from the same
  invariant: a rule is never reported saved for a call that got another answer; the
  inbox shows no request that is gone, unless its call was torn; an undecided pending
  has its timer or a resolve call at work that will answer it or start the timer again
  (`Manned`: whatever is being resolved has such a call), unless its save raised.
* `NoEditIsLost` - a save changes the book only while its revision is the one that
  was asked at, so it never overwrites an edit made meanwhile.

`PendingInputProofs`, for any inputs, capacity and disturbances:

* `RunEndMeetsOpenRegistry` - `ClosedIsBeingReset`: the end of a run never finds a
  closed registry, on which it would reset the tree and drain the queue. Alone it is
  not inductive. `RunTasks` says that a cell blocked by its eviction gets no new run,
  `ClosedWhileReset` that only a reset under way has the registry closed, `EvictOrder`
  how far the eviction is when it closes.
* `EvictedStartsNothing` - the end of a run on an evicted cell starts no other.
* `InputsAreAccounted` - `Accounted`: an accepted input is in one place, and there once;
  any other is nowhere. The invariant is `InPlace`, which the other results on inputs
  share. `Kept`: accepted is what is somewhere, in the queue, a run task, the mailbox, the
  steer buffer, a turn's hands, or a Result nobody has dealt with. `Single`: in no queue
  twice. That it is not in two of them shows in two ways, `TaskOf` where its run task
  tells the places apart, `Apart` where it has none. `Stage` says what the buffer and a
  turn may hold at a stage of the run, `Awaited` that a run is waited for until an
  eviction cancels its task: without it a Result could be answered to nobody.
* `ImplementsLife` - `Spec => LifeSpec`, the refinement. `OneCopy` turns a copy in some
  place into a fate, `FateSteps` says what a step does to fates: one input is submitted,
  heard or cancelled, or some are lost.
* `NeverHeardTwice` and `SteersKeepClaims` - `HeardOnce`: only what is accepted gets into
  the history, and in one place it can get there from one place only. `ClaimKept`: what
  the current run may still give back has its claim. `InputInv` holds them, `InPlace`
  and the types, and `InputTypes` is read off it.
* `LossesHaveCause` and `FatesAreFinal` - an input is lost only to an interrupt, an
  eviction, a history that cannot be written, or as a steer given back by a run that is
  no longer the current one; what was cancelled, heard or lost stays that. Both say of
  each step which inputs it moves, by `InPlace`.

`WorkflowProofs`, for any tasks, retries, concurrency, mails and stops:

* `RetriesExclude` - `AttemptsExclude`: no two attempts of a task have live children.
  `Base` ties the mapper, its `run_subagent_task` and its children together: whatever
  of a task is alive belongs to its current attempt (`Owned`), and a mapper whose
  inner call is back has no live child, because both handlers of the call await the
  child's end. `Mapping` says what a
  mapper's inner call can be where it stands, `Phases` what has ended or struck where
  `run_workflow` stands.
* `FinalizedIsFinal` - `FinalizedStays`: after `run_workflow` has left, no result.json
  changes, unless `cancel_workflow` was used. `Quiet`: an interrupt strikes only when
  every child has ended, so from then on no mapper waits in `demux.wait` or in one of its
  handlers, from which it could still write, and none is about to go on when
  `run_workflow` leaves (`Awake`).
* `OwnResultsAreHeard` - `OwnResultsStay`. The root's loop can take a result only from the
  mailbox after the workflow is over. `Heard`: while it is active, a child that may
  still mail is awaited at the demux or ignored by it, the demux is on as long as there
  is one, and neither mailbox nor cache holds a mapper's result. `Clean`: a workflow
  that nothing stopped leaves no child behind; after an interrupt the epoch gate drops
  what comes. `Kept`: what is set aside are texts.
* `WorkflowTypes` - `TypeOK`. An attempt's number is in range because `Resume` tries again
  only below the limit (`Base`).

Assumptions are the named ones on the constants: run numbers are positive, each
run has a task and each task a policy, outcomes are terminal values of RunStatus
that a runner can produce, limits are positive; of a trigger, that it is a one-shot or
recurs within its period, and that graces are ordered; of a session, that texts, children and
the root have different names and that of two controllers that reset one only closes; of a workflow, that
mails are told apart and that `cancel_workflow` comes with at most one retry.

`DataLemmas`. The induction theorems of the library take an operator, which the provers
cannot instantiate. What a proof needs of numbers and queues is therefore proved by
induction over a set: `NatSetInduction`, from the well-foundedness of strict inclusion
on finite sets, and `SeqSetInduction` from that. With them `LeastNat`, which gives
`NextMatch` its value; what `Only` of `Queues` does to an `Append`, a `\o`, a `Head` and
to itself; and what appending, joining, taking the head off and filtering do to the items of a
queue without repetitions. `Only` is a recursive function where `SelectSeq` would do,
because the provers know nothing of `SelectSeq`.

Every safety invariant and action property of a passing run is stated by a theorem.
Only model-checked are:

* liveness: `Resolved`, `DueIsServed`, `Answered`, `InterruptReturns`, `ChildrenLeave`,
  `Decided`, `Serviced` and `MailTaken`. Fairness is beyond the prover, for it has no rules
  for ENABLED;
* the disagreements of section 5, each of which is a counterexample;
* what croniter computes, which is a definition of the model (`NextMatch`).

## 5. Where code and text disagree

1. `runs_contended_terminal` - `finish_run_if_running` promises one logical
   terminal state. `_persist_terminal_run` writes the row and then, under the lock
   again, `last_run_at`. If another process holds the lock at that moment the
   error discards the final run, and `_finish_cell` records a skip over the
   terminal row: a completed run ends up CANCELLED.
2. `due_oneshot_once` - the docstring of `reserve_due_tasks` makes a one-shot due
   only if `last_run_at is None`; the code does not look. A web resume within the
   grace runs the window again.
3. `agents_ctrl_c` - `teardown_root` cancels the root's agent_loop and awaits it, and
   a comment in `agent_loop` says that the loop exits when its tree is destroyed. A
   loop that awaits its run passes the cancel on to the run, catches the
   CancelledError as the run's own, and goes back to its mailbox: `reset_for_reuse`
   waits for ever. It takes two texts queued in the CLI and one Ctrl-C. The real
   classes, driven with a stub runtime through that sequence, hang the same way.
4. `approvals_countdown` - `docs/modules/安全/README.md` says that a user's resolve
   within the countdown ends the automatic approval. A refusal to be remembered that
   cannot be saved is put back with its timeout, and the countdown goes on: it then
   approves the call that the user refused.

One more concerns `Approvals` and has no run of its own: the docstring of
`_restore_after_failed_resolve` (`safety/approval/manager.py:419`) says that a failed
save brings back the request and its fail-closed timeout, but an OSError of the lock
file (`_exclusive_file_lock` opens it outside every handler) passes
`_write_remembered_decision` and `resolve`: the request stays in `_resolving` with its
timeout cancelled, nobody can settle it any more, and its tool call waits until its run
is cancelled. `FailClosed` and `Decided` name this hole (`Abandoned`).

Two more were met while modelling `DueTasks` and have no run of their own: the
docstring of `resume_cron_task` answers 400 for an expired one-shot, but
`compute_first_run_at` never raises for one, and the task stays SCHEDULED and never
fires; the comment in `update_cron_task` gives an exhausted one-shot a new life
when its schedule is changed, but the code does so only if the new schedule is
again a one-shot.

What `AgentSession` shows without a text that says otherwise: a run of the root for
a child's result answers the oldest waiting text (`OwnResultUnlessFed` says it is
the only way to a wrong answer), and a drain that runs into its five seconds can
leave a child behind (`ResetLeavesNothing` is about the other operations). What
`PendingInputs` shows in the same way: an input sent now behind a run that takes no
steers starts a second run task, and the first one's end is then stale and drops the
steers it gave back; on a closed registry such an input is gone; an interrupt while
steers are being written loses those not yet written; steers that come back are put
into a queue that may be full; an input submitted to a cell that was evicted behind
`boot_or_attach` is accepted into a queue nobody drains; a teardown that hangs
holds the thread's lock. In the CLI, the repost of steers that come back
(`host_dispatcher.py:384`) turns the dicts the runner writes into their repr.

What `Workflow` shows: `cancel_workflow` has no caller in the hosts, and would not do
what `README.en.md:188`, its docstring and that of `ActiveWorkflowHandle` say, cancel a
workflow without its parent run. The CancelledError of `result_task` leaves
`run_workflow` as a CancelledError and the tool with it, so the parent's run ends
cancelled. The registry is open then, and a mapper that awaits its timed-out child
goes on: it writes `failed` over the `cancelled` of the finalization (`FinalizedStays`
leaves this out), retries in a workflow that is over, and the child's result reaches
the root's loop (`OwnResultsStay` leaves this out). While a workflow runs
the root's mailbox is not the FIFO of `docs/modules/命令行/message-flow-sequence.md:7`:
the demux puts the texts it set aside behind one that was posted while it closed.

What `Approvals` shows: a call cancelled while it announces its pending leaves it
behind, with its entry in the inbox; a second cancel while the removal waits for the
broadcaster's lock leaves the entry of a request that is gone.

Also met: an exhausted one-shot given a recurring schedule stays exhausted, and one
resumed by the tool stays without a cursor; the tool's run_now runs a task's next
window, which the ticker reserves again when it comes; a one-shot missed beyond its grace stays SCHEDULED for ever;
delivery precedes the terminal row, and can have happened for a run that is then
cancelled; an owner awaiting a drain that times out leaves a child that the root
spawned behind the snapshot.

## 6. Not modelled, and why

In the modelled parts: wording of reasons and audits, the contents of runs, model
and provider assembly (each is only an outcome), notifications that cannot fail a
run, seen marks and lists, the schema migration, a wall clock that steps back, and
a task file edited into something the domain rejects. Reservation fingerprints are
left out: one id always carries one payload. A FORBID or REPLACE exclusion across
processes is not promised by the code and not stated. Delivery precedes the
terminal row and can have happened for a run that is then cancelled; nothing in
the repository says otherwise.

Approvals: deleting a thread's book and its migration, listings, and the inbox's
subscribers. Pending inputs: the switch of the runtime preset before a start, edits of
a queued input's text, versions and broadcasts, and the resend of what a page missed.

Workflows: the order of mails and of waiting mappers, the planner and the validator,
the reducer's verdict, audits, reports and progress, and a write that fails (an OSError
in one mapper makes gather raise and leaves its siblings behind a closed demux); a
teardown that drains while a workflow runs; a third attempt after `cancel_workflow`,
which could open a demux that nobody closes. The parallel strategy, deep_research,
roundtable_review and task_flow use the same demux and children in phases of their
own.

Other components are listed with their reasons in `PROJECT.json`.

## 7. Plan

In this order:

1. **Runs and due tasks** (done): the modules above, exclusion, slots,
   ownership and the refinement of `RunLedger` proved, and of the due tasks their
   windows and requests.
2. **Agents** (done): one session's tree, with its safety theorems.
3. **Approvals** (done): the abstract promise, the manager and book that implement it,
   and the refinement proved.
4. **Pending inputs of a Web thread** (done): queue, claims, steers and eviction, with
   liveness; the closed registry and the refinement of `InputLife` proved.
5. **Workflow manager with map_reduce** (done): mappers, retries and the demux, with
   three safety theorems and liveness.
6. **Two processes over the task file**: the read-then-write of PATCH, resume and
   run-now split at the unlock, two tickers; and the composition of `DueTasks`
   with `ScheduledRuns` through reservations, with `last_run_at` as a value.
7. **Core runner**: turns, tool batches, cancellation between call and result.
8. **The other workflow strategies** over `Workflow`'s children and demux, and the
   replay of a thread to a page that was away.

Theorems planned: the order of a thread's queue, choices first, as an invariant; an
abstract specification of a mapper's result (one file, from one attempt, final) that
`Workflow` implements.
