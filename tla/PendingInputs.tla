--------------------------- MODULE PendingInputs ---------------------------
(***************************************************************************)
(* The inputs of one Web thread: the queue, the send-now claims and the     *)
(* current run task of its ThreadCell (ThreadManager), the tasks that wait  *)
(* for their Results (HostDispatcher.run_text), the root mailbox with the   *)
(* loop that serves it, and the steer buffer of the run (Runner).           *)
(*                                                                         *)
(* All of it runs on one event loop: an action is what one coroutine does   *)
(* between two awaits, or under pending_input_lock where nothing it awaits  *)
(* suspends.  A run task is named after the input it was started for.  The  *)
(* root has no children here (AgentSession has them), and sequence numbers  *)
(* are the order they give.                                                *)
(***************************************************************************)
EXTENDS Integers, FiniteSets, SequencesExt, Queues

CONSTANTS
  None,
  Inputs,        \* what users submit to the thread
  Answers,       \* those of priority choice_response
  Plain,         \* those whose metadata lets them into a run under way
  MaxPending,    \* MAX_PENDING_INPUTS
  Outcomes,      \* how a run that is left alone may end
  Disturbances   \* "interrupt", "evict", "append error"

ASSUME NoneAssumption == None \notin Inputs
ASSUME ClassesAssumption == Answers \subseteq Inputs /\ Plain \subseteq Inputs
ASSUME MaxPendingAssumption == MaxPending \in Nat \ {0}
ASSUME OutcomesAssumption == Outcomes \subseteq {"complete", "terminal"}

VARIABLES
  queue,     \* pending_inputs, in the order _ordered_pending_inputs gives
  claims,    \* pending_input_send_now_claims
  current,   \* current_run_task
  block,     \* pending_input_drain_block_reason
  evicting,  \* status is EVICTING, the cell is out of the table
  task,      \* input -> its run task, see TaskStates
  ready,     \* tasks created that have not taken their first step
  ended,     \* input -> how its run ended
  left,      \* input -> steer_undelivered of its Result
  booted,    \* the dispatcher has an AgentManager
  closed,    \* its registry is closed
  mailbox,   \* the root mailbox
  run,       \* the input whose run the root loop awaits
  stage,     \* where that run is, see Stages
  struck,    \* it has a CancelledError on its way
  buffer,    \* _SteerBuffer.items
  taking,    \* steers a turn has taken out of it and not yet put in history
  outcome,   \* how its turns ended
  reset,     \* interrupt and reset of the tree: "none", "cutting", "tearing", "stuck"
  locked,    \* interrupt_agent_tree holds pending_input_lock
  evict,     \* how far evict_cell is: "none", "marked", "cancelled", "closed"
  fate       \* history: input -> what became of it, see Fates

cell  == <<queue, claims, current, block, evicting>>
tasks == <<task, ready, ended, left>>
tree  == <<booted, closed, mailbox>>
runner == <<run, stage, struck, buffer, taking, outcome>>
ctl   == <<reset, locked, evict>>
vars  == <<cell, tasks, tree, runner, ctl, fate>>

TaskStates == {"none", "created", "waiting", "resolved", "finished", "handled"}
Stages == {"idle", "starting", "seeding", "open", "injecting", "settling", "closing", "returned"}
Ends   == {"none", "complete", "terminal"}
Fates  == {"absent", "accepted", "cancelled", "heard", "repeated", "lost"}
Blocks == {"none", "evicted", "registry closed"}

TypeOK ==
  /\ queue \in Seq(Inputs) /\ claims \subseteq Inputs
  /\ current \in Inputs \cup {None} /\ block \in Blocks /\ evicting \in BOOLEAN
  /\ task \in [Inputs -> TaskStates] /\ ready \in Seq(Inputs)
  /\ ended \in [Inputs -> Ends] /\ outcome \in Ends
  /\ left \in [Inputs -> Seq(Inputs)]
  /\ booted \in BOOLEAN /\ closed \in BOOLEAN /\ mailbox \in Seq(Inputs)
  /\ run \in Inputs \cup {None} /\ stage \in Stages /\ struck \in BOOLEAN
  /\ buffer \in Seq(Inputs) /\ taking \in Seq(Inputs)
  /\ reset \in {"none", "cutting", "tearing", "stuck"} /\ locked \in BOOLEAN
  /\ evict \in {"none", "marked", "cancelled", "closed"}
  /\ fate \in [Inputs -> Fates]
  /\ run = None <=> stage = "idle"

Init ==
  /\ queue = <<>> /\ claims = {} /\ current = None /\ block = "none" /\ evicting = FALSE
  /\ task = [i \in Inputs |-> "none"] /\ ready = <<>>
  /\ ended = [i \in Inputs |-> "none"] /\ left = [i \in Inputs |-> <<>>]
  /\ booted = FALSE /\ closed = FALSE /\ mailbox = <<>>
  /\ run = None /\ stage = "idle" /\ struck = FALSE /\ buffer = <<>> /\ taking = <<>>
  /\ outcome = "none" /\ reset = "none" /\ locked = FALSE /\ evict = "none"
  /\ fate = [i \in Inputs |-> "absent"]

-----------------------------------------------------------------------------
(* Helpers *)

\* By priority, then by sequence.
Ordered(s) == Only(s, Answers) \o Only(s, Inputs \ Answers)
Without(s, i) == Only(s, Inputs \ {i})

\* current_run_task is there, and is not done().
HasActiveRun == current # None
Active == HasActiveRun /\ task[current] # "finished"

\* Runner.steer finds a buffer that is not closed.
SteerOpen == stage \in {"seeding", "open", "injecting", "settling", "closing"}

Heard(i) == [fate EXCEPT ![i] = IF @ = "heard" THEN "repeated" ELSE "heard"]
Lost(S)  == [i \in Inputs |-> IF i \in S /\ fate[i] = "accepted" THEN "lost" ELSE fate[i]]

\* _start_pending_input_run, when the run tasks are t
Start(i, t) ==
  /\ current' = i
  /\ task' = [t EXCEPT ![i] = "created"] /\ ready' = Append(ready, i)

\* _pop_next_pending_input of q, and the start of what it gives
StartNext(q, t) == \E i \in Inputs : i = Head(q) /\ queue' = Tail(q) /\ Start(i, t)

-----------------------------------------------------------------------------
(* What users do.  A frame's handler got the cell from boot_or_attach before  *)
(* it waited for the lock: the cell may be evicted by now.                    *)

\* _submit_pending_input.  A full queue refuses; the input does not count.
Submit(i) ==
  /\ ~locked /\ fate[i] = "absent"
  /\ LET q == Ordered(Append(queue, i)) IN
       \/ /\ HasActiveRun \/ block # "none" \/ closed
          /\ Len(queue) < MaxPending
          /\ queue' = q
          /\ block' = IF HasActiveRun \/ block # "none" THEN block ELSE "registry closed"
          /\ UNCHANGED <<current, task, ready>>
       \/ /\ ~HasActiveRun /\ block = "none" /\ ~closed
          /\ StartNext(q, task) /\ UNCHANGED block
  /\ fate' = [fate EXCEPT ![i] = "accepted"]
  /\ UNCHANGED <<claims, evicting, ended, left, tree, runner, ctl>>

\* cancel_pending_input
Cancel(i) ==
  /\ ~locked /\ i \in ToSet(queue)
  /\ queue' = Without(queue, i)
  /\ fate' = [fate EXCEPT ![i] = "cancelled"]
  /\ UNCHANGED <<claims, current, block, evicting, tasks, tree, runner, ctl>>

\* reorder_pending_inputs: the order the user dragged, choices still first.
Reorder ==
  /\ ~locked /\ queue # <<>>
  /\ \E s \in SetToSeqs(ToSet(queue)) : queue' = Ordered(s)
  /\ UNCHANGED <<claims, current, block, evicting, tasks, tree, runner, ctl, fate>>

\* send_pending_input_now: into the run under way if that takes steers, else as
\* a run of its own, behind the one under way if there is one.
SteerNow(i) ==
  /\ ~locked /\ i \in ToSet(queue) /\ Active /\ i \in Plain /\ SteerOpen
  /\ buffer' = Append(buffer, i) /\ claims' = claims \cup {i}
  /\ queue' = Without(queue, i)
  /\ UNCHANGED <<current, block, evicting, tasks, tree, run, stage, struck, taking, outcome, ctl, fate>>

StartNow(i) ==
  /\ ~locked /\ i \in ToSet(queue) /\ ~closed
  /\ \/ Active /\ i \in Plain /\ ~SteerOpen
     \/ ~Active /\ block = "none"
  /\ queue' = Without(queue, i) /\ Start(i, task)
  /\ UNCHANGED <<claims, block, evicting, ended, left, tree, runner, ctl, fate>>

\* A closed registry stops both: the cell is blocked, but behind a run that takes
\* no steers the input has left the queue when the start is refused.
RefuseNow(i) ==
  /\ ~locked /\ i \in ToSet(queue) /\ closed /\ block' = "registry closed"
  /\ Active => i \in Plain /\ ~SteerOpen
  /\ IF Active THEN queue' = Without(queue, i) /\ fate' = Lost({i})
               ELSE UNCHANGED <<queue, fate>>
  /\ UNCHANGED <<claims, current, evicting, tasks, tree, runner, ctl>>

-----------------------------------------------------------------------------
(* The run task: run_text posts the mail and waits for its future;           *)
(* render_result; the done callback's drain task.                            *)

Post ==
  /\ ready # <<>> /\ task[Head(ready)] = "created"
  /\ task' = [task EXCEPT ![Head(ready)] = "waiting"]
  /\ mailbox' = Append(mailbox, Head(ready))
  /\ ready' = Tail(ready) /\ booted' = TRUE
  /\ UNCHANGED <<cell, ended, left, closed, runner, ctl, fate>>

Render(i) ==
  /\ task[i] = "resolved" /\ task' = [task EXCEPT ![i] = "finished"]
  /\ UNCHANGED <<cell, ready, ended, left, tree, runner, ctl, fate>>

\* Mutant: what the run gave back is not requeued.
RequeuedNothing(i) == queue

\* _prepend_undelivered_pending_inputs: what the run gave back comes first.
Requeued(i) == Ordered(left[i] \o queue)

\* The queue drains behind a run that completed, on a cell that is neither
\* blocked nor evicted; a registry found closed is reset, and then only the
\* run's end counts.
Drains(i) ==
  /\ ended[i] = "complete"
  /\ closed \/ (~evicting /\ block = "none")

\* _handle_pending_run_done of the current task.
RunDone(i) ==
  /\ ~locked /\ task[i] = "finished" /\ current = i
  /\ claims' = {}
  /\ LET handled == [task EXCEPT ![i] = "handled"] IN
       IF Drains(i) /\ Requeued(i) # <<>>
       THEN StartNext(Requeued(i), handled)
       ELSE queue' = Requeued(i) /\ current' = None /\ task' = handled /\ UNCHANGED ready
  /\ UNCHANGED <<block, evicting, ended, left, tree, runner, ctl, fate>>

\* A task that is no longer the current one: its Result is dropped.
StaleRunDone(i) ==
  /\ ~locked /\ task[i] = "finished" /\ current # i
  /\ task' = [task EXCEPT ![i] = "handled"]
  /\ fate' = Lost(ToSet(left[i]))
  /\ UNCHANGED <<cell, ready, ended, left, tree, runner, ctl>>

-----------------------------------------------------------------------------
(* The root loop and the run                                                *)

\* A registry that is closed refuses the run, which is cancelled unstarted.
LoopTakes ==
  /\ run = None /\ mailbox # <<>>
  /\ run' = Head(mailbox) /\ mailbox' = Tail(mailbox)
  /\ IF closed
     THEN stage' = "returned" /\ outcome' = "terminal" /\ fate' = Lost({run'})
     ELSE stage' = "starting" /\ outcome' = "none" /\ UNCHANGED fate
  /\ UNCHANGED <<cell, tasks, booted, closed, struck, buffer, taking, ctl>>

\* _run_with_seed registers the buffer, then puts the input in the history.
Register ==
  /\ stage = "starting" /\ ~struck /\ stage' = "seeding"
  /\ UNCHANGED <<cell, tasks, tree, run, struck, buffer, taking, outcome, ctl, fate>>

Seed ==
  /\ stage = "seeding" /\ ~struck
  /\ stage' = "open" /\ fate' = Heard(run)
  /\ UNCHANGED <<cell, tasks, tree, run, struck, buffer, taking, outcome, ctl>>

\* _drain_steer_buffer at the start of a turn: all of it is taken, then each
\* steer is appended to the history and announced, and the announcement
\* settles its claim under the lock.
TakeSteers ==
  /\ stage = "open" /\ ~struck /\ buffer # <<>>
  /\ taking' = buffer /\ buffer' = <<>> /\ stage' = "injecting"
  /\ UNCHANGED <<cell, tasks, tree, run, struck, outcome, ctl, fate>>

Inject ==
  /\ stage = "injecting" /\ ~struck
  /\ fate' = Heard(Head(taking)) /\ stage' = "settling"
  /\ UNCHANGED <<cell, tasks, tree, run, struck, buffer, taking, outcome, ctl>>

\* Mutant: an announcement settles every claim.
EveryClaimSettled(i) == {}

ClaimSettled(i) == claims \ {i}

Settle ==
  /\ stage = "settling" /\ ~struck /\ ~locked
  /\ claims' = ClaimSettled(Head(taking)) /\ taking' = Tail(taking)
  /\ stage' = IF Tail(taking) = <<>> THEN "open" ELSE "injecting"
  /\ UNCHANGED <<queue, current, block, evicting, tasks, tree, run, struck, buffer, outcome, ctl, fate>>

\* What the history is still to get: the input of the run, or what a turn took.
Unheard == IF stage = "seeding" THEN <<run>>
           ELSE IF stage = "settling" THEN Tail(taking) ELSE taking

\* The run's last turn is over, or the history cannot be written, which leaves
\* what was on its way there nowhere.  The buffer stays open for the hooks after
\* the run.
TurnsEnd ==
  /\ ~struck
  /\ \/ stage = "open" /\ outcome' \in Outcomes
     \/ /\ stage \in {"seeding", "injecting"} /\ "append error" \in Disturbances
        /\ outcome' = "terminal"
  /\ stage' = "closing" /\ taking' = <<>> /\ fate' = Lost(ToSet(Unheard))
  /\ UNCHANGED <<cell, tasks, tree, run, struck, buffer, ctl>>

\* The buffer is closed: what is in it is the Result's steer_undelivered.
Close ==
  /\ stage = "closing" /\ ~struck /\ stage' = "returned"
  /\ UNCHANGED <<cell, tasks, tree, run, struck, buffer, taking, outcome, ctl, fate>>

\* Mutant: a run that is cut gives back what the turn had taken, all of it.
StrikeGivesBack ==
  /\ struck /\ struck' = FALSE /\ outcome' = "terminal" /\ taking' = <<>>
  /\ stage \in {"open", "injecting", "settling"} /\ stage' = "closing"
  /\ buffer' = taking \o buffer
  /\ UNCHANGED <<cell, tasks, tree, run, ctl, fate>>

\* A CancelledError: the turns end in a cancelled Result; before them and after
\* them it leaves the runner, and the loop answers for the run.
Strike ==
  /\ struck /\ struck' = FALSE /\ outcome' = "terminal" /\ taking' = <<>>
  /\ \/ /\ stage \in {"seeding", "open", "injecting", "settling"} /\ stage' = "closing"
        /\ fate' = Lost(ToSet(Unheard))
        /\ UNCHANGED buffer
     \/ /\ stage \in {"starting", "closing"} /\ stage' = "returned"
        /\ buffer' = <<>> /\ fate' = Lost(ToSet(buffer) \cup {run})
  /\ UNCHANGED <<cell, tasks, tree, run, ctl>>

\* Mutant: the loop keeps the run it answered for.
AnswerKeepsRun(o, s) ==
  /\ run' = run /\ stage' = "idle" /\ buffer' = <<>>
  /\ UNCHANGED <<task, ended, left, fate>>

\* _dispatch_outcome resolves the future of the mail with the Result, if it is
\* still awaited.
Answer(o, s) ==
  /\ run' = None /\ stage' = "idle" /\ buffer' = <<>>
  /\ IF task[run] = "waiting"
     THEN /\ task' = [task EXCEPT ![run] = "resolved"]
          /\ ended' = [ended EXCEPT ![run] = o] /\ left' = [left EXCEPT ![run] = s]
          /\ fate' = Lost(ToSet(buffer) \ ToSet(s))
     ELSE UNCHANGED <<task, ended, left>> /\ fate' = Lost(ToSet(buffer))

\* Mutant: a Result gives nothing back.
NothingUndelivered == <<>>

\* steer_undelivered
Undelivered == buffer

LoopResumes ==
  /\ stage = "returned" /\ Answer(outcome, Undelivered)
  /\ UNCHANGED <<cell, ready, tree, struck, taking, outcome, ctl>>

-----------------------------------------------------------------------------
(* Interrupt and eviction                                                  *)

Cut == /\ closed' = TRUE /\ reset' = "cutting"
       /\ struck' = (run # None /\ stage # "returned")

\* interrupt_agent_tree.  Without a manager there is nothing to interrupt.
Interrupt ==
  /\ "interrupt" \in Disturbances /\ ~locked /\ booted /\ reset = "none"
  /\ HasActiveRun \/ run # None
  /\ Cut /\ locked' = TRUE
  /\ UNCHANGED <<cell, tasks, booted, mailbox, run, stage, buffer, taking, outcome, evict, fate>>

\* cancel_subtree has awaited the run it cancelled.
CutDone ==
  /\ reset = "cutting" /\ ~struck /\ stage \in {"idle", "returned"}
  /\ reset' = "tearing"
  /\ UNCHANGED <<cell, tasks, tree, runner, locked, evict, fate>>

\* Mutant: the futures of the old tree are forgotten.
AbandonedNone == {}

Abandoned == {i \in Inputs : task[i] = "waiting"}

\* teardown_root finds the loop at its mailbox: the manager goes, with the mail
\* in it, and every future is cancelled.
TornDown ==
  /\ reset = "tearing" /\ run = None
  /\ reset' = "none" /\ locked' = FALSE
  /\ booted' = FALSE /\ closed' = FALSE /\ mailbox' = <<>>
  /\ task' = [i \in Inputs |-> IF i \in Abandoned THEN "finished" ELSE task[i]]
  /\ ended' = [i \in Inputs |-> IF i \in Abandoned THEN "terminal" ELSE ended[i]]
  /\ fate' = Lost(ToSet(mailbox))
  /\ block' = IF locked /\ block = "registry closed" THEN "none" ELSE block
  /\ UNCHANGED <<queue, claims, current, evicting, ready, left, runner, evict>>

\* It finds the loop about to resume with a Result: the loop takes the cancel
\* for its run's, answers with a cancelled Result and goes on, and the teardown
\* awaits it for ever (ResetReturns of AgentSession).
TeardownHangs ==
  /\ reset = "tearing" /\ stage = "returned"
  /\ reset' = "stuck" /\ Answer("terminal", <<>>)
  /\ UNCHANGED <<cell, ready, tree, struck, taking, outcome, locked, evict>>

\* evict_cell takes no pending_input_lock.
EvictMarks ==
  /\ "evict" \in Disturbances /\ ~evicting
  /\ evicting' = TRUE /\ block' = "evicted" /\ evict' = "marked"
  /\ UNCHANGED <<queue, claims, current, tasks, tree, runner, reset, locked, fate>>

\* _cancel_current_run_task cancels the task.  Its mail, if posted, stays in the
\* mailbox.
EvictCancels ==
  /\ evict = "marked" /\ evict' = "cancelled"
  /\ IF Active
     THEN /\ task' = [task EXCEPT ![current] = "finished"]
          /\ ended' = [ended EXCEPT ![current] = "terminal"]
          /\ left' = [left EXCEPT ![current] = <<>>]
          /\ ready' = Without(ready, current)
          /\ fate' = Lost(ToSet(left[current])
                          \cup IF task[current] = "created" THEN {current} ELSE {})
     ELSE UNCHANGED <<tasks, fate>>
  /\ UNCHANGED <<cell, tree, runner, reset, locked>>

\* Mutant: the cancelled task stays the current one.
LeftWith == current

\* _cancel_current_run_task takes the task it waited for off the cell.
LeftOver == IF Active THEN current ELSE None

\* HostDispatcher.aclose, which shares a teardown that is under way.
EvictCloses ==
  /\ evict = "cancelled" /\ evict' = "closed"
  /\ current' = LeftOver
  /\ IF booted /\ reset = "none" THEN Cut ELSE UNCHANGED <<closed, reset, struck>>
  /\ UNCHANGED <<queue, claims, block, evicting, tasks, booted, mailbox, run, stage, buffer,
                 taking, outcome, locked, fate>>

-----------------------------------------------------------------------------
User == \E i \in Inputs : Submit(i) \/ Cancel(i) \/ SteerNow(i) \/ StartNow(i) \/ RefuseNow(i)

Host == Post \/ \E i \in Inputs : Render(i) \/ RunDone(i) \/ StaleRunDone(i)

Loop == LoopTakes \/ Register \/ Seed \/ TakeSteers \/ Inject \/ Settle \/ TurnsEnd \/ Close \/ Strike
        \/ LoopResumes

Disturbed == \/ Interrupt \/ CutDone \/ TornDown \/ TeardownHangs
             \/ EvictMarks \/ EvictCancels \/ EvictCloses

Next == User \/ Reorder \/ Host \/ Loop \/ Disturbed

Spec == Init /\ [][Next]_vars

\* The event loop runs what is ready, so every coroutine that can go on does, and
\* a run left alone ends.  Users, evictions and interrupts owe nothing.
Fairness ==
  /\ WF_vars(Post)
  /\ \A i \in Inputs : WF_vars(Render(i)) /\ WF_vars(RunDone(i)) /\ WF_vars(StaleRunDone(i))
  /\ WF_vars(Loop) /\ WF_vars(TurnsEnd)
  /\ WF_vars(CutDone) /\ WF_vars(TornDown \/ TeardownHangs)
  /\ WF_vars(EvictCancels) /\ WF_vars(EvictCloses)

FairSpec == Spec /\ Fairness

-----------------------------------------------------------------------------
(* Properties *)

\* Where an accepted input is before it is heard: every place, with its position.
Places == [queue |-> queue, ready |-> ready, mailbox |-> mailbox, buffer |-> buffer,
           start |-> IF stage = "starting" THEN <<run>> ELSE <<>>,
           unheard |-> Unheard]

Spots(s, i) == {n \in DOMAIN s : s[n] = i}
Copies(i) ==
  (UNION {{p} \X Spots(Places[p], i) : p \in DOMAIN Places})
  \cup UNION {{t} \X Spots(left[t], i) : t \in {t \in Inputs : task[t] \in {"resolved", "finished"}}}

\* An accepted input is in one place and once there, until it is heard, cancelled
\* or lost; then it is nowhere.  It moves between the queue, the run tasks, the
\* mailbox, the steer buffer and the Results.
Accounted ==
  \A i \in Inputs : Cardinality(Copies(i)) = IF fate[i] = "accepted" THEN 1 ELSE 0

\* No input enters the history twice, be it sent now, given back and run again.
HeardOnce == \A i \in Inputs : fate[i] # "repeated"

\* The thread keeps the promise of InputLife: what it has are the inputs with a
\* copy in one of its places, and what went through the history, a Result or a
\* cancel never gets a place again.
Life == INSTANCE InputLife
  WITH seen    <- {i \in Inputs : fate[i] # "absent"},
       held    <- {i \in Inputs : Copies(i) # {}},
       history <- [i \in Inputs |-> CASE fate[i] = "heard"    -> 1
                                      [] fate[i] = "repeated" -> 2
                                      [] OTHER                -> 0]
LifeSpec == Life!Spec

\* A steer that may still be given back by the current run has its claim, so it
\* returns to the queue as what it was, id, priority and metadata.
ClaimKept ==
  HasActiveRun =>
    /\ ToSet(left[current]) \subseteq claims
    /\ run = current /\ task[run] = "waiting" =>
         ToSet(buffer) \cup (ToSet(Unheard) \ {run}) \subseteq claims

\* The registry is closed only while an interrupt holds the lock over it or the
\* eviction that closed it has taken the run off the cell: the end of a run
\* never meets a closed registry.
ClosedIsBeingReset == closed =>
  /\ reset # "none"
  /\ locked \/ (evicting /\ ~HasActiveRun)

\* An accepted input is lost only to an interrupt, an eviction or a history that
\* cannot be written, or as a steer given back by a run that is no longer the
\* current one.
LossHasCause ==
  [][\A i \in Inputs : fate[i] = "accepted" /\ fate'[i] = "lost" =>
       \/ struck \/ reset # "none" \/ evicting
       \/ (stage \in {"seeding", "injecting"} /\ stage' = "closing")
       \/ \E t \in Inputs : t # current /\ i \in ToSet(left[t])]_vars

\* An accepted input is heard, cancelled or lost in the end, unless the cell is
\* idle with it in the queue, which is the user's to move, or the interrupt
\* never returns.
Serviced ==
  \A i \in Inputs : fate[i] = "accepted" ~>
    \/ fate[i] # "accepted" \/ reset = "stuck"
    \/ current = None /\ i \in ToSet(queue)
=============================================================================
