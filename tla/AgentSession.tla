---------------------------- MODULE AgentSession ----------------------------
(***************************************************************************)
(* One session's agent tree: HostDispatcher (src/hosts/shared), and the     *)
(* AgentManager, TaskRegistry and agent_loop of src/application/agents.     *)
(* Texts go through the root mailbox and are answered through a FIFO of     *)
(* futures; the root's run spawns single-shot children whose results come   *)
(* back as mails; the host interrupts, resets and closes the tree.          *)
(*                                                                         *)
(* An action is what one coroutine does between two awaits.  A run's body   *)
(* (the runner) is one step that may take any time; cancelled before its    *)
(* end it returns a cancelled Result, which classify_result turns into      *)
(* emit_only.  A text stands for its mail and its future, a child for its   *)
(* seed mail, its run and its child_result mail.                            *)
(***************************************************************************)
EXTENDS Naturals, Sequences, FiniteSets, Queues

CONSTANTS
  Texts,        \* user inputs, each submitted at most once
  Kids,         \* children, each spawned at most once
  Controllers,  \* coroutines that stop the tree
  Ops,          \* controller -> what it may do
  MaxOps        \* bound: operations of all controllers

Root == "root"
None == "none"

Agents == Kids \cup {Root}
Resets == {"stop", "reset", "close", "drain"}
AllOps == Resets \cup {"interrupt", "cancel_child"}

ASSUME AgentsAssumption ==
  /\ Root \notin Kids /\ None \notin Agents /\ None \notin Texts
  /\ Texts \cap Kids = {}
ASSUME OpsAssumption == Ops \in [Controllers -> SUBSET AllOps] /\ MaxOps \in Nat
\* Of two that reset, one only closes: stops, resets and drains are the CLI loop's
\* or hold the Web thread's lock; an eviction closes without it.
ASSUME HostAssumption ==
  \A c, d \in Controllers : c # d /\ Resets \cap Ops[c] # {} /\ Resets \cap Ops[d] # {}
                           => {"close"} \in {Resets \cap Ops[c], Resets \cap Ops[d]}

VARIABLES
  mailbox,  \* the root's queue: a text's user_message or a child's child_result
  futures,  \* _result_futures, oldest first
  caller,   \* text -> its run_text call
  got,      \* text -> the mail whose Result its call returned
  fed,      \* history: child results the root has run
  loop,     \* agent -> its agent_loop: at mailbox.get, awaiting its run, ended
  seed,     \* children whose seed mail is unread
  run,      \* agent -> its run task
  doomed,   \* agents whose run has a CancelledError coming
  record,   \* agent -> TaskRegistry record of its latest run
  work,     \* the mail the root's run is for
  booted,   \* _agent_manager is not None
  closed,   \* the tree's registry is closed
  epoch,    \* AgentManager._epoch
  tree,     \* children of the present manager
  shut,     \* a close has begun
  phase,    \* controller -> where it is
  op,       \* controller -> its operation
  todo,     \* controller -> agents it has yet to cut (or loops to stop)
  awaiting, \* controller -> the agent whose run (or loop) it awaits
  ops       \* operations so far

hosts  == <<mailbox, futures, caller, got, fed>>
actors == <<loop, seed, run, doomed, record, work>>
trees  == <<booted, closed, epoch, tree, shut>>
ctls   == <<phase, op, todo, awaiting, ops>>
vars   == <<hosts, actors, trees, ctls>>

Mails == Texts \cup Kids

TypeOK ==
  /\ mailbox \in Seq(Mails) /\ futures \in Seq(Texts)
  /\ caller \in [Texts -> {None, "waiting", "answered", "failed", "cancelled"}]
  /\ got \in [Texts -> Mails \cup {None}] /\ fed \subseteq Kids
  /\ loop \in [Agents -> {None, "idle", "busy", "ended"}] /\ seed \subseteq Kids
  /\ run \in [Agents -> {None, "active", "returned", "cancelled"}]
  /\ doomed \subseteq {a \in Agents : run[a] = "active"}
  /\ record \in [Agents -> {None, "pending", "running", "over"}]
  /\ work \in Mails \cup {None}
  /\ booted \in BOOLEAN /\ closed \in BOOLEAN /\ epoch \in Nat /\ tree \subseteq Kids
  /\ shut \in BOOLEAN
  /\ phase \in [Controllers -> {"free", "cutting", "draining", "resetting", "tearing"}]
  /\ op \in [Controllers -> AllOps \cup {None}]
  /\ todo \in [Controllers -> SUBSET Agents]
  /\ awaiting \in [Controllers -> Agents \cup {None}] /\ ops \in Nat

Init ==
  /\ mailbox = <<>> /\ futures = <<>>
  /\ caller = [t \in Texts |-> None] /\ got = [t \in Texts |-> None] /\ fed = {}
  /\ loop = [a \in Agents |-> None] /\ seed = {} /\ run = [a \in Agents |-> None]
  /\ doomed = {} /\ record = [a \in Agents |-> None] /\ work = None
  /\ booted = FALSE /\ closed = FALSE /\ epoch = 0 /\ tree = {} /\ shut = FALSE
  /\ phase = [c \in Controllers |-> "free"] /\ op = [c \in Controllers |-> None]
  /\ todo = [c \in Controllers |-> {}] /\ awaiting = [c \in Controllers |-> None]
  /\ ops = 0

Waiting    == {t \in Texts : caller[t] = "waiting"}
InTree(a)  == a \in tree \cup {Root}
\* Mutant: a closed registry goes on registering.
Accepting(a) == FALSE
\* register_run and register_pending raise.
Refused(a) == closed /\ InTree(a)
Live(a)    == record[a] \in {"pending", "running"}
\* Mutant: teardown stops the root's loop only.
RootLoops  == {a \in {Root} : loop[a] \in {"idle", "busy"}}
\* _loop_tasks: agent_loops that have not ended.
Loops      == {a \in tree \cup {Root} : loop[a] \in {"idle", "busy"}}
\* Every child mail carries its seed's epoch, 0.
Stale(m)   == m \in Kids /\ epoch > 0

-----------------------------------------------------------------------------
(* Texts and the agent loops *)

\* run_text up to its await, with the lazy boot of ensure_started.  A session that
\* is closed gets no more texts: its cell is out of the table and blocked, and a
\* scheduled run has had its one.
RunText(t) ==
  /\ caller[t] = None /\ ~shut
  /\ caller' = [caller EXCEPT ![t] = "waiting"]
  /\ futures' = Append(futures, t) /\ mailbox' = Append(mailbox, t)
  /\ booted' = TRUE
  /\ loop' = IF booted THEN loop ELSE [loop EXCEPT ![Root] = "idle"]
  /\ UNCHANGED <<got, fed, seed, run, doomed, record, work, closed, epoch, tree, shut, ctls>>

\* A run task is made, then registered; a closed registry refuses it, and the
\* loop cancels it before its first step.
Start(a) ==
  /\ loop' = [loop EXCEPT ![a] = "busy"]
  /\ run' = [run EXCEPT ![a] = "active"]
  /\ IF Refused(a) /\ record[a] # "pending"
     THEN doomed' = doomed \cup {a} /\ record' = [record EXCEPT ![a] = None]
     ELSE doomed' = doomed /\ record' = [record EXCEPT ![a] = "running"]

\* _run_one_mail of the root up to its await: the epoch gate, then a run.
RootTakes ==
  /\ loop[Root] = "idle" /\ mailbox # <<>>
  /\ mailbox' = Tail(mailbox)
  /\ LET m == Head(mailbox) IN
       IF Stale(m) THEN UNCHANGED <<actors, fed>>
       ELSE /\ work' = m /\ fed' = fed \cup ({m} \cap Kids)
            /\ Start(Root) /\ UNCHANGED seed
  /\ UNCHANGED <<futures, caller, got, trees, ctls>>

\* A child takes its seed mail.  A pending record is attached whether or not the
\* registry is closed.  The epoch getter of a child that outlived its tree
\* asserts that there is a manager.
KidTakes(k) ==
  /\ loop[k] = "idle" /\ k \in seed
  /\ seed' = seed \ {k}
  /\ IF booted THEN Start(k)
     ELSE loop' = [loop EXCEPT ![k] = "ended"] /\ UNCHANGED <<run, doomed, record>>
  /\ UNCHANGED <<hosts, work, trees, ctls>>

\* Mutant: the CancelledError of the awaited run is not caught.
ReleasedByReturn(a) == [c \in Controllers |-> IF /\ phase[c] = "cutting" /\ awaiting[c] = a
                                                 /\ a \notin doomed
                                              THEN None ELSE awaiting[c]]
\* A controller in cancel_subtree goes on when the run it awaits has ended.
Released(a) == [c \in Controllers |-> IF phase[c] = "cutting" /\ awaiting[c] = a
                                      THEN None ELSE awaiting[c]]
\* The run task ends, and its done callback settles the record before the
\* agent loop wakes.
RunEnds(a) ==
  /\ run[a] = "active"
  /\ run' = [run EXCEPT ![a] = IF a \in doomed THEN "cancelled" ELSE "returned"]
  /\ doomed' = doomed \ {a}
  /\ record' = [record EXCEPT ![a] = IF @ = "running" THEN "over" ELSE @]
  /\ awaiting' = Released(a)
  /\ UNCHANGED <<hosts, loop, seed, work, trees, phase, op, todo, ops>>

\* Mutant: the sink looks at the oldest future and leaves it there.
Peeked(q) == q
\* HostDispatcherDeliverSink._resolve pops the oldest future, done or not.
Popped(q) == IF q = <<>> THEN q ELSE Tail(q)

\* The root loop wakes with a Result: whatever its disposition, it resolves the
\* oldest future.
RootResumes ==
  /\ loop[Root] = "busy" /\ run[Root] \in {"returned", "cancelled"}
  /\ LET heads == IF futures = <<>> THEN {} ELSE {Head(futures)} \cap Waiting IN
       /\ caller' = [t \in Texts |-> IF t \in heads THEN "answered" ELSE caller[t]]
       /\ got' = [t \in Texts |-> IF t \in heads THEN work ELSE got[t]]
  /\ futures' = Popped(futures)
  /\ loop' = [loop EXCEPT ![Root] = "idle"]
  /\ run' = [run EXCEPT ![Root] = None] /\ work' = None
  /\ UNCHANGED <<mailbox, fed, seed, doomed, record, trees, ctls>>

\* Mutant: a child leaves only if its run was registered and ended.
LeavesIfRegistered(k) == record[k] = "over"
\* single_shot leaves when no_live_descendants.
Leaves(k) == ~Live(k)

\* classify_result: a run that ended by itself is delivered up, a cancelled one is
\* only emitted.
DeliveredUp(a) == run[a] = "returned"

\* A child loop wakes: ChildDeliverSink mails the parent what is delivered up, and
\* the single-shot loop ends.
KidResumes(k) ==
  /\ loop[k] = "busy" /\ run[k] \in {"returned", "cancelled"}
  /\ mailbox' = IF DeliveredUp(k) /\ k \in tree THEN Append(mailbox, k) ELSE mailbox
  /\ loop' = [loop EXCEPT ![k] = IF Leaves(k) THEN "ended" ELSE "idle"]
  /\ run' = [run EXCEPT ![k] = None]
  /\ UNCHANGED <<futures, caller, got, fed, seed, doomed, record, work, trees, ctls>>

\* AgentManager.spawn, called by a tool of the root's run.
Spawn(k) ==
  /\ run[Root] = "active" /\ Root \notin doomed /\ loop[k] = None /\ ~Refused(Root)
  /\ tree' = tree \cup {k} /\ seed' = seed \cup {k}
  /\ record' = [record EXCEPT ![k] = "pending"]
  /\ loop' = [loop EXCEPT ![k] = "idle"]
  /\ UNCHANGED <<hosts, run, doomed, work, booted, closed, epoch, shut, ctls>>

-----------------------------------------------------------------------------
(* Interrupt, reset and close *)

Begin(c, o) ==
  /\ phase[c] = "free" /\ o \in Ops[c] /\ ops < MaxOps
  /\ ops' = ops + 1 /\ op' = [op EXCEPT ![c] = o]

\* The CLI drains its session; a Web thread or a scheduled run is closed.
Draining == \E c \in Controllers : phase[c] # "free" /\ op[c] = "drain"

\* HostDispatcher.interrupt: alone (a scheduled run's canceller), before a reset
\* (Ctrl-C, Stop), or first in aclose, whoever else cuts or resets.
Interrupt(c, o) ==
  /\ o \in {"interrupt", "stop", "close"} /\ Begin(c, o) /\ booted
  /\ o = "close" => ~Draining
  /\ epoch' = epoch + 1 /\ closed' = TRUE /\ shut' = (shut \/ o = "close")
  /\ phase' = [phase EXCEPT ![c] = "cutting"]
  /\ todo' = [todo EXCEPT ![c] = tree \cup {Root}]
  /\ UNCHANGED <<hosts, actors, booted, tree, awaiting>>

\* cancel_agent_run, by a workflow whose child ran out of time.  Its timer is
\* younger than the child's loop, which has read its seed by then.
CancelChild(c) ==
  /\ Begin(c, "cancel_child")
  /\ \E k \in tree \ seed : todo' = [todo EXCEPT ![c] = {k}]
  /\ phase' = [phase EXCEPT ![c] = "cutting"]
  /\ UNCHANGED <<hosts, actors, trees, awaiting>>

\* TaskRegistry.cancel_subtree of one agent, children before the root: the
\* record is settled at once, the run it holds is cancelled and awaited.
Cut(c, a) ==
  /\ phase[c] = "cutting" /\ awaiting[c] = None /\ a \in todo[c]
  /\ a = Root => todo[c] = {Root}
  /\ todo' = [todo EXCEPT ![c] = @ \ {a}]
  /\ record' = [record EXCEPT ![a] = IF @ = None THEN None ELSE "over"]
  /\ IF run[a] = "active" /\ record[a] # None
     THEN doomed' = doomed \cup {a} /\ awaiting' = [awaiting EXCEPT ![c] = a]
     ELSE UNCHANGED <<doomed, awaiting>>
  /\ UNCHANGED <<hosts, loop, seed, run, work, trees, phase, op, ops>>

\* The CLI's submit tasks and the dispatcher's queue tasks are cancelled, and
\* with them the futures they await; the Web host's run task is not.
Dropped == {{}, Waiting}
Cancelled(S) == [t \in Texts |-> IF t \in S THEN "cancelled" ELSE caller[t]]
\* Mutant: cancelled futures are taken out, their mails stay in the mailbox.
PrunedFutures(S) == Only(futures, Texts \ S)
\* A cancelled future stays in the FIFO, to be popped in its turn.
KeptFutures(S) == futures

\* cancel_subtree purges stale mails, of the agents it cut, and returns; the
\* host goes on.
CutsDone(c) ==
  /\ phase[c] = "cutting" /\ awaiting[c] = None /\ todo[c] = {}
  /\ mailbox' = IF op[c] = "cancel_child" THEN mailbox
                ELSE Only(mailbox, {m \in Mails : ~Stale(m)})
  /\ \/ /\ op[c] \in {"interrupt", "cancel_child"}
        /\ phase' = [phase EXCEPT ![c] = "free"] /\ UNCHANGED <<caller, futures>>
     \/ /\ op[c] \in {"stop", "close"}
        /\ \E S \in Dropped : caller' = Cancelled(S) /\ futures' = KeptFutures(S)
        /\ phase' = [phase EXCEPT ![c] = IF op[c] = "stop" THEN "resetting" ELSE "draining"]
  /\ UNCHANGED <<got, fed, actors, trees, op, todo, awaiting, ops>>

\* aclose(drain=True): no interrupt.
Drain(c) ==
  /\ Begin(c, "drain") /\ booted /\ ~shut
  /\ phase' = [phase EXCEPT ![c] = "draining"]
  /\ UNCHANGED <<hosts, actors, trees, todo, awaiting>>

\* aclose waits for the pending futures for five seconds, then cancels them
\* (gather under wait_for), and resets.
Drained(c) ==
  /\ phase[c] = "draining"
  /\ caller' = Cancelled(Waiting)
  /\ phase' = [phase EXCEPT ![c] = "resetting"]
  /\ UNCHANGED <<mailbox, futures, got, fed, actors, trees, op, todo, awaiting, ops>>

\* reset_for_reuse by the Web host, when its run has ended and left the
\* registry closed.
Reset(c) ==
  /\ Begin(c, "reset") /\ booted /\ closed
  /\ phase' = [phase EXCEPT ![c] = "resetting"]
  /\ UNCHANGED <<hosts, actors, trees, todo, awaiting>>

\* Mutant: the cancel of a finished run is kept for the next one.
StruckAnyway(a) == {a}
Struck(a) == {b \in {a} : run[b] = "active"}

\* teardown_root cancels and awaits one loop after the other, of those there
\* are at its first step.  A loop at mailbox.get ends, and the end of the
\* root's fails every pending future; a loop that awaits its run passes the
\* cancel on to the run and takes it for the run's own.
StopLoop(c, a) ==
  /\ LET left == IF phase[c] = "resetting" THEN Loops ELSE todo[c] IN
       a \in left /\ todo' = [todo EXCEPT ![c] = left \ {a}]
  /\ phase[c] \in {"resetting", "tearing"} /\ awaiting[c] = None
  /\ phase' = [phase EXCEPT ![c] = "tearing"]
  /\ \/ /\ loop[a] = "idle"
        /\ loop' = [loop EXCEPT ![a] = "ended"]
        /\ caller' = [t \in Texts |-> IF a = Root /\ t \in Waiting THEN "failed" ELSE caller[t]]
        /\ UNCHANGED <<run, doomed, awaiting>>
     \/ /\ loop[a] = "busy"
        /\ doomed' = doomed \cup Struck(a)
        /\ run' = [run EXCEPT ![a] = IF @ = "active" THEN @ ELSE "cancelled"]
        /\ awaiting' = [awaiting EXCEPT ![c] = a]
        /\ UNCHANGED <<loop, caller>>
     \/ /\ loop[a] = "ended" /\ UNCHANGED <<loop, caller, run, doomed, awaiting>>
  /\ UNCHANGED <<mailbox, futures, got, fed, seed, record, work, trees, op, ops>>

LoopEnded(c) ==
  /\ phase[c] = "tearing" /\ awaiting[c] # None /\ loop[awaiting[c]] = "ended"
  /\ awaiting' = [awaiting EXCEPT ![c] = None]
  /\ UNCHANGED <<hosts, actors, trees, phase, op, todo, ops>>

\* teardown_root has awaited every loop, or finds none: another has dropped the
\* manager.
Stopped(c) ==
  /\ awaiting[c] = None
  /\ \/ phase[c] = "tearing" /\ todo[c] = {}
     \/ phase[c] = "resetting" /\ Loops = {}

\* The rest of teardown_root and reset_for_reuse: the manager is dropped with
\* its registry, the FIFO emptied.  Two that tear it down await the same loops and
\* wake one behind the other.  What another has to cut was in that registry.
TornDown(c) ==
  /\ Stopped(c)
  /\ caller' = Cancelled(Waiting)
  /\ futures' = <<>> /\ mailbox' = <<>>
  /\ booted' = FALSE /\ closed' = FALSE /\ epoch' = 0 /\ tree' = {}
  /\ loop' = [loop EXCEPT ![Root] = None]
  /\ record' = [record EXCEPT ![Root] = None]
  /\ phase' = [d \in Controllers |-> IF d = c \/ phase[d] = "tearing" THEN "free" ELSE phase[d]]
  /\ todo' = [d \in Controllers |-> {}] /\ awaiting' = [d \in Controllers |-> None]
  /\ UNCHANGED <<got, fed, seed, run, doomed, work, shut, op, ops>>

-----------------------------------------------------------------------------
Loop(a) == IF a = Root THEN RootTakes \/ RootResumes ELSE KidTakes(a) \/ KidResumes(a)

Controller(c) == \/ \E a \in Agents : Cut(c, a) \/ StopLoop(c, a)
                 \/ CutsDone(c) \/ Drained(c) \/ LoopEnded(c) \/ TornDown(c)

Next == \/ \E t \in Texts : RunText(t)
        \/ \E a \in Agents : Loop(a) \/ RunEnds(a)
        \/ \E k \in Kids : Spawn(k)
        \/ \E c \in Controllers : \/ \E o \in AllOps : Interrupt(c, o)
                                  \/ CancelChild(c) \/ Drain(c) \/ Reset(c)
                                  \/ Controller(c)

Spec == Init /\ [][Next]_vars

\* The event loop runs every ready coroutine, and every run ends by itself.
Fairness == /\ \A a \in Agents : WF_vars(Loop(a)) /\ WF_vars(RunEnds(a))
            /\ \A c \in Controllers : WF_vars(Controller(c))

FairSpec == Spec /\ Fairness

-----------------------------------------------------------------------------
(* Properties *)

Cutting == \E c \in Controllers : phase[c] = "cutting"

\* Once an interrupt has returned, no run of the tree goes on: not of a child
\* spawned or about to start at that moment, nor of a text taken since.
NothingRunsInClosedTree ==
  closed /\ ~Cutting => \A a \in Agents : InTree(a) /\ run[a] = "active" => a \in doomed

\* A reset that follows an interrupt leaves nothing behind: when the manager is
\* dropped, none of its loops lives and none of its runs goes on.
ResetLeavesNothing ==
  [][\A c \in Controllers : TornDown(c) /\ op[c] # "drain"
       => \A a \in Agents : InTree(a) => loop[a] \in {None, "ended"} /\ run[a] # "active"]_vars

\* The futures and the mails stay aligned through interrupts, cancelled callers
\* and resets: unless the root has run a child's result, a call returns the
\* Result of its own text.
OwnResultUnlessFed == \A t \in Texts : got[t] \in Mails \ {t} => fed # {}

\* A run_text call returns, raises or is cancelled, whatever the host does.
Answered == \A t \in Texts : caller[t] = "waiting" ~> caller[t] # "waiting"

\* An interrupt returns, also when two cut the same tree.
InterruptReturns == \A c \in Controllers : phase[c] = "cutting" ~> phase[c] # "cutting"

\* Children never hold up a teardown: with the root loop gone it completes.
ChildrenLeave ==
  \A c \in Controllers : (phase[c] = "tearing" /\ loop[Root] = "ended") ~> phase[c] = "free"

\* loop.py: the agent_loop ends when its tree is destroyed; so a reset returns.
ResetReturns == \A c \in Controllers : phase[c] = "tearing" ~> phase[c] = "free"
=============================================================================
