------------------------------ MODULE Workflow ------------------------------
(***************************************************************************)
(* One workflow call of a root agent's run:                                *)
(* AgentWorkflowManager.run_workflow with the map_reduce strategy          *)
(* (src/application/agent_workflows).  Every task has a mapper coroutine   *)
(* that spawns a child agent per attempt and waits for its result mail.    *)
(* Meanwhile _ChildResultMailboxDemux reads the root's mailbox in place of *)
(* the root's loop, and at the end gives back what it did not need.        *)
(*                                                                         *)
(* An action is what one coroutine does between two awaits.  A mailbox is  *)
(* a set: no property tells the order of mails apart.  asyncio.wait_for is *)
(* that of Python 3.11, the version the project pins.                      *)
(***************************************************************************)
EXTENDS Naturals, FiniteSets

CONSTANTS
  Tasks,           \* the mapper tasks
  MaxRetries,      \* limits.mapper_retries
  MaxConcurrency,  \* limits.max_concurrency
  Texts,           \* user messages put into the mailbox meanwhile
  Others,          \* results of children that another tool call spawned
  Stops            \* what stops the run: "interrupt" (host), "cancel" (cancel_workflow)

None == "none"

\* An attempt stands for its child agent, its TaskRecord and its result mail.
Attempts == Tasks \X (1 .. MaxRetries + 1)
Mails    == Texts \cup Others \cup Attempts

ASSUME LimitsAssumption == MaxRetries \in Nat /\ MaxConcurrency \in Nat \ {0}
ASSUME MailsAssumption ==
  Texts \cap Others = {} /\ (Texts \cup Others) \cap Attempts = {}
\* After a cancel a third attempt could open a demux that nobody closes: not modelled.
ASSUME StopsAssumption ==
  Stops \subseteq {"interrupt", "cancel"} /\ ("cancel" \in Stops => MaxRetries <= 1)

VARIABLES
  phase,    \* where run_workflow is
  mapper,   \* task -> its coroutine under gather
  attempt,  \* task -> attempts begun
  scope,    \* task -> timeout_scope of its attempt
  inner,    \* task -> run_subagent_task of its attempt
  child,    \* attempt -> the child's run
  result,   \* task -> status in its result.json
  late,     \* workflow_deadline: far, nearer than the mapper timeout, past
  mailbox,  \* the root's mailbox
  demux,    \* the demux in _child_result_demuxes
  cached, requeue, ignored,  \* its state
  sent,     \* texts and other results put so far
  taken,    \* history: mails the root's loop has run on
  stop,     \* what stops the run
  cut,      \* the child whose end the interrupt awaits
  struck    \* the CancelledError has reached the workflow

mappers == <<mapper, attempt, scope>>
demuxes == <<demux, cached, requeue, ignored>>
stops   == <<stop, cut, struck>>
vars    == <<phase, mappers, inner, child, result, late, mailbox, demuxes, sent, taken, stops>>

Waiting == {"waiting", "deaf"}
Done    == {"completed", "failed", "raised"}

TypeOK ==
  /\ phase \in {"mapping", "reducing", "returned", "raised", "over"}
  /\ mapper \in [Tasks -> {"queued", "awaiting", "stopping", "cancelling", "ended", "cancelled"}]
  /\ attempt \in [Tasks -> 0 .. MaxRetries + 1]
  /\ scope \in [Tasks -> {"mapper", "workflow"}]
  /\ inner \in [Tasks -> {None, "timing out", "cut"} \cup Waiting \cup Done]
  /\ child \in [Attempts -> {None, "active", "doomed", "returned", "over"}]
  /\ result \in [Tasks -> {None, "completed", "failed", "cancelled"}]
  /\ late \in {"no", "near", "past"}
  /\ mailbox \subseteq Mails /\ demux \in {"on", "off"}
  /\ cached \subseteq Others \cup Attempts /\ requeue \subseteq Texts
  /\ ignored \subseteq Attempts
  /\ sent \subseteq Texts \cup Others /\ taken \subseteq Mails
  /\ stop \in Stops \cup {None} /\ cut \subseteq Attempts /\ struck \in BOOLEAN

Init ==
  /\ phase = "mapping"
  /\ mapper = [t \in Tasks |-> "queued"] /\ attempt = [t \in Tasks |-> 0]
  /\ scope = [t \in Tasks |-> "mapper"] /\ inner = [t \in Tasks |-> None]
  /\ child = [c \in Attempts |-> None] /\ result = [t \in Tasks |-> None]
  /\ late = "no"
  /\ mailbox = {} /\ demux = "off" /\ cached = {} /\ requeue = {} /\ ignored = {}
  /\ sent = {} /\ taken = {}
  /\ stop = None /\ cut = {} /\ struck = FALSE

Current(t) == <<t, attempt[t]>>
Alive(c)   == child[c] \in {"active", "doomed"}
\* workflow_id not in _active_workflows.
Inactive   == phase = "over"

-----------------------------------------------------------------------------
(* The demux *)

\* Mutant: a result that comes late is cached.
IgnoreCachedOnly(C) == cached' = cached \ C /\ UNCHANGED ignored

\* ignore(), of each task_id in C
Ignore(C) == ignored' = ignored \cup C /\ cached' = cached \ C

\* _pump: anything but a child's result is set aside, an ignored result dropped,
\* a result that nobody waits for cached.  A result somebody waits for is handed
\* over: run_subagent_task wakes, writes result.json and returns.
Pump(m) ==
  LET hit == {t \in Tasks : inner[t] = "waiting" /\ m = Current(t)} IN
  \/ /\ hit # {}
     /\ \E o \in {"completed", "failed"} :
          /\ inner' = [t \in Tasks |-> IF t \in hit THEN o ELSE inner[t]]
          /\ result' = [t \in Tasks |-> IF t \in hit THEN o ELSE result[t]]
     /\ UNCHANGED <<cached, requeue>>
  \/ /\ hit = {}
     /\ requeue' = IF m \in Texts THEN requeue \cup {m} ELSE requeue
     /\ cached' = IF m \in Texts \cup ignored THEN cached ELSE cached \cup {m}
     /\ UNCHANGED <<inner, result>>

\* A mail is put.  While there is a demux it reads the mail at once.
Put(m) ==
  \/ demux = "on" /\ Pump(m) /\ UNCHANGED mailbox
  \/ demux = "off" /\ mailbox' = mailbox \cup {m} /\ UNCHANGED <<cached, requeue, inner, result>>

\* Another task or the user puts a mail.  Once the workflow is over the root's
\* loop has the mailbox for itself.
Send(m) ==
  /\ m \notin sent /\ ~Inactive
  /\ sent' = sent \cup {m} /\ Put(m)
  /\ UNCHANGED <<phase, mappers, child, late, demux, ignored, taken, stops>>

\* Mutant: what was set aside is not put back.
GivenBackResults == cached

\* What the demux gives back when it is closed.
GivenBack == cached \cup requeue

\* The root's loop, when the run that called the workflow has ended.  After an
\* interrupt the epoch gate drops results.
RootTakes(m) ==
  /\ Inactive /\ m \in mailbox /\ mailbox' = mailbox \ {m}
  /\ taken' = IF stop = "interrupt" /\ m \notin Texts THEN taken ELSE taken \cup {m}
  /\ UNCHANGED <<phase, mappers, inner, child, result, late, demuxes, sent, stops>>

-----------------------------------------------------------------------------
(* Mappers and children *)

\* One turn of the attempt loop up to its await.  Past the deadline the failure
\* is recorded; a closed registry refuses the spawn.
Attempt(t, results) ==
  /\ attempt' = [attempt EXCEPT ![t] = @ + 1]
  /\ IF late = "past"
     THEN /\ mapper' = [mapper EXCEPT ![t] = "ended"]
          /\ inner' = [inner EXCEPT ![t] = None]
          /\ result' = [results EXCEPT ![t] = "failed"]
          /\ UNCHANGED <<scope, child, mailbox, demux, cached, requeue>>
     ELSE /\ mapper' = [mapper EXCEPT ![t] = "awaiting"]
          /\ scope' = [scope EXCEPT ![t] = IF late = "near" THEN "workflow" ELSE "mapper"]
          /\ IF stop = "interrupt"
             THEN /\ inner' = [inner EXCEPT ![t] = "failed"]
                  /\ result' = [results EXCEPT ![t] = "failed"]
                  /\ UNCHANGED <<child, mailbox, demux, cached, requeue>>
             ELSE /\ inner' = [inner EXCEPT ![t] = "waiting"]
                  /\ child' = [child EXCEPT ![<<t, attempt[t] + 1>>] = "active"]
                  /\ result' = results /\ demux' = "on"
                  /\ IF demux = "off"
                     THEN /\ mailbox' = {} /\ cached' = mailbox \ Texts
                          /\ requeue' = mailbox \cap Texts
                     ELSE UNCHANGED <<mailbox, cached, requeue>>

\* The semaphore is free.
Start(t) ==
  /\ phase = "mapping" /\ mapper[t] = "queued"
  /\ Cardinality({s \in Tasks : mapper[s] \in {"awaiting", "stopping", "cancelling"}}) < MaxConcurrency
  /\ Attempt(t, result)
  /\ UNCHANGED <<phase, late, ignored, sent, taken, stops>>

\* The child's run ends by itself, then its loop mails the result.
ChildReturns(c) ==
  /\ child[c] = "active" /\ child' = [child EXCEPT ![c] = "returned"]
  /\ UNCHANGED <<phase, mappers, inner, result, late, mailbox, demuxes, sent, taken, stops>>

ChildMails(c) ==
  /\ child[c] = "returned" /\ child' = [child EXCEPT ![c] = "over"]
  /\ Put(c)
  /\ UNCHANGED <<phase, mappers, late, demux, ignored, sent, taken, stops>>

\* cancel_agent_run cancels the child's run and awaits its end, if it has one.
CancelAgentRun(C) == child' = [c \in Attempts |-> IF c \in C /\ Alive(c) THEN "doomed" ELSE child[c]]

\* Mutant: the child is cancelled and left to end by itself.
EndNotAwaited(c) == FALSE

EndAwaited(c) == Alive(c)

\* The timeout of demux.wait: the child is cancelled, then the task has failed.
InnerTimer(t) ==
  /\ inner[t] \in Waiting
  /\ CancelAgentRun({Current(t)}) /\ Ignore({Current(t)})
  /\ IF EndAwaited(Current(t))
     THEN inner' = [inner EXCEPT ![t] = "timing out"] /\ UNCHANGED result
     ELSE inner' = [inner EXCEPT ![t] = "failed"] /\ result' = [result EXCEPT ![t] = "failed"]
  /\ UNCHANGED <<phase, mappers, late, mailbox, demux, requeue, sent, taken, stops>>

\* A CancelledError meets the run_subagent_task of the tasks S: one that waits
\* cancels its child and awaits its end; one that is in its TimeoutError
\* handler passes the cancel on to the child's run.
CancelInner(S) ==
  LET hit == {t \in S : inner[t] \in Waiting} IN
    /\ inner' = [t \in Tasks |-> IF t \notin hit THEN inner[t]
                                 ELSE IF EndAwaited(Current(t)) THEN "cut" ELSE "raised"]
    /\ CancelAgentRun({Current(t) : t \in hit}) /\ Ignore({Current(t) : t \in hit})

\* asyncio.wait_for of the mapper: at its own timeout, or at the deadline of the
\* workflow.  It cancels run_subagent_task and awaits it.
OuterTimer(t) ==
  /\ mapper[t] = "awaiting" /\ inner[t] \in Waiting \cup {"timing out"}
  /\ scope[t] = "workflow" => late = "past"
  /\ mapper' = [mapper EXCEPT ![t] = "stopping"]
  /\ CancelInner({t})
  /\ UNCHANGED <<phase, attempt, scope, result, late, mailbox, demux, requeue, sent, taken, stops>>

\* A cancelled run ends; it mails nothing.  Whoever awaits it wakes: the
\* interrupt, and run_subagent_task, which fails after a timeout (a cancel
\* that came meanwhile is lost) or raises.
ChildStops(c) ==
  LET t == c[1] IN
    /\ child[c] = "doomed" /\ child' = [child EXCEPT ![c] = "over"]
    /\ cut' = cut \ {c}
    /\ IF Current(t) # c \/ inner[t] \notin {"timing out", "cut"}
       THEN UNCHANGED <<inner, result>>
       ELSE IF inner[t] = "timing out"
       THEN inner' = [inner EXCEPT ![t] = "failed"] /\ result' = [result EXCEPT ![t] = "failed"]
       ELSE inner' = [inner EXCEPT ![t] = "raised"] /\ UNCHANGED result
    /\ mapper' = IF mapper[t] = "cancelling" /\ inner'[t] \in Done
                 THEN [mapper EXCEPT ![t] = "cancelled"] ELSE mapper
    /\ UNCHANGED <<phase, attempt, scope, late, mailbox, demuxes, sent, taken, stop, struck>>

\* Mutant: off by one.
LastAttemptLate(t) == attempt[t] > MaxRetries + 1

LastAttempt(t) == attempt[t] > MaxRetries

\* wait_for returns or raises TimeoutError: the outcome, then the next attempt
\* or the end of the mapper.
Resume(t) ==
  /\ mapper[t] \in {"awaiting", "stopping"} /\ inner[t] \in Done
  /\ LET results == IF inner[t] = "raised" THEN [result EXCEPT ![t] = "failed"] ELSE result IN
       IF inner[t] = "completed" \/ scope[t] = "workflow" \/ LastAttempt(t)
       THEN /\ mapper' = [mapper EXCEPT ![t] = "ended"] /\ result' = results
            /\ inner' = [inner EXCEPT ![t] = None] /\ scope' = [scope EXCEPT ![t] = "mapper"]
            /\ UNCHANGED <<attempt, child, mailbox, demux, cached, requeue>>
       ELSE Attempt(t, results)
  /\ UNCHANGED <<phase, late, ignored, sent, taken, stops>>

\* The deadline comes nearer; nobody reads it when every mapper has ended.
Tick ==
  /\ \E t \in Tasks : mapper[t] \in {"queued", "awaiting", "stopping"}
  /\ late # "past" /\ late' = IF late = "no" THEN "near" ELSE "past"
  /\ UNCHANGED <<phase, mappers, inner, child, result, mailbox, demuxes, sent, taken, stops>>

-----------------------------------------------------------------------------
(* The workflow's end *)

\* gather returns; the reducer runs in a thread, under its own timeout.
Gathered ==
  /\ phase = "mapping" /\ ~struck /\ \A t \in Tasks : mapper[t] = "ended"
  /\ phase' = "reducing"
  /\ UNCHANGED <<mappers, inner, child, result, late, mailbox, demuxes, sent, taken, stops>>

Reduced ==
  /\ phase = "reducing" /\ phase' = "returned"
  /\ UNCHANGED <<mappers, inner, child, result, late, mailbox, demuxes, sent, taken, stops>>

\* gather raises at its first cancelled mapper, the others go on; or, when every
\* mapper has ended, because a cancel was asked for.
GatherRaises ==
  /\ phase = "mapping" /\ struck
  /\ (\E t \in Tasks : mapper[t] = "cancelled") \/ \A t \in Tasks : mapper[t] = "ended"
  /\ phase' = "raised"
  /\ UNCHANGED <<mappers, inner, child, result, late, mailbox, demuxes, sent, taken, stops>>

\* What runs within the next turns of the event loop: an end of gather takes
\* longer to reach run_workflow.
Awake == \/ \E t \in Tasks : mapper[t] \in {"awaiting", "stopping"} /\ inner[t] \in Done
         \/ \E c \in Attempts : child[c] = "returned"

\* _finalize_cancelled_workflow: tasks without a result become cancelled.
Finalized(t) == IF phase = "raised" /\ result[t] = None THEN "cancelled" ELSE result[t]

\* run_workflow leaves the active workflows and closes the demux.
Leave ==
  /\ phase \in {"returned", "raised"} /\ ~Awake
  /\ phase' = "over" /\ result' = [t \in Tasks |-> Finalized(t)]
  /\ mailbox' = mailbox \cup GivenBack /\ demux' = "off"
  /\ cached' = {} /\ requeue' = {} /\ ignored' = {}
  /\ inner' = [t \in Tasks |-> IF inner[t] = "waiting" THEN "deaf" ELSE inner[t]]
  /\ UNCHANGED <<mappers, child, late, sent, taken, stops>>

-----------------------------------------------------------------------------
(* Interrupt and cancel_workflow *)

Stop(s) ==
  /\ stop = None /\ phase \in {"mapping", "reducing"} /\ stop' = s
  /\ UNCHANGED <<phase, mappers, inner, child, result, late, mailbox, demuxes, sent, taken, cut, struck>>

\* AgentManager.cancel_subtree has closed the registry; it cancels one child
\* after the other and awaits its end.
Cut(c) ==
  /\ stop = "interrupt" /\ ~struck /\ cut = {} /\ Alive(c)
  /\ cut' = {c} /\ CancelAgentRun({c})
  /\ UNCHANGED <<phase, mappers, inner, result, late, mailbox, demuxes, sent, taken, stop, struck>>

\* Mutant: the interrupt cancels the children without awaiting their ends.
ChildrenCancelled == \A c \in Attempts : child[c] # "active"

ChildrenCut == cut = {} /\ \A c \in Attempts : ~Alive(c)

\* The cancel of the root's run, or of result_task, reaches gather and every
\* mapper: one that waits for the semaphore ends; one in wait_for cancels
\* run_subagent_task and awaits it, or has its result already and goes on with
\* that; one that is awaiting it after a timeout ends and leaves it behind.
AfterCancel(t) ==
  CASE mapper[t] \in {"queued", "stopping"} -> "cancelled"
    [] mapper[t] = "awaiting" /\ inner[t] = "timing out" -> "cancelling"
    [] mapper[t] = "awaiting" /\ inner[t] \in Waiting ->
         IF Alive(Current(t)) THEN "cancelling" ELSE "cancelled"
    [] OTHER -> mapper[t]

Strike ==
  /\ stop # None /\ ~struck /\ phase \in {"mapping", "reducing"}
  /\ stop = "interrupt" => ChildrenCut
  /\ struck' = TRUE
  /\ mapper' = [t \in Tasks |-> AfterCancel(t)]
  /\ CancelInner({t \in Tasks : mapper[t] = "awaiting"})
  /\ phase' = IF phase = "reducing" THEN "raised" ELSE phase
  /\ UNCHANGED <<attempt, scope, result, late, mailbox, demux, requeue, sent, taken, stop, cut>>

-----------------------------------------------------------------------------
\* What the event loop and its timers do of themselves.
Turn == \/ \E t \in Tasks : Start(t) \/ Resume(t) \/ InnerTimer(t) \/ OuterTimer(t)
        \/ \E c \in Attempts : ChildMails(c) \/ ChildStops(c) \/ Cut(c)
        \/ \E m \in Mails : RootTakes(m)
        \/ Tick \/ Gathered \/ Reduced \/ GatherRaises \/ Leave \/ Strike

Next == \/ Turn
        \/ \E c \in Attempts : ChildReturns(c)
        \/ \E m \in Texts \cup Others : Send(m)
        \/ \E s \in Stops : Stop(s)

Spec == Init /\ [][Next]_vars

\* The event loop runs what is ready, timers fire, a cancelled run ends; nothing
\* is assumed of a child's own run.  No part needs fairness of its own: what the
\* loop does of itself comes to an end.
Fairness == WF_vars(Turn)

FairSpec == Spec /\ Fairness

-----------------------------------------------------------------------------
(* Properties *)

\* Two attempts of a task share its child_session_id and its result.json: the
\* first one's child has ended before a retry spawns the second, also when the
\* timeout of the attempt, of the mapper and a cancel race its result.
AttemptsExclude ==
  \A c, d \in Attempts : c # d /\ c[1] = d[1] => ~(Alive(c) /\ Alive(d))

\* The root's loop never runs on a result of the workflow's own children, which
\* it would take for an answer to its session: every one of them is handed over,
\* ignored by the demux or dropped by the epoch gate, however late it comes.
\* After cancel_workflow, which leaves the registry open, that is not so.
OwnResultsStay == stop # "cancel" => taken \cap Attempts = {}

\* _finalize_cancelled_workflow has the last word: gather leaves the other mappers
\* running when it raises, but none of them writes a result.json after it.  After
\* cancel_workflow a mapper that awaits its timed-out child does.
FinalizedStays == [][Inactive /\ stop # "cancel" => result' = result]_vars

\* What the demux reads beside the root's loop is not lost: every text, and every
\* result another tool call waits for, reaches the root in the end, whatever
\* stops the workflow; an interrupt drops results.
MailTaken == <>[](\A m \in sent : m \in taken \/ (m \in Others /\ stop = "interrupt"))
=============================================================================
