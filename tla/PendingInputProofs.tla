------------------------- MODULE PendingInputProofs -------------------------
(* For any number of inputs, any capacity and any disturbances: a run's end   *)
(* never meets a closed registry; an accepted input is in exactly one place;  *)
(* it enters the history once at most; a steer that may come back has its     *)
(* claim; nothing is lost without a cause.                                    *)
EXTENDS PendingInputs, DataLemmas

\* The registry is closed from the cut to the end of its teardown, and the
\* interrupt holds the lock for no longer than that.
ClosedWhileReset ==
  /\ closed <=> reset # "none"
  /\ locked => closed

\* An eviction blocks the cell first; while it takes the run off, only the
\* cancelled one is left there; a registry it closed finds the cell empty.
EvictOrder ==
  /\ evict # "none" => evicting
  /\ evict \in {"marked", "cancelled"} => block = "evicted"
  /\ evict = "cancelled" /\ HasActiveRun => task[current] = "finished"
  /\ closed /\ ~locked => evict = "closed" /\ ~HasActiveRun /\ block # "none"

\* What the run tasks and the current one range over.
RunTasks ==
  /\ task = [i \in Inputs |-> task[i]]
  /\ current \in Inputs \cup {None}

\* The inductive invariant.  ClosedIsBeingReset alone does not rule out that a
\* blocked cell starts a run between two steps of the eviction.
IInv == RunTasks /\ ClosedWhileReset /\ EvictOrder

LEMMA IInvInit == Init => IInv
  BY DEF Init, IInv, RunTasks, ClosedWhileReset, EvictOrder, HasActiveRun

LEMMA IInvImplies == IInv => ClosedIsBeingReset
  BY DEF IInv, ClosedWhileReset, EvictOrder, ClosedIsBeingReset

\* What users do leaves a blocked cell without a new run.
LEMMA IInvUser ==
  ASSUME IInv, NEW i \in Inputs,
         Submit(i) \/ Cancel(i) \/ SteerNow(i) \/ StartNow(i) \/ RefuseNow(i)
  PROVE  IInv'
<1> USE DEF IInv, RunTasks, ClosedWhileReset, EvictOrder, HasActiveRun, Active,
            cell, tasks, tree, runner, ctl
<1>1. CASE Submit(i) BY <1>1 DEF Submit, Start, StartNext
<1>2. CASE Cancel(i) BY <1>2 DEF Cancel
<1>3. CASE SteerNow(i) BY <1>3 DEF SteerNow
<1>4. CASE StartNow(i) BY <1>4 DEF StartNow, Start
<1>5. CASE RefuseNow(i) BY <1>5 DEF RefuseNow
<1> QED BY <1>1, <1>2, <1>3, <1>4, <1>5

\* A run's end is met on an open registry or on an eviction that starts nothing.
LEMMA IInvHost ==
  ASSUME IInv, Host
  PROVE  IInv'
<1> USE DEF IInv, RunTasks, ClosedWhileReset, EvictOrder, HasActiveRun, Active,
            cell, tasks, tree, runner, ctl
<1>1. CASE Post BY <1>1 DEF Post
<1>2. ASSUME NEW i \in Inputs, Render(i) PROVE IInv' BY <1>2 DEF Render
<1>3. ASSUME NEW i \in Inputs, RunDone(i) PROVE IInv'
  <2>1. ~closed BY <1>3, NoneAssumption DEF RunDone
  <2>2. CASE Drains(i) /\ Requeued(i) # <<>>
    BY <1>3, <2>1, <2>2 DEF RunDone, Drains, StartNext, Start
  <2>3. CASE ~(Drains(i) /\ Requeued(i) # <<>>) BY <1>3, <2>1, <2>3 DEF RunDone
  <2> QED BY <2>2, <2>3
<1>4. ASSUME NEW i \in Inputs, StaleRunDone(i) PROVE IInv' BY <1>4 DEF StaleRunDone
<1> QED BY <1>1, <1>2, <1>3, <1>4 DEF Host

\* The loop moves no run task but one that waits, and touches nothing else here.
LEMMA IInvLoop ==
  ASSUME IInv, Loop
  PROVE  IInv'
<1> USE DEF IInv, RunTasks, ClosedWhileReset, EvictOrder, HasActiveRun, Active,
            cell, tasks, tree, runner, ctl
<1>1. CASE LoopTakes BY <1>1 DEF LoopTakes
<1>2. CASE Seed BY <1>2 DEF Seed
<1>10. CASE Register BY <1>10 DEF Register
<1>3. CASE TakeSteers BY <1>3 DEF TakeSteers
<1>4. CASE Inject BY <1>4 DEF Inject
<1>5. CASE Settle BY <1>5 DEF Settle
<1>6. CASE TurnsEnd BY <1>6 DEF TurnsEnd
<1>7. CASE Close BY <1>7 DEF Close
<1>8. CASE Strike BY <1>8 DEF Strike
<1>9. CASE LoopResumes BY <1>9 DEF LoopResumes, Answer
<1> QED BY <1>1, <1>2, <1>3, <1>4, <1>5, <1>6, <1>7, <1>8, <1>9, <1>10 DEF Loop

\* Interrupts close and reopen under the lock, evictions on a cell they have
\* blocked and emptied.
LEMMA IInvDisturbed ==
  ASSUME IInv, Disturbed
  PROVE  IInv'
<1> USE DEF IInv, RunTasks, ClosedWhileReset, EvictOrder, HasActiveRun, Active,
            cell, tasks, tree, runner, ctl
<1>1. CASE Interrupt BY <1>1 DEF Interrupt, Cut
<1>2. CASE CutDone BY <1>2 DEF CutDone
<1>3. CASE TornDown BY <1>3 DEF TornDown, Abandoned
<1>4. CASE TeardownHangs BY <1>4 DEF TeardownHangs, Answer
<1>5. CASE EvictMarks BY <1>5 DEF EvictMarks
<1>6. CASE EvictCancels BY <1>6 DEF EvictCancels
<1>7. CASE EvictCloses BY <1>7 DEF EvictCloses, Cut, LeftOver
<1> QED BY <1>1, <1>2, <1>3, <1>4, <1>5, <1>6, <1>7 DEF Disturbed

LEMMA IInvStep == IInv /\ [Next]_vars => IInv'
<1> SUFFICES ASSUME IInv, [Next]_vars PROVE IInv' OBVIOUS
<1>1. CASE User BY <1>1, IInvUser DEF User
<1>2. CASE Reorder
  BY <1>2 DEF Reorder, IInv, RunTasks, ClosedWhileReset, EvictOrder, HasActiveRun, tasks, tree,
              runner, ctl
<1>3. CASE Host BY <1>3, IInvHost
<1>4. CASE Loop BY <1>4, IInvLoop
<1>5. CASE Disturbed BY <1>5, IInvDisturbed
<1>6. CASE UNCHANGED vars
  BY <1>6 DEF vars, IInv, RunTasks, ClosedWhileReset, EvictOrder, HasActiveRun, cell, tasks,
              tree, ctl
<1> QED BY <1>1, <1>2, <1>3, <1>4, <1>5, <1>6 DEF Next

\* The branch of _handle_pending_run_done that resets a closed registry, and with
\* it lifts an eviction's stop, is never the one taken: the registry is closed
\* only under the lock or on a cell without a current run.
THEOREM RunEndMeetsOpenRegistry == Spec => []ClosedIsBeingReset
<1>1. Spec => []IInv BY IInvInit, IInvStep, PTL DEF Spec
<1> QED BY <1>1, IInvImplies, PTL

\* Hence a run that ends on an evicted cell starts no other.
THEOREM EvictedStartsNothing ==
  Spec => [][\A i \in Inputs : RunDone(i) /\ evicting => ready' = ready]_vars
<1>1. IInv => [\A i \in Inputs : RunDone(i) /\ evicting => ready' = ready]_vars
  BY NoneAssumption
     DEF IInv, ClosedWhileReset, EvictOrder, HasActiveRun, RunDone, Drains, vars, tasks
<1>2. Spec => []IInv BY IInvInit, IInvStep, PTL DEF Spec
<1> QED BY <1>1, <1>2, PTL

-----------------------------------------------------------------------------
(* Where an input is *)

\* Where an input can be, beside the queues: on its way into the history as the
\* input of a run, taken by a turn, given back in a Result nobody has dealt with.
Starting(i) == stage \in {"starting", "seeding"} /\ run = i
Taken       == IF stage = "settling" THEN Tail(taking) ELSE taking
HeldBy(t, i) == task[t] \in {"resolved", "finished"} /\ i \in ToSet(left[t])

\* Nothing is in a queue twice.
Single ==
  /\ IsInjective(queue) /\ IsInjective(ready) /\ IsInjective(mailbox)
  /\ IsInjective(buffer) /\ IsInjective(taking)
  /\ \A t \in Inputs : IsInjective(left[t])

\* An input is accepted while it is somewhere, and only then.
Somewhere(i) ==
  \/ i \in ToSet(queue) \/ i \in ToSet(ready) \/ i \in ToSet(mailbox) \/ Starting(i)
  \/ i \in ToSet(buffer) \/ i \in ToSet(Taken) \/ \E t \in Inputs : HeldBy(t, i)
Kept == \A i \in Inputs : fate[i] = "accepted" <=> Somewhere(i)

\* Where it is shows in its run task: an input that may still become a run or a
\* steer has none, and an input posted once is not posted again.
TaskOf ==
  \A i \in Inputs :
    /\ i \in ToSet(queue) \/ i \in ToSet(buffer) \/ i \in ToSet(Taken)
         \/ (\E t \in Inputs : HeldBy(t, i)) => task[i] = "none"
    /\ i \in ToSet(ready) => task[i] = "created"
    /\ i \in ToSet(mailbox) \/ run = i => task[i] \notin {"none", "created"}
    /\ fate[i] = "absent" => task[i] = "none"
    /\ task[i] \in {"none", "created", "waiting"} => left[i] = <<>>
    /\ current = i => task[i] \notin {"none", "handled"}

\* And it is in one place: of those that its task does not tell apart.
Apart ==
  /\ ToSet(queue) \cap ToSet(buffer) = {}
  /\ ToSet(Taken) \cap (ToSet(queue) \cup ToSet(buffer)) = {}
  /\ run \notin ToSet(mailbox)
  /\ \A t, i \in Inputs : HeldBy(t, i) =>
       /\ i \notin ToSet(queue) /\ i \notin ToSet(buffer) /\ i \notin ToSet(Taken)
       /\ \A u \in Inputs : HeldBy(u, i) => u = t

\* What the steer buffer and a turn hold, by the stage of the run.
Stage ==
  /\ stage \in {"injecting", "settling"} <=> taking # <<>>
  /\ stage \in {"idle", "starting"} => buffer = <<>>
  /\ stage = "settling" => fate[Head(taking)] = "heard"

\* A run is awaited until an eviction cancels its task.
Awaited ==
  \A i \in Inputs : ~evicting /\ (i \in ToSet(mailbox) \/ run = i) => task[i] = "waiting"

InPlace == Single /\ Kept /\ TaskOf /\ Apart /\ Stage /\ Awaited

\* The whole invariant: what an input's place says of its claim and its history
\* is inductive only with it.
InputInv == TypeOK /\ InPlace /\ ClaimKept /\ HeardOnce

\* Sorting by priority moves items, and only moves them.
LEMMA OrderedItems ==
  ASSUME NEW s \in Seq(Inputs)
  PROVE  /\ Ordered(s) \in Seq(Inputs)
         /\ ToSet(Ordered(s)) = ToSet(s)
         /\ IsInjective(s) => IsInjective(Ordered(s))
<1> DEFINE a == Only(s, Answers)
           b == Only(s, Inputs \ Answers)
<1>1. /\ a \in Seq(Inputs) /\ ToSet(a) = ToSet(s) \cap Answers
      /\ IsInjective(s) => IsInjective(a)
  BY OnlyItems
<1>2. /\ b \in Seq(Inputs) /\ ToSet(b) = ToSet(s) \cap (Inputs \ Answers)
      /\ IsInjective(s) => IsInjective(b)
  BY OnlyItems
<1>3. ToSet(s) \subseteq Inputs
  BY DEF ToSet
<1> HIDE DEF a, b
<1>4. ToSet(a) \cap ToSet(b) = {}
  BY <1>1, <1>2
<1>5. /\ a \o b \in Seq(Inputs) /\ ToSet(a \o b) = ToSet(a) \cup ToSet(b)
      /\ IsInjective(s) => IsInjective(a \o b)
  BY <1>1, <1>2, <1>4, ConcatItems
<1>6. ToSet(a) \cup ToSet(b) = ToSet(s)
  BY <1>1, <1>2, <1>3
<1>7. Ordered(s) = a \o b
  BY DEF Ordered, a, b
<1> QED BY <1>5, <1>6, <1>7

\* Taking an input out of a queue takes that one.
LEMMA WithoutItems ==
  ASSUME NEW s \in Seq(Inputs), NEW i
  PROVE  /\ Without(s, i) \in Seq(Inputs)
         /\ ToSet(Without(s, i)) = ToSet(s) \ {i}
         /\ IsInjective(s) => IsInjective(Without(s, i))
<1>1. ToSet(s) \subseteq Inputs
  BY DEF ToSet
<1> QED BY <1>1, OnlyItems DEF Without

LEMMA EmptyItems == ToSet(<<>>) = {} /\ IsInjective(<<>>) /\ <<>> \in Seq(Inputs)
<1>1. <<>> \in Seq(Inputs)
  OBVIOUS
<1> QED BY <1>1 DEF ToSet, IsInjective

LEMMA OneItem ==
  ASSUME NEW x
  PROVE  ToSet(<<x>>) = {x}
BY DEF ToSet

\* What Lost and Heard do to the fates.
LEMMA LostIs ==
  ASSUME fate \in [Inputs -> Fates], NEW S
  PROVE  /\ Lost(S) \in [Inputs -> Fates]
         /\ \A i \in Inputs :
              /\ Lost(S)[i] = "accepted" <=> fate[i] = "accepted" /\ i \notin S
              /\ Lost(S)[i] # fate[i] => Lost(S)[i] = "lost" /\ fate[i] = "accepted" /\ i \in S
BY DEF Lost, Fates

LEMMA HeardIs ==
  ASSUME fate \in [Inputs -> Fates], NEW i \in Inputs, fate[i] = "accepted"
  PROVE  /\ Heard(i) \in [Inputs -> Fates] /\ Heard(i)[i] = "heard"
         /\ \A j \in Inputs \ {i} : Heard(i)[j] = fate[j]
BY DEF Heard, Fates

\* A queue loses its head to the run it becomes.
LEMMA NextItems ==
  ASSUME NEW q \in Seq(Inputs), q # <<>>, ready \in Seq(Inputs), NEW t, StartNext(q, t)
  PROVE  \E j \in Inputs :
           /\ j \in ToSet(q) /\ Start(j, t)
           /\ queue' \in Seq(Inputs) /\ ToSet(q) = ToSet(queue') \cup {j}
           /\ IsInjective(q) => IsInjective(queue') /\ j \notin ToSet(queue')
<1>1. PICK j \in Inputs : j = Head(q) /\ queue' = Tail(q) /\ Start(j, t)
  BY DEF StartNext
<1>2. /\ Tail(q) \in Seq(Inputs) /\ ToSet(q) = ToSet(Tail(q)) \cup {Head(q)}
      /\ IsInjective(q) => IsInjective(Tail(q)) /\ Head(q) \notin ToSet(Tail(q))
  BY TailItems
<1> QED BY <1>1, <1>2

\* A run that is started is one more task that is ready.
LEMMA StartItems ==
  ASSUME NEW i \in Inputs, ready \in Seq(Inputs), NEW t, Start(i, t)
  PROVE  /\ ready' \in Seq(Inputs) /\ ToSet(ready') = ToSet(ready) \cup {i}
         /\ IsInjective(ready) /\ i \notin ToSet(ready) => IsInjective(ready')
BY AppendItems DEF Start

\* A submitted input is one more in the queue, wherever its priority puts it.
LEMMA SubmitItems ==
  ASSUME queue \in Seq(Inputs), NEW i \in Inputs
  PROVE  LET q == Ordered(Append(queue, i)) IN
           /\ q \in Seq(Inputs) /\ q # <<>> /\ ToSet(q) = ToSet(queue) \cup {i}
           /\ IsInjective(queue) /\ i \notin ToSet(queue) => IsInjective(q)
<1> DEFINE s == Append(queue, i)
           q == Ordered(s)
<1>1. /\ s \in Seq(Inputs) /\ ToSet(s) = ToSet(queue) \cup {i}
      /\ IsInjective(queue) /\ i \notin ToSet(queue) => IsInjective(s)
  BY AppendItems
<1> HIDE DEF s
<1>2. /\ q \in Seq(Inputs) /\ ToSet(q) = ToSet(s)
      /\ IsInjective(s) => IsInjective(q)
  BY <1>1, OrderedItems
<1>3. q # <<>>
  BY <1>1, <1>2, EmptyItems
<1> QED BY <1>1, <1>2, <1>3 DEF s

\* Every variable keeps its type, whatever step is taken.
LEMMA TypesStep ==
  ASSUME TypeOK, Stage, [Next]_vars
  PROVE  TypeOK'
<1> USE NoneAssumption, EmptyItems DEF cell, tasks, tree, runner, ctl
<1>1. ASSUME NEW i \in Inputs, Submit(i) PROVE TypeOK'
  <2> DEFINE q == Ordered(Append(queue, i))
  <2>1. q \in Seq(Inputs) /\ q # <<>>
    BY SubmitItems DEF TypeOK
  <2>2. fate' \in [Inputs -> Fates]
    BY <1>1 DEF TypeOK, Submit, Fates
  <2>3. CASE queue' = q /\ UNCHANGED <<current, task, ready>>
    <3>1. block' \in Blocks
      BY <1>1 DEF TypeOK, Submit, Blocks
    <3>2. UNCHANGED <<claims, evicting, ended, left, tree, runner, ctl>>
      BY <1>1 DEF Submit
    <3> HIDE DEF q
    <3> QED BY <2>1, <2>2, <2>3, <3>1, <3>2 DEF TypeOK
  <2>4. CASE StartNext(q, task) /\ UNCHANGED block
    <3> HIDE DEF q
    <3>1. PICK j \in Inputs : Start(j, task) /\ queue' \in Seq(Inputs)
      BY <2>1, <2>4, NextItems DEF TypeOK
    <3>2. ready' \in Seq(Inputs)
      BY <3>1, StartItems DEF TypeOK
    <3> QED BY <1>1, <2>2, <2>4, <3>1, <3>2 DEF TypeOK, Submit, Start, TaskStates
  <2> QED BY <1>1, <2>3, <2>4 DEF Submit
<1>2. ASSUME NEW i \in Inputs, Cancel(i) PROVE TypeOK'
  <2>1. queue' \in Seq(Inputs)
    BY <1>2, WithoutItems DEF Cancel, TypeOK
  <2> QED BY <1>2, <2>1 DEF TypeOK, Cancel, Fates
<1>3. ASSUME Reorder PROVE TypeOK'
  <2>1. PICK s \in SetToSeqs(ToSet(queue)) : queue' = Ordered(s)
    BY <1>3 DEF Reorder
  <2>2. s \in Seq(Inputs)
    BY OrdersOf DEF TypeOK
  <2>3. queue' \in Seq(Inputs)
    BY <2>1, <2>2, OrderedItems
  <2> QED BY <1>3, <2>3 DEF TypeOK, Reorder
<1>4. ASSUME NEW i \in Inputs, SteerNow(i) PROVE TypeOK'
  <2>1. queue' \in Seq(Inputs)
    BY <1>4, WithoutItems DEF SteerNow, TypeOK
  <2> QED BY <1>4, <2>1 DEF TypeOK, SteerNow
<1>5. ASSUME NEW i \in Inputs, StartNow(i) PROVE TypeOK'
  <2>1. queue' \in Seq(Inputs)
    BY <1>5, WithoutItems DEF StartNow, TypeOK
  <2> QED BY <1>5, <2>1 DEF TypeOK, StartNow, Start, TaskStates
<1>6. ASSUME NEW i \in Inputs, RefuseNow(i) PROVE TypeOK'
  <2>1. Without(queue, i) \in Seq(Inputs) /\ Lost({i}) \in [Inputs -> Fates]
    BY WithoutItems, LostIs DEF TypeOK
  <2>2. queue' \in Seq(Inputs) /\ fate' \in [Inputs -> Fates]
    BY <1>6, <2>1 DEF RefuseNow, TypeOK
  <2> QED BY <1>6, <2>2 DEF TypeOK, RefuseNow, Blocks
<1>7. ASSUME Post PROVE TypeOK'
  BY <1>7 DEF TypeOK, Post, TaskStates
<1>8. ASSUME NEW i \in Inputs, Render(i) PROVE TypeOK'
  BY <1>8 DEF TypeOK, Render, TaskStates
<1>9. ASSUME NEW i \in Inputs, RunDone(i) PROVE TypeOK'
  <2>1. left[i] \o queue \in Seq(Inputs)
    BY DEF TypeOK
  <2>2. Requeued(i) \in Seq(Inputs)
    BY <2>1, OrderedItems DEF Requeued
  <2> DEFINE t == [task EXCEPT ![i] = "handled"]
  <2>3. t \in [Inputs -> TaskStates]
    BY DEF TypeOK, TaskStates
  <2>4. CASE Drains(i) /\ Requeued(i) # <<>>
    <3>1. StartNext(Requeued(i), t)
      BY <1>9, <2>4 DEF RunDone
    <3> HIDE DEF t
    <3>2. PICK j \in Inputs : Start(j, t) /\ queue' \in Seq(Inputs)
      BY <2>2, <2>4, <3>1, NextItems DEF TypeOK
    <3>3. ready' \in Seq(Inputs)
      BY <3>2, StartItems DEF TypeOK
    <3> QED BY <1>9, <2>3, <3>2, <3>3 DEF TypeOK, RunDone, Start, TaskStates
  <2>5. CASE ~(Drains(i) /\ Requeued(i) # <<>>)
    <3>1. /\ queue' = Requeued(i) /\ current' = None /\ task' = t /\ claims' = {}
          /\ UNCHANGED <<ready, block, evicting, ended, left, tree, runner, ctl, fate>>
      BY <1>9, <2>5 DEF RunDone
    <3> HIDE DEF t
    <3> QED BY <2>2, <2>3, <3>1 DEF TypeOK
  <2> QED BY <2>4, <2>5
<1>10. ASSUME NEW i \in Inputs, StaleRunDone(i) PROVE TypeOK'
  BY <1>10 DEF TypeOK, StaleRunDone, Lost, TaskStates, Fates
<1>11. ASSUME LoopTakes PROVE TypeOK'
  <2>1. Head(mailbox) \in Inputs /\ Tail(mailbox) \in Seq(Inputs)
    BY <1>11, TailItems DEF LoopTakes, TypeOK
  <2>2. fate' \in [Inputs -> Fates]
    BY <1>11, LostIs DEF LoopTakes, TypeOK
  <2> QED BY <1>11, <2>1, <2>2 DEF TypeOK, LoopTakes, Stages, Ends
<1>12. ASSUME Register PROVE TypeOK'
  BY <1>12 DEF TypeOK, Register, Stages
<1>13. ASSUME Seed PROVE TypeOK'
  BY <1>13 DEF TypeOK, Seed, Heard, Stages, Fates
<1>14. ASSUME TakeSteers PROVE TypeOK'
  BY <1>14 DEF TypeOK, TakeSteers, Stages
<1>15. ASSUME Inject PROVE TypeOK'
  BY <1>15 DEF TypeOK, Inject, Heard, Stages, Fates
<1>16. ASSUME Settle PROVE TypeOK'
  <2>1. taking' \in Seq(Inputs)
    BY <1>16, TailItems DEF Settle, Stage, TypeOK
  <2> QED BY <1>16, <2>1 DEF TypeOK, Settle, ClaimSettled, Stages
<1>17. ASSUME TurnsEnd PROVE TypeOK'
  <2>1. fate' \in [Inputs -> Fates]
    BY <1>17, LostIs DEF TurnsEnd, TypeOK
  <2>2. outcome' \in Ends
    BY <1>17, OutcomesAssumption DEF TurnsEnd, Ends
  <2>3. stage' = "closing" /\ stage # "idle" /\ taking' = <<>>
        /\ UNCHANGED <<cell, tasks, tree, run, struck, buffer, ctl>>
    BY <1>17 DEF TurnsEnd
  <2> QED BY <2>1, <2>2, <2>3 DEF TypeOK, Stages
<1>18. ASSUME Close PROVE TypeOK'
  BY <1>18 DEF TypeOK, Close, Stages
<1>19. ASSUME Strike PROVE TypeOK'
  <2>1. fate' \in [Inputs -> Fates]
    BY <1>19, LostIs DEF Strike, TypeOK
  <2>2. stage' \in Stages \ {"idle"} /\ outcome' \in Ends /\ run' = run /\ stage # "idle"
    BY <1>19 DEF Strike, Stages, Ends
  <2>3. buffer' \in Seq(Inputs) /\ taking' \in Seq(Inputs) /\ struck' \in BOOLEAN
    BY <1>19 DEF Strike, TypeOK
  <2> QED BY <1>19, <2>1, <2>2, <2>3 DEF TypeOK, Strike
<1>20. ASSUME LoopResumes PROVE TypeOK'
  <2>1. fate' \in [Inputs -> Fates]
    BY <1>20, LostIs DEF LoopResumes, Answer, TypeOK
  <2>2. /\ task' \in [Inputs -> TaskStates] /\ ended' \in [Inputs -> Ends]
        /\ left' \in [Inputs -> Seq(Inputs)]
    <3>1. CASE task[run] = "waiting"
      <4>1. /\ task' = [task EXCEPT ![run] = "resolved"] /\ ended' = [ended EXCEPT ![run] = outcome]
            /\ left' = [left EXCEPT ![run] = buffer]
        BY <1>20, <3>1 DEF LoopResumes, Answer, Undelivered
      <4> QED BY <4>1 DEF TypeOK, TaskStates
    <3>2. CASE task[run] # "waiting"
      BY <1>20, <3>2 DEF LoopResumes, Answer, TypeOK
    <3> QED BY <3>1, <3>2
  <2> QED BY <1>20, <2>1, <2>2 DEF TypeOK, LoopResumes, Answer, Stages
<1>21. ASSUME Interrupt PROVE TypeOK'
  BY <1>21 DEF TypeOK, Interrupt, Cut
<1>22. ASSUME CutDone PROVE TypeOK'
  BY <1>22 DEF TypeOK, CutDone
<1>23. ASSUME TornDown PROVE TypeOK'
  <2>1. fate' \in [Inputs -> Fates]
    BY <1>23, LostIs DEF TornDown, TypeOK
  <2>2. task' \in [Inputs -> TaskStates] /\ ended' \in [Inputs -> Ends]
    BY <1>23 DEF TornDown, TypeOK, TaskStates, Ends
  <2>3. block' \in Blocks
    BY <1>23 DEF TornDown, TypeOK, Blocks
  <2> QED BY <1>23, <2>1, <2>2, <2>3 DEF TypeOK, TornDown
<1>24. ASSUME TeardownHangs PROVE TypeOK'
  <2>1. fate' \in [Inputs -> Fates]
    BY <1>24, LostIs DEF TeardownHangs, Answer, TypeOK
  <2>2. task' \in [Inputs -> TaskStates] /\ ended' \in [Inputs -> Ends] /\ left' \in [Inputs -> Seq(Inputs)]
    <3>1. CASE task[run] = "waiting"
      <4>1. /\ task' = [task EXCEPT ![run] = "resolved"] /\ ended' = [ended EXCEPT ![run] = "terminal"]
            /\ left' = [left EXCEPT ![run] = <<>>]
        BY <1>24, <3>1 DEF TeardownHangs, Answer
      <4> QED BY <4>1 DEF TypeOK, TaskStates, Ends
    <3>2. CASE task[run] # "waiting"
      BY <1>24, <3>2 DEF TeardownHangs, Answer, TypeOK
    <3> QED BY <3>1, <3>2
  <2> QED BY <1>24, <2>1, <2>2 DEF TypeOK, TeardownHangs, Answer, Stages
<1>25. ASSUME EvictMarks PROVE TypeOK'
  BY <1>25 DEF TypeOK, EvictMarks, Blocks
<1>26. ASSUME EvictCancels PROVE TypeOK'
  <2>1. fate' \in [Inputs -> Fates]
    BY <1>26, LostIs DEF EvictCancels, TypeOK
  <2>2. task' \in [Inputs -> TaskStates] /\ ended' \in [Inputs -> Ends] /\ left' \in [Inputs -> Seq(Inputs)]
    <3>1. \/ UNCHANGED tasks
          \/ /\ task' = [task EXCEPT ![current] = "finished"]
             /\ ended' = [ended EXCEPT ![current] = "terminal"]
             /\ left' = [left EXCEPT ![current] = <<>>]
      BY <1>26 DEF EvictCancels
    <3>2. /\ task \in [Inputs -> TaskStates] /\ ended \in [Inputs -> Ends]
          /\ left \in [Inputs -> Seq(Inputs)]
      BY DEF TypeOK
    <3>3. "finished" \in TaskStates /\ "terminal" \in Ends /\ <<>> \in Seq(Inputs)
      BY DEF TaskStates, Ends
    <3>4. task' \in [Inputs -> TaskStates]
      BY <3>1, <3>2, <3>3
    <3>5. ended' \in [Inputs -> Ends]
      BY <3>1, <3>2, <3>3
    <3>6. left' \in [Inputs -> Seq(Inputs)]
      BY <3>1, <3>2, <3>3
    <3> QED BY <3>4, <3>5, <3>6
  <2>3. ready' \in Seq(Inputs)
    BY <1>26, WithoutItems DEF EvictCancels, TypeOK
  <2> QED BY <1>26, <2>1, <2>2, <2>3 DEF TypeOK, EvictCancels
<1>27. ASSUME EvictCloses PROVE TypeOK'
  BY <1>27 DEF TypeOK, EvictCloses, Cut, LeftOver, Active, HasActiveRun
<1>28. CASE UNCHANGED vars
  BY <1>28 DEF TypeOK, vars
<1> QED BY <1>1, <1>2, <1>3, <1>4, <1>5, <1>6, <1>7, <1>8, <1>9, <1>10, <1>11,
           <1>12, <1>13, <1>14, <1>15, <1>16, <1>17, <1>18, <1>19, <1>20, <1>21, <1>22, <1>23,
           <1>24, <1>25, <1>26, <1>27, <1>28 DEF Next, User, Host, Loop, Disturbed

-----------------------------------------------------------------------------
(* The invariant, action by action *)

\* Interrupts and evictions that only set their marks move no input.
LEMMA QuietStep ==
  ASSUME InputInv, current' \in {current, None}, evicting => evicting',
         UNCHANGED <<queue, claims, task, ready, left, mailbox, run, stage, buffer, taking, fate>>
  PROVE  InPlace' /\ ClaimKept' /\ HeardOnce'
<1> USE NoneAssumption DEF InputInv, InPlace, TypeOK
<1>1. Taken' = Taken /\ Unheard' = Unheard
  BY DEF Taken, Unheard
<1>2. \A t, i \in Inputs : HeldBy(t, i)' <=> HeldBy(t, i)
  BY DEF HeldBy
<1>3. Single' /\ Stage' /\ Awaited' /\ HeardOnce'
  BY DEF Single, Stage, Awaited, HeardOnce
<1>4. Kept'
  BY <1>1, <1>2 DEF Kept, Somewhere, Starting
<1>5. TaskOf' /\ Apart'
  BY <1>1, <1>2 DEF TaskOf, Apart
<1>6. ClaimKept'
  BY <1>1 DEF ClaimKept, HasActiveRun
<1> QED BY <1>3, <1>4, <1>5, <1>6

LEMMA MarksStep ==
  ASSUME InputInv, Interrupt \/ CutDone \/ EvictMarks \/ EvictCloses
  PROVE  InPlace' /\ ClaimKept' /\ HeardOnce'
<1> USE DEF cell, tasks, tree, runner
<1>1. CASE Interrupt BY <1>1, QuietStep DEF Interrupt, Cut
<1>2. CASE CutDone BY <1>2, QuietStep DEF CutDone
<1>3. CASE EvictMarks BY <1>3, QuietStep DEF EvictMarks
<1>4. CASE EvictCloses BY <1>4, QuietStep DEF EvictCloses, LeftOver
<1> QED BY <1>1, <1>2, <1>3, <1>4

\* A Result that is rendered stays with its task.
LEMMA RenderStep ==
  ASSUME IInv, InputInv, NEW i \in Inputs, Render(i)
  PROVE  InPlace' /\ ClaimKept' /\ HeardOnce'
<1> USE NoneAssumption DEF InputInv, InPlace, TypeOK, cell, tasks, tree, runner, ctl
<1>21. Single'
  BY DEF Render, Single
<1>22. Kept'
  BY DEF Render, Kept, Somewhere, Starting, Taken, HeldBy
<1>23. TaskOf'
  BY DEF Render, TaskOf, Taken, HeldBy
<1>24. Apart'
  BY DEF Render, Apart, Taken, HeldBy
<1>25. Stage'
  BY DEF Render, Stage
<1>26. Awaited'
  BY DEF Render, Awaited
<1>27. ClaimKept'
  BY DEF Render, ClaimKept, HasActiveRun, Unheard
<1>28. HeardOnce'
  BY DEF Render, HeardOnce
<1> QED BY <1>21, <1>22, <1>23, <1>24, <1>25, <1>26, <1>27, <1>28 DEF InPlace

\* The run's buffer is open before its input is in the history.
LEMMA RegisterStep ==
  ASSUME IInv, InputInv, Register
  PROVE  InPlace' /\ ClaimKept' /\ HeardOnce'
<1> USE NoneAssumption DEF InputInv, InPlace, TypeOK, cell, tasks, tree, runner, ctl
<1>21. Single'
  BY DEF Register, Single
<1>22. Kept'
  BY DEF Register, Kept, Somewhere, Starting, Taken, HeldBy
<1>23. TaskOf'
  BY DEF Register, TaskOf, Taken, HeldBy
<1>24. Apart'
  BY DEF Register, Apart, Taken, HeldBy
<1>25. Stage'
  BY DEF Register, Stage
<1>26. Awaited'
  BY DEF Register, Awaited
<1>27. ClaimKept'
  BY OneItem DEF Register, ClaimKept, HasActiveRun, Unheard
<1>28. HeardOnce'
  BY DEF Register, HeardOnce
<1> QED BY <1>21, <1>22, <1>23, <1>24, <1>25, <1>26, <1>27, <1>28 DEF InPlace

\* The input of the run goes from the run to the history.
LEMMA SeedStep ==
  ASSUME IInv, InputInv, Seed
  PROVE  InPlace' /\ ClaimKept' /\ HeardOnce'
<1> USE NoneAssumption DEF InputInv, InPlace, TypeOK, cell, tasks, tree, runner, ctl
<1>21. Single'
  BY DEF Seed, Heard, Single
<1>22. Kept'
  <2>1. fate[run] = "accepted"
    BY DEF Seed, Kept, Somewhere, Starting
  <2>2. fate'[run] = "heard" /\ \A j \in Inputs \ {run} : fate'[j] = fate[j]
    BY <2>1, HeardIs DEF Seed
  <2>3. ~Somewhere(run)'
    BY DEF Seed, Somewhere, Starting, Taken, HeldBy, TaskOf, Apart
  <2>4. \A j \in Inputs \ {run} : Somewhere(j)' <=> Somewhere(j)
    BY DEF Seed, Somewhere, Starting, Taken, HeldBy
  <2>5. run' = run
    BY DEF Seed
  <2> QED BY <2>2, <2>3, <2>4, <2>5 DEF Kept
<1>23. TaskOf'
  BY DEF Seed, Heard, TaskOf, Taken, HeldBy
<1>24. Apart'
  BY DEF Seed, Heard, Apart, Taken, HeldBy
<1>25. Stage'
  BY DEF Seed, Heard, Stage
<1>26. Awaited'
  BY DEF Seed, Heard, Awaited
<1>27. ClaimKept'
  BY DEF Seed, Heard, ClaimKept, HasActiveRun, Unheard, TaskOf, Stage, Kept, Somewhere, Taken, HeldBy
<1>28. HeardOnce'
  BY DEF Seed, Heard, HeardOnce, Kept, Somewhere, Starting, Taken
<1> QED BY <1>21, <1>22, <1>23, <1>24, <1>25, <1>26, <1>27, <1>28 DEF InPlace

\* A buffer that is closed still holds what the Result gives back.
LEMMA CloseStep ==
  ASSUME IInv, InputInv, Close
  PROVE  InPlace' /\ ClaimKept' /\ HeardOnce'
<1> USE NoneAssumption DEF InputInv, InPlace, TypeOK, cell, tasks, tree, runner, ctl
<1>21. Single'
  BY DEF Close, Single
<1>22. Kept'
  BY DEF Close, Kept, Somewhere, Starting, Taken, HeldBy
<1>23. TaskOf'
  BY DEF Close, TaskOf, Taken, HeldBy
<1>24. Apart'
  BY DEF Close, Apart, Taken, HeldBy
<1>25. Stage'
  BY DEF Close, Stage
<1>26. Awaited'
  BY DEF Close, Awaited
<1>27. ClaimKept'
  BY DEF Close, ClaimKept, HasActiveRun, Unheard
<1>28. HeardOnce'
  BY DEF Close, HeardOnce
<1> QED BY <1>21, <1>22, <1>23, <1>24, <1>25, <1>26, <1>27, <1>28 DEF InPlace

\* The Result that is dropped takes what it gave back with it.
LEMMA StaleRunDoneStep ==
  ASSUME IInv, InputInv, NEW i \in Inputs, StaleRunDone(i)
  PROVE  InPlace' /\ ClaimKept' /\ HeardOnce'
<1> USE NoneAssumption DEF InputInv, InPlace, TypeOK, cell, tasks, tree, runner, ctl
<1>21. Single'
  BY DEF StaleRunDone, Lost, Single
<1>22. Kept'
  <2>1. \A j \in Inputs : fate'[j] = "accepted" <=> fate[j] = "accepted" /\ j \notin ToSet(left[i])
    BY LostIs DEF StaleRunDone
  <2>2. \A t, j \in Inputs : HeldBy(t, j)' <=> HeldBy(t, j) /\ t # i
    BY DEF StaleRunDone, HeldBy
  <2>3. \A j \in Inputs : HeldBy(i, j) <=> j \in ToSet(left[i])
    BY DEF StaleRunDone, HeldBy
  <2>4. \A j \in Inputs : Somewhere(j)' <=> Somewhere(j) /\ j \notin ToSet(left[i])
    <3>1. \A j \in Inputs : HeldBy(i, j) => task[j] = "none"
      BY DEF TaskOf
    <3> QED BY <2>2, <2>3, <3>1 DEF StaleRunDone, Somewhere, Starting, Taken, TaskOf, Apart
  <2> QED BY <2>1, <2>4 DEF Kept
<1>23. TaskOf'
  BY DEF StaleRunDone, Lost, TaskOf, Taken, HeldBy
<1>24. Apart'
  BY DEF StaleRunDone, Lost, Apart, Taken, HeldBy
<1>25. Stage'
  BY DEF StaleRunDone, Lost, Stage
<1>26. Awaited'
  BY DEF StaleRunDone, Lost, Awaited
<1>27. ClaimKept'
  BY DEF StaleRunDone, Lost, ClaimKept, HasActiveRun, Unheard
<1>28. HeardOnce'
  BY DEF StaleRunDone, Lost, HeardOnce
<1> QED BY <1>21, <1>22, <1>23, <1>24, <1>25, <1>26, <1>27, <1>28 DEF InPlace

\* A turn takes the whole buffer.
LEMMA TakeSteersStep ==
  ASSUME IInv, InputInv, TakeSteers
  PROVE  InPlace' /\ ClaimKept' /\ HeardOnce'
<1> USE NoneAssumption DEF InputInv, InPlace, TypeOK, cell, tasks, tree, runner, ctl
<1>21. Single'
  BY EmptyItems DEF TakeSteers, Single
<1>22. Kept'
  BY DEF TakeSteers, Kept, Somewhere, Starting, Taken, HeldBy, Stage
<1>23. TaskOf'
  BY EmptyItems DEF TakeSteers, TaskOf, Taken, HeldBy
<1>24. Apart'
  BY EmptyItems DEF TakeSteers, Apart, Taken, HeldBy
<1>25. Stage'
  BY DEF TakeSteers, Stage
<1>26. Awaited'
  BY DEF TakeSteers, Awaited
<1>27. ClaimKept'
  BY DEF TakeSteers, ClaimKept, HasActiveRun, Unheard, TaskOf, Stage, Kept, Somewhere, Taken, HeldBy
<1>28. HeardOnce'
  BY DEF TakeSteers, HeardOnce
<1> QED BY <1>21, <1>22, <1>23, <1>24, <1>25, <1>26, <1>27, <1>28 DEF InPlace

\* Only an input in the queue can be cancelled, and it is nowhere else.
LEMMA CancelStep ==
  ASSUME IInv, InputInv, NEW i \in Inputs, Cancel(i)
  PROVE  InPlace' /\ ClaimKept' /\ HeardOnce'
<1> USE NoneAssumption DEF InputInv, InPlace, TypeOK, cell, tasks, tree, runner, ctl
<1>1. /\ queue' \in Seq(Inputs) /\ ToSet(queue') = ToSet(queue) \ {i}
      /\ IsInjective(queue) => IsInjective(queue')
  BY WithoutItems DEF Cancel
<1>21. Single'
  BY <1>1 DEF Cancel, Single
<1>22. Kept'
  BY <1>1 DEF Cancel, Kept, Somewhere, Starting, Taken, HeldBy, TaskOf, Apart
<1>23. TaskOf'
  BY <1>1 DEF Cancel, TaskOf, Taken, HeldBy
<1>24. Apart'
  BY <1>1 DEF Cancel, Apart, Taken, HeldBy
<1>25. Stage'
  <2>1. stage = "settling" => Head(taking) \in Inputs
    BY TailItems DEF Stage
  <2>2. fate[i] = "accepted"
    BY DEF Cancel, Kept, Somewhere
  <2> QED BY <1>1, <2>1, <2>2 DEF Cancel, Stage
<1>26. Awaited'
  BY DEF Cancel, Awaited
<1>27. ClaimKept'
  BY DEF Cancel, ClaimKept, HasActiveRun, Unheard
<1>28. HeardOnce'
  BY DEF Cancel, HeardOnce
<1> QED BY <1>21, <1>22, <1>23, <1>24, <1>25, <1>26, <1>27, <1>28 DEF InPlace

\* A new order has the items of the old one.
LEMMA ReorderStep ==
  ASSUME IInv, InputInv, Reorder
  PROVE  InPlace' /\ ClaimKept' /\ HeardOnce'
<1> USE NoneAssumption DEF InputInv, InPlace, TypeOK, cell, tasks, tree, runner, ctl
<1>1. PICK s \in SetToSeqs(ToSet(queue)) : queue' = Ordered(s)
  BY DEF Reorder
<1>2. s \in Seq(Inputs) /\ ToSet(s) = ToSet(queue) /\ IsInjective(s)
  BY OrdersOf
<1>3. ToSet(queue') = ToSet(queue) /\ IsInjective(queue')
  BY <1>1, <1>2, OrderedItems
<1>21. Single'
  BY <1>3 DEF Reorder, Single
<1>22. Kept'
  BY <1>3 DEF Reorder, Kept, Somewhere, Starting, Taken, HeldBy
<1>23. TaskOf'
  BY <1>3 DEF Reorder, TaskOf, Taken, HeldBy
<1>24. Apart'
  BY <1>3 DEF Reorder, Apart, Taken, HeldBy
<1>25. Stage'
  BY DEF Reorder, Stage
<1>26. Awaited'
  BY DEF Reorder, Awaited
<1>27. ClaimKept'
  BY DEF Reorder, ClaimKept, HasActiveRun, Unheard
<1>28. HeardOnce'
  BY DEF Reorder, HeardOnce
<1> QED BY <1>21, <1>22, <1>23, <1>24, <1>25, <1>26, <1>27, <1>28 DEF InPlace

\* A steer goes from the queue to the buffer, with its claim.
LEMMA SteerNowStep ==
  ASSUME IInv, InputInv, NEW i \in Inputs, SteerNow(i)
  PROVE  InPlace' /\ ClaimKept' /\ HeardOnce'
<1> USE NoneAssumption DEF InputInv, InPlace, TypeOK, cell, tasks, tree, runner, ctl
<1>1. /\ queue' \in Seq(Inputs) /\ ToSet(queue') = ToSet(queue) \ {i}
      /\ IsInjective(queue) => IsInjective(queue')
  BY WithoutItems DEF SteerNow
<1>2. /\ ToSet(buffer') = ToSet(buffer) \cup {i}
      /\ IsInjective(buffer) /\ i \notin ToSet(buffer) => IsInjective(buffer')
  BY AppendItems DEF SteerNow
<1>21. Single'
  BY <1>1, <1>2 DEF SteerNow, Single, Apart
<1>22. Kept'
  BY <1>1, <1>2 DEF SteerNow, Kept, Somewhere, Starting, Taken, HeldBy
<1>23. TaskOf'
  BY <1>1, <1>2 DEF SteerNow, TaskOf, Taken, HeldBy
<1>24. Apart'
  BY <1>1, <1>2 DEF SteerNow, Apart, Taken, HeldBy
<1>25. Stage'
  BY DEF SteerNow, Stage, SteerOpen
<1>26. Awaited'
  BY DEF SteerNow, Awaited
<1>27. ClaimKept'
  BY <1>1, <1>2 DEF SteerNow, ClaimKept, HasActiveRun, Unheard
<1>28. HeardOnce'
  BY DEF SteerNow, HeardOnce
<1> QED BY <1>21, <1>22, <1>23, <1>24, <1>25, <1>26, <1>27, <1>28 DEF InPlace

\* An input that is started at once goes from the queue to the tasks.
LEMMA StartNowStep ==
  ASSUME IInv, InputInv, NEW i \in Inputs, StartNow(i)
  PROVE  InPlace' /\ ClaimKept' /\ HeardOnce'
<1> USE NoneAssumption DEF InputInv, InPlace, TypeOK, cell, tasks, tree, runner, ctl
<1>1. /\ ToSet(queue') = ToSet(queue) \ {i}
      /\ IsInjective(queue) => IsInjective(queue')
  BY WithoutItems DEF StartNow
<1>2. /\ ToSet(ready') = ToSet(ready) \cup {i}
      /\ IsInjective(ready) /\ i \notin ToSet(ready) => IsInjective(ready')
  BY StartItems DEF StartNow
<1>21. Single'
  BY <1>1, <1>2 DEF StartNow, Start, Single, TaskOf
<1>22. Kept'
  <2>1. task[i] = "none"
    BY DEF StartNow, TaskOf
  <2>2. \A t, j \in Inputs : HeldBy(t, j)' <=> HeldBy(t, j)
    BY <2>1 DEF StartNow, Start, HeldBy
  <2>3. \A j \in Inputs : Somewhere(j)' <=> Somewhere(j)
    BY <1>1, <1>2, <2>2 DEF StartNow, Somewhere, Starting, Taken
  <2> QED BY <2>3 DEF StartNow, Kept
<1>23. TaskOf'
  <2>1. task[i] = "none" /\ left[i] = <<>>
    BY DEF StartNow, TaskOf
  <2>2. \A t, j \in Inputs : HeldBy(t, j)' <=> HeldBy(t, j)
    BY <2>1 DEF StartNow, Start, HeldBy
  <2>3. i \notin ToSet(buffer) /\ i \notin ToSet(Taken) /\ \A t \in Inputs : ~HeldBy(t, i)
    BY DEF StartNow, Apart
  <2>4. i \notin ToSet(mailbox) /\ run # i /\ fate[i] = "accepted"
    BY <2>1 DEF StartNow, TaskOf, Kept, Somewhere
  <2>5. /\ task' = [task EXCEPT ![i] = "created"] /\ current' = i
        /\ UNCHANGED <<buffer, mailbox, run, left, fate>> /\ Taken' = Taken
    BY DEF StartNow, Start, Taken
  <2> QED BY <1>1, <1>2, <2>1, <2>2, <2>3, <2>4, <2>5 DEF TaskOf
<1>24. Apart'
  BY <1>1, <1>2 DEF StartNow, Start, Apart, Taken, HeldBy
<1>25. Stage'
  BY DEF StartNow, Start, Stage
<1>26. Awaited'
  BY <1>1, <1>2 DEF StartNow, Start, Awaited, TaskOf
<1>27. ClaimKept'
  BY <1>1, <1>2, EmptyItems DEF StartNow, Start, ClaimKept, HasActiveRun, Unheard, TaskOf, Stage, Kept, Somewhere, Taken, HeldBy
<1>28. HeardOnce'
  BY DEF StartNow, Start, HeardOnce
<1> QED BY <1>21, <1>22, <1>23, <1>24, <1>25, <1>26, <1>27, <1>28 DEF InPlace

\* A refused start blocks the cell; behind a run it loses the input.
LEMMA RefuseNowStep ==
  ASSUME IInv, InputInv, NEW i \in Inputs, RefuseNow(i)
  PROVE  InPlace' /\ ClaimKept' /\ HeardOnce'
<1> USE NoneAssumption DEF InputInv, InPlace, TypeOK, cell, tasks, tree, runner, ctl
<1>1. /\ ToSet(Without(queue, i)) = ToSet(queue) \ {i}
      /\ IsInjective(queue) => IsInjective(Without(queue, i))
  BY WithoutItems
<1>2. \A j \in Inputs :
        /\ Lost({i})[j] = "accepted" <=> fate[j] = "accepted" /\ j # i
        /\ Lost({i})[j] # fate[j] => Lost({i})[j] = "lost" /\ fate[j] = "accepted"
  BY LostIs
<1>21. Single'
  BY <1>1, <1>2 DEF RefuseNow, Single
<1>22. Kept'
  <2>1. CASE Active
    <3>1. queue' = Without(queue, i) /\ fate' = Lost({i})
      BY <2>1 DEF RefuseNow
    <3>2. ~Somewhere(i)'
      <4>1. task[i] = "none"
        BY DEF RefuseNow, TaskOf
      <4> QED BY <1>1, <3>1, <4>1 DEF RefuseNow, Somewhere, Starting, Taken, HeldBy, TaskOf, Apart
    <3>3. \A j \in Inputs \ {i} : Somewhere(j)' <=> Somewhere(j)
      BY <1>1, <3>1 DEF RefuseNow, Somewhere, Starting, Taken, HeldBy
    <3> QED BY <1>2, <3>1, <3>2, <3>3 DEF Kept
  <2>2. CASE ~Active
    BY <2>2 DEF RefuseNow, Kept, Somewhere, Starting, Taken, HeldBy
  <2> QED BY <2>1, <2>2
<1>23. TaskOf'
  <2>1. ToSet(queue') \subseteq ToSet(queue) /\ \A j \in Inputs : fate'[j] = "absent" => fate[j] = "absent"
    BY <1>1, <1>2 DEF RefuseNow
  <2>2. UNCHANGED <<task, ready, left, mailbox, run, buffer, current, Taken>>
    BY DEF RefuseNow, Taken
  <2>3. \A t, j \in Inputs : HeldBy(t, j)' <=> HeldBy(t, j)
    BY DEF RefuseNow, HeldBy
  <2> QED BY <2>1, <2>2, <2>3 DEF TaskOf
<1>24. Apart'
  BY <1>1, <1>2 DEF RefuseNow, Apart, Taken, HeldBy
<1>25. Stage'
  <2>1. stage = "settling" => Head(taking) \in Inputs
    BY TailItems DEF Stage
  <2>2. fate[i] = "accepted"
    BY DEF RefuseNow, Kept, Somewhere
  <2> QED BY <1>1, <1>2, <2>1, <2>2 DEF RefuseNow, Stage
<1>26. Awaited'
  BY DEF RefuseNow, Awaited
<1>27. ClaimKept'
  BY DEF RefuseNow, ClaimKept, HasActiveRun, Unheard
<1>28. HeardOnce'
  BY <1>1, <1>2 DEF RefuseNow, HeardOnce
<1> QED BY <1>21, <1>22, <1>23, <1>24, <1>25, <1>26, <1>27, <1>28 DEF InPlace

\* The first step of a run task puts its mail.
LEMMA PostStep ==
  ASSUME IInv, InputInv, Post
  PROVE  InPlace' /\ ClaimKept' /\ HeardOnce'
<1> USE NoneAssumption DEF InputInv, InPlace, TypeOK, cell, tasks, tree, runner, ctl
<1> DEFINE i == Head(ready)
<1>1. i \in Inputs /\ ToSet(ready) = ToSet(ready') \cup {i} /\ task[i] = "created"
      /\ (IsInjective(ready) => IsInjective(ready') /\ i \notin ToSet(ready'))
  BY TailItems DEF Post
<1> HIDE DEF i
<1>2. mailbox' = Append(mailbox, i) /\ task' = [task EXCEPT ![i] = "waiting"]
  BY DEF Post, i
<1>3. /\ ToSet(mailbox') = ToSet(mailbox) \cup {i}
      /\ IsInjective(mailbox) /\ i \notin ToSet(mailbox) => IsInjective(mailbox')
  BY <1>1, <1>2, AppendItems
<1>21. Single'
  <2>1. i \notin ToSet(mailbox)
    BY <1>1 DEF TaskOf
  <2>2. UNCHANGED <<queue, left, buffer, taking>>
    BY DEF Post
  <2> QED BY <1>1, <1>3, <2>1, <2>2 DEF Single
<1>4. UNCHANGED <<queue, buffer, left, run, stage, fate, current, claims>> /\ Taken' = Taken
  BY DEF Post, Taken
<1>5. \A t, j \in Inputs : HeldBy(t, j)' <=> HeldBy(t, j)
  BY <1>1, <1>2, <1>4 DEF HeldBy
<1>22. Kept'
  <2>1. \A j \in Inputs : Somewhere(j)' <=> Somewhere(j)
    BY <1>1, <1>3, <1>4, <1>5 DEF Somewhere, Starting
  <2> QED BY <1>4, <2>1 DEF Kept
<1>23. TaskOf'
  <2>1. i \notin ToSet(ready') /\ left[i] = <<>>
    BY <1>1 DEF Single, TaskOf
  <2>2. \A j \in Inputs : task'[j] = IF j = i THEN "waiting" ELSE task[j]
    BY <1>1, <1>2
  <2> QED BY <1>1, <1>3, <1>4, <1>5, <2>1, <2>2 DEF TaskOf
<1>24. Apart'
  <2>1. run # i
    BY <1>1 DEF TaskOf
  <2> QED BY <1>3, <1>4, <1>5, <2>1 DEF Apart
<1>25. Stage'
  BY DEF Post, Stage
<1>26. Awaited'
  BY <1>1, <1>2, <1>3 DEF Post, Awaited
<1>27. ClaimKept'
  <2>1. run # i
    BY <1>1 DEF TaskOf
  <2>2. Unheard' = Unheard /\ (task'[run] = "waiting" <=> task[run] = "waiting")
    BY <1>1, <1>2, <1>4, <2>1 DEF Post, Unheard
  <2> QED BY <1>4, <2>2 DEF ClaimKept, HasActiveRun
<1>28. HeardOnce'
  BY DEF Post, HeardOnce
<1> QED BY <1>21, <1>22, <1>23, <1>24, <1>25, <1>26, <1>27, <1>28 DEF InPlace

\* A submitted input waits in the queue.
LEMMA SubmitQueuesStep ==
  ASSUME IInv, InputInv, NEW i \in Inputs, Submit(i),
         queue' = Ordered(Append(queue, i)), UNCHANGED <<current, task, ready>>
  PROVE  InPlace' /\ ClaimKept' /\ HeardOnce'
<1> USE NoneAssumption DEF InputInv, InPlace, TypeOK, cell, tasks, tree, runner, ctl
<1>1. ToSet(queue') = ToSet(queue) \cup {i} /\ i \notin ToSet(queue) /\ IsInjective(queue')
  BY SubmitItems DEF Submit, Kept, Somewhere, Single
<1>2. fate[i] = "absent" /\ fate' = [fate EXCEPT ![i] = "accepted"] /\ task[i] = "none"
  BY DEF Submit, TaskOf
<1>3. UNCHANGED <<claims, evicting, ended, left, tree, runner, ctl>>
  BY DEF Submit
<1>4. ~Somewhere(i)
  BY <1>2 DEF Kept
<1>21. Single'
  BY <1>1, <1>2, <1>3, <1>4 DEF Single
<1>22. Kept'
  BY <1>1, <1>2, <1>3, <1>4 DEF Kept, Somewhere, Starting, Taken, HeldBy
<1>23. TaskOf'
  BY <1>1, <1>2, <1>3, <1>4 DEF TaskOf, Starting, Taken, HeldBy, Somewhere
<1>24. Apart'
  BY <1>1, <1>2, <1>3, <1>4 DEF Apart, Taken, HeldBy, Somewhere
<1>25. Stage'
  BY <1>1, <1>2, <1>3, <1>4 DEF Stage
<1>26. Awaited'
  BY <1>1, <1>2, <1>3, <1>4 DEF Awaited
<1>27. ClaimKept'
  BY <1>1, <1>2, <1>3, <1>4 DEF ClaimKept, HasActiveRun, Unheard
<1>28. HeardOnce'
  BY <1>1, <1>2, <1>3, <1>4 DEF HeardOnce
<1> QED BY <1>21, <1>22, <1>23, <1>24, <1>25, <1>26, <1>27, <1>28 DEF InPlace

\* Or the head of the queue it joined becomes the next run.
LEMMA SubmitStartsStep ==
  ASSUME IInv, InputInv, NEW i \in Inputs, Submit(i), ~HasActiveRun,
         StartNext(Ordered(Append(queue, i)), task)
  PROVE  InPlace' /\ ClaimKept' /\ HeardOnce'
<1> USE NoneAssumption DEF InputInv, InPlace, TypeOK, cell, tasks, tree, runner, ctl
<1> DEFINE q == Ordered(Append(queue, i))
<1>1. fate[i] = "absent" /\ fate' = [fate EXCEPT ![i] = "accepted"] /\ task[i] = "none"
  BY DEF Submit, TaskOf
<1>2. UNCHANGED <<claims, evicting, ended, left, tree, runner, ctl>>
  BY DEF Submit
<1>3. ~Somewhere(i)
  BY <1>1 DEF Kept
<1>4. q \in Seq(Inputs) /\ q # <<>> /\ ToSet(q) = ToSet(queue) \cup {i} /\ IsInjective(q)
  BY <1>3, SubmitItems DEF Somewhere, Single
<1> HIDE DEF q
<1>5. PICK j \in Inputs : /\ j \in ToSet(q) /\ Start(j, task) /\ ToSet(q) = ToSet(queue') \cup {j}
                          /\ IsInjective(queue') /\ j \notin ToSet(queue')
  BY <1>4, NextItems DEF q
<1>6. ToSet(queue') = (ToSet(queue) \cup {i}) \ {j} /\ j \in ToSet(queue) \cup {i}
  BY <1>4, <1>5
<1>7. /\ task[j] = "none" /\ left[j] = <<>> /\ j \notin ToSet(ready)
      /\ current' = j /\ task' = [task EXCEPT ![j] = "created"]
  BY <1>1, <1>5, <1>6 DEF TaskOf, Start
<1>8. /\ ToSet(ready') = ToSet(ready) \cup {j}
      /\ IsInjective(ready) => IsInjective(ready')
  BY <1>5, <1>7, StartItems
<1>9. \A t, k \in Inputs : HeldBy(t, k)' <=> HeldBy(t, k)
  BY <1>2, <1>7 DEF HeldBy
<1>10. j \notin ToSet(buffer) /\ j \notin ToSet(Taken) /\ \A t \in Inputs : ~HeldBy(t, j)
  BY <1>3, <1>6 DEF Apart, Somewhere
<1>11. j \notin ToSet(mailbox) /\ run # j
  BY <1>7 DEF TaskOf
<1>21. Single'
  BY <1>2, <1>5, <1>8 DEF Single
<1>22. Kept'
  <2>1. \A k \in Inputs : Somewhere(k)' <=> Somewhere(k) \/ k = i
    BY <1>2, <1>6, <1>8, <1>9 DEF Somewhere, Starting, Taken
  <2> QED BY <1>1, <2>1 DEF Kept
<1>23. TaskOf'
  <2>1. \A k \in Inputs : k # j => task'[k] = task[k]
    BY <1>7
  <2>2. task'[j] = "created" /\ fate'[j] # "absent"
    <3>1. j # i => Somewhere(j)
      BY <1>6 DEF Somewhere
    <3> QED BY <1>1, <1>7, <3>1 DEF Kept
  <2>3. j \notin ToSet(queue') /\ ToSet(Taken') = ToSet(Taken)
    BY <1>2, <1>6 DEF Taken
  <2>4. ASSUME NEW k \in Inputs, k # j
        PROVE  /\ k \in ToSet(queue') => task[k] = "none"
               /\ k \in ToSet(ready') => task[k] = "created"
               /\ fate'[k] = "absent" => task[k] = "none"
    BY <1>1, <1>6, <1>8, <2>4 DEF TaskOf
  <2> QED BY <1>2, <1>7, <1>8, <1>9, <1>10, <1>11, <2>1, <2>2, <2>3, <2>4 DEF TaskOf
<1>24. Apart'
  BY <1>2, <1>3, <1>6, <1>9, <1>10, <1>11 DEF Apart, Taken, Somewhere
<1>25. Stage'
  <2>1. stage = "settling" => Head(taking) \in Inputs
    BY TailItems DEF Stage
  <2> QED BY <1>1, <1>2, <2>1 DEF Stage
<1>26. Awaited'
  BY <1>2, <1>7, <1>11 DEF Awaited
<1>27. ClaimKept'
  BY <1>2, <1>7, <1>11, EmptyItems DEF ClaimKept
<1>28. HeardOnce'
  BY <1>1 DEF HeardOnce
<1> QED BY <1>21, <1>22, <1>23, <1>24, <1>25, <1>26, <1>27, <1>28 DEF InPlace

\* The root's loop takes a mail into a run, or drops it.
LEMMA LoopTakesStep ==
  ASSUME IInv, InputInv, LoopTakes
  PROVE  InPlace' /\ ClaimKept' /\ HeardOnce'
<1> USE NoneAssumption DEF InputInv, InPlace, TypeOK, cell, tasks, tree, runner, ctl
<1>1. PICK i \in Inputs : /\ i = Head(mailbox) /\ ToSet(mailbox) = ToSet(mailbox') \cup {i}
                          /\ IsInjective(mailbox') /\ i \notin ToSet(mailbox')
  BY TailItems DEF LoopTakes, Single
<1>2. run' = i /\ UNCHANGED <<cell, tasks, booted, closed, struck, buffer, taking, ctl>>
  BY <1>1 DEF LoopTakes
<1>3. task[i] \notin {"none", "created"} /\ fate[i] = "accepted" /\ taking = <<>> /\ buffer = <<>>
  BY <1>1 DEF LoopTakes, TaskOf, Kept, Somewhere, Stage
<1>4. \/ stage' = "returned" /\ fate' = Lost({i})
      \/ stage' = "starting" /\ fate' = fate
  BY <1>2 DEF LoopTakes
<1>5. \A j \in Inputs : /\ fate'[j] = "accepted" <=> fate[j] = "accepted" /\ (j = i => stage' = "starting")
                        /\ fate'[j] # fate[j] => fate'[j] = "lost" /\ fate[j] = "accepted"
  <2>1. CASE stage' = "returned" /\ fate' = Lost({i})
    BY <2>1, LostIs
  <2>2. CASE stage' = "starting" /\ fate' = fate
    BY <2>2
  <2> QED BY <1>4, <2>1, <2>2
<1>6. Taken = <<>> /\ Taken' = <<>> /\ stage = "idle"
  BY <1>2, <1>3, <1>4 DEF LoopTakes, Taken
<1>7. \A t, j \in Inputs : HeldBy(t, j)' <=> HeldBy(t, j)
  BY <1>2 DEF HeldBy
<1>8. i \notin ToSet(queue) /\ i \notin ToSet(ready) /\ \A t \in Inputs : ~HeldBy(t, i)
  BY <1>3 DEF TaskOf
<1>21. Single'
  BY <1>1, <1>2 DEF Single
<1>22. Kept'
  <2>1. \A j \in Inputs : Somewhere(j)' <=> Somewhere(j) /\ (j = i => stage' = "starting")
    BY <1>1, <1>2, <1>3, <1>4, <1>6, <1>7, <1>8, EmptyItems DEF Somewhere, Starting
  <2> QED BY <1>5, <2>1 DEF Kept
<1>23. TaskOf'
  BY <1>1, <1>2, <1>3, <1>5, <1>6, <1>7 DEF TaskOf
<1>24. Apart'
  BY <1>1, <1>2, <1>6, <1>7 DEF Apart
<1>25. Stage'
  BY <1>2, <1>3, <1>4 DEF Stage
<1>26. Awaited'
  BY <1>1, <1>2 DEF Awaited
<1>27. ClaimKept'
  BY <1>2, <1>3, <1>4, EmptyItems DEF ClaimKept, HasActiveRun, Unheard
<1>28. HeardOnce'
  BY <1>5 DEF HeardOnce
<1> QED BY <1>21, <1>22, <1>23, <1>24, <1>25, <1>26, <1>27, <1>28 DEF InPlace

\* A steer that was taken goes into the history; its claim is still there.
LEMMA InjectStep ==
  ASSUME IInv, InputInv, Inject
  PROVE  InPlace' /\ ClaimKept' /\ HeardOnce'
<1> USE NoneAssumption DEF InputInv, InPlace, TypeOK, cell, tasks, tree, runner, ctl
<1>1. PICK i \in Inputs : /\ i = Head(taking) /\ ToSet(taking) = ToSet(Tail(taking)) \cup {i}
                          /\ i \notin ToSet(Tail(taking))
  BY TailItems DEF Inject, Stage, Single
<1>2. /\ stage = "injecting" /\ stage' = "settling" /\ fate' = Heard(i)
      /\ Taken = taking /\ Taken' = Tail(taking)
      /\ UNCHANGED <<cell, tasks, tree, run, struck, buffer, taking, outcome, ctl>>
  BY <1>1 DEF Inject, Taken
<1>3. fate[i] = "accepted"
  BY <1>1, <1>2 DEF Kept, Somewhere
<1>4. fate'[i] = "heard" /\ \A j \in Inputs \ {i} : fate'[j] = fate[j]
  BY <1>2, <1>3, HeardIs
<1>5. \A t, j \in Inputs : HeldBy(t, j)' <=> HeldBy(t, j)
  BY <1>2 DEF HeldBy
<1>6. /\ i \notin ToSet(queue) /\ i \notin ToSet(buffer) /\ task[i] = "none"
      /\ \A t \in Inputs : ~HeldBy(t, i)
  BY <1>1, <1>2 DEF Apart, TaskOf
<1>21. Single'
  BY <1>2 DEF Single
<1>22. Kept'
  <2>1. \A j \in Inputs : Somewhere(j)' <=> Somewhere(j) /\ j # i
    BY <1>1, <1>2, <1>5, <1>6 DEF Somewhere, Starting, TaskOf
  <2> QED BY <1>4, <2>1 DEF Kept
<1>23. TaskOf'
  BY <1>1, <1>2, <1>4, <1>5 DEF TaskOf
<1>24. Apart'
  BY <1>1, <1>2, <1>5 DEF Apart
<1>25. Stage'
  BY <1>1, <1>2, <1>4 DEF Stage
<1>26. Awaited'
  BY <1>2 DEF Awaited
<1>27. ClaimKept'
  BY <1>1, <1>2 DEF ClaimKept, HasActiveRun, Unheard
<1>28. HeardOnce'
  BY <1>4 DEF HeardOnce
<1> QED BY <1>21, <1>22, <1>23, <1>24, <1>25, <1>26, <1>27, <1>28 DEF InPlace

\* The claim goes when the steer cannot come back any more.
LEMMA SettleStep ==
  ASSUME IInv, InputInv, Settle
  PROVE  InPlace' /\ ClaimKept' /\ HeardOnce'
<1> USE NoneAssumption DEF InputInv, InPlace, TypeOK, cell, tasks, tree, runner, ctl
<1>1. PICK i \in Inputs : /\ i = Head(taking) /\ taking' = Tail(taking) /\ IsInjective(taking')
                          /\ taking' \in Seq(Inputs)
  BY TailItems DEF Settle, Stage, Single
<1>2. /\ stage = "settling" /\ Taken = Tail(taking) /\ fate[i] = "heard" /\ claims' = claims \ {i}
      /\ UNCHANGED <<queue, current, block, evicting, tasks, tree, run, struck, buffer, outcome, ctl,
                    fate>>
  BY <1>1 DEF Settle, Taken, ClaimSettled, Stage
<1>3. Taken' = Taken /\ stage' = IF taking' = <<>> THEN "open" ELSE "injecting"
  BY <1>1, <1>2 DEF Settle, Taken
<1>4. \A t, j \in Inputs : HeldBy(t, j)' <=> HeldBy(t, j)
  BY <1>2 DEF HeldBy
<1>5. /\ i \notin ToSet(buffer) /\ i \notin ToSet(Taken) /\ \A t \in Inputs : ~HeldBy(t, i)
  BY <1>2 DEF Kept, Somewhere
<1>21. Single'
  BY <1>1, <1>2 DEF Single
<1>22. Kept'
  BY <1>2, <1>3, <1>4 DEF Kept, Somewhere, Starting
<1>23. TaskOf'
  BY <1>2, <1>3, <1>4 DEF TaskOf
<1>24. Apart'
  BY <1>2, <1>3, <1>4 DEF Apart
<1>25. Stage'
  BY <1>1, <1>2, <1>3 DEF Stage
<1>26. Awaited'
  BY <1>2 DEF Awaited
<1>27. ClaimKept'
  <2> SUFFICES ASSUME current # None
               PROVE  /\ ToSet(left[current]) \subseteq claims \ {i}
                      /\ run = current /\ task[run] = "waiting" =>
                           ToSet(buffer) \cup (ToSet(Unheard') \ {run}) \subseteq claims \ {i}
    BY <1>2 DEF ClaimKept, HasActiveRun
  <2>1. i \notin ToSet(left[current])
    BY <1>5, EmptyItems DEF HeldBy, TaskOf, TaskStates
  <2>2. Unheard = Taken /\ Unheard' = Taken
    BY <1>1, <1>2, <1>3 DEF Unheard, Taken
  <2> QED BY <1>5, <2>1, <2>2 DEF ClaimKept, HasActiveRun
<1>28. HeardOnce'
  BY <1>2 DEF HeardOnce
<1> QED BY <1>21, <1>22, <1>23, <1>24, <1>25, <1>26, <1>27, <1>28 DEF InPlace

\* What a run loses on its last turn, or when it is cut, was on its way into the
\* history.
LEMMA UnheardItems ==
  ASSUME InputInv, stage \notin {"starting", "idle"}
  PROVE  /\ Unheard \in Seq(Inputs)
         /\ \A i \in Inputs : i \in ToSet(Unheard) <=> Starting(i) \/ i \in ToSet(Taken)
<1> USE NoneAssumption DEF InputInv, InPlace, TypeOK
<1>1. CASE stage = "seeding"
  <2>1. Unheard = <<run>> /\ run \in Inputs /\ Taken = <<>>
    BY <1>1 DEF Unheard, Stage, Taken
  <2> QED BY <1>1, <2>1, OneItem, EmptyItems DEF Starting
<1>2. CASE stage # "seeding"
  <2>1. Unheard = Taken
    BY <1>2 DEF Unheard, Taken
  <2>2. Taken \in Seq(Inputs)
    BY TailItems DEF Taken, Stage
  <2> QED BY <1>2, <2>1, <2>2 DEF Starting
<1> QED BY <1>1, <1>2

\* What the turn had taken and not put in the history is lost with it.
LEMMA TurnsEndStep ==
  ASSUME IInv, InputInv, TurnsEnd
  PROVE  InPlace' /\ ClaimKept' /\ HeardOnce'
<1> USE NoneAssumption DEF InputInv, InPlace, TypeOK, cell, tasks, tree, runner, ctl
<1>1. /\ stage \in {"open", "seeding", "injecting"} /\ stage' = "closing" /\ taking' = <<>>
      /\ fate' = Lost(ToSet(Unheard)) /\ Taken' = <<>>
      /\ UNCHANGED <<cell, tasks, tree, run, struck, buffer, ctl>>
  BY DEF TurnsEnd, Taken
<1>2. \A i \in Inputs : i \in ToSet(Unheard) <=> Starting(i) \/ i \in ToSet(Taken)
  BY <1>1, UnheardItems
<1>3. \A i \in Inputs : /\ fate'[i] = "accepted" <=> fate[i] = "accepted" /\ i \notin ToSet(Unheard)
                        /\ fate'[i] # fate[i] => fate'[i] = "lost" /\ fate[i] = "accepted"
  BY <1>1, LostIs
<1>4. \A t, j \in Inputs : HeldBy(t, j)' <=> HeldBy(t, j)
  BY <1>1 DEF HeldBy
<1>21. Single'
  BY <1>1, EmptyItems DEF Single
<1>22. Kept'
  <2>1. \A i \in Inputs : Somewhere(i)' <=> Somewhere(i) /\ ~Starting(i) /\ i \notin ToSet(Taken)
    <3>1. \A i \in Inputs : Starting(i) \/ i \in ToSet(Taken) =>
            /\ i \notin ToSet(queue) /\ i \notin ToSet(ready) /\ i \notin ToSet(mailbox)
            /\ i \notin ToSet(buffer) /\ \A t \in Inputs : ~HeldBy(t, i)
      BY DEF TaskOf, Apart, Starting
    <3>2. \A i \in Inputs : Starting(i)' = FALSE
      BY <1>1 DEF Starting
    <3> QED BY <1>1, <1>4, <3>1, <3>2, EmptyItems DEF Somewhere
  <2> QED BY <1>2, <1>3, <2>1 DEF Kept
<1>23. TaskOf'
  BY <1>1, <1>3, <1>4, EmptyItems DEF TaskOf
<1>24. Apart'
  BY <1>1, <1>4, EmptyItems DEF Apart
<1>25. Stage'
  BY <1>1 DEF Stage
<1>26. Awaited'
  BY <1>1 DEF Awaited
<1>27. ClaimKept'
  BY <1>1, EmptyItems DEF ClaimKept, HasActiveRun, Unheard
<1>28. HeardOnce'
  BY <1>3 DEF HeardOnce
<1> QED BY <1>21, <1>22, <1>23, <1>24, <1>25, <1>26, <1>27, <1>28 DEF InPlace

\* A cancel loses what the turn had taken; before the turns and after them also
\* the run's input and the buffer.
LEMMA StrikeStep ==
  ASSUME IInv, InputInv, Strike
  PROVE  InPlace' /\ ClaimKept' /\ HeardOnce'
<1> USE NoneAssumption DEF InputInv, InPlace, TypeOK, cell, tasks, tree, runner, ctl
<1>1. taking' = <<>> /\ UNCHANGED <<cell, tasks, tree, run, ctl>>
  BY DEF Strike
<1>2. \A t, j \in Inputs : HeldBy(t, j)' <=> HeldBy(t, j)
  BY <1>1 DEF HeldBy
<1>3. CASE /\ stage \in {"seeding", "open", "injecting", "settling"} /\ stage' = "closing"
           /\ fate' = Lost(ToSet(Unheard)) /\ UNCHANGED buffer
  <2>1. \A i \in Inputs : i \in ToSet(Unheard) <=> Starting(i) \/ i \in ToSet(Taken)
    BY <1>3, UnheardItems
  <2>2. \A i \in Inputs : /\ fate'[i] = "accepted" <=> fate[i] = "accepted" /\ i \notin ToSet(Unheard)
                          /\ fate'[i] # fate[i] => fate'[i] = "lost" /\ fate[i] = "accepted"
    BY <1>3, LostIs
  <2>3. Taken' = <<>>
    BY <1>1, <1>3 DEF Taken
  <2>4. Single'
    BY <1>1, <1>3, EmptyItems DEF Single
  <2>5. Kept'
    <3>1. \A i \in Inputs : Starting(i) \/ i \in ToSet(Taken) =>
            /\ i \notin ToSet(queue) /\ i \notin ToSet(ready) /\ i \notin ToSet(mailbox)
            /\ i \notin ToSet(buffer) /\ \A t \in Inputs : ~HeldBy(t, i)
      BY DEF TaskOf, Apart, Starting
    <3>2. \A i \in Inputs : Starting(i)' = FALSE
      BY <1>3 DEF Starting
    <3>3. \A i \in Inputs : Somewhere(i)' <=> Somewhere(i) /\ ~Starting(i) /\ i \notin ToSet(Taken)
      BY <1>1, <1>2, <1>3, <2>3, <3>1, <3>2, EmptyItems DEF Somewhere
    <3> QED BY <2>1, <2>2, <3>3 DEF Kept
  <2>6. TaskOf'
    BY <1>1, <1>2, <1>3, <2>2, <2>3, EmptyItems DEF TaskOf
  <2>7. Apart'
    BY <1>1, <1>2, <1>3, <2>3, EmptyItems DEF Apart
  <2>8. Stage'
    BY <1>1, <1>3 DEF Stage
  <2>9. ClaimKept'
    BY <1>1, <1>3, EmptyItems DEF ClaimKept, HasActiveRun, Unheard
  <2>10. Awaited' /\ HeardOnce'
    BY <1>1, <2>2 DEF Awaited, HeardOnce
  <2> QED BY <2>4, <2>5, <2>6, <2>7, <2>8, <2>9, <2>10 DEF InPlace
<1>4. CASE /\ stage \in {"starting", "closing"} /\ stage' = "returned"
           /\ buffer' = <<>> /\ fate' = Lost(ToSet(buffer) \cup {run})
  <2>1. \A i \in Inputs : /\ fate'[i] = "accepted" <=>
                               fate[i] = "accepted" /\ i \notin ToSet(buffer) /\ i # run
                          /\ fate'[i] # fate[i] => fate'[i] = "lost" /\ fate[i] = "accepted"
    BY <1>4, LostIs
  <2>2. Taken = <<>> /\ Taken' = <<>>
    BY <1>1, <1>4 DEF Taken, Stage
  <2>3. Single'
    BY <1>1, <1>4, EmptyItems DEF Single
  <2>4. Kept'
    <3>1. \A i \in Inputs : i \in ToSet(buffer) \/ i = run =>
            /\ i \notin ToSet(queue) /\ i \notin ToSet(ready) /\ i \notin ToSet(mailbox)
            /\ \A t \in Inputs : ~HeldBy(t, i)
      BY DEF TaskOf, Apart
    <3>2. \A i \in Inputs : Starting(i)' = FALSE /\ (Starting(i) => i = run)
      BY <1>4 DEF Starting
    <3>3. \A i \in Inputs : Somewhere(i)' <=> Somewhere(i) /\ i \notin ToSet(buffer) /\ i # run
      BY <1>1, <1>2, <1>4, <2>2, <3>1, <3>2, EmptyItems DEF Somewhere
    <3> QED BY <2>1, <3>3 DEF Kept
  <2>5. TaskOf'
    BY <1>1, <1>2, <1>4, <2>1, <2>2 DEF TaskOf
  <2>6. Apart'
    BY <1>1, <1>2, <1>4, <2>2, EmptyItems DEF Apart
  <2>7. Stage'
    BY <1>1, <1>4 DEF Stage
  <2>8. ClaimKept'
    BY <1>1, <1>4, EmptyItems DEF ClaimKept, HasActiveRun, Unheard
  <2>9. Awaited' /\ HeardOnce'
    BY <1>1, <2>1 DEF Awaited, HeardOnce
  <2> QED BY <2>3, <2>4, <2>5, <2>6, <2>7, <2>8, <2>9 DEF InPlace
<1> QED BY <1>3, <1>4 DEF Strike

\* What the loop answers with: the steers of the run are given back, or gone.
LEMMA AnswerStep ==
  ASSUME IInv, InputInv, NEW o, NEW s, s = buffer \/ s = <<>>, stage = "returned", Answer(o, s),
         UNCHANGED <<cell, ready, mailbox, taking>>
  PROVE  InPlace' /\ ClaimKept' /\ HeardOnce'
<1> USE NoneAssumption DEF InputInv, InPlace, TypeOK, cell
<1>1. run \in Inputs /\ taking = <<>> /\ Taken = <<>> /\ Taken' = <<>>
  BY DEF Stage, Answer, Taken
<1>2. run' = None /\ stage' = "idle" /\ buffer' = <<>> /\ run' \notin ToSet(mailbox)
  BY DEF Answer, ToSet
<1>3. CASE task[run] = "waiting"
  <2>1. /\ task' = [task EXCEPT ![run] = "resolved"] /\ left' = [left EXCEPT ![run] = s]
        /\ fate' = Lost(ToSet(buffer) \ ToSet(s))
    BY <1>3 DEF Answer
  <2>2. \A i \in Inputs : /\ fate'[i] = "accepted" <=>
                               fate[i] = "accepted" /\ (i \in ToSet(buffer) => i \in ToSet(s))
                          /\ fate'[i] # fate[i] => fate'[i] = "lost" /\ fate[i] = "accepted"
    BY <2>1, LostIs
  <2>3. IsInjective(s) /\ ToSet(s) \subseteq ToSet(buffer)
    BY EmptyItems DEF Single
  <2>4. \A t, j \in Inputs : HeldBy(t, j)' <=> (HeldBy(t, j) \/ (t = run /\ j \in ToSet(s)))
    BY <1>1, <1>3, <2>1, EmptyItems DEF HeldBy, TaskOf
  <2>5. \A i \in Inputs : i \in ToSet(buffer) =>
          /\ i \notin ToSet(queue) /\ i \notin ToSet(ready) /\ i \notin ToSet(mailbox)
          /\ \A t \in Inputs : ~HeldBy(t, i)
    BY DEF TaskOf, Apart
  <2>6. Single'
    BY <1>1, <1>2, <2>1, <2>3 DEF Single
  <2>7. Kept'
    <3>1. \A i \in Inputs : Starting(i)' = FALSE /\ Starting(i) = FALSE
      BY <1>2 DEF Starting
    <3>2. \A i \in Inputs : Somewhere(i)' <=> Somewhere(i) /\ (i \in ToSet(buffer) => i \in ToSet(s))
      BY <1>1, <1>2, <2>3, <2>4, <2>5, <3>1, EmptyItems DEF Somewhere
    <3> QED BY <2>2, <3>2 DEF Kept
  <2>8. TaskOf'
    <3>1. \A j \in Inputs : task'[j] = IF j = run THEN "resolved" ELSE task[j]
      BY <1>1, <2>1
    <3>2. \A j \in Inputs : j \in ToSet(s) => task[j] = "none"
      BY <2>3 DEF TaskOf
    <3>3. \A j \in Inputs : j # run => left'[j] = left[j]
      BY <1>1, <2>1
    <3>4. \A j \in Inputs : (\E t \in Inputs : HeldBy(t, j)') => task[j] = "none" /\ j # run
      BY <1>3, <2>4, <3>2 DEF TaskOf
    <3> QED BY <1>1, <1>2, <1>3, <2>2, <3>1, <3>3, <3>4 DEF TaskOf
  <2>9. Apart'
    <3>1. ASSUME NEW t \in Inputs, NEW i \in Inputs, HeldBy(t, i)'
          PROVE  /\ i \notin ToSet(queue') /\ i \notin ToSet(buffer') /\ i \notin ToSet(Taken')
                 /\ \A u \in Inputs : HeldBy(u, i)' => u = t
      <4>1. CASE HeldBy(t, i)
        <5>1. i \notin ToSet(buffer) /\ i \notin ToSet(s)
          BY <4>1, <2>3 DEF Apart
        <5>2. i \notin ToSet(queue) /\ \A u \in Inputs : HeldBy(u, i) => u = t
          BY <4>1 DEF Apart
        <5> QED BY <1>1, <1>2, <2>4, <5>1, <5>2, EmptyItems
      <4>2. CASE t = run /\ i \in ToSet(s)
        BY <1>1, <1>2, <2>3, <2>4, <2>5, <4>2, EmptyItems
      <4> QED BY <2>4, <3>1, <4>1, <4>2
    <3> QED BY <1>1, <1>2, <3>1, EmptyItems DEF Apart
  <2>10. Stage'
    BY <1>1, <1>2 DEF Stage
  <2>11. Awaited'
    BY <1>2, <2>1 DEF Awaited, Apart
  <2>12. ClaimKept'
    <3>1. CASE current = run
      BY <1>1, <1>2, <1>3, <2>1, <2>3, <3>1 DEF ClaimKept, HasActiveRun
    <3>2. CASE current # run
      BY <1>1, <1>2, <2>1, <3>2 DEF ClaimKept, HasActiveRun
    <3> QED BY <3>1, <3>2
  <2>13. HeardOnce'
    BY <2>2 DEF HeardOnce
  <2> QED BY <2>6, <2>7, <2>8, <2>9, <2>10, <2>11, <2>12, <2>13 DEF InPlace
<1>4. CASE task[run] # "waiting"
  <2>1. UNCHANGED <<task, left>> /\ fate' = Lost(ToSet(buffer))
    BY <1>4 DEF Answer
  <2>2. \A i \in Inputs : /\ fate'[i] = "accepted" <=> fate[i] = "accepted" /\ i \notin ToSet(buffer)
                          /\ fate'[i] # fate[i] => fate'[i] = "lost" /\ fate[i] = "accepted"
    BY <2>1, LostIs
  <2>3. \A t, j \in Inputs : HeldBy(t, j)' <=> HeldBy(t, j)
    BY <2>1 DEF HeldBy
  <2>4. \A i \in Inputs : i \in ToSet(buffer) =>
          /\ i \notin ToSet(queue) /\ i \notin ToSet(ready) /\ i \notin ToSet(mailbox)
          /\ \A t \in Inputs : ~HeldBy(t, i)
    BY DEF TaskOf, Apart
  <2>5. Single'
    BY <1>1, <1>2, <2>1 DEF Single
  <2>6. Kept'
    <3>1. \A i \in Inputs : Starting(i)' = FALSE /\ Starting(i) = FALSE
      BY <1>2 DEF Starting
    <3>2. \A i \in Inputs : Somewhere(i)' <=> Somewhere(i) /\ i \notin ToSet(buffer)
      BY <1>1, <1>2, <2>3, <2>4, <3>1, EmptyItems DEF Somewhere
    <3> QED BY <2>2, <3>2 DEF Kept
  <2>7. TaskOf'
    BY <1>1, <1>2, <2>1, <2>2, <2>3 DEF TaskOf
  <2>8. Apart'
    BY <1>1, <1>2, <2>3, EmptyItems DEF Apart
  <2>9. Stage' /\ Awaited'
    BY <1>1, <1>2, <2>1 DEF Stage, Awaited
  <2>10. ClaimKept'
    BY <1>1, <1>2, <2>1 DEF ClaimKept, HasActiveRun
  <2>11. HeardOnce'
    BY <2>2 DEF HeardOnce
  <2> QED BY <2>5, <2>6, <2>7, <2>8, <2>9, <2>10, <2>11 DEF InPlace
<1> QED BY <1>3, <1>4

\* The Result gives the buffer back.
LEMMA LoopResumesStep ==
  ASSUME IInv, InputInv, LoopResumes
  PROVE  InPlace' /\ ClaimKept' /\ HeardOnce'
BY AnswerStep DEF LoopResumes, Undelivered, tree

\* A cancelled Result gives nothing back.
LEMMA TeardownHangsStep ==
  ASSUME IInv, InputInv, TeardownHangs
  PROVE  InPlace' /\ ClaimKept' /\ HeardOnce'
BY AnswerStep DEF TeardownHangs, tree

\* The mail of the tree that goes is lost, and its tasks end with nothing given
\* back.
LEMMA TornDownStep ==
  ASSUME IInv, InputInv, TornDown
  PROVE  InPlace' /\ ClaimKept' /\ HeardOnce'
<1> USE NoneAssumption DEF InputInv, InPlace, TypeOK
<1>1. /\ UNCHANGED <<queue, claims, current, evicting, ready, left, run, stage, buffer, taking>>
      /\ mailbox' = <<>> /\ fate' = Lost(ToSet(mailbox))
      /\ run = None /\ stage = "idle"
  BY DEF TornDown, runner
<1>2. \A i \in Inputs : task'[i] = IF task[i] = "waiting" THEN "finished" ELSE task[i]
  BY DEF TornDown, Abandoned
<1>3. \A i \in Inputs : /\ fate'[i] = "accepted" <=> fate[i] = "accepted" /\ i \notin ToSet(mailbox)
                        /\ fate'[i] # fate[i] => fate'[i] = "lost" /\ fate[i] = "accepted"
  BY <1>1, LostIs
<1>4. \A t, j \in Inputs : HeldBy(t, j)' <=> HeldBy(t, j)
  BY <1>1, <1>2, EmptyItems DEF HeldBy, TaskOf
<1>5. Taken' = Taken
  BY <1>1 DEF Taken
<1>6. \A i \in Inputs : i \in ToSet(mailbox) =>
        /\ i \notin ToSet(queue) /\ i \notin ToSet(ready) /\ i \notin ToSet(buffer)
        /\ i \notin ToSet(Taken) /\ \A t \in Inputs : ~HeldBy(t, i)
  BY DEF TaskOf
<1>7. run' \notin ToSet(mailbox')
  BY <1>1, EmptyItems
<1>21. Single'
  BY <1>1, EmptyItems DEF Single
<1>22. Kept'
  <2>1. \A i \in Inputs : Starting(i)' = FALSE /\ Starting(i) = FALSE
    BY <1>1 DEF Starting
  <2>2. \A i \in Inputs : Somewhere(i)' <=> Somewhere(i) /\ i \notin ToSet(mailbox)
    BY <1>1, <1>4, <1>5, <1>6, <2>1, EmptyItems DEF Somewhere
  <2> QED BY <1>3, <2>2 DEF Kept
<1>23. TaskOf'
  BY <1>1, <1>2, <1>3, <1>4, <1>5, EmptyItems DEF TaskOf
<1>24. Apart'
  BY <1>1, <1>4, <1>5, <1>7 DEF Apart
<1>25. Stage'
  BY <1>1 DEF Stage
<1>26. Awaited'
  BY <1>1, EmptyItems DEF Awaited
<1>27. ClaimKept'
  BY <1>1 DEF ClaimKept, HasActiveRun
<1>28. HeardOnce'
  BY <1>3 DEF HeardOnce
<1> QED BY <1>21, <1>22, <1>23, <1>24, <1>25, <1>26, <1>27, <1>28 DEF InPlace

\* The task that is cancelled loses its input if it has not begun, and what its
\* Result gave back.
LEMMA EvictCancelsStep ==
  ASSUME IInv, InputInv, EvictCancels
  PROVE  InPlace' /\ ClaimKept' /\ HeardOnce'
<1> USE NoneAssumption DEF InputInv, InPlace, TypeOK, cell, tree, runner
<1>1. UNCHANGED <<queue, claims, current, evicting, mailbox, run, stage, buffer, taking>>
  BY DEF EvictCancels
<1>2. evicting /\ Taken' = Taken
  BY <1>1 DEF EvictCancels, IInv, EvictOrder, Taken
<1>3. CASE ~Active
  <2>1. UNCHANGED <<task, ready, ended, left, fate>>
    BY <1>3 DEF EvictCancels, tasks
  <2>2. \A t, j \in Inputs : HeldBy(t, j)' <=> HeldBy(t, j)
    BY <2>1 DEF HeldBy
  <2>3. Single' /\ Stage' /\ HeardOnce'
    BY <1>1, <2>1 DEF Single, Stage, HeardOnce
  <2>4. Kept'
    BY <1>1, <1>2, <2>1, <2>2 DEF Kept, Somewhere, Starting
  <2>5. TaskOf' /\ Apart' /\ Awaited'
    BY <1>1, <1>2, <2>1, <2>2 DEF TaskOf, Apart, Awaited
  <2>6. ClaimKept'
    BY <1>1, <2>1 DEF ClaimKept, HasActiveRun, Unheard
  <2> QED BY <2>3, <2>4, <2>5, <2>6
<1>4. CASE Active
  <2>1. PICK c \in Inputs : c = current
    BY <1>4 DEF Active, HasActiveRun
  <2>2. /\ task' = [task EXCEPT ![c] = "finished"] /\ left' = [left EXCEPT ![c] = <<>>]
        /\ ready' = Without(ready, c)
        /\ fate' = Lost(ToSet(left[c]) \cup IF task[c] = "created" THEN {c} ELSE {})
    BY <1>4, <2>1 DEF EvictCancels
  <2>3. task[c] \in {"created", "waiting", "resolved"}
    BY <1>4, <2>1 DEF Active, TaskOf, TaskStates
  <2>4. ToSet(ready') = ToSet(ready) \ {c} /\ IsInjective(ready')
    BY <2>2, WithoutItems DEF Single
  <2>5. \A j \in Inputs : j \in ToSet(left[c]) <=> HeldBy(c, j)
    BY <2>3, EmptyItems DEF HeldBy, TaskOf
  <2>6. \A t, j \in Inputs : HeldBy(t, j)' <=> (HeldBy(t, j) /\ t # c)
    BY <2>2, EmptyItems DEF HeldBy
  <2>7. \A j \in Inputs :
          /\ fate'[j] = "accepted" <=> /\ fate[j] = "accepted" /\ ~HeldBy(c, j)
                                       /\ ~(task[c] = "created" /\ j = c)
          /\ fate'[j] # fate[j] => fate'[j] = "lost" /\ fate[j] = "accepted"
    BY <2>2, <2>5, LostIs
  <2>8. /\ task[c] # "created" => c \notin ToSet(ready)
        /\ c \notin ToSet(queue) /\ c \notin ToSet(buffer) /\ c \notin ToSet(Taken)
        /\ \A t \in Inputs : ~HeldBy(t, c)
        /\ task[c] = "created" => c \notin ToSet(mailbox) /\ c # run
    BY <2>3 DEF TaskOf
  <2>9. \A j \in Inputs : HeldBy(c, j) =>
          /\ j # c /\ j # run /\ j \notin ToSet(ready) /\ j \notin ToSet(mailbox)
          /\ j \notin ToSet(queue) /\ j \notin ToSet(buffer) /\ j \notin ToSet(Taken)
          /\ \A t \in Inputs : HeldBy(t, j) => t = c
    BY <2>8 DEF TaskOf, Apart
  <2>21. Single'
    BY <1>1, <2>2, <2>4, EmptyItems DEF Single
  <2>22. Kept'
    <3>1. \A j \in Inputs : Starting(j)' <=> Starting(j)
      BY <1>1 DEF Starting
    <3>2. ASSUME NEW j \in Inputs
          PROVE  Somewhere(j)' <=> Somewhere(j) /\ ~HeldBy(c, j) /\ ~(task[c] = "created" /\ j = c)
      <4>1. CASE HeldBy(c, j)
        BY <1>1, <1>2, <2>4, <2>6, <2>9, <3>1, <4>1 DEF Somewhere, Starting
      <4>2. CASE ~HeldBy(c, j) /\ j = c
        BY <1>1, <1>2, <2>4, <2>6, <2>8, <3>1, <4>2 DEF Somewhere, Starting
      <4>3. CASE ~HeldBy(c, j) /\ j # c
        BY <1>1, <1>2, <2>4, <2>6, <3>1, <4>3 DEF Somewhere
      <4> QED BY <4>1, <4>2, <4>3
    <3> QED BY <2>7, <3>2 DEF Kept
  <2>23. TaskOf'
    <3>1. ASSUME NEW j \in Inputs, j # c PROVE task'[j] = task[j] /\ left'[j] = left[j]
      BY <2>2, <3>1
    <3>2. task'[c] = "finished" /\ fate'[c] # "absent"
      BY <2>2, <2>3, <2>7 DEF TaskOf
    <3>3. \A j \in Inputs : fate'[j] = "absent" => fate[j] = "absent"
      BY <2>7
    <3> QED BY <1>1, <1>2, <2>4, <2>6, <2>8, <3>1, <3>2, <3>3 DEF TaskOf
  <2>24. Apart'
    BY <1>1, <1>2, <2>6 DEF Apart
  <2>25. Stage'
    <3>1. stage = "settling" => Head(taking) \in Inputs
      BY TailItems DEF Stage
    <3> QED BY <1>1, <2>7, <3>1 DEF Stage
  <2>26. Awaited'
    BY <1>1, <1>2 DEF Awaited
  <2>27. ClaimKept'
    BY <1>1, <2>1, <2>2, EmptyItems DEF ClaimKept
  <2>28. HeardOnce'
    BY <2>7 DEF HeardOnce
  <2> QED BY <2>21, <2>22, <2>23, <2>24, <2>25, <2>26, <2>27, <2>28 DEF InPlace
<1> QED BY <1>3, <1>4

\* A run that ends gives its steers back to the queue, and the queue its head to
\* the next run.
LEMMA RunDoneStep ==
  ASSUME IInv, InputInv, NEW i \in Inputs, RunDone(i)
  PROVE  InPlace' /\ ClaimKept' /\ HeardOnce'
<1> USE NoneAssumption DEF InputInv, InPlace, TypeOK, tree, runner
<1> DEFINE q == Requeued(i)
           handled == [task EXCEPT ![i] = "handled"]
<1>1. /\ UNCHANGED <<evicting, left, fate, mailbox, run, stage, buffer, taking>>
      /\ claims' = {} /\ task[i] = "finished" /\ current = i
  BY DEF RunDone
<1>2. Taken' = Taken /\ \A j \in Inputs : Starting(j)' <=> Starting(j)
  BY <1>1 DEF Taken, Starting
<1>3. \A j \in Inputs : j \in ToSet(left[i]) <=> HeldBy(i, j)
  BY <1>1 DEF HeldBy
<1>4. ToSet(left[i]) \cap ToSet(queue) = {}
  <2>1. ToSet(left[i]) \subseteq Inputs
    BY DEF ToSet
  <2> QED BY <1>3, <2>1 DEF Apart
<1>5. q \in Seq(Inputs) /\ ToSet(q) = ToSet(left[i]) \cup ToSet(queue) /\ IsInjective(q)
  <2> DEFINE s == left[i] \o queue
  <2>1. s \in Seq(Inputs) /\ ToSet(s) = ToSet(left[i]) \cup ToSet(queue) /\ IsInjective(s)
    BY <1>4, ConcatItems DEF Single
  <2> HIDE DEF s
  <2> QED BY <2>1, OrderedItems DEF Requeued, s
<1> HIDE DEF q
<1>6. \A j \in ToSet(q) : /\ j \in Inputs /\ task[j] = "none" /\ left[j] = <<>> /\ j # i /\ fate[j] = "accepted"
                          /\ j \notin ToSet(ready) /\ j \notin ToSet(mailbox) /\ run # j
                          /\ j \notin ToSet(buffer) /\ j \notin ToSet(Taken)
                          /\ \A t \in Inputs : HeldBy(t, j) => t = i
  <2>1. ToSet(q) \subseteq Inputs
    BY <1>5 DEF ToSet
  <2>2. \A j \in ToSet(q) : task[j] = "none" /\ fate[j] = "accepted"
    BY <1>3, <1>5, <2>1 DEF TaskOf, Kept, Somewhere
  <2>3. \A j \in ToSet(q) : /\ left[j] = <<>> /\ j # i /\ j \notin ToSet(ready)
                            /\ j \notin ToSet(mailbox) /\ run # j
    BY <1>1, <2>1, <2>2 DEF TaskOf
  <2>4. \A j \in ToSet(q) : /\ j \notin ToSet(buffer) /\ j \notin ToSet(Taken)
                            /\ \A t \in Inputs : HeldBy(t, j) => t = i
    BY <1>3, <1>5, <2>1 DEF Apart
  <2> QED BY <2>1, <2>2, <2>3, <2>4
<1>7. Stage' /\ HeardOnce'
  BY <1>1 DEF Stage, HeardOnce
<1>8. CASE queue' = q /\ current' = None /\ task' = handled /\ ready' = ready
  <2>1. \A t, j \in Inputs : HeldBy(t, j)' <=> (HeldBy(t, j) /\ t # i)
    BY <1>1, <1>8 DEF HeldBy
  <2>21. Single'
    BY <1>1, <1>5, <1>8 DEF Single
  <2>22. Kept'
    <3>1. \A j \in Inputs : Somewhere(j)' <=> Somewhere(j)
      BY <1>1, <1>2, <1>3, <1>5, <1>8, <2>1 DEF Somewhere
    <3> QED BY <1>1, <3>1 DEF Kept
  <2>23. TaskOf'
    BY <1>1, <1>2, <1>6, <1>8, <2>1 DEF TaskOf
  <2>24. Apart'
    BY <1>1, <1>2, <1>6, <1>8, <2>1 DEF Apart
  <2>26. Awaited'
    BY <1>1, <1>8 DEF Awaited
  <2>27. ClaimKept'
    BY <1>8 DEF ClaimKept, HasActiveRun
  <2> QED BY <1>7, <2>21, <2>22, <2>23, <2>24, <2>26, <2>27 DEF InPlace
<1>9. CASE q # <<>> /\ StartNext(q, handled)
  <2>1. PICK j \in Inputs : /\ j \in ToSet(q) /\ Start(j, handled) /\ ToSet(q) = ToSet(queue') \cup {j}
                            /\ IsInjective(queue') /\ j \notin ToSet(queue')
    BY <1>5, <1>9, NextItems
  <2>2. /\ task[j] = "none" /\ left[j] = <<>> /\ j # i /\ fate[j] = "accepted"
        /\ j \notin ToSet(ready) /\ j \notin ToSet(mailbox) /\ run # j
        /\ j \notin ToSet(buffer) /\ j \notin ToSet(Taken)
        /\ \A t \in Inputs : HeldBy(t, j) => t = i
    BY <1>6, <2>1
  <2>3. /\ current' = j /\ task'[j] = "created" /\ task'[i] = "handled"
        /\ \A k \in Inputs \ {i, j} : task'[k] = task[k]
    BY <2>1, <2>2 DEF Start
  <2>4. /\ ToSet(ready') = ToSet(ready) \cup {j} /\ IsInjective(ready')
    BY <2>1, <2>2, StartItems DEF Single
  <2>5. \A t, k \in Inputs : HeldBy(t, k)' <=> (HeldBy(t, k) /\ t # i)
    BY <1>1, <2>2, <2>3 DEF HeldBy
  <2>21. Single'
    BY <1>1, <2>1, <2>4 DEF Single
  <2>22. Kept'
    <3>1. \A k \in Inputs : Somewhere(k)' <=> Somewhere(k)
      BY <1>1, <1>2, <1>3, <1>5, <2>1, <2>4, <2>5 DEF Somewhere
    <3> QED BY <1>1, <3>1 DEF Kept
  <2>23. TaskOf'
    <3>1. \A k \in Inputs : k \in ToSet(queue') => task'[k] = "none"
      BY <1>6, <2>1, <2>3
    <3>2. \A k \in Inputs : k \in ToSet(buffer) \/ k \in ToSet(Taken) => task'[k] = "none"
      BY <1>1, <2>2, <2>3 DEF TaskOf
    <3>4. \A t, k \in Inputs : HeldBy(t, k)' => task'[k] = "none"
      <4>1. \A t, k \in Inputs : HeldBy(t, k) /\ t # i => task[k] = "none" /\ k # i /\ k # j
        BY <1>1, <2>2 DEF TaskOf
      <4> QED BY <2>3, <2>5, <4>1
    <3>5. \A k \in Inputs : k \in ToSet(ready') => task'[k] = "created"
      BY <1>1, <2>2, <2>3, <2>4 DEF TaskOf
    <3>6. \A k \in Inputs : k \in ToSet(mailbox) \/ run = k => task'[k] \notin {"none", "created"}
      BY <1>1, <2>2, <2>3 DEF TaskOf
    <3>3. \A k \in Inputs : /\ fate[k] = "absent" => task'[k] = "none"
                            /\ task'[k] \in {"none", "created", "waiting"} => left[k] = <<>>
      BY <1>1, <2>2, <2>3 DEF TaskOf
    <3> QED BY <1>1, <1>2, <2>3, <3>1, <3>2, <3>3, <3>4, <3>5, <3>6 DEF TaskOf
  <2>24. Apart'
    BY <1>1, <1>2, <1>6, <2>1, <2>5 DEF Apart
  <2>26. Awaited'
    BY <1>1, <2>2, <2>3 DEF Awaited
  <2>27. ClaimKept'
    BY <1>1, <2>2, <2>3, EmptyItems DEF ClaimKept
  <2> QED BY <1>7, <2>21, <2>22, <2>23, <2>24, <2>26, <2>27 DEF InPlace
<1> QED BY <1>8, <1>9 DEF RunDone, q

-----------------------------------------------------------------------------
(* The invariant, and what it gives *)

LEMMA InputInit == Init => InputInv
<1> SUFFICES ASSUME Init PROVE InputInv
  OBVIOUS
<1> USE NoneAssumption, EmptyItems DEF Init
<1>1. TypeOK
  BY DEF TypeOK, Blocks, TaskStates, Ends, Stages, Fates
<1>2. Single /\ Apart /\ Stage /\ Awaited
  BY DEF Single, Apart, Stage, Awaited, Taken, HeldBy
<1>3. Kept /\ TaskOf
  BY DEF Kept, Somewhere, Starting, Taken, HeldBy, TaskOf
<1>4. ClaimKept /\ HeardOnce
  BY DEF ClaimKept, HasActiveRun, HeardOnce
<1> QED BY <1>1, <1>2, <1>3, <1>4 DEF InputInv, InPlace

\* The places of inputs need what the eviction's order says, and nothing needs them.
LEMMA InputStep == IInv /\ InputInv /\ [Next]_vars => InputInv'
<1> SUFFICES ASSUME IInv, InputInv, [Next]_vars PROVE InPlace' /\ ClaimKept' /\ HeardOnce'
  BY TypesStep DEF InputInv, InPlace
<1>1. ASSUME NEW i \in Inputs, Submit(i) PROVE InPlace' /\ ClaimKept' /\ HeardOnce'
  <2>1. CASE queue' = Ordered(Append(queue, i)) /\ UNCHANGED <<current, task, ready>>
    BY <1>1, <2>1, SubmitQueuesStep
  <2>2. CASE ~HasActiveRun /\ StartNext(Ordered(Append(queue, i)), task)
    BY <1>1, <2>2, SubmitStartsStep
  <2> QED BY <1>1, <2>1, <2>2 DEF Submit
<1>2. CASE User
  BY <1>1, <1>2, CancelStep, SteerNowStep, StartNowStep, RefuseNowStep DEF User
<1>3. CASE Reorder
  BY <1>3, ReorderStep
<1>4. CASE Host
  BY <1>4, PostStep, RenderStep, RunDoneStep, StaleRunDoneStep DEF Host
<1>5. CASE Loop
  BY <1>5, LoopTakesStep, RegisterStep, SeedStep, TakeSteersStep, InjectStep, SettleStep,
     TurnsEndStep, CloseStep, StrikeStep, LoopResumesStep DEF Loop
<1>6. CASE Disturbed
  BY <1>6, MarksStep, TornDownStep, TeardownHangsStep, EvictCancelsStep DEF Disturbed
<1>7. CASE UNCHANGED vars
  BY <1>7, QuietStep DEF vars, cell, tasks, tree, runner
<1> QED BY <1>2, <1>3, <1>4, <1>5, <1>6, <1>7 DEF Next

\* What the theorems below read off.
LEMMA Invariants == Spec => [](IInv /\ InputInv)
<1>1. Init => IInv /\ InputInv
  BY IInvInit, InputInit
<1>2. IInv /\ InputInv /\ [Next]_vars => (IInv /\ InputInv)'
  BY IInvStep, InputStep
<1> QED BY <1>1, <1>2, PTL DEF Spec

\* Every variable keeps its type; a run is in a stage exactly while there is one.
THEOREM InputTypes == Spec => []TypeOK
<1>1. IInv /\ InputInv => TypeOK
  BY DEF InputInv
<1> QED BY <1>1, Invariants, PTL

\* No input enters the history of the thread twice, whatever it is sent as and
\* however often it is given back.
THEOREM NeverHeardTwice == Spec => []HeardOnce
<1>1. IInv /\ InputInv => HeardOnce
  BY DEF InputInv
<1> QED BY <1>1, Invariants, PTL

\* A steer the current run may still give back has the claim that makes it the
\* pending input it was.
THEOREM SteersKeepClaims == Spec => []ClaimKept
<1>1. IInv /\ InputInv => ClaimKept
  BY DEF InputInv
<1> QED BY <1>1, Invariants, PTL

\* The positions of an input in a queue that has nothing twice.
LEMMA SpotItems ==
  ASSUME NEW s \in Seq(Inputs), NEW i
  PROVE  /\ i \in ToSet(s) <=> \E n \in Spots(s, i) : TRUE
         /\ IsInjective(s) => \A n, m \in Spots(s, i) : n = m
BY DEF Spots, ToSet, IsInjective

\* What the history is still to get, in every stage.
LEMMA UnheardIs ==
  ASSUME InputInv
  PROVE  /\ Unheard \in Seq(Inputs) /\ IsInjective(Unheard)
         /\ \A i \in Inputs : i \in ToSet(Unheard) <=> (stage = "seeding" /\ run = i) \/ i \in ToSet(Taken)
<1> USE NoneAssumption DEF InputInv, InPlace, TypeOK
<1>1. CASE stage = "seeding"
  <2>1. Unheard = <<run>> /\ run \in Inputs /\ Taken = <<>>
    BY <1>1 DEF Unheard, Taken, Stage
  <2> QED BY <1>1, <2>1, OneItem, EmptyItems DEF IsInjective
<1>2. CASE stage = "settling"
  <2>1. Unheard = Tail(taking) /\ Taken = Tail(taking) /\ taking # <<>>
    BY <1>2 DEF Unheard, Taken, Stage
  <2> QED BY <1>2, <2>1, TailItems DEF Single
<1>3. CASE stage \notin {"seeding", "settling"}
  BY <1>3 DEF Unheard, Taken, Single
<1> QED BY <1>1, <1>2, <1>3

\* The queues of Places, each without repetition and none with an input of another.
LEMMA PlacesAreApart ==
  ASSUME InputInv, NEW i \in Inputs
  PROVE  /\ \A p \in DOMAIN Places : Places[p] \in Seq(Inputs) /\ IsInjective(Places[p])
         /\ \A p, r \in DOMAIN Places : i \in ToSet(Places[p]) /\ i \in ToSet(Places[r]) => p = r
         /\ \A p \in DOMAIN Places, t \in Inputs : HeldBy(t, i) => i \notin ToSet(Places[p])
         /\ Somewhere(i) <=> \/ \E p \in DOMAIN Places : i \in ToSet(Places[p])
                             \/ \E t \in Inputs : HeldBy(t, i)
<1> USE NoneAssumption, EmptyItems DEF InputInv, InPlace, TypeOK
<1> DEFINE start == IF stage = "starting" THEN <<run>> ELSE <<>>
<1>1. /\ start \in Seq(Inputs) /\ IsInjective(start)
      /\ i \in ToSet(start) <=> (stage = "starting" /\ run = i)
  <2>1. CASE stage = "starting"
    <3>1. start = <<run>> /\ run \in Inputs
      BY <2>1
    <3> QED BY <2>1, <3>1, OneItem DEF IsInjective
  <2>2. CASE stage # "starting"
    BY <2>2
  <2> QED BY <2>1, <2>2
<1>2. /\ Unheard \in Seq(Inputs) /\ IsInjective(Unheard)
      /\ i \in ToSet(Unheard) <=> (stage = "seeding" /\ run = i) \/ i \in ToSet(Taken)
  BY UnheardIs
<1> HIDE DEF start
<1>3. /\ DOMAIN Places = {"queue", "ready", "mailbox", "buffer", "start", "unheard"}
      /\ Places["queue"] = queue /\ Places["ready"] = ready /\ Places["mailbox"] = mailbox
      /\ Places["buffer"] = buffer /\ Places["start"] = start /\ Places["unheard"] = Unheard
  BY DEF Places, start
<1>4. Taken = <<>> \/ stage \in {"injecting", "settling"}
  BY DEF Taken, Stage
<1>5. /\ i \in ToSet(queue) => task[i] = "none" /\ i \notin ToSet(buffer) /\ i \notin ToSet(Taken)
      /\ i \in ToSet(buffer) => task[i] = "none" /\ i \notin ToSet(Taken)
      /\ i \in ToSet(Taken) => task[i] = "none"
      /\ i \in ToSet(ready) => task[i] = "created"
      /\ i \in ToSet(mailbox) => task[i] \notin {"none", "created"} /\ run # i
      /\ run = i => task[i] \notin {"none", "created"}
      /\ \A t \in Inputs : HeldBy(t, i) => /\ task[i] = "none" /\ i \notin ToSet(queue)
                                           /\ i \notin ToSet(buffer) /\ i \notin ToSet(Taken)
  BY DEF TaskOf, Apart
<1>6. \A p \in DOMAIN Places : Places[p] \in Seq(Inputs) /\ IsInjective(Places[p])
  BY <1>1, <1>2, <1>3 DEF Single
<1>7. \A p, r \in DOMAIN Places : i \in ToSet(Places[p]) /\ i \in ToSet(Places[r]) => p = r
  BY <1>1, <1>2, <1>3, <1>4, <1>5
<1>8. \A p \in DOMAIN Places, t \in Inputs : HeldBy(t, i) => i \notin ToSet(Places[p])
  BY <1>1, <1>2, <1>3, <1>5
<1>9. Somewhere(i) <=> \/ \E p \in DOMAIN Places : i \in ToSet(Places[p])
                       \/ \E t \in Inputs : HeldBy(t, i)
  BY <1>1, <1>2, <1>3 DEF Somewhere, Starting
<1> QED BY <1>6, <1>7, <1>8, <1>9

\* The copies of an input are as many as its places: one while it is accepted, or none.
LEMMA OneCopy ==
  ASSUME InputInv, NEW i \in Inputs
  PROVE  /\ fate[i] = "accepted" <=> Copies(i) # {}
         /\ \A e, f \in Copies(i) : e = f
<1> DEFINE Queued(e) == \E p \in DOMAIN Places : \E n \in Spots(Places[p], i) : e = <<p, n>>
           Held(e)   == \E t \in Inputs : HeldBy(t, i) /\ \E n \in Spots(left[t], i) : e = <<t, n>>
<1>1. /\ \A p \in DOMAIN Places : Places[p] \in Seq(Inputs) /\ IsInjective(Places[p])
      /\ \A p, r \in DOMAIN Places : i \in ToSet(Places[p]) /\ i \in ToSet(Places[r]) => p = r
      /\ \A p \in DOMAIN Places, t \in Inputs : HeldBy(t, i) => i \notin ToSet(Places[p])
      /\ Somewhere(i) <=> \/ \E p \in DOMAIN Places : i \in ToSet(Places[p])
                          \/ \E t \in Inputs : HeldBy(t, i)
  BY PlacesAreApart
<1>2. \A t \in Inputs : left[t] \in Seq(Inputs) /\ IsInjective(left[t])
  BY DEF InputInv, InPlace, TypeOK, Single
<1>3. \A e : e \in Copies(i) <=> Queued(e) \/ Held(e)
  <2> SUFFICES ASSUME NEW e PROVE e \in Copies(i) <=> Queued(e) \/ Held(e)
    OBVIOUS
  <2> DEFINE In  == UNION {{p} \X Spots(Places[p], i) : p \in DOMAIN Places}
             Out == UNION {{t} \X Spots(left[t], i) : t \in {t \in Inputs : task[t] \in {"resolved", "finished"}}}
  <2>1. e \in In <=> Queued(e)
    <3>1. e \in In <=> \E p \in DOMAIN Places : e \in {p} \X Spots(Places[p], i)
      OBVIOUS
    <3>2. \A p : e \in {p} \X Spots(Places[p], i) <=> \E n \in Spots(Places[p], i) : e = <<p, n>>
      OBVIOUS
    <3> HIDE DEF In
    <3> QED BY <3>1, <3>2
  <2>2. e \in Out <=> Held(e)
    <3>1. e \in Out <=> \E t \in Inputs : task[t] \in {"resolved", "finished"} /\ e \in {t} \X Spots(left[t], i)
      OBVIOUS
    <3>2. \A t : e \in {t} \X Spots(left[t], i) <=> \E n \in Spots(left[t], i) : e = <<t, n>>
      OBVIOUS
    <3>3. \A t \in Inputs : (\E n \in Spots(left[t], i) : e = <<t, n>>) => i \in ToSet(left[t])
      BY <1>2, SpotItems
    <3> HIDE DEF Out
    <3> QED BY <3>1, <3>2, <3>3 DEF HeldBy
  <2>3. Copies(i) = In \cup Out
    BY DEF Copies
  <2> HIDE DEF In, Out, Queued, Held
  <2> QED BY <2>1, <2>2, <2>3
<1>4. \A e, f \in Copies(i) : e = f
  <2> SUFFICES ASSUME NEW e \in Copies(i), NEW f \in Copies(i) PROVE e = f
    OBVIOUS
  <2>1. ASSUME Queued(e), Queued(f) PROVE e = f
    <3>1. PICK p \in DOMAIN Places : \E n \in Spots(Places[p], i) : e = <<p, n>>
      BY <2>1
    <3>2. PICK r \in DOMAIN Places : \E n \in Spots(Places[r], i) : f = <<r, n>>
      BY <2>1
    <3>3. i \in ToSet(Places[p]) /\ i \in ToSet(Places[r])
      BY <1>1, <3>1, <3>2, SpotItems
    <3>4. p = r
      BY <1>1, <3>3
    <3>5. \A n, m \in Spots(Places[p], i) : n = m
      BY <1>1, SpotItems
    <3> QED BY <3>1, <3>2, <3>4, <3>5
  <2>2. ASSUME Held(e), Held(f) PROVE e = f
    <3>1. PICK t \in Inputs : HeldBy(t, i) /\ \E n \in Spots(left[t], i) : e = <<t, n>>
      BY <2>2
    <3>2. PICK u \in Inputs : HeldBy(u, i) /\ \E n \in Spots(left[u], i) : f = <<u, n>>
      BY <2>2
    <3>3. t = u
      BY <3>1, <3>2 DEF InputInv, InPlace, Apart
    <3>4. \A n, m \in Spots(left[t], i) : n = m
      BY <1>2, SpotItems
    <3> QED BY <3>1, <3>2, <3>3, <3>4
  <2>3. \A g, h : Queued(g) /\ Held(h) => FALSE
    <3>1. \A g : Queued(g) => \E p \in DOMAIN Places : i \in ToSet(Places[p])
      BY <1>1, SpotItems
    <3> QED BY <1>1, <3>1
  <2> HIDE DEF Queued, Held
  <2> QED BY <1>3, <2>1, <2>2, <2>3
<1>5. Copies(i) # {} <=> Somewhere(i)
  <2>1. (\E e : Queued(e)) <=> \E p \in DOMAIN Places : i \in ToSet(Places[p])
    <3>1. \A p \in DOMAIN Places : i \in ToSet(Places[p]) <=> \E n \in Spots(Places[p], i) : TRUE
      BY <1>1, SpotItems
    <3>2. (\E e : Queued(e)) <=> \E p \in DOMAIN Places : \E n \in Spots(Places[p], i) : TRUE
      OBVIOUS
    <3> QED BY <3>1, <3>2
  <2>2. (\E e : Held(e)) <=> \E t \in Inputs : HeldBy(t, i)
    <3>1. \A t \in Inputs : HeldBy(t, i) => \E n \in Spots(left[t], i) : TRUE
      BY <1>2, SpotItems DEF HeldBy
    <3> QED BY <3>1
  <2> HIDE DEF Queued, Held
  <2> QED BY <1>1, <1>3, <2>1, <2>2
<1>6. fate[i] = "accepted" <=> Copies(i) # {}
  BY <1>5 DEF InputInv, InPlace, Kept
<1> QED BY <1>4, <1>6

LEMMA AccountedFollows == InputInv => Accounted
<1> SUFFICES ASSUME InputInv, NEW i \in Inputs
             PROVE  Cardinality(Copies(i)) = IF fate[i] = "accepted" THEN 1 ELSE 0
  BY DEF Accounted
<1>1. CASE Copies(i) = {}
  BY <1>1, OneCopy, FS_EmptySet
<1>2. CASE Copies(i) # {}
  <2>1. PICK e : Copies(i) = {e}
    BY <1>2, OneCopy
  <2> QED BY <1>2, <2>1, OneCopy, FS_Singleton
<1> QED BY <1>1, <1>2

\* An accepted input is in one place and once there, among the queue, the run
\* tasks, the mailbox, the run, the steers and the Results, until it is heard,
\* cancelled or lost: for any number of inputs and any disturbances.
THEOREM InputsAreAccounted == Spec => []Accounted
<1>1. IInv /\ InputInv => Accounted
  BY AccountedFollows
<1> QED BY <1>1, Invariants, PTL

\* What a Result does not give back is lost with an eviction only: while the cell
\* is there, the run of the loop is awaited.
LEMMA ResumedLoss ==
  ASSUME InputInv, LoopResumes, NEW i \in Inputs, fate[i] = "accepted", fate'[i] = "lost"
  PROVE  evicting
<1>1. fate \in [Inputs -> Fates] /\ run \in Inputs
  BY NoneAssumption DEF InputInv, TypeOK, LoopResumes
<1>2. CASE task[run] = "waiting"
  <2>1. fate' = Lost({})
    BY <1>2 DEF LoopResumes, Answer, Undelivered
  <2> QED BY <1>1, <2>1, LostIs
<1>3. CASE task[run] # "waiting"
  BY <1>1, <1>3 DEF InputInv, InPlace, Awaited, TypeOK
<1> QED BY <1>2, <1>3

\* An accepted input is lost only to an interrupt, an eviction or a history that
\* cannot be written, or with the Result of a run that is no longer the current
\* one.
THEOREM LossesHaveCause == Spec => LossHasCause
<1> DEFINE Cause(i) == \/ struck \/ reset # "none" \/ evicting
                       \/ stage \in {"seeding", "injecting"} /\ stage' = "closing"
                       \/ \E t \in Inputs : t # current /\ i \in ToSet(left[t])
           Loses(i) == fate[i] = "accepted" /\ fate'[i] = "lost"
<1>1. ASSUME IInv, InputInv, Next, NEW i \in Inputs, Loses(i) PROVE Cause(i)
  <2> USE DEF cell, tasks, tree, runner, ctl
  <2>1. fate \in [Inputs -> Fates]
    BY <1>1 DEF InputInv, TypeOK
  <2>2. closed => reset # "none"
    BY <1>1 DEF IInv, ClosedWhileReset
  <2>3. CASE User \/ Reorder
    <3>1. ASSUME NEW j \in Inputs, Submit(j) \/ Cancel(j) \/ SteerNow(j) \/ StartNow(j) PROVE FALSE
      BY <1>1, <2>1, <3>1 DEF Submit, Cancel, SteerNow, StartNow
    <3>2. ASSUME NEW j \in Inputs, RefuseNow(j) PROVE Cause(i)
      BY <2>2, <3>2 DEF RefuseNow
    <3> QED BY <1>1, <2>3, <3>1, <3>2 DEF User, Reorder
  <2>4. CASE Host
    <3>1. ASSUME NEW j \in Inputs, StaleRunDone(j) PROVE Cause(i)
      BY <1>1, <2>1, <3>1, LostIs DEF StaleRunDone
    <3> QED BY <1>1, <2>4, <3>1 DEF Host, Post, Render, RunDone
  <2>5. CASE Loop
    <3>1. CASE LoopTakes
      BY <1>1, <2>2, <3>1 DEF LoopTakes
    <3>2. CASE Register \/ TakeSteers \/ Settle \/ Close
      BY <1>1, <3>2 DEF Register, TakeSteers, Settle, Close
    <3>3. CASE Seed \/ Inject
      BY <1>1, <2>1, <3>3 DEF Seed, Inject, Heard
    <3>4. CASE TurnsEnd
      <4>1. CASE stage = "open"
        <5>1. ToSet(Unheard) = {}
          BY <1>1, <4>1, EmptyItems DEF InputInv, InPlace, Stage, Unheard
        <5> QED BY <1>1, <2>1, <3>4, <5>1, LostIs DEF TurnsEnd
      <4>2. CASE stage \in {"seeding", "injecting"}
        BY <3>4, <4>2 DEF TurnsEnd
      <4> QED BY <3>4, <4>1, <4>2 DEF TurnsEnd
    <3>5. CASE Strike
      BY <3>5 DEF Strike
    <3>6. CASE LoopResumes
      BY <1>1, <3>6, ResumedLoss
    <3> QED BY <2>5, <3>1, <3>2, <3>3, <3>4, <3>5, <3>6 DEF Loop
  <2>6. CASE Disturbed
    <3>1. CASE TornDown \/ TeardownHangs \/ CutDone
      BY <3>1 DEF TornDown, TeardownHangs, CutDone
    <3>2. CASE EvictCancels
      BY <1>1, <3>2 DEF EvictCancels, IInv, EvictOrder
    <3>3. CASE Interrupt \/ EvictMarks \/ EvictCloses
      BY <1>1, <3>3 DEF Interrupt, EvictMarks, EvictCloses
    <3> QED BY <2>6, <3>1, <3>2, <3>3 DEF Disturbed
  <2> QED BY <1>1, <2>3, <2>4, <2>5, <2>6 DEF Next
<1>2. IInv /\ InputInv /\ [Next]_vars => [\A i \in Inputs : Loses(i) => Cause(i)]_vars
  <2>1. ASSUME IInv, InputInv, Next PROVE \A i \in Inputs : Loses(i) => Cause(i)
    BY <1>1, <2>1
  <2>2. ASSUME UNCHANGED vars, NEW i \in Inputs PROVE ~Loses(i)
    BY <2>2 DEF vars
  <2> QED BY <2>1, <2>2
<1> QED BY <1>2, Invariants, PTL DEF Spec, LossHasCause

\* What a step does to fates: nothing, or one input is submitted, heard or cancelled,
\* or some are lost.
Withdrawn(j) == [fate EXCEPT ![j] = "cancelled"]
FateStep ==
  \/ UNCHANGED fate
  \/ \E j \in Inputs : fate[j] = "absent" /\ fate' = [fate EXCEPT ![j] = "accepted"]
  \/ \E j \in Inputs : fate[j] = "accepted" /\ fate' \in {Heard(j), Withdrawn(j)}
  \/ \E S : fate' = Lost(S)

LEMMA FateSteps ==
  ASSUME InputInv, Next
  PROVE  FateStep
<1> USE DEF cell, tasks, tree, runner, ctl
<1>1. ASSUME NEW S, fate' = Lost(S) PROVE FateStep
  BY <1>1 DEF FateStep
<1>2. ASSUME NEW j \in Inputs, fate[j] = "accepted", fate' = Heard(j) PROVE FateStep
  BY <1>2 DEF FateStep
<1>3. CASE User \/ Reorder
  <2>1. ASSUME NEW j \in Inputs, Submit(j) PROVE FateStep
    BY <2>1 DEF Submit, FateStep
  <2>2. ASSUME NEW j \in Inputs, Cancel(j) PROVE FateStep
    <3>1. fate[j] = "accepted" /\ fate' = [fate EXCEPT ![j] = "cancelled"]
      BY <2>2 DEF Cancel, InputInv, InPlace, Kept, Somewhere
    <3> QED BY <3>1 DEF FateStep, Withdrawn
  <2>3. ASSUME NEW j \in Inputs, SteerNow(j) \/ StartNow(j) PROVE FateStep
    BY <2>3 DEF SteerNow, StartNow, FateStep
  <2>4. ASSUME NEW j \in Inputs, RefuseNow(j) PROVE FateStep
    BY <1>1, <2>4 DEF RefuseNow, FateStep
  <2> QED BY <1>3, <2>1, <2>2, <2>3, <2>4 DEF User, Reorder, FateStep
<1>4. CASE Host
  <2>1. ASSUME NEW j \in Inputs, StaleRunDone(j) PROVE FateStep
    BY <1>1, <2>1 DEF StaleRunDone, FateStep
  <2> QED BY <1>4, <2>1 DEF Host, Post, Render, RunDone, FateStep
<1>5. CASE Loop
  <2>1. CASE LoopTakes
    BY <1>1, <2>1 DEF LoopTakes, FateStep
  <2>2. CASE Register \/ TakeSteers \/ Settle \/ Close
    BY <2>2 DEF Register, TakeSteers, Settle, Close, FateStep
  <2>3. CASE Seed
    <3>1. run \in Inputs /\ fate[run] = "accepted"
      BY <2>3, NoneAssumption
         DEF Seed, InputInv, TypeOK, InPlace, Kept, Somewhere, Starting
    <3> QED BY <1>2, <2>3, <3>1 DEF Seed
  <2>4. CASE Inject
    <3>1. taking \in Seq(Inputs) /\ taking # <<>> /\ Taken = taking
      BY <2>4 DEF Inject, InputInv, TypeOK, InPlace, Stage, Taken
    <3>2. Head(taking) \in Inputs /\ Head(taking) \in ToSet(Taken)
      BY <3>1, TailItems
    <3>3. fate[Head(taking)] = "accepted"
      BY <3>2 DEF InputInv, InPlace, Kept, Somewhere
    <3> QED BY <1>2, <2>4, <3>2, <3>3 DEF Inject
  <2>5. CASE TurnsEnd \/ Strike
    BY <1>1, <2>5 DEF TurnsEnd, Strike, FateStep
  <2>6. CASE LoopResumes
    BY <1>1, <2>6 DEF LoopResumes, Answer, FateStep
  <2> QED BY <1>5, <2>1, <2>2, <2>3, <2>4, <2>5, <2>6 DEF Loop
<1>6. CASE Disturbed
  <2>1. CASE TornDown \/ TeardownHangs
    BY <1>1, <2>1 DEF TornDown, TeardownHangs, Answer, FateStep
  <2>2. CASE EvictCancels
    BY <1>1, <2>2 DEF EvictCancels, FateStep
  <2>3. CASE Interrupt \/ CutDone \/ EvictMarks \/ EvictCloses
    BY <2>3 DEF Interrupt, CutDone, EvictMarks, EvictCloses, FateStep
  <2> QED BY <1>6, <2>1, <2>2, <2>3 DEF Disturbed
<1> QED BY <1>3, <1>4, <1>5, <1>6 DEF Next

\* An input that is cancelled, heard or lost stays that: it never comes back from a
\* queue, a Result or a mailbox that still had it.
THEOREM FatesAreFinal ==
  Spec => [][\A i \in Inputs : fate[i] \in {"cancelled", "heard", "lost"} => fate'[i] = fate[i]]_vars
<1> DEFINE Final(i) == fate[i] \in {"cancelled", "heard", "lost"} => fate'[i] = fate[i]
<1>1. ASSUME InputInv, Next, NEW i \in Inputs PROVE Final(i)
  <2>1. fate \in [Inputs -> Fates] /\ FateStep
    BY <1>1, FateSteps DEF InputInv, TypeOK
  <2> QED BY <2>1, LostIs, HeardIs DEF FateStep, Withdrawn
<1>2. IInv /\ InputInv /\ [Next]_vars => [\A i \in Inputs : Final(i)]_vars
  <2>1. ASSUME InputInv, Next PROVE \A i \in Inputs : Final(i)
    BY <1>1, <2>1
  <2>2. ASSUME UNCHANGED vars, NEW i \in Inputs PROVE Final(i)
    BY <2>2 DEF vars
  <2> QED BY <2>1, <2>2
<1> QED BY <1>2, Invariants, PTL DEF Spec

\* The promise of InputLife, kept through queue, run tasks, mailbox, steers and
\* Results: whatever the thread has it was given once, and gives up once.
THEOREM ImplementsLife == Spec => LifeSpec
<1> DEFINE Seen    == {i \in Inputs : fate[i] # "absent"}
           Held    == {i \in Inputs : Copies(i) # {}}
           History == [i \in Inputs |-> CASE fate[i] = "heard"    -> 1
                                          [] fate[i] = "repeated" -> 2
                                          [] OTHER                -> 0]
           Kinds == fate \in [Inputs -> Fates] /\ \A i \in Inputs : fate[i] # "repeated"
           Accepted == {i \in Inputs : fate[i] = "accepted"}
<1>1. InputInv => Kinds /\ Held = Accepted
  BY OneCopy DEF InputInv, TypeOK, HeardOnce
<1>2. Init => Life!Init
  <2> SUFFICES ASSUME Init PROVE Seen = {} /\ Held = {} /\ History = [i \in Inputs |-> 0]
    BY DEF Life!Init
  <2>1. fate = [i \in Inputs |-> "absent"] /\ InputInv
    BY InputInit DEF Init
  <2> HIDE DEF Held
  <2> QED BY <1>1, <2>1
<1>3. ASSUME InputInv, InputInv', [Next]_vars PROVE [Life!Next]_(Life!vars)
  <2>1. Kinds /\ Kinds' /\ Held = Accepted /\ Held' = Accepted'
    <3>1. (InputInv => Kinds /\ Held = Accepted)'
      BY <1>1, PTL
    <3> QED BY <1>1, <1>3, <3>1
  <2> HIDE DEF Held
  <2>2. CASE UNCHANGED fate
    <3>1. Seen' = Seen /\ Held' = Held /\ History' = History
      BY <2>1, <2>2
    <3>2. Life!vars' = Life!vars
      BY <3>1 DEF Life!vars, Held
    <3> QED BY <3>2
  <2>3. ASSUME NEW j \in Inputs, fate[j] = "absent", fate' = [fate EXCEPT ![j] = "accepted"]
        PROVE  Life!Accept(j)
    <3>1. j \notin Seen /\ Seen' = Seen \cup {j}
      BY <2>1, <2>3
    <3>2. Held' = Held \cup {j}
      BY <2>1, <2>3
    <3>3. History' = History
      BY <2>1, <2>3
    <3> QED BY <3>1, <3>2, <3>3 DEF Life!Accept, Held
  <2>4. ASSUME NEW j \in Inputs, fate[j] = "accepted", fate' = Heard(j)
        PROVE  Life!Hear(j)
    <3>1. fate' = [fate EXCEPT ![j] = "heard"]
      BY <2>1, <2>4 DEF Heard
    <3>2. Seen' = Seen /\ j \in Held /\ Held' = Held \ {j}
      BY <2>1, <2>4, <3>1
    <3>3. History[j] = 0 /\ History' = [History EXCEPT ![j] = 1]
      BY <2>1, <2>4, <3>1
    <3>4. History' = [History EXCEPT ![j] = @ + 1]
      <4> HIDE DEF History
      <4> QED BY <3>3
    <3> QED BY <3>2, <3>4 DEF Life!Hear, Held
  <2>5. ASSUME NEW j \in Inputs, fate[j] = "accepted", fate' = Withdrawn(j)
        PROVE  Life!Drop({j})
    <3>1. Seen' = Seen /\ j \in Held /\ Held' = Held \ {j} /\ History' = History
      BY <2>1, <2>5 DEF Withdrawn
    <3> QED BY <3>1 DEF Life!Drop, Held
  <2>6. ASSUME NEW S, fate' = Lost(S)
        PROVE  UNCHANGED fate \/ \E L \in SUBSET Inputs : Life!Drop(L)
    <3> DEFINE L == S \cap Accepted
    <3>1. \A i \in Inputs : fate'[i] = IF i \in L THEN "lost" ELSE fate[i]
      BY <2>1, <2>6 DEF Lost
    <3>2. CASE L = {}
      BY <2>1, <3>1, <3>2
    <3>3. CASE L # {}
      <4>1. Seen' = Seen /\ Held' = Held \ L /\ L \subseteq Held /\ History' = History
        BY <2>1, <3>1
      <4>2. Life!Drop(L)
        BY <3>3, <4>1 DEF Life!Drop, Held
      <4>3. L \in SUBSET Inputs
        OBVIOUS
      <4> HIDE DEF L
      <4> QED BY <4>2, <4>3
    <3> QED BY <3>2, <3>3
  <2>7. FateStep \/ UNCHANGED fate
    BY <1>3, FateSteps DEF vars
  <2>8. CASE \E j \in Inputs : fate[j] = "absent" /\ fate' = [fate EXCEPT ![j] = "accepted"]
    BY <2>3, <2>8 DEF Life!Next
  <2>9. CASE \E j \in Inputs : fate[j] = "accepted" /\ fate' \in {Heard(j), Withdrawn(j)}
    <3>1. PICK j \in Inputs : fate[j] = "accepted" /\ fate' \in {Heard(j), Withdrawn(j)}
      BY <2>9
    <3>2. Life!Hear(j) \/ Life!Drop({j})
      BY <2>4, <2>5, <3>1
    <3>3. {j} \in SUBSET Inputs
      OBVIOUS
    <3> QED BY <3>2, <3>3 DEF Life!Next
  <2>10. CASE \E S : fate' = Lost(S)
    BY <2>2, <2>6, <2>10 DEF Life!Next
  <2> QED BY <2>2, <2>7, <2>8, <2>9, <2>10 DEF FateStep
<1>4. IInv /\ InputInv /\ (IInv /\ InputInv)' /\ [Next]_vars => [Life!Next]_(Life!vars)
  BY <1>3
<1> QED BY <1>2, <1>4, Invariants, PTL DEF Spec, LifeSpec, Life!Spec
=============================================================================
