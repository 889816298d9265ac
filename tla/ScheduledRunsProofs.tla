------------------------ MODULE ScheduledRunsProofs ------------------------
(* Theorems about ScheduledRuns, for every number of runs, tasks, any      *)
(* policy and any contention for the scheduler lock.                       *)
EXTENDS ScheduledRuns, FiniteSetTheorems, TLAPS

\* owner.cancel() only marks runs.
LEMMA CancelOwnerType ==
  ASSUME TypeOK, NEW r \in Runs, CancelOwner(r)
  PROVE  /\ thrown' \subseteq Runs /\ thrown \subseteq thrown'
         /\ acancel' \subseteq Runs /\ agent' = agent
<1>1. thrown' \subseteq Runs /\ thrown \subseteq thrown'
  BY DEF CancelOwner, TypeOK
<1>2. Interrupting(r) => waiting[r] \in Runs
  BY DEF Interrupting, TypeOK, None
<1>3. acancel' \subseteq Runs
  BY <1>2 DEF CancelOwner, TypeOK
<1> QED
  BY <1>1, <1>3 DEF CancelOwner

\* An interrupt moves a queued run task to its end and marks a started one.
LEMMA InterruptType ==
  ASSUME TypeOK, NEW r \in Runs, Interrupt(r)
  PROVE  /\ acancel' \subseteq Runs /\ agent' \in [Runs -> AgentPhases]
         /\ \A q \in Runs : agent'[q] = agent[q] \/ agent'[q] = "returned"
BY DEF Interrupt, TypeOK, AgentPhases

\* _cancel_cell keeps every variable it writes within its type.
LEMMA CancelCellType ==
  ASSUME TypeOK, NEW v \in Runs, CancelCell(v)
  PROVE  /\ requested' \subseteq Runs /\ rows' \in [Runs -> Statuses]
         /\ final' \in [Runs -> Terminal \cup {"none"}]
         /\ thrown' \subseteq Runs /\ thrown \subseteq thrown'
         /\ acancel' \subseteq Runs /\ agent' \in [Runs -> AgentPhases]
         /\ \A q \in Runs : /\ agent'[q] = agent[q] \/ agent'[q] = "returned"
                            /\ rows[q] # "absent" => rows'[q] # "absent"
<1>1. CASE HasDispatcher(v)
  <2>1. rows' \in [Runs -> Statuses] /\ final' \in [Runs -> Terminal \cup {"none"}]
    BY <1>1 DEF CancelCell, TypeOK, Statuses, Terminal
  <2>2. \A q \in Runs : rows[q] # "absent" => rows'[q] # "absent"
    BY <1>1 DEF CancelCell, TypeOK, Statuses, Terminal
  <2>3. Interrupt(v) /\ thrown' = thrown /\ requested' \subseteq Runs
    BY <1>1 DEF CancelCell, TypeOK
  <2> QED
    BY <2>1, <2>2, <2>3, InterruptType DEF TypeOK
<1>2. CASE ~HasDispatcher(v)
  <2>1. CancelOwner(v) /\ rows' = rows /\ final' = final /\ requested' \subseteq Runs
    BY <1>2 DEF CancelCell, TypeOK
  <2> QED
    BY <2>1, CancelOwnerType DEF TypeOK
<1> QED
  BY <1>1, <1>2

\* The failing _cancel_cell as well.
LEMMA CancelCellFailsType ==
  ASSUME TypeOK, NEW v \in Runs, NEW at, CancelCellFails(v, at)
  PROVE  /\ requested' \subseteq Runs /\ rows' \in [Runs -> Statuses]
         /\ final' = final /\ acancel' = acancel /\ agent' = agent
         /\ \A q \in Runs : rows[q] # "absent" => rows'[q] # "absent"
BY DEF CancelCellFails, TypeOK, Statuses, Terminal

\* Every step keeps the types.
LEMMA TypeStep ==
  ASSUME TypeOK, BridgeInv, [Next]_vars
  PROVE  TypeOK'
<1> USE DEF TypeOK, durable, owners, agents, cells, portal, host, None
<1>1. ASSUME NEW r \in Runs, Submit(r) PROVE TypeOK'
  BY <1>1 DEF Submit, Phases
<1>2. ASSUME NEW r \in Runs, UserCancel(r) PROVE TypeOK'
  BY <1>2, CancelCellType, CancelCellFailsType DEF UserCancel
<1>3. CASE Shutdown
  BY <1>3 DEF Shutdown
<1>4. ASSUME NEW r \in Runs, ShutdownCancel(r) PROVE TypeOK'
  BY <1>4, CancelCellType, CancelCellFailsType DEF ShutdownCancel
<1>5. ASSUME NEW r \in Runs, Deadline(r) PROVE TypeOK'
  BY <1>5, CancelOwnerType DEF Deadline
<1>6. ASSUME NEW r \in Runs, NEW v \in Runs, CancelVictim(r, v) PROVE TypeOK'
  BY <1>6, CancelCellType, CancelCellFailsType DEF CancelVictim
<1>7. ASSUME NEW k \in {"user", "replace", "shutdown"}, NEW r \in Runs, AfterOwner(k, r)
      PROVE  TypeOK'
  BY <1>7 DEF AfterOwner, FinishCell, SkippedRow, SettledRun, Statuses, Terminal, Phases
<1>8. ASSUME NEW r \in Runs, WaitForLock(r) PROVE TypeOK'
  BY <1>8 DEF WaitForLock, Phases
<1>9. ASSUME NEW r \in Runs, Admit(r) PROVE TypeOK'
  BY <1>9 DEF Admit, Active, FinishCell, SkippedRow, SettledRun, Statuses, Terminal, Phases
<1>10. ASSUME NEW r \in Runs, Replaced(r) PROVE TypeOK'
  BY <1>10 DEF Replaced, ReleaseLock, Phases
<1>11. ASSUME NEW r \in Runs, Dispatch(r) PROVE TypeOK'
  BY <1>11 DEF Dispatch, Phases, AgentPhases
<1>12. ASSUME NEW r \in Runs, OwnerResumes(r) PROVE TypeOK'
  BY <1>12, InterruptType DEF OwnerResumes, Phases
<1>13. ASSUME NEW r \in Runs, CloseDispatcher(r) PROVE TypeOK'
  BY <1>13 DEF CloseDispatcher, FinishCell, SkippedRow, SettledRun, Statuses, Terminal, Phases
<1>14. ASSUME NEW r \in Runs, OwnerUnwinds(r) PROVE TypeOK'
  BY <1>14 DEF OwnerUnwinds, FinishCell, SkippedRow, SettledRun, Statuses, Terminal, Phases
<1>15. ASSUME NEW r \in Runs, Published(r) PROVE TypeOK'
  BY <1>15 DEF Published, Pruned, Phases
<1>16. ASSUME NEW r \in Runs, BridgeSkips(r) PROVE TypeOK'
  BY <1>16 DEF BridgeSkips, Return, Statuses, Terminal, AgentPhases
<1>17. ASSUME NEW r \in Runs, BridgeStarts(r) PROVE TypeOK'
  <2>1. rows' \in [Runs -> Statuses]
    BY <1>17 DEF BridgeStarts, DurableStart, Statuses, Terminal
  <2>2. final' \in [Runs -> Terminal \cup {"none"}]
    BY <1>17 DEF BridgeStarts, DurableStart, Terminal
  <2>3. \/ agent' = [agent EXCEPT ![r] = "starting"]
       \/ agent' = [agent EXCEPT ![r] = "returned"]
    BY <1>17 DEF BridgeStarts, DurableStart, Return
  <2> QED
    BY <1>17, <2>1, <2>2, <2>3 DEF BridgeStarts, DurableStart, AgentPhases
<1>18. ASSUME NEW r \in Runs, BridgeRuns(r) PROVE TypeOK'
  BY <1>18 DEF BridgeRuns, PersistTerminal, Return, BridgeInv, Executing, Statuses,
     Terminal, AgentPhases
<1>19. ASSUME NEW r \in Runs, NEW s \in Outcomes, RunnerEnds(r, s) PROVE TypeOK'
  BY <1>19, OutcomesAssumption
  DEF RunnerEnds, Return, BridgeInv, Executing, Statuses, Terminal, AgentPhases
<1>20. ASSUME NEW r \in Runs, DeliveryEnds(r) PROVE TypeOK'
  <2>1. proposal[r] \in Terminal /\ rows[r] \in Terminal \cup {"running"}
    BY <1>20, OutcomesAssumption DEF DeliveryEnds, BridgeInv, Executing, Statuses, Terminal
  <2>2. rows' \in [Runs -> Statuses]
    BY <1>20, <2>1 DEF DeliveryEnds, PersistTerminal, Statuses
  <2>3. final' \in [Runs -> Terminal \cup {"none"}]
    BY <1>20, <2>1 DEF DeliveryEnds, PersistTerminal
  <2> QED
    BY <1>20, <2>2, <2>3 DEF DeliveryEnds, Return, AgentPhases
<1>21. CASE PeerStarts
  BY <1>21 DEF PeerStarts, Recovered, Statuses, Terminal
<1>22. ASSUME NEW t \in Tasks, DeleteTask(t) PROVE TypeOK'
  BY <1>22 DEF DeleteTask
<1>23. CASE Crash
  BY <1>23 DEF Crash, Phases, AgentPhases
<1>24. CASE Boot
  BY <1>24 DEF Boot, Recovered, Statuses, Terminal
<1>25. CASE UNCHANGED vars
  BY <1>25 DEF vars
<1> QED
  BY <1>1, <1>2, <1>3, <1>4, <1>5, <1>6, <1>7, <1>8, <1>9, <1>10, <1>11, <1>12, <1>13,
     <1>14, <1>15, <1>16, <1>17, <1>18, <1>19, <1>20, <1>21, <1>22, <1>23, <1>24, <1>25
  DEF Next, Environment, Owner, Bridge, Canceller

\* Every step keeps run tasks under an open dispatcher, with a row to close.
LEMMA BridgeStep ==
  ASSUME TypeOK, BridgeInv, [Next]_vars
  PROVE  BridgeInv'
<1> USE DEF BridgeInv, HasDispatcher, Executing, TypeOK, durable, owners, agents, cells,
            portal, host
<1>1. ASSUME NEW r \in Runs, Submit(r) PROVE BridgeInv'
  <2>1. phase[r] = "none"
    BY <1>1, RunsAssumption DEF Submit
  <2> QED
    BY <1>1, <2>1 DEF Submit
<1>2. ASSUME NEW r \in Runs, UserCancel(r) PROVE BridgeInv'
  BY <1>2, CancelCellType, CancelCellFailsType DEF UserCancel
<1>3. CASE Shutdown
  BY <1>3 DEF Shutdown
<1>4. ASSUME NEW r \in Runs, ShutdownCancel(r) PROVE BridgeInv'
  BY <1>4, CancelCellType, CancelCellFailsType DEF ShutdownCancel
<1>5. ASSUME NEW r \in Runs, Deadline(r) PROVE BridgeInv'
  BY <1>5, CancelOwnerType DEF Deadline
<1>6. ASSUME NEW r \in Runs, NEW v \in Runs, CancelVictim(r, v) PROVE BridgeInv'
  BY <1>6, CancelCellType, CancelCellFailsType DEF CancelVictim
<1>7. ASSUME NEW k \in {"user", "replace", "shutdown"}, NEW r \in Runs, AfterOwner(k, r)
      PROVE  BridgeInv'
  BY <1>7 DEF AfterOwner, OwnerDone, FinishCell, SkippedRow
<1>8. ASSUME NEW r \in Runs, WaitForLock(r) PROVE BridgeInv'
  BY <1>8 DEF WaitForLock
<1>9. ASSUME NEW r \in Runs, Admit(r) PROVE BridgeInv'
  BY <1>9 DEF Admit, FinishCell, SkippedRow
<1>10. ASSUME NEW r \in Runs, Replaced(r) PROVE BridgeInv'
  BY <1>10 DEF Replaced, ReleaseLock
<1>11. ASSUME NEW r \in Runs, Dispatch(r) PROVE BridgeInv'
  BY <1>11 DEF Dispatch
<1>12. ASSUME NEW r \in Runs, OwnerResumes(r) PROVE BridgeInv'
  BY <1>12, InterruptType DEF OwnerResumes
<1>13. ASSUME NEW r \in Runs, CloseDispatcher(r) PROVE BridgeInv'
  BY <1>13 DEF CloseDispatcher, FinishCell, SkippedRow
<1>14. ASSUME NEW r \in Runs, OwnerUnwinds(r) PROVE BridgeInv'
  BY <1>14 DEF OwnerUnwinds, FinishCell, SkippedRow
<1>15. ASSUME NEW r \in Runs, Published(r) PROVE BridgeInv'
  BY <1>15 DEF Published
<1>16. ASSUME NEW r \in Runs, BridgeSkips(r) PROVE BridgeInv'
  BY <1>16 DEF BridgeSkips, Return
<1>17. ASSUME NEW r \in Runs, BridgeStarts(r) PROVE BridgeInv'
  <2>1. \/ /\ agent' = [agent EXCEPT ![r] = "starting"] /\ rows' = [rows EXCEPT ![r] = "running"]
       \/ /\ agent' = [agent EXCEPT ![r] = "returned"] /\ rows' = [rows EXCEPT ![r] = "failed"]
    BY <1>17 DEF BridgeStarts, DurableStart, Return
  <2>2. agent[r] = "queued" /\ phase' = phase /\ proposal' = proposal
    BY <1>17 DEF BridgeStarts, DurableStart
  <2> QED
    BY <2>1, <2>2
<1>18. ASSUME NEW r \in Runs, BridgeRuns(r) PROVE BridgeInv'
  BY <1>18 DEF BridgeRuns, PersistTerminal, Return
<1>19. ASSUME NEW r \in Runs, NEW s \in Outcomes, RunnerEnds(r, s) PROVE BridgeInv'
  BY <1>19, OutcomesAssumption DEF RunnerEnds, Return
<1>20. ASSUME NEW r \in Runs, DeliveryEnds(r) PROVE BridgeInv'
  BY <1>20 DEF DeliveryEnds, PersistTerminal, Return
<1>21. CASE PeerStarts
  BY <1>21 DEF PeerStarts, Recovered
<1>22. ASSUME NEW t \in Tasks, DeleteTask(t) PROVE BridgeInv'
  BY <1>22 DEF DeleteTask
<1>23. CASE Crash
  BY <1>23 DEF Crash
<1>24. CASE Boot
  BY <1>24 DEF Boot, Recovered
<1>25. CASE UNCHANGED vars
  BY <1>25 DEF vars
<1> QED
  BY <1>1, <1>2, <1>3, <1>4, <1>5, <1>6, <1>7, <1>8, <1>9, <1>10, <1>11, <1>12, <1>13,
     <1>14, <1>15, <1>16, <1>17, <1>18, <1>19, <1>20, <1>21, <1>22, <1>23, <1>24, <1>25
  DEF Next, Environment, Owner, Bridge, Canceller

\* Every variable stays within its type.
THEOREM TypeCorrect == Spec => []TypeOK
<1>1. Init => TypeOK /\ BridgeInv
  BY DEF Init, TypeOK, BridgeInv, HasDispatcher, Executing, Statuses, Phases, AgentPhases, None
<1>2. TypeOK /\ BridgeInv /\ [Next]_vars => (TypeOK /\ BridgeInv)'
  BY TypeStep, BridgeStep
<1> QED
  BY <1>1, <1>2, PTL DEF Spec

\* Every step keeps the earlier runs of a serial task behind its admitted run.
LEMMA AdmissionStep ==
  ASSUME TypeOK, AdmissionInv, [Next]_vars
  PROVE  AdmissionInv'
<1> USE DEF AdmissionInv, Unfinished, Admitted, Live, TypeOK, durable, owners, agents, cells,
            portal, host, None
<1>1. ASSUME NEW r \in Runs, Submit(r) PROVE AdmissionInv'
  <2>1. /\ phase' = [phase EXCEPT ![r] = "created"]
        /\ \A q \in Runs : q >= r => phase[q] = "none"
        /\ UNCHANGED <<thrown, victims, waiting>>
    BY <1>1 DEF Submit
  <2> SUFFICES ASSUME NEW q \in Runs, NEW p \in Runs, q < p, TaskOf[q] = TaskOf[p],
                      Policy[TaskOf[p]] # "allow", phase'[q] \in Unfinished
               PROVE  /\ phase'[p] \notin Admitted
                      /\ phase'[p] = "replacing" /\ p \notin thrown'
                         => q \in victims'[p] \cup {waiting'[p]}
    BY DEF AdmissionInv
  <2>2. CASE p = r
    BY <2>1, <2>2
  <2>3. CASE q = r
    <3>1. phase[p] = "none" /\ p # r
      BY <2>1, <2>3, RunsAssumption
    <3> QED
      BY <2>1, <3>1
  <2>4. CASE p # r /\ q # r
    BY <2>1, <2>4
  <2> QED
    BY <2>2, <2>3, <2>4
<1>2. ASSUME NEW r \in Runs, UserCancel(r) PROVE AdmissionInv'
  BY <1>2, CancelCellType DEF UserCancel
<1>3. CASE Shutdown
  BY <1>3 DEF Shutdown
<1>4. ASSUME NEW r \in Runs, ShutdownCancel(r) PROVE AdmissionInv'
  BY <1>4, CancelCellType DEF ShutdownCancel
<1>5. ASSUME NEW r \in Runs, Deadline(r) PROVE AdmissionInv'
  BY <1>5, CancelOwnerType DEF Deadline
<1>6. ASSUME NEW r \in Runs, NEW v \in Runs, CancelVictim(r, v) PROVE AdmissionInv'
  BY <1>6, CancelCellType, RunsAssumption DEF CancelVictim
<1>7. ASSUME NEW k \in {"user", "replace", "shutdown"}, NEW r \in Runs, AfterOwner(k, r)
      PROVE  AdmissionInv'
  BY <1>7 DEF AfterOwner, OwnerDone, FinishCell
<1>8. ASSUME NEW r \in Runs, WaitForLock(r) PROVE AdmissionInv'
  BY <1>8 DEF WaitForLock
<1>9. ASSUME NEW r \in Runs, Admit(r) PROVE AdmissionInv'
  BY <1>9 DEF Admit, Active, FinishCell
<1>10. ASSUME NEW r \in Runs, Replaced(r) PROVE AdmissionInv'
  BY <1>10, RunsAssumption DEF Replaced, ReleaseLock
<1>11. ASSUME NEW r \in Runs, Dispatch(r) PROVE AdmissionInv'
  BY <1>11 DEF Dispatch
<1>12. ASSUME NEW r \in Runs, OwnerResumes(r) PROVE AdmissionInv'
  BY <1>12 DEF OwnerResumes
<1>13. ASSUME NEW r \in Runs, CloseDispatcher(r) PROVE AdmissionInv'
  BY <1>13 DEF CloseDispatcher, FinishCell
<1>14. ASSUME NEW r \in Runs, OwnerUnwinds(r) PROVE AdmissionInv'
  BY <1>14 DEF OwnerUnwinds, FinishCell
<1>15. ASSUME NEW r \in Runs, Published(r) PROVE AdmissionInv'
  BY <1>15 DEF Published
<1>16. ASSUME NEW r \in Runs, BridgeSkips(r) PROVE AdmissionInv'
  BY <1>16 DEF BridgeSkips
<1>17. ASSUME NEW r \in Runs, BridgeStarts(r) PROVE AdmissionInv'
  BY <1>17 DEF BridgeStarts, DurableStart
<1>18. ASSUME NEW r \in Runs, BridgeRuns(r) PROVE AdmissionInv'
  BY <1>18 DEF BridgeRuns
<1>19. ASSUME NEW r \in Runs, NEW s \in Outcomes, RunnerEnds(r, s) PROVE AdmissionInv'
  BY <1>19 DEF RunnerEnds
<1>20. ASSUME NEW r \in Runs, DeliveryEnds(r) PROVE AdmissionInv'
  BY <1>20 DEF DeliveryEnds
<1>21. CASE PeerStarts
  BY <1>21 DEF PeerStarts
<1>22. ASSUME NEW t \in Tasks, DeleteTask(t) PROVE AdmissionInv'
  BY <1>22 DEF DeleteTask
<1>23. CASE Crash
  BY <1>23 DEF Crash
<1>24. CASE Boot
  BY <1>24 DEF Boot
<1>25. CASE UNCHANGED vars
  BY <1>25 DEF vars
<1> QED
  BY <1>1, <1>2, <1>3, <1>4, <1>5, <1>6, <1>7, <1>8, <1>9, <1>10, <1>11, <1>12, <1>13,
     <1>14, <1>15, <1>16, <1>17, <1>18, <1>19, <1>20, <1>21, <1>22, <1>23, <1>24, <1>25
  DEF Next, Environment, Owner, Bridge, Canceller

\* Concurrency policy, for any number of runs, tasks and process deaths: two
\* runs of one FORBID or REPLACE task never execute at the same time.
THEOREM SerialRuns == Spec => []SerialTask
<1>1. Init => SerialInv
  BY RunsAssumption DEF SerialInv, Init, TypeOK, BridgeInv, AdmissionInv, HasDispatcher,
     Executing, Statuses, Phases, AgentPhases, None, Unfinished, Live, Admitted
<1>2. SerialInv /\ [Next]_vars => SerialInv'
  BY TypeStep, BridgeStep, AdmissionStep DEF SerialInv
<1>3. SerialInv => SerialTask
  <2> SUFFICES ASSUME SerialInv, NEW q \in Runs, NEW r \in Runs, q # r,
                      TaskOf[q] = TaskOf[r], Policy[TaskOf[r]] # "allow",
                      Executing(q), Executing(r)
               PROVE  FALSE
    BY DEF SerialTask
  <2>1. phase[q] \in {"driving", "closing"} /\ phase[r] \in {"driving", "closing"}
    BY DEF SerialInv, BridgeInv, Executing, HasDispatcher
  <2>2. q < r \/ r < q
    BY RunsAssumption
  <2> QED
    BY <2>1, <2>2 DEF SerialInv, AdmissionInv, Unfinished, Live, Admitted
<1> QED
  BY <1>1, <1>2, <1>3, PTL DEF Spec

\* The runs that hold a slot of the semaphore.
Slots == {q \in Runs : HasDispatcher(q)}
SlotInv == IsFiniteSet(Slots) /\ Cardinality(Slots) <= MaxInflight

\* Only Dispatch takes a slot.
LEMMA SlotStep ==
  ASSUME TypeOK, [Next]_vars, \A r \in Runs : ~Dispatch(r)
  PROVE  Slots' \subseteq Slots
<1> USE DEF Slots, HasDispatcher, TypeOK, durable, owners, agents, cells, portal, host
<1>1. ASSUME NEW r \in Runs, Submit(r) PROVE Slots' \subseteq Slots
  BY <1>1 DEF Submit
<1>2. ASSUME NEW r \in Runs, UserCancel(r) PROVE Slots' \subseteq Slots
  BY <1>2 DEF UserCancel
<1>3. CASE Shutdown
  BY <1>3 DEF Shutdown
<1>4. ASSUME NEW r \in Runs, ShutdownCancel(r) PROVE Slots' \subseteq Slots
  BY <1>4 DEF ShutdownCancel
<1>5. ASSUME NEW r \in Runs, Deadline(r) PROVE Slots' \subseteq Slots
  BY <1>5 DEF Deadline
<1>6. ASSUME NEW r \in Runs, NEW v \in Runs, CancelVictim(r, v) PROVE Slots' \subseteq Slots
  BY <1>6 DEF CancelVictim
<1>7. ASSUME NEW k \in {"user", "replace", "shutdown"}, NEW r \in Runs, AfterOwner(k, r)
      PROVE  Slots' \subseteq Slots
  BY <1>7 DEF AfterOwner, FinishCell
<1>8. ASSUME NEW r \in Runs, WaitForLock(r) PROVE Slots' \subseteq Slots
  BY <1>8 DEF WaitForLock
<1>9. ASSUME NEW r \in Runs, Admit(r) PROVE Slots' \subseteq Slots
  BY <1>9 DEF Admit, FinishCell
<1>10. ASSUME NEW r \in Runs, Replaced(r) PROVE Slots' \subseteq Slots
  BY <1>10 DEF Replaced, ReleaseLock
<1>11. ASSUME NEW r \in Runs, OwnerResumes(r) PROVE Slots' \subseteq Slots
  BY <1>11 DEF OwnerResumes
<1>12. ASSUME NEW r \in Runs, CloseDispatcher(r) PROVE Slots' \subseteq Slots
  BY <1>12 DEF CloseDispatcher, FinishCell
<1>13. ASSUME NEW r \in Runs, OwnerUnwinds(r) PROVE Slots' \subseteq Slots
  BY <1>13 DEF OwnerUnwinds, FinishCell
<1>14. ASSUME NEW r \in Runs, Published(r) PROVE Slots' \subseteq Slots
  BY <1>14 DEF Published
<1>15. ASSUME NEW r \in Runs, BridgeSkips(r) PROVE Slots' \subseteq Slots
  BY <1>15 DEF BridgeSkips
<1>16. ASSUME NEW r \in Runs, BridgeStarts(r) PROVE Slots' \subseteq Slots
  BY <1>16 DEF BridgeStarts, DurableStart
<1>17. ASSUME NEW r \in Runs, BridgeRuns(r) PROVE Slots' \subseteq Slots
  BY <1>17 DEF BridgeRuns
<1>18. ASSUME NEW r \in Runs, NEW s \in Outcomes, RunnerEnds(r, s) PROVE Slots' \subseteq Slots
  BY <1>18 DEF RunnerEnds
<1>19. ASSUME NEW r \in Runs, DeliveryEnds(r) PROVE Slots' \subseteq Slots
  BY <1>19 DEF DeliveryEnds
<1>20. CASE PeerStarts
  BY <1>20 DEF PeerStarts
<1>21. ASSUME NEW t \in Tasks, DeleteTask(t) PROVE Slots' \subseteq Slots
  BY <1>21 DEF DeleteTask
<1>22. CASE Crash
  BY <1>22 DEF Crash
<1>23. CASE Boot
  BY <1>23 DEF Boot
<1>24. CASE UNCHANGED vars
  BY <1>24 DEF vars
<1> QED
  BY <1>1, <1>2, <1>3, <1>4, <1>5, <1>6, <1>7, <1>8, <1>9, <1>10, <1>11, <1>12, <1>13,
     <1>14, <1>15, <1>16, <1>17, <1>18, <1>19, <1>20, <1>21, <1>22, <1>23, <1>24
  DEF Next, Environment, Owner, Bridge, Canceller

\* The semaphore, for any number of runs and slots: never do more than
\* max_inflight runs execute, cancelled and closing ones included.
THEOREM BoundedInflight == Spec => []InflightBound
<1> DEFINE Inv == TypeOK /\ BridgeInv /\ SlotInv
<1>0. MaxInflight \in Nat /\ 0 <= MaxInflight
  <2>1. MaxInflight \in Nat \ {0}
    BY LimitsAssumption, Zenon
  <2> QED
    BY <2>1
<1>1. Init => Inv
  <2>1. Init => Slots = {}
    BY DEF Init, Slots, HasDispatcher
  <2>2. Init => TypeOK /\ BridgeInv
    BY DEF Init, TypeOK, BridgeInv, HasDispatcher, Executing, Statuses, Phases, AgentPhases, None
  <2> QED
    BY <1>0, <2>1, <2>2, FS_EmptySet DEF SlotInv
<1>2. Inv /\ [Next]_vars => Inv'
  <2> SUFFICES ASSUME Inv, [Next]_vars PROVE SlotInv'
    BY TypeStep, BridgeStep
  <2>1. ASSUME NEW r \in Runs, Dispatch(r) PROVE SlotInv'
    <3>1. Slots' = Slots \cup {r}
      BY <2>1 DEF Dispatch, Slots, HasDispatcher, TypeOK
    <3>2. Cardinality(Slots) < MaxInflight
      BY <2>1 DEF Dispatch, SlotFree, Slots
    <3>3. Cardinality(Slots) \in Nat
      BY FS_CardinalityType DEF SlotInv
    <3>4. r \notin Slots
      BY <2>1 DEF Dispatch, Slots, HasDispatcher
    <3>5. /\ IsFiniteSet(Slots \cup {r})
          /\ Cardinality(Slots \cup {r}) = Cardinality(Slots) + 1
      BY <3>4, FS_AddElement DEF SlotInv
    <3>6. Cardinality(Slots) + 1 <= MaxInflight
      BY <1>0, <3>2, <3>3
    <3> QED
      BY <3>1, <3>5, <3>6 DEF SlotInv
  <2>2. CASE \A r \in Runs : ~Dispatch(r)
    <3>1. Slots' \subseteq Slots
      BY <2>2, SlotStep
    <3>2. /\ IsFiniteSet(Slots') /\ Cardinality(Slots') <= Cardinality(Slots)
          /\ Cardinality(Slots) \in Nat
      BY <3>1, FS_Subset, FS_CardinalityType DEF SlotInv
    <3>3. Cardinality(Slots') \in Nat
      BY <3>2, FS_CardinalityType
    <3>4. Cardinality(Slots) <= MaxInflight
      BY DEF SlotInv
    <3>5. Cardinality(Slots') <= MaxInflight
      BY <1>0, <3>2, <3>3, <3>4
    <3> QED
      BY <3>2, <3>5 DEF SlotInv
  <2> QED
    BY <2>1, <2>2
<1>3. Inv => InflightBound
  <2> DEFINE Executors == {q \in Runs : Executing(q)}
  <2> SUFFICES ASSUME Inv PROVE Cardinality(Executors) <= MaxInflight
    BY DEF InflightBound
  <2>1. Executors \subseteq Slots
    BY DEF BridgeInv, Executing, Slots
  <2>2. /\ IsFiniteSet(Executors) /\ Cardinality(Executors) <= Cardinality(Slots)
        /\ Cardinality(Slots) \in Nat
    BY <2>1, FS_Subset, FS_CardinalityType DEF SlotInv
  <2>3. Cardinality(Executors) \in Nat
    BY <2>2, FS_CardinalityType
  <2>4. Cardinality(Slots) <= MaxInflight
    BY DEF SlotInv
  <2> QED
    BY <1>0, <2>2, <2>3, <2>4
<1> QED
  BY <1>1, <1>2, <1>3, PTL DEF Spec

-----------------------------------------------------------------------------
(* Who owns a RUNNING row.  A row can lose its owner only by the end of a    *)
(* cell, which closes it, or by the death of the process, after which        *)
(* recovery closes it before anything else happens.                          *)
\* A cell's final run is one whose row is terminal, and a cell that has not
\* reached its bridge has none.
Unstarted == {"none", "created", "locking", "replacing", "gated", "aborted"}
FinalInv  == \A r \in Runs : final[r] # "none" => rows[r] \in Terminal
FreshInv  == \A r \in Runs : phase[r] \in Unstarted \/ agent[r] = "queued"
                             => final[r] = "none"
OwnedInv  == FinalInv /\ FreshInv /\ NoStrayRunning

LEMMA OwnedStep ==
  ASSUME TypeOK, BridgeInv, OwnedInv, [Next]_vars
  PROVE  OwnedInv'
<1> USE OutcomesAssumption
    DEF OwnedInv, FinalInv, FreshInv, NoStrayRunning, Unstarted, HasDispatcher, Executing,
        BridgeInv, TypeOK, Statuses, Terminal, durable, owners, agents, cells, portal, host
<1>1. ASSUME NEW r \in Runs, Submit(r) PROVE OwnedInv'
  <2>1. phase[r] = "none"
    BY <1>1, RunsAssumption DEF Submit
  <2>2. /\ phase' = [phase EXCEPT ![r] = "created"]
        /\ UNCHANGED <<rows, deleted, agent, final, mode>>
    BY <1>1 DEF Submit
  <2>3. FinalInv'
    BY <2>2
  <2>4. FreshInv'
    BY <2>1, <2>2
  <2>5. NoStrayRunning'
    BY <2>1, <2>2
  <2> QED
    BY <2>3, <2>4, <2>5
<1>2. ASSUME NEW r \in Runs, UserCancel(r) PROVE OwnedInv'
  BY <1>2 DEF UserCancel, CancelCell, CancelCellFails, Interrupt, CancelOwner
<1>3. CASE Shutdown
  BY <1>3 DEF Shutdown
<1>4. ASSUME NEW r \in Runs, ShutdownCancel(r) PROVE OwnedInv'
  BY <1>4 DEF ShutdownCancel, CancelCell, CancelCellFails, Interrupt, CancelOwner
<1>5. ASSUME NEW r \in Runs, Deadline(r) PROVE OwnedInv'
  BY <1>5 DEF Deadline, CancelOwner
<1>6. ASSUME NEW r \in Runs, NEW v \in Runs, CancelVictim(r, v) PROVE OwnedInv'
  BY <1>6 DEF CancelVictim, CancelCell, CancelCellFails, Interrupt, CancelOwner
<1>7. ASSUME NEW k \in {"user", "replace", "shutdown"}, NEW r \in Runs, AfterOwner(k, r)
      PROVE  OwnedInv'
  BY <1>7 DEF AfterOwner, OwnerDone, FinishCell, SkippedRow, SettledRun
<1>8. ASSUME NEW r \in Runs, WaitForLock(r) PROVE OwnedInv'
  BY <1>8 DEF WaitForLock
<1>9. ASSUME NEW r \in Runs, Admit(r) PROVE OwnedInv'
  BY <1>9 DEF Admit, FinishCell, SkippedRow, SettledRun
<1>10. ASSUME NEW r \in Runs, Replaced(r) PROVE OwnedInv'
  BY <1>10 DEF Replaced, ReleaseLock
<1>11. ASSUME NEW r \in Runs, Dispatch(r) PROVE OwnedInv'
  BY <1>11 DEF Dispatch
<1>12. ASSUME NEW r \in Runs, OwnerResumes(r) PROVE OwnedInv'
  BY <1>12 DEF OwnerResumes, Interrupt
<1>13. ASSUME NEW r \in Runs, CloseDispatcher(r) PROVE OwnedInv'
  BY <1>13 DEF CloseDispatcher, FinishCell, SkippedRow, SettledRun
<1>14. ASSUME NEW r \in Runs, OwnerUnwinds(r) PROVE OwnedInv'
  BY <1>14 DEF OwnerUnwinds, FinishCell, SkippedRow, SettledRun
<1>15. ASSUME NEW r \in Runs, Published(r) PROVE OwnedInv'
  BY <1>15 DEF Published
<1>16. ASSUME NEW r \in Runs, BridgeSkips(r) PROVE OwnedInv'
  BY <1>16 DEF BridgeSkips, Return
<1>17. ASSUME NEW r \in Runs, BridgeStarts(r) PROVE OwnedInv'
  <2>1. HasDispatcher(r) /\ final[r] = "none" /\ UNCHANGED <<phase, deleted, mode>>
    BY <1>17 DEF BridgeStarts, DurableStart
  <2>2. CASE /\ rows' = [rows EXCEPT ![r] = "running"]
             /\ agent' = [agent EXCEPT ![r] = "starting"]
             /\ final' = final
    BY <2>1, <2>2
  <2>3. CASE /\ rows' = [rows EXCEPT ![r] = "failed"]
             /\ agent' = [agent EXCEPT ![r] = "returned"]
             /\ \E busy \in Busy :
                  final' = [final EXCEPT ![r] = IF busy = "no" THEN "failed" ELSE @]
    BY <2>1, <2>3
  <2> QED
    BY <1>17, <2>2, <2>3 DEF BridgeStarts, DurableStart, Return
<1>18. ASSUME NEW r \in Runs, BridgeRuns(r) PROVE OwnedInv'
  BY <1>18 DEF BridgeRuns, PersistTerminal, Return
<1>19. ASSUME NEW r \in Runs, NEW s \in Outcomes, RunnerEnds(r, s) PROVE OwnedInv'
  BY <1>19 DEF RunnerEnds, Return
<1>20. ASSUME NEW r \in Runs, DeliveryEnds(r) PROVE OwnedInv'
  <2>1. /\ HasDispatcher(r) /\ rows[r] # "absent" /\ proposal[r] \in Terminal
        /\ agent' = [agent EXCEPT ![r] = "returned"]
        /\ UNCHANGED <<phase, deleted, mode>>
    BY <1>20 DEF DeliveryEnds, Return
  <2>2. CASE UNCHANGED <<rows, final>>
    BY <2>1, <2>2
  <2>3. CASE PersistTerminal(r, proposal[r])
    <3>1. \/ /\ rows' = [rows EXCEPT ![r] = proposal[r]]
             /\ final' = final \/ final' = [final EXCEPT ![r] = proposal[r]]
          \/ /\ rows[r] \in Terminal /\ rows' = rows
             /\ final' = final \/ final' = [final EXCEPT ![r] = rows[r]]
          \/ UNCHANGED <<rows, final>>
      BY <2>1, <2>3 DEF PersistTerminal
    <3>2. FinalInv'
      BY <2>1, <3>1
    <3>3. FreshInv'
      BY <2>1, <3>1
    <3>4. NoStrayRunning'
      BY <2>1, <3>1
    <3> QED
      BY <3>2, <3>3, <3>4
  <2> QED
    BY <1>20, <2>2, <2>3 DEF DeliveryEnds
<1>21. CASE PeerStarts
  BY <1>21 DEF PeerStarts, Recovered
<1>22. ASSUME NEW t \in Tasks, DeleteTask(t) PROVE OwnedInv'
  BY <1>22 DEF DeleteTask
<1>23. CASE Crash
  BY <1>23 DEF Crash
<1>24. CASE Boot
  BY <1>24 DEF Boot, Recovered
<1>25. CASE UNCHANGED vars
  BY <1>25 DEF vars
<1> QED
  BY <1>1, <1>2, <1>3, <1>4, <1>5, <1>6, <1>7, <1>8, <1>9, <1>10, <1>11, <1>12, <1>13,
     <1>14, <1>15, <1>16, <1>17, <1>18, <1>19, <1>20, <1>21, <1>22, <1>23, <1>24, <1>25
  DEF Next, Environment, Owner, Bridge, Canceller

\* Recovery, for any number of crashes and with the file lock contended: in a
\* live process a RUNNING row of an existing task has an owner that will close it.
THEOREM RunningHasOwner == Spec => []NoStrayRunning
<1> DEFINE Inv == TypeOK /\ BridgeInv /\ OwnedInv
<1>1. Init => Inv
  BY DEF Init, TypeOK, BridgeInv, OwnedInv, FinalInv, FreshInv, NoStrayRunning,
     HasDispatcher, Executing, Statuses, Phases, AgentPhases, None
<1>2. Inv /\ [Next]_vars => Inv'
  BY TypeStep, BridgeStep, OwnedStep
<1>3. Inv => NoStrayRunning
  BY DEF OwnedInv
<1> QED
  BY <1>1, <1>2, <1>3, PTL DEF Spec

\* A settled cell has its row's status, and is published with it: once its
\* owner is past _finish_cell, nobody writes either of them.
DurableInv ==
  \A r \in Runs :
    /\ final[r] # "none" => rows[r] = final[r]
    /\ results[r] \in Terminal => results[r] = final[r]
    /\ phase[r] \in Live \cup {"none", "failed"} => results[r] \notin Terminal
    /\ phase[r] \in {"publishing", "done"} => final[r] # "none"

LEMMA DurableStep ==
  ASSUME TypeOK, BridgeInv, OwnedInv, DurableInv, [Next]_vars
  PROVE  DurableInv'
<1> USE OutcomesAssumption
    DEF DurableInv, OwnedInv, FinalInv, FreshInv, Unstarted, Live, HasDispatcher, Executing,
        BridgeInv, TypeOK, Statuses, Terminal, durable, owners, agents, cells, portal, host
<1>1. ASSUME NEW r \in Runs, Submit(r) PROVE DurableInv'
  BY <1>1, RunsAssumption DEF Submit
<1>2. ASSUME NEW r \in Runs, UserCancel(r) PROVE DurableInv'
  BY <1>2 DEF UserCancel, CancelCell, CancelCellFails, Interrupt, CancelOwner
<1>3. ASSUME Shutdown PROVE DurableInv'
  BY <1>3 DEF Shutdown
<1>4. ASSUME NEW r \in Runs, ShutdownCancel(r) PROVE DurableInv'
  BY <1>4 DEF ShutdownCancel, CancelCell, CancelCellFails, Interrupt, CancelOwner
<1>5. ASSUME NEW r \in Runs, Deadline(r) PROVE DurableInv'
  BY <1>5 DEF Deadline
<1>6. ASSUME NEW r \in Runs, NEW v \in Runs, CancelVictim(r, v) PROVE DurableInv'
  BY <1>6 DEF CancelVictim, CancelCell, CancelCellFails, Interrupt, CancelOwner
<1>7. ASSUME NEW k \in {"user", "replace", "shutdown"}, NEW r \in Runs, AfterOwner(k, r) PROVE DurableInv'
  BY <1>7 DEF AfterOwner, OwnerDone, FinishCell, SkippedRow, SettledRun
<1>8. ASSUME NEW r \in Runs, WaitForLock(r) PROVE DurableInv'
  BY <1>8 DEF WaitForLock
<1>9. ASSUME NEW r \in Runs, Admit(r) PROVE DurableInv'
  BY <1>9 DEF Admit, FinishCell, SkippedRow, SettledRun
<1>10. ASSUME NEW r \in Runs, Replaced(r) PROVE DurableInv'
  BY <1>10 DEF Replaced, ReleaseLock
<1>11. ASSUME NEW r \in Runs, Dispatch(r) PROVE DurableInv'
  BY <1>11 DEF Dispatch
<1>12. ASSUME NEW r \in Runs, OwnerResumes(r) PROVE DurableInv'
  BY <1>12 DEF OwnerResumes
<1>13. ASSUME NEW r \in Runs, CloseDispatcher(r) PROVE DurableInv'
  BY <1>13 DEF CloseDispatcher, FinishCell, SkippedRow, SettledRun
<1>14. ASSUME NEW r \in Runs, OwnerUnwinds(r) PROVE DurableInv'
  BY <1>14 DEF OwnerUnwinds, FinishCell, SkippedRow, SettledRun
<1>15. ASSUME NEW r \in Runs, Published(r) PROVE DurableInv'
  BY <1>15 DEF Published
<1>16. ASSUME NEW r \in Runs, BridgeSkips(r) PROVE DurableInv'
  BY <1>16 DEF BridgeSkips
<1>17. ASSUME NEW r \in Runs, BridgeStarts(r) PROVE DurableInv'
  <2>1. final[r] = "none" /\ UNCHANGED <<phase, results>>
    BY <1>17 DEF BridgeStarts, DurableStart
  <2>2. CASE rows' = [rows EXCEPT ![r] = "running"] /\ final' = final
    BY <2>1, <2>2
  <2>3. CASE /\ rows' = [rows EXCEPT ![r] = "failed"]
             /\ \E busy \in Busy :
                  final' = [final EXCEPT ![r] = IF busy = "no" THEN "failed" ELSE @]
    BY <2>1, <2>3
  <2> QED
    BY <1>17, <2>2, <2>3 DEF BridgeStarts, DurableStart
<1>18. ASSUME NEW r \in Runs, BridgeRuns(r) PROVE DurableInv'
  BY <1>18 DEF BridgeRuns, PersistTerminal
<1>19. ASSUME NEW r \in Runs, NEW s \in Outcomes, RunnerEnds(r, s) PROVE DurableInv'
  BY <1>19 DEF RunnerEnds
<1>20. ASSUME NEW r \in Runs, DeliveryEnds(r) PROVE DurableInv'
  BY <1>20 DEF DeliveryEnds, PersistTerminal
<1>21. ASSUME PeerStarts PROVE DurableInv'
  BY <1>21 DEF PeerStarts, Recovered
<1>22. ASSUME NEW t \in Tasks, DeleteTask(t) PROVE DurableInv'
  BY <1>22 DEF DeleteTask
<1>23. ASSUME Crash PROVE DurableInv'
  BY <1>23 DEF Crash
<1>24. ASSUME Boot PROVE DurableInv'
  BY <1>24 DEF Boot, Recovered
<1>25. ASSUME UNCHANGED vars PROVE DurableInv'
  BY <1>25 DEF vars
<1> HIDE DEF DurableInv, OwnedInv, BridgeInv, TypeOK
<1> QED
  BY <1>1, <1>2, <1>3, <1>4, <1>5, <1>6, <1>7, <1>8, <1>9, <1>10, <1>11, <1>12, <1>13,
     <1>14, <1>15, <1>16, <1>17, <1>18, <1>19, <1>20, <1>21, <1>22, <1>23, <1>24, <1>25
  DEF Next, Environment, Owner, Bridge, Canceller

\* wait_for_run and cancel_run, with the file lock contended: a status they
\* return is what the run's row says, although a locked write may have failed
\* between the two.
THEOREM ResultStays == Spec => []ResultIsDurable
<1> DEFINE Inv == TypeOK /\ BridgeInv /\ OwnedInv /\ DurableInv
<1>1. Init => Inv
  BY DEF Init, TypeOK, BridgeInv, OwnedInv, FinalInv, FreshInv, NoStrayRunning, DurableInv,
     HasDispatcher, Executing, Statuses, Terminal, Phases, AgentPhases, None
<1>2. Inv /\ [Next]_vars => Inv'
  BY TypeStep, BridgeStep, OwnedStep, DurableStep
<1>3. Inv => ResultIsDurable
  <2> SUFFICES ASSUME DurableInv PROVE ResultIsDurable
    OBVIOUS
  <2> QED BY DEF DurableInv, ResultIsDurable, Terminal
<1> QED
  BY <1>1, <1>2, <1>3, PTL DEF Spec

\* _cancel_cell, for any number of runs and with the file lock contended: when it
\* returns, the run has stopped and its row is closed.
THEOREM CancelReturnsSettled == Spec => CancelSettles
<1> DEFINE Inv == TypeOK /\ BridgeInv /\ OwnedInv /\ DurableInv
<1>1. Init => Inv
  BY DEF Init, TypeOK, BridgeInv, OwnedInv, FinalInv, FreshInv, NoStrayRunning, DurableInv,
     HasDispatcher, Executing, Statuses, Terminal, Phases, AgentPhases, None
<1>2. Inv /\ [Next]_vars => Inv'
  BY TypeStep, BridgeStep, OwnedStep, DurableStep
<1>3. Inv /\ [Next]_vars
      => [\A k \in {"user", "replace"}, r \in Runs :
            /\ <<k, r>> \in waiters /\ <<k, r>> \notin waiters'
            /\ mode' # "down"
            => ~Executing(r)' /\ rows'[r] \in Terminal]_vars
  <2> SUFFICES ASSUME Inv, [Next]_vars, NEW k \in {"user", "replace"}, NEW r \in Runs,
                      <<k, r>> \in waiters, <<k, r>> \notin waiters', mode' # "down"
               PROVE  ~Executing(r)' /\ rows'[r] \in Terminal
    OBVIOUS
  \* only the call itself ends the wait
  <2>1. AfterOwner(k, r)
    <3> USE DEF durable, owners, agents, cells, portal, host
    <3>1. ASSUME NEW q \in Runs, Environment \/ Owner(q) \/ Bridge(q) \/ ShutdownCancel(q)
          PROVE  FALSE
      BY <3>1 DEF Environment, Owner, Bridge, Submit, UserCancel, Shutdown, ShutdownCancel,
         Deadline, CancelVictim, WaitForLock, Admit, Replaced, ReleaseLock, Dispatch,
         OwnerResumes, CloseDispatcher, OwnerUnwinds, Published, BridgeSkips, BridgeStarts,
         DurableStart, BridgeRuns, RunnerEnds, DeliveryEnds, PeerStarts, DeleteTask, Crash, Boot
    <3>2. ASSUME NEW q \in Runs, NEW j \in {"user", "replace", "shutdown"}, AfterOwner(j, q)
          PROVE  j = k /\ q = r
      BY <3>2 DEF AfterOwner
    <3> QED
      BY <3>1, <3>2 DEF Next, Canceller, vars
  <2>2. OwnerDone(r) /\ agent' = agent
    BY <2>1 DEF AfterOwner, agents
  <2>3. ~Executing(r)'
    BY <2>2 DEF OwnerDone, BridgeInv, HasDispatcher, Executing
  <2>4. CASE phase[r] = "done"
    <3>1. rows' = rows /\ final[r] # "none"
      BY <2>1, <2>4 DEF AfterOwner, DurableInv
    <3> QED
      BY <3>1, <2>3 DEF OwnedInv, FinalInv
  <2>5. CASE phase[r] \in {"aborted", "failed"}
    <3>1. rows' \in {[rows EXCEPT ![r] = SkippedRow(r)], [rows EXCEPT ![r] = "cancelled"]}
      BY <2>1, <2>5 DEF AfterOwner, FinishCell
    <3>2. SkippedRow(r) \in Terminal
      BY DEF SkippedRow, OwnedInv, FinalInv, Terminal
    <3>3. rows'[r] \in Terminal
      BY <3>1, <3>2 DEF TypeOK, Terminal
    <3> QED
      BY <3>3, <2>3
  <2> QED
    BY <2>2, <2>3, <2>4, <2>5 DEF OwnerDone
<1> QED
  BY <1>1, <1>2, <1>3, PTL DEF Spec, CancelSettles

\* A reservation's cell stays indexed while it is live: only finished cells are
\* pruned, and a submission for an indexed reservation mints nothing.
RetainedInv == \A r \in Runs : phase[r] \in Live => r \in retained
ReservedInv == RetainedInv /\ OneLiveRunPerReservation

\* Every step but a submission only ends cells, and forgets ended ones.
LiveShrinks == \A r \in Runs : phase'[r] \in Live => phase[r] \in Live /\ r \in retained'

LEMMA ReservedStep ==
  ASSUME TypeOK, ReservedInv, [Next]_vars
  PROVE  ReservedInv'
<1> USE DEF ReservedInv, RetainedInv, LiveShrinks, Live, TypeOK, durable, owners, agents,
            cells, portal, host
<1>1. ASSUME NEW r \in Runs, Submit(r) PROVE ReservedInv'
  <2>1. RetainedInv'
    BY <1>1 DEF Submit
  <2>2. \A q \in Runs \ {r} : phase'[q] \in Live => ReservationOf[q] # ReservationOf[r]
    BY <1>1 DEF Submit
  <2>3. \A q \in Runs \ {r} : phase'[q] = phase[q]
    BY <1>1 DEF Submit
  <2> QED
    BY <2>1, <2>2, <2>3 DEF OneLiveRunPerReservation
<1>2. ASSUME NEW r \in Runs, UserCancel(r) PROVE LiveShrinks
  BY <1>2 DEF UserCancel
<1>3. ASSUME Shutdown PROVE LiveShrinks
  BY <1>3 DEF Shutdown
<1>4. ASSUME NEW r \in Runs, ShutdownCancel(r) PROVE LiveShrinks
  BY <1>4 DEF ShutdownCancel
<1>5. ASSUME NEW r \in Runs, Deadline(r) PROVE LiveShrinks
  BY <1>5 DEF Deadline
<1>6. ASSUME NEW r \in Runs, NEW v \in Runs, CancelVictim(r, v) PROVE LiveShrinks
  BY <1>6 DEF CancelVictim
<1>7. ASSUME NEW k \in {"user", "replace", "shutdown"}, NEW r \in Runs, AfterOwner(k, r)
      PROVE  LiveShrinks
  BY <1>7 DEF AfterOwner, FinishCell
<1>8. ASSUME NEW r \in Runs, WaitForLock(r) PROVE LiveShrinks
  BY <1>8 DEF WaitForLock
<1>9. ASSUME NEW r \in Runs, Admit(r) PROVE LiveShrinks
  BY <1>9 DEF Admit, FinishCell
<1>10. ASSUME NEW r \in Runs, Replaced(r) PROVE LiveShrinks
  BY <1>10 DEF Replaced, ReleaseLock
<1>11. ASSUME NEW r \in Runs, Dispatch(r) PROVE LiveShrinks
  BY <1>11 DEF Dispatch
<1>12. ASSUME NEW r \in Runs, OwnerResumes(r) PROVE LiveShrinks
  BY <1>12 DEF OwnerResumes
<1>13. ASSUME NEW r \in Runs, CloseDispatcher(r) PROVE LiveShrinks
  BY <1>13 DEF CloseDispatcher, FinishCell
<1>14. ASSUME NEW r \in Runs, OwnerUnwinds(r) PROVE LiveShrinks
  BY <1>14 DEF OwnerUnwinds, FinishCell
<1>15. ASSUME NEW r \in Runs, Published(r) PROVE LiveShrinks
  BY <1>15 DEF Published, Pruned
<1>16. ASSUME NEW r \in Runs, BridgeSkips(r) PROVE LiveShrinks
  BY <1>16 DEF BridgeSkips
<1>17. ASSUME NEW r \in Runs, BridgeStarts(r) PROVE LiveShrinks
  BY <1>17 DEF BridgeStarts, DurableStart
<1>18. ASSUME NEW r \in Runs, BridgeRuns(r) PROVE LiveShrinks
  BY <1>18 DEF BridgeRuns
<1>19. ASSUME NEW r \in Runs, NEW s \in Outcomes, RunnerEnds(r, s) PROVE LiveShrinks
  BY <1>19 DEF RunnerEnds
<1>20. ASSUME NEW r \in Runs, DeliveryEnds(r) PROVE LiveShrinks
  BY <1>20 DEF DeliveryEnds
<1>21. ASSUME PeerStarts PROVE LiveShrinks
  BY <1>21 DEF PeerStarts
<1>22. ASSUME NEW t \in Tasks, DeleteTask(t) PROVE LiveShrinks
  BY <1>22 DEF DeleteTask
<1>23. ASSUME Crash PROVE LiveShrinks
  BY <1>23 DEF Crash
<1>24. ASSUME Boot PROVE LiveShrinks
  BY <1>24 DEF Boot
<1>25. ASSUME UNCHANGED vars PROVE LiveShrinks
  BY <1>25 DEF vars
<1>26. LiveShrinks => ReservedInv'
  BY DEF OneLiveRunPerReservation
<1> QED
  BY <1>1, <1>2, <1>3, <1>4, <1>5, <1>6, <1>7, <1>8, <1>9, <1>10, <1>11, <1>12,
     <1>13, <1>14, <1>15, <1>16, <1>17, <1>18, <1>19, <1>20, <1>21, <1>22, <1>23, <1>24,
     <1>25, <1>26
  DEF Next, Environment, Owner, Bridge, Canceller

\* Resubmission, for any retention limit and any number of crashes: a reservation
\* never has two cells that have not finished.
THEOREM OneRunPerReservation == Spec => []OneLiveRunPerReservation
<1> DEFINE Inv == TypeOK /\ BridgeInv /\ ReservedInv
<1>1. Init => Inv
  BY DEF Init, TypeOK, BridgeInv, ReservedInv, RetainedInv, OneLiveRunPerReservation, Live,
     HasDispatcher, Executing, Statuses, Phases, AgentPhases, None
<1>2. Inv /\ [Next]_vars => Inv'
  BY TypeStep, BridgeStep, ReservedStep
<1>3. Inv => OneLiveRunPerReservation
  BY DEF ReservedInv
<1> QED
  BY <1>1, <1>2, <1>3, PTL DEF Spec

-----------------------------------------------------------------------------
(* ScheduledRuns implements RunLedger as long as no other process holds the *)
(* scheduler file lock (with contention it does not: see the violated run   *)
(* runs_contended_terminal).                                                *)

\* A final run is the row; a cell that has executed nothing has no row, and
\* neither has one whose run task returned without a final run.
RowInv ==
  \A r \in Runs :
    /\ final[r] # "none" => rows[r] = final[r]
    /\ phase[r] \in Unstarted \/ agent[r] = "queued" => rows[r] = "absent"
    /\ HasDispatcher(r) /\ agent[r] = "returned" /\ final[r] = "none" => rows[r] = "absent"

\* Whoever has a cancel coming had it requested, and if it executes its row is
\* already closed: a cancel turns RUNNING into CANCELLED before it interrupts.
Doomed(r) == \/ r \in thrown \/ r \in acancel \/ \E q \in Runs : waiting[q] = r
             \/ mode = "closed" /\ phase[r] \in Live /\ r \notin unserved
DoomedInv == \A r \in Runs : Doomed(r) => /\ r \in requested
                                          /\ Executing(r) => final[r] # "none"

\* A cell is published when it ends, with the status of its row.
PublishedInv ==
  \A r \in Runs :
    /\ phase[r] # "failed"
    /\ phase[r] \in Live \cup {"none"} => results[r] = "none"
    /\ results[r] # "none" => results[r] = rows[r] /\ rows[r] \in Terminal

HistoryInv == RowInv /\ DoomedInv /\ PublishedInv

\* HistoryInv is inductive relative to the invariants of the other proofs.
LEMMA HistoryStep ==
  ASSUME ~Contended, TypeOK, BridgeInv, OwnedInv, HistoryInv, [Next]_vars
  PROVE  HistoryInv'
<1> USE OutcomesAssumption
    DEF HistoryInv, RowInv, Doomed, DoomedInv, PublishedInv, OwnedInv, FinalInv, FreshInv,
        Unstarted, Live, HasDispatcher, Executing, BridgeInv, TypeOK, Statuses, Terminal,
        None, Busy, BusyAt, durable, owners, agents, cells, portal, host
<1>1. ASSUME NEW r \in Runs, Submit(r) PROVE HistoryInv'
  <2>1. phase[r] = "none" /\ mode = "open"
    BY <1>1, RunsAssumption DEF Submit
  <2>2. /\ phase' = [phase EXCEPT ![r] = "created"]
        /\ UNCHANGED <<rows, thrown, waiting, agent, acancel, requested, final, results,
                       unserved, mode>>
    BY <1>1 DEF Submit
  <2>3. RowInv'
    BY <2>1, <2>2
  <2>4. DoomedInv'
    BY <2>1, <2>2
  <2>5. PublishedInv'
    BY <2>1, <2>2
  <2> QED
    BY <2>3, <2>4, <2>5
<1>2. ASSUME NEW r \in Runs, UserCancel(r) PROVE HistoryInv'
  BY <1>2 DEF UserCancel, CancelCell, CancelCellFails, Interrupt, CancelOwner, Interrupting
<1>3. CASE Shutdown
  BY <1>3 DEF Shutdown
<1>4. ASSUME NEW r \in Runs, ShutdownCancel(r) PROVE HistoryInv'
  BY <1>4 DEF ShutdownCancel, CancelCell, CancelCellFails, Interrupt, CancelOwner, Interrupting
<1>5. ASSUME NEW r \in Runs, Deadline(r) PROVE HistoryInv'
  BY <1>5 DEF Deadline, CancelOwner, Interrupting
<1>6. ASSUME NEW r \in Runs, NEW v \in Runs, CancelVictim(r, v) PROVE HistoryInv'
  BY <1>6 DEF CancelVictim, CancelCell, CancelCellFails, Interrupt, CancelOwner, Interrupting
<1>7. ASSUME NEW k \in {"user", "replace", "shutdown"}, NEW r \in Runs, AfterOwner(k, r)
      PROVE  HistoryInv'
  <2>1. RowInv'
    BY <1>7 DEF AfterOwner, OwnerDone, FinishCell, SkippedRow, SettledRun
  <2>2. DoomedInv'
    <3>1. /\ thrown' = thrown /\ final' \in [Runs -> Terminal \cup {"none"}]
          /\ \A q \in Runs : final[q] # "none" => final'[q] # "none"
          /\ \A q \in Runs : phase'[q] \in Live => phase[q] \in Live
      BY <1>7 DEF AfterOwner, OwnerDone, FinishCell, SkippedRow, SettledRun
    <3>2. \A p, q \in Runs : waiting'[q] = p => waiting[q] = p
      BY <1>7, RunsAssumption DEF AfterOwner
    <3>3. UNCHANGED <<acancel, agent, requested, mode, unserved>>
      BY <1>7 DEF AfterOwner
    <3> QED
      BY <3>1, <3>2, <3>3
  <2>3. PublishedInv'
    BY <1>7 DEF AfterOwner, OwnerDone, FinishCell, SkippedRow, SettledRun
  <2> QED
    BY <2>1, <2>2, <2>3
<1>8. ASSUME NEW r \in Runs, WaitForLock(r) PROVE HistoryInv'
  BY <1>8 DEF WaitForLock
<1>9. ASSUME NEW r \in Runs, Admit(r) PROVE HistoryInv'
  BY <1>9 DEF Admit, FinishCell, SkippedRow, SettledRun
<1>10. ASSUME NEW r \in Runs, Replaced(r) PROVE HistoryInv'
  BY <1>10 DEF Replaced, ReleaseLock
<1>11. ASSUME NEW r \in Runs, Dispatch(r) PROVE HistoryInv'
  BY <1>11 DEF Dispatch
<1>12. ASSUME NEW r \in Runs, OwnerResumes(r) PROVE HistoryInv'
  BY <1>12 DEF OwnerResumes, Interrupt
<1>13. ASSUME NEW r \in Runs, CloseDispatcher(r) PROVE HistoryInv'
  BY <1>13 DEF CloseDispatcher, FinishCell, SkippedRow, SettledRun
<1>14. ASSUME NEW r \in Runs, OwnerUnwinds(r) PROVE HistoryInv'
  BY <1>14 DEF OwnerUnwinds, FinishCell, SkippedRow, SettledRun
<1>15. ASSUME NEW r \in Runs, Published(r) PROVE HistoryInv'
  BY <1>15 DEF Published
<1>16. ASSUME NEW r \in Runs, BridgeSkips(r) PROVE HistoryInv'
  BY <1>16 DEF BridgeSkips, Return
<1>17. ASSUME NEW r \in Runs, BridgeStarts(r) PROVE HistoryInv'
  <2>1. /\ HasDispatcher(r) /\ r \notin requested /\ rows[r] = "absent"
        /\ final[r] = "none" /\ results[r] = "none"
        /\ UNCHANGED <<phase, thrown, waiting, acancel, requested, results, unserved, mode>>
    BY <1>17 DEF BridgeStarts, DurableStart
  <2>2. \/ /\ rows' = [rows EXCEPT ![r] = "running"]
           /\ agent' = [agent EXCEPT ![r] = "starting"]
           /\ final' = final
        \/ /\ rows' = [rows EXCEPT ![r] = "failed"]
           /\ agent' = [agent EXCEPT ![r] = "returned"]
           /\ final' = [final EXCEPT ![r] = "failed"]
    BY <1>17 DEF BridgeStarts, DurableStart, Return
  <2>3. RowInv'
    BY <2>1, <2>2
  <2>4. DoomedInv'
    BY <2>1, <2>2
  <2>5. PublishedInv'
    BY <2>1, <2>2
  <2> QED
    BY <2>3, <2>4, <2>5
<1>18. ASSUME NEW r \in Runs, BridgeRuns(r) PROVE HistoryInv'
  BY <1>18 DEF BridgeRuns, PersistTerminal, Return
<1>19. ASSUME NEW r \in Runs, NEW s \in Outcomes, RunnerEnds(r, s) PROVE HistoryInv'
  BY <1>19 DEF RunnerEnds, Return
<1>20. ASSUME NEW r \in Runs, DeliveryEnds(r) PROVE HistoryInv'
  BY <1>20 DEF DeliveryEnds, PersistTerminal, Return
<1>21. CASE PeerStarts
  BY <1>21 DEF PeerStarts, Recovered
<1>22. ASSUME NEW t \in Tasks, DeleteTask(t) PROVE HistoryInv'
  BY <1>22 DEF DeleteTask
<1>23. CASE Crash
  <2>1. RowInv'
    BY <1>23 DEF Crash
  <2>2. DoomedInv'
    BY <1>23, RunsAssumption DEF Crash
  <2>3. PublishedInv'
    BY <1>23 DEF Crash
  <2> QED
    BY <2>1, <2>2, <2>3
<1>24. CASE Boot
  BY <1>24 DEF Boot, Recovered
<1>25. CASE UNCHANGED vars
  BY <1>25 DEF vars
<1> HIDE DEF HistoryInv, OwnedInv, BridgeInv, TypeOK
<1> QED
  BY <1>1, <1>2, <1>3, <1>4, <1>5, <1>6, <1>7, <1>8, <1>9, <1>10, <1>11, <1>12,
     <1>13, <1>14, <1>15, <1>16, <1>17, <1>18, <1>19, <1>20, <1>21, <1>22, <1>23, <1>24,
     <1>25
  DEF Next, Environment, Owner, Bridge, Canceller

\* The initial states satisfy all of them.
LEMMA HistoryInit == Init => TypeOK /\ BridgeInv /\ OwnedInv /\ HistoryInv
  BY RunsAssumption
  DEF Init, TypeOK, BridgeInv, OwnedInv, FinalInv, FreshInv, NoStrayRunning, HistoryInv, RowInv,
      Doomed, DoomedInv, PublishedInv, Live, HasDispatcher, Executing, Statuses, Phases,
      AgentPhases, None

\* A skipped run is closed and published at once, any other one is published.
LEMMA FinishStep ==
  ASSUME TypeOK, HistoryInv, NEW r \in Runs, FinishCell(r, "no"),
         results[r] = "none", final[r] = "none" => rows[r] \notin Terminal
  PROVE  Ledger!Next
<1>1. CASE final[r] = "none"
  <2>1. Ledger!ConcludeAndPublish(r, "cancelled")
    BY <1>1 DEF FinishCell, SkippedRow, SettledRun, Ledger!ConcludeAndPublish, Ledger!Open,
       Ledger!Terminal, Terminal
  <2> QED
    BY <2>1 DEF Ledger!Next, Ledger!Terminal
<1>2. CASE final[r] # "none"
  <2>1. Ledger!Publish(r)
    BY <1>2 DEF FinishCell, SkippedRow, SettledRun, HistoryInv, RowInv, TypeOK, Ledger!Publish,
       Ledger!Open, Ledger!Terminal, Terminal
  <2> QED
    BY <2>1 DEF Ledger!Next
<1> QED
  BY <1>1, <1>2

\* A cancel closes a RUNNING row, or leaves the history alone.
LEMMA CancelStep ==
  ASSUME TypeOK, NEW r \in Runs, CancelCell(r), UNCHANGED results
  PROVE  Ledger!Next \/ UNCHANGED <<rows, results>>
<1>1. CASE HasDispatcher(r) /\ rows[r] = "running"
  <2>1. Ledger!Conclude(r, "cancelled")
    BY <1>1 DEF CancelCell, Ledger!Conclude, Ledger!Open, Ledger!Terminal
  <2> QED
    BY <2>1 DEF Ledger!Next, Ledger!Terminal
<1>2. CASE ~(HasDispatcher(r) /\ rows[r] = "running")
  BY <1>2 DEF CancelCell, TypeOK
<1> QED
  BY <1>1, <1>2

\* The compare-and-set of a terminal status closes a RUNNING row or does nothing.
LEMMA PersistStep ==
  ASSUME TypeOK, NEW r \in Runs, NEW s \in Terminal, PersistTerminal(r, s), UNCHANGED results
  PROVE  Ledger!Next \/ UNCHANGED <<rows, results>>
<1>1. CASE rows[r] = "running" /\ rows' = [rows EXCEPT ![r] = s]
  <2>1. Ledger!Conclude(r, s)
    BY <1>1 DEF Ledger!Conclude, Ledger!Open, Ledger!Terminal
  <2> QED
    BY <2>1 DEF Ledger!Next, Ledger!Terminal, Terminal
<1> QED
  BY <1>1 DEF PersistTerminal

\* Recovery abandons RUNNING rows only.
LEMMA RecoverStep ==
  ASSUME TypeOK, rows' = Recovered, UNCHANGED results
  PROVE  Ledger!Next
<1> DEFINE S == {r \in Runs : rows[r] = "running" /\ TaskOf[r] \notin deleted}
<1>1. Ledger!Abandon(S, "abandoned")
  BY DEF Ledger!Abandon, Recovered
<1>2. S \in SUBSET Runs /\ "abandoned" \in Ledger!Terminal
  BY DEF Ledger!Terminal
<1> QED
  BY <1>1, <1>2 DEF Ledger!Next

\* Every step of the manager is a step of the history or leaves it alone.
LEMMA LedgerStep ==
  ASSUME ~Contended, TypeOK, BridgeInv, OwnedInv, HistoryInv, [Next]_vars
  PROVE  Ledger!Next \/ UNCHANGED <<rows, results>>
<1> USE DEF durable, owners, agents, cells, portal, host, Busy, BusyAt
<1>1. ASSUME NEW r \in Runs, Submit(r) PROVE Ledger!Next \/ UNCHANGED <<rows, results>>
  BY <1>1 DEF Submit
<1>2. ASSUME NEW r \in Runs, UserCancel(r) PROVE Ledger!Next \/ UNCHANGED <<rows, results>>
  BY <1>2, CancelStep DEF UserCancel, CancelCellFails
<1>3. ASSUME Shutdown PROVE Ledger!Next \/ UNCHANGED <<rows, results>>
  BY <1>3 DEF Shutdown
<1>4. ASSUME NEW r \in Runs, ShutdownCancel(r)
      PROVE  Ledger!Next \/ UNCHANGED <<rows, results>>
  BY <1>4, CancelStep DEF ShutdownCancel, CancelCellFails
<1>5. ASSUME NEW r \in Runs, Deadline(r) PROVE Ledger!Next \/ UNCHANGED <<rows, results>>
  BY <1>5 DEF Deadline
<1>6. ASSUME NEW r \in Runs, NEW v \in Runs, CancelVictim(r, v)
      PROVE  Ledger!Next \/ UNCHANGED <<rows, results>>
  BY <1>6, CancelStep DEF CancelVictim, CancelCellFails
<1>7. ASSUME NEW k \in {"user", "replace", "shutdown"}, NEW r \in Runs, AfterOwner(k, r)
      PROVE  Ledger!Next \/ UNCHANGED <<rows, results>>
  <2>1. CASE phase[r] = "aborted" /\ FinishCell(r, "no")
    BY <2>1, FinishStep DEF HistoryInv, RowInv, PublishedInv,
       OwnedInv, FreshInv, Unstarted, Live, Terminal
  <2>2. CASE UNCHANGED <<rows, results>>
    BY <2>2
  <2> QED
    BY <1>7, <2>1, <2>2 DEF AfterOwner, HistoryInv, PublishedInv
<1>8. ASSUME NEW r \in Runs, WaitForLock(r)
      PROVE  Ledger!Next \/ UNCHANGED <<rows, results>>
  BY <1>8 DEF WaitForLock
<1>9. ASSUME NEW r \in Runs, Admit(r) PROVE Ledger!Next \/ UNCHANGED <<rows, results>>
  <2>1. CASE FinishCell(r, "no")
    BY <1>9, <2>1, FinishStep DEF Admit, HistoryInv, RowInv, PublishedInv,
       OwnedInv, FreshInv, Unstarted, Live, Terminal
  <2> QED
    BY <1>9, <2>1 DEF Admit
<1>10. ASSUME NEW r \in Runs, Replaced(r) PROVE Ledger!Next \/ UNCHANGED <<rows, results>>
  BY <1>10 DEF Replaced, ReleaseLock
<1>11. ASSUME NEW r \in Runs, Dispatch(r) PROVE Ledger!Next \/ UNCHANGED <<rows, results>>
  BY <1>11 DEF Dispatch
<1>12. ASSUME NEW r \in Runs, OwnerResumes(r)
      PROVE  Ledger!Next \/ UNCHANGED <<rows, results>>
  BY <1>12 DEF OwnerResumes
<1>13. ASSUME NEW r \in Runs, CloseDispatcher(r)
      PROVE  Ledger!Next \/ UNCHANGED <<rows, results>>
  <2>1. FinishCell(r, "no")
    BY <1>13 DEF CloseDispatcher
  <2> QED
    BY <1>13, <2>1, FinishStep DEF CloseDispatcher, HasDispatcher, HistoryInv, RowInv, PublishedInv,
       OwnedInv, FreshInv, Unstarted, Live, Terminal
<1>14. ASSUME NEW r \in Runs, OwnerUnwinds(r)
      PROVE  Ledger!Next \/ UNCHANGED <<rows, results>>
  <2>1. CASE phase[r] \in Unstarted \ {"none"} /\ FinishCell(r, "no")
    BY <2>1, FinishStep DEF HistoryInv, RowInv, PublishedInv,
       OwnedInv, FreshInv, Unstarted, Live, Terminal
  <2> QED
    BY <1>14, <2>1 DEF OwnerUnwinds, Unstarted
<1>15. ASSUME NEW r \in Runs, Published(r) PROVE Ledger!Next \/ UNCHANGED <<rows, results>>
  BY <1>15 DEF Published
<1>16. ASSUME NEW r \in Runs, BridgeSkips(r)
      PROVE  Ledger!Next \/ UNCHANGED <<rows, results>>
  <2>1. Ledger!Conclude(r, "cancelled")
    BY <1>16 DEF BridgeSkips, HistoryInv, RowInv, Ledger!Conclude, Ledger!Open, Ledger!Terminal
  <2> QED
    BY <2>1 DEF Ledger!Next, Ledger!Terminal
<1>17. ASSUME NEW r \in Runs, BridgeStarts(r)
      PROVE  Ledger!Next \/ UNCHANGED <<rows, results>>
  <2>1. Ledger!Begin(r) \/ Ledger!Conclude(r, "failed")
    BY <1>17 DEF BridgeStarts, DurableStart, HistoryInv, RowInv, Ledger!Begin, Ledger!Conclude,
       Ledger!Open, Ledger!Terminal
  <2> QED
    BY <2>1 DEF Ledger!Next, Ledger!Terminal
<1>18. ASSUME NEW r \in Runs, BridgeRuns(r)
      PROVE  Ledger!Next \/ UNCHANGED <<rows, results>>
  BY <1>18, PersistStep DEF BridgeRuns, Terminal
<1>19. ASSUME NEW r \in Runs, NEW s \in Outcomes, RunnerEnds(r, s)
      PROVE  Ledger!Next \/ UNCHANGED <<rows, results>>
  BY <1>19 DEF RunnerEnds
<1>20. ASSUME NEW r \in Runs, DeliveryEnds(r)
      PROVE  Ledger!Next \/ UNCHANGED <<rows, results>>
  <2>1. proposal[r] \in Terminal
    BY <1>20, OutcomesAssumption DEF DeliveryEnds, BridgeInv, TypeOK, Terminal
  <2> QED
    BY <1>20, <2>1, PersistStep DEF DeliveryEnds
<1>21. ASSUME PeerStarts PROVE Ledger!Next \/ UNCHANGED <<rows, results>>
  BY <1>21, RecoverStep DEF PeerStarts
<1>22. ASSUME NEW t \in Tasks, DeleteTask(t)
      PROVE  Ledger!Next \/ UNCHANGED <<rows, results>>
  BY <1>22 DEF DeleteTask
<1>23. ASSUME Crash PROVE Ledger!Next \/ UNCHANGED <<rows, results>>
  BY <1>23 DEF Crash
<1>24. ASSUME Boot PROVE Ledger!Next \/ UNCHANGED <<rows, results>>
  BY <1>24, RecoverStep DEF Boot
<1>25. CASE UNCHANGED vars
  BY <1>25 DEF vars
<1> QED
  BY <1>1, <1>2, <1>3, <1>4, <1>5, <1>6, <1>7, <1>8, <1>9, <1>10, <1>11, <1>12,
     <1>13, <1>14, <1>15, <1>16, <1>17, <1>18, <1>19, <1>20, <1>21, <1>22, <1>23, <1>24,
     <1>25
  DEF Next, Environment, Owner, Bridge, Canceller

\* Store.finish_run_if_running, for the whole manager: with the file lock to
\* itself a process keeps the run history's promises, through any interleaving
\* of completions, cancels, shutdowns, recoveries and crashes.
THEOREM ImplementsLedger == ~Contended => (Spec => LedgerSpec)
<1> SUFFICES ASSUME ~Contended
             PROVE  Spec => LedgerSpec
  OBVIOUS
<1> DEFINE Inv == TypeOK /\ BridgeInv /\ OwnedInv /\ HistoryInv
<1>1. Init => Inv
  BY HistoryInit
<1>2. Inv /\ [Next]_vars => Inv'
  BY TypeStep, BridgeStep, OwnedStep, HistoryStep
<1>3. Init => Ledger!Init
  BY DEF Init, Ledger!Init
<1>4. Inv /\ [Next]_vars => [Ledger!Next]_(Ledger!vars)
  BY LedgerStep DEF Ledger!vars
<1> QED
  BY <1>1, <1>2, <1>3, <1>4, PTL DEF Spec, LedgerSpec, Ledger!Spec

\* The promise that a busy lock breaks (run runs_contended_terminal), kept without
\* one: a terminal row is never replaced.
THEOREM TerminalRowsStay == ~Contended => (Spec => FirstTerminalWins)
<1> SUFFICES ASSUME ~Contended
             PROVE  Spec => FirstTerminalWins
  OBVIOUS
<1> DEFINE Inv == TypeOK /\ BridgeInv /\ OwnedInv /\ HistoryInv
<1>1. Init => Inv
  BY HistoryInit
<1>2. Inv /\ [Next]_vars => Inv'
  BY TypeStep, BridgeStep, OwnedStep, HistoryStep
<1>3. Inv /\ [Next]_vars => [\A r \in Runs : rows[r] \in Terminal => rows'[r] = rows[r]]_vars
  <2> SUFFICES ASSUME Inv, [Next]_vars
               PROVE  \A r \in Runs : rows[r] \in Terminal => rows'[r] = rows[r]
    OBVIOUS
  <2>1. Ledger!Next \/ UNCHANGED <<rows, results>>
    BY LedgerStep
  <2> QED
    BY <2>1 DEF Ledger!Next, Ledger!Begin, Ledger!Conclude, Ledger!Publish,
       Ledger!ConcludeAndPublish, Ledger!Abandon, Ledger!Open, Ledger!Terminal, Terminal, TypeOK
<1> QED
  BY <1>1, <1>2, <1>3, PTL DEF Spec, FirstTerminalWins
=============================================================================
