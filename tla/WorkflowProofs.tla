--------------------------- MODULE WorkflowProofs ---------------------------
(* Attempts of a task exclude one another, results stay with the workflow,    *)
(* and its finalization has the last word: for any number of tasks, retries   *)
(* and mails.                                                                 *)
EXTENDS Workflow, TLAPS

AllEnded == \A t \in Tasks : mapper[t] = "ended"

\* What the coroutines range over.
Shapes ==
  /\ attempt \in [Tasks -> Nat]
  /\ mapper = [t \in Tasks |-> mapper[t]]
  /\ inner = [t \in Tasks |-> inner[t]]
  /\ child = [c \in Attempts |-> child[c]]

\* A mapper and its run_subagent_task.
Mapping ==
  \A t \in Tasks :
    /\ mapper[t] = "queued" => attempt[t] = 0
    /\ mapper[t] = "ended" => inner[t] = None
    /\ inner[t] \in Waiting => mapper[t] = "awaiting"
    /\ inner[t] # None => Current(t) \in Attempts

\* Only a cancel that has struck makes gather raise.
Phases ==
  /\ struck => stop # None
  /\ phase \in {"reducing", "returned"} => ~struck /\ AllEnded
  /\ phase = "raised" => struck
  /\ phase = "over" => struck \/ AllEnded
  /\ phase \in {"mapping", "reducing", "returned", "raised", "over"}
  /\ stop \in Stops \cup {None}

\* A child that runs is that of its task's current attempt, whose
\* run_subagent_task waits for its result or for its end.
Owned ==
  /\ \A c \in Attempts : Alive(c) =>
       c = Current(c[1]) /\ inner[c[1]] \in Waiting \cup {"timing out", "cut"}
  /\ \A t \in Tasks : inner[t] \in {"timing out", "cut"} => child[Current(t)] = "doomed"

Base == Shapes /\ Mapping /\ Phases /\ Owned

LEMMA AttemptPairs ==
  /\ \A c \in Attempts : c[1] \in Tasks
  /\ \A t \in Tasks, n \in Nat : <<t, n>>[1] = t
  /\ \A t \in Tasks, n \in Nat : <<t, n>> \in Attempts <=> n \in 1 .. MaxRetries + 1
  BY DEF Attempts

LEMMA BaseInit == Init => Base
<1> SUFFICES ASSUME Init PROVE Base OBVIOUS
<1> USE DEF Init
<1>1. Shapes BY DEF Shapes
<1>2. Mapping BY DEF Mapping, Waiting, None
<1>3. Phases BY DEF Phases
<1>4. Owned BY AttemptPairs DEF Owned, Alive, None
<1> QED BY <1>1, <1>2, <1>3, <1>4 DEF Base

-----------------------------------------------------------------------------
(* The base, action by action *)

LEMMA BaseAttempt ==
  ASSUME Base, NEW t \in Tasks, NEW results, attempt[t] <= MaxRetries,
         inner[t] \in Done \cup {None}, mapper[t] # "ended",
         Attempt(t, results), UNCHANGED <<phase, stops>>
  PROVE  Base'
<1> DEFINE c == <<t, attempt[t] + 1>>
<1>1. attempt[t] \in Nat /\ c \in Attempts
  BY AttemptPairs, LimitsAssumption DEF Base, Shapes
<1>2. \A d \in Attempts : d[1] = t => ~Alive(d)
  BY DEF Base, Owned, Waiting, Done, None
<1>3. /\ attempt' = [attempt EXCEPT ![t] = @ + 1] /\ Current(t)' = c
      /\ \A s \in Tasks \ {t} : mapper'[s] = mapper[s] /\ inner'[s] = inner[s]
                                /\ Current(s)' = Current(s)
      /\ \A d \in Attempts \ {c} : child'[d] = child[d]
  BY <1>1 DEF Attempt, Base, Shapes, Current
<1>4. Shapes'
  BY <1>1, <1>3 DEF Attempt, Base, Shapes
<1>5. \/ mapper'[t] = "ended" /\ inner'[t] = None /\ child' = child
      \/ mapper'[t] = "awaiting" /\ inner'[t] = "failed" /\ child' = child
      \/ mapper'[t] = "awaiting" /\ inner'[t] = "waiting" /\ child'[c] = "active"
  BY <1>1 DEF Attempt, Base, Shapes
<1>6. Mapping'
  BY <1>1, <1>3, <1>5 DEF Base, Mapping, Waiting, None
<1>7. Phases'
  <2>1. phase \in {"mapping", "raised", "over"} /\ (phase = "over" => struck)
    BY DEF Base, Phases, AllEnded
  <2> QED BY <2>1 DEF Base, Phases, stops
<1>8. Owned'
  <2>1. \A d \in Attempts : d[1] \in Tasks /\ (d[1] = t => d = c \/ ~Alive(d))
    BY <1>2, AttemptPairs
  <2>2. ASSUME NEW d \in Attempts, Alive(d)'
        PROVE  d = Current(d[1])' /\ inner'[d[1]] \in Waiting \cup {"timing out", "cut"}
    <3>1. CASE d = c
      BY <1>1, <1>2, <1>3, <1>5, <2>2, <3>1, AttemptPairs DEF Alive, Waiting
    <3>2. CASE d # c
      <4>1. Alive(d) /\ d[1] \in Tasks \ {t}
        BY <1>3, <2>1, <2>2, <3>2 DEF Alive
      <4>2. d = Current(d[1]) /\ inner[d[1]] \in Waiting \cup {"timing out", "cut"}
        BY <4>1 DEF Base, Owned
      <4> QED BY <1>3, <4>1, <4>2
    <3> QED BY <3>1, <3>2
  <2>3. ASSUME NEW s \in Tasks, inner'[s] \in {"timing out", "cut"}
        PROVE  child'[Current(s)'] = "doomed"
    <3>1. s # t
      BY <1>5, <2>3 DEF None
    <3>2. Current(s) \in Attempts /\ Current(s) # c /\ child[Current(s)] = "doomed"
      BY <1>3, <2>3, <3>1 DEF Base, Mapping, Owned, None, Current
    <3> QED BY <1>3, <3>1, <3>2
  <2> QED BY <2>2, <2>3 DEF Owned
<1> QED BY <1>4, <1>6, <1>7, <1>8 DEF Base

LEMMA BaseStart ==
  ASSUME Base, NEW t \in Tasks, Start(t)
  PROVE  Base'
<1>1. attempt[t] = 0 /\ mapper[t] = "queued"
  BY DEF Base, Mapping, Start
<1>2. Current(t) \notin Attempts
  BY <1>1, AttemptPairs, 0 \in Nat, 0 \notin 1 .. MaxRetries + 1 DEF Current
<1>3. inner[t] = None /\ attempt[t] <= MaxRetries
  BY <1>1, <1>2, LimitsAssumption DEF Base, Mapping
<1> QED BY <1>1, <1>3, BaseAttempt DEF Start

LEMMA BaseResume ==
  ASSUME Base, NEW t \in Tasks, Resume(t)
  PROVE  Base'
<1> DEFINE results == IF inner[t] = "raised" THEN [result EXCEPT ![t] = "failed"] ELSE result
<1>1. CASE inner[t] = "completed" \/ scope[t] = "workflow" \/ LastAttempt(t)
  <2>1. /\ mapper' = [mapper EXCEPT ![t] = "ended"] /\ inner' = [inner EXCEPT ![t] = None]
        /\ inner[t] \in Done /\ UNCHANGED <<attempt, child, phase, stops>>
    BY <1>1 DEF Resume
  <2> USE <2>1 DEF Base
  <2>2. Shapes' BY DEF Shapes
  <2>3. Mapping' BY DEF Shapes, Mapping, Waiting, None, Current
  <2>4. Phases' BY DEF Shapes, Phases, AllEnded, stops
  <2>5. Owned' BY AttemptPairs DEF Shapes, Owned, Alive, Current, Waiting, Done, None
  <2> QED BY <2>2, <2>3, <2>4, <2>5
<1>2. CASE ~(inner[t] = "completed" \/ scope[t] = "workflow" \/ LastAttempt(t))
  <2>1. attempt[t] <= MaxRetries
    BY <1>2, LimitsAssumption DEF LastAttempt, Base, Shapes
  <2>2. Attempt(t, results) /\ UNCHANGED <<phase, stops>> /\ inner[t] \in Done /\ mapper[t] # "ended"
    BY <1>2 DEF Resume
  <2> QED BY <2>1, <2>2, BaseAttempt
<1> QED BY <1>1, <1>2

\* What is put wakes the task whose child has just ended, or nobody.
LEMMA BasePut ==
  ASSUME Base, NEW m \in Mails, Put(m),
         \A c \in Attempts : Alive(c)' <=> Alive(c), \A c \in Attempts : Alive(c) => m # c,
         \A c \in Attempts : child[c] = "doomed" => child'[c] = "doomed",
         child' = [c \in Attempts |-> child'[c]],
         UNCHANGED <<mapper, attempt, phase, stops>>
  PROVE  Base'
<1> DEFINE hit == {t \in Tasks : inner[t] = "waiting" /\ m = Current(t)}
<1>1. /\ inner' = [t \in Tasks |-> inner'[t]]
      /\ \A t \in Tasks : \/ inner'[t] = inner[t]
                          \/ t \in hit /\ inner'[t] \in {"completed", "failed"}
  BY DEF Put, Pump, Base, Shapes
<1>2. Shapes' /\ Phases'
  BY <1>1 DEF Base, Shapes, Phases, AllEnded, stops
<1>3. Mapping'
  BY <1>1 DEF Base, Mapping, Current, Waiting, None
<1>4. Owned'
  <2>1. ASSUME NEW c \in Attempts, Alive(c)' PROVE inner'[c[1]] = inner[c[1]] /\ c[1] \in Tasks
    <3>1. c # m /\ c = Current(c[1]) /\ c[1] \in Tasks
      BY <2>1, AttemptPairs DEF Base, Owned
    <3> QED BY <1>1, <3>1
  <2> QED BY <1>1, <2>1, AttemptPairs DEF Base, Owned, Mapping, Current, None
<1> QED BY <1>2, <1>3, <1>4 DEF Base

LEMMA BaseSend ==
  ASSUME Base, NEW m \in Texts \cup Others, Send(m)
  PROVE  Base'
<1>1. m \in Mails /\ \A c \in Attempts : m # c
  BY MailsAssumption DEF Mails
<1>2. child' = child /\ child = [c \in Attempts |-> child[c]] /\ Put(m)
      /\ UNCHANGED <<mapper, attempt, phase, stops>>
  BY DEF Send, mappers, Base, Shapes
<1> QED BY <1>1, <1>2, BasePut DEF Alive

\* As long as nobody's attempt changes, no child starts and the doomed ones stay so.
LEMMA BaseOwned ==
  ASSUME Base, UNCHANGED <<attempt, inner>>,
         \A c \in Attempts : /\ child'[c] \in {"active", "doomed"} => child[c] \in {"active", "doomed"}
                             /\ child[c] = "doomed" => child'[c] = "doomed"
  PROVE  Owned'
<1>1. \A t \in Tasks : inner[t] \in {"timing out", "cut"} => Current(t) \in Attempts
  BY DEF Base, Mapping, None
<1>2. \A t : Current(t)' = Current(t)
  BY DEF Current
<1> QED BY <1>1, <1>2, AttemptPairs DEF Base, Owned, Alive

LEMMA BaseChild ==
  ASSUME Base, NEW c \in Attempts, ChildReturns(c) \/ ChildMails(c) \/ Cut(c)
  PROVE  Base'
<1> USE DEF Alive
<1>1. CASE ChildReturns(c)
  <2>1. /\ child' = [child EXCEPT ![c] = "returned"] /\ child[c] = "active"
        /\ UNCHANGED <<mapper, attempt, inner, phase, stops>>
    BY <1>1 DEF ChildReturns, mappers
  <2>2. Shapes' /\ Mapping' /\ Phases'
    BY <2>1 DEF Base, Shapes, Mapping, Phases, AllEnded, Current, stops
  <2>3. Owned'
    BY <2>1, BaseOwned DEF Base, Shapes
  <2> QED BY <2>2, <2>3 DEF Base
<1>2. CASE ChildMails(c)
  <2>1. /\ child' = [child EXCEPT ![c] = "over"] /\ child[c] = "returned" /\ Put(c)
        /\ UNCHANGED <<mapper, attempt, phase, stops>> /\ c \in Mails
    BY <1>2 DEF ChildMails, mappers, Mails
  <2>2. /\ \A d \in Attempts : (Alive(d)' <=> Alive(d)) /\ (Alive(d) => c # d)
                               /\ (child[d] = "doomed" => child'[d] = "doomed")
        /\ child' = [d \in Attempts |-> child'[d]]
    BY <2>1 DEF Base, Shapes
  <2> QED BY <2>1, <2>2, BasePut
<1>3. CASE Cut(c)
  <2>1. /\ child' = [d \in Attempts |-> IF d = c THEN "doomed" ELSE child[d]] /\ Alive(c)
        /\ UNCHANGED <<mapper, attempt, inner, phase, stop, struck>>
    BY <1>3 DEF Cut, CancelAgentRun, mappers
  <2>2. Shapes' /\ Mapping' /\ Phases'
    BY <2>1 DEF Base, Shapes, Mapping, Phases, AllEnded, Current
  <2>3. Owned'
    BY <2>1, BaseOwned
  <2> QED BY <2>2, <2>3 DEF Base
<1> QED BY <1>1, <1>2, <1>3

\* A timeout or a cancel dooms the children of the tasks it meets.
LEMMA BaseInner ==
  ASSUME Base, NEW S \in SUBSET Tasks, CancelInner(S), UNCHANGED attempt,
         mapper' = [t \in Tasks |-> mapper'[t]]
  PROVE  /\ Shapes' /\ Owned'
         /\ \A t \in Tasks : inner'[t] = IF t \in S /\ inner[t] \in Waiting
                                         THEN IF Alive(Current(t)) THEN "cut" ELSE "raised"
                                         ELSE inner[t]
<1> DEFINE hit == {t \in S : inner[t] \in Waiting}
           doomed == {Current(t) : t \in hit}
<1>1. /\ inner' = [t \in Tasks |-> IF t \notin hit THEN inner[t]
                                   ELSE IF Alive(Current(t)) THEN "cut" ELSE "raised"]
      /\ child' = [c \in Attempts |-> IF c \in doomed /\ Alive(c) THEN "doomed" ELSE child[c]]
  BY DEF CancelInner, CancelAgentRun, EndAwaited
<1>2. Shapes'
  BY <1>1 DEF Base, Shapes
<1>3. \A t \in Tasks : Current(t)' = Current(t) /\ (inner[t] # None => Current(t) \in Attempts)
  BY DEF Base, Mapping, Current
<1>4. ASSUME NEW c \in Attempts, Alive(c)'
      PROVE  c = Current(c[1])' /\ inner'[c[1]] \in Waiting \cup {"timing out", "cut"}
  <2>1. Alive(c) /\ c[1] \in Tasks
    BY <1>1, <1>4, AttemptPairs DEF Alive
  <2>2. c = Current(c[1]) /\ inner[c[1]] \in Waiting \cup {"timing out", "cut"}
    BY <2>1 DEF Base, Owned
  <2> QED BY <1>1, <1>3, <2>1, <2>2
<1>5. ASSUME NEW t \in Tasks, inner'[t] \in {"timing out", "cut"}
      PROVE  child'[Current(t)'] = "doomed"
  <2>1. CASE t \in hit
    <3>1. Alive(Current(t)) /\ Current(t) \in Attempts
      BY <1>1, <1>3, <1>5, <2>1 DEF Waiting, None
    <3> QED BY <1>1, <1>3, <2>1, <3>1
  <2>2. CASE t \notin hit
    <3>1. child[Current(t)] = "doomed" /\ Current(t) \in Attempts
      BY <1>1, <1>3, <1>5, <2>2 DEF Base, Owned, None
    <3> QED BY <1>1, <1>3, <3>1
  <2> QED BY <2>1, <2>2
<1> QED BY <1>1, <1>2, <1>4, <1>5 DEF Owned

LEMMA BaseOuterTimer ==
  ASSUME Base, NEW t \in Tasks, OuterTimer(t)
  PROVE  Base'
<1>1. /\ mapper[t] = "awaiting" /\ mapper' = [mapper EXCEPT ![t] = "stopping"]
      /\ CancelInner({t}) /\ {t} \in SUBSET Tasks /\ UNCHANGED <<attempt, phase, stops>>
  BY DEF OuterTimer
<1>2. mapper' = [s \in Tasks |-> mapper'[s]]
  BY <1>1 DEF Base, Shapes
<1>3. Shapes' /\ Owned' /\ \A s \in Tasks : inner'[s] = IF s = t /\ inner[s] \in Waiting
                            THEN IF Alive(Current(s)) THEN "cut" ELSE "raised" ELSE inner[s]
  BY <1>1, <1>2, BaseInner
<1>4. Mapping'
  BY <1>1, <1>3 DEF Base, Shapes, Mapping, Current, Waiting, None
<1>5. Phases'
  BY <1>1 DEF Base, Shapes, Phases, AllEnded, stops
<1> QED BY <1>3, <1>4, <1>5 DEF Base

LEMMA BaseStrike ==
  ASSUME Base, Strike
  PROVE  Base'
<1> DEFINE S == {t \in Tasks : mapper[t] = "awaiting"}
<1>1. /\ mapper' = [t \in Tasks |-> AfterCancel(t)] /\ CancelInner(S) /\ S \in SUBSET Tasks
      /\ phase \in {"mapping", "reducing"} /\ phase' \in {"mapping", "raised"}
      /\ stop # None /\ struck' = TRUE /\ UNCHANGED <<attempt, stop>>
  BY DEF Strike
<1>2. Shapes' /\ Owned' /\ \A t \in Tasks : inner'[t] = IF t \in S /\ inner[t] \in Waiting
                            THEN IF Alive(Current(t)) THEN "cut" ELSE "raised" ELSE inner[t]
  BY <1>1, BaseInner
<1>3. \A t \in Tasks : /\ mapper'[t] # "queued"
                       /\ mapper'[t] = "ended" => mapper[t] = "ended"
                       /\ inner'[t] \notin Waiting
  BY <1>1, <1>2 DEF AfterCancel, Base, Mapping, Waiting
<1>4. Mapping'
  BY <1>1, <1>2, <1>3 DEF Base, Mapping, Current, Waiting, None
<1>5. Phases'
  BY <1>1 DEF Base, Phases
<1> QED BY <1>2, <1>4, <1>5 DEF Base

LEMMA BaseInnerTimer ==
  ASSUME Base, NEW t \in Tasks, InnerTimer(t)
  PROVE  Base'
<1> DEFINE c == Current(t)
<1>1. /\ inner[t] \in Waiting /\ c \in Attempts /\ Current(t)' = c
      /\ child' = [d \in Attempts |-> IF d = c /\ Alive(d) THEN "doomed" ELSE child[d]]
      /\ inner' = [inner EXCEPT ![t] = IF Alive(c) THEN "timing out" ELSE "failed"]
      /\ UNCHANGED <<mapper, attempt, phase, stops>>
  BY DEF InnerTimer, CancelAgentRun, EndAwaited, mappers, Base, Mapping, Waiting, None, Current
<1>2. Shapes' /\ Phases'
  BY <1>1 DEF Base, Shapes, Phases, AllEnded, stops
<1>3. Mapping'
  BY <1>1 DEF Base, Shapes, Mapping, Current, Waiting, None
<1>4. \A s \in Tasks : inner'[s] = IF s = t THEN IF Alive(c) THEN "timing out" ELSE "failed"
                                            ELSE inner[s]
  BY <1>1 DEF Base, Shapes
<1>5. ASSUME NEW d \in Attempts, Alive(d)'
      PROVE  d = Current(d[1])' /\ inner'[d[1]] \in Waiting \cup {"timing out", "cut"}
  <2>1. Alive(d) /\ d[1] \in Tasks
    BY <1>1, <1>5, AttemptPairs DEF Alive
  <2>2. d = Current(d[1]) /\ inner[d[1]] \in Waiting \cup {"timing out", "cut"}
    BY <2>1 DEF Base, Owned
  <2>3. Current(d[1])' = Current(d[1])
    BY <1>1 DEF Current
  <2> QED BY <1>4, <2>1, <2>2, <2>3
<1>6. ASSUME NEW s \in Tasks, inner'[s] \in {"timing out", "cut"}
      PROVE  child'[Current(s)'] = "doomed"
  <2>1. CASE s = t
    <3>1. Alive(c)
      BY <1>4, <1>6, <2>1
    <3>2. Current(s)' = c
      BY <1>1, <2>1 DEF Current
    <3> QED BY <1>1, <3>1, <3>2
  <2>2. CASE s # t
    <3>1. child[Current(s)] = "doomed" /\ Current(s) \in Attempts /\ Current(s)' = Current(s)
      <4>1. inner[s] \in {"timing out", "cut"}
        BY <1>4, <1>6, <2>2
      <4>2. child[Current(s)] = "doomed" /\ Current(s) \in Attempts
        BY <4>1 DEF Base, Owned, Mapping, None
      <4> QED BY <1>1, <4>2 DEF Current
    <3> QED BY <1>1, <3>1
  <2> QED BY <2>1, <2>2
<1>7. Owned'
  BY <1>5, <1>6 DEF Owned
<1> QED BY <1>2, <1>3, <1>7 DEF Base

LEMMA BaseChildStops ==
  ASSUME Base, NEW c \in Attempts, ChildStops(c)
  PROVE  Base'
<1> DEFINE t == c[1]
<1>1. /\ t \in Tasks /\ child[c] = "doomed" /\ child' = [child EXCEPT ![c] = "over"]
      /\ c = Current(t) /\ inner[t] \in Waiting \cup {"timing out", "cut"}
      /\ UNCHANGED <<attempt, phase, stop, struck>>
  BY AttemptPairs DEF ChildStops, Base, Owned, Alive
<1>2. /\ \/ inner[t] = "timing out" /\ inner' = [inner EXCEPT ![t] = "failed"]
         \/ inner[t] = "cut" /\ inner' = [inner EXCEPT ![t] = "raised"]
         \/ inner[t] \in Waiting /\ inner' = inner
      /\ mapper' = IF mapper[t] = "cancelling" /\ inner'[t] \in Done
                   THEN [mapper EXCEPT ![t] = "cancelled"] ELSE mapper
  BY <1>1 DEF ChildStops, Waiting
<1>3. Shapes' /\ Phases'
  BY <1>1, <1>2 DEF Base, Shapes, Phases, AllEnded
<1>4. Mapping'
  BY <1>1, <1>2 DEF Base, Shapes, Mapping, Current, Waiting, Done, None
<1>5. Owned'
  <2>1. \A s \in Tasks : /\ Current(s)' = Current(s) /\ (s # t => inner'[s] = inner[s])
                         /\ inner'[t] \notin {"timing out", "cut"}
                         /\ inner[s] # None => Current(s) \in Attempts
    BY <1>1, <1>2 DEF Base, Shapes, Mapping, Current, Waiting
  <2>2. ASSUME NEW s \in Tasks, s # t PROVE Current(s) # c
    <3>1. Current(s)[1] = s
      BY AttemptPairs DEF Current, Base, Shapes
    <3> QED BY <2>2, <3>1
  <2>3. ASSUME NEW d \in Attempts, Alive(d)'
        PROVE  d = Current(d[1])' /\ inner'[d[1]] \in Waiting \cup {"timing out", "cut"}
    <3>1. d # c /\ Alive(d) /\ d[1] \in Tasks
      BY <1>1, <2>3, AttemptPairs DEF Alive, Base, Shapes
    <3>2. d = Current(d[1]) /\ inner[d[1]] \in Waiting \cup {"timing out", "cut"}
      BY <3>1 DEF Base, Owned
    <3> QED BY <1>1, <2>1, <3>1, <3>2
  <2>4. ASSUME NEW s \in Tasks, inner'[s] \in {"timing out", "cut"}
        PROVE  child'[Current(s)'] = "doomed"
    <3>1. s # t /\ inner[s] \in {"timing out", "cut"} /\ Current(s) \in Attempts
      BY <2>1, <2>4 DEF None
    <3> QED BY <1>1, <2>1, <2>2, <3>1 DEF Base, Owned, Shapes
  <2> QED BY <2>3, <2>4 DEF Owned
<1> QED BY <1>3, <1>4, <1>5 DEF Base

LEMMA BaseLeave ==
  ASSUME Base, Leave
  PROVE  Base'
<1>1. /\ inner' = [t \in Tasks |-> IF inner[t] = "waiting" THEN "deaf" ELSE inner[t]]
      /\ phase \in {"returned", "raised"} /\ phase' = "over"
      /\ UNCHANGED <<mapper, attempt, child, stops>>
  BY DEF Leave, mappers
<1>2. Shapes' /\ Mapping'
  BY <1>1 DEF Base, Shapes, Mapping, Current, Waiting, None
<1>3. Phases'
  BY <1>1 DEF Base, Phases, AllEnded, stops
<1>4. Owned'
  <2>1. ASSUME NEW s \in Tasks
        PROVE  inner'[s] = inner[s] \/ (inner[s] = "waiting" /\ inner'[s] = "deaf")
    BY <1>1
  <2>2. \A s : Current(s)' = Current(s)
    BY <1>1 DEF Current
  <2>3. ASSUME NEW c \in Attempts, Alive(c)'
        PROVE  c = Current(c[1])' /\ inner'[c[1]] \in Waiting \cup {"timing out", "cut"}
    <3>1. c[1] \in Tasks /\ c = Current(c[1]) /\ inner[c[1]] \in Waiting \cup {"timing out", "cut"}
      BY <1>1, <2>3, AttemptPairs DEF Base, Owned, Alive
    <3> QED BY <2>1, <2>2, <3>1 DEF Waiting
  <2>4. \A s \in Tasks : inner'[s] \in {"timing out", "cut"} => child'[Current(s)'] = "doomed"
    BY <1>1, <2>1, <2>2 DEF Base, Owned
  <2> QED BY <2>3, <2>4 DEF Owned
<1> QED BY <1>2, <1>3, <1>4 DEF Base

\* The steps that move no coroutine but run_workflow.
LEMMA BaseOther ==
  ASSUME Base, Tick \/ Gathered \/ Reduced \/ GatherRaises \/ (\E s \in Stops : Stop(s))
               \/ (\E m \in Mails : RootTakes(m)) \/ UNCHANGED vars
  PROVE  Base'
<1>1. UNCHANGED <<mapper, attempt, inner, child>>
  BY DEF Tick, Gathered, Reduced, GatherRaises, Stop, RootTakes, vars, mappers
<1>2. Shapes' /\ Mapping' /\ Owned'
  BY <1>1, BaseOwned DEF Base, Shapes, Mapping, Current
<1>3. Phases'
  <2> USE <1>1, StopsAssumption DEF Base, Phases, AllEnded, stops, None
  <2>1. CASE Tick BY <2>1 DEF Tick
  <2>2. CASE Gathered BY <2>2 DEF Gathered
  <2>3. CASE Reduced BY <2>3 DEF Reduced
  <2>4. CASE GatherRaises BY <2>4 DEF GatherRaises
  <2>5. CASE \E s \in Stops : Stop(s) BY <2>5 DEF Stop
  <2>6. CASE \E m \in Mails : RootTakes(m) BY <2>6 DEF RootTakes
  <2>7. CASE UNCHANGED vars BY <2>7 DEF vars
  <2> QED BY <2>1, <2>2, <2>3, <2>4, <2>5, <2>6, <2>7
<1> QED BY <1>2, <1>3 DEF Base

LEMMA BaseNext == Base /\ [Next]_vars => Base'
  BY BaseStart, BaseResume, BaseSend, BaseChild, BaseOuterTimer, BaseStrike, BaseInnerTimer,
     BaseChildStops, BaseLeave, BaseOther DEF Next, Turn

LEMMA BaseAlways == Spec => []Base
  BY BaseInit, BaseNext, PTL DEF Spec

\* No two attempts of a task run at once: a retry, which reuses the child's
\* session_id and result.json, begins when the end of the first child is known.
THEOREM RetriesExclude == Spec => []AttemptsExclude
<1>1. Base => AttemptsExclude
  BY AttemptPairs DEF Base, Owned, AttemptsExclude
<1> QED BY <1>1, BaseAlways, PTL

-----------------------------------------------------------------------------
(* Finalization has the last word *)

\* Once an interrupt has struck nobody waits for a child, and when the workflow
\* is over no mapper is about to go on.
Quiet ==
  struck /\ stop = "interrupt" =>
    \A t \in Tasks :
      /\ inner[t] \notin Waiting \cup {"timing out", "cut"}
      /\ Inactive /\ mapper[t] \in {"awaiting", "stopping"} => inner[t] \notin Done

\* Nobody is left to write a result.
Over == Inactive /\ stop # "cancel"

LEMMA OverIsQuiet ==
  ASSUME Base, Quiet, Over
  PROVE  \A t \in Tasks : /\ inner[t] \notin Waiting \cup {"timing out", "cut"}
                          /\ mapper[t] \in {"awaiting", "stopping"} => inner[t] \notin Done
<1>1. CASE AllEnded
  BY <1>1 DEF Base, Mapping, AllEnded, Waiting, None
<1>2. CASE ~AllEnded
  BY <1>2, StopsAssumption DEF Over, Inactive, Base, Phases, Quiet
<1> QED BY <1>1, <1>2

LEMMA QuietStrike ==
  ASSUME Base, Strike, stop = "interrupt", NEW t \in Tasks
  PROVE  inner'[t] \notin Waiting \cup {"timing out", "cut"} /\ ~Inactive'
<1>1. /\ ~Inactive' /\ UNCHANGED attempt /\ mapper' = [s \in Tasks |-> AfterCancel(s)]
      /\ CancelInner({s \in Tasks : mapper[s] = "awaiting"})
      /\ \A c \in Attempts : ~Alive(c)
  BY DEF Strike, ChildrenCut, Inactive
<1>2. inner[t] # None => ~Alive(Current(t))
  BY <1>1 DEF Base, Mapping
<1>3. inner[t] \notin {"timing out", "cut"}
  BY <1>2 DEF Base, Owned, Alive, None
<1>4. inner'[t] = IF mapper[t] = "awaiting" /\ inner[t] \in Waiting
                  THEN IF Alive(Current(t)) THEN "cut" ELSE "raised" ELSE inner[t]
  BY <1>1, BaseInner
<1> QED BY <1>1, <1>2, <1>3, <1>4 DEF Base, Mapping, Waiting, None

LEMMA QuietNext == Base /\ Quiet /\ [Next]_vars => Quiet'
<1> SUFFICES ASSUME Base, Quiet, [Next]_vars, struck', stop' = "interrupt"
             PROVE  \A t \in Tasks :
                      /\ inner'[t] \notin Waiting \cup {"timing out", "cut"}
                      /\ Inactive' /\ mapper'[t] \in {"awaiting", "stopping"} => inner'[t] \notin Done
  BY DEF Quiet
<1>1. CASE Strike
  BY <1>1, QuietStrike DEF Strike
<1>2. CASE \E s \in Stops : Stop(s)
  BY <1>2 DEF Stop, Base, Phases
<1> SUFFICES ASSUME ~Strike, ~(\E s \in Stops : Stop(s))
             PROVE  \A t \in Tasks :
                      /\ inner'[t] \notin Waiting \cup {"timing out", "cut"}
                      /\ Inactive' /\ mapper'[t] \in {"awaiting", "stopping"} => inner'[t] \notin Done
  BY <1>1, <1>2
<1>3. UNCHANGED <<stop, struck>>
  BY DEF Next, Turn, Start, Resume, InnerTimer, OuterTimer, ChildReturns, ChildMails, ChildStops, Cut,
         RootTakes, Send, Tick, Gathered, Reduced, GatherRaises, Leave, stops, vars
<1>4. \A t \in Tasks :
        /\ inner[t] \notin Waiting \cup {"timing out", "cut"}
        /\ Inactive /\ mapper[t] \in {"awaiting", "stopping"} => inner[t] \notin Done
  BY <1>3 DEF Quiet
<1>5. \A c \in Attempts : ~Alive(c)
  BY <1>4, AttemptPairs DEF Base, Owned
<1>6. ASSUME NEW t \in Tasks, Start(t) \/ Resume(t) PROVE Quiet'
  <2>1. UNCHANGED phase /\ ~Inactive
    BY <1>4, <1>6 DEF Start, Resume, Inactive
  <2>2. /\ \A s \in Tasks \ {t} : inner'[s] = inner[s]
        /\ inner'[t] \in {None, "failed"}
    BY <1>3, <1>6 DEF Start, Resume, Attempt, Base, Shapes
  <2> QED BY <1>4, <2>1, <2>2 DEF Quiet, Inactive, Waiting, None
<1>7. ASSUME NEW m \in Mails, Put(m), UNCHANGED <<mapper, phase>> PROVE Quiet'
  <2>1. \A s \in Tasks : inner'[s] = inner[s]
    BY <1>4, <1>7 DEF Put, Pump, Base, Shapes, Waiting
  <2> QED BY <1>4, <1>7, <2>1 DEF Quiet, Inactive
<1>8. CASE Leave
  <2>1. UNCHANGED mapper /\ \A t \in Tasks : inner'[t] = inner[t]
    BY <1>4, <1>8 DEF Leave, mappers, Waiting
  <2> QED BY <1>4, <1>8, <2>1 DEF Leave, Awake
<1>9. CASE UNCHANGED <<mapper, inner, phase>>
  BY <1>4, <1>9 DEF Inactive
<1>10. CASE UNCHANGED <<mapper, inner>> /\ ~Inactive'
  BY <1>4, <1>10
<1>11. ASSUME NEW t \in Tasks PROVE ~InnerTimer(t) /\ ~OuterTimer(t)
  BY <1>4 DEF InnerTimer, OuterTimer
<1>12. ASSUME NEW c \in Attempts PROVE ~ChildStops(c) /\ ~Cut(c)
  BY <1>5 DEF ChildStops, Cut, Alive
<1>13. ASSUME NEW m \in Texts \cup Others, Send(m) PROVE Quiet'
  BY <1>7, <1>13 DEF Send, mappers, Mails
<1>14. ASSUME NEW c \in Attempts, ChildMails(c) PROVE Quiet'
  BY <1>7, <1>14 DEF ChildMails, mappers, Mails
<1>15. CASE (\E c \in Attempts : ChildReturns(c)) \/ (\E m \in Mails : RootTakes(m)) \/ Tick
            \/ UNCHANGED vars
  BY <1>9, <1>15 DEF ChildReturns, RootTakes, Tick, vars, mappers
<1>16. CASE Gathered \/ Reduced \/ GatherRaises
  BY <1>10, <1>16 DEF Gathered, Reduced, GatherRaises, mappers, Inactive
<1> QED BY <1>3, <1>6, <1>8, <1>11, <1>12, <1>13, <1>14, <1>15, <1>16 DEF Next, Turn, Quiet

LEMMA QuietAlways == Spec => [](Base /\ Quiet)
<1>1. Init => Quiet
  BY DEF Init, Quiet
<1> QED BY <1>1, BaseInit, BaseNext, QuietNext, PTL DEF Spec

LEMMA NothingFinalizedChanges ==
  ASSUME Base, Quiet, [Next]_vars, Over
  PROVE  result' = result
<1>1. /\ Inactive
      /\ \A t \in Tasks : /\ inner[t] \notin Waiting \cup {"timing out", "cut"}
                          /\ mapper[t] \in {"awaiting", "stopping"} => inner[t] \notin Done
  BY OverIsQuiet DEF Over
<1>2. \A c \in Attempts : ~Alive(c)
  BY <1>1, AttemptPairs DEF Base, Owned
<1>3. ASSUME NEW m \in Mails, Put(m) PROVE result' = result
  <2>1. {t \in Tasks : inner[t] = "waiting" /\ m = Current(t)} = {}
    BY <1>1 DEF Waiting
  <2> QED BY <1>3, <2>1 DEF Put, Pump
<1>4. ASSUME NEW t \in Tasks
      PROVE  ~Start(t) /\ ~Resume(t) /\ ~InnerTimer(t) /\ ~OuterTimer(t)
  BY <1>1 DEF Start, Resume, InnerTimer, OuterTimer, Inactive
<1>5. ASSUME NEW c \in Attempts
      PROVE  ~ChildStops(c) /\ (ChildMails(c) => result' = result)
  BY <1>2, <1>3 DEF ChildStops, ChildMails, Mails, Alive
<1>6. ASSUME NEW m \in Texts \cup Others PROVE Send(m) => result' = result
  BY <1>3 DEF Send, Mails
<1>7. ~Leave /\ ~Strike
  BY <1>1 DEF Leave, Strike, Inactive
<1>8. CASE (\E c \in Attempts : ChildReturns(c) \/ Cut(c)) \/ (\E m \in Mails : RootTakes(m)) \/ Tick
           \/ Gathered \/ Reduced \/ GatherRaises \/ (\E s \in Stops : Stop(s)) \/ UNCHANGED vars
  BY <1>8 DEF ChildReturns, Cut, RootTakes, Tick, Gathered, Reduced, GatherRaises, Stop, vars
<1> QED BY <1>4, <1>5, <1>6, <1>7, <1>8 DEF Next, Turn

\* After _finalize_cancelled_workflow, or the end of a workflow that nothing
\* stopped, no result.json of the workflow is written again.
THEOREM FinalizedIsFinal == Spec => FinalizedStays
<1>1. Base /\ Quiet /\ [Next]_vars => [Inactive /\ stop # "cancel" => result' = result]_vars
  BY NothingFinalizedChanges DEF Over
<1> QED BY <1>1, QuietAlways, PTL DEF Spec, FinalizedStays

-----------------------------------------------------------------------------
(* The root does not take the workflow's own results *)

\* While the workflow is active a child's result is awaited or ignored, and the
\* demux keeps it out of what it will give back.
Heard ==
  ~Inactive =>
    /\ \A c \in Attempts :
         /\ child[c] \in {"active", "returned"} /\ c \notin ignored =>
              c = Current(c[1]) /\ inner[c[1]] = "waiting"
         /\ Alive(c) \/ child[c] = "returned" => demux = "on"
    /\ mailbox \cap Attempts = {} /\ cached \cap Attempts = {}

\* A workflow that nothing stopped leaves no child and no result behind.
Clean ==
  Inactive /\ stop = None =>
    mailbox \cap Attempts = {} /\ \A c \in Attempts : child[c] # "returned"

Kept == requeue \subseteq Texts

OwnInv == Heard /\ Clean /\ Kept /\ OwnResultsStay

LEMMA CleanIsStill ==
  ASSUME Base, Clean, Inactive, stop = None
  PROVE  /\ \A t \in Tasks : mapper[t] = "ended" /\ inner[t] = None
         /\ \A c \in Attempts : child[c] \notin {"active", "doomed", "returned"}
<1>1. \A t \in Tasks : mapper[t] = "ended" /\ inner[t] = None
  BY DEF Base, Phases, Mapping, AllEnded, Inactive
<1> QED BY <1>1, AttemptPairs DEF Base, Owned, Clean, Alive, Waiting, None

LEMMA HeardAttempt ==
  ASSUME Base, OwnInv, NEW t \in Tasks, NEW results, attempt[t] <= MaxRetries,
         inner[t] \in Done \cup {None}, mapper[t] # "ended",
         Attempt(t, results), UNCHANGED <<phase, ignored, taken, stop>>
  PROVE  OwnInv'
<1> DEFINE c == <<t, attempt[t] + 1>>
<1>1. attempt[t] \in Nat /\ c \in Attempts /\ c[1] = t
  BY AttemptPairs, LimitsAssumption DEF Base, Shapes
<1>2. /\ Current(t)' = c
      /\ \A s \in Tasks \ {t} : inner'[s] = inner[s] /\ Current(s)' = Current(s)
      /\ \A d \in Attempts \ {c} : child'[d] = child[d]
  BY <1>1 DEF Attempt, Base, Shapes, Current
<1>3. \/ child' = child
      \/ inner'[t] = "waiting" /\ child'[c] = "active" /\ demux' = "on"
  BY <1>1 DEF Attempt, Base, Shapes
<1>4. /\ mailbox' \subseteq mailbox /\ cached' \subseteq cached \cup mailbox
      /\ Kept' /\ (demux = "on" => demux' = "on")
  BY DEF Attempt, OwnInv, Kept
<1>5. Heard'
  <2> SUFFICES ASSUME ~Inactive, NEW d \in Attempts
      PROVE  /\ child'[d] \in {"active", "returned"} /\ d \notin ignored =>
                  d = Current(d[1])' /\ inner'[d[1]] = "waiting"
             /\ Alive(d)' \/ child'[d] = "returned" => demux' = "on"
             /\ mailbox' \cap Attempts = {} /\ cached' \cap Attempts = {}
    BY DEF Heard, Inactive
  <2>1. mailbox' \cap Attempts = {} /\ cached' \cap Attempts = {}
    BY <1>4 DEF OwnInv, Heard
  <2>2. child'[d] = child[d] => (Alive(d)' \/ child'[d] = "returned" => demux' = "on")
    BY <1>4 DEF OwnInv, Heard, Alive
  <2>3. child'[d] = child[d] => (child'[d] \in {"active", "returned"} /\ d \notin ignored =>
                                   d = Current(d[1])' /\ inner'[d[1]] = "waiting")
    <3>1. child[d] \in {"active", "returned"} /\ d \notin ignored =>
            d[1] \in Tasks \ {t} /\ d = Current(d[1]) /\ inner[d[1]] = "waiting"
      BY AttemptPairs DEF OwnInv, Heard, Done, None
    <3> QED BY <1>2, <3>1
  <2>4. CASE child'[d] # child[d]
    BY <1>1, <1>2, <1>3, <2>1, <2>4
  <2> QED BY <2>1, <2>2, <2>3, <2>4
<1>6. Clean'
  BY CleanIsStill DEF OwnInv, Clean, Inactive
<1> QED BY <1>4, <1>5, <1>6 DEF OwnInv, OwnResultsStay

LEMMA HeardStart ==
  ASSUME Base, OwnInv, NEW t \in Tasks, Start(t)
  PROVE  OwnInv'
<1>1. attempt[t] = 0 /\ mapper[t] = "queued"
  BY DEF Base, Mapping, Start
<1>2. Current(t) \notin Attempts
  BY <1>1, AttemptPairs, 0 \in Nat, 0 \notin 1 .. MaxRetries + 1 DEF Current
<1>3. inner[t] = None /\ attempt[t] <= MaxRetries
  BY <1>1, <1>2, LimitsAssumption DEF Base, Mapping
<1> QED BY <1>1, <1>3, HeardAttempt DEF Start, stops

LEMMA HeardResume ==
  ASSUME Base, OwnInv, NEW t \in Tasks, Resume(t)
  PROVE  OwnInv'
<1> DEFINE results == IF inner[t] = "raised" THEN [result EXCEPT ![t] = "failed"] ELSE result
<1>1. CASE inner[t] = "completed" \/ scope[t] = "workflow" \/ LastAttempt(t)
  <2>1. /\ inner' = [inner EXCEPT ![t] = None] /\ inner[t] \in Done
        /\ UNCHANGED <<attempt, child, phase, ignored, mailbox, demux, cached, requeue, taken, stop>>
    BY <1>1 DEF Resume, stops
  <2>2. \A s \in Tasks : inner[s] = "waiting" => inner'[s] = "waiting"
    BY <2>1 DEF Base, Shapes, Done
  <2> QED BY <2>1, <2>2, AttemptPairs
          DEF OwnInv, Heard, Clean, Kept, OwnResultsStay, Inactive, Alive, Current
<1>2. CASE ~(inner[t] = "completed" \/ scope[t] = "workflow" \/ LastAttempt(t))
  <2>1. attempt[t] <= MaxRetries
    BY <1>2, LimitsAssumption DEF LastAttempt, Base, Shapes
  <2>2. /\ Attempt(t, results) /\ UNCHANGED <<phase, ignored, taken, stop>>
        /\ inner[t] \in Done /\ mapper[t] # "ended"
    BY <1>2 DEF Resume, stops
  <2> QED BY <2>1, <2>2, HeardAttempt
<1> QED BY <1>1, <1>2

\* Timeouts and cancels that only make the demux ignore more.
LEMMA HeardIgnored ==
  ASSUME Base, OwnInv,
         NEW C, ignored' = ignored \cup C, cached' = cached \ C,
         \A d \in Attempts : child'[d] = child[d] \/ (Alive(d) /\ child'[d] = "doomed"),
         \A t \in Tasks : inner'[t] = inner[t] \/ Current(t) \in C,
         ~Inactive' \/ phase' = phase,
         ~Inactive, UNCHANGED <<attempt, mailbox, demux, requeue, taken, stop>>
  PROVE  OwnInv'
<1>1. Heard'
  <2>1. \A d \in Attempts : Current(d[1])' = Current(d[1]) /\ d[1] \in Tasks
    BY AttemptPairs DEF Current
  <2>2. ASSUME NEW d \in Attempts, child'[d] \in {"active", "returned"}, d \notin ignored'
        PROVE  d = Current(d[1])' /\ inner'[d[1]] = "waiting"
    <3>1. d = Current(d[1]) /\ inner[d[1]] = "waiting" /\ d \notin C
      BY <2>2 DEF OwnInv, Heard
    <3> QED BY <2>1, <3>1
  <2>3. \A d \in Attempts : Alive(d)' \/ child'[d] = "returned" => demux' = "on"
    BY DEF OwnInv, Heard, Alive
  <2> QED BY <2>2, <2>3 DEF OwnInv, Heard
<1>2. Clean' /\ Kept' /\ OwnResultsStay'
  BY DEF OwnInv, Clean, Kept, OwnResultsStay, Inactive
<1> QED BY <1>1, <1>2 DEF OwnInv

LEMMA HeardTimers ==
  ASSUME Base, OwnInv, Strike \/ \E t \in Tasks : InnerTimer(t) \/ OuterTimer(t)
  PROVE  OwnInv'
<1>1. CASE Inactive
  <2>1. PICK t \in Tasks : InnerTimer(t) \/ OuterTimer(t)
    BY <1>1 DEF Strike, Inactive
  <2>2. stop # None
    BY <2>1, <1>1, CleanIsStill DEF OwnInv, InnerTimer, OuterTimer, Waiting, None
  <2>3. Inactive' /\ UNCHANGED <<stop, taken, requeue>>
    BY <1>1, <2>1 DEF InnerTimer, OuterTimer, Inactive, stops
  <2> QED BY <2>2, <2>3 DEF OwnInv, Heard, Clean, Kept, OwnResultsStay
<1>2. ASSUME ~Inactive, NEW S \in SUBSET Tasks, CancelInner(S), ~Inactive',
             UNCHANGED <<attempt, mailbox, demux, requeue, taken, stop>>
      PROVE  OwnInv'
  <2> DEFINE C == {Current(t) : t \in {u \in S : inner[u] \in Waiting}}
  <2>1. /\ ignored' = ignored \cup C /\ cached' = cached \ C
        /\ \A d \in Attempts : child'[d] = child[d] \/ (Alive(d) /\ child'[d] = "doomed")
        /\ \A t \in Tasks : inner'[t] = inner[t] \/ Current(t) \in C
    BY <1>2 DEF CancelInner, CancelAgentRun, Ignore
  <2> QED BY <1>2, <2>1, HeardIgnored
<1>3. ASSUME ~Inactive, NEW t \in Tasks, InnerTimer(t) PROVE OwnInv'
  <2>1. /\ ignored' = ignored \cup {Current(t)} /\ cached' = cached \ {Current(t)}
        /\ \A d \in Attempts : child'[d] = child[d] \/ (Alive(d) /\ child'[d] = "doomed")
        /\ \A s \in Tasks : inner'[s] = inner[s] \/ Current(s) \in {Current(t)}
        /\ UNCHANGED <<attempt, mailbox, demux, requeue, taken, stop, phase>>
    BY <1>3 DEF InnerTimer, CancelAgentRun, Ignore, mappers, stops, Base, Shapes
  <2> QED BY <1>3, <2>1, HeardIgnored
<1>4. ASSUME ~Inactive, NEW t \in Tasks, OuterTimer(t) PROVE OwnInv'
  <2>1. {t} \in SUBSET Tasks /\ CancelInner({t}) /\ ~Inactive'
        /\ UNCHANGED <<attempt, mailbox, demux, requeue, taken, stop>>
    BY <1>4 DEF OuterTimer, Inactive, stops
  <2> QED BY <1>2, <1>4, <2>1
<1>5. CASE ~Inactive /\ Strike
  <2> DEFINE S == {t \in Tasks : mapper[t] = "awaiting"}
  <2>1. S \in SUBSET Tasks /\ CancelInner(S) /\ ~Inactive'
        /\ UNCHANGED <<attempt, mailbox, demux, requeue, taken, stop>>
    BY <1>5 DEF Strike, Inactive
  <2> QED BY <1>2, <1>5, <2>1
<1> QED BY <1>1, <1>3, <1>4, <1>5

LEMMA HeardSend ==
  ASSUME Base, OwnInv, NEW m \in Texts \cup Others, Send(m)
  PROVE  OwnInv'
<1>1. m \notin Attempts /\ Texts \cap Attempts = {}
  BY MailsAssumption
<1>2. {t \in Tasks : inner[t] = "waiting" /\ m = Current(t)} = {}
  BY <1>1 DEF Base, Mapping, None
<1>3. /\ UNCHANGED <<attempt, child, inner, phase, demux, ignored, taken, stop>> /\ ~Inactive
      /\ mailbox' \subseteq mailbox \cup {m} /\ cached' \subseteq cached \cup {m} /\ Kept'
  BY <1>2 DEF Send, Put, Pump, mappers, stops, OwnInv, Kept
<1>4. Heard'
  BY <1>1, <1>3 DEF OwnInv, Heard, Alive, Current, Inactive
<1>5. Clean' /\ OwnResultsStay'
  BY <1>3 DEF OwnInv, Clean, OwnResultsStay, Inactive
<1> QED BY <1>3, <1>4, <1>5 DEF OwnInv

LEMMA HeardMails ==
  ASSUME Base, OwnInv, NEW c \in Attempts, ChildMails(c)
  PROVE  OwnInv'
<1> DEFINE hit == {t \in Tasks : inner[t] = "waiting" /\ c = Current(t)}
<1>1. /\ child[c] = "returned" /\ child' = [child EXCEPT ![c] = "over"] /\ Put(c)
      /\ UNCHANGED <<attempt, phase, demux, ignored, taken, stop>> /\ c \notin Texts
  BY MailsAssumption DEF ChildMails, mappers, stops
<1>2. CASE Inactive
  <2>1. stop # None /\ Inactive' /\ Kept'
    BY <1>1, <1>2 DEF OwnInv, Clean, Kept, Inactive, Put, Pump
  <2> QED BY <1>1, <2>1 DEF OwnInv, Heard, Clean, OwnResultsStay
<1>3. CASE ~Inactive
  <2>1. demux = "on" /\ Pump(c) /\ UNCHANGED mailbox
    BY <1>1, <1>3 DEF Put, OwnInv, Heard
  <2>2. cached' = cached /\ requeue' = requeue
    <3>1. CASE hit # {}
      BY <2>1, <3>1 DEF Pump
    <3>2. CASE hit = {}
      <4>1. c \in ignored
        BY <1>1, <1>3, <3>2, AttemptPairs DEF OwnInv, Heard
      <4> QED BY <1>1, <2>1, <3>2, <4>1 DEF Pump
    <3> QED BY <3>1, <3>2
  <2>3. \A t \in Tasks : inner'[t] = inner[t] \/ c = Current(t)
    BY <2>1 DEF Pump, Base, Shapes
  <2>4. \A d \in Attempts : child'[d] = IF d = c THEN "over" ELSE child[d]
    BY <1>1 DEF Base, Shapes
  <2>5. ASSUME NEW d \in Attempts, child'[d] \in {"active", "returned"}, d \notin ignored'
        PROVE  d = Current(d[1])' /\ inner'[d[1]] = "waiting"
    <3>1. d # c /\ child[d] \in {"active", "returned"} /\ d \notin ignored /\ d[1] \in Tasks
      BY <1>1, <2>4, <2>5, AttemptPairs
    <3>2. d = Current(d[1]) /\ inner[d[1]] = "waiting"
      BY <1>3, <3>1 DEF OwnInv, Heard
    <3>3. Current(d[1])' = Current(d[1])
      BY <1>1 DEF Current
    <3> QED BY <2>3, <3>1, <3>2, <3>3
  <2>6. \A d \in Attempts : Alive(d)' \/ child'[d] = "returned" => demux' = "on"
    BY <1>1, <2>1
  <2>7. Heard'
    BY <2>1, <2>2, <2>5, <2>6, <1>3 DEF OwnInv, Heard
  <2> QED BY <1>1, <1>3, <2>2, <2>7 DEF OwnInv, Clean, Kept, OwnResultsStay, Inactive
<1> QED BY <1>2, <1>3

LEMMA HeardChild ==
  ASSUME Base, OwnInv, NEW c \in Attempts, ChildReturns(c) \/ ChildStops(c) \/ Cut(c)
  PROVE  OwnInv'
<1>1. /\ UNCHANGED <<attempt, phase, mailbox, demux, cached, requeue, ignored, taken, stop>>
      /\ Alive(c)
  BY DEF ChildReturns, ChildStops, Cut, mappers, demuxes, stops, Alive
<1>2. /\ \A d \in Attempts \ {c} : child'[d] = child[d]
      /\ \/ child'[c] \in {"over", "doomed"}
         \/ child[c] = "active" /\ child'[c] = "returned"
  BY DEF ChildReturns, ChildStops, Cut, CancelAgentRun, Base, Shapes
<1>3. \A t \in Tasks : inner[t] = "waiting" => inner'[t] = "waiting"
  BY DEF ChildReturns, ChildStops, Cut, Base, Shapes
<1>4. Heard'
  <2> SUFFICES ASSUME ~Inactive, NEW d \in Attempts
      PROVE  /\ child'[d] \in {"active", "returned"} /\ d \notin ignored =>
                  d = Current(d[1])' /\ inner'[d[1]] = "waiting"
             /\ Alive(d)' \/ child'[d] = "returned" => demux = "on"
    BY <1>1 DEF OwnInv, Heard, Inactive
  <2>1. Alive(d)' \/ child'[d] = "returned" => Alive(d) \/ child[d] = "returned"
    BY <1>1, <1>2 DEF Alive
  <2>2. child'[d] \in {"active", "returned"} => child[d] \in {"active", "returned"}
    BY <1>2
  <2>3. Current(d[1])' = Current(d[1]) /\ d[1] \in Tasks
    BY <1>1, AttemptPairs DEF Current
  <2> QED BY <1>3, <2>1, <2>2, <2>3 DEF OwnInv, Heard
<1>5. Clean'
  <2>1. ~(Inactive /\ stop = None)
    BY <1>1, CleanIsStill DEF OwnInv, Alive
  <2> QED BY <1>1, <2>1 DEF Clean, Inactive
<1> QED BY <1>1, <1>4, <1>5 DEF OwnInv, Kept, OwnResultsStay

LEMMA HeardLeave ==
  ASSUME Base, OwnInv, Leave
  PROVE  OwnInv'
<1>1. /\ ~Inactive /\ Inactive' /\ mailbox' = mailbox \cup cached \cup requeue /\ requeue' = {}
      /\ UNCHANGED <<child, taken, stop>> /\ \A c \in Attempts : child[c] # "returned"
  BY DEF Leave, Inactive, GivenBack, Awake, stops
<1>2. mailbox' \cap Attempts = {}
  BY <1>1, MailsAssumption DEF OwnInv, Heard, Kept
<1> QED BY <1>1, <1>2 DEF OwnInv, Heard, Clean, Kept, OwnResultsStay

LEMMA HeardTaken ==
  ASSUME Base, OwnInv, NEW m \in Mails, RootTakes(m)
  PROVE  OwnInv'
<1>1. /\ Inactive /\ m \in mailbox /\ mailbox' = mailbox \ {m}
      /\ UNCHANGED <<child, phase, requeue, stop>>
      /\ taken' = IF stop = "interrupt" /\ m \notin Texts THEN taken ELSE taken \cup {m}
  BY DEF RootTakes, demuxes, stops
<1>2. stop # "cancel" => (stop = "interrupt" \/ m \notin Attempts)
  BY <1>1, StopsAssumption DEF Base, Phases, OwnInv, Clean
<1> QED BY <1>1, <1>2, MailsAssumption
        DEF OwnInv, Heard, Clean, Kept, OwnResultsStay, Inactive

LEMMA HeardOther ==
  ASSUME Base, OwnInv, Tick \/ Gathered \/ Reduced \/ GatherRaises \/ (\E s \in Stops : Stop(s))
                       \/ UNCHANGED vars
  PROVE  OwnInv'
<1>1. /\ UNCHANGED <<attempt, inner, child, mailbox, demux, cached, requeue, ignored, taken>>
      /\ phase' = phase \/ (~Inactive /\ ~Inactive')
      /\ stop' = stop \/ (stop = None /\ ~Inactive /\ ~Inactive')
  <2> USE DEF mappers, demuxes, stops, Inactive
  <2>1. CASE Tick \/ UNCHANGED vars BY <2>1 DEF Tick, vars
  <2>2. CASE Gathered BY <2>2 DEF Gathered
  <2>3. CASE Reduced BY <2>3 DEF Reduced
  <2>4. CASE GatherRaises BY <2>4 DEF GatherRaises
  <2>5. CASE \E s \in Stops : Stop(s) BY <2>5 DEF Stop
  <2> QED BY <2>1, <2>2, <2>3, <2>4, <2>5
<1>2. \A t : Current(t)' = Current(t)
  BY <1>1 DEF Current
<1>3. Heard'
  <2>1. ~Inactive' => ~Inactive
    BY <1>1 DEF Inactive
  <2> QED BY <1>1, <1>2, <2>1 DEF OwnInv, Heard, Alive
<1>4. Clean' /\ Kept' /\ OwnResultsStay'
  BY <1>1 DEF OwnInv, Clean, Kept, OwnResultsStay, Inactive, None
<1> QED BY <1>3, <1>4 DEF OwnInv

LEMMA OwnInvNext == Base /\ OwnInv /\ [Next]_vars => OwnInv'
  BY HeardStart, HeardResume, HeardTimers, HeardSend, HeardMails, HeardChild, HeardLeave,
     HeardTaken, HeardOther DEF Next, Turn

\* What the workflow's children answer never becomes a turn of the root, unless
\* cancel_workflow stopped it.
THEOREM OwnResultsAreHeard == Spec => []OwnResultsStay
<1>1. Init => OwnInv
  BY DEF Init, OwnInv, Heard, Clean, Kept, OwnResultsStay, Alive, Inactive, None
<1>2. OwnInv => OwnResultsStay
  BY DEF OwnInv
<1> QED BY <1>1, <1>2, BaseInit, BaseNext, OwnInvNext, PTL DEF Spec

-----------------------------------------------------------------------------
(* Types *)

\* run_subagent_task's last turn, or the next attempt, which is within the limit.
LEMMA TypesAttempt ==
  ASSUME TypeOK, Base, NEW t \in Tasks, attempt[t] <= MaxRetries,
         NEW results \in [Tasks -> {None, "completed", "failed", "cancelled"}],
         Attempt(t, results), UNCHANGED <<phase, late, ignored, sent, taken, stops>>
  PROVE  TypeOK'
<1>1. attempt[t] + 1 \in 0 .. MaxRetries + 1
  BY LimitsAssumption DEF Base, Shapes
<1>2. attempt' \in [Tasks -> 0 .. MaxRetries + 1]
  BY <1>1 DEF Attempt, TypeOK
<1>3. mapper' \in [Tasks -> {"queued", "awaiting", "stopping", "cancelling", "ended", "cancelled"}]
  <2>1. \E v \in {"ended", "awaiting"} : mapper' = [mapper EXCEPT ![t] = v]
    BY DEF Attempt
  <2>2. mapper \in [Tasks -> {"queued", "awaiting", "stopping", "cancelling", "ended", "cancelled"}]
    BY DEF TypeOK
  <2> QED BY <2>1, <2>2
<1>4. scope' \in [Tasks -> {"mapper", "workflow"}]
  <2>1. scope' = scope \/ \E v \in {"mapper", "workflow"} : scope' = [scope EXCEPT ![t] = v]
    BY DEF Attempt
  <2>2. scope \in [Tasks -> {"mapper", "workflow"}]
    BY DEF TypeOK
  <2> QED BY <2>1, <2>2
<1>5. inner' \in [Tasks -> {None, "timing out", "cut"} \cup Waiting \cup Done]
  <2>1. \E v \in {None, "failed", "waiting"} : inner' = [inner EXCEPT ![t] = v]
    BY DEF Attempt
  <2>2. inner \in [Tasks -> {None, "timing out", "cut"} \cup Waiting \cup Done]
    BY DEF TypeOK
  <2> QED BY <2>1, <2>2 DEF Waiting, Done
<1>6. child' \in [Attempts -> {None, "active", "doomed", "returned", "over"}]
  <2>1. child' = child \/ child' = [child EXCEPT ![<<t, attempt[t] + 1>>] = "active"]
    BY DEF Attempt
  <2>2. child \in [Attempts -> {None, "active", "doomed", "returned", "over"}]
    BY DEF TypeOK
  <2> QED BY <2>1, <2>2
<1>7. result' \in [Tasks -> {None, "completed", "failed", "cancelled"}]
  <2>1. result' = results \/ result' = [results EXCEPT ![t] = "failed"]
    BY DEF Attempt
  <2> QED BY <2>1
<1>8. /\ mailbox' \subseteq Mails /\ demux' \in {"on", "off"}
      /\ cached' \subseteq Others \cup Attempts /\ requeue' \subseteq Texts
  <2>1. \/ UNCHANGED <<mailbox, demux, cached, requeue>>
        \/ demux' = "on" /\ UNCHANGED <<mailbox, cached, requeue>>
        \/ /\ mailbox' = {} /\ demux' = "on"
           /\ cached' = mailbox \ Texts /\ requeue' = mailbox \cap Texts
    BY DEF Attempt
  <2>2. /\ mailbox \subseteq Mails /\ demux \in {"on", "off"}
        /\ cached \subseteq Others \cup Attempts /\ requeue \subseteq Texts
    BY DEF TypeOK
  <2> QED BY <2>1, <2>2 DEF Mails
<1> QED BY <1>2, <1>3, <1>4, <1>5, <1>6, <1>7, <1>8 DEF TypeOK, stops

LEMMA TypesResume ==
  ASSUME TypeOK, Base, NEW t \in Tasks, Resume(t)
  PROVE  TypeOK'
<1> DEFINE results == IF inner[t] = "raised" THEN [result EXCEPT ![t] = "failed"] ELSE result
<1>1. results \in [Tasks -> {None, "completed", "failed", "cancelled"}]
  BY DEF TypeOK
<1>2. CASE inner[t] = "completed" \/ scope[t] = "workflow" \/ LastAttempt(t)
  BY <1>1, <1>2 DEF TypeOK, Resume, stops, None
<1>3. CASE ~(inner[t] = "completed" \/ scope[t] = "workflow" \/ LastAttempt(t))
  <2>1. attempt[t] <= MaxRetries
    BY <1>3, LimitsAssumption DEF LastAttempt, Base, Shapes
  <2>2. Attempt(t, results) /\ UNCHANGED <<phase, late, ignored, sent, taken, stops>>
    BY <1>3 DEF Resume
  <2> HIDE DEF results
  <2> QED BY <1>1, <2>1, <2>2, TypesAttempt
<1> QED BY <1>2, <1>3

\* What a mail changes, when it is put.
LEMMA TypesPut ==
  ASSUME TypeOK, NEW m \in Mails, Put(m)
  PROVE  /\ mailbox' \subseteq Mails /\ cached' \subseteq Others \cup Attempts /\ requeue' \subseteq Texts
         /\ inner' \in [Tasks -> {None, "timing out", "cut"} \cup Waiting \cup Done]
         /\ result' \in [Tasks -> {None, "completed", "failed", "cancelled"}]
<1> DEFINE Ins == {None, "timing out", "cut"} \cup Waiting \cup Done
           Results == {None, "completed", "failed", "cancelled"}
           hit == {t \in Tasks : inner[t] = "waiting" /\ m = Current(t)}
<1>0. /\ cached \subseteq Others \cup Attempts /\ requeue \subseteq Texts /\ mailbox \subseteq Mails
      /\ inner \in [Tasks -> Ins] /\ result \in [Tasks -> Results]
  BY DEF TypeOK
<1>1. CASE demux = "on" /\ Pump(m) /\ UNCHANGED mailbox
  <2>1. \A o \in {"completed", "failed"} : o \in Ins /\ o \in Results
    BY DEF Done
  <2>2. inner' \in [Tasks -> Ins] /\ result' \in [Tasks -> Results]
    <3>1. \/ UNCHANGED <<inner, result>>
          \/ \E o \in {"completed", "failed"} :
               /\ inner' = [t \in Tasks |-> IF t \in hit THEN o ELSE inner[t]]
               /\ result' = [t \in Tasks |-> IF t \in hit THEN o ELSE result[t]]
      BY <1>1 DEF Pump
    <3> HIDE DEF Ins, Results, hit
    <3> QED BY <1>0, <2>1, <3>1
  <2>3. cached' \subseteq Others \cup Attempts /\ requeue' \subseteq Texts
    <3>1. \/ UNCHANGED <<cached, requeue>>
          \/ /\ requeue' = IF m \in Texts THEN requeue \cup {m} ELSE requeue
             /\ cached' = IF m \in Texts \cup ignored THEN cached ELSE cached \cup {m}
      BY <1>1 DEF Pump
    <3>2. m \in Texts \/ m \in Others \cup Attempts
      BY DEF Mails
    <3> QED BY <1>0, <3>1, <3>2
  <2> QED BY <1>0, <1>1, <2>2, <2>3
<1>2. CASE demux = "off" /\ mailbox' = mailbox \cup {m}
           /\ UNCHANGED <<cached, requeue, inner, result>>
  BY <1>0, <1>2
<1> QED BY <1>1, <1>2 DEF Put

\* A cancelled run_subagent_task ignores its child, which is an attempt.
LEMMA TypesCancel ==
  ASSUME TypeOK, Base, NEW S \in SUBSET Tasks, CancelInner(S)
  PROVE  /\ ignored' \subseteq Attempts /\ cached' \subseteq Others \cup Attempts
         /\ inner' \in [Tasks -> {None, "timing out", "cut"} \cup Waiting \cup Done]
         /\ child' \in [Attempts -> {None, "active", "doomed", "returned", "over"}]
<1>1. \A t \in S : inner[t] \in Waiting => Current(t) \in Attempts
  BY DEF Base, Mapping, Waiting, None
<1>2. ignored' \subseteq Attempts /\ cached' \subseteq Others \cup Attempts
  BY <1>1 DEF CancelInner, Ignore, TypeOK
<1>3. inner' \in [Tasks -> {None, "timing out", "cut"} \cup Waiting \cup Done]
  BY DEF CancelInner, TypeOK, Done
<1>4. child' \in [Attempts -> {None, "active", "doomed", "returned", "over"}]
  BY DEF CancelInner, CancelAgentRun, TypeOK
<1> QED BY <1>2, <1>3, <1>4

\* Every step keeps the types, given the base: a task is at an attempt the limits
\* allow.
LEMMA TypesNext == Base /\ TypeOK /\ [Next]_vars => TypeOK'
<1> SUFFICES ASSUME Base, TypeOK, [Next]_vars PROVE TypeOK'
  OBVIOUS
<1> USE DEF mappers, demuxes, stops
<1>1. ASSUME NEW t \in Tasks, Start(t) PROVE TypeOK'
  <2>1. attempt[t] <= MaxRetries
    BY <1>1, LimitsAssumption DEF Base, Mapping, Start
  <2> QED BY <1>1, <2>1, TypesAttempt DEF Start, TypeOK
<1>2. ASSUME NEW t \in Tasks, Resume(t) PROVE TypeOK'
  BY <1>2, TypesResume
<1>3. ASSUME NEW t \in Tasks, InnerTimer(t) PROVE TypeOK'
  <2>1. Current(t) \in Attempts
    BY <1>3 DEF InnerTimer, Base, Mapping, Waiting, None
  <2>2. ignored' \subseteq Attempts /\ cached' \subseteq Others \cup Attempts
    BY <1>3, <2>1 DEF InnerTimer, Ignore, TypeOK
  <2>3. /\ inner' \in [Tasks -> {None, "timing out", "cut"} \cup Waiting \cup Done]
        /\ result' \in [Tasks -> {None, "completed", "failed", "cancelled"}]
    BY <1>3 DEF InnerTimer, TypeOK, Done
  <2>4. child' \in [Attempts -> {None, "active", "doomed", "returned", "over"}]
    BY <1>3 DEF InnerTimer, CancelAgentRun, TypeOK
  <2> QED BY <1>3, <2>2, <2>3, <2>4 DEF InnerTimer, TypeOK
<1>4. ASSUME NEW t \in Tasks, OuterTimer(t) PROVE TypeOK'
  <2>1. CancelInner({t}) /\ mapper' = [mapper EXCEPT ![t] = "stopping"]
    BY <1>4 DEF OuterTimer
  <2>2. mapper' \in [Tasks -> {"queued", "awaiting", "stopping", "cancelling", "ended", "cancelled"}]
    BY <2>1 DEF TypeOK
  <2>3. /\ ignored' \subseteq Attempts /\ cached' \subseteq Others \cup Attempts
        /\ inner' \in [Tasks -> {None, "timing out", "cut"} \cup Waiting \cup Done]
        /\ child' \in [Attempts -> {None, "active", "doomed", "returned", "over"}]
    BY <2>1, TypesCancel
  <2> QED BY <1>4, <2>2, <2>3 DEF OuterTimer, TypeOK
<1>5. ASSUME NEW c \in Attempts, ChildReturns(c) PROVE TypeOK'
  BY <1>5 DEF ChildReturns, TypeOK
<1>6. ASSUME NEW c \in Attempts, ChildMails(c) PROVE TypeOK'
  BY <1>6, TypesPut DEF ChildMails, TypeOK, Mails
<1>7. ASSUME NEW c \in Attempts, ChildStops(c) PROVE TypeOK'
  <2>1. /\ inner' \in [Tasks -> {None, "timing out", "cut"} \cup Waiting \cup Done]
        /\ result' \in [Tasks -> {None, "completed", "failed", "cancelled"}]
    <3>1. /\ inner' = inner \/ \E v \in Done : inner' = [inner EXCEPT ![c[1]] = v]
          /\ result' = result \/ result' = [result EXCEPT ![c[1]] = "failed"]
      BY <1>7 DEF ChildStops, Done
    <3>2. /\ inner \in [Tasks -> {None, "timing out", "cut"} \cup Waiting \cup Done]
          /\ result \in [Tasks -> {None, "completed", "failed", "cancelled"}]
      BY DEF TypeOK
    <3> QED BY <3>1, <3>2
  <2>2. mapper' \in [Tasks -> {"queued", "awaiting", "stopping", "cancelling", "ended", "cancelled"}]
    BY <1>7 DEF ChildStops, TypeOK
  <2> QED BY <1>7, <2>1, <2>2 DEF ChildStops, TypeOK
<1>8. ASSUME NEW c \in Attempts, Cut(c) PROVE TypeOK'
  BY <1>8 DEF Cut, CancelAgentRun, TypeOK
<1>9. ASSUME NEW m \in Mails, RootTakes(m) PROVE TypeOK'
  BY <1>9 DEF RootTakes, TypeOK
<1>10. CASE Tick \/ Gathered \/ Reduced \/ GatherRaises
  BY <1>10 DEF Tick, Gathered, Reduced, GatherRaises, TypeOK
<1>11. CASE Leave
  <2>1. mailbox' \subseteq Mails
    BY <1>11 DEF Leave, GivenBack, Mails, TypeOK
  <2>2. /\ inner' \in [Tasks -> {None, "timing out", "cut"} \cup Waiting \cup Done]
        /\ result' \in [Tasks -> {None, "completed", "failed", "cancelled"}]
    BY <1>11 DEF Leave, Finalized, TypeOK, Waiting
  <2> QED BY <1>11, <2>1, <2>2 DEF Leave, TypeOK
<1>12. CASE Strike
  <2>1. mapper' \in [Tasks -> {"queued", "awaiting", "stopping", "cancelling", "ended", "cancelled"}]
    BY <1>12 DEF Strike, AfterCancel, TypeOK
  <2>2. CancelInner({t \in Tasks : mapper[t] = "awaiting"})
    BY <1>12 DEF Strike
  <2> QED BY <1>12, <2>1, <2>2, TypesCancel DEF Strike, TypeOK
<1>13. ASSUME NEW m \in Texts \cup Others, Send(m) PROVE TypeOK'
  BY <1>13, TypesPut DEF Send, TypeOK, Mails
<1>14. ASSUME NEW s \in Stops, Stop(s) PROVE TypeOK'
  BY <1>14 DEF Stop, TypeOK
<1>15. CASE UNCHANGED vars
  BY <1>15 DEF vars, TypeOK
<1> QED BY <1>1, <1>2, <1>3, <1>4, <1>5, <1>6, <1>7, <1>8, <1>9, <1>10, <1>11, <1>12, <1>13,
           <1>14, <1>15 DEF Next, Turn

\* Every variable keeps its type: no mapper begins more attempts than its retries
\* allow, and the demux ignores and caches nothing but results.
THEOREM WorkflowTypes == Spec => []TypeOK
<1>1. Init => TypeOK
  <2> SUFFICES ASSUME Init PROVE TypeOK
    OBVIOUS
  <2>1. 0 \in 0 .. MaxRetries + 1
    BY LimitsAssumption
  <2>2. attempt \in [Tasks -> 0 .. MaxRetries + 1]
    BY <2>1 DEF Init
  <2> QED BY <2>2 DEF Init, TypeOK, None
<1> QED BY <1>1, BaseInit, BaseNext, TypesNext, PTL DEF Spec
=============================================================================
