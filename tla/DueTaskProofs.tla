--------------------------- MODULE DueTaskProofs ---------------------------
(* What the ticker reserves: never a window before its time, a recurring       *)
(* task's windows in order, a manual request once; and what the tool's run_now *)
(* may take ahead of it.  For any tasks, triggers,    *)
(* policies and any horizon.  The proofs rest on what compute_next_run_at       *)
(* returns: the first matching instant after an instant, which exists because   *)
(* every residue recurs within one period.                                     *)
EXTENDS DueTasks, DataLemmas

-----------------------------------------------------------------------------
(* Matching instants *)

LEMMA Remainder ==
  ASSUME NEW p \in Nat \ {0}, NEW q \in Int, NEW a \in 0 .. (p - 1)
  PROVE  (q * p + a) % p = a
<1> DEFINE x == q * p + a
           d == x \div p
           m == x % p
<1>1. x \in Int /\ d \in Int /\ m \in 0 .. (p - 1) /\ x = p * d + m
  OBVIOUS
<1>2. p * (q - d) = m - a
  BY <1>1
<1>3. q - d \in Int /\ (q - d >= 1 => p * (q - d) >= p) /\ (q - d <= -1 => p * (q - d) <= -p)
  OBVIOUS
<1> QED BY <1>1, <1>2, <1>3

\* Every residue is met once in any p instants in a row.
LEMMA EveryResidueIsMet ==
  ASSUME NEW p \in Nat \ {0}, NEW after \in Int, NEW a \in 0 .. (p - 1)
  PROVE  \E m \in (after + 1) .. (after + p) : m % p = a
<1> DEFINE q == after \div p
           r == after % p
<1>1. q \in Int /\ r \in 0 .. (p - 1) /\ after = q * p + r
  OBVIOUS
<1>2. CASE r < a
  <2>1. q * p + a \in (after + 1) .. (after + p)
    BY <1>1, <1>2
  <2> QED BY <1>1, <2>1, Remainder
<1>3. CASE r >= a
  <2> DEFINE s == q + 1
  <2>1. s \in Int /\ s * p = q * p + p
    BY <1>1
  <2>2. s * p + a \in (after + 1) .. (after + p)
    BY <1>1, <1>3, <2>1
  <2> HIDE DEF s
  <2> QED BY <1>1, <2>1, <2>2, Remainder
<1> QED BY <1>1, <1>2, <1>3

\* croniter.get_next: a match, within one period, the first one after the instant.
LEMMA NextMatchIsFirst ==
  ASSUME NEW g, Recurs(g), g.type = "cron", NEW after \in Int
  PROVE  LET m == NextMatch(g, after)
         IN  /\ m \in (after + 1) .. (after + g.period)
             /\ m % g.period \in g.at
             /\ \A k \in (after + 1) .. (m - 1) : k % g.period \notin g.at
<1> DEFINE p == g.period
           Steps == {k \in 1 .. p : (after + k) % p \in g.at}
           First(m) == /\ m % p \in g.at
                       /\ \A k \in (after + 1) .. (m - 1) : k % p \notin g.at
<1>1. p \in Nat \ {0} /\ g.at # {} /\ g.at \subseteq 0 .. (p - 1)
  BY DEF Recurs
<1>2. Steps \subseteq Nat /\ Steps # {}
  <2>1. PICK a \in g.at : TRUE
    BY <1>1
  <2>2. PICK m \in (after + 1) .. (after + p) : m % p = a
    <3> HIDE DEF p
    <3> QED BY <1>1, <2>1, EveryResidueIsMet
  <2>3. m - after \in 1 .. p /\ after + (m - after) = m
    BY <1>1, <2>2
  <2>4. m - after \in Steps
    BY <2>1, <2>2, <2>3
  <2> QED BY <2>4, <1>1
<1>3. PICK n \in Steps : \A k \in Steps : n <= k
  <2> HIDE DEF Steps
  <2> QED BY <1>2, LeastNat
<1>4. after + n \in (after + 1) .. (after + p) /\ (after + n) % p \in g.at
  BY <1>1
<1>5. ASSUME NEW k \in (after + 1) .. (after + n - 1) PROVE k % p \notin g.at
  <2>1. k - after \in 1 .. p /\ after + (k - after) = k /\ k - after < n
    BY <1>1, <1>5
  <2> QED BY <2>1, <1>3
<1>6. First(after + n)
  BY <1>4, <1>5
<1>7. NextMatch(g, after) = CHOOSE m \in (after + 1) .. (after + p) : First(m)
  BY DEF NextMatch
<1> HIDE DEF First
<1>8. NextMatch(g, after) \in (after + 1) .. (after + p) /\ First(NextMatch(g, after))
  BY <1>4, <1>6, <1>7
<1> QED BY <1>8 DEF First

\* compute_next_run_at never returns the instant it is given, nor an earlier one.
LEMMA NextRunIsLater ==
  ASSUME NEW g, Recurs(g), NEW after \in Int
  PROVE  NextRun(g, after) \in Int /\ NextRun(g, after) > after
<1>1. g.period \in Nat \ {0}
  BY DEF Recurs
<1>2. CASE g.type = "every"
  BY <1>1, <1>2 DEF NextRun
<1>3. CASE g.type = "cron"
  <2>1. NextMatch(g, after) \in (after + 1) .. (after + g.period)
    BY <1>3, NextMatchIsFirst
  <2> QED BY <1>1, <1>3, <2>1 DEF NextRun
<1> QED BY <1>2, <1>3 DEF Recurs

-----------------------------------------------------------------------------
(* Cursors *)

\* What the clock is to the cursors: nothing was asked for or reserved in the
\* future, and a recurring task has a cursor, past what it has been served.
Cursors ==
  \A t \in Tasks :
    /\ manual[t] <= now
    /\ served[t] <= now
    /\ life[t] = "new" => served[t] = None
    /\ ~OneShot(t) /\ next[t] # None => served[t] < next[t]
    /\ ~OneShot(t) /\ Exists(t) => next[t] # None

Inv == TypeOK /\ Cursors /\ NoEarlyFire

LEMMA TriggerTypes ==
  /\ \A g \in Triggers : g.type # "once" => Recurs(g)
  /\ \A g \in Triggers : g.type = "once" => g.at # {} /\ g.at \subseteq Nat
  BY DueTasksAssumption DEF Recurs

\* compute_first_run_at: a recurring task's first window is in the future.
LEMMA FirstRunIs ==
  ASSUME NEW g \in Triggers, NEW at \in Nat
  PROVE  /\ FirstRun(g, at) \in Nat
         /\ g.type # "once" => FirstRun(g, at) > at
<1>1. CASE g.type = "once"
  BY <1>1, TriggerTypes DEF FirstRun
<1>2. CASE g.type # "once"
  BY <1>2, TriggerTypes, NextRunIsLater DEF FirstRun
<1> QED BY <1>1, <1>2

\* reserve_due_tasks leaves the cursor of the task it serves in the future.
LEMMA AdvancedIsLater ==
  ASSUME TypeOK, NEW t \in Tasks, RecurringDue(t)
  PROVE  Advanced(t) \in Nat /\ Advanced(t) > now
<1>1. Recurs(trigger[t]) /\ next[t] \in Nat /\ now \in Nat
  BY TriggerTypes DEF TypeOK, RecurringDue, Due, OneShot, Instants
<1>2. NextRun(trigger[t], now) \in Int /\ NextRun(trigger[t], now) > now
  BY <1>1, NextRunIsLater
<1>3. NextRun(trigger[t], next[t]) \in Int
  BY <1>1, NextRunIsLater
<1> QED BY <1>1, <1>2, <1>3 DEF Advanced

\* A pass hands out at most one reservation for a task, of a window that has
\* come and that, for a recurring task, follows what it was served.
LEMMA HandedIs ==
  ASSUME TypeOK, Cursors, NEW t \in Tasks, NEW r \in Handed(t)
  PROVE  /\ r \in Reservations /\ r.task = t /\ r.window <= now
         /\ Handed(t) = {r} /\ r.kind # "tool"
         /\ r.kind = "manual" <=> ManualDue(t)
         /\ Formal(r) /\ ~OneShot(t) => r.window > served[t] /\ RecurringDue(t)
<1>1. now \in Nat /\ next[t] \in Nat \cup {None} /\ manual[t] \in Nat \cup {None}
      /\ served[t] \in Nat \cup {None} /\ manual[t] <= now
      /\ (~OneShot(t) /\ next[t] # None => served[t] < next[t])
  BY DEF TypeOK, Cursors, Instants
<1>2. CASE ManualDue(t)
  <2>1. r = Reservation(t, manual[t], "manual") /\ Handed(t) = {r}
    BY <1>2 DEF Handed
  <2> QED BY <1>1, <1>2, <2>1 DEF ManualDue, Reservation, Reservations, Kinds, Formal
<1>3. CASE ~ManualDue(t) /\ (OneShotDue(t) \/ (RecurringDue(t) /\ ~Stale(t)))
  <2>1. r = Reservation(t, next[t], "due") /\ Handed(t) = {r}
    BY <1>3 DEF Handed
  <2> QED BY <1>1, <1>3, <2>1
          DEF OneShotDue, RecurringDue, Due, Reservation, Reservations, Kinds, Formal
<1>4. CASE ~ManualDue(t) /\ ~OneShotDue(t) /\ ~(RecurringDue(t) /\ ~Stale(t))
  <2>1. RecurringDue(t) /\ misfire[t] # "skip"
    BY <1>4 DEF Handed
  <2>2. next[t] \in Nat /\ next[t] <= now /\ ~ManualDue(t)
    BY <1>1, <2>1 DEF RecurringDue, Due
  <2>3. CASE r = Reservation(t, next[t], "late") /\ Handed(t) = {r}
    BY <1>1, <2>1, <2>2, <2>3 DEF Reservation, Reservations, Kinds, Formal, None
  <2>4. CASE r = Reservation(t, now, "now") /\ Handed(t) = {r}
    BY <1>1, <2>1, <2>2, <2>4 DEF Reservation, Reservations, Kinds, Formal, None
  <2> QED BY <1>4, <2>1, <2>3, <2>4 DEF Handed
<1> QED BY <1>2, <1>3, <1>4

LEMMA InvInit == Init => Inv
<1> SUFFICES ASSUME Init PROVE Inv
  OBVIOUS
<1> USE DEF Init, None
<1>1. TypeOK
  BY DueTasksAssumption DEF TypeOK, Lifecycles, Instants
<1>2. Cursors
  BY DEF Cursors, Exists
<1>3. NoEarlyFire
  BY DEF NoEarlyFire
<1> QED BY <1>1, <1>2, <1>3 DEF Inv

LEMMA TickStep == Inv /\ Tick => Inv'
<1> SUFFICES ASSUME Inv, Tick PROVE Inv'
  OBVIOUS
<1> USE DEF Inv, None
<1>1. \A t \in Tasks : \A r \in Handed(t) :
        /\ r \in Reservations /\ r.window <= now /\ r.kind # "tool"
        /\ (CHOOSE s \in Handed(t) : TRUE) = r
  BY HandedIs
<1>2. ASSUME NEW t \in Tasks
      PROVE  next'[t] \in Instants /\ (RecurringDue(t) => next'[t] > now)
  BY <1>2, AdvancedIsLater DEF Tick, TypeOK, Instants, RecurringDue, OneShotDue
<1>3. ASSUME NEW t \in Tasks
      PROVE  served'[t] \in Instants /\ served'[t] <= now
             /\ (served'[t] # served[t] => OneShot(t) \/ RecurringDue(t))
             /\ (served'[t] # served[t] => life[t] # "new")
  <2>1. CASE \E r \in Handed(t) : r.kind # "manual"
    <3>1. PICK r \in Handed(t) : r.kind # "manual"
      BY <2>1
    <3>2. served'[t] = r.window /\ r.window \in Nat /\ r.window <= now /\ Formal(r)
      BY <1>1, <2>1, <3>1 DEF Tick, Reservations, Kinds, Formal
    <3>3. OneShot(t) \/ RecurringDue(t)
      BY <3>1, <3>2, HandedIs
    <3>4. life[t] # "new"
      BY <3>1, HandedIs DEF Handed, OneShotDue, RecurringDue, Due
    <3> QED BY <3>2, <3>3, <3>4 DEF Instants
  <2>2. CASE ~\E r \in Handed(t) : r.kind # "manual"
    BY <2>2 DEF Tick, TypeOK, Cursors
  <2> QED BY <2>1, <2>2
<1>4. TypeOK'
  <2>1. out' \subseteq Reservations
    BY <1>1 DEF Tick, TypeOK
  <2>2. next' \in [Tasks -> Instants] /\ served' \in [Tasks -> Instants]
    BY <1>2, <1>3 DEF Tick
  <2>3. life' \in [Tasks -> Lifecycles] /\ manual' \in [Tasks -> Instants]
        /\ given' \in [Tasks -> Nat]
    BY DEF Tick, TypeOK, RequestAfter, Lifecycles, Instants
  <2> QED BY <2>1, <2>2, <2>3 DEF Tick, TypeOK
<1>5. Cursors'
  <2> SUFFICES ASSUME NEW t \in Tasks
               PROVE  /\ manual'[t] <= now /\ served'[t] <= now
                      /\ life'[t] = "new" => served'[t] = None
                      /\ ~OneShot(t) /\ next'[t] # None => served'[t] < next'[t]
                      /\ ~OneShot(t) /\ Exists(t)' => next'[t] # None
    BY DEF Cursors, Tick, OneShot
  <2>1. now \in Nat /\ manual'[t] <= now
    BY DEF Tick, TypeOK, Cursors, RequestAfter
  <2>2. life'[t] = "new" => served'[t] = None
    BY <1>3 DEF Tick, TypeOK, Cursors
  <2>3. ASSUME ~OneShot(t), next'[t] # None PROVE served'[t] < next'[t]
    <3>1. CASE RecurringDue(t)
      BY <1>2, <1>3, <2>1, <3>1 DEF Instants
    <3>2. CASE ~RecurringDue(t)
      BY <1>3, <2>3, <3>2 DEF Tick, OneShotDue, Cursors
    <3> QED BY <3>1, <3>2
  <2>4. ~OneShot(t) /\ Exists(t)' => next'[t] # None
    BY <1>2, <2>1 DEF Tick, Exists, OneShotDue, Cursors
  <2> QED BY <1>3, <2>1, <2>2, <2>3, <2>4
<1>6. NoEarlyFire'
  BY <1>1 DEF Tick, NoEarlyFire
<1> QED BY <1>4, <1>5, <1>6

\* The actions that give a task a cursor take it from compute_first_run_at at
\* an instant no earlier than any window it has been served.
LEMMA CursorSteps ==
  ASSUME Inv, NEW t \in Tasks,
         \/ \E g \in Triggers : WebCreate(t, g) \/ ToolCreate(t, g)
         \/ WebResume(t)
         \/ \E g \in Triggers \cup {Keep},
               l \in {"keep", "scheduled", "paused", "disabled"} : Update(t, g, l)
  PROVE  Inv'
<1> USE DEF Inv, None, tasks, history
<1>1. ASSUME NEW g \in Triggers, WebCreate(t, g) \/ ToolCreate(t, g) PROVE Inv'
  <2>1. PICK since \in Nat : since <= now /\ Created(t, g, since)
    BY <1>1 DEF WebCreate, ToolCreate, Since, TypeOK
  <2>2. FirstRun(g, since) \in Nat /\ (g.type # "once" => FirstRun(g, since) > since)
    BY FirstRunIs
  <2>3. TypeOK'
    BY <2>1, <2>2 DEF Created, TypeOK, Lifecycles, Instants
  <2>4. Cursors'
    BY <2>1, <2>2 DEF Created, TypeOK, Cursors, OneShot, Exists
  <2>5. NoEarlyFire'
    BY <2>1 DEF Created, NoEarlyFire
  <2> QED BY <2>3, <2>4, <2>5
<1>2. CASE WebResume(t)
  <2>1. /\ FirstRun(trigger[t], now) \in Nat
        /\ trigger[t].type # "once" => FirstRun(trigger[t], now) > now
    BY FirstRunIs DEF TypeOK
  <2>2. TypeOK'
    BY <1>2, <2>1 DEF WebResume, TypeOK, Lifecycles, Instants
  <2>3. Cursors'
    <3>1. /\ UNCHANGED <<manual, served, now, trigger>> /\ life'[t] # "new" /\ Exists(t)
          /\ next'[t] = FirstRun(trigger[t], now)
          /\ \A u \in Tasks \ {t} : life'[u] = life[u] /\ next'[u] = next[u]
      BY <1>2 DEF WebResume, TypeOK
    <3>2. served[t] <= now /\ served[t] \in Int /\ now \in Nat
      BY DEF Cursors, TypeOK, Instants
    <3> QED BY <2>1, <3>1, <3>2 DEF Cursors, OneShot, Exists
  <2>4. NoEarlyFire'
    BY <1>2 DEF WebResume, NoEarlyFire
  <2> QED BY <2>2, <2>3, <2>4
<1>3. ASSUME NEW g \in Triggers \cup {Keep},
             NEW l \in {"keep", "scheduled", "paused", "disabled"}, Update(t, g, l)
      PROVE  Inv'
  <2>1. g # Keep => /\ g \in Triggers /\ FirstRun(g, now) \in Nat
                    /\ g.type # "once" => FirstRun(g, now) > now
    BY FirstRunIs DEF TypeOK
  <2>2. TypeOK'
    BY <1>3, <2>1 DEF Update, TypeOK, Lifecycles, Instants
  <2>3. /\ manual' = manual /\ served' = served /\ now' = now
        /\ life'[t] # "new"
        /\ \A u \in Tasks \ {t} :
             life'[u] = life[u] /\ trigger'[u] = trigger[u] /\ next'[u] = next[u]
    BY <1>3 DEF Update, Exists, TypeOK
  <2>4. trigger'[t].type # "once" /\ next'[t] # None => served[t] < next'[t]
    <3>1. CASE g = Keep
      BY <1>3, <3>1 DEF Update, OneShot, Cursors, TypeOK
    <3>2. CASE g # Keep
      BY <1>3, <2>1, <3>2 DEF Update, OneShot, Cursors, TypeOK, Instants
    <3> QED BY <3>1, <3>2
  <2>7. trigger'[t].type # "once" => next'[t] # None
    BY <1>3, <2>1 DEF Update, OneShot, Cursors, TypeOK
  <2>5. Cursors'
    BY <2>3, <2>4, <2>7 DEF Cursors, OneShot, Exists
  <2>6. NoEarlyFire'
    BY <1>3 DEF Update, NoEarlyFire
  <2> QED BY <2>2, <2>5, <2>6
<1> QED BY <1>1, <1>2, <1>3

LEMMA InvStep == Inv /\ [Next]_vars => Inv'
<1> SUFFICES ASSUME Inv, [Next]_vars PROVE Inv'
  OBVIOUS
<1> USE DEF Inv, None, tasks, history
<1>1. CASE Tick
  BY <1>1, TickStep
<1>2. ASSUME NEW t \in Tasks,
             \/ \E g \in Triggers : WebCreate(t, g) \/ ToolCreate(t, g)
             \/ WebResume(t)
             \/ \E g \in Triggers \cup {Keep},
                   l \in {"keep", "scheduled", "paused", "disabled"} : Update(t, g, l)
      PROVE  Inv'
  BY <1>2, CursorSteps
<1>3. ASSUME NEW t \in Tasks, Pause(t) \/ ToolResume(t) \/ Delete(t) PROVE Inv'
  <2>1. /\ UNCHANGED <<now, up, misfire, trigger, next, manual, last, out, live, history>>
        /\ life' \in [Tasks -> Lifecycles]
        /\ \A u \in Tasks : life'[u] = life[u] \/ life'[u] # "new"
        /\ \A u \in Tasks : Exists(u)' => Exists(u)
    BY <1>3 DEF Pause, ToolResume, Delete, Exists, TypeOK, Lifecycles
  <2> QED BY <2>1 DEF TypeOK, Cursors, NoEarlyFire, OneShot
<1>4. ASSUME NEW t \in Tasks, RunNow(t) PROVE Inv'
  BY <1>4 DEF RunNow, TypeOK, Cursors, NoEarlyFire, OneShot, Exists, Instants
<1>9. ASSUME NEW t \in Tasks, ToolRunNow(t) PROVE Inv'
  <2>1. Reservation(t, ToolWindow(t), "tool") \in Reservations
    BY DEF ToolWindow, Reservation, Reservations, Kinds, TypeOK, Instants
  <2>2. TypeOK'
    BY <1>9, <2>1 DEF ToolRunNow, TypeOK
  <2>3. Cursors'
    BY <1>9 DEF ToolRunNow, Cursors, OneShot, Exists
  <2>4. NoEarlyFire'
    BY <1>9 DEF ToolRunNow, NoEarlyFire, Reservation
  <2> QED BY <2>2, <2>3, <2>4
<1>5. ASSUME NEW r \in out, Submit(r) PROVE Inv'
  BY <1>5 DEF Submit, TypeOK, Cursors, NoEarlyFire, OneShot, Exists, Reservations
<1>6. ASSUME NEW t \in live, RunEnds(t) PROVE Inv'
  BY <1>6 DEF RunEnds, TypeOK, Cursors, NoEarlyFire, OneShot, Exists
<1>7. CASE Advance
  BY <1>7 DEF Advance, TypeOK, Cursors, NoEarlyFire, OneShot, Exists, Instants, Reservations
<1>8. CASE Crash \/ Boot \/ UNCHANGED vars
  BY <1>8 DEF Crash, Boot, vars, TypeOK, Cursors, NoEarlyFire, OneShot, Exists
<1> QED BY <1>1, <1>2, <1>3, <1>4, <1>5, <1>6, <1>7, <1>8, <1>9 DEF Next

\* The task file and the ticker hold what their types say: next_run_at is an
\* instant or None after every handler and every tick.
THEOREM TaskFileTypes == Spec => []TypeOK
<1>1. Inv => TypeOK
  BY DEF Inv
<1> QED BY <1>1, InvInit, InvStep, PTL DEF Spec

\* Whatever reserve_due_tasks hands out has come, although reservations of the
\* tool's run_now, of windows yet to come, are on their way beside them.
THEOREM NothingFiresEarly == Spec => []NoEarlyFire
<1>1. Inv => NoEarlyFire
  BY DEF Inv
<1> QED BY <1>1, InvInit, InvStep, PTL DEF Spec

\* The ticker reserves the formal windows of a recurring task in strictly
\* increasing order, across late ticks, misfire policies, edits, manual runs and
\* crashes, and the tool's run_now takes none of those that were reserved.
THEOREM WindowsAreInOrder == Spec => WindowsInOrder
<1> DEFINE Order == \A r \in out' \ out :
                      (Formal(r) \/ r.kind = "tool") /\ ~OneShot(r.task)
                      => r.window > served[r.task]
<1>1. Inv /\ [Next]_vars => [Order]_vars
  <2> SUFFICES ASSUME Inv, Next PROVE Order
    BY DEF vars, tasks, history, Order
  <2>1. CASE Tick
    <3>1. \A t \in Tasks : \A r \in Handed(t) :
            r.task = t /\ (Formal(r) /\ ~OneShot(t) => r.window > served[t])
      BY HandedIs DEF Inv
    <3>2. \A t \in Tasks : \A r \in Handed(t) : r.kind # "tool"
      BY DEF Handed, Reservation
    <3> QED BY <2>1, <3>1, <3>2 DEF Tick
  <2>3. ASSUME NEW t \in Tasks, ToolRunNow(t) PROVE Order
    <3>1. ~OneShot(t) => ToolWindow(t) = next[t] /\ next[t] > served[t]
      BY <2>3 DEF ToolRunNow, ToolWindow, Inv, Cursors, TypeOK, Instants, None
    <3>2. \A r \in out' \ out : r.task = t /\ r.window = ToolWindow(t)
      BY <2>3 DEF ToolRunNow, Reservation
    <3> QED BY <3>1, <3>2
  <2>2. CASE ~Tick /\ ~\E t \in Tasks : ToolRunNow(t)
    <3>1. out' \subseteq out
      BY <2>2 DEF Next, Advance, Crash, Boot, Submit, RunEnds, Pause, WebResume, ToolResume,
                  Delete, RunNow, WebCreate, ToolCreate, Created, Update
    <3> QED BY <3>1
  <2> QED BY <2>1, <2>2, <2>3
<1> QED BY <1>1, InvInit, InvStep, PTL DEF Spec, WindowsInOrder

\* A tick that consumes a window leaves the cursor in the future, however late
\* the tick is, and no later than the schedule's next instant: for a cron
\* expression no match between now and the new cursor is passed over.
MovesOn ==
  [][Tick => \A t \in Tasks : RecurringDue(t) =>
       /\ next'[t] > now
       /\ trigger[t].type = "cron" =>
            \A k \in (now + 1) .. (next'[t] - 1) : k % trigger[t].period \notin trigger[t].at]_vars

\* The new cursor is the match after the consumed window or after now.
LEMMA AdvancedIsFirst ==
  ASSUME TypeOK, NEW t \in Tasks, RecurringDue(t), trigger[t].type = "cron",
         NEW k \in (now + 1) .. (Advanced(t) - 1)
  PROVE  k % trigger[t].period \notin trigger[t].at
<1>1. Recurs(trigger[t]) /\ next[t] \in Nat /\ next[t] <= now /\ now \in Nat
  BY TriggerTypes DEF TypeOK, RecurringDue, Due, OneShot, Instants
<1>2. \A after \in Int : /\ NextRun(trigger[t], after) \in Int
                         /\ \A m \in (after + 1) .. (NextRun(trigger[t], after) - 1) :
                              m % trigger[t].period \notin trigger[t].at
  <2>1. \A after \in Int : NextRun(trigger[t], after) = NextMatch(trigger[t], after)
    BY DEF NextRun
  <2> QED BY <1>1, <2>1, NextMatchIsFirst, NextRunIsLater
<1>3. \/ k \in (now + 1) .. (NextRun(trigger[t], now) - 1)
      \/ k \in (next[t] + 1) .. (NextRun(trigger[t], next[t]) - 1)
  BY <1>1, <1>2 DEF Advanced
<1> QED BY <1>1, <1>2, <1>3

\* reserve_due_tasks: one tick, however late, consumes a recurring task's backlog.
THEOREM TicksMoveOn == Spec => MovesOn
<1> DEFINE Moves == Tick => \A t \in Tasks : RecurringDue(t) =>
                      /\ next'[t] > now
                      /\ trigger[t].type = "cron" =>
                           \A k \in (now + 1) .. (next'[t] - 1) :
                             k % trigger[t].period \notin trigger[t].at
<1>1. Inv /\ [Next]_vars => [Moves]_vars
  <2> SUFFICES ASSUME Inv, Tick PROVE Moves
    BY DEF Moves
  <2>1. \A t \in Tasks : RecurringDue(t) => next'[t] = Advanced(t)
    BY DEF Tick, RecurringDue, OneShotDue
  <2> QED BY <2>1, AdvancedIsLater, AdvancedIsFirst DEF Inv, Moves
<1> QED BY <1>1, InvInit, InvStep, PTL DEF Spec, MovesOn

\* claim_manual_run takes the request it hands out, and only an accepted
\* request is pending.
LEMMA ManualInit == Init => ManualOnce
  BY DEF Init, ManualOnce, None

LEMMA ManualStep == Inv /\ ManualOnce /\ [Next]_vars => ManualOnce'
<1> SUFFICES ASSUME Inv, ManualOnce, [Next]_vars PROVE ManualOnce'
  OBVIOUS
<1> USE DEF Inv, TypeOK, ManualOnce, None, Instants
<1>1. CASE Tick
  BY <1>1 DEF Tick, RequestAfter, ManualDue
<1>2. ASSUME NEW t \in Tasks, RunNow(t) PROVE ManualOnce'
  BY <1>2 DEF RunNow
<1>3. CASE ~Tick /\ ~\E t \in Tasks : RunNow(t)
  <2>1. UNCHANGED <<manual, asked, given>>
    BY <1>3 DEF Next, Advance, Crash, Boot, Submit, RunEnds, Pause, WebResume, ToolResume,
                Delete, ToolRunNow, WebCreate, ToolCreate, Created, Update, vars, tasks, history
  <2> QED BY <2>1
<1> QED BY <1>1, <1>2, <1>3

\* Every manual run accepted by run_now_cron_task is pending or was reserved
\* once.
THEOREM ManualRequestsAreKept == Spec => []ManualOnce
  BY InvInit, InvStep, ManualInit, ManualStep, PTL DEF Spec
=============================================================================
