------------------------- MODULE AgentSessionProofs -------------------------
(***************************************************************************)
(* Proofs about AgentSession, for any texts, children and controllers: no   *)
(* run goes on in a closed tree, and a reset that follows an interrupt      *)
(* leaves neither loop nor run behind.                                      *)
(***************************************************************************)
EXTENDS AgentSession, DataLemmas

\* The part of TypeOK the proofs need.
Types ==
  /\ loop \in [Agents -> {None, "idle", "busy", "ended"}] /\ seed \subseteq Kids
  /\ run \in [Agents -> {None, "active", "returned", "cancelled"}]
  /\ doomed \subseteq Agents
  /\ record \in [Agents -> {None, "pending", "running", "over"}]
  /\ booted \in BOOLEAN /\ closed \in BOOLEAN /\ tree \subseteq Kids /\ shut \in BOOLEAN
  /\ phase \in [Controllers -> {"free", "cutting", "draining", "resetting", "tearing"}]
  /\ op \in [Controllers -> AllOps \cup {None}]
  /\ todo \in [Controllers -> SUBSET Agents]
  /\ awaiting \in [Controllers -> Agents \cup {None}]

\* A run that goes on undisturbed is one the registry holds.
RunInv == \A a \in Agents : run[a] = "active" /\ a \notin doomed => record[a] = "running"

\* A loop with a run awaits it.
LoopInv == \A a \in Agents : run[a] # None => loop[a] = "busy"

\* Without a manager there is no root loop and no tree.
BootInv == ~booted => loop[Root] = None /\ tree = {}

\* In a closed tree every record that is not over is still to be cut.
CutInv ==
  closed => \A a \in Agents : InTree(a) /\ Live(a)
              => \E c \in Controllers : phase[c] = "cutting" /\ a \in todo[c]

\* An operation under way that will drop the manager.
Resetting(c) == phase[c] # "free" /\ op[c] \in Resets

\* Whoever tears down has a manager.  Unless it drains, whoever resets finds its
\* registry closed, or the manager dropped beside a close: then no text boots
\* another one.
HostInv ==
  \A c \in Controllers :
    /\ phase[c] # "free" => op[c] \in Ops[c]
    /\ phase[c] \in {"draining", "resetting", "tearing"} => op[c] \in Resets
    /\ phase[c] = "tearing" => booted
    /\ Resetting(c) /\ op[c] = "close" => shut
    /\ Resetting(c) /\ op[c] # "drain" => IF booted THEN closed ELSE shut

\* The agents whose loops a teardown is sure to stop: all of a closed tree, but
\* of a tree that was only drained just the root.
Caught(c) == {a \in Agents : op[c] # "drain" \/ a = Root}

\* Every live loop of a tree that is torn down is still to be stopped or awaited.
TearInv ==
  \A c \in Controllers : phase[c] = "tearing" =>
    \A a \in Caught(c) : InTree(a) /\ loop[a] \in {"idle", "busy"}
                         => a \in todo[c] \/ awaiting[c] = a

\* The invariant: inductive as a whole, each part needing some of the others.
SessionInv == Types /\ RunInv /\ LoopInv /\ BootInv /\ CutInv /\ HostInv /\ TearInv

\* The types are preserved.
LEMMA TypesStep ==
  ASSUME Types, [Next]_vars
  PROVE  Types'
<1>. USE AgentsAssumption DEF AgentsAssumption, Types, Agents, AllOps, Resets, Root, None
<1>1. ASSUME NEW t \in Texts, RunText(t) PROVE Types'
  BY <1>1 DEF RunText, hosts, actors, trees, ctls
<1>2. ASSUME RootTakes PROVE Types'
  BY <1>2 DEF RootTakes, Start, Refused, InTree, Stale, hosts, actors, trees, ctls
<1>3. ASSUME RootResumes PROVE Types'
  BY <1>3 DEF RootResumes, Popped, Waiting, hosts, actors, trees, ctls
<1>4. ASSUME NEW k \in Kids, KidTakes(k) PROVE Types'
  BY <1>4 DEF KidTakes, Start, Refused, InTree, hosts, actors, trees, ctls
<1>5. ASSUME NEW k \in Kids, KidResumes(k) PROVE Types'
  BY <1>5 DEF KidResumes, Leaves, hosts, actors, trees, ctls
<1>6. ASSUME NEW a \in Agents, RunEnds(a) PROVE Types'
  BY <1>6 DEF RunEnds, Released, hosts, actors, trees, ctls
<1>7. ASSUME NEW k \in Kids, Spawn(k) PROVE Types'
  BY <1>7 DEF Spawn, Refused, InTree, hosts, actors, trees, ctls
<1>8. ASSUME NEW c \in Controllers, NEW o \in AllOps, Interrupt(c, o) PROVE Types'
  BY <1>8 DEF Interrupt, Begin, hosts, actors, trees, ctls
<1>9. ASSUME NEW c \in Controllers, CancelChild(c) PROVE Types'
  BY <1>9 DEF CancelChild, Begin, hosts, actors, trees, ctls
<1>10. ASSUME NEW c \in Controllers, Drain(c) PROVE Types'
  BY <1>10 DEF Drain, Begin, hosts, actors, trees, ctls
<1>11. ASSUME NEW c \in Controllers, Reset(c) PROVE Types'
  BY <1>11 DEF Reset, Begin, hosts, actors, trees, ctls
<1>12. ASSUME NEW c \in Controllers, NEW a \in Agents, Cut(c, a) PROVE Types'
  BY <1>12 DEF Cut, hosts, actors, trees, ctls
<1>13. ASSUME NEW c \in Controllers, NEW a \in Agents, StopLoop(c, a) PROVE Types'
  BY <1>13 DEF StopLoop, Struck, Loops, hosts, actors, trees, ctls
<1>14. ASSUME NEW c \in Controllers, CutsDone(c) PROVE Types'
  BY <1>14 DEF CutsDone, KeptFutures, Cancelled, hosts, actors, trees, ctls
<1>15. ASSUME NEW c \in Controllers, Drained(c) PROVE Types'
  BY <1>15 DEF Drained, Cancelled, hosts, actors, trees, ctls
<1>16. ASSUME NEW c \in Controllers, LoopEnded(c) PROVE Types'
  BY <1>16 DEF LoopEnded, hosts, actors, trees, ctls
<1>17. ASSUME NEW c \in Controllers, TornDown(c) PROVE Types'
  BY <1>17 DEF TornDown, Stopped, Loops, Cancelled, hosts, actors, trees, ctls
<1>18. CASE UNCHANGED vars
  BY <1>18 DEF vars, hosts, actors, trees, ctls
<1>. QED BY <1>1, <1>2, <1>3, <1>4, <1>5, <1>6, <1>7, <1>8, <1>9, <1>10, <1>11,
      <1>12, <1>13, <1>14, <1>15, <1>16, <1>17, <1>18 DEF Next, Loop, Controller,
      Agents

\* Only a run the registry holds goes on undisturbed: cancel_subtree and a
\* refused registration strike the runs whose records they settle.
LEMMA RunStep ==
  ASSUME Types, LoopInv, TearInv, RunInv, [Next]_vars
  PROVE  RunInv'
<1>. USE AgentsAssumption DEF AgentsAssumption, RunInv, LoopInv, TearInv, Caught,
         InTree, Types, Agents, AllOps, Resets, Root, None
<1>1. ASSUME NEW t \in Texts, RunText(t) PROVE RunInv'
  BY <1>1 DEF RunText, hosts, actors, trees, ctls
<1>2. ASSUME RootTakes PROVE RunInv'
  BY <1>2 DEF RootTakes, Start, Refused, InTree, Stale, hosts, actors, trees, ctls
<1>3. ASSUME RootResumes PROVE RunInv'
  BY <1>3 DEF RootResumes, Popped, Waiting, hosts, actors, trees, ctls
<1>4. ASSUME NEW k \in Kids, KidTakes(k) PROVE RunInv'
  BY <1>4 DEF KidTakes, Start, Refused, InTree, hosts, actors, trees, ctls
<1>5. ASSUME NEW k \in Kids, KidResumes(k) PROVE RunInv'
  BY <1>5 DEF KidResumes, Leaves, hosts, actors, trees, ctls
<1>6. ASSUME NEW a \in Agents, RunEnds(a) PROVE RunInv'
  BY <1>6 DEF RunEnds, Released, hosts, actors, trees, ctls
<1>7. ASSUME NEW k \in Kids, Spawn(k) PROVE RunInv'
  BY <1>7 DEF Spawn, Refused, InTree, hosts, actors, trees, ctls
<1>8. ASSUME NEW c \in Controllers, NEW o \in AllOps, Interrupt(c, o) PROVE RunInv'
  BY <1>8 DEF Interrupt, Begin, hosts, actors, trees, ctls
<1>9. ASSUME NEW c \in Controllers, CancelChild(c) PROVE RunInv'
  BY <1>9 DEF CancelChild, Begin, hosts, actors, trees, ctls
<1>10. ASSUME NEW c \in Controllers, Drain(c) PROVE RunInv'
  BY <1>10 DEF Drain, Begin, hosts, actors, trees, ctls
<1>11. ASSUME NEW c \in Controllers, Reset(c) PROVE RunInv'
  BY <1>11 DEF Reset, Begin, hosts, actors, trees, ctls
<1>12. ASSUME NEW c \in Controllers, NEW a \in Agents, Cut(c, a) PROVE RunInv'
  BY <1>12 DEF Cut, hosts, actors, trees, ctls
<1>13. ASSUME NEW c \in Controllers, NEW a \in Agents, StopLoop(c, a) PROVE RunInv'
  BY <1>13 DEF StopLoop, Struck, Loops, hosts, actors, trees, ctls
<1>14. ASSUME NEW c \in Controllers, CutsDone(c) PROVE RunInv'
  BY <1>14 DEF CutsDone, KeptFutures, Cancelled, hosts, actors, trees, ctls
<1>15. ASSUME NEW c \in Controllers, Drained(c) PROVE RunInv'
  BY <1>15 DEF Drained, Cancelled, hosts, actors, trees, ctls
<1>16. ASSUME NEW c \in Controllers, LoopEnded(c) PROVE RunInv'
  BY <1>16 DEF LoopEnded, hosts, actors, trees, ctls
<1>17. ASSUME NEW c \in Controllers, TornDown(c) PROVE RunInv'
  BY <1>17 DEF TornDown, Stopped, Loops, Cancelled, hosts, actors, trees, ctls
<1>18. CASE UNCHANGED vars
  BY <1>18 DEF vars, hosts, actors, trees, ctls
<1>. QED BY <1>1, <1>2, <1>3, <1>4, <1>5, <1>6, <1>7, <1>8, <1>9, <1>10, <1>11,
      <1>12, <1>13, <1>14, <1>15, <1>16, <1>17, <1>18 DEF Next, Loop, Controller,
      Agents

\* A loop keeps its run while it awaits it; the root is booted, and dropped,
\* without one.
LEMMA LoopStep ==
  ASSUME Types, BootInv, TearInv, LoopInv, [Next]_vars
  PROVE  LoopInv'
<1>. USE AgentsAssumption DEF AgentsAssumption, LoopInv, BootInv, TearInv, Caught,
         InTree, Types, Agents, AllOps, Resets, Root, None
<1>1. ASSUME NEW t \in Texts, RunText(t) PROVE LoopInv'
  BY <1>1 DEF RunText, hosts, actors, trees, ctls
<1>2. ASSUME RootTakes PROVE LoopInv'
  BY <1>2 DEF RootTakes, Start, Refused, InTree, Stale, hosts, actors, trees, ctls
<1>3. ASSUME RootResumes PROVE LoopInv'
  BY <1>3 DEF RootResumes, Popped, Waiting, hosts, actors, trees, ctls
<1>4. ASSUME NEW k \in Kids, KidTakes(k) PROVE LoopInv'
  BY <1>4 DEF KidTakes, Start, Refused, InTree, hosts, actors, trees, ctls
<1>5. ASSUME NEW k \in Kids, KidResumes(k) PROVE LoopInv'
  BY <1>5 DEF KidResumes, Leaves, hosts, actors, trees, ctls
<1>6. ASSUME NEW a \in Agents, RunEnds(a) PROVE LoopInv'
  BY <1>6 DEF RunEnds, Released, hosts, actors, trees, ctls
<1>7. ASSUME NEW k \in Kids, Spawn(k) PROVE LoopInv'
  BY <1>7 DEF Spawn, Refused, InTree, hosts, actors, trees, ctls
<1>8. ASSUME NEW c \in Controllers, NEW o \in AllOps, Interrupt(c, o) PROVE LoopInv'
  BY <1>8 DEF Interrupt, Begin, hosts, actors, trees, ctls
<1>9. ASSUME NEW c \in Controllers, CancelChild(c) PROVE LoopInv'
  BY <1>9 DEF CancelChild, Begin, hosts, actors, trees, ctls
<1>10. ASSUME NEW c \in Controllers, Drain(c) PROVE LoopInv'
  BY <1>10 DEF Drain, Begin, hosts, actors, trees, ctls
<1>11. ASSUME NEW c \in Controllers, Reset(c) PROVE LoopInv'
  BY <1>11 DEF Reset, Begin, hosts, actors, trees, ctls
<1>12. ASSUME NEW c \in Controllers, NEW a \in Agents, Cut(c, a) PROVE LoopInv'
  BY <1>12 DEF Cut, hosts, actors, trees, ctls
<1>13. ASSUME NEW c \in Controllers, NEW a \in Agents, StopLoop(c, a) PROVE LoopInv'
  BY <1>13 DEF StopLoop, Struck, Loops, hosts, actors, trees, ctls
<1>14. ASSUME NEW c \in Controllers, CutsDone(c) PROVE LoopInv'
  BY <1>14 DEF CutsDone, KeptFutures, Cancelled, hosts, actors, trees, ctls
<1>15. ASSUME NEW c \in Controllers, Drained(c) PROVE LoopInv'
  BY <1>15 DEF Drained, Cancelled, hosts, actors, trees, ctls
<1>16. ASSUME NEW c \in Controllers, LoopEnded(c) PROVE LoopInv'
  BY <1>16 DEF LoopEnded, hosts, actors, trees, ctls
<1>17. ASSUME NEW c \in Controllers, TornDown(c) PROVE LoopInv'
  BY <1>17 DEF TornDown, Stopped, Loops, Cancelled, hosts, actors, trees, ctls
<1>18. CASE UNCHANGED vars
  BY <1>18 DEF vars, hosts, actors, trees, ctls
<1>. QED BY <1>1, <1>2, <1>3, <1>4, <1>5, <1>6, <1>7, <1>8, <1>9, <1>10, <1>11,
      <1>12, <1>13, <1>14, <1>15, <1>16, <1>17, <1>18 DEF Next, Loop, Controller,
      Agents

\* The root loop is made by the boot and forgotten by the teardown.
LEMMA BootStep ==
  ASSUME Types, HostInv, LoopInv, BootInv, [Next]_vars
  PROVE  BootInv'
<1>. USE AgentsAssumption DEF AgentsAssumption, BootInv, HostInv, LoopInv, Resetting, Types,
         Agents, AllOps, Resets, Root, None
<1>1. ASSUME NEW t \in Texts, RunText(t) PROVE BootInv'
  BY <1>1 DEF RunText, hosts, actors, trees, ctls
<1>2. ASSUME RootTakes PROVE BootInv'
  BY <1>2 DEF RootTakes, Start, Refused, InTree, Stale, hosts, actors, trees, ctls
<1>3. ASSUME RootResumes PROVE BootInv'
  BY <1>3 DEF RootResumes, Popped, Waiting, hosts, actors, trees, ctls
<1>4. ASSUME NEW k \in Kids, KidTakes(k) PROVE BootInv'
  BY <1>4 DEF KidTakes, Start, Refused, InTree, hosts, actors, trees, ctls
<1>5. ASSUME NEW k \in Kids, KidResumes(k) PROVE BootInv'
  BY <1>5 DEF KidResumes, Leaves, hosts, actors, trees, ctls
<1>6. ASSUME NEW a \in Agents, RunEnds(a) PROVE BootInv'
  BY <1>6 DEF RunEnds, Released, hosts, actors, trees, ctls
<1>7. ASSUME NEW k \in Kids, Spawn(k) PROVE BootInv'
  BY <1>7 DEF Spawn, Refused, InTree, hosts, actors, trees, ctls
<1>8. ASSUME NEW c \in Controllers, NEW o \in AllOps, Interrupt(c, o) PROVE BootInv'
  BY <1>8 DEF Interrupt, Begin, hosts, actors, trees, ctls
<1>9. ASSUME NEW c \in Controllers, CancelChild(c) PROVE BootInv'
  BY <1>9 DEF CancelChild, Begin, hosts, actors, trees, ctls
<1>10. ASSUME NEW c \in Controllers, Drain(c) PROVE BootInv'
  BY <1>10 DEF Drain, Begin, hosts, actors, trees, ctls
<1>11. ASSUME NEW c \in Controllers, Reset(c) PROVE BootInv'
  BY <1>11 DEF Reset, Begin, hosts, actors, trees, ctls
<1>12. ASSUME NEW c \in Controllers, NEW a \in Agents, Cut(c, a) PROVE BootInv'
  BY <1>12 DEF Cut, hosts, actors, trees, ctls
<1>13. ASSUME NEW c \in Controllers, NEW a \in Agents, StopLoop(c, a) PROVE BootInv'
  BY <1>13 DEF StopLoop, Struck, Loops, hosts, actors, trees, ctls
<1>14. ASSUME NEW c \in Controllers, CutsDone(c) PROVE BootInv'
  BY <1>14 DEF CutsDone, KeptFutures, Cancelled, hosts, actors, trees, ctls
<1>15. ASSUME NEW c \in Controllers, Drained(c) PROVE BootInv'
  BY <1>15 DEF Drained, Cancelled, hosts, actors, trees, ctls
<1>16. ASSUME NEW c \in Controllers, LoopEnded(c) PROVE BootInv'
  BY <1>16 DEF LoopEnded, hosts, actors, trees, ctls
<1>17. ASSUME NEW c \in Controllers, TornDown(c) PROVE BootInv'
  BY <1>17 DEF TornDown, Stopped, Loops, Cancelled, hosts, actors, trees, ctls
<1>18. CASE UNCHANGED vars
  BY <1>18 DEF vars, hosts, actors, trees, ctls
<1>. QED BY <1>1, <1>2, <1>3, <1>4, <1>5, <1>6, <1>7, <1>8, <1>9, <1>10, <1>11,
      <1>12, <1>13, <1>14, <1>15, <1>16, <1>17, <1>18 DEF Next, Loop, Controller,
      Agents

\* A manager is dropped only under a reset; what other resets are under way
\* beside it share its teardown, or come after a close.
LEMMA HostStep ==
  ASSUME Types, BootInv, HostInv, [Next]_vars
  PROVE  HostInv'
<1>. USE AgentsAssumption DEF AgentsAssumption, BootInv, HostInv, Resetting, InTree, Types, Agents,
         AllOps, Resets, Root, None
<1>1. ASSUME NEW t \in Texts, RunText(t) PROVE HostInv'
  BY <1>1 DEF RunText, hosts, actors, trees, ctls
<1>2. ASSUME RootTakes PROVE HostInv'
  BY <1>2 DEF RootTakes, Start, Refused, InTree, Stale, hosts, actors, trees, ctls
<1>3. ASSUME RootResumes PROVE HostInv'
  BY <1>3 DEF RootResumes, Popped, Waiting, hosts, actors, trees, ctls
<1>4. ASSUME NEW k \in Kids, KidTakes(k) PROVE HostInv'
  BY <1>4 DEF KidTakes, Start, Refused, InTree, hosts, actors, trees, ctls
<1>5. ASSUME NEW k \in Kids, KidResumes(k) PROVE HostInv'
  BY <1>5 DEF KidResumes, Leaves, hosts, actors, trees, ctls
<1>6. ASSUME NEW a \in Agents, RunEnds(a) PROVE HostInv'
  BY <1>6 DEF RunEnds, Released, hosts, actors, trees, ctls
<1>7. ASSUME NEW k \in Kids, Spawn(k) PROVE HostInv'
  BY <1>7 DEF Spawn, Refused, InTree, hosts, actors, trees, ctls
<1>8. ASSUME NEW c \in Controllers, NEW o \in AllOps, Interrupt(c, o) PROVE HostInv'
  <2>1. o \in Ops[c] /\ phase[c] = "free" /\ booted /\ booted' = booted /\ closed' = TRUE
    BY <1>8 DEF Interrupt, Begin
  <2>2. phase' = [phase EXCEPT ![c] = "cutting"] /\ op' = [op EXCEPT ![c] = o]
    BY <1>8 DEF Interrupt, Begin
  <2>3. shut' = (shut \/ o = "close") /\ shut' \in BOOLEAN
    BY <1>8 DEF Interrupt
  <2>4. (o = "close" => shut') /\ (shut => shut')
    BY <2>3
  <2>. QED  BY <2>1, <2>2, <2>4
<1>9. ASSUME NEW c \in Controllers, CancelChild(c) PROVE HostInv'
  BY <1>9 DEF CancelChild, Begin, hosts, actors, trees, ctls
<1>10. ASSUME NEW c \in Controllers, Drain(c) PROVE HostInv'
  BY <1>10 DEF Drain, Begin, hosts, actors, trees, ctls
<1>11. ASSUME NEW c \in Controllers, Reset(c) PROVE HostInv'
  BY <1>11 DEF Reset, Begin, hosts, actors, trees, ctls
<1>12. ASSUME NEW c \in Controllers, NEW a \in Agents, Cut(c, a) PROVE HostInv'
  BY <1>12 DEF Cut, hosts, actors, trees, ctls
<1>13. ASSUME NEW c \in Controllers, NEW a \in Agents, StopLoop(c, a) PROVE HostInv'
  BY <1>13 DEF StopLoop, Struck, Loops, hosts, actors, trees, ctls
<1>14. ASSUME NEW c \in Controllers, CutsDone(c) PROVE HostInv'
  BY <1>14 DEF CutsDone, KeptFutures, Cancelled, hosts, actors, trees, ctls
<1>15. ASSUME NEW c \in Controllers, Drained(c) PROVE HostInv'
  BY <1>15 DEF Drained, Cancelled, hosts, actors, trees, ctls
<1>16. ASSUME NEW c \in Controllers, LoopEnded(c) PROVE HostInv'
  BY <1>16 DEF LoopEnded, hosts, actors, trees, ctls
<1>17. ASSUME NEW c \in Controllers, TornDown(c) PROVE HostInv'
  BY <1>17, HostAssumption DEF HostAssumption, TornDown, Stopped, Loops, Cancelled, hosts, actors,
    trees, ctls
<1>18. CASE UNCHANGED vars
  BY <1>18 DEF vars, hosts, actors, trees, ctls
<1>. QED BY <1>1, <1>2, <1>3, <1>4, <1>5, <1>6, <1>7, <1>8, <1>9, <1>10, <1>11,
      <1>12, <1>13, <1>14, <1>15, <1>16, <1>17, <1>18 DEF Next, Loop, Controller,
      Agents

\* A record of a closed tree stays due for a cut until it is cut.
LEMMA CutStep ==
  ASSUME Types, HostInv, CutInv, [Next]_vars
  PROVE  CutInv'
<1>. USE AgentsAssumption DEF AgentsAssumption, CutInv, HostInv, Live, InTree,
         Types, Agents, AllOps, Resets, Root, None
<1>1. ASSUME NEW t \in Texts, RunText(t) PROVE CutInv'
  BY <1>1 DEF RunText, hosts, actors, trees, ctls
<1>2. ASSUME RootTakes PROVE CutInv'
  BY <1>2 DEF RootTakes, Start, Refused, InTree, Stale, hosts, actors, trees, ctls
<1>3. ASSUME RootResumes PROVE CutInv'
  BY <1>3 DEF RootResumes, Popped, Waiting, hosts, actors, trees, ctls
<1>4. ASSUME NEW k \in Kids, KidTakes(k) PROVE CutInv'
  BY <1>4 DEF KidTakes, Start, Refused, InTree, hosts, actors, trees, ctls
<1>5. ASSUME NEW k \in Kids, KidResumes(k) PROVE CutInv'
  BY <1>5 DEF KidResumes, Leaves, hosts, actors, trees, ctls
<1>6. ASSUME NEW a \in Agents, RunEnds(a) PROVE CutInv'
  BY <1>6 DEF RunEnds, Released, hosts, actors, trees, ctls
<1>7. ASSUME NEW k \in Kids, Spawn(k) PROVE CutInv'
  BY <1>7 DEF Spawn, Refused, InTree, hosts, actors, trees, ctls
<1>8. ASSUME NEW c \in Controllers, NEW o \in AllOps, Interrupt(c, o) PROVE CutInv'
  BY <1>8 DEF Interrupt, Begin, hosts, actors, trees, ctls
<1>9. ASSUME NEW c \in Controllers, CancelChild(c) PROVE CutInv'
  BY <1>9 DEF CancelChild, Begin, hosts, actors, trees, ctls
<1>10. ASSUME NEW c \in Controllers, Drain(c) PROVE CutInv'
  BY <1>10 DEF Drain, Begin, hosts, actors, trees, ctls
<1>11. ASSUME NEW c \in Controllers, Reset(c) PROVE CutInv'
  BY <1>11 DEF Reset, Begin, hosts, actors, trees, ctls
<1>12. ASSUME NEW c \in Controllers, NEW a \in Agents, Cut(c, a) PROVE CutInv'
  BY <1>12 DEF Cut, hosts, actors, trees, ctls
<1>13. ASSUME NEW c \in Controllers, NEW a \in Agents, StopLoop(c, a) PROVE CutInv'
  BY <1>13 DEF StopLoop, Struck, Loops, hosts, actors, trees, ctls
<1>14. ASSUME NEW c \in Controllers, CutsDone(c) PROVE CutInv'
  BY <1>14 DEF CutsDone, KeptFutures, Cancelled, hosts, actors, trees, ctls
<1>15. ASSUME NEW c \in Controllers, Drained(c) PROVE CutInv'
  BY <1>15 DEF Drained, Cancelled, hosts, actors, trees, ctls
<1>16. ASSUME NEW c \in Controllers, LoopEnded(c) PROVE CutInv'
  BY <1>16 DEF LoopEnded, hosts, actors, trees, ctls
<1>17. ASSUME NEW c \in Controllers, TornDown(c) PROVE CutInv'
  BY <1>17 DEF TornDown, Stopped, Loops, Cancelled, hosts, actors, trees, ctls
<1>18. CASE UNCHANGED vars
  BY <1>18 DEF vars, hosts, actors, trees, ctls
<1>. QED BY <1>1, <1>2, <1>3, <1>4, <1>5, <1>6, <1>7, <1>8, <1>9, <1>10, <1>11,
      <1>12, <1>13, <1>14, <1>15, <1>16, <1>17, <1>18 DEF Next, Loop, Controller,
      Agents

\* A teardown forgets no loop: none starts in a closed tree.
LEMMA TearStep ==
  ASSUME Types, HostInv, BootInv, LoopInv, TearInv, [Next]_vars
  PROVE  TearInv'
<1>. USE AgentsAssumption DEF AgentsAssumption, TearInv, Caught, HostInv, Resetting,
         BootInv, LoopInv, InTree, Types, Agents, AllOps, Resets, Root, None
<1>1. ASSUME NEW t \in Texts, RunText(t) PROVE TearInv'
  BY <1>1 DEF RunText, hosts, actors, trees, ctls
<1>2. ASSUME RootTakes PROVE TearInv'
  BY <1>2 DEF RootTakes, Start, Refused, InTree, Stale, hosts, actors, trees, ctls
<1>3. ASSUME RootResumes PROVE TearInv'
  BY <1>3 DEF RootResumes, Popped, Waiting, hosts, actors, trees, ctls
<1>4. ASSUME NEW k \in Kids, KidTakes(k) PROVE TearInv'
  BY <1>4 DEF KidTakes, Start, Refused, InTree, hosts, actors, trees, ctls
<1>5. ASSUME NEW k \in Kids, KidResumes(k) PROVE TearInv'
  BY <1>5 DEF KidResumes, Leaves, hosts, actors, trees, ctls
<1>6. ASSUME NEW a \in Agents, RunEnds(a) PROVE TearInv'
  BY <1>6 DEF RunEnds, Released, hosts, actors, trees, ctls
<1>7. ASSUME NEW k \in Kids, Spawn(k) PROVE TearInv'
  BY <1>7 DEF Spawn, Refused, InTree, hosts, actors, trees, ctls
<1>8. ASSUME NEW c \in Controllers, NEW o \in AllOps, Interrupt(c, o) PROVE TearInv'
  BY <1>8 DEF Interrupt, Begin, hosts, actors, trees, ctls
<1>9. ASSUME NEW c \in Controllers, CancelChild(c) PROVE TearInv'
  BY <1>9 DEF CancelChild, Begin, hosts, actors, trees, ctls
<1>10. ASSUME NEW c \in Controllers, Drain(c) PROVE TearInv'
  BY <1>10 DEF Drain, Begin, hosts, actors, trees, ctls
<1>11. ASSUME NEW c \in Controllers, Reset(c) PROVE TearInv'
  BY <1>11 DEF Reset, Begin, hosts, actors, trees, ctls
<1>12. ASSUME NEW c \in Controllers, NEW a \in Agents, Cut(c, a) PROVE TearInv'
  BY <1>12 DEF Cut, hosts, actors, trees, ctls
<1>13. ASSUME NEW c \in Controllers, NEW a \in Agents, StopLoop(c, a) PROVE TearInv'
  BY <1>13 DEF StopLoop, Struck, Loops, hosts, actors, trees, ctls
<1>14. ASSUME NEW c \in Controllers, CutsDone(c) PROVE TearInv'
  BY <1>14 DEF CutsDone, KeptFutures, Cancelled, hosts, actors, trees, ctls
<1>15. ASSUME NEW c \in Controllers, Drained(c) PROVE TearInv'
  BY <1>15 DEF Drained, Cancelled, hosts, actors, trees, ctls
<1>16. ASSUME NEW c \in Controllers, LoopEnded(c) PROVE TearInv'
  BY <1>16 DEF LoopEnded, hosts, actors, trees, ctls
<1>17. ASSUME NEW c \in Controllers, TornDown(c) PROVE TearInv'
  BY <1>17 DEF TornDown, Stopped, Loops, Cancelled, hosts, actors, trees, ctls
<1>18. CASE UNCHANGED vars
  BY <1>18 DEF vars, hosts, actors, trees, ctls
<1>. QED BY <1>1, <1>2, <1>3, <1>4, <1>5, <1>6, <1>7, <1>8, <1>9, <1>10, <1>11,
      <1>12, <1>13, <1>14, <1>15, <1>16, <1>17, <1>18 DEF Next, Loop, Controller,
      Agents

\* The invariant the theorems rest on holds in every reachable state.
LEMMA SessionInvariant == Spec => []SessionInv
<1>1. Init => SessionInv
  <2>. SUFFICES ASSUME Init PROVE SessionInv
    OBVIOUS
  <2>. USE AgentsAssumption DEF AgentsAssumption, Init, Agents, Root, None
  <2>1. Types
    BY DEF Types
  <2>2. RunInv /\ LoopInv /\ BootInv /\ CutInv
    BY DEF RunInv, LoopInv, BootInv, CutInv
  <2>3. HostInv /\ TearInv
    BY DEF HostInv, Resetting, TearInv
  <2>. QED  BY <2>1, <2>2, <2>3 DEF SessionInv
<1>2. SessionInv /\ [Next]_vars => SessionInv'
  BY TypesStep, RunStep, LoopStep, BootStep, CutStep, HostStep, TearStep DEF SessionInv
<1>. QED  BY <1>1, <1>2, PTL DEF Spec

\* Once an interrupt has returned, no run of the tree goes on undisturbed.
THEOREM NoRunInClosedTree == Spec => []NothingRunsInClosedTree
<1>1. SessionInv => NothingRunsInClosedTree
  BY DEF SessionInv, RunInv, CutInv, NothingRunsInClosedTree, Cutting, Live
<1>. QED  BY <1>1, SessionInvariant, PTL

\* A reset that follows an interrupt leaves no loop and no run of its tree.
THEOREM ResetIsClean == Spec => ResetLeavesNothing
<1>. DEFINE Clean == \A c \in Controllers : TornDown(c) /\ op[c] # "drain"
               => \A a \in Agents : InTree(a) => loop[a] \in {None, "ended"} /\ run[a] # "active"
<1>1. SessionInv => Clean
  BY AgentsAssumption
  DEF AgentsAssumption, SessionInv, Types, LoopInv, TearInv, Caught, InTree, TornDown, Stopped,
      Loops, Agents, Root, None
<1>2. SessionInv => [Clean]_vars
  BY <1>1
<1>. QED  BY <1>2, SessionInvariant, PTL DEF ResetLeavesNothing

-----------------------------------------------------------------------------
(* Whose Result a call returns                                              *)

\* The rest of TypeOK: what the host and the root's mailbox hold.
TextTypes ==
  /\ mailbox \in Seq(Mails) /\ futures \in Seq(Texts)
  /\ caller \in [Texts -> {None, "waiting", "answered", "failed", "cancelled"}]
  /\ got \in [Texts -> Mails \cup {None}] /\ fed \subseteq Kids
  /\ doomed \subseteq {a \in Agents : run[a] = "active"}
  /\ work \in Mails \cup {None} /\ epoch \in Nat /\ ops \in Nat

\* The root awaits the run of a mail, and a child's result it runs has been fed.
WorkInv ==
  /\ work # None <=> loop[Root] = "busy"
  /\ work \in Kids => work \in fed

\* While no child's result has been run, the futures are those of the text being
\* run and of the texts in the mailbox, in their order.
InHand  == IF work \in Texts THEN <<work>> ELSE <<>>
Aligned == fed = {} => futures = InHand \o Only(mailbox, Texts)

\* The invariant of the theorems below, given SessionInv.
TextInv == TextTypes /\ WorkInv /\ Aligned /\ OwnResultUnlessFed

LEMMA TextTypesStep ==
  ASSUME Types, LoopInv, TextTypes, [Next]_vars
  PROVE  TextTypes'
<1>. USE AgentsAssumption DEF AgentsAssumption, TextTypes, Types, LoopInv, Mails, Agents, Root,
         None
<1>1. ASSUME NEW t \in Texts, RunText(t) PROVE TextTypes'
  BY <1>1 DEF RunText, ctls
<1>2. ASSUME RootTakes PROVE TextTypes'
  <2>1. Head(mailbox) \in Mails /\ mailbox' \in Seq(Mails)
    BY <1>2, TailItems DEF RootTakes
  <2>. QED  BY <1>2, <2>1 DEF RootTakes, Start, actors, trees, ctls
<1>3. ASSUME RootResumes PROVE TextTypes'
  <2>1. futures' \in Seq(Texts)
    BY <1>3 DEF RootResumes, Popped
  <2>. QED  BY <1>3, <2>1 DEF RootResumes, Waiting, trees, ctls
<1>4. ASSUME NEW k \in Kids, KidTakes(k) PROVE TextTypes'
  BY <1>4 DEF KidTakes, Start, hosts, trees, ctls
<1>5. ASSUME NEW k \in Kids, KidResumes(k) PROVE TextTypes'
  BY <1>5 DEF KidResumes, trees, ctls
<1>6. ASSUME NEW a \in Agents, RunEnds(a) PROVE TextTypes'
  BY <1>6 DEF RunEnds, hosts, trees
<1>7. ASSUME NEW k \in Kids, Spawn(k) PROVE TextTypes'
  BY <1>7 DEF Spawn, hosts, ctls
<1>8. ASSUME NEW c \in Controllers, NEW o \in AllOps, Interrupt(c, o) PROVE TextTypes'
  BY <1>8 DEF Interrupt, Begin, hosts, actors
<1>9. ASSUME NEW c \in Controllers, CancelChild(c) PROVE TextTypes'
  BY <1>9 DEF CancelChild, Begin, hosts, actors, trees
<1>10. ASSUME NEW c \in Controllers, Drain(c) PROVE TextTypes'
  BY <1>10 DEF Drain, Begin, hosts, actors, trees
<1>11. ASSUME NEW c \in Controllers, Reset(c) PROVE TextTypes'
  BY <1>11 DEF Reset, Begin, hosts, actors, trees
<1>12. ASSUME NEW c \in Controllers, NEW a \in Agents, Cut(c, a) PROVE TextTypes'
  BY <1>12 DEF Cut, hosts, trees
<1>13. ASSUME NEW c \in Controllers, NEW a \in Agents, StopLoop(c, a) PROVE TextTypes'
  BY <1>13 DEF StopLoop, Struck, trees
<1>14. ASSUME NEW c \in Controllers, CutsDone(c) PROVE TextTypes'
  <2>. DEFINE Fresh == {m \in Mails : ~Stale(m)}
  <2>1. mailbox' = mailbox \/ mailbox' = Only(mailbox, Fresh)
    BY <1>14 DEF CutsDone
  <2>. HIDE DEF Fresh
  <2>2. mailbox' \in Seq(Mails)
    BY <2>1, OnlyItems
  <2>. QED  BY <1>14, <2>2 DEF CutsDone, KeptFutures, Cancelled, actors, trees
<1>15. ASSUME NEW c \in Controllers, Drained(c) PROVE TextTypes'
  BY <1>15 DEF Drained, Cancelled, actors, trees
<1>16. ASSUME NEW c \in Controllers, LoopEnded(c) PROVE TextTypes'
  BY <1>16 DEF LoopEnded, hosts, actors, trees
<1>17. ASSUME NEW c \in Controllers, TornDown(c) PROVE TextTypes'
  BY <1>17 DEF TornDown, Stopped, Loops, Cancelled
<1>18. CASE UNCHANGED vars
  BY <1>18 DEF vars, hosts, actors, trees, ctls
<1>. QED BY <1>1, <1>2, <1>3, <1>4, <1>5, <1>6, <1>7, <1>8, <1>9, <1>10, <1>11,
      <1>12, <1>13, <1>14, <1>15, <1>16, <1>17, <1>18 DEF Next, Loop, Controller,
      Agents

\* A mail is in hand from RootTakes to RootResumes.
LEMMA WorkStep ==
  ASSUME Types, BootInv, TearInv, TextTypes, WorkInv, [Next]_vars
  PROVE  WorkInv'
<1>. USE AgentsAssumption DEF AgentsAssumption, WorkInv, TextTypes, Types, BootInv, Mails, Agents,
         Root, None
<1>1. ASSUME NEW t \in Texts, RunText(t) PROVE WorkInv'
  BY <1>1 DEF RunText, ctls
<1>2. ASSUME RootTakes PROVE WorkInv'
  <2>1. Head(mailbox) \in Mails
    BY <1>2, TailItems DEF RootTakes
  <2>. QED  BY <1>2, <2>1 DEF RootTakes, Start, actors, trees, ctls
<1>3. ASSUME RootResumes PROVE WorkInv'
  BY <1>3 DEF RootResumes, trees, ctls
<1>4. ASSUME NEW k \in Kids, KidTakes(k) \/ KidResumes(k) \/ Spawn(k) PROVE WorkInv'
  BY <1>4 DEF KidTakes, KidResumes, Spawn, Start, hosts, trees, ctls
<1>5. ASSUME NEW a \in Agents, RunEnds(a) PROVE WorkInv'
  BY <1>5 DEF RunEnds, hosts, trees
<1>6. ASSUME NEW c \in Controllers, NEW a \in Agents, StopLoop(c, a) PROVE WorkInv'
  BY <1>6 DEF StopLoop, trees
<1>7. ASSUME NEW c \in Controllers, TornDown(c) PROVE WorkInv'
  <2>1. loop[Root] \notin {"idle", "busy"}
    BY <1>7 DEF TornDown, Stopped, Loops, TearInv, Caught, InTree
  <2>. QED  BY <1>7, <2>1 DEF TornDown
<1>8. ASSUME UNCHANGED <<loop, work, fed>> PROVE WorkInv'
  BY <1>8
<1>9. ASSUME NEW c \in Controllers, CancelChild(c) \/ Drain(c) \/ Reset(c) \/ CutsDone(c)
                                   \/ Drained(c) \/ LoopEnded(c)
      PROVE  WorkInv'
  BY <1>8, <1>9 DEF CancelChild, Drain, Reset, CutsDone, Drained, LoopEnded, hosts, actors
<1>10. CASE UNCHANGED vars
  BY <1>8, <1>10 DEF vars, hosts, actors
<1>11. ASSUME NEW c \in Controllers, NEW o \in AllOps, Interrupt(c, o) PROVE WorkInv'
  BY <1>8, <1>11 DEF Interrupt, hosts, actors
<1>12. ASSUME NEW c \in Controllers, NEW a \in Agents, Cut(c, a) PROVE WorkInv'
  BY <1>8, <1>12 DEF Cut, hosts
<1>. QED BY <1>1, <1>2, <1>3, <1>4, <1>5, <1>6, <1>7, <1>8, <1>9, <1>10, <1>11, <1>12 DEF Next, Loop,
            Controller, Agents

\* Futures and mails stay aligned: a text joins both queues, is taken from the
\* mailbox when it is run and from the futures when its Result comes; a purge of
\* stale mails takes no text, a teardown empties both.
LEMMA AlignedStep ==
  ASSUME Types, BootInv, TearInv, TextTypes, WorkInv, Aligned, [Next]_vars
  PROVE  Aligned'
<1>. USE AgentsAssumption DEF AgentsAssumption, Mails, Agents, Root, None
<1>. SUFFICES ASSUME fed' = {} PROVE futures' = InHand' \o Only(mailbox', Texts)
  BY DEF Aligned
<1>. DEFINE q == Only(mailbox, Texts)
<1>1. mailbox \in Seq(Mails) /\ futures \in Seq(Texts) /\ q \in Seq(Mails)
  BY OnlyItems DEF TextTypes
<1>2. ASSUME UNCHANGED <<mailbox, futures, fed, work>>
      PROVE  futures' = InHand' \o Only(mailbox', Texts)
  BY <1>2 DEF Aligned, InHand
<1>3. ASSUME NEW t \in Texts, RunText(t) PROVE futures' = InHand' \o Only(mailbox', Texts)
  <2>1. Only(Append(mailbox, t), Texts) = Append(q, t)
    BY <1>1, OnlyAppend
  <2>2. futures = InHand \o q /\ InHand' = InHand
    BY <1>3 DEF RunText, Aligned, InHand
  <2>3. Append(InHand \o q, t) = InHand \o Append(q, t)
    <3>1. InHand = <<>> \/ \E m \in Mails : InHand = <<m>>
      BY DEF InHand
    <3>. HIDE DEF q, Mails
    <3>2. CASE InHand = <<>>
      BY <1>1, <3>2 DEF Mails
    <3>3. ASSUME NEW m \in Mails, InHand = <<m>> PROVE Append(InHand \o q, t) = InHand \o Append(q, t)
      <4>1. <<m>> \in Seq(Mails) /\ t \in Mails
        BY DEF Mails
      <4>2. Append(<<m>> \o q, t) = <<m>> \o Append(q, t)
        BY <1>1, <4>1
      <4>. QED  BY <3>3, <4>2
    <3>. QED  BY <3>1, <3>2, <3>3
  <2>. QED  BY <1>3, <2>1, <2>2, <2>3 DEF RunText
<1>4. ASSUME RootTakes PROVE futures' = InHand' \o Only(mailbox', Texts)
  <2>. DEFINE m == Head(mailbox)
  <2>1. mailbox # <<>> /\ m \in Mails /\ mailbox' = Tail(mailbox) /\ futures' = futures
    BY <1>1, <1>4, TailItems DEF RootTakes
  <2>2. q = IF m \in Texts THEN <<m>> \o Only(mailbox', Texts) ELSE Only(mailbox', Texts)
    BY <1>1, <2>1, OnlyHead
  <2>3. fed = {} /\ work = None
    BY <1>4 DEF RootTakes, WorkInv, TextTypes
  <2>4. futures = <<>> \o q
    BY <2>3 DEF Aligned, InHand
  <2>5. futures = q
    BY <1>1, <2>4
  <2>6. CASE Stale(m)
    BY <1>4, <2>1, <2>2, <2>3, <2>4, <2>6 DEF RootTakes, Stale, InHand, actors
  <2>7. CASE ~Stale(m)
    <3>1. work' = m /\ m \in Texts
      BY <1>4, <2>1, <2>7 DEF RootTakes
    <3>. QED  BY <2>1, <2>2, <2>5, <3>1 DEF InHand
  <2>. QED  BY <2>6, <2>7
<1>5. ASSUME RootResumes PROVE futures' = InHand' \o Only(mailbox', Texts)
  <2>1. work \in Texts /\ work' = None /\ mailbox' = mailbox /\ fed = {}
    BY <1>5 DEF RootResumes, WorkInv, TextTypes, trees
  <2>2. futures = <<work>> \o q
    BY <2>1 DEF Aligned, InHand
  <2>3. futures # <<>> /\ Tail(futures) = q
    <3>. HIDE DEF q
    <3>. QED  BY <1>1, <2>1, <2>2
  <2>4. futures' = q
    BY <1>5, <2>3 DEF RootResumes, Popped
  <2>5. <<>> \o q = q
    <3>. HIDE DEF q
    <3>. QED  BY <1>1
  <2>. QED  BY <2>1, <2>4, <2>5 DEF InHand
<1>6. ASSUME NEW k \in Kids, KidResumes(k) PROVE futures' = InHand' \o Only(mailbox', Texts)
  <2>1. Only(Append(mailbox, k), Texts) = q
    BY <1>1, OnlyAppend
  <2>2. Only(mailbox', Texts) = q
    BY <1>6, <2>1 DEF KidResumes
  <2>. QED  BY <1>6, <2>2 DEF KidResumes, Aligned, InHand
<1>7. ASSUME NEW c \in Controllers, CutsDone(c) PROVE futures' = InHand' \o Only(mailbox', Texts)
  <2>. DEFINE Fresh == {m \in Mails : ~Stale(m)}
  <2>1. Fresh \cap Texts = Texts
    BY DEF Stale
  <2>2. mailbox' = mailbox \/ mailbox' = Only(mailbox, Fresh)
    BY <1>7 DEF CutsDone
  <2>. HIDE DEF Fresh
  <2>3. Only(Only(mailbox, Fresh), Texts) = Only(mailbox, Fresh \cap Texts)
    BY <1>1, OnlyOnly
  <2>4. Only(mailbox', Texts) = q
    BY <2>1, <2>2, <2>3
  <2>. QED  BY <1>7, <2>4 DEF CutsDone, KeptFutures, Aligned, InHand, actors
<1>8. ASSUME NEW c \in Controllers, TornDown(c) PROVE futures' = InHand' \o Only(mailbox', Texts)
  <2>1. loop[Root] \notin {"idle", "busy"}
    BY <1>8 DEF TornDown, Stopped, Loops, TearInv, Caught, InTree
  <2>2. work' = None /\ mailbox' = <<>> /\ futures' = <<>>
    BY <1>8, <2>1 DEF TornDown, WorkInv
  <2>3. Only(<<>>, Texts) = <<>>
    BY OnlyEmpty
  <2>. QED  BY <2>2, <2>3 DEF InHand
<1>9. ASSUME NEW k \in Kids, KidTakes(k) \/ Spawn(k) PROVE futures' = InHand' \o Only(mailbox', Texts)
  BY <1>2, <1>9 DEF KidTakes, Spawn, hosts
<1>10. ASSUME NEW a \in Agents, RunEnds(a) PROVE futures' = InHand' \o Only(mailbox', Texts)
  BY <1>2, <1>10 DEF RunEnds, hosts
<1>11. ASSUME NEW c \in Controllers, NEW a \in Agents, Cut(c, a) \/ StopLoop(c, a)
       PROVE  futures' = InHand' \o Only(mailbox', Texts)
  BY <1>2, <1>11 DEF Cut, StopLoop, hosts
<1>12. ASSUME NEW c \in Controllers, NEW o \in AllOps, Interrupt(c, o)
       PROVE  futures' = InHand' \o Only(mailbox', Texts)
  BY <1>2, <1>12 DEF Interrupt, hosts, actors
<1>13. ASSUME NEW c \in Controllers, CancelChild(c) \/ Drain(c) \/ Reset(c) \/ Drained(c) \/ LoopEnded(c)
       PROVE  futures' = InHand' \o Only(mailbox', Texts)
  BY <1>2, <1>13 DEF CancelChild, Drain, Reset, Drained, LoopEnded, hosts, actors
<1>14. CASE UNCHANGED vars
  BY <1>2, <1>14 DEF vars, hosts, actors
<1>. QED BY <1>3, <1>4, <1>5, <1>6, <1>7, <1>8, <1>9, <1>10, <1>11, <1>12, <1>13, <1>14
         DEF Next, Loop, Controller, Agents

\* The oldest future is that of the text whose Result comes.
LEMMA OwnResultStep ==
  ASSUME TextTypes, WorkInv, Aligned, OwnResultUnlessFed, [Next]_vars
  PROVE  OwnResultUnlessFed'
<1>. USE AgentsAssumption DEF AgentsAssumption, Mails, Agents, Root, None
<1>1. ASSUME RootResumes PROVE OwnResultUnlessFed'
  <2>. SUFFICES ASSUME fed = {}, NEW t \in Texts, got'[t] \in Mails \ {t} PROVE FALSE
    BY <1>1 DEF OwnResultUnlessFed, RootResumes
  <2>. DEFINE q == Only(mailbox, Texts)
  <2>1. work \in Texts /\ futures = <<work>> \o q /\ q \in Seq(Mails)
    BY <1>1, OnlyItems DEF RootResumes, WorkInv, TextTypes, Aligned, InHand
  <2>2. futures # <<>> /\ Head(futures) = work
    <3>. HIDE DEF q
    <3>. QED  BY <2>1
  <2>3. got'[t] = IF t \in {work} \cap Waiting THEN work ELSE got[t]
    BY <1>1, <2>2 DEF RootResumes
  <2>. QED  BY <2>3 DEF OwnResultUnlessFed
<1>2. ASSUME got' = got, fed \subseteq fed' PROVE OwnResultUnlessFed'
  BY <1>2 DEF OwnResultUnlessFed
<1>3. ASSUME NEW t \in Texts, RunText(t) PROVE OwnResultUnlessFed'
  BY <1>2, <1>3 DEF RunText
<1>4. CASE RootTakes
  BY <1>2, <1>4 DEF RootTakes
<1>5. ASSUME NEW k \in Kids, KidTakes(k) \/ KidResumes(k) \/ Spawn(k) PROVE OwnResultUnlessFed'
  BY <1>2, <1>5 DEF KidTakes, KidResumes, Spawn, hosts
<1>6. ASSUME NEW a \in Agents, RunEnds(a) PROVE OwnResultUnlessFed'
  BY <1>2, <1>6 DEF RunEnds, hosts
<1>7. ASSUME NEW c \in Controllers, NEW a \in Agents, Cut(c, a) \/ StopLoop(c, a)
      PROVE  OwnResultUnlessFed'
  BY <1>2, <1>7 DEF Cut, StopLoop, hosts
<1>8. ASSUME NEW c \in Controllers, NEW o \in AllOps, Interrupt(c, o) PROVE OwnResultUnlessFed'
  BY <1>2, <1>8 DEF Interrupt, hosts
<1>9. ASSUME NEW c \in Controllers, CancelChild(c) \/ Drain(c) \/ Reset(c) \/ CutsDone(c)
                                   \/ Drained(c) \/ LoopEnded(c) \/ TornDown(c)
      PROVE  OwnResultUnlessFed'
  BY <1>2, <1>9 DEF CancelChild, Drain, Reset, CutsDone, Drained, LoopEnded, TornDown, hosts
<1>10. CASE UNCHANGED vars
  BY <1>2, <1>10 DEF vars, hosts
<1>. QED BY <1>1, <1>3, <1>4, <1>5, <1>6, <1>7, <1>8, <1>9, <1>10 DEF Next, Loop, Controller,
            Agents

LEMMA TextInvariant == Spec => []TextInv
<1>1. Init => TextInv
  <2>. SUFFICES ASSUME Init PROVE TextInv
    OBVIOUS
  <2>. USE AgentsAssumption DEF AgentsAssumption, Init, Agents, Mails, Root, None
  <2>1. TextTypes /\ WorkInv /\ OwnResultUnlessFed
    BY DEF TextTypes, WorkInv, OwnResultUnlessFed
  <2>2. Aligned
    BY OnlyEmpty DEF Aligned, InHand
  <2>. QED  BY <2>1, <2>2 DEF TextInv
<1>2. SessionInv /\ TextInv /\ [Next]_vars => TextInv'
  BY TextTypesStep, WorkStep, AlignedStep, OwnResultStep DEF SessionInv, TextInv
<1>. QED  BY <1>1, <1>2, SessionInvariant, PTL DEF Spec

\* Every variable keeps its type; a CancelledError is due only to a run that goes on.
THEOREM SessionTypes == Spec => []TypeOK
<1>1. SessionInv /\ TextInv => TypeOK
  BY DEF SessionInv, TextInv, Types, TextTypes, TypeOK
<1>. QED  BY <1>1, SessionInvariant, TextInvariant, PTL

\* Unless the root has run a child's result, a call returns the Result of its own
\* text: whatever is interrupted, cancelled, drained or torn down in between.
THEOREM OwnResult == Spec => []OwnResultUnlessFed
<1>1. TextInv => OwnResultUnlessFed
  BY DEF TextInv
<1>. QED  BY <1>1, TextInvariant, PTL
=============================================================================

