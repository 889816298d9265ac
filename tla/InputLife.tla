----------------------------- MODULE InputLife -----------------------------
(***************************************************************************)
(* What a Web thread owes to what its user submits, wherever it keeps it:   *)
(* an input it has accepted it has until the agent hears it or it is        *)
(* dropped, for good.  Hence none is heard twice, and nothing that was      *)
(* cancelled or lost is heard after all.                                   *)
(***************************************************************************)
EXTENDS Naturals

CONSTANT Inputs

VARIABLES
  seen,     \* inputs that were accepted at some time
  held,     \* those the thread still has
  history   \* input -> how often the root's history has it

vars == <<seen, held, history>>

Init == seen = {} /\ held = {} /\ history = [i \in Inputs |-> 0]

\* Submitted, to a queue that is not full.
Accept(i) ==
  /\ i \notin seen
  /\ seen' = seen \cup {i} /\ held' = held \cup {i}
  /\ UNCHANGED history

\* The runner appends it to the history: as the input of a run or as a steer.
Hear(i) ==
  /\ i \in held
  /\ held' = held \ {i} /\ history' = [history EXCEPT ![i] = @ + 1]
  /\ UNCHANGED seen

\* Cancelled by the user, or lost.
Drop(S) ==
  /\ S \subseteq held /\ S # {}
  /\ held' = held \ S
  /\ UNCHANGED <<seen, history>>

Next == (\E i \in Inputs : Accept(i) \/ Hear(i)) \/ \E S \in SUBSET Inputs : Drop(S)

Spec == Init /\ [][Next]_vars
=============================================================================
