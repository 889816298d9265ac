-------------------------- MODULE RunLedgerProofs --------------------------
(* The two promises of the run history follow from its steps. *)
EXTENDS RunLedger, TLAPS

\* A published result is the terminal status of its row.
Published == \A r \in Runs : /\ results[r] # "none" => /\ rows[r] \in Terminal
                                                       /\ results[r] = rows[r]
Typed     == /\ rows \in [Runs -> Status]
             /\ results \in [Runs -> Terminal \cup {"none"}]
LedgerInv == Typed /\ Published

\* No step of the history replaces a terminal row or an earlier answer.
LEMMA LedgerStep ==
  ASSUME LedgerInv, [Next]_vars
  PROVE  /\ LedgerInv'
         /\ \A r \in Runs : rows[r] \in Terminal => rows'[r] = rows[r]
<1> USE DEF LedgerInv, Typed, Published, Status, Open, Terminal
<1>1. ASSUME NEW r \in Runs, Begin(r)
      PROVE  LedgerInv' /\ \A q \in Runs : rows[q] \in Terminal => rows'[q] = rows[q]
  BY <1>1 DEF Begin
<1>2. ASSUME NEW r \in Runs, Publish(r)
      PROVE  LedgerInv' /\ \A q \in Runs : rows[q] \in Terminal => rows'[q] = rows[q]
  BY <1>2 DEF Publish
<1>3. ASSUME NEW r \in Runs, NEW s \in Terminal, Conclude(r, s)
      PROVE  LedgerInv' /\ \A q \in Runs : rows[q] \in Terminal => rows'[q] = rows[q]
  BY <1>3 DEF Conclude
<1>4. ASSUME NEW r \in Runs, NEW s \in Terminal, ConcludeAndPublish(r, s)
      PROVE  LedgerInv' /\ \A q \in Runs : rows[q] \in Terminal => rows'[q] = rows[q]
  BY <1>4 DEF ConcludeAndPublish
<1>5. ASSUME NEW S \in SUBSET Runs, NEW s \in Terminal, Abandon(S, s)
      PROVE  LedgerInv' /\ \A q \in Runs : rows[q] \in Terminal => rows'[q] = rows[q]
  BY <1>5 DEF Abandon
<1>6. CASE UNCHANGED vars
  BY <1>6 DEF vars
<1> QED
  BY <1>1, <1>2, <1>3, <1>4, <1>5, <1>6 DEF Next

LEMMA LedgerInvariant == Spec => []LedgerInv
<1>1. Init => LedgerInv
  BY DEF Init, LedgerInv, Typed, Published, Status, Terminal
<1>2. LedgerInv /\ [Next]_vars => LedgerInv'
  BY LedgerStep
<1> QED
  BY <1>1, <1>2, PTL DEF Spec

\* What waiters are told stays what the history says, for any set of runs.
THEOREM LedgerResultIsDurable == Spec => []ResultIsDurable
<1>1. LedgerInv => ResultIsDurable
  BY DEF LedgerInv, Published, ResultIsDurable
<1> QED
  BY <1>1, LedgerInvariant, PTL

\* A terminal row stays, for any set of runs.
THEOREM LedgerFirstTerminalWins == Spec => FirstTerminalWins
<1>1. LedgerInv /\ [Next]_vars
      => [\A r \in Runs : rows[r] \in Terminal => rows'[r] = rows[r]]_vars
  BY LedgerStep
<1> QED
  BY <1>1, LedgerInvariant, PTL DEF Spec, FirstTerminalWins
=============================================================================
