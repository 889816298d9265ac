--------------------------- MODULE ApprovalPromise ---------------------------
(***************************************************************************)
(* What a tool call may rely on when it asks for an approval, whoever       *)
(* answers: a user, a rule of the thread's book, the LLM reviewer, a        *)
(* timeout or a cancel (src/safety/approval).  The call gets at most one    *)
(* answer; it is the first one that was decided; and it is an approval only *)
(* if somebody entitled to had allowed that very request before.            *)
(***************************************************************************)
CONSTANT Requests

VARIABLES allowed,   \* requests that a user, a rule or the reviewer has allowed
          decision,  \* request -> "open", "approved" or "rejected"
          outcome    \* request -> what the tool call got, "none" before
vars == <<allowed, decision, outcome>>

Init == /\ allowed = {}
        /\ decision = [r \in Requests |-> "open"]
        /\ outcome = [r \in Requests |-> "none"]

Allow(r) == /\ allowed' = allowed \cup {r}
            /\ UNCHANGED <<decision, outcome>>

Decide(r, d) == /\ decision[r] = "open"
                /\ d = "approved" => r \in allowed
                /\ decision' = [decision EXCEPT ![r] = d]
                /\ UNCHANGED <<allowed, outcome>>

\* A user's answer is his permission and the decision in one.
Reply(r, d) == /\ decision[r] = "open"
               /\ allowed' = IF d = "approved" THEN allowed \cup {r} ELSE allowed
               /\ decision' = [decision EXCEPT ![r] = d]
               /\ UNCHANGED outcome

Answer(r) == /\ outcome[r] = "none" /\ decision[r] # "open"
             /\ outcome' = [outcome EXCEPT ![r] = decision[r]]
             /\ UNCHANGED <<allowed, decision>>

\* The call itself was cancelled: nothing will be executed for it.
Abort(r) == /\ outcome[r] = "none"
            /\ outcome' = [outcome EXCEPT ![r] = "cancelled"]
            /\ UNCHANGED <<allowed, decision>>

\* No question: a rule of the book, full trust or a hard block answers.
Settle(r, d) ==
  /\ decision[r] = "open" /\ outcome[r] = "none"
  /\ allowed' = IF d = "approved" THEN allowed \cup {r} ELSE allowed
  /\ decision' = [decision EXCEPT ![r] = d]
  /\ outcome' = [outcome EXCEPT ![r] = d]

\* A shutdown rejects what is open.
RejectAll(S) ==
  /\ S \subseteq {r \in Requests : decision[r] = "open"}
  /\ decision' = [r \in Requests |-> IF r \in S THEN "rejected" ELSE decision[r]]
  /\ UNCHANGED <<allowed, outcome>>

Next == \/ \E r \in Requests :
             \/ Allow(r) \/ Answer(r) \/ Abort(r)
             \/ \E d \in {"approved", "rejected"} : Decide(r, d) \/ Reply(r, d) \/ Settle(r, d)
        \/ \E S \in SUBSET Requests : RejectAll(S)

Spec == Init /\ [][Next]_vars

-----------------------------------------------------------------------------
\* A tool is only executed on an allowed request, and on what was decided.
OnlyAllowedApproved ==
  \A r \in Requests : /\ decision[r] = "approved" => r \in allowed
                      /\ outcome[r] \in {"approved", "rejected"} => outcome[r] = decision[r]
=============================================================================
