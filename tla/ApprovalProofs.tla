--------------------------- MODULE ApprovalProofs ---------------------------
(* Theorems about Approvals, for every number of requests, any book, host    *)
(* and way for a save to fail.                                              *)
EXTENDS Approvals, TLAPS

\* Every step keeps the types.
LEMMA TypeStep ==
  ASSUME TypeOK, [Next]_vars
  PROVE  TypeOK'
<1> USE RequestsAssumption DEF TypeOK, Places, Answers, Stages, disk, calls, tasks,
   resolver, history
<1>1. ASSUME NEW r \in Requests, AskAtOnce(r) PROVE TypeOK'
  BY <1>1 DEF AskAtOnce, Create
<1>2. ASSUME NEW r \in Requests, NEW o \in {"approved", "rejected"}, AnswerAtOnce(r, o)
      PROVE TypeOK'
  BY <1>2 DEF AnswerAtOnce
<1>3. ASSUME NEW r \in Requests, Snapshot(r) PROVE TypeOK'
  BY <1>3 DEF Snapshot
<1>4. ASSUME NEW r \in Requests, Ruled(r) PROVE TypeOK'
  BY <1>4 DEF Ruled
<1>5. ASSUME NEW r \in Requests, Ask(r) PROVE TypeOK'
  BY <1>5 DEF Ask, Create
<1>6. ASSUME NEW r \in Requests, Announced(r) PROVE TypeOK'
  BY <1>6 DEF Announced
<1>7. ASSUME NEW r \in Requests, AnnounceCancelled(r) PROVE TypeOK'
  BY <1>7 DEF AnnounceCancelled
<1>8. ASSUME NEW r \in Requests, Wake(r) PROVE TypeOK'
  BY <1>8 DEF Wake, ReviewCancelled
<1>9. ASSUME NEW r \in Requests, Removed(r) PROVE TypeOK'
  BY <1>9 DEF Removed, AnswerOf
<1>10. ASSUME NEW r \in Requests, RemovalCancelled(r) PROVE TypeOK'
  BY <1>10 DEF RemovalCancelled
<1>11. ASSUME NEW r \in Requests, Raised(r) PROVE TypeOK'
  BY <1>11 DEF Raised
<1>12. ASSUME NEW r \in Requests, NEW a \in {"allow", "deny"}, Resolve(r, a)
      PROVE TypeOK'
  BY <1>12 DEF Resolve, Says, UserAnswer
<1>13. ASSUME NEW r \in Requests, ReadBook(r) PROVE TypeOK'
  BY <1>13 DEF ReadBook, MoveOn
<1>14. ASSUME NEW r \in Requests, Commit(r) PROVE TypeOK'
  BY <1>14 DEF Commit, Written, MoveOn
<1>15. ASSUME NEW r \in Requests, NEW a \in {"allow", "deny"}, ResolveRemember(r, a)
      PROVE TypeOK'
  BY <1>15 DEF ResolveRemember, Says
<1>16. ASSUME NEW r \in Requests, SaveFails(r) PROVE TypeOK'
  BY <1>16 DEF SaveFails, Written, MoveOn
<1>17. ASSUME NEW r \in Requests, Final(r) PROVE TypeOK'
  BY <1>17 DEF Final, UserAnswer
<1>18. ASSUME NEW r \in Requests, Restore(r) PROVE TypeOK'
  BY <1>18 DEF Restore, Rearmed
<1>19. ASSUME NEW r \in Requests, TimerFires(r) PROVE TypeOK'
  BY <1>19 DEF TimerFires
<1>20. ASSUME NEW r \in Requests, CancelPending(r) PROVE TypeOK'
  BY <1>20 DEF CancelPending
<1>21. ASSUME NEW r \in Requests, CancelCall(r) PROVE TypeOK'
  BY <1>21 DEF CancelCall
<1>22. ASSUME NEW r \in Requests, ReviewAllows(r) PROVE TypeOK'
  BY <1>22 DEF ReviewAllows
<1>23. ASSUME NEW r \in Requests, ReviewShown(r) PROVE TypeOK'
  BY <1>23 DEF ReviewShown
<1>24. ASSUME NEW r \in Requests, ReviewEnds(r) PROVE TypeOK'
  BY <1>24 DEF ReviewEnds
<1>25. ASSUME NEW r \in Requests, AutoApprove(r) PROVE TypeOK'
  BY <1>25 DEF AutoApprove
<1>26. ASSUME Close PROVE TypeOK'
  BY <1>26 DEF Close
<1>27. ASSUME NEW x \in Rules, NEW v \in {"none", "allow", "deny"}, NEW i \in BOOLEAN,
             EditBook(x, v, i)
      PROVE TypeOK'
  BY <1>27 DEF EditBook
<1>28. ASSUME NEW r \in Requests, Told(r) PROVE TypeOK'
  BY <1>28 DEF Told
<1>29. ASSUME NEW r \in Requests, AnswerRefused(r) PROVE TypeOK'
  BY <1>29 DEF AnswerRefused
<1>30. ASSUME NEW r \in Requests, RaiseCancelled(r) PROVE TypeOK'
  BY <1>30 DEF RaiseCancelled
<1>31. CASE UNCHANGED vars
  BY <1>31 DEF vars
<1> QED
  BY <1>1, <1>2, <1>3, <1>4, <1>5, <1>6, <1>7, <1>8, <1>9, <1>10, <1>11,
     <1>12, <1>13, <1>14, <1>15, <1>16, <1>17, <1>18, <1>19, <1>20, <1>21,
     <1>22, <1>23, <1>24, <1>25, <1>26, <1>27, <1>28, <1>29, <1>30, <1>31
  DEF Next, Call, Resolver, Background

\* ApprovalManager and PermissionsManager keep the kinds of what they hold.
THEOREM TypeCorrect == Spec => []TypeOK
<1>1. Init => TypeOK
  BY DEF Init, TypeOK, Places, Answers, Stages, NoRevision
<1>2. TypeOK /\ [Next]_vars => TypeOK'
  BY TypeStep
<1> QED
  BY <1>1, <1>2, PTL DEF Spec

-----------------------------------------------------------------------------
\* What is in _resolving has a resolve call, at work or gone with an error:
\* so when a timeout finds it there, the request is not left alone.
Manned == \A r \in resolving : stage[r] # "none"
Guarded == Manned /\ FailClosed

LEMMA FailClosedStep ==
  ASSUME TypeOK, Guarded, [Next]_vars
  PROVE  Guarded'
<1> USE DEF TypeOK, Stages, Guarded, Manned, FailClosed, Abandoned, Open, Settleable, disk, calls, tasks, resolver, history
<1>1. ASSUME NEW r \in Requests, AskAtOnce(r) PROVE Guarded'
  BY <1>1 DEF AskAtOnce, Create
<1>2. ASSUME NEW r \in Requests, NEW o \in {"approved", "rejected"}, AnswerAtOnce(r, o)
      PROVE Guarded'
  BY <1>2 DEF AnswerAtOnce
<1>3. ASSUME NEW r \in Requests, Snapshot(r) PROVE Guarded'
  BY <1>3 DEF Snapshot
<1>4. ASSUME NEW r \in Requests, Ruled(r) PROVE Guarded'
  BY <1>4 DEF Ruled
<1>5. ASSUME NEW r \in Requests, Ask(r) PROVE Guarded'
  BY <1>5 DEF Ask, Create
<1>6. ASSUME NEW r \in Requests, Announced(r) PROVE Guarded'
  BY <1>6 DEF Announced
<1>7. ASSUME NEW r \in Requests, AnnounceCancelled(r) PROVE Guarded'
  BY <1>7 DEF AnnounceCancelled
<1>8. ASSUME NEW r \in Requests, Wake(r) PROVE Guarded'
  BY <1>8 DEF Wake, ReviewCancelled
<1>9. ASSUME NEW r \in Requests, Removed(r) PROVE Guarded'
  BY <1>9 DEF Removed, AnswerOf
<1>10. ASSUME NEW r \in Requests, RemovalCancelled(r) PROVE Guarded'
  BY <1>10 DEF RemovalCancelled
<1>11. ASSUME NEW r \in Requests, Raised(r) PROVE Guarded'
  BY <1>11 DEF Raised
<1>12. ASSUME NEW r \in Requests, NEW a \in {"allow", "deny"}, Resolve(r, a)
      PROVE Guarded'
  BY <1>12 DEF Resolve, Says, UserAnswer
<1>13. ASSUME NEW r \in Requests, ReadBook(r) PROVE Guarded'
  BY <1>13 DEF ReadBook, MoveOn
<1>14. ASSUME NEW r \in Requests, Commit(r) PROVE Guarded'
  BY <1>14 DEF Commit, Written, MoveOn
<1>15. ASSUME NEW r \in Requests, NEW a \in {"allow", "deny"}, ResolveRemember(r, a)
      PROVE Guarded'
  BY <1>15 DEF ResolveRemember, Says
<1>16. ASSUME NEW r \in Requests, SaveFails(r) PROVE Guarded'
  BY <1>16 DEF SaveFails, Written, MoveOn
<1>17. ASSUME NEW r \in Requests, Final(r) PROVE Guarded'
  BY <1>17 DEF Final, UserAnswer
<1>18. ASSUME NEW r \in Requests, Restore(r) PROVE Guarded'
  BY <1>18 DEF Restore, Rearmed
<1>19. ASSUME NEW r \in Requests, TimerFires(r) PROVE Guarded'
  BY <1>19 DEF TimerFires
<1>20. ASSUME NEW r \in Requests, CancelPending(r) PROVE Guarded'
  BY <1>20 DEF CancelPending
<1>21. ASSUME NEW r \in Requests, CancelCall(r) PROVE Guarded'
  BY <1>21 DEF CancelCall
<1>22. ASSUME NEW r \in Requests, ReviewAllows(r) PROVE Guarded'
  BY <1>22 DEF ReviewAllows
<1>23. ASSUME NEW r \in Requests, ReviewShown(r) PROVE Guarded'
  BY <1>23 DEF ReviewShown
<1>24. ASSUME NEW r \in Requests, ReviewEnds(r) PROVE Guarded'
  BY <1>24 DEF ReviewEnds
<1>25. ASSUME NEW r \in Requests, AutoApprove(r) PROVE Guarded'
  BY <1>25 DEF AutoApprove
<1>26. ASSUME Close PROVE Guarded'
  BY <1>26 DEF Close
<1>27. ASSUME NEW x \in Rules, NEW v \in {"none", "allow", "deny"}, NEW i \in BOOLEAN,
             EditBook(x, v, i)
      PROVE Guarded'
  BY <1>27 DEF EditBook
<1>28. ASSUME NEW r \in Requests, Told(r) PROVE Guarded'
  BY <1>28 DEF Told
<1>29. ASSUME NEW r \in Requests, AnswerRefused(r) PROVE Guarded'
  BY <1>29 DEF AnswerRefused
<1>30. ASSUME NEW r \in Requests, RaiseCancelled(r) PROVE Guarded'
  BY <1>30 DEF RaiseCancelled
<1>31. CASE UNCHANGED vars
  BY <1>31 DEF vars
<1> QED
  BY <1>1, <1>2, <1>3, <1>4, <1>5, <1>6, <1>7, <1>8, <1>9, <1>10, <1>11,
     <1>12, <1>13, <1>14, <1>15, <1>16, <1>17, <1>18, <1>19, <1>20, <1>21,
     <1>22, <1>23, <1>24, <1>25, <1>26, <1>27, <1>28, <1>29, <1>30, <1>31
  DEF Next, Call, Resolver, Background

\* request, resolve, _restore_after_failed_resolve, aclose: whatever fails or
\* is cancelled, a pending nobody has decided keeps a timeout that will refuse
\* it, or belongs to a resolve call at work; but for the save that raised.
THEOREM FailsClosed == Spec => []FailClosed
<1>1. Init => Guarded
  BY DEF Init, Guarded, Manned, FailClosed, Open
<1>2. TypeOK /\ Guarded /\ [Next]_vars => Guarded'
  BY FailClosedStep
<1>3. Guarded => FailClosed
  BY DEF Guarded
<1> QED
  BY <1>1, <1>2, <1>3, TypeCorrect, PTL DEF Spec

-----------------------------------------------------------------------------
(* What the refinement and the answer of a saved rule rest on: which values  *)
(* the pending, the future and the outcome have at each place of the call,   *)
(* who stands behind an approval, and what a resolve call owns.              *)

\* The call was cancelled: what happens to its future does not matter.
Gone(r) == call[r] \in {"raising", "torn"} \/ (call[r] = "ended" /\ outcome[r] = "cancelled")

Fresh(r) == /\ r \notin pending /\ future[r] = "open" /\ outcome[r] = "none"
            /\ stage[r] = "none" /\ kept[r] = "none"
Asked(r) == r \in pending /\ future[r] # "dropped" /\ outcome[r] = "none"
Cleaned(r) == r \notin pending /\ outcome[r] = "none"

PlaceInv ==
  \A r \in Requests :
    /\ call[r] \in {"idle", "looking"} => Fresh(r)
    /\ call[r] \in {"announcing", "waiting"} => Asked(r)
    /\ call[r] = "removing" => Cleaned(r) /\ future[r] \notin {"open", "dropped"}
    /\ call[r] = "raising" => Cleaned(r)
    /\ call[r] = "ended" => r \notin pending /\ outcome[r] # "none"
    /\ call[r] = "torn" => outcome[r] = "cancelled"

\* A call that ended with an answer got the future's, unless there was no question.
AnswerInv ==
  \A r \in Requests : outcome[r] \in {"approved", "rejected"} =>
    \/ future[r] = "open"
    \/ future[r] \notin {"open", "dropped"} /\ outcome[r] = AnswerOf(future[r])

\* Somebody allowed what is approved, or about to be.
AllowedInv ==
  \A r \in Requests :
    /\ r \in countdown => r \in allowed
    /\ stage[r] # "none" /\ said[r] = "allow" => r \in allowed
    /\ future[r] \in {"user_allow", "llm"} => r \in allowed

\* While a resolve call is at work nobody else answers its request.
OwnsInv ==
  \A r \in Requests : stage[r] \in {"queued", "writing", "saved", "failed"} =>
    \/ Gone(r)
    \/ r \in resolving /\ future[r] = "open" /\ call[r] \in {"announcing", "waiting"}

Verdict(r) == IF kept[r] = "allow" THEN "user_allow" ELSE "user_deny"
KeptInv ==
  \A r \in Requests : kept[r] # "none" =>
    \/ Gone(r)
    \/ /\ r \in resolving /\ future[r] = "open" /\ call[r] \in {"announcing", "waiting"}
       /\ stage[r] = "none" \/ (stage[r] = "saved" /\ said[r] = kept[r])
    \/ /\ future[r] = Verdict(r) /\ stage[r] = "none"
       /\ call[r] \in {"announcing", "waiting", "removing", "ended"}
       /\ outcome[r] \in {"none", AnswerOf(future[r])}

ShownInv ==
  \A r \in Requests : /\ review[r] # "none" => r \in pending
                      /\ r \in shown => call[r] \notin {"idle", "looking"}

LEMMA PlaceStep ==
  ASSUME TypeOK, PlaceInv, [Next]_vars
  PROVE  PlaceInv'
<1> USE DEF TypeOK, PlaceInv, Fresh, Asked, Cleaned, Open, Settleable, NoRevision, Answers,
   disk, calls, tasks, resolver, history
<1>1. ASSUME NEW r \in Requests, AskAtOnce(r) PROVE PlaceInv'
  BY <1>1 DEF AskAtOnce, Create
<1>2. ASSUME NEW r \in Requests, NEW o \in {"approved", "rejected"}, AnswerAtOnce(r, o)
      PROVE PlaceInv'
  BY <1>2 DEF AnswerAtOnce
<1>3. ASSUME NEW r \in Requests, Snapshot(r) PROVE PlaceInv'
  BY <1>3 DEF Snapshot
<1>4. ASSUME NEW r \in Requests, Ruled(r) PROVE PlaceInv'
  BY <1>4 DEF Ruled
<1>5. ASSUME NEW r \in Requests, Ask(r) PROVE PlaceInv'
  BY <1>5 DEF Ask, Create
<1>6. ASSUME NEW r \in Requests, Announced(r) PROVE PlaceInv'
  BY <1>6 DEF Announced
<1>7. ASSUME NEW r \in Requests, AnnounceCancelled(r) PROVE PlaceInv'
  BY <1>7 DEF AnnounceCancelled
<1>8. ASSUME NEW r \in Requests, Wake(r) PROVE PlaceInv'
  BY <1>8 DEF Wake, ReviewCancelled
<1>9. ASSUME NEW r \in Requests, Removed(r) PROVE PlaceInv'
  BY <1>9 DEF Removed, AnswerOf
<1>10. ASSUME NEW r \in Requests, RemovalCancelled(r) PROVE PlaceInv'
  BY <1>10 DEF RemovalCancelled
<1>11. ASSUME NEW r \in Requests, Raised(r) PROVE PlaceInv'
  BY <1>11 DEF Raised
<1>12. ASSUME NEW r \in Requests, NEW a \in {"allow", "deny"}, Resolve(r, a)
      PROVE PlaceInv'
  BY <1>12 DEF Resolve, Says, UserAnswer
<1>13. ASSUME NEW r \in Requests, ReadBook(r) PROVE PlaceInv'
  BY <1>13 DEF ReadBook, MoveOn
<1>14. ASSUME NEW r \in Requests, Commit(r) PROVE PlaceInv'
  BY <1>14 DEF Commit, Written, MoveOn
<1>15. ASSUME NEW r \in Requests, NEW a \in {"allow", "deny"}, ResolveRemember(r, a)
      PROVE PlaceInv'
  BY <1>15 DEF ResolveRemember, Says
<1>16. ASSUME NEW r \in Requests, SaveFails(r) PROVE PlaceInv'
  BY <1>16 DEF SaveFails, Written, MoveOn
<1>17. ASSUME NEW r \in Requests, Final(r) PROVE PlaceInv'
  BY <1>17 DEF Final, UserAnswer
<1>18. ASSUME NEW r \in Requests, Restore(r) PROVE PlaceInv'
  BY <1>18 DEF Restore, Rearmed
<1>19. ASSUME NEW r \in Requests, TimerFires(r) PROVE PlaceInv'
  BY <1>19 DEF TimerFires
<1>20. ASSUME NEW r \in Requests, CancelPending(r) PROVE PlaceInv'
  BY <1>20 DEF CancelPending
<1>21. ASSUME NEW r \in Requests, CancelCall(r) PROVE PlaceInv'
  BY <1>21 DEF CancelCall
<1>22. ASSUME NEW r \in Requests, ReviewAllows(r) PROVE PlaceInv'
  BY <1>22 DEF ReviewAllows
<1>23. ASSUME NEW r \in Requests, ReviewShown(r) PROVE PlaceInv'
  BY <1>23 DEF ReviewShown
<1>24. ASSUME NEW r \in Requests, ReviewEnds(r) PROVE PlaceInv'
  BY <1>24 DEF ReviewEnds
<1>25. ASSUME NEW r \in Requests, AutoApprove(r) PROVE PlaceInv'
  BY <1>25 DEF AutoApprove
<1>26. ASSUME Close PROVE PlaceInv'
  BY <1>26 DEF Close
<1>27. ASSUME NEW x \in Rules, NEW v \in {"none", "allow", "deny"}, NEW i \in BOOLEAN,
             EditBook(x, v, i)
      PROVE PlaceInv'
  BY <1>27 DEF EditBook
<1>28. ASSUME NEW r \in Requests, Told(r) PROVE PlaceInv'
  BY <1>28 DEF Told
<1>29. ASSUME NEW r \in Requests, AnswerRefused(r) PROVE PlaceInv'
  BY <1>29 DEF AnswerRefused
<1>30. ASSUME NEW r \in Requests, RaiseCancelled(r) PROVE PlaceInv'
  BY <1>30 DEF RaiseCancelled
<1>31. CASE UNCHANGED vars
  BY <1>31 DEF vars
<1> QED
  BY <1>1, <1>2, <1>3, <1>4, <1>5, <1>6, <1>7, <1>8, <1>9, <1>10, <1>11,
     <1>12, <1>13, <1>14, <1>15, <1>16, <1>17, <1>18, <1>19, <1>20, <1>21,
     <1>22, <1>23, <1>24, <1>25, <1>26, <1>27, <1>28, <1>29, <1>30, <1>31
  DEF Next, Call, Resolver, Background

LEMMA AnswerStep ==
  ASSUME TypeOK, PlaceInv, OwnsInv, AnswerInv, [Next]_vars
  PROVE  AnswerInv'
<1> USE DEF TypeOK, Places, PlaceInv, Fresh, Asked, Cleaned, OwnsInv, Gone, AnswerInv,
   AnswerOf, Open, Settleable, NoRevision, disk, calls, tasks, resolver, history
<1>1. ASSUME NEW r \in Requests, AskAtOnce(r) PROVE AnswerInv'
  BY <1>1 DEF AskAtOnce, Create
<1>2. ASSUME NEW r \in Requests, NEW o \in {"approved", "rejected"}, AnswerAtOnce(r, o)
      PROVE AnswerInv'
  BY <1>2 DEF AnswerAtOnce
<1>3. ASSUME NEW r \in Requests, Snapshot(r) PROVE AnswerInv'
  BY <1>3 DEF Snapshot
<1>4. ASSUME NEW r \in Requests, Ruled(r) PROVE AnswerInv'
  BY <1>4 DEF Ruled
<1>5. ASSUME NEW r \in Requests, Ask(r) PROVE AnswerInv'
  BY <1>5 DEF Ask, Create
<1>6. ASSUME NEW r \in Requests, Announced(r) PROVE AnswerInv'
  BY <1>6 DEF Announced
<1>7. ASSUME NEW r \in Requests, AnnounceCancelled(r) PROVE AnswerInv'
  BY <1>7 DEF AnnounceCancelled
<1>8. ASSUME NEW r \in Requests, Wake(r) PROVE AnswerInv'
  BY <1>8 DEF Wake, ReviewCancelled
<1>9. ASSUME NEW r \in Requests, Removed(r) PROVE AnswerInv'
  BY <1>9 DEF Removed, AnswerOf
<1>10. ASSUME NEW r \in Requests, RemovalCancelled(r) PROVE AnswerInv'
  BY <1>10 DEF RemovalCancelled
<1>11. ASSUME NEW r \in Requests, Raised(r) PROVE AnswerInv'
  BY <1>11 DEF Raised
<1>12. ASSUME NEW r \in Requests, NEW a \in {"allow", "deny"}, Resolve(r, a)
      PROVE AnswerInv'
  BY <1>12 DEF Resolve, Says, UserAnswer
<1>13. ASSUME NEW r \in Requests, ReadBook(r) PROVE AnswerInv'
  BY <1>13 DEF ReadBook, MoveOn
<1>14. ASSUME NEW r \in Requests, Commit(r) PROVE AnswerInv'
  BY <1>14 DEF Commit, Written, MoveOn
<1>15. ASSUME NEW r \in Requests, NEW a \in {"allow", "deny"}, ResolveRemember(r, a)
      PROVE AnswerInv'
  BY <1>15 DEF ResolveRemember, Says
<1>16. ASSUME NEW r \in Requests, SaveFails(r) PROVE AnswerInv'
  BY <1>16 DEF SaveFails, Written, MoveOn
<1>17. ASSUME NEW r \in Requests, Final(r) PROVE AnswerInv'
  BY <1>17 DEF Final, UserAnswer
<1>18. ASSUME NEW r \in Requests, Restore(r) PROVE AnswerInv'
  BY <1>18 DEF Restore, Rearmed
<1>19. ASSUME NEW r \in Requests, TimerFires(r) PROVE AnswerInv'
  BY <1>19 DEF TimerFires
<1>20. ASSUME NEW r \in Requests, CancelPending(r) PROVE AnswerInv'
  BY <1>20 DEF CancelPending
<1>21. ASSUME NEW r \in Requests, CancelCall(r) PROVE AnswerInv'
  BY <1>21 DEF CancelCall
<1>22. ASSUME NEW r \in Requests, ReviewAllows(r) PROVE AnswerInv'
  BY <1>22 DEF ReviewAllows
<1>23. ASSUME NEW r \in Requests, ReviewShown(r) PROVE AnswerInv'
  BY <1>23 DEF ReviewShown
<1>24. ASSUME NEW r \in Requests, ReviewEnds(r) PROVE AnswerInv'
  BY <1>24 DEF ReviewEnds
<1>25. ASSUME NEW r \in Requests, AutoApprove(r) PROVE AnswerInv'
  BY <1>25 DEF AutoApprove
<1>26. ASSUME Close PROVE AnswerInv'
  BY <1>26 DEF Close
<1>27. ASSUME NEW x \in Rules, NEW v \in {"none", "allow", "deny"}, NEW i \in BOOLEAN,
             EditBook(x, v, i)
      PROVE AnswerInv'
  BY <1>27 DEF EditBook
<1>28. ASSUME NEW r \in Requests, Told(r) PROVE AnswerInv'
  BY <1>28 DEF Told
<1>29. ASSUME NEW r \in Requests, AnswerRefused(r) PROVE AnswerInv'
  BY <1>29 DEF AnswerRefused
<1>30. ASSUME NEW r \in Requests, RaiseCancelled(r) PROVE AnswerInv'
  BY <1>30 DEF RaiseCancelled
<1>31. CASE UNCHANGED vars
  BY <1>31 DEF vars
<1> QED
  BY <1>1, <1>2, <1>3, <1>4, <1>5, <1>6, <1>7, <1>8, <1>9, <1>10, <1>11,
     <1>12, <1>13, <1>14, <1>15, <1>16, <1>17, <1>18, <1>19, <1>20, <1>21,
     <1>22, <1>23, <1>24, <1>25, <1>26, <1>27, <1>28, <1>29, <1>30, <1>31
  DEF Next, Call, Resolver, Background

LEMMA AllowedStep ==
  ASSUME TypeOK, PlaceInv, AllowedInv, [Next]_vars
  PROVE  AllowedInv'
<1> USE DEF TypeOK, PlaceInv, Fresh, AllowedInv, disk, calls, tasks, resolver, history
<1>1. ASSUME NEW r \in Requests, AskAtOnce(r) PROVE AllowedInv'
  BY <1>1 DEF AskAtOnce, Create
<1>2. ASSUME NEW r \in Requests, NEW o \in {"approved", "rejected"}, AnswerAtOnce(r, o)
      PROVE AllowedInv'
  BY <1>2 DEF AnswerAtOnce
<1>3. ASSUME NEW r \in Requests, Snapshot(r) PROVE AllowedInv'
  BY <1>3 DEF Snapshot
<1>4. ASSUME NEW r \in Requests, Ruled(r) PROVE AllowedInv'
  BY <1>4 DEF Ruled
<1>5. ASSUME NEW r \in Requests, Ask(r) PROVE AllowedInv'
  BY <1>5 DEF Ask, Create
<1>6. ASSUME NEW r \in Requests, Announced(r) PROVE AllowedInv'
  BY <1>6 DEF Announced
<1>7. ASSUME NEW r \in Requests, AnnounceCancelled(r) PROVE AllowedInv'
  BY <1>7 DEF AnnounceCancelled
<1>8. ASSUME NEW r \in Requests, Wake(r) PROVE AllowedInv'
  BY <1>8 DEF Wake, ReviewCancelled
<1>9. ASSUME NEW r \in Requests, Removed(r) PROVE AllowedInv'
  BY <1>9 DEF Removed, AnswerOf
<1>10. ASSUME NEW r \in Requests, RemovalCancelled(r) PROVE AllowedInv'
  BY <1>10 DEF RemovalCancelled
<1>11. ASSUME NEW r \in Requests, Raised(r) PROVE AllowedInv'
  BY <1>11 DEF Raised
<1>12. ASSUME NEW r \in Requests, NEW a \in {"allow", "deny"}, Resolve(r, a)
      PROVE AllowedInv'
  BY <1>12 DEF Resolve, Says, UserAnswer
<1>13. ASSUME NEW r \in Requests, ReadBook(r) PROVE AllowedInv'
  BY <1>13 DEF ReadBook, MoveOn
<1>14. ASSUME NEW r \in Requests, Commit(r) PROVE AllowedInv'
  BY <1>14 DEF Commit, Written, MoveOn
<1>15. ASSUME NEW r \in Requests, NEW a \in {"allow", "deny"}, ResolveRemember(r, a)
      PROVE AllowedInv'
  BY <1>15 DEF ResolveRemember, Says
<1>16. ASSUME NEW r \in Requests, SaveFails(r) PROVE AllowedInv'
  BY <1>16 DEF SaveFails, Written, MoveOn
<1>17. ASSUME NEW r \in Requests, Final(r) PROVE AllowedInv'
  BY <1>17 DEF Final, UserAnswer
<1>18. ASSUME NEW r \in Requests, Restore(r) PROVE AllowedInv'
  BY <1>18 DEF Restore, Rearmed
<1>19. ASSUME NEW r \in Requests, TimerFires(r) PROVE AllowedInv'
  BY <1>19 DEF TimerFires
<1>20. ASSUME NEW r \in Requests, CancelPending(r) PROVE AllowedInv'
  BY <1>20 DEF CancelPending
<1>21. ASSUME NEW r \in Requests, CancelCall(r) PROVE AllowedInv'
  BY <1>21 DEF CancelCall
<1>22. ASSUME NEW r \in Requests, ReviewAllows(r) PROVE AllowedInv'
  BY <1>22 DEF ReviewAllows
<1>23. ASSUME NEW r \in Requests, ReviewShown(r) PROVE AllowedInv'
  BY <1>23 DEF ReviewShown
<1>24. ASSUME NEW r \in Requests, ReviewEnds(r) PROVE AllowedInv'
  BY <1>24 DEF ReviewEnds
<1>25. ASSUME NEW r \in Requests, AutoApprove(r) PROVE AllowedInv'
  BY <1>25 DEF AutoApprove
<1>26. ASSUME Close PROVE AllowedInv'
  BY <1>26 DEF Close
<1>27. ASSUME NEW x \in Rules, NEW v \in {"none", "allow", "deny"}, NEW i \in BOOLEAN,
             EditBook(x, v, i)
      PROVE AllowedInv'
  BY <1>27 DEF EditBook
<1>28. ASSUME NEW r \in Requests, Told(r) PROVE AllowedInv'
  BY <1>28 DEF Told
<1>29. ASSUME NEW r \in Requests, AnswerRefused(r) PROVE AllowedInv'
  BY <1>29 DEF AnswerRefused
<1>30. ASSUME NEW r \in Requests, RaiseCancelled(r) PROVE AllowedInv'
  BY <1>30 DEF RaiseCancelled
<1>31. CASE UNCHANGED vars
  BY <1>31 DEF vars
<1> QED
  BY <1>1, <1>2, <1>3, <1>4, <1>5, <1>6, <1>7, <1>8, <1>9, <1>10, <1>11,
     <1>12, <1>13, <1>14, <1>15, <1>16, <1>17, <1>18, <1>19, <1>20, <1>21,
     <1>22, <1>23, <1>24, <1>25, <1>26, <1>27, <1>28, <1>29, <1>30, <1>31
  DEF Next, Call, Resolver, Background

LEMMA OwnsStep ==
  ASSUME TypeOK, PlaceInv, OwnsInv, [Next]_vars
  PROVE  OwnsInv'
<1> USE DEF TypeOK, Places, PlaceInv, Fresh, Asked, Cleaned, OwnsInv, Gone, Open,
   Settleable, disk, calls, tasks, resolver, history
<1>1. ASSUME NEW r \in Requests, AskAtOnce(r) PROVE OwnsInv'
  BY <1>1 DEF AskAtOnce, Create
<1>2. ASSUME NEW r \in Requests, NEW o \in {"approved", "rejected"}, AnswerAtOnce(r, o)
      PROVE OwnsInv'
  BY <1>2 DEF AnswerAtOnce
<1>3. ASSUME NEW r \in Requests, Snapshot(r) PROVE OwnsInv'
  BY <1>3 DEF Snapshot
<1>4. ASSUME NEW r \in Requests, Ruled(r) PROVE OwnsInv'
  BY <1>4 DEF Ruled
<1>5. ASSUME NEW r \in Requests, Ask(r) PROVE OwnsInv'
  BY <1>5 DEF Ask, Create
<1>6. ASSUME NEW r \in Requests, Announced(r) PROVE OwnsInv'
  BY <1>6 DEF Announced
<1>7. ASSUME NEW r \in Requests, AnnounceCancelled(r) PROVE OwnsInv'
  BY <1>7 DEF AnnounceCancelled
<1>8. ASSUME NEW r \in Requests, Wake(r) PROVE OwnsInv'
  BY <1>8 DEF Wake, ReviewCancelled
<1>9. ASSUME NEW r \in Requests, Removed(r) PROVE OwnsInv'
  BY <1>9 DEF Removed, AnswerOf
<1>10. ASSUME NEW r \in Requests, RemovalCancelled(r) PROVE OwnsInv'
  BY <1>10 DEF RemovalCancelled
<1>11. ASSUME NEW r \in Requests, Raised(r) PROVE OwnsInv'
  BY <1>11 DEF Raised
<1>12. ASSUME NEW r \in Requests, NEW a \in {"allow", "deny"}, Resolve(r, a)
      PROVE OwnsInv'
  BY <1>12 DEF Resolve, Says, UserAnswer
<1>13. ASSUME NEW r \in Requests, ReadBook(r) PROVE OwnsInv'
  BY <1>13 DEF ReadBook, MoveOn
<1>14. ASSUME NEW r \in Requests, Commit(r) PROVE OwnsInv'
  BY <1>14 DEF Commit, Written, MoveOn
<1>15. ASSUME NEW r \in Requests, NEW a \in {"allow", "deny"}, ResolveRemember(r, a)
      PROVE OwnsInv'
  BY <1>15 DEF ResolveRemember, Says
<1>16. ASSUME NEW r \in Requests, SaveFails(r) PROVE OwnsInv'
  BY <1>16 DEF SaveFails, Written, MoveOn
<1>17. ASSUME NEW r \in Requests, Final(r) PROVE OwnsInv'
  BY <1>17 DEF Final, UserAnswer
<1>18. ASSUME NEW r \in Requests, Restore(r) PROVE OwnsInv'
  BY <1>18 DEF Restore, Rearmed
<1>19. ASSUME NEW r \in Requests, TimerFires(r) PROVE OwnsInv'
  BY <1>19 DEF TimerFires
<1>20. ASSUME NEW r \in Requests, CancelPending(r) PROVE OwnsInv'
  BY <1>20 DEF CancelPending
<1>21. ASSUME NEW r \in Requests, CancelCall(r) PROVE OwnsInv'
  BY <1>21 DEF CancelCall
<1>22. ASSUME NEW r \in Requests, ReviewAllows(r) PROVE OwnsInv'
  BY <1>22 DEF ReviewAllows
<1>23. ASSUME NEW r \in Requests, ReviewShown(r) PROVE OwnsInv'
  BY <1>23 DEF ReviewShown
<1>24. ASSUME NEW r \in Requests, ReviewEnds(r) PROVE OwnsInv'
  BY <1>24 DEF ReviewEnds
<1>25. ASSUME NEW r \in Requests, AutoApprove(r) PROVE OwnsInv'
  BY <1>25 DEF AutoApprove
<1>26. ASSUME Close PROVE OwnsInv'
  BY <1>26 DEF Close
<1>27. ASSUME NEW x \in Rules, NEW v \in {"none", "allow", "deny"}, NEW i \in BOOLEAN,
             EditBook(x, v, i)
      PROVE OwnsInv'
  BY <1>27 DEF EditBook
<1>28. ASSUME NEW r \in Requests, Told(r) PROVE OwnsInv'
  BY <1>28 DEF Told
<1>29. ASSUME NEW r \in Requests, AnswerRefused(r) PROVE OwnsInv'
  BY <1>29 DEF AnswerRefused
<1>30. ASSUME NEW r \in Requests, RaiseCancelled(r) PROVE OwnsInv'
  BY <1>30 DEF RaiseCancelled
<1>31. CASE UNCHANGED vars
  BY <1>31 DEF vars
<1> QED
  BY <1>1, <1>2, <1>3, <1>4, <1>5, <1>6, <1>7, <1>8, <1>9, <1>10, <1>11,
     <1>12, <1>13, <1>14, <1>15, <1>16, <1>17, <1>18, <1>19, <1>20, <1>21,
     <1>22, <1>23, <1>24, <1>25, <1>26, <1>27, <1>28, <1>29, <1>30, <1>31
  DEF Next, Call, Resolver, Background

LEMMA KeptStep ==
  ASSUME TypeOK, PlaceInv, OwnsInv, KeptInv, [Next]_vars
  PROVE  KeptInv'
<1> USE DEF TypeOK, PlaceInv, Fresh, Asked, Cleaned, OwnsInv, KeptInv, Verdict, AnswerOf,
   Gone, Open, Settleable, disk, calls, tasks, resolver, history
<1>1. ASSUME NEW r \in Requests, AskAtOnce(r) PROVE KeptInv'
  BY <1>1 DEF AskAtOnce, Create
<1>2. ASSUME NEW r \in Requests, NEW o \in {"approved", "rejected"}, AnswerAtOnce(r, o)
      PROVE KeptInv'
  BY <1>2 DEF AnswerAtOnce
<1>3. ASSUME NEW r \in Requests, Snapshot(r) PROVE KeptInv'
  BY <1>3 DEF Snapshot
<1>4. ASSUME NEW r \in Requests, Ruled(r) PROVE KeptInv'
  BY <1>4 DEF Ruled
<1>5. ASSUME NEW r \in Requests, Ask(r) PROVE KeptInv'
  BY <1>5 DEF Ask, Create
<1>6. ASSUME NEW r \in Requests, Announced(r) PROVE KeptInv'
  BY <1>6 DEF Announced
<1>7. ASSUME NEW r \in Requests, AnnounceCancelled(r) PROVE KeptInv'
  BY <1>7 DEF AnnounceCancelled
<1>8. ASSUME NEW r \in Requests, Wake(r) PROVE KeptInv'
  BY <1>8 DEF Wake, ReviewCancelled
<1>9. ASSUME NEW r \in Requests, Removed(r) PROVE KeptInv'
  BY <1>9 DEF Removed, AnswerOf
<1>10. ASSUME NEW r \in Requests, RemovalCancelled(r) PROVE KeptInv'
  BY <1>10 DEF RemovalCancelled
<1>11. ASSUME NEW r \in Requests, Raised(r) PROVE KeptInv'
  BY <1>11 DEF Raised
<1>12. ASSUME NEW r \in Requests, NEW a \in {"allow", "deny"}, Resolve(r, a)
      PROVE KeptInv'
  BY <1>12 DEF Resolve, Says, UserAnswer
<1>13. ASSUME NEW r \in Requests, ReadBook(r) PROVE KeptInv'
  BY <1>13 DEF ReadBook, MoveOn
<1>14. ASSUME NEW r \in Requests, Commit(r) PROVE KeptInv'
  BY <1>14 DEF Commit, Written, MoveOn
<1>15. ASSUME NEW r \in Requests, NEW a \in {"allow", "deny"}, ResolveRemember(r, a)
      PROVE KeptInv'
  BY <1>15 DEF ResolveRemember, Says
<1>16. ASSUME NEW r \in Requests, SaveFails(r) PROVE KeptInv'
  BY <1>16 DEF SaveFails, Written, MoveOn
<1>17. ASSUME NEW r \in Requests, Final(r) PROVE KeptInv'
  BY <1>17 DEF Final, UserAnswer
<1>18. ASSUME NEW r \in Requests, Restore(r) PROVE KeptInv'
  BY <1>18 DEF Restore, Rearmed
<1>19. ASSUME NEW r \in Requests, TimerFires(r) PROVE KeptInv'
  BY <1>19 DEF TimerFires
<1>20. ASSUME NEW r \in Requests, CancelPending(r) PROVE KeptInv'
  BY <1>20 DEF CancelPending
<1>21. ASSUME NEW r \in Requests, CancelCall(r) PROVE KeptInv'
  BY <1>21 DEF CancelCall
<1>22. ASSUME NEW r \in Requests, ReviewAllows(r) PROVE KeptInv'
  BY <1>22 DEF ReviewAllows
<1>23. ASSUME NEW r \in Requests, ReviewShown(r) PROVE KeptInv'
  BY <1>23 DEF ReviewShown
<1>24. ASSUME NEW r \in Requests, ReviewEnds(r) PROVE KeptInv'
  BY <1>24 DEF ReviewEnds
<1>25. ASSUME NEW r \in Requests, AutoApprove(r) PROVE KeptInv'
  BY <1>25 DEF AutoApprove
<1>26. ASSUME Close PROVE KeptInv'
  BY <1>26 DEF Close
<1>27. ASSUME NEW x \in Rules, NEW v \in {"none", "allow", "deny"}, NEW i \in BOOLEAN,
             EditBook(x, v, i)
      PROVE KeptInv'
  BY <1>27 DEF EditBook
<1>28. ASSUME NEW r \in Requests, Told(r) PROVE KeptInv'
  BY <1>28 DEF Told
<1>29. ASSUME NEW r \in Requests, AnswerRefused(r) PROVE KeptInv'
  BY <1>29 DEF AnswerRefused
<1>30. ASSUME NEW r \in Requests, RaiseCancelled(r) PROVE KeptInv'
  BY <1>30 DEF RaiseCancelled
<1>31. CASE UNCHANGED vars
  BY <1>31 DEF vars
<1> QED
  BY <1>1, <1>2, <1>3, <1>4, <1>5, <1>6, <1>7, <1>8, <1>9, <1>10, <1>11,
     <1>12, <1>13, <1>14, <1>15, <1>16, <1>17, <1>18, <1>19, <1>20, <1>21,
     <1>22, <1>23, <1>24, <1>25, <1>26, <1>27, <1>28, <1>29, <1>30, <1>31
  DEF Next, Call, Resolver, Background

LEMMA ShownStep ==
  ASSUME TypeOK, PlaceInv, ShownInv, InboxShowsPending, [Next]_vars
  PROVE  (ShownInv /\ InboxShowsPending)'
<1> USE DEF TypeOK, PlaceInv, Fresh, Asked, Cleaned, ShownInv, InboxShowsPending, Open,
   disk, calls, tasks, resolver, history
<1>1. ASSUME NEW r \in Requests, AskAtOnce(r)
      PROVE (ShownInv /\ InboxShowsPending)'
  BY <1>1 DEF AskAtOnce, Create
<1>2. ASSUME NEW r \in Requests, NEW o \in {"approved", "rejected"}, AnswerAtOnce(r, o)
      PROVE (ShownInv /\ InboxShowsPending)'
  BY <1>2 DEF AnswerAtOnce
<1>3. ASSUME NEW r \in Requests, Snapshot(r)
      PROVE (ShownInv /\ InboxShowsPending)'
  BY <1>3 DEF Snapshot
<1>4. ASSUME NEW r \in Requests, Ruled(r) PROVE (ShownInv /\ InboxShowsPending)'
  BY <1>4 DEF Ruled
<1>5. ASSUME NEW r \in Requests, Ask(r) PROVE (ShownInv /\ InboxShowsPending)'
  BY <1>5 DEF Ask, Create
<1>6. ASSUME NEW r \in Requests, Announced(r)
      PROVE (ShownInv /\ InboxShowsPending)'
  BY <1>6 DEF Announced
<1>7. ASSUME NEW r \in Requests, AnnounceCancelled(r)
      PROVE (ShownInv /\ InboxShowsPending)'
  BY <1>7 DEF AnnounceCancelled
<1>8. ASSUME NEW r \in Requests, Wake(r) PROVE (ShownInv /\ InboxShowsPending)'
  BY <1>8 DEF Wake, ReviewCancelled
<1>9. ASSUME NEW r \in Requests, Removed(r) PROVE (ShownInv /\ InboxShowsPending)'
  BY <1>9 DEF Removed, AnswerOf
<1>10. ASSUME NEW r \in Requests, RemovalCancelled(r)
      PROVE (ShownInv /\ InboxShowsPending)'
  BY <1>10 DEF RemovalCancelled
<1>11. ASSUME NEW r \in Requests, Raised(r) PROVE (ShownInv /\ InboxShowsPending)'
  BY <1>11 DEF Raised
<1>12. ASSUME NEW r \in Requests, NEW a \in {"allow", "deny"}, Resolve(r, a)
      PROVE (ShownInv /\ InboxShowsPending)'
  BY <1>12 DEF Resolve, Says, UserAnswer
<1>13. ASSUME NEW r \in Requests, ReadBook(r)
      PROVE (ShownInv /\ InboxShowsPending)'
  BY <1>13 DEF ReadBook, MoveOn
<1>14. ASSUME NEW r \in Requests, Commit(r) PROVE (ShownInv /\ InboxShowsPending)'
  BY <1>14 DEF Commit, Written, MoveOn
<1>15. ASSUME NEW r \in Requests, NEW a \in {"allow", "deny"}, ResolveRemember(r, a)
      PROVE (ShownInv /\ InboxShowsPending)'
  BY <1>15 DEF ResolveRemember, Says
<1>16. ASSUME NEW r \in Requests, SaveFails(r)
      PROVE (ShownInv /\ InboxShowsPending)'
  BY <1>16 DEF SaveFails, Written, MoveOn
<1>17. ASSUME NEW r \in Requests, Final(r) PROVE (ShownInv /\ InboxShowsPending)'
  BY <1>17 DEF Final, UserAnswer
<1>18. ASSUME NEW r \in Requests, Restore(r) PROVE (ShownInv /\ InboxShowsPending)'
  BY <1>18 DEF Restore, Rearmed
<1>19. ASSUME NEW r \in Requests, TimerFires(r)
      PROVE (ShownInv /\ InboxShowsPending)'
  BY <1>19 DEF TimerFires
<1>20. ASSUME NEW r \in Requests, CancelPending(r)
      PROVE (ShownInv /\ InboxShowsPending)'
  BY <1>20 DEF CancelPending
<1>21. ASSUME NEW r \in Requests, CancelCall(r)
      PROVE (ShownInv /\ InboxShowsPending)'
  BY <1>21 DEF CancelCall
<1>22. ASSUME NEW r \in Requests, ReviewAllows(r)
      PROVE (ShownInv /\ InboxShowsPending)'
  BY <1>22 DEF ReviewAllows
<1>23. ASSUME NEW r \in Requests, ReviewShown(r)
      PROVE (ShownInv /\ InboxShowsPending)'
  BY <1>23 DEF ReviewShown
<1>24. ASSUME NEW r \in Requests, ReviewEnds(r)
      PROVE (ShownInv /\ InboxShowsPending)'
  BY <1>24 DEF ReviewEnds
<1>25. ASSUME NEW r \in Requests, AutoApprove(r)
      PROVE (ShownInv /\ InboxShowsPending)'
  BY <1>25 DEF AutoApprove
<1>26. ASSUME Close PROVE (ShownInv /\ InboxShowsPending)'
  BY <1>26 DEF Close
<1>27. ASSUME NEW x \in Rules, NEW v \in {"none", "allow", "deny"}, NEW i \in BOOLEAN,
             EditBook(x, v, i)
      PROVE (ShownInv /\ InboxShowsPending)'
  BY <1>27 DEF EditBook
<1>28. ASSUME NEW r \in Requests, Told(r) PROVE (ShownInv /\ InboxShowsPending)'
  BY <1>28 DEF Told
<1>29. ASSUME NEW r \in Requests, AnswerRefused(r)
      PROVE (ShownInv /\ InboxShowsPending)'
  BY <1>29 DEF AnswerRefused
<1>30. ASSUME NEW r \in Requests, RaiseCancelled(r)
      PROVE (ShownInv /\ InboxShowsPending)'
  BY <1>30 DEF RaiseCancelled
<1>31. CASE UNCHANGED vars
  BY <1>31 DEF vars
<1> QED
  BY <1>1, <1>2, <1>3, <1>4, <1>5, <1>6, <1>7, <1>8, <1>9, <1>10, <1>11,
     <1>12, <1>13, <1>14, <1>15, <1>16, <1>17, <1>18, <1>19, <1>20, <1>21,
     <1>22, <1>23, <1>24, <1>25, <1>26, <1>27, <1>28, <1>29, <1>30, <1>31
  DEF Next, Call, Resolver, Background

ApprovalInv == /\ TypeOK /\ PlaceInv /\ AnswerInv /\ AllowedInv /\ OwnsInv /\ KeptInv
               /\ ShownInv /\ InboxShowsPending

LEMMA ApprovalInvHolds == Spec => []ApprovalInv
<1>1. Init => ApprovalInv
  <2>1. Init => TypeOK
    BY DEF Init, TypeOK, Places, Answers, Stages, NoRevision
  <2>2. Init => PlaceInv /\ OwnsInv /\ KeptInv /\ ShownInv /\ InboxShowsPending
    BY DEF Init, PlaceInv, Fresh, OwnsInv, KeptInv, ShownInv, InboxShowsPending
  <2>3. Init => AnswerInv /\ AllowedInv
    BY DEF Init, AnswerInv, AllowedInv
  <2> QED
    BY <2>1, <2>2, <2>3 DEF ApprovalInv
<1>2. ApprovalInv /\ [Next]_vars => ApprovalInv'
  BY TypeStep, PlaceStep, AnswerStep, AllowedStep, OwnsStep, KeptStep, ShownStep
  DEF ApprovalInv
<1> QED
  BY <1>1, <1>2, PTL DEF Spec

\* resolve, _write_remembered_decision, cancel, _handle_timeout,
\* _handle_auto_approve: what is remembered for a request is what the request
\* was answered, however the save and the other settlers interleave.
THEOREM SavedRuleIsTheAnswer == Spec => []RuleMatchesAnswer
<1>1. ApprovalInv => RuleMatchesAnswer
  BY DEF ApprovalInv, TypeOK, PlaceInv, Asked, Cleaned, KeptInv, Gone, Verdict,
     AnswerOf, RuleMatchesAnswer
<1> QED
  BY <1>1, ApprovalInvHolds, PTL

\* _handle_llm_review, _cleanup_pending and the sinks: no announcement
\* outlives the removal of its request, and a call that ends leaves neither
\* pending nor entry, unless it was cancelled while announcing, or twice.
THEOREM InboxIsPending == Spec => []InboxShowsPending
<1>1. ApprovalInv => InboxShowsPending
  BY DEF ApprovalInv
<1> QED
  BY <1>1, ApprovalInvHolds, PTL

-----------------------------------------------------------------------------
(* ApprovalManager implements ApprovalPromise *)

\* What the mapping shows of a step that sets no future and ends no call.
LEMMA SilentStep ==
  ASSUME UNCHANGED <<allowed, outcome, future>>
  PROVE  UNCHANGED Promise!vars
BY DEF Promise!vars, Decision

LEMMA AllowStep ==
  ASSUME NEW r \in Requests, allowed' = allowed \cup {r}, UNCHANGED <<outcome, future>>
  PROVE  Promise!Next
<1>1. Promise!Allow(r)
  BY DEF Promise!Allow, Decision
<1> QED
  BY <1>1 DEF Promise!Next

\* An open future is set.
LEMMA DecideStep ==
  ASSUME TypeOK, NEW r \in Requests, NEW a \in Answers \ {"open", "dropped"},
         Decision(r) = "open", a \in {"user_allow", "llm"} => r \in allowed,
         future' = [future EXCEPT ![r] = a], UNCHANGED <<allowed, outcome>>
  PROVE  Promise!Next
<1>1. Decision(r)' = AnswerOf(a)
  BY DEF Decision, TypeOK
<1>2. \A q \in Requests \ {r} : Decision(q)' = Decision(q)
  BY DEF Decision, TypeOK
<1>3. AnswerOf(a) \in {"approved", "rejected"} /\ (AnswerOf(a) = "approved" => r \in allowed)
  BY DEF AnswerOf
<1>4. Promise!Decide(r, AnswerOf(a))
  BY <1>1, <1>2, <1>3 DEF Promise!Decide
<1> QED
  BY <1>3, <1>4 DEF Promise!Next

\* A pending with an open future has no decision, whatever became of its call.
LEMMA OpenIsUndecided ==
  ASSUME ApprovalInv, NEW r \in Requests, future[r] = "open",
         r \in pending \/ stage[r] = "saved"
  PROVE  Decision(r) = "open"
BY DEF ApprovalInv, TypeOK, Places, PlaceInv, Fresh, Asked, Cleaned, OwnsInv, Gone, Decision

\* The call ends without an answer.
LEMMA AbortStep ==
  ASSUME TypeOK, NEW r \in Requests, outcome[r] = "none",
         outcome' = [outcome EXCEPT ![r] = "cancelled"], UNCHANGED <<allowed, future>>
  PROVE  Promise!Next
<1>1. \A q \in Requests : Decision(q)' = Decision(q)
  BY DEF Decision, TypeOK
<1>2. Promise!Abort(r)
  BY <1>1 DEF Promise!Abort
<1> QED
  BY <1>2 DEF Promise!Next

-----------------------------------------------------------------------------
SavedNext == \E r \in Requests : /\ stage[r] = "writing" /\ stage'[r] # stage[r]
                                 /\ revision' = frozen[r] + 1

LEMMA SaveStep ==
  ASSUME TypeOK, [Next]_vars
  PROVE  edits' = edits /\ book' # book => SavedNext
<1> DEFINE Kept == edits' = edits /\ book' # book => SavedNext
<1> USE DEF TypeOK, SavedNext, Current, disk, calls, tasks, resolver, history
<1>1. ASSUME NEW r \in Requests, AskAtOnce(r) PROVE Kept
  BY <1>1 DEF AskAtOnce, Create
<1>2. ASSUME NEW r \in Requests, NEW o \in {"approved", "rejected"}, AnswerAtOnce(r, o)
      PROVE Kept
  BY <1>2 DEF AnswerAtOnce
<1>3. ASSUME NEW r \in Requests, Snapshot(r) PROVE Kept
  BY <1>3 DEF Snapshot
<1>4. ASSUME NEW r \in Requests, Ruled(r) PROVE Kept
  BY <1>4 DEF Ruled
<1>5. ASSUME NEW r \in Requests, Ask(r) PROVE Kept
  BY <1>5 DEF Ask, Create
<1>6. ASSUME NEW r \in Requests, Announced(r) PROVE Kept
  BY <1>6 DEF Announced
<1>7. ASSUME NEW r \in Requests, AnnounceCancelled(r) PROVE Kept
  BY <1>7 DEF AnnounceCancelled
<1>8. ASSUME NEW r \in Requests, Wake(r) PROVE Kept
  BY <1>8 DEF Wake, ReviewCancelled
<1>9. ASSUME NEW r \in Requests, Removed(r) PROVE Kept
  BY <1>9 DEF Removed, AnswerOf
<1>10. ASSUME NEW r \in Requests, RemovalCancelled(r) PROVE Kept
  BY <1>10 DEF RemovalCancelled
<1>11. ASSUME NEW r \in Requests, Raised(r) PROVE Kept
  BY <1>11 DEF Raised
<1>12. ASSUME NEW r \in Requests, NEW a \in {"allow", "deny"}, Resolve(r, a)
      PROVE Kept
  BY <1>12 DEF Resolve, Says, UserAnswer
<1>13. ASSUME NEW r \in Requests, ReadBook(r) PROVE Kept
  BY <1>13 DEF ReadBook, MoveOn
<1>14. ASSUME NEW r \in Requests, Commit(r) PROVE Kept
  BY <1>14 DEF Commit, Written, MoveOn
<1>15. ASSUME NEW r \in Requests, NEW a \in {"allow", "deny"}, ResolveRemember(r, a)
      PROVE Kept
  BY <1>15 DEF ResolveRemember, Says
<1>16. ASSUME NEW r \in Requests, SaveFails(r) PROVE Kept
  BY <1>16 DEF SaveFails, Written, MoveOn
<1>17. ASSUME NEW r \in Requests, Final(r) PROVE Kept
  BY <1>17 DEF Final, UserAnswer
<1>18. ASSUME NEW r \in Requests, Restore(r) PROVE Kept
  BY <1>18 DEF Restore, Rearmed
<1>19. ASSUME NEW r \in Requests, TimerFires(r) PROVE Kept
  BY <1>19 DEF TimerFires
<1>20. ASSUME NEW r \in Requests, CancelPending(r) PROVE Kept
  BY <1>20 DEF CancelPending
<1>21. ASSUME NEW r \in Requests, CancelCall(r) PROVE Kept
  BY <1>21 DEF CancelCall
<1>22. ASSUME NEW r \in Requests, ReviewAllows(r) PROVE Kept
  BY <1>22 DEF ReviewAllows
<1>23. ASSUME NEW r \in Requests, ReviewShown(r) PROVE Kept
  BY <1>23 DEF ReviewShown
<1>24. ASSUME NEW r \in Requests, ReviewEnds(r) PROVE Kept
  BY <1>24 DEF ReviewEnds
<1>25. ASSUME NEW r \in Requests, AutoApprove(r) PROVE Kept
  BY <1>25 DEF AutoApprove
<1>26. ASSUME Close PROVE Kept
  BY <1>26 DEF Close
<1>27. ASSUME NEW x \in Rules, NEW v \in {"none", "allow", "deny"}, NEW i \in BOOLEAN,
             EditBook(x, v, i)
      PROVE Kept
  BY <1>27 DEF EditBook
<1>28. ASSUME NEW r \in Requests, Told(r) PROVE Kept
  BY <1>28 DEF Told
<1>29. ASSUME NEW r \in Requests, AnswerRefused(r) PROVE Kept
  BY <1>29 DEF AnswerRefused
<1>30. ASSUME NEW r \in Requests, RaiseCancelled(r) PROVE Kept
  BY <1>30 DEF RaiseCancelled
<1>31. CASE UNCHANGED vars
  BY <1>31 DEF vars
<1> QED
  BY <1>1, <1>2, <1>3, <1>4, <1>5, <1>6, <1>7, <1>8, <1>9, <1>10, <1>11,
     <1>12, <1>13, <1>14, <1>15, <1>16, <1>17, <1>18, <1>19, <1>20, <1>21,
     <1>22, <1>23, <1>24, <1>25, <1>26, <1>27, <1>28, <1>29, <1>30, <1>31
  DEF Next, Call, Resolver, Background

\* write_entry and the store's compare under the file lock: a save changes the
\* book only at the revision its user was asked about, also when its result
\* is reported as a failure.
THEOREM NoEditIsLost == Spec => NoLostEdit
<1>1. TypeOK /\ [Next]_vars
      => [edits' = edits /\ book' # book =>
            \E r \in Requests : /\ stage[r] = "writing" /\ stage'[r] # stage[r]
                                /\ revision' = frozen[r] + 1]_vars
  BY SaveStep DEF SavedNext
<1> QED
  BY <1>1, TypeCorrect, PTL DEF Spec, NoLostEdit

\* Every step of the manager is a step of the promise, or none.
LEMMA PromiseStep ==
  ASSUME ApprovalInv, [Next]_vars
  PROVE  Promise!Next \/ UNCHANGED Promise!vars
<1> USE DEF ApprovalInv, TypeOK, disk, calls, tasks, resolver, history
<1>1. ASSUME NEW r \in Requests, AskAtOnce(r)
      PROVE Promise!Next \/ UNCHANGED Promise!vars
  BY <1>1, SilentStep DEF AskAtOnce, Create
<1>2. ASSUME NEW r \in Requests, NEW o \in {"approved", "rejected"}, AnswerAtOnce(r, o)
      PROVE Promise!Next \/ UNCHANGED Promise!vars
  <2>1. Decision(r) = "open" /\ outcome[r] = "none" /\ Decision(r)' = o
    BY <1>2 DEF AnswerAtOnce, Decision, ApprovalInv, PlaceInv, Fresh
  <2>2. \A q \in Requests \ {r} : Decision(q)' = Decision(q)
    BY <1>2 DEF AnswerAtOnce, Decision
  <2>3. Promise!Settle(r, o)
    BY <1>2, <2>1, <2>2 DEF AnswerAtOnce, Promise!Settle
  <2> QED
    BY <2>3 DEF Promise!Next
<1>3. ASSUME NEW r \in Requests, Snapshot(r)
      PROVE Promise!Next \/ UNCHANGED Promise!vars
  <2>1. \A q \in Requests : Decision(q)' = Decision(q)
    BY <1>3 DEF Snapshot, Decision, ApprovalInv, PlaceInv, Fresh
  <2> QED
    BY <1>3, <2>1 DEF Snapshot, Promise!vars
<1>4. ASSUME NEW r \in Requests, Ruled(r)
      PROVE Promise!Next \/ UNCHANGED Promise!vars
  <2> DEFINE d == IF cache[RuleOf[r]] = "allow" THEN "approved" ELSE "rejected"
  <2>1. Decision(r) = "open" /\ outcome[r] = "none" /\ Decision(r)' = d
    BY <1>4 DEF Ruled, Decision, ApprovalInv, PlaceInv, Fresh
  <2>2. \A q \in Requests \ {r} : Decision(q)' = Decision(q)
    BY <1>4 DEF Ruled, Decision
  <2>3. Promise!Settle(r, d)
    BY <1>4, <2>1, <2>2 DEF Ruled, Promise!Settle
  <2> QED
    BY <2>3 DEF Promise!Next
<1>5. ASSUME NEW r \in Requests, Ask(r)
      PROVE Promise!Next \/ UNCHANGED Promise!vars
  BY <1>5, SilentStep DEF Ask, Create
<1>6. ASSUME NEW r \in Requests, Announced(r)
      PROVE Promise!Next \/ UNCHANGED Promise!vars
  BY <1>6, SilentStep DEF Announced
<1>7. ASSUME NEW r \in Requests, AnnounceCancelled(r)
      PROVE Promise!Next \/ UNCHANGED Promise!vars
  BY <1>7, AbortStep DEF AnnounceCancelled, ApprovalInv, PlaceInv, Asked
<1>8. ASSUME NEW r \in Requests, Wake(r)
      PROVE Promise!Next \/ UNCHANGED Promise!vars
  <2>1. outcome[r] = "none"
    BY <1>8 DEF Wake, ApprovalInv, PlaceInv, Asked
  <2>2. \A q \in Requests : Decision(q)' = Decision(q)
    BY <1>8, <2>1 DEF Wake, Decision
  <2> QED
    BY <1>8, <2>2 DEF Wake, Promise!vars
<1>9. ASSUME NEW r \in Requests, Removed(r)
      PROVE Promise!Next \/ UNCHANGED Promise!vars
  <2>1. Decision(r) = AnswerOf(future[r]) /\ outcome[r] = "none" /\ Decision(r) # "open"
    BY <1>9 DEF Removed, Decision, AnswerOf, ApprovalInv, PlaceInv, Cleaned
  <2>2. \A q \in Requests : Decision(q)' = Decision(q)
    BY <1>9, <2>1 DEF Removed, Decision, AnswerOf
  <2>3. Promise!Answer(r)
    BY <1>9, <2>1, <2>2 DEF Removed, Promise!Answer
  <2> QED
    BY <2>3 DEF Promise!Next
<1>10. ASSUME NEW r \in Requests, RemovalCancelled(r)
      PROVE Promise!Next \/ UNCHANGED Promise!vars
  BY <1>10, SilentStep DEF RemovalCancelled
<1>11. ASSUME NEW r \in Requests, Raised(r)
      PROVE Promise!Next \/ UNCHANGED Promise!vars
  BY <1>11, AbortStep DEF Raised, ApprovalInv, PlaceInv, Cleaned
<1>12. ASSUME NEW r \in Requests, NEW a \in {"allow", "deny"}, Resolve(r, a)
      PROVE Promise!Next \/ UNCHANGED Promise!vars
  <2> DEFINE d == IF a = "allow" THEN "approved" ELSE "rejected"
  <2>1. Decision(r) = "open"
    BY <1>12, OpenIsUndecided DEF Resolve, Says, Settleable, Open
  <2>2. Decision(r)' = d
    BY <1>12 DEF Resolve, Says, UserAnswer, Decision, AnswerOf
  <2>3. \A q \in Requests \ {r} : Decision(q)' = Decision(q)
    BY <1>12 DEF Resolve, Decision
  <2>4. allowed' = (IF d = "approved" THEN allowed \cup {r} ELSE allowed) /\ outcome' = outcome
    BY <1>12 DEF Resolve, Says
  <2>5. Promise!Reply(r, d)
    BY <2>1, <2>2, <2>3, <2>4 DEF Promise!Reply
  <2> QED
    BY <2>5 DEF Promise!Next
<1>13. ASSUME NEW r \in Requests, ReadBook(r)
      PROVE Promise!Next \/ UNCHANGED Promise!vars
  BY <1>13, SilentStep DEF ReadBook, MoveOn
<1>14. ASSUME NEW r \in Requests, Commit(r)
      PROVE Promise!Next \/ UNCHANGED Promise!vars
  BY <1>14, SilentStep DEF Commit, Written, MoveOn
<1>15. ASSUME NEW r \in Requests, NEW a \in {"allow", "deny"}, ResolveRemember(r, a)
      PROVE Promise!Next \/ UNCHANGED Promise!vars
  BY <1>15, AllowStep, SilentStep DEF ResolveRemember, Says
<1>16. ASSUME NEW r \in Requests, SaveFails(r)
      PROVE Promise!Next \/ UNCHANGED Promise!vars
  BY <1>16, SilentStep DEF SaveFails, Written, MoveOn
<1>17. ASSUME NEW r \in Requests, Final(r)
      PROVE Promise!Next \/ UNCHANGED Promise!vars
  <2> DEFINE a == IF said[r] = "allow" THEN "user_allow" ELSE "user_deny"
  <2>1. CASE future[r] = "open"
    <3>1. future' = [future EXCEPT ![r] = a]
      BY <1>17, <2>1 DEF Final, UserAnswer
    <3>2. a \in Answers \ {"open", "dropped"} /\ (a \in {"user_allow", "llm"} => r \in allowed)
      BY <1>17 DEF Final, Answers, ApprovalInv, AllowedInv
    <3>3. Decision(r) = "open"
      BY <1>17, <2>1, OpenIsUndecided DEF Final
    <3> QED
      BY <1>17, <3>1, <3>2, <3>3, DecideStep DEF Final
  <2>2. CASE future[r] # "open"
    BY <1>17, <2>2, SilentStep DEF Final
  <2> QED
    BY <2>1, <2>2
<1>18. ASSUME NEW r \in Requests, Restore(r)
      PROVE Promise!Next \/ UNCHANGED Promise!vars
  BY <1>18, SilentStep DEF Restore, Rearmed
<1>19. ASSUME NEW r \in Requests, TimerFires(r)
      PROVE Promise!Next \/ UNCHANGED Promise!vars
  <2>1. CASE Settleable(r)
    <3>1. Decision(r) = "open" /\ future' = [future EXCEPT ![r] = "timeout"]
      BY <1>19, <2>1, OpenIsUndecided DEF TimerFires, Settleable, Open
    <3>2. "timeout" \in {"user_allow", "llm"} => r \in allowed
      BY <1>19 DEF TimerFires, ApprovalInv, AllowedInv
    <3>3. "timeout" \in Answers \ {"open", "dropped"}
      BY DEF Answers
    <3> QED
      BY <1>19, <3>1, <3>2, <3>3, DecideStep DEF TimerFires
  <2>2. CASE ~Settleable(r)
    BY <1>19, <2>2, SilentStep DEF TimerFires
  <2> QED
    BY <2>1, <2>2
<1>20. ASSUME NEW r \in Requests, CancelPending(r)
      PROVE Promise!Next \/ UNCHANGED Promise!vars
  BY <1>20, DecideStep, OpenIsUndecided DEF CancelPending, Settleable, Open, Answers
<1>21. ASSUME NEW r \in Requests, CancelCall(r)
      PROVE Promise!Next \/ UNCHANGED Promise!vars
  BY <1>21, SilentStep DEF CancelCall
<1>22. ASSUME NEW r \in Requests, ReviewAllows(r)
      PROVE Promise!Next \/ UNCHANGED Promise!vars
  BY <1>22, AllowStep DEF ReviewAllows
<1>23. ASSUME NEW r \in Requests, ReviewShown(r)
      PROVE Promise!Next \/ UNCHANGED Promise!vars
  BY <1>23, SilentStep DEF ReviewShown
<1>24. ASSUME NEW r \in Requests, ReviewEnds(r)
      PROVE Promise!Next \/ UNCHANGED Promise!vars
  BY <1>24, SilentStep DEF ReviewEnds
<1>25. ASSUME NEW r \in Requests, AutoApprove(r)
      PROVE Promise!Next \/ UNCHANGED Promise!vars
  <2>1. CASE Settleable(r)
    <3>1. Decision(r) = "open" /\ future' = [future EXCEPT ![r] = "llm"]
      BY <1>25, <2>1, OpenIsUndecided DEF AutoApprove, Settleable, Open
    <3>2. "llm" \in {"user_allow", "llm"} => r \in allowed
      BY <1>25 DEF AutoApprove, ApprovalInv, AllowedInv
    <3>3. "llm" \in Answers \ {"open", "dropped"}
      BY DEF Answers
    <3> QED
      BY <1>25, <3>1, <3>2, <3>3, DecideStep DEF AutoApprove
  <2>2. CASE ~Settleable(r)
    BY <1>25, <2>2, SilentStep DEF AutoApprove
  <2> QED
    BY <2>1, <2>2
<1>26. ASSUME Close PROVE Promise!Next \/ UNCHANGED Promise!vars
  <2> DEFINE S == {r \in Requests : Settleable(r)}
  <2>1. \A q \in S : Decision(q) = "open" /\ Decision(q)' = "rejected"
    BY <1>26, OpenIsUndecided DEF Close, Settleable, Open, Decision, AnswerOf
  <2>2. \A q \in Requests \ S : Decision(q)' = Decision(q)
    BY <1>26 DEF Close, Decision
  <2>3. Promise!RejectAll(S)
    BY <1>26, <2>1, <2>2 DEF Close, Promise!RejectAll
  <2> QED
    BY <2>3 DEF Promise!Next
<1>27. ASSUME NEW x \in Rules, NEW v \in {"none", "allow", "deny"}, NEW i \in BOOLEAN,
             EditBook(x, v, i)
      PROVE Promise!Next \/ UNCHANGED Promise!vars
  BY <1>27, SilentStep DEF EditBook
<1>28. ASSUME NEW r \in Requests, Told(r) PROVE Promise!Next \/ UNCHANGED Promise!vars
  BY <1>28, SilentStep DEF Told
<1>29. ASSUME NEW r \in Requests, AnswerRefused(r)
      PROVE Promise!Next \/ UNCHANGED Promise!vars
  BY <1>29, SilentStep DEF AnswerRefused
<1>30. ASSUME NEW r \in Requests, RaiseCancelled(r)
      PROVE Promise!Next \/ UNCHANGED Promise!vars
  BY <1>30, AbortStep DEF RaiseCancelled, ApprovalInv, PlaceInv, Cleaned
<1>31. CASE UNCHANGED vars
  BY <1>31, SilentStep DEF vars
<1> QED
  BY <1>1, <1>2, <1>3, <1>4, <1>5, <1>6, <1>7, <1>8, <1>9, <1>10, <1>11,
     <1>12, <1>13, <1>14, <1>15, <1>16, <1>17, <1>18, <1>19, <1>20, <1>21,
     <1>22, <1>23, <1>24, <1>25, <1>26, <1>27, <1>28, <1>29, <1>30, <1>31
  DEF Next, Call, Resolver, Background

\* decide, request and whoever settles: the call gets the first decision, and
\* an approval only of what was allowed.
THEOREM KeepsThePromise == Spec => PromiseSpec
<1>1. Init => Promise!Init
  BY DEF Init, Promise!Init, Decision
<1>2. ApprovalInv /\ [Next]_vars => [Promise!Next]_(Promise!vars)
  BY PromiseStep
<1> QED
  BY <1>1, <1>2, ApprovalInvHolds, PTL DEF Spec, PromiseSpec, Promise!Spec

\* The promise, for every tool call: approved means allowed, and what the call
\* got is what was decided.
THEOREM ApprovedWasAllowed == Spec => []Promise!OnlyAllowedApproved
<1> DEFINE Typed == /\ outcome \in [Requests -> {"none", "approved", "rejected", "cancelled"}]
                    /\ \A r \in Requests : Decision(r) \in {"open", "approved", "rejected"}
           Inv == Typed /\ Promise!OnlyAllowedApproved
<1>1. TypeOK => Typed
  BY DEF TypeOK, Decision, AnswerOf
<1>2. Init => Promise!OnlyAllowedApproved
  BY DEF Init, Promise!OnlyAllowedApproved, Decision
<1>3. ASSUME Typed, Promise!OnlyAllowedApproved, Promise!Next \/ UNCHANGED Promise!vars
      PROVE  Promise!OnlyAllowedApproved'
  <2>1. CASE Promise!Next
    BY <1>3, <2>1 DEF Promise!Next, Promise!Allow, Promise!Decide, Promise!Reply,
       Promise!Answer, Promise!Abort,
       Promise!Settle, Promise!RejectAll, Promise!OnlyAllowedApproved
  <2>2. CASE UNCHANGED Promise!vars
    BY <1>3, <2>2 DEF Promise!vars, Promise!OnlyAllowedApproved
  <2> QED
    BY <1>3, <2>1, <2>2
<1>4. TypeOK /\ Promise!OnlyAllowedApproved /\ [Promise!Next]_(Promise!vars)
      => Promise!OnlyAllowedApproved'
  BY <1>1, <1>3
<1> QED
  BY <1>2, <1>4, TypeCorrect, KeepsThePromise, PTL DEF Spec, PromiseSpec, Promise!Spec
=============================================================================
