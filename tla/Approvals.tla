----------------------------- MODULE Approvals -----------------------------
(***************************************************************************)
(* ApprovalManager (src/safety/approval/manager.py), the decision engine    *)
(* that calls it, the thread's book of remembered rules with its revision   *)
(* (PermissionsManager and its store), and the inbox that shows what is     *)
(* pending.                                                                *)
(*                                                                         *)
(* A request stands for one tool call of one thread.  Its call coroutine    *)
(* consults the book, creates a pending with a timeout task, announces it   *)
(* to the sinks and awaits the pending's future; resolvers, the timeout,    *)
(* the reviewer with its countdown, cancels and aclose race to set that     *)
(* future.  An action is what one coroutine does between two awaits; a      *)
(* file operation of the store is atomic under its lock file.               *)
(***************************************************************************)
EXTENDS Integers

CONSTANTS
  Requests,   \* tool calls of one thread
  Rules,      \* expressions a request may be remembered under
  RuleOf,     \* request -> its remember candidate
  Hosts,      \* "web": sinks return at once; "cli": the sink prompts the user
  Faults,     \* how a save may fail, see SaveFails
  MaxTries,   \* bound: resolve calls per request
  MaxEdits    \* bound: edits of the book by others

NoRevision == -1

ASSUME RequestsAssumption == RuleOf \in [Requests -> Rules]
ASSUME HostsAssumption == Hosts \subseteq {"web", "cli"}
ASSUME FaultsAssumption == Faults \subseteq {"refused", "late", "raised"}
ASSUME BoundsAssumption == MaxTries \in Nat /\ MaxEdits \in Nat

VARIABLES
  host,       \* the host of this process
  book,       \* on disk: rule -> "none", "allow" or "deny"
  revision,   \* on disk: the book's revision
  cache,      \* the process's snapshot of the book
  frozen,     \* request -> revision it was asked at, NoRevision: not rememberable
  call,       \* request -> where its call coroutine is, see Places
  doomed,     \* calls with a CancelledError on its way
  outcome,    \* request -> what its call got
  pending,    \* _pending
  future,     \* request -> state of its future, see Answers
  timer,      \* _timeout_tasks that sleep
  review,     \* request -> its LLM review task: "none", "asking" or "announcing"
  countdown,  \* _auto_approve_tasks that sleep
  resolving,  \* _resolving
  stage,      \* request -> where the resolve call that remembers is, see Stages
  said,       \* request -> what that call says: "allow" or "deny"
  tries,      \* resolve calls so far
  prompting,  \* cli: requests a sink is asking the user about
  shown,      \* requests in the inbox
  edits,      \* edits of the book by others so far
  allowed,    \* history: requests a user, a rule or the reviewer allowed
  refused,    \* history: requests a user denied within their countdown
  kept        \* history: request -> rule verdict saved, and reported saved, for it

disk     == <<book, revision>>
calls    == <<call, doomed, outcome>>
tasks    == <<timer, review, countdown>>
resolver == <<resolving, stage, said, tries>>
history  == <<allowed, refused, kept>>
vars     == <<host, disk, cache, frozen, calls, pending, future, tasks,
              resolver, prompting, shown, edits, history>>

(* "looking": snapshot taken; "announcing": awaiting the sinks' emits;     *)
(* "waiting": awaiting the future; "removing" and "raising": cleaned up,    *)
(* awaiting the sinks' removals, to return or to raise CancelledError;      *)
(* "torn": cancelled while announcing, or once more while raising, so that  *)
(* what the sinks were being told they may not have heard.                  *)
Places  == {"idle", "looking", "announcing", "waiting", "removing", "raising", "ended",
            "torn"}
Answers == {"open", "user_allow", "user_deny", "timeout", "cancel", "llm", "dropped"}
(* The resolve call that remembers.  "queued": waiting for the thread's      *)
(* lock; "writing": book read, lock held; "saved", "failed": the worker     *)
(* thread is through, the coroutine not yet resumed; "lost": it raised.     *)
Stages  == {"none", "queued", "writing", "saved", "failed", "lost"}

TypeOK ==
  /\ host \in Hosts
  /\ book \in [Rules -> {"none", "allow", "deny"}] /\ revision \in Nat
  /\ cache \in [Rules -> {"none", "allow", "deny"}]
  /\ frozen \in [Requests -> Nat \cup {NoRevision}]
  /\ call \in [Requests -> Places] /\ doomed \subseteq Requests
  /\ outcome \in [Requests -> {"none", "approved", "rejected", "cancelled"}]
  /\ pending \subseteq Requests /\ future \in [Requests -> Answers]
  /\ timer \subseteq Requests /\ countdown \subseteq Requests
  /\ review \in [Requests -> {"none", "asking", "announcing"}]
  /\ resolving \subseteq Requests /\ stage \in [Requests -> Stages]
  /\ said \in [Requests -> {"allow", "deny"}] /\ tries \in [Requests -> Nat]
  /\ prompting \subseteq Requests /\ shown \subseteq Requests /\ edits \in Nat
  /\ allowed \subseteq Requests /\ refused \subseteq Requests
  /\ kept \in [Requests -> {"none", "allow", "deny"}]

Init ==
  /\ host \in Hosts
  /\ book = [x \in Rules |-> "none"] /\ revision = 0 /\ cache = book
  /\ frozen = [r \in Requests |-> NoRevision]
  /\ call = [r \in Requests |-> "idle"] /\ doomed = {}
  /\ outcome = [r \in Requests |-> "none"]
  /\ pending = {} /\ future = [r \in Requests |-> "open"]
  /\ timer = {} /\ review = [r \in Requests |-> "none"] /\ countdown = {}
  /\ resolving = {} /\ stage = [r \in Requests |-> "none"]
  /\ said = [r \in Requests |-> "deny"] /\ tries = [r \in Requests |-> 0]
  /\ prompting = {} /\ shown = {} /\ edits = 0
  /\ allowed = {} /\ refused = {}
  /\ kept = [r \in Requests |-> "none"]

\* Mutant: a future that is done is set again.
Pending(r) == r \in pending
\* A pending whose future nobody has set yet.
Open(r) == r \in pending /\ future[r] = "open"

\* Mutant: a resolve under way does not hold the others off.
OpenToAll(r) == Open(r)
\* cancel, _handle_timeout and _handle_auto_approve keep off a resolve under way.
Settleable(r) == Open(r) /\ r \notin resolving

\* Mutant: whoever set the future is what the call gets.
SourceOf(a) == a
\* _decision_to_action and the outcome of an ApprovalDecision.
AnswerOf(a) == IF a \in {"user_allow", "llm"} THEN "approved" ELSE "rejected"

\* The thread's lock in PermissionsManager is free: nobody is between the read
\* of the book and its write.
LockFree == \A q \in Requests : stage[q] # "writing"

-----------------------------------------------------------------------------
(* The call: SafetyDecisionEngine.decide and ApprovalManager.request *)

\* The pending, its timeout task, and the start of the announcement.
Create(r) ==
  /\ pending' = pending \cup {r} /\ timer' = timer \cup {r}
  /\ call' = [call EXCEPT ![r] = "announcing"]
  /\ prompting' = IF host = "cli" THEN prompting \cup {r} ELSE prompting
  /\ UNCHANGED <<doomed, outcome, future, review, countdown>>

\* No question: a HardBlock rule rejects, full_trust mode approves.
AnswerAtOnce(r, o) ==
  /\ call[r] = "idle"
  /\ call' = [call EXCEPT ![r] = "ended"] /\ outcome' = [outcome EXCEPT ![r] = o]
  /\ allowed' = IF o = "approved" THEN allowed \cup {r} ELSE allowed
  /\ UNCHANGED <<host, disk, cache, frozen, doomed, pending, future, tasks, resolver,
                 prompting, shown, edits, refused, kept>>

\* A danger or elevated rule, or a book that cannot be read: the user is
\* asked, and cannot have it remembered.
AskAtOnce(r) ==
  /\ call[r] = "idle"
  /\ Create(r)
  /\ UNCHANGED <<host, disk, cache, frozen, resolver, shown, edits, history>>

\* permissions.snapshot: read from disk, the cache refreshed.
Snapshot(r) ==
  /\ call[r] = "idle" /\ LockFree
  /\ call' = [call EXCEPT ![r] = "looking"]
  /\ frozen' = [frozen EXCEPT ![r] = revision] /\ cache' = book
  /\ UNCHANGED <<host, disk, doomed, outcome, pending, future, tasks, resolver,
                 prompting, shown, edits, allowed, refused, kept>>

\* permissions.resolve: a rule of the cached book answers, or the user is asked.
Ruled(r) ==
  /\ call[r] = "looking" /\ LockFree /\ cache[RuleOf[r]] # "none"
  /\ call' = [call EXCEPT ![r] = "ended"]
  /\ allowed' = IF cache[RuleOf[r]] = "allow" THEN allowed \cup {r} ELSE allowed
  /\ outcome' = [outcome EXCEPT ![r] = IF cache[RuleOf[r]] = "allow" THEN "approved"
                                       ELSE "rejected"]
  /\ UNCHANGED <<host, disk, cache, frozen, doomed, pending, future, tasks, resolver,
                 prompting, shown, edits, refused, kept>>

Ask(r) ==
  /\ call[r] = "looking" /\ LockFree /\ cache[RuleOf[r]] = "none"
  /\ Create(r)
  /\ UNCHANGED <<host, disk, cache, frozen, resolver, shown, edits, history>>

\* _is_llm_review_eligible: only a request that no rule, danger or error
\* covers.  The working directory's mode may change at any time: that it is
\* the reviewer's is a choice, here and in ReviewAllows.
Reviewable(r) == frozen[r] # NoRevision

\* The broadcaster got its lock: emit_add puts the request into the inbox,
\* emit_remove takes it out.  A cancelled call cancels the emit that waits.
Told(r) ==
  /\ host = "web" /\ r \notin doomed
  /\ \/ call[r] = "announcing" /\ r \notin shown /\ shown' = shown \cup {r}
     \/ call[r] \in {"removing", "raising"} /\ r \in shown /\ shown' = shown \ {r}
  /\ UNCHANGED <<host, disk, cache, frozen, calls, pending, future, tasks, resolver,
                 prompting, edits, history>>

\* In the cli the sink returns when the resolve call of its answer has.
SinksDone(r) == IF host = "web" THEN r \in shown ELSE r \notin prompting

Announced(r) ==
  /\ call[r] = "announcing" /\ SinksDone(r) /\ r \notin doomed
  /\ call' = [call EXCEPT ![r] = "waiting"]
  /\ \/ UNCHANGED review
     \/ Reviewable(r) /\ Open(r) /\ review' = [review EXCEPT ![r] = "asking"]
  /\ UNCHANGED <<host, disk, cache, frozen, doomed, outcome, pending, future, timer,
                 countdown, resolver, prompting, shown, edits, history>>

\* CancelledError while the sinks are awaited: the prompt goes, and nothing is
\* cleaned up.
AnnounceCancelled(r) ==
  /\ call[r] = "announcing" /\ r \in doomed
  /\ call' = [call EXCEPT ![r] = "torn"] /\ doomed' = doomed \ {r}
  /\ outcome' = [outcome EXCEPT ![r] = "cancelled"] /\ prompting' = prompting \ {r}
  /\ UNCHANGED <<host, disk, cache, frozen, pending, future, tasks, resolver, shown,
                 edits, history>>

\* Mutant: the review goes on behind the cleanup.
ReviewKept(r) == review
ReviewCancelled(r) == [review EXCEPT ![r] = "none"]

\* The future is done, or awaiting it was cancelled (which cancels the
\* future): _cleanup_pending up to the broadcast of the removal.
Wake(r) ==
  /\ call[r] = "waiting" /\ (future[r] # "open" \/ r \in doomed)
  /\ call' = [call EXCEPT ![r] = IF r \in doomed THEN "raising" ELSE "removing"]
  /\ doomed' = doomed \ {r}
  /\ future' = IF future[r] = "open" THEN [future EXCEPT ![r] = "dropped"] ELSE future
  /\ pending' = pending \ {r} /\ resolving' = resolving \ {r}
  /\ timer' = timer \ {r} /\ countdown' = countdown \ {r}
  /\ review' = ReviewCancelled(r) /\ prompting' = prompting \ {r}
  /\ UNCHANGED <<host, disk, cache, frozen, outcome, stage, said, tries, shown, edits,
                 history>>

\* The sinks have been told; a cancel meanwhile cleans up again and raises.
Removed(r) ==
  /\ call[r] = "removing" /\ r \notin doomed \cup shown
  /\ call' = [call EXCEPT ![r] = "ended"]
  /\ outcome' = [outcome EXCEPT ![r] = AnswerOf(future[r])]
  /\ UNCHANGED <<host, disk, cache, frozen, doomed, pending, future, tasks, resolver,
                 prompting, shown, edits, history>>

RemovalCancelled(r) ==
  /\ call[r] = "removing" /\ r \in doomed
  /\ call' = [call EXCEPT ![r] = "raising"] /\ doomed' = doomed \ {r}
  /\ UNCHANGED <<host, disk, cache, frozen, outcome, pending, future, tasks, resolver,
                 prompting, shown, edits, history>>

Raised(r) ==
  /\ call[r] = "raising" /\ r \notin doomed \cup shown
  /\ call' = [call EXCEPT ![r] = "ended"]
  /\ outcome' = [outcome EXCEPT ![r] = "cancelled"]
  /\ UNCHANGED <<host, disk, cache, frozen, doomed, pending, future, tasks, resolver,
                 prompting, shown, edits, history>>

\* A second CancelledError, in the cleanup of the first: no third try.
RaiseCancelled(r) ==
  /\ call[r] = "raising" /\ r \in doomed
  /\ call' = [call EXCEPT ![r] = "torn"] /\ doomed' = doomed \ {r}
  /\ outcome' = [outcome EXCEPT ![r] = "cancelled"]
  /\ UNCHANGED <<host, disk, cache, frozen, pending, future, tasks, resolver, prompting,
                 shown, edits, history>>

-----------------------------------------------------------------------------
(* ApprovalManager.resolve and the save of a remembered rule *)

\* The user answers, in the cli when the sink asks him; the timeout is off.
Says(r, a) ==
  /\ Settleable(r) /\ tries[r] < MaxTries
  /\ host = "cli" => r \in prompting
  /\ timer' = timer \ {r} /\ prompting' = prompting \ {r}
  /\ tries' = [tries EXCEPT ![r] = @ + 1]
  /\ allowed' = IF a = "allow" THEN allowed \cup {r} ELSE allowed
  /\ refused' = IF a = "deny" /\ r \in countdown THEN refused \cup {r} ELSE refused

UserAnswer(a) == IF a = "allow" THEN "user_allow" ELSE "user_deny"

\* Nothing to remember: the manager's lock is never held across an await, so
\* this call runs through.
Resolve(r, a) ==
  /\ Says(r, a)
  /\ future' = [future EXCEPT ![r] = UserAnswer(a)]
  /\ UNCHANGED <<host, disk, cache, frozen, calls, pending, review, countdown, resolving,
                 stage, said, shown, edits, kept>>

\* To remember, which the cli's payload names no rule for: up to the save's
\* first await.  The call owns the request.
ResolveRemember(r, a) ==
  /\ Says(r, a) /\ host = "web" /\ frozen[r] # NoRevision
  /\ resolving' = resolving \cup {r} /\ stage' = [stage EXCEPT ![r] = "queued"]
  /\ said' = [said EXCEPT ![r] = a]
  /\ UNCHANGED <<host, disk, cache, frozen, calls, pending, future, review, countdown,
                 shown, edits, kept>>

\* cli: resolve returned False, as the answer was to remember or came too
\* late.  The sink returns, and the request waits for its timeout.
AnswerRefused(r) ==
  /\ r \in prompting /\ prompting' = prompting \ {r}
  /\ UNCHANGED <<host, disk, cache, frozen, calls, pending, future, tasks, resolver,
                 shown, edits, history>>

MoveOn(r, s) == /\ stage' = [stage EXCEPT ![r] = s]
                /\ UNCHANGED <<host, frozen, calls, pending, future, tasks, resolving,
                               said, tries, prompting, shown, edits, allowed, refused>>

\* Mutant: the revision is only compared when the book is read.
CheckedWhenRead(r) == TRUE
\* The compare of the store's write, under the file lock.
Current(r) == revision = frozen[r]

\* write_entry under the thread's lock: the book is read and compared.
ReadBook(r) ==
  /\ stage[r] = "queued" /\ LockFree
  /\ IF revision # frozen[r] THEN MoveOn(r, "failed") /\ UNCHANGED <<cache, kept>>
     ELSE IF book[RuleOf[r]] = said[r]
     THEN MoveOn(r, "saved") /\ cache' = book /\ kept' = [kept EXCEPT ![r] = said[r]]
     ELSE MoveOn(r, "writing") /\ UNCHANGED <<cache, kept>>
  /\ UNCHANGED disk

\* The rule moves to the side it is said to be on.
Written(r) == /\ book' = [book EXCEPT ![RuleOf[r]] = said[r]] /\ revision' = revision + 1

\* The store's write; on a conflict the cache is read anew.
Commit(r) ==
  /\ stage[r] = "writing"
  /\ \/ Current(r) /\ Written(r) /\ MoveOn(r, "saved") /\ cache' = book'
        /\ kept' = [kept EXCEPT ![r] = said[r]]
     \/ ~Current(r) /\ MoveOn(r, "failed") /\ cache' = book /\ UNCHANGED <<disk, kept>>

\* "refused": the file cannot be read or written, PermissionsError; "late":
\* the directory's fsync fails after the replace, PermissionsError; "raised":
\* the lock file cannot be made, an OSError that resolve does not catch.
SaveFails(r) ==
  /\ stage[r] \in {"queued", "writing"} /\ UNCHANGED <<cache, kept>>
  /\ \/ "refused" \in Faults /\ MoveOn(r, "failed") /\ UNCHANGED disk
     \/ /\ "late" \in Faults /\ stage[r] = "writing" /\ Current(r)
        /\ Written(r) /\ MoveOn(r, "failed")
     \/ "raised" \in Faults /\ MoveOn(r, "lost") /\ UNCHANGED disk

\* The user's decision becomes the result, unless the call was cancelled.
Final(r) ==
  /\ stage[r] = "saved"
  /\ stage' = [stage EXCEPT ![r] = "none"] /\ resolving' = resolving \ {r}
  /\ future' = [future EXCEPT ![r] = IF @ = "open" THEN UserAnswer(said[r]) ELSE @]
  /\ UNCHANGED <<host, disk, cache, frozen, calls, pending, tasks, said, tries,
                 prompting, shown, edits, history>>

\* Mutant: the timeout that resolve cancelled stays off.
NotRearmed(r) == timer
Rearmed(r) == IF Open(r) THEN timer \cup {r} ELSE timer

\* _restore_after_failed_resolve
Restore(r) ==
  /\ stage[r] = "failed"
  /\ stage' = [stage EXCEPT ![r] = "none"] /\ resolving' = resolving \ {r}
  /\ timer' = Rearmed(r)
  /\ UNCHANGED <<host, disk, cache, frozen, calls, pending, future, review, countdown,
                 said, tries, prompting, shown, edits, history>>

-----------------------------------------------------------------------------
(* The others who may settle a request *)

\* _handle_timeout
TimerFires(r) ==
  /\ r \in timer /\ timer' = timer \ {r}
  /\ future' = IF Settleable(r) THEN [future EXCEPT ![r] = "timeout"] ELSE future
  /\ UNCHANGED <<host, disk, cache, frozen, calls, pending, review, countdown, resolver,
                 prompting, shown, edits, history>>

\* cancel, cancel_by_thread, cancel_by_agent
CancelPending(r) ==
  /\ Settleable(r) /\ future' = [future EXCEPT ![r] = "cancel"]
  /\ UNCHANGED <<host, disk, cache, frozen, calls, pending, tasks, resolver, prompting,
                 shown, edits, history>>

\* The run of the tool call is cancelled, at any of its awaits and again.
\* Before there is a pending this changes nothing here.
CancelCall(r) ==
  /\ call[r] \in {"announcing", "waiting", "removing", "raising"} /\ r \notin doomed
  /\ doomed' = doomed \cup {r}
  /\ UNCHANGED <<host, disk, cache, frozen, call, outcome, pending, future, tasks,
                 resolver, prompting, shown, edits, history>>

\* aclose: every pending is cancelled, every background task too.
Close ==
  /\ timer # {} \/ countdown # {} \/ \E r \in Requests : review[r] # "none"
  /\ future' = [r \in Requests |-> IF Settleable(r) THEN "cancel" ELSE future[r]]
  /\ timer' = {} /\ countdown' = {} /\ review' = [r \in Requests |-> "none"]
  /\ prompting' = {r \in prompting : review[r] # "announcing"}
  /\ UNCHANGED <<host, disk, cache, frozen, calls, pending, resolver, shown, edits, history>>

\* _handle_llm_review: the reviewer allows, the mode is looked at again, the
\* countdown starts and the sinks are told.
ReviewAllows(r) ==
  /\ review[r] = "asking" /\ Open(r)
  /\ countdown' = countdown \cup {r} /\ review' = [review EXCEPT ![r] = "announcing"]
  /\ allowed' = allowed \cup {r}
  /\ prompting' = IF host = "cli" THEN prompting \cup {r} ELSE prompting
  /\ UNCHANGED <<host, disk, cache, frozen, calls, pending, future, timer, resolver,
                 shown, edits, refused, kept>>

ReviewShown(r) ==
  /\ review[r] = "announcing" /\ r \notin prompting
  /\ review' = [review EXCEPT ![r] = "none"]
  /\ shown' = IF host = "web" THEN shown \cup {r} ELSE shown
  /\ UNCHANGED <<host, disk, cache, frozen, calls, pending, future, timer, countdown,
                 resolver, prompting, edits, history>>

\* The reviewer does not allow, fails, or finds the mode changed.
ReviewEnds(r) ==
  /\ review[r] = "asking" /\ review' = [review EXCEPT ![r] = "none"]
  /\ UNCHANGED <<host, disk, cache, frozen, calls, pending, future, timer, countdown,
                 resolver, prompting, shown, edits, history>>

\* _handle_auto_approve
AutoApprove(r) ==
  /\ r \in countdown /\ countdown' = countdown \ {r}
  /\ future' = IF Settleable(r) THEN [future EXCEPT ![r] = "llm"] ELSE future
  /\ UNCHANGED <<host, disk, cache, frozen, calls, pending, timer, review, resolver,
                 prompting, shown, edits, history>>

\* Another writer of the book: a PUT of this process, under the thread's lock
\* and into the cache, or another process.
EditBook(x, v, inside) ==
  /\ edits < MaxEdits /\ book[x] # v /\ edits' = edits + 1
  /\ inside => LockFree
  /\ book' = [book EXCEPT ![x] = v] /\ revision' = revision + 1
  /\ cache' = IF inside THEN book' ELSE cache
  /\ UNCHANGED <<host, frozen, calls, pending, future, tasks, resolver, prompting,
                 shown, allowed, refused, kept>>

-----------------------------------------------------------------------------
Call(r) == \/ Ruled(r) \/ Ask(r) \/ Told(r) \/ Announced(r) \/ AnnounceCancelled(r)
           \/ Wake(r) \/ Removed(r) \/ RemovalCancelled(r) \/ Raised(r) \/ RaiseCancelled(r)
Resolver(r) == ReadBook(r) \/ Commit(r) \/ SaveFails(r) \/ Final(r) \/ Restore(r)
Background(r) == \/ TimerFires(r) \/ ReviewAllows(r) \/ ReviewShown(r) \/ ReviewEnds(r)
                 \/ AutoApprove(r)

Next == \/ Close
        \/ \E r \in Requests :
             \/ AskAtOnce(r) \/ Snapshot(r) \/ Call(r) \/ Resolver(r) \/ Background(r)
             \/ CancelPending(r) \/ CancelCall(r) \/ AnswerRefused(r)
             \/ \E o \in {"approved", "rejected"} : AnswerAtOnce(r, o)
             \/ \E a \in {"allow", "deny"} : Resolve(r, a) \/ ResolveRemember(r, a)
        \/ \E x \in Rules, v \in {"none", "allow", "deny"}, inside \in BOOLEAN :
             EditBook(x, v, inside)

Spec == Init /\ [][Next]_vars

\* The event loop runs ready coroutines, worker threads finish, timeouts fire.
Fairness == \A r \in Requests : WF_vars(Call(r)) /\ WF_vars(Resolver(r)) /\ WF_vars(TimerFires(r))
FairSpec == Spec /\ Fairness

-----------------------------------------------------------------------------
(* Properties *)

\* What was decided on a request: by its future, or without a question.
Decision(r) == IF future[r] \notin {"open", "dropped"} THEN AnswerOf(future[r])
               ELSE IF outcome[r] \in {"approved", "rejected"} THEN outcome[r] ELSE "open"

\* request() returns the one decision that was taken, and an approval only of
\* what a user, a rule or the reviewer has allowed, however resolve, timeout,
\* countdown, cancel and shutdown interleave.
Promise == INSTANCE ApprovalPromise
             WITH Requests <- Requests, allowed <- allowed,
                  decision <- [r \in Requests |-> Decision(r)], outcome <- outcome
PromiseSpec == Promise!Spec

\* The lock file of its save failed: the request is owned by a resolve call
\* that is gone, and its timeout is off.
Abandoned(r) == r \in resolving /\ stage[r] = "lost"

\* Fail closed: a pending nobody has decided has a timeout ticking, or a
\* resolve call at work that will answer it or start the timeout again,
\* through saves that fail, refused answers, cancels and shutdowns.  The one
\* hole is Abandoned.
FailClosed ==
  \A r \in Requests : Open(r) =>
    \/ r \in timer
    \/ r \in resolving /\ stage[r] \in {"queued", "writing", "saved", "failed"}
    \/ Abandoned(r)

\* A rule that was saved for a request says what the request was answered: no
\* timeout, countdown or cancel gets between the save and the answer.
RuleMatchesAnswer ==
  \A r \in Requests : kept[r] # "none" /\ outcome[r] \in {"approved", "rejected"}
                      => outcome[r] = IF kept[r] = "allow" THEN "approved" ELSE "rejected"

\* The inbox shows no request that is gone, but while its removal is on the
\* way: the second announcement, of the countdown, never overtakes the
\* removal, and one cancel of the call anywhere behind its announcement leaves
\* nothing behind.  Only a torn call may leave its entry, and its pending.
InboxShowsPending ==
  \A r \in Requests :
    /\ r \in shown => r \in pending \/ call[r] \in {"removing", "raising", "torn"}
    /\ call[r] = "ended" => r \notin pending

\* A remembered rule never overwrites an edit of the book made since its
\* request was asked, by another tab, request or process: what a save leaves
\* on disk is the revision next to the one the user was asked about.
NoLostEdit ==
  [][edits' = edits /\ book' # book =>
       \E r \in Requests : /\ stage[r] = "writing" /\ stage'[r] # stage[r]
                           /\ revision' = frozen[r] + 1]_vars

\* A request that is pending in the Web, or has its sinks behind it, is
\* answered, in time whatever the user does; see Abandoned for the exception.
Decided ==
  \A r \in Requests : (call[r] = "waiting" \/ (call[r] = "announcing" /\ host = "web"))
                      ~> (call[r] \in {"ended", "torn"} \/ Abandoned(r))

\* The safety README: a user's resolve within the countdown ends the automatic
\* approval.  So what a user has refused is not approved by the countdown.
RefusalEndsCountdown == \A r \in Requests : future[r] = "llm" => r \notin refused
=============================================================================
