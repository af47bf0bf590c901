------------------------------ MODULE Approvals ------------------------------
(***************************************************************************)
(* The questions tool calls ask a person: LocalApprovalService.request,    *)
(* the WaitingConfirmer a page answers, decide_approval, the deadline, and *)
(* the rows.  The row of a question is in the database; the call that      *)
(* waits, its future and its verdict are in memory and go with a crash.    *)
(***************************************************************************)
EXTENDS Naturals, FiniteSets

CONSTANTS
  Questions, \* approval ids: one per asking call
  Tasks,
  TaskOf,    \* the task each question belongs to
  MaxLate    \* bound: clicks in flight to a row no call is parked on

ASSUME TaskOfAssumption == TaskOf \in [Questions -> Tasks]
ASSUME MaxLateAssumption == MaxLate \in Nat

VARIABLES
  mode,     \* how this installation answers
  row,      \* ApprovalRow.state
  overdue,  \* expires_at has passed
  call,     \* where request() is
  answer,   \* the future in WaitingConfirmer._waiting
  verdict,  \* what request() returns
  late,     \* resolve() calls that have not saved yet
  stopping, \* tasks Runs.cancel has released the questions of
  yes,      \* history: questions a person said yes to while a call waited
  overruled \* history: questions resolve() decided after the call was told

vars == <<mode, row, overdue, call, answer, verdict, late, stopping, yes, overruled>>

\* approval_mode, and where it asks: a page whose questions have a deadline, a
\* page configured without one (approval_ttl_seconds = 0), or a terminal.
Modes == {"allow", "deny", "page", "undated_page", "terminal"}
Decisions == {"APPROVED", "REJECTED"}
States == {"ABSENT", "PENDING", "EXPIRED"} \cup Decisions

TypeOK ==
  /\ mode \in Modes
  /\ row \in [Questions -> States]
  /\ overdue \in [Questions -> BOOLEAN]
  /\ call \in [Questions -> {"none", "saved", "parked", "decided", "told", "dead"}]
  /\ answer \in [Questions -> {"none", "open"} \cup Decisions]
  /\ verdict \in [Questions -> {"none", "EXPIRED"} \cup Decisions]
  /\ late \in SUBSET (Questions \X Decisions)
  /\ stopping \in SUBSET Tasks
  /\ yes \in SUBSET Questions
  /\ overruled \in SUBSET Questions

Init ==
  /\ mode \in Modes
  /\ row = [q \in Questions |-> "ABSENT"]
  /\ overdue = [q \in Questions |-> FALSE]
  /\ call = [q \in Questions |-> "none"]
  /\ answer = [q \in Questions |-> "none"]
  /\ verdict = [q \in Questions |-> "none"]
  /\ late = {} /\ stopping = {} /\ yes = {} /\ overruled = {}

-----------------------------------------------------------------------------
(* LocalApprovalService.request *)

\* The question is written down before it is answered.  A run that has been
\* told to stop makes no further call, so it asks nothing new.
Ask(q) ==
  /\ call[q] = "none" /\ TaskOf[q] \notin stopping
  /\ row' = [row EXCEPT ![q] = "PENDING"]
  /\ call' = [call EXCEPT ![q] = "saved"]
  /\ UNCHANGED <<mode, overdue, answer, verdict, late, stopping, yes, overruled>>

\* The call knows its verdict and saves it next.
Conclude(q, decision) ==
  /\ verdict' = [verdict EXCEPT ![q] = decision]
  /\ call' = [call EXCEPT ![q] = "decided"]
  /\ answer' = [answer EXCEPT ![q] = "none"]
  /\ UNCHANGED <<mode, row, overdue, late, stopping, overruled>>

\* Nobody is asked: the configuration, or the lack of a terminal, answers.
Configured(q) ==
  /\ call[q] = "saved" /\ mode \in {"allow", "deny"}
  /\ Conclude(q, IF mode = "allow" THEN "APPROVED" ELSE "REJECTED")
  /\ UNCHANGED yes

\* console_confirmer blocks the whole process until something is typed.
Typed(q, decision) ==
  /\ call[q] = "saved" /\ mode = "terminal"
  /\ Conclude(q, decision)
  /\ yes' = IF decision = "APPROVED" THEN yes \cup {q} ELSE yes

\* WaitingConfirmer puts a future where the page can find it.
Park(q) ==
  /\ call[q] = "saved" /\ mode \in {"page", "undated_page"}
  /\ call' = [call EXCEPT ![q] = "parked"]
  /\ answer' = [answer EXCEPT ![q] = "open"]
  /\ UNCHANGED <<mode, row, overdue, verdict, late, stopping, yes, overruled>>

\* The coroutine runs again with the answer its future was given.
Wake(q) ==
  /\ call[q] = "parked" /\ answer[q] \in Decisions
  /\ Conclude(q, answer[q])
  /\ UNCHANGED yes

\* Fault: only the row's deadline ends the wait.
TimeOutOverdue(q) ==
  /\ call[q] = "parked" /\ overdue[q]
  /\ Conclude(q, "EXPIRED")
  /\ UNCHANGED yes

\* Fault: the timer is not taken down once the answer is in.
TimeOutTwice(q) ==
  /\ call[q] \in {"parked", "decided"}
  /\ Conclude(q, "REJECTED")
  /\ UNCHANGED yes

\* One of the two wait_for's gives up: the page's own answers no, the service's
\* says the question expired.  A timer that fires in the same turn of the event
\* loop as a click wins over it.
TimeOut(q) ==
  /\ call[q] = "parked"
  /\ \/ Conclude(q, "REJECTED")
     \/ overdue[q] /\ Conclude(q, "EXPIRED")
  /\ UNCHANGED yes

\* The verdict is saved from request()'s own copy over whatever the row says,
\* and then told to the gate.
Store(q) ==
  /\ call[q] = "decided"
  /\ row' = [row EXCEPT ![q] = verdict[q]]
  /\ call' = [call EXCEPT ![q] = "told"]
  /\ UNCHANGED <<mode, overdue, answer, verdict, late, stopping, yes, overruled>>

-----------------------------------------------------------------------------
(* The page, the other side *)

\* decide_approval when a call is parked on the question and not yet answered.
Click(q, decision) ==
  /\ call[q] = "parked" /\ answer[q] = "open"
  /\ answer' = [answer EXCEPT ![q] = decision]
  /\ yes' = IF decision = "APPROVED" THEN yes \cup {q} ELSE yes
  /\ UNCHANGED <<mode, row, overdue, call, verdict, late, stopping, overruled>>

\* decide_approval when it is not: the decision is for the row.
ClickLate(q, decision) ==
  /\ row[q] # "ABSENT"
  /\ ~(call[q] = "parked" /\ answer[q] = "open")
  /\ Cardinality(late) < MaxLate
  /\ late' = late \cup {<<q, decision>>}
  /\ UNCHANGED <<mode, row, overdue, call, answer, verdict, stopping, yes, overruled>>

\* resolve() overwrites whatever state the row is in.
RecordLate(q, decision) ==
  /\ <<q, decision>> \in late
  /\ row' = [row EXCEPT ![q] = decision]
  /\ late' = late \ {<<q, decision>>}
  /\ overruled' = IF call[q] = "told" THEN overruled \cup {q} ELSE overruled
  /\ UNCHANGED <<mode, overdue, call, answer, verdict, stopping, yes>>

\* Runs.cancel on a live task: release() answers no to what is parked.
Release(t) ==
  /\ t \notin stopping
  /\ stopping' = stopping \cup {t}
  /\ answer' = [q \in Questions |->
                 IF TaskOf[q] = t /\ answer[q] = "open" THEN "REJECTED" ELSE answer[q]]
  /\ UNCHANGED <<mode, row, overdue, call, verdict, late, yes, overruled>>

-----------------------------------------------------------------------------
(* Time, and the rows nobody holds *)

\* Only an installation with a page builds its service with a deadline, in
\* whatever approval_mode it runs, unless approval_ttl_seconds is 0.
DeadlinePasses(q) ==
  /\ mode \notin {"terminal", "undated_page"} /\ row[q] # "ABSENT" /\ ~overdue[q]
  /\ overdue' = [overdue EXCEPT ![q] = TRUE]
  /\ UNCHANGED <<mode, row, call, answer, verdict, late, stopping, yes, overruled>>

\* Fault: what is overdue is left out of the list and left as it is.
ListAndHide == UNCHANGED vars

\* list_pending closes what is overdue before it reads.
List ==
  /\ row' = [q \in Questions |->
              IF row[q] = "PENDING" /\ overdue[q] THEN "EXPIRED" ELSE row[q]]
  /\ UNCHANGED <<mode, overdue, call, answer, verdict, late, stopping, yes, overruled>>

Waiting == {q \in Questions : call[q] \in {"saved", "parked", "decided"}}

Crash ==
  /\ call' = [q \in Questions |-> IF q \in Waiting THEN "dead" ELSE call[q]]
  /\ answer' = [q \in Questions |-> "none"]
  /\ late' = {} /\ stopping' = {}
  /\ UNCHANGED <<mode, row, overdue, verdict, yes, overruled>>

Proceed(q) ==
  \/ Configured(q) \/ Park(q) \/ Wake(q) \/ TimeOut(q) \/ Store(q)
  \/ \E d \in Decisions : Typed(q, d)

Next ==
  \/ \E q \in Questions :
       \/ Ask(q) \/ Proceed(q) \/ DeadlinePasses(q)
       \/ \E d \in Decisions : Click(q, d) \/ ClickLate(q, d) \/ RecordLate(q, d)
  \/ \E t \in Tasks : Release(t)
  \/ List \/ Crash

\* Timers fire and coroutines are scheduled; a page polls the list.  Nobody has
\* to click, and a person at a terminal is assumed to type something.
Fairness ==
  /\ \A q \in Questions : WF_vars(Proceed(q)) /\ WF_vars(DeadlinePasses(q))
  /\ WF_vars(List)

Spec == Init /\ [][Next]_vars
FairSpec == Spec /\ Fairness

-----------------------------------------------------------------------------
(* Properties *)

\* waiting.py: "Anything but an explicit approval is a rejection".  No timeout,
\* release, restart or race turns into a yes.
OnlyAYesApproves ==
  \A q \in Questions : verdict[q] = "APPROVED" => mode = "allow" \/ q \in yes

\* LocalApprovalService keeps the promise of every approval service: each call is
\* told one answer, once, and yes only after somebody agreed.  The configuration
\* "allow" has agreed to everything beforehand.
LocalConsent ==
  INSTANCE Consent WITH agreed <- IF mode = "allow" THEN Questions ELSE yes, told <- verdict
ToldOnceWithConsent == LocalConsent!Spec

\* What the tool call was told is what the row says, until a late click decides
\* the row again: neither the sweep of overdue rows nor a click recorded while
\* the call was still being answered leaves the two apart.
ToldIsRecorded ==
  \A q \in Questions : call[q] = "told" /\ q \notin overruled => row[q] = verdict[q]

\* waiting.py: "A wait has a deadline."  Every question asked comes to an end,
\* whether or not anybody answers.
EveryQuestionEnds ==
  \A q \in Questions : call[q] = "saved" ~> call[q] \in {"told", "dead"}

\* settings.py: a question nobody came back to "is closed as EXPIRED rather
\* than left pending forever", even when the process that asked it is gone.  A
\* question asked without a page has no deadline and is not promised that.
RowsAreClosed ==
  mode = "page" =>
    \A q \in Questions : row[q] = "PENDING" ~> row[q] # "PENDING"

-----------------------------------------------------------------------------
(* What the documentation says and the code does not *)

\* test_approval_expiry.py: "A decision already made stands."
DecisionStands ==
  [][\A q \in Questions : row[q] \notin {"ABSENT", "PENDING"} => row'[q] = row[q]]_vars

\* waiting.py: "A cancelled task releases its questions."  None is left open
\* for the timeout to end.
StoppedTasksWaitForNobody ==
  \A q \in Questions : TaskOf[q] \in stopping => answer[q] # "open"

-----------------------------------------------------------------------------
(* Why the safety properties hold *)

\* A future says yes only after a click, and a call has its verdict exactly
\* when it no longer waits.
AnswersAccountedFor ==
  \A q \in Questions :
    /\ answer[q] = "APPROVED" => q \in yes
    /\ call[q] \in {"none", "saved", "parked"} => verdict[q] = "none"
    /\ call[q] \in {"decided", "told"} => verdict[q] # "none"

IndInv == TypeOK /\ AnswersAccountedFor /\ OnlyAYesApproves /\ ToldIsRecorded
=============================================================================
