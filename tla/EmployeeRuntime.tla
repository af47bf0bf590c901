--------------------------- MODULE EmployeeRuntime ---------------------------
(***************************************************************************)
(* One task carried by TaskRunner and EmployeeRuntime: plan, execute in    *)
(* steps, verify, send back once.  The row is what the task repository     *)
(* holds and survives a crash; `task` is the copy the running coroutine    *)
(* works on and does not.  A step is the code between two awaits at which  *)
(* something else can happen: a save, a model call, a tool, a person.      *)
(*                                                                         *)
(* Abstracted: what is planned, said and observed.  Each model call of the *)
(* executor costs one unit.  The planner's and the verifier's calls are    *)
(* not in the transcript's cost, as in the code.                           *)
(***************************************************************************)
EXTENDS Naturals, TaskStates

CONSTANTS
  MaxAttempts,    \* runtime.MAX_ATTEMPTS: one retry after a rejected verdict
  RunnerAttempts, \* task_runner.MAX_TASK_ATTEMPTS: entries per transient failure
  MaxSteps,       \* ExecutionLimits.max_steps
  MaxCost,        \* ExecutionLimits.max_cost, in model calls
  MaxCalls,       \* bound: tool calls in one model response
  MaxCrashes      \* bound: how often the process is killed

ASSUME ConstantsAssumption ==
  /\ MaxAttempts \in Nat \ {0}
  /\ RunnerAttempts \in Nat \ {0}
  /\ MaxSteps \in Nat
  /\ MaxCost \in Nat
  /\ MaxCalls \in Nat \ {0}
  /\ MaxCrashes \in Nat

VARIABLES
  row,        \* the saved task: status and execution cursor
  task,       \* the running coroutine's copy of both
  pc,         \* where that coroutine is
  entry,      \* TaskRunner._run's `attempt`
  pending,    \* tool calls of the current response not yet made
  stopped,    \* outcome.stopped_by: a limit cut the execution short
  signal,     \* Cancellation.is_cancelled: in memory, of this process
  assignment, \* the TaskAssignment row
  failure,    \* the error kind the row was failed with
  paid,       \* history: model calls paid for by all processes together
  unsaved,    \* history: tool calls made since the transcript was last saved
  rejections, \* history: verdicts that rejected the result
  crashes,    \* history: times the process was killed
  reentries   \* history: times a transient failure re-entered the task

vars == <<row, task, pc, entry, pending, stopped, signal, assignment, failure,
          paid, unsaved, rejections, crashes, reentries>>
history == <<paid, unsaved, rejections, crashes, reentries>>

Labels == {"assigning", "starting", "plan", "planning", "loop", "model", "calls",
           "asking", "tool", "verify", "verifying", "failing", "closing",
           "ended", "down"}

\* RunState as it is saved.  VERIFYING and DONE are stages of the copy in
\* memory only, where pc stands for them: no save ever writes them.
Executions == [stage : {"PLANNING", "EXECUTING"}, attempt : Nat, steps : Nat, cost : Nat]
Tasks == [status : Statuses, exec : Executions]

TypeOK ==
  /\ row \in Tasks /\ task \in Tasks
  /\ pc \in Labels
  /\ entry \in Nat /\ pending \in Nat
  /\ stopped \in BOOLEAN /\ signal \in BOOLEAN
  /\ assignment \in {"ABSENT", "ACCEPTED", "COMPLETED", "FAILED"}
  /\ failure \in {"none", "rejected", "illegal", "error"}
  /\ paid \in Nat /\ unsaved \in Nat /\ rejections \in Nat
  /\ crashes \in Nat /\ reentries \in Nat

-----------------------------------------------------------------------------
(* Shared moves *)

At(label) == pc = label
Goto(label) == pc' = label

\* tasks.save is an upsert of the whole row: the copy's status, and whichever
\* cursor was last put into the copy by with_execution.
Save(status, copied, saved) ==
  /\ task' = [status |-> status, exec |-> copied]
  /\ row' = [status |-> status, exec |-> saved]

\* task.transition_to(status) alone does not bring the saved cursor up to date.
SaveStatus(status) == Save(status, task.exec, row.exec)

\* persist(): the whole cursor is written, the stage still EXECUTING.
SaveStep(exec) == Save(task.status, exec, exec)

\* transition_to raises InvalidStateTransitionError, which classify() calls
\* permanent: the run dies and the runner marks the row.
IllegalTransition ==
  /\ failure' = "illegal"
  /\ Goto("failing")
  /\ UNCHANGED <<row, task, entry, pending, stopped, signal, assignment, history>>

\* The copy a process starts from: what the repository returns.
Reload == task' = row

-----------------------------------------------------------------------------
(* TaskRunner *)

\* submit()/start(): the task row is saved first, the assignment second.
Init ==
  LET created == [status |-> "CREATED",
                  exec |-> [stage |-> "PLANNING", attempt |-> 1, steps |-> 0, cost |-> 0]]
  IN /\ row = created /\ task = created
     /\ pc = "assigning" /\ entry = 1 /\ pending = 0
     /\ stopped = FALSE /\ signal = FALSE
     /\ assignment = "ABSENT" /\ failure = "none"
     /\ paid = 0 /\ unsaved = 0 /\ rejections = 0 /\ crashes = 0 /\ reentries = 0

SaveAssignment ==
  /\ At("assigning")
  /\ assignment' = "ACCEPTED"
  /\ Goto("starting")
  /\ UNCHANGED <<row, task, entry, pending, stopped, signal, failure, history>>

\* _run enters the runtime, which goes to the stage its saved state names.
Enter ==
  /\ At("starting")
  /\ Goto(IF task.exec.stage = "EXECUTING" THEN "loop" ELSE "plan")
  /\ UNCHANGED <<row, task, entry, pending, stopped, signal, assignment, failure, history>>

\* An exception from assembling the runtime, the planner, the executor's model
\* or the verifier.  A transient one re-enters the task from its row.
Raise ==
  /\ pc \in {"starting", "planning", "model", "verifying"}
  /\ \/ /\ pc # "starting"
        /\ entry < RunnerAttempts
        /\ entry' = entry + 1 /\ reentries' = reentries + 1
        /\ Reload /\ stopped' = FALSE
        /\ Goto("starting")
        /\ UNCHANGED failure
     \/ /\ failure' = "error" /\ Goto("failing")
        /\ UNCHANGED <<task, entry, stopped, reentries>>
  /\ UNCHANGED <<row, pending, signal, assignment, paid, unsaved, rejections, crashes>>

\* _mark_failed reads the row again; a terminal one is left as it is.
MarkFailed ==
  /\ At("failing")
  /\ Save(IF row.status \in TerminalStatuses THEN row.status ELSE "FAILED",
          row.exec, row.exec)
  /\ Goto("closing")
  /\ UNCHANGED <<entry, pending, stopped, signal, assignment, failure, history>>

\* _close, when the run was given an assignment; _finished drops the signal.
Close ==
  /\ At("closing")
  /\ assignment' = IF assignment = "ABSENT" THEN "ABSENT"
                   ELSE IF row.status = "COMPLETED" THEN "COMPLETED" ELSE "FAILED"
  /\ signal' = FALSE
  /\ Goto("ended")
  /\ UNCHANGED <<row, task, entry, pending, stopped, failure, history>>

-----------------------------------------------------------------------------
(* Planning *)

BeginPlan ==
  /\ At("plan")
  /\ IF task.status = "PLANNING" \/ CanTransition(task.status, "PLANNING")
     THEN /\ SaveStatus("PLANNING")
          /\ Goto("planning")
          /\ UNCHANGED <<entry, pending, stopped, signal, assignment, failure, history>>
     ELSE IllegalTransition

\* Fault: a new transcript forgets what the rejected attempt cost.
FreshTranscript(exec) ==
  [stage |-> "EXECUTING", attempt |-> exec.attempt, steps |-> 0, cost |-> 0]

\* The transcript starts afresh, except for what it has cost.
FreshExecution(exec) ==
  [stage |-> "EXECUTING", attempt |-> exec.attempt, steps |-> 0, cost |-> exec.cost]

\* The planner answered, or its PlanningError was replaced by the goal.
FinishPlan ==
  /\ At("planning")
  /\ Save("RUNNING", FreshExecution(task.exec), FreshExecution(task.exec))
  /\ Goto("loop")
  /\ UNCHANGED <<entry, pending, stopped, signal, assignment, failure, history>>

-----------------------------------------------------------------------------
(* Executing *)

\* The loop looks at the signal before each model call and before each tool
\* call.  _cancel: what it had is neither verified nor saved as a step.
Cancel ==
  /\ signal
  /\ At("loop") \/ (At("calls") /\ pending > 0)
  /\ SaveStatus("CANCELLED")
  /\ pending' = 0
  /\ Goto("closing")
  /\ UNCHANGED <<entry, stopped, signal, assignment, failure, history>>

Exceeded == task.exec.steps >= MaxSteps \/ task.exec.cost >= MaxCost

\* A budget is spent.  The wall clock is the third one and may strike any time.
Stop ==
  /\ At("loop") /\ ~signal
  /\ stopped' = TRUE
  /\ Goto("verify")
  /\ UNCHANGED <<row, task, entry, pending, signal, assignment, failure, history>>

AskModel ==
  /\ At("loop") /\ ~signal /\ ~Exceeded
  /\ Goto("model")
  /\ UNCHANGED <<row, task, entry, pending, stopped, signal, assignment, failure, history>>

Advanced(exec) == [stage |-> exec.stage, attempt |-> exec.attempt,
                   steps |-> exec.steps + 1, cost |-> exec.cost + 1]

\* The model answers with text: the step is saved and the execution is over.
Answer ==
  /\ At("model")
  /\ SaveStep(Advanced(task.exec))
  /\ paid' = paid + 1 /\ unsaved' = 0
  /\ stopped' = FALSE
  /\ Goto("verify")
  /\ UNCHANGED <<entry, pending, signal, assignment, failure, rejections, crashes, reentries>>

\* The model answers with tool calls: nothing is saved before they are made.
CallTools ==
  /\ At("model")
  /\ \E n \in 1..MaxCalls : pending' = n
  /\ task' = [status |-> task.status, exec |-> Advanced(task.exec)]
  /\ paid' = paid + 1
  /\ Goto("calls")
  /\ UNCHANGED <<row, entry, stopped, signal, assignment, failure,
                 unsaved, rejections, crashes, reentries>>

\* Unknown, denied, or refused by policy: an observation and nothing else.
RefuseCall ==
  /\ At("calls") /\ ~signal /\ pending > 0
  /\ pending' = pending - 1
  /\ UNCHANGED <<row, task, pc, entry, stopped, signal, assignment, failure, history>>

AllowCall ==
  /\ At("calls") /\ ~signal /\ pending > 0
  /\ Goto("tool")
  /\ UNCHANGED <<row, task, entry, pending, stopped, signal, assignment, failure, history>>

\* waiting(): a status the task cannot move to is skipped, not raised.
Park(status) ==
  IF CanTransition(task.status, status) THEN SaveStatus(status)
  ELSE UNCHANGED <<row, task>>

AskPerson ==
  /\ At("calls") /\ ~signal /\ pending > 0
  /\ Park("WAITING_FOR_APPROVAL")
  /\ Goto("asking")
  /\ UNCHANGED <<entry, pending, stopped, signal, assignment, failure, history>>

\* Answered, expired or released: either way the status goes back.
PersonAnswers ==
  /\ At("asking")
  /\ Park("RUNNING")
  /\ \/ Goto("tool") /\ UNCHANGED pending
     \/ Goto("calls") /\ pending' = pending - 1
  /\ UNCHANGED <<entry, stopped, signal, assignment, failure, history>>

\* The tool ran; its failure is an observation like its success.
RunTool ==
  /\ At("tool")
  /\ pending' = pending - 1 /\ unsaved' = unsaved + 1
  /\ Goto("calls")
  /\ UNCHANGED <<row, task, entry, stopped, signal, assignment, failure,
                 paid, rejections, crashes, reentries>>

\* Fault: on_step is only called for the final answer.
FinishStepUnsaved ==
  /\ At("calls") /\ pending = 0
  /\ Goto("loop")
  /\ UNCHANGED <<row, task, entry, pending, stopped, signal, assignment, failure, history>>

\* All calls of the response are made: on_step, and round again.
FinishStep ==
  /\ At("calls") /\ pending = 0
  /\ SaveStep(task.exec)
  /\ unsaved' = 0
  /\ Goto("loop")
  /\ UNCHANGED <<entry, pending, stopped, signal, assignment, failure,
                 paid, rejections, crashes, reentries>>

-----------------------------------------------------------------------------
(* Verifying *)

BeginVerify ==
  /\ At("verify")
  /\ IF CanTransition(task.status, "VERIFYING")
     THEN /\ SaveStatus("VERIFYING")
          /\ Goto("verifying")
          /\ UNCHANGED <<entry, pending, stopped, signal, assignment, failure, history>>
     ELSE IllegalTransition

Accept ==
  /\ At("verifying")
  /\ SaveStatus("COMPLETED")
  /\ Goto("closing")
  /\ UNCHANGED <<entry, pending, stopped, signal, assignment, failure, history>>

SecondAttempt(exec) == [stage |-> "PLANNING", attempt |-> exec.attempt + 1,
                        steps |-> exec.steps, cost |-> exec.cost]

\* The second attempt's number and feedback are in memory until FinishPlan.
SendBack ==
  /\ At("verifying")
  /\ task.exec.attempt < MaxAttempts /\ ~stopped
  /\ Save("PLANNING", SecondAttempt(task.exec), row.exec)
  /\ rejections' = rejections + 1
  /\ Goto("plan")
  /\ UNCHANGED <<entry, pending, stopped, signal, assignment, failure,
                 paid, unsaved, crashes, reentries>>

Reject ==
  /\ At("verifying")
  /\ task.exec.attempt >= MaxAttempts \/ stopped
  /\ SaveStatus("FAILED")
  /\ failure' = "rejected" /\ rejections' = rejections + 1
  /\ Goto("closing")
  /\ UNCHANGED <<entry, pending, stopped, signal, assignment,
                 paid, unsaved, crashes, reentries>>

-----------------------------------------------------------------------------
(* The world around the run *)

Live == pc \notin {"ended", "down"}

\* RunService.cancel on a task it is running: the run is asked, not stopped.
RequestCancel ==
  /\ Live /\ pc # "assigning" /\ ~signal
  /\ row.status \notin TerminalStatuses
  /\ signal' = TRUE
  /\ UNCHANGED <<row, task, pc, entry, pending, stopped, assignment, failure, history>>

\* Everything in memory goes; the next process would start from the row.
Forget(status) ==
  /\ Save(status, row.exec, row.exec)
  /\ entry' = 1 /\ pending' = 0 /\ stopped' = FALSE /\ signal' = FALSE
  /\ unsaved' = 0
  /\ Goto("down")
  /\ UNCHANGED <<assignment, paid, rejections, reentries>>

Crash ==
  /\ Live /\ crashes < MaxCrashes
  /\ crashes' = crashes + 1
  /\ Forget(row.status)
  /\ failure' = IF row.status = "FAILED" THEN failure ELSE "none"

\* A run the shutdown gave up on is cancelled where it awaits: a parked one
\* still restores its status in ApprovalGate._ask's finally.
ShutDown ==
  /\ At("asking") /\ crashes < MaxCrashes
  /\ CanTransition(row.status, "RUNNING")
  /\ crashes' = crashes + 1
  /\ Forget("RUNNING")
  /\ UNCHANGED failure

\* `prometheus resume`: every task list_resumable returns.
Resume ==
  /\ At("down") /\ row.status \in ResumableStatuses
  /\ Goto("starting")
  /\ UNCHANGED <<row, task, entry, pending, stopped, signal, assignment, failure, history>>

\* RunService.cancel on a task it is not running: there is no loop to ask.
CancelIdle ==
  /\ At("down") /\ row.status \notin TerminalStatuses
  /\ SaveStatus("CANCELLED")
  /\ Goto("ended")
  /\ UNCHANGED <<entry, pending, stopped, signal, assignment, failure, history>>

Run == \/ SaveAssignment \/ Enter \/ Raise \/ MarkFailed \/ Close
       \/ BeginPlan \/ FinishPlan
       \/ Cancel \/ Stop \/ AskModel \/ Answer \/ CallTools
       \/ RefuseCall \/ AllowCall \/ AskPerson \/ PersonAnswers \/ RunTool \/ FinishStep
       \/ BeginVerify \/ Accept \/ SendBack \/ Reject

Next == Run \/ RequestCancel \/ Crash \/ ShutDown \/ Resume \/ CancelIdle

\* A live coroutine is scheduled again, every await it makes has a deadline
\* (model and tool timeouts, an approval's expiry), and the person who saw the
\* process die runs `prometheus resume`.  Nobody has to cancel.
Fairness == WF_vars(Run) /\ WF_vars(Resume)

Spec == Init /\ [][Next]_vars
FairSpec == Spec /\ Fairness

-----------------------------------------------------------------------------
(* Properties *)

\* The status column moves only along the declared transitions, whatever the
\* runtime, the runner, the approval gate, a crash and a resume do to it.
Lifecycle == INSTANCE TaskLifecycle WITH status <- row.status
StatusMovesAreDeclared == Lifecycle!Spec

\* runtime.persist: "Saved before the next model call, so a process killed
\* mid-run comes back knowing what it already said and already paid for."
SavedBeforeModelCall == pc \in {"loop", "model"} => row.exec = task.exec

\* README: resume "continues from the last saved step".  What a kill can lose
\* is one model response and the tool calls it asked for, never more.
LossBounded == Live => /\ task.exec.cost <= row.exec.cost + 1
                       /\ unsaved <= MaxCalls

\* The cost budget holds over attempts, re-entries and restarts together: only
\* a kill, which loses the call it interrupts, lets one more be paid for.
SpendingCeiling == paid <= MaxCost + crashes

\* Work is sent back once.  The number of the attempt is saved late, so every
\* interruption may cost one more verdict, but no more than one.
RejectionsBounded == rejections <= MaxAttempts + crashes + reentries

\* A run nothing interrupted never asks for a transition the table forbids.
IllegalOnlyAfterInterruption == failure = "illegal" => crashes + reentries > 0

\* ApprovalGate._ask restores the status whatever the answer was: while a
\* process carries the task, the row says WAITING_FOR_APPROVAL only during the
\* question.
ParkedOnlyWhileAsking ==
  Live /\ row.status = "WAITING_FOR_APPROVAL" => pc = "asking"

\* The assignment is closed after its task and with its task's outcome.
AssignmentFollowsTask ==
  assignment \in {"COMPLETED", "FAILED"} =>
    /\ row.status \in TerminalStatuses
    /\ assignment = "COMPLETED" <=> row.status = "COMPLETED"

\* Every task is carried to a terminal status, or it is left parked on a
\* question by a process that died.
EventuallySettled ==
  <>[](\/ row.status \in TerminalStatuses
       \/ At("down") /\ row.status = "WAITING_FOR_APPROVAL")

-----------------------------------------------------------------------------
(* What the documentation says and the code does not *)

\* RESUMABLE_STATUSES: "Statuses a task can be picked up from after a restart."
\* Picked up, the run must not fail the task for the state it was found in.
PickedUpLegally == failure # "illegal"

\* settings.py on approvals: "a pending row is a task that `prometheus resume`
\* will keep picking up".  So with resume run whenever it can be, a task asked
\* about does not stay unfinished for ever.
EventuallyTerminal == <>(row.status \in TerminalStatuses)

-----------------------------------------------------------------------------
(* Why they hold: the inductive invariant the proofs rest on *)

InStep == {"calls", "asking", "tool"}

\* How far the copy is ahead of the row, place by place: nowhere but inside a
\* step, and by the attempt's number while the work is planned again.
CopyAheadOfRow ==
  /\ pc \in {"assigning", "starting", "loop", "model", "verify", "verifying", "down"} =>
       task.exec = row.exec
  /\ pc \in InStep => task.exec = Advanced(row.exec)
  /\ pc \in {"plan", "planning", "failing"} => task.exec.cost = row.exec.cost
  /\ row.exec.cost <= task.exec.cost /\ task.exec.cost <= row.exec.cost + 1
  /\ row.exec.attempt <= task.exec.attempt /\ task.exec.attempt <= row.exec.attempt + 1

\* The two copies of the status never differ, and what it can be at each place.
StatusInSync ==
  /\ task.status = row.status
  /\ pc = "planning" => row.status = "PLANNING"
  /\ pc = "verifying" => row.status = "VERIFYING"
  /\ pc = "closing" => row.status \in TerminalStatuses
  /\ pc \notin {"closing", "ended", "down"} => row.status \notin TerminalStatuses
  /\ ParkedOnlyWhileAsking

\* What is paid for is in the copy, but for one call per kill.
SpendingKept ==
  /\ paid <= task.exec.cost + crashes
  /\ task.exec.cost <= MaxCost
  /\ pc = "model" => task.exec.cost < MaxCost

\* The tool calls of one response are made or still to be made.
CallsKept ==
  /\ pc \in InStep => unsaved + pending <= MaxCalls
  /\ pc \in {"asking", "tool"} => pending > 0
  /\ pc \notin InStep => pending = 0
  /\ pc \notin InStep \cup {"closing", "ended"} => unsaved = 0
  /\ unsaved <= MaxCalls

\* Each attempt has had one verdict less than its number, but for interruptions.
RejectionsCounted ==
  /\ row.status \notin TerminalStatuses =>
       rejections + 1 <= task.exec.attempt + crashes + reentries
  /\ task.exec.attempt <= MaxAttempts
  /\ RejectionsBounded

\* Without an interruption the status says where the run is.
StatusTellsPlace ==
  crashes + reentries = 0 =>
    /\ pc # "down" /\ failure # "illegal"
    /\ pc \in {"assigning", "starting"} =>
         row.status = "CREATED" /\ row.exec.stage = "PLANNING"
    /\ pc = "plan" => row.status \in {"CREATED", "PLANNING"}
    /\ pc \in {"loop", "model", "calls", "tool", "verify"} => row.status = "RUNNING"
    /\ pc = "asking" => row.status = "WAITING_FOR_APPROVAL"

ClosedAtTheEnd ==
  assignment \in {"COMPLETED", "FAILED"} => pc = "ended" /\ AssignmentFollowsTask

IndInv == /\ TypeOK /\ CopyAheadOfRow /\ StatusInSync /\ SpendingKept /\ CallsKept
          /\ RejectionsCounted /\ StatusTellsPlace /\ ClosedAtTheEnd
=============================================================================
