----------------------- MODULE EmployeeRuntimeProofs -----------------------
(***************************************************************************)
(* IndInv of EmployeeRuntime is inductive, for every value of the limits;  *)
(* the safety properties of the run and the refinement of TaskLifecycle    *)
(* follow from it.                                                         *)
(***************************************************************************)
EXTENDS EmployeeRuntime, TLAPS

\* What the table of domain/tasks/task.py allows, for the moves the runtime
\* makes: a live task can always fail or be cancelled, and a question or a
\* verdict always has a way back.
LEMMA TransitionFacts ==
  /\ \A s \in Statuses \ TerminalStatuses :
       CanTransition(s, "FAILED") /\ CanTransition(s, "CANCELLED")
  /\ CanTransition("PLANNING", "RUNNING")
  /\ CanTransition("CREATED", "PLANNING")
  /\ CanTransition("RUNNING", "VERIFYING")
  /\ CanTransition("RUNNING", "WAITING_FOR_APPROVAL")
  /\ CanTransition("WAITING_FOR_APPROVAL", "RUNNING")
  /\ CanTransition("VERIFYING", "PLANNING")
  /\ CanTransition("VERIFYING", "COMPLETED")
  /\ \A s \in TerminalStatuses, t \in Statuses : ~CanTransition(s, t)
  BY DEF CanTransition, Statuses, TerminalStatuses

\* A save leaves the row and the copy with the same status and the cursors it
\* was given.
LEMMA SaveFields ==
  ASSUME NEW s \in Statuses, NEW c \in Executions, NEW e \in Executions, Save(s, c, e)
  PROVE  /\ row' \in Tasks /\ row'.status = s /\ row'.exec = e
         /\ task' \in Tasks /\ task'.status = s /\ task'.exec = c
  BY DEF Save, Tasks

LEMMA TaskFields ==
  ASSUME NEW t \in Tasks PROVE t.status \in Statuses /\ t.exec \in Executions
  BY DEF Tasks

\* What the three updates of the execution cursor do to its fields.
LEMMA CursorFields ==
  ASSUME NEW e \in Executions
  PROVE  /\ e.cost \in Nat /\ e.attempt \in Nat /\ e.steps \in Nat
         /\ e.stage \in {"PLANNING", "EXECUTING"}
         /\ Advanced(e) \in Executions
         /\ Advanced(e).cost = e.cost + 1 /\ Advanced(e).attempt = e.attempt
         /\ FreshExecution(e) \in Executions
         /\ FreshExecution(e).cost = e.cost /\ FreshExecution(e).attempt = e.attempt
         /\ SecondAttempt(e) \in Executions
         /\ SecondAttempt(e).cost = e.cost /\ SecondAttempt(e).attempt = e.attempt + 1
  BY DEF Executions, Advanced, FreshExecution, SecondAttempt

LEMMA InitIndInv == Init => IndInv
  <1> SUFFICES ASSUME Init PROVE IndInv
    OBVIOUS
  <1>1. /\ row.status = "CREATED" /\ row \in Tasks /\ task = row
        /\ row.exec.stage = "PLANNING" /\ row.exec.attempt = 1 /\ row.exec.cost = 0
    BY DEF Init, Tasks, Executions, Statuses
  <1> USE <1>1, ConstantsAssumption
  <1>2. TypeOK
    BY DEF Init, TypeOK, Labels
  <1>3. CopyAheadOfRow /\ StatusInSync
    BY DEF Init, CopyAheadOfRow, StatusInSync, InStep, ParkedOnlyWhileAsking, TerminalStatuses
  <1>4. SpendingKept /\ CallsKept /\ RejectionsCounted
    BY DEF Init, SpendingKept, CallsKept, InStep, RejectionsCounted, RejectionsBounded
  <1>5. StatusTellsPlace /\ ClosedAtTheEnd
    BY DEF Init, StatusTellsPlace, ClosedAtTheEnd
  <1>6. QED
    BY <1>2, <1>3, <1>4, <1>5 DEF IndInv

-----------------------------------------------------------------------------
\* What an action does to the row and the copy, in terms of their fields: all
\* the invariant says of them.
Moved(status, copied, saved) ==
  /\ row' \in Tasks /\ row'.status = status /\ row'.exec = saved
  /\ task' \in Tasks /\ task'.status = status /\ task'.exec = copied

LEMMA Moves ==
  ASSUME TypeOK
  PROVE  /\ \A s \in Statuses : SaveStatus(s) => Moved(s, task.exec, row.exec)
         /\ \A e \in Executions : SaveStep(e) => Moved(task.status, e, e)
         /\ \A s \in Statuses : Save(s, row.exec, row.exec) => Moved(s, row.exec, row.exec)
         /\ FinishPlan => Moved("RUNNING", FreshExecution(task.exec), FreshExecution(task.exec))
         /\ SendBack => Moved("PLANNING", SecondAttempt(task.exec), row.exec)
         /\ CallTools => /\ task' \in Tasks /\ task'.status = task.status
                         /\ task'.exec = Advanced(task.exec)
  <1>1. row.exec \in Executions /\ task.exec \in Executions /\ task.status \in Statuses
    BY TaskFields DEF TypeOK
  <1>2. FreshExecution(task.exec) \in Executions /\ SecondAttempt(task.exec) \in Executions
        /\ Advanced(task.exec) \in Executions
    BY <1>1, CursorFields
  <1>3. "RUNNING" \in Statuses /\ "PLANNING" \in Statuses
    BY DEF Statuses
  <1>4. ASSUME NEW s \in Statuses, SaveStatus(s) PROVE Moved(s, task.exec, row.exec)
    BY <1>1, <1>4, SaveFields DEF SaveStatus, Moved
  <1>5. ASSUME NEW e \in Executions, SaveStep(e) PROVE Moved(task.status, e, e)
    BY <1>1, <1>5, SaveFields DEF SaveStep, Moved
  <1>6. ASSUME NEW s \in Statuses, Save(s, row.exec, row.exec)
        PROVE  Moved(s, row.exec, row.exec)
    BY <1>1, <1>6, SaveFields DEF Moved
  <1>7. FinishPlan => Moved("RUNNING", FreshExecution(task.exec), FreshExecution(task.exec))
    BY <1>2, <1>3, SaveFields DEF FinishPlan, Moved
  <1>8. SendBack => Moved("PLANNING", SecondAttempt(task.exec), row.exec)
    BY <1>1, <1>2, <1>3, SaveFields DEF SendBack, Moved
  <1>9. CallTools => /\ task' \in Tasks /\ task'.status = task.status
                     /\ task'.exec = Advanced(task.exec)
    BY <1>1, <1>2 DEF CallTools, Tasks
  <1>10. QED
    BY <1>4, <1>5, <1>6, <1>7, <1>8, <1>9
-----------------------------------------------------------------------------
LEMMA NextIndInv == IndInv /\ [Next]_vars => IndInv'
  <1> SUFFICES ASSUME IndInv, [Next]_vars PROVE IndInv'
    OBVIOUS
  <1>a. /\ TypeOK /\ CopyAheadOfRow /\ StatusInSync /\ SpendingKept /\ CallsKept
        /\ RejectionsCounted /\ StatusTellsPlace /\ ClosedAtTheEnd
    BY DEF IndInv
  <1>b. /\ row.exec \in Executions /\ task.exec \in Executions
        /\ row.status \in Statuses /\ task.status \in Statuses
    BY <1>a, TaskFields DEF TypeOK
  <1>c. /\ row.exec.cost \in Nat /\ row.exec.attempt \in Nat
        /\ task.exec.cost \in Nat /\ task.exec.attempt \in Nat
        /\ Advanced(row.exec).cost = row.exec.cost + 1
        /\ Advanced(row.exec).attempt = row.exec.attempt
        /\ Advanced(task.exec).cost = task.exec.cost + 1
        /\ Advanced(task.exec).attempt = task.exec.attempt
        /\ FreshExecution(task.exec).cost = task.exec.cost
        /\ FreshExecution(task.exec).attempt = task.exec.attempt
        /\ SecondAttempt(task.exec).cost = task.exec.cost
        /\ SecondAttempt(task.exec).attempt = task.exec.attempt + 1
    BY <1>b, CursorFields
  <1>d. {"COMPLETED", "FAILED", "CANCELLED", "RUNNING", "PLANNING", "VERIFYING",
         "WAITING_FOR_APPROVAL"} \subseteq Statuses
    BY DEF Statuses
  <1> USE <1>a, <1>b, <1>c, ConstantsAssumption DEF At, Goto, history
  <1>1. CASE SaveAssignment
    <2>1. TypeOK' BY <1>1 DEF SaveAssignment, TypeOK, Moved, Labels, CallsKept, InStep
    <2>2. CopyAheadOfRow' BY <1>1 DEF SaveAssignment, CopyAheadOfRow, InStep, Moved
    <2>3. StatusInSync' BY <1>1 DEF SaveAssignment, StatusInSync, ParkedOnlyWhileAsking, Live, TerminalStatuses, Moved
    <2>4. SpendingKept' BY <1>1 DEF SaveAssignment, SpendingKept, CopyAheadOfRow, InStep, TypeOK, Moved
    <2>5. CallsKept' BY <1>1 DEF SaveAssignment, CallsKept, InStep, TypeOK
    <2>6. RejectionsCounted' BY <1>1 DEF SaveAssignment, RejectionsCounted, RejectionsBounded, CopyAheadOfRow, StatusInSync, TerminalStatuses, TypeOK, Moved
    <2>7. StatusTellsPlace' BY <1>1 DEF SaveAssignment, StatusTellsPlace, StatusInSync, CopyAheadOfRow, TerminalStatuses, TypeOK, Moved
    <2>8. ClosedAtTheEnd' BY <1>1 DEF SaveAssignment, ClosedAtTheEnd, AssignmentFollowsTask, StatusInSync, TerminalStatuses, Moved
    <2> QED BY <2>1, <2>2, <2>3, <2>4, <2>5, <2>6, <2>7, <2>8 DEF IndInv
  <1>2. CASE Enter
    <2>1. TypeOK' BY <1>2 DEF Enter, TypeOK, Moved, Labels, CallsKept, InStep
    <2>2. CopyAheadOfRow' BY <1>2 DEF Enter, CopyAheadOfRow, InStep, Moved
    <2>3. StatusInSync' BY <1>2 DEF Enter, StatusInSync, ParkedOnlyWhileAsking, Live, TerminalStatuses, Moved
    <2>4. SpendingKept' BY <1>2 DEF Enter, SpendingKept, CopyAheadOfRow, InStep, TypeOK, Moved
    <2>5. CallsKept' BY <1>2 DEF Enter, CallsKept, InStep, TypeOK
    <2>6. RejectionsCounted' BY <1>2 DEF Enter, RejectionsCounted, RejectionsBounded, CopyAheadOfRow, StatusInSync, TerminalStatuses, TypeOK, Moved
    <2>7. StatusTellsPlace' BY <1>2 DEF Enter, StatusTellsPlace, StatusInSync, CopyAheadOfRow, TerminalStatuses, TypeOK, Moved
    <2>8. ClosedAtTheEnd' BY <1>2 DEF Enter, ClosedAtTheEnd, AssignmentFollowsTask, StatusInSync, TerminalStatuses, Moved
    <2> QED BY <2>1, <2>2, <2>3, <2>4, <2>5, <2>6, <2>7, <2>8 DEF IndInv
  <1>3. CASE Raise
    <2>0. \/ /\ entry' = entry + 1 /\ reentries' = reentries + 1 /\ task' = row
             /\ pc \in {"planning", "model", "verifying"} /\ pc' = "starting"
             /\ stopped' = FALSE /\ failure' = failure
          \/ /\ pc \in {"starting", "planning", "model", "verifying"} /\ pc' = "failing"
             /\ failure' = "error" /\ UNCHANGED <<task, entry, stopped, reentries>>
      BY <1>3 DEF Raise, Reload
    <2>u. UNCHANGED <<row, pending, signal, assignment, paid, unsaved, rejections, crashes>>
      BY <1>3 DEF Raise
    <2>b. stopped' \in BOOLEAN /\ signal' \in BOOLEAN
      BY <2>0, <2>u, Zenon DEF TypeOK
    <2>1. TypeOK' BY <2>b, <2>0, <2>u DEF TypeOK, Moved, Labels, CallsKept, InStep
    <2>2. CopyAheadOfRow' BY <2>0, <2>u DEF CopyAheadOfRow, InStep, Moved
    <2>3. StatusInSync' BY <2>0, <2>u DEF StatusInSync, ParkedOnlyWhileAsking, Live, TerminalStatuses, Moved
    <2>4. SpendingKept' BY <2>0, <2>u DEF SpendingKept, CopyAheadOfRow, InStep, TypeOK, Moved
    <2>5. CallsKept' BY <2>0, <2>u DEF CallsKept, InStep, TypeOK
    <2>6. RejectionsCounted' BY <2>0, <2>u DEF RejectionsCounted, RejectionsBounded, CopyAheadOfRow, StatusInSync, TerminalStatuses, TypeOK, Moved
    <2>7. StatusTellsPlace' BY <2>0, <2>u DEF StatusTellsPlace, StatusInSync, CopyAheadOfRow, TerminalStatuses, TypeOK, Moved
    <2>8. ClosedAtTheEnd' BY <2>0, <2>u DEF ClosedAtTheEnd, AssignmentFollowsTask, StatusInSync, TerminalStatuses, Moved
    <2> QED BY <2>1, <2>2, <2>3, <2>4, <2>5, <2>6, <2>7, <2>8 DEF IndInv
  <1>4. CASE MarkFailed
    <2>t. /\ pc = "failing" /\ pc' = "closing" /\ row.status \notin TerminalStatuses
          /\ UNCHANGED <<entry, pending, stopped, signal, assignment, failure, history>>
      BY <1>4 DEF MarkFailed, StatusInSync
    <2>0. Moved("FAILED", row.exec, row.exec)
      BY <1>4, <2>t, <1>d, Moves DEF MarkFailed
    <2>1. TypeOK' BY <2>t, <2>0 DEF TypeOK, Moved, Labels, CallsKept, InStep
    <2>2. CopyAheadOfRow' BY <2>t, <2>0 DEF CopyAheadOfRow, InStep, Moved
    <2>3. StatusInSync' BY <2>t, <2>0 DEF StatusInSync, ParkedOnlyWhileAsking, Live, TerminalStatuses, Moved
    <2>4. SpendingKept' BY <2>t, <2>0 DEF SpendingKept, CopyAheadOfRow, InStep, TypeOK, Moved
    <2>5. CallsKept' BY <2>t, <2>0 DEF CallsKept, InStep, TypeOK
    <2>6. RejectionsCounted' BY <2>t, <2>0 DEF RejectionsCounted, RejectionsBounded, CopyAheadOfRow, StatusInSync, TerminalStatuses, TypeOK, Moved
    <2>7. StatusTellsPlace' BY <2>t, <2>0 DEF StatusTellsPlace, StatusInSync, CopyAheadOfRow, TerminalStatuses, TypeOK, Moved
    <2>8. ClosedAtTheEnd' BY <2>t, <2>0 DEF ClosedAtTheEnd, AssignmentFollowsTask, StatusInSync, TerminalStatuses, Moved
    <2> QED BY <2>1, <2>2, <2>3, <2>4, <2>5, <2>6, <2>7, <2>8 DEF IndInv
  <1>5. CASE Close
    <2>1. TypeOK' BY <1>5 DEF Close, TypeOK, Moved, Labels, CallsKept, InStep
    <2>2. CopyAheadOfRow' BY <1>5 DEF Close, CopyAheadOfRow, InStep, Moved
    <2>3. StatusInSync' BY <1>5 DEF Close, StatusInSync, ParkedOnlyWhileAsking, Live, TerminalStatuses, Moved
    <2>4. SpendingKept' BY <1>5 DEF Close, SpendingKept, CopyAheadOfRow, InStep, TypeOK, Moved
    <2>5. CallsKept' BY <1>5 DEF Close, CallsKept, InStep, TypeOK
    <2>6. RejectionsCounted' BY <1>5 DEF Close, RejectionsCounted, RejectionsBounded, CopyAheadOfRow, StatusInSync, TerminalStatuses, TypeOK, Moved
    <2>7. StatusTellsPlace' BY <1>5 DEF Close, StatusTellsPlace, StatusInSync, CopyAheadOfRow, TerminalStatuses, TypeOK, Moved
    <2>8. ClosedAtTheEnd' BY <1>5 DEF Close, ClosedAtTheEnd, AssignmentFollowsTask, StatusInSync, TerminalStatuses, Moved
    <2> QED BY <2>1, <2>2, <2>3, <2>4, <2>5, <2>6, <2>7, <2>8 DEF IndInv
  <1>6. CASE BeginPlan
    <2>0. \/ Moved("PLANNING", task.exec, row.exec) /\ pc' = "planning"
          \/ pc' = "failing" /\ failure' = "illegal" /\ UNCHANGED <<row, task>>
             /\ task.status # "PLANNING" /\ ~CanTransition(task.status, "PLANNING")
      BY <1>6, <1>d, Moves DEF BeginPlan, IllegalTransition
    <2>u. /\ pc = "plan" /\ failure' \in {failure, "illegal"}
          /\ UNCHANGED <<entry, pending, stopped, signal, assignment, history>>
          /\ pc' = "planning" => UNCHANGED failure
      BY <1>6 DEF BeginPlan, IllegalTransition
    <2>1. TypeOK' BY <2>0, <2>u DEF TypeOK, Moved, Labels, CallsKept, InStep
    <2>2. CopyAheadOfRow' BY <2>0, <2>u DEF CopyAheadOfRow, InStep, Moved
    <2>3. StatusInSync' BY <2>0, <2>u, TransitionFacts DEF StatusInSync, ParkedOnlyWhileAsking, Live, TerminalStatuses, Moved
    <2>4. SpendingKept' BY <2>0, <2>u DEF SpendingKept, CopyAheadOfRow, InStep, TypeOK, Moved
    <2>5. CallsKept' BY <2>0, <2>u DEF CallsKept, InStep, TypeOK
    <2>6. RejectionsCounted' BY <2>0, <2>u DEF RejectionsCounted, RejectionsBounded, CopyAheadOfRow, StatusInSync, TerminalStatuses, TypeOK, Moved
    <2>7. StatusTellsPlace' BY <2>0, <2>u, TransitionFacts DEF StatusTellsPlace, StatusInSync, CopyAheadOfRow, TerminalStatuses, TypeOK, Moved
    <2>8. ClosedAtTheEnd' BY <2>0, <2>u DEF ClosedAtTheEnd, AssignmentFollowsTask, StatusInSync, TerminalStatuses, Moved
    <2> QED BY <2>1, <2>2, <2>3, <2>4, <2>5, <2>6, <2>7, <2>8 DEF IndInv
  <1>7. CASE FinishPlan
    <2>0. Moved("RUNNING", FreshExecution(task.exec), FreshExecution(task.exec))
      BY <1>7, <1>d, Moves, CursorFields
    <2>1. TypeOK' BY <1>7, <2>0 DEF FinishPlan, TypeOK, Moved, Labels, CallsKept, InStep
    <2>2. CopyAheadOfRow' BY <1>7, <2>0 DEF FinishPlan, CopyAheadOfRow, InStep, Moved
    <2>3. StatusInSync' BY <1>7, <2>0 DEF FinishPlan, StatusInSync, ParkedOnlyWhileAsking, Live, TerminalStatuses, Moved
    <2>4. SpendingKept' BY <1>7, <2>0 DEF FinishPlan, SpendingKept, CopyAheadOfRow, InStep, TypeOK, Moved
    <2>5. CallsKept' BY <1>7, <2>0 DEF FinishPlan, CallsKept, InStep, TypeOK
    <2>6. RejectionsCounted' BY <1>7, <2>0 DEF FinishPlan, RejectionsCounted, RejectionsBounded, CopyAheadOfRow, StatusInSync, TerminalStatuses, TypeOK, Moved
    <2>7. StatusTellsPlace' BY <1>7, <2>0 DEF FinishPlan, StatusTellsPlace, StatusInSync, CopyAheadOfRow, TerminalStatuses, TypeOK, Moved
    <2>8. ClosedAtTheEnd' BY <1>7, <2>0 DEF FinishPlan, ClosedAtTheEnd, AssignmentFollowsTask, StatusInSync, TerminalStatuses, Moved
    <2> QED BY <2>1, <2>2, <2>3, <2>4, <2>5, <2>6, <2>7, <2>8 DEF IndInv
  <1>8. CASE Cancel
    <2>0. Moved("CANCELLED", task.exec, row.exec)
      BY <1>8, <1>d, Moves, CursorFields DEF Cancel
    <2>1. TypeOK' BY <1>8, <2>0 DEF Cancel, TypeOK, Moved, Labels, CallsKept, InStep
    <2>2. CopyAheadOfRow' BY <1>8, <2>0 DEF Cancel, CopyAheadOfRow, InStep, Moved
    <2>3. StatusInSync' BY <1>8, <2>0 DEF Cancel, StatusInSync, ParkedOnlyWhileAsking, Live, TerminalStatuses, Moved
    <2>4. SpendingKept' BY <1>8, <2>0 DEF Cancel, SpendingKept, CopyAheadOfRow, InStep, TypeOK, Moved
    <2>5. CallsKept' BY <1>8, <2>0 DEF Cancel, CallsKept, InStep, TypeOK
    <2>6. RejectionsCounted' BY <1>8, <2>0 DEF Cancel, RejectionsCounted, RejectionsBounded, CopyAheadOfRow, StatusInSync, TerminalStatuses, TypeOK, Moved
    <2>7. StatusTellsPlace' BY <1>8, <2>0 DEF Cancel, StatusTellsPlace, StatusInSync, CopyAheadOfRow, TerminalStatuses, TypeOK, Moved
    <2>8. ClosedAtTheEnd' BY <1>8, <2>0 DEF Cancel, ClosedAtTheEnd, AssignmentFollowsTask, StatusInSync, TerminalStatuses, Moved
    <2> QED BY <2>1, <2>2, <2>3, <2>4, <2>5, <2>6, <2>7, <2>8 DEF IndInv
  <1>9. CASE Stop
    <2>1. TypeOK' BY <1>9 DEF Stop, TypeOK, Moved, Labels, CallsKept, InStep
    <2>2. CopyAheadOfRow' BY <1>9 DEF Stop, CopyAheadOfRow, InStep, Moved
    <2>3. StatusInSync' BY <1>9 DEF Stop, StatusInSync, ParkedOnlyWhileAsking, Live, TerminalStatuses, Moved
    <2>4. SpendingKept' BY <1>9 DEF Stop, SpendingKept, CopyAheadOfRow, InStep, TypeOK, Moved
    <2>5. CallsKept' BY <1>9 DEF Stop, CallsKept, InStep, TypeOK
    <2>6. RejectionsCounted' BY <1>9 DEF Stop, RejectionsCounted, RejectionsBounded, CopyAheadOfRow, StatusInSync, TerminalStatuses, TypeOK, Moved
    <2>7. StatusTellsPlace' BY <1>9 DEF Stop, StatusTellsPlace, StatusInSync, CopyAheadOfRow, TerminalStatuses, TypeOK, Moved
    <2>8. ClosedAtTheEnd' BY <1>9 DEF Stop, ClosedAtTheEnd, AssignmentFollowsTask, StatusInSync, TerminalStatuses, Moved
    <2> QED BY <2>1, <2>2, <2>3, <2>4, <2>5, <2>6, <2>7, <2>8 DEF IndInv
  <1>10. CASE AskModel
    <2>1. TypeOK' BY <1>10 DEF AskModel, Exceeded, TypeOK, Moved, Labels, CallsKept, InStep
    <2>2. CopyAheadOfRow' BY <1>10 DEF AskModel, Exceeded, CopyAheadOfRow, InStep, Moved
    <2>3. StatusInSync' BY <1>10 DEF AskModel, Exceeded, StatusInSync, ParkedOnlyWhileAsking, Live, TerminalStatuses, Moved
    <2>4. SpendingKept' BY <1>10 DEF AskModel, Exceeded, SpendingKept, CopyAheadOfRow, InStep, TypeOK, Moved
    <2>5. CallsKept' BY <1>10 DEF AskModel, Exceeded, CallsKept, InStep, TypeOK
    <2>6. RejectionsCounted' BY <1>10 DEF AskModel, Exceeded, RejectionsCounted, RejectionsBounded, CopyAheadOfRow, StatusInSync, TerminalStatuses, TypeOK, Moved
    <2>7. StatusTellsPlace' BY <1>10 DEF AskModel, Exceeded, StatusTellsPlace, StatusInSync, CopyAheadOfRow, TerminalStatuses, TypeOK, Moved
    <2>8. ClosedAtTheEnd' BY <1>10 DEF AskModel, Exceeded, ClosedAtTheEnd, AssignmentFollowsTask, StatusInSync, TerminalStatuses, Moved
    <2> QED BY <2>1, <2>2, <2>3, <2>4, <2>5, <2>6, <2>7, <2>8 DEF IndInv
  <1>11. CASE Answer
    <2>0. Moved(task.status, Advanced(task.exec), Advanced(task.exec))
      BY <1>11, <1>d, Moves, CursorFields DEF Answer
    <2>b. stopped' \in BOOLEAN /\ signal' \in BOOLEAN
      BY <1>11, Zenon DEF Answer, TypeOK
    <2>1. TypeOK' BY <2>b, <1>11, <2>0 DEF Answer, TypeOK, Moved, Labels, CallsKept, InStep
    <2>2. CopyAheadOfRow' BY <1>11, <2>0 DEF Answer, CopyAheadOfRow, InStep, Moved
    <2>3. StatusInSync' BY <1>11, <2>0 DEF Answer, StatusInSync, ParkedOnlyWhileAsking, Live, TerminalStatuses, Moved
    <2>4. SpendingKept' BY <1>11, <2>0 DEF Answer, SpendingKept, CopyAheadOfRow, InStep, TypeOK, Moved
    <2>5. CallsKept' BY <1>11, <2>0 DEF Answer, CallsKept, InStep, TypeOK
    <2>6. RejectionsCounted' BY <1>11, <2>0 DEF Answer, RejectionsCounted, RejectionsBounded, CopyAheadOfRow, StatusInSync, TerminalStatuses, TypeOK, Moved
    <2>7. StatusTellsPlace' BY <1>11, <2>0 DEF Answer, StatusTellsPlace, StatusInSync, CopyAheadOfRow, TerminalStatuses, TypeOK, Moved
    <2>8. ClosedAtTheEnd' BY <1>11, <2>0 DEF Answer, ClosedAtTheEnd, AssignmentFollowsTask, StatusInSync, TerminalStatuses, Moved
    <2> QED BY <2>1, <2>2, <2>3, <2>4, <2>5, <2>6, <2>7, <2>8 DEF IndInv
  <1>12. CASE CallTools
    <2>0. /\ task' \in Tasks /\ task'.status = task.status
          /\ task'.exec = Advanced(task.exec) /\ row' = row
      BY <1>12, <1>d, Moves DEF CallTools
    <2>1. TypeOK' BY <1>12, <2>0 DEF CallTools, TypeOK, Moved, Labels, CallsKept, InStep
    <2>2. CopyAheadOfRow' BY <1>12, <2>0 DEF CallTools, CopyAheadOfRow, InStep, Moved
    <2>3. StatusInSync' BY <1>12, <2>0 DEF CallTools, StatusInSync, ParkedOnlyWhileAsking, Live, TerminalStatuses, Moved
    <2>4. SpendingKept' BY <1>12, <2>0 DEF CallTools, SpendingKept, CopyAheadOfRow, InStep, TypeOK, Moved
    <2>5. CallsKept' BY <1>12, <2>0 DEF CallTools, CallsKept, InStep, TypeOK
    <2>6. RejectionsCounted' BY <1>12, <2>0 DEF CallTools, RejectionsCounted, RejectionsBounded, CopyAheadOfRow, StatusInSync, TerminalStatuses, TypeOK, Moved
    <2>7. StatusTellsPlace' BY <1>12, <2>0 DEF CallTools, StatusTellsPlace, StatusInSync, CopyAheadOfRow, TerminalStatuses, TypeOK, Moved
    <2>8. ClosedAtTheEnd' BY <1>12, <2>0 DEF CallTools, ClosedAtTheEnd, AssignmentFollowsTask, StatusInSync, TerminalStatuses, Moved
    <2> QED BY <2>1, <2>2, <2>3, <2>4, <2>5, <2>6, <2>7, <2>8 DEF IndInv
  <1>13. CASE RefuseCall
    <2>1. TypeOK' BY <1>13 DEF RefuseCall, TypeOK, Moved, Labels, CallsKept, InStep
    <2>2. CopyAheadOfRow' BY <1>13 DEF RefuseCall, CopyAheadOfRow, InStep, Moved
    <2>3. StatusInSync' BY <1>13 DEF RefuseCall, StatusInSync, ParkedOnlyWhileAsking, Live, TerminalStatuses, Moved
    <2>4. SpendingKept' BY <1>13 DEF RefuseCall, SpendingKept, CopyAheadOfRow, InStep, TypeOK, Moved
    <2>5. CallsKept' BY <1>13 DEF RefuseCall, CallsKept, InStep, TypeOK
    <2>6. RejectionsCounted' BY <1>13 DEF RefuseCall, RejectionsCounted, RejectionsBounded, CopyAheadOfRow, StatusInSync, TerminalStatuses, TypeOK, Moved
    <2>7. StatusTellsPlace' BY <1>13 DEF RefuseCall, StatusTellsPlace, StatusInSync, CopyAheadOfRow, TerminalStatuses, TypeOK, Moved
    <2>8. ClosedAtTheEnd' BY <1>13 DEF RefuseCall, ClosedAtTheEnd, AssignmentFollowsTask, StatusInSync, TerminalStatuses, Moved
    <2> QED BY <2>1, <2>2, <2>3, <2>4, <2>5, <2>6, <2>7, <2>8 DEF IndInv
  <1>14. CASE AllowCall
    <2>1. TypeOK' BY <1>14 DEF AllowCall, TypeOK, Moved, Labels, CallsKept, InStep
    <2>2. CopyAheadOfRow' BY <1>14 DEF AllowCall, CopyAheadOfRow, InStep, Moved
    <2>3. StatusInSync' BY <1>14 DEF AllowCall, StatusInSync, ParkedOnlyWhileAsking, Live, TerminalStatuses, Moved
    <2>4. SpendingKept' BY <1>14 DEF AllowCall, SpendingKept, CopyAheadOfRow, InStep, TypeOK, Moved
    <2>5. CallsKept' BY <1>14 DEF AllowCall, CallsKept, InStep, TypeOK
    <2>6. RejectionsCounted' BY <1>14 DEF AllowCall, RejectionsCounted, RejectionsBounded, CopyAheadOfRow, StatusInSync, TerminalStatuses, TypeOK, Moved
    <2>7. StatusTellsPlace' BY <1>14 DEF AllowCall, StatusTellsPlace, StatusInSync, CopyAheadOfRow, TerminalStatuses, TypeOK, Moved
    <2>8. ClosedAtTheEnd' BY <1>14 DEF AllowCall, ClosedAtTheEnd, AssignmentFollowsTask, StatusInSync, TerminalStatuses, Moved
    <2> QED BY <2>1, <2>2, <2>3, <2>4, <2>5, <2>6, <2>7, <2>8 DEF IndInv
  <1>15. CASE AskPerson
    <2>p. Park("WAITING_FOR_APPROVAL")
      BY <1>15 DEF AskPerson
    <2>0. \/ Moved("WAITING_FOR_APPROVAL", task.exec, row.exec)
          \/ /\ ~CanTransition(task.status, "WAITING_FOR_APPROVAL")
             /\ UNCHANGED <<row, task>>
      BY <2>p, <1>d, Moves DEF Park
    <2>1. TypeOK' BY <1>15, <2>0 DEF AskPerson, TypeOK, Moved, Labels, CallsKept, InStep
    <2>2. CopyAheadOfRow' BY <1>15, <2>0 DEF AskPerson, CopyAheadOfRow, InStep, Moved
    <2>3. StatusInSync' BY <1>15, <2>0, TransitionFacts DEF AskPerson, StatusInSync, ParkedOnlyWhileAsking, Live, TerminalStatuses, Moved
    <2>4. SpendingKept' BY <1>15, <2>0 DEF AskPerson, SpendingKept, CopyAheadOfRow, InStep, TypeOK, Moved
    <2>5. CallsKept' BY <1>15, <2>0 DEF AskPerson, CallsKept, InStep, TypeOK
    <2>6. RejectionsCounted' BY <1>15, <2>0 DEF AskPerson, RejectionsCounted, RejectionsBounded, CopyAheadOfRow, StatusInSync, TerminalStatuses, TypeOK, Moved
    <2>7. StatusTellsPlace' BY <1>15, <2>0, TransitionFacts DEF AskPerson, StatusTellsPlace, StatusInSync, CopyAheadOfRow, TerminalStatuses, TypeOK, Moved
    <2>8. ClosedAtTheEnd' BY <1>15, <2>0 DEF AskPerson, ClosedAtTheEnd, AssignmentFollowsTask, StatusInSync, TerminalStatuses, Moved
    <2> QED BY <2>1, <2>2, <2>3, <2>4, <2>5, <2>6, <2>7, <2>8 DEF IndInv
  <1>16. CASE PersonAnswers
    <2>p. Park("RUNNING")
      BY <1>16 DEF PersonAnswers
    <2>0. \/ Moved("RUNNING", task.exec, row.exec)
          \/ ~CanTransition(task.status, "RUNNING") /\ UNCHANGED <<row, task>>
      BY <2>p, <1>d, Moves DEF Park
    <2>1. TypeOK' BY <1>16, <2>0 DEF PersonAnswers, TypeOK, Moved, Labels, CallsKept, InStep
    <2>2. CopyAheadOfRow' BY <1>16, <2>0 DEF PersonAnswers, CopyAheadOfRow, InStep, Moved
    <2>3. StatusInSync' BY <1>16, <2>0, TransitionFacts DEF PersonAnswers, StatusInSync, ParkedOnlyWhileAsking, Live, TerminalStatuses, Moved
    <2>4. SpendingKept' BY <1>16, <2>0 DEF PersonAnswers, SpendingKept, CopyAheadOfRow, InStep, TypeOK, Moved
    <2>5. CallsKept' BY <1>16, <2>0 DEF PersonAnswers, CallsKept, InStep, TypeOK
    <2>6. RejectionsCounted' BY <1>16, <2>0 DEF PersonAnswers, RejectionsCounted, RejectionsBounded, CopyAheadOfRow, StatusInSync, TerminalStatuses, TypeOK, Moved
    <2>7. StatusTellsPlace' BY <1>16, <2>0, TransitionFacts DEF PersonAnswers, StatusTellsPlace, StatusInSync, CopyAheadOfRow, TerminalStatuses, TypeOK, Moved
    <2>8. ClosedAtTheEnd' BY <1>16, <2>0 DEF PersonAnswers, ClosedAtTheEnd, AssignmentFollowsTask, StatusInSync, TerminalStatuses, Moved
    <2> QED BY <2>1, <2>2, <2>3, <2>4, <2>5, <2>6, <2>7, <2>8 DEF IndInv
  <1>17. CASE RunTool
    <2>1. TypeOK' BY <1>17 DEF RunTool, TypeOK, Moved, Labels, CallsKept, InStep
    <2>2. CopyAheadOfRow' BY <1>17 DEF RunTool, CopyAheadOfRow, InStep, Moved
    <2>3. StatusInSync' BY <1>17 DEF RunTool, StatusInSync, ParkedOnlyWhileAsking, Live, TerminalStatuses, Moved
    <2>4. SpendingKept' BY <1>17 DEF RunTool, SpendingKept, CopyAheadOfRow, InStep, TypeOK, Moved
    <2>5. CallsKept' BY <1>17 DEF RunTool, CallsKept, InStep, TypeOK
    <2>6. RejectionsCounted' BY <1>17 DEF RunTool, RejectionsCounted, RejectionsBounded, CopyAheadOfRow, StatusInSync, TerminalStatuses, TypeOK, Moved
    <2>7. StatusTellsPlace' BY <1>17 DEF RunTool, StatusTellsPlace, StatusInSync, CopyAheadOfRow, TerminalStatuses, TypeOK, Moved
    <2>8. ClosedAtTheEnd' BY <1>17 DEF RunTool, ClosedAtTheEnd, AssignmentFollowsTask, StatusInSync, TerminalStatuses, Moved
    <2> QED BY <2>1, <2>2, <2>3, <2>4, <2>5, <2>6, <2>7, <2>8 DEF IndInv
  <1>18. CASE FinishStep
    <2>0. Moved(task.status, task.exec, task.exec)
      BY <1>18, <1>d, Moves, CursorFields DEF FinishStep
    <2>1. TypeOK' BY <1>18, <2>0 DEF FinishStep, TypeOK, Moved, Labels, CallsKept, InStep
    <2>2. CopyAheadOfRow' BY <1>18, <2>0 DEF FinishStep, CopyAheadOfRow, InStep, Moved
    <2>3. StatusInSync' BY <1>18, <2>0 DEF FinishStep, StatusInSync, ParkedOnlyWhileAsking, Live, TerminalStatuses, Moved
    <2>4. SpendingKept' BY <1>18, <2>0 DEF FinishStep, SpendingKept, CopyAheadOfRow, InStep, TypeOK, Moved
    <2>5. CallsKept' BY <1>18, <2>0 DEF FinishStep, CallsKept, InStep, TypeOK
    <2>6. RejectionsCounted' BY <1>18, <2>0 DEF FinishStep, RejectionsCounted, RejectionsBounded, CopyAheadOfRow, StatusInSync, TerminalStatuses, TypeOK, Moved
    <2>7. StatusTellsPlace' BY <1>18, <2>0 DEF FinishStep, StatusTellsPlace, StatusInSync, CopyAheadOfRow, TerminalStatuses, TypeOK, Moved
    <2>8. ClosedAtTheEnd' BY <1>18, <2>0 DEF FinishStep, ClosedAtTheEnd, AssignmentFollowsTask, StatusInSync, TerminalStatuses, Moved
    <2> QED BY <2>1, <2>2, <2>3, <2>4, <2>5, <2>6, <2>7, <2>8 DEF IndInv
  <1>19. CASE BeginVerify
    <2>0. \/ Moved("VERIFYING", task.exec, row.exec) /\ pc' = "verifying"
          \/ pc' = "failing" /\ failure' = "illegal" /\ UNCHANGED <<row, task>>
             /\ ~CanTransition(task.status, "VERIFYING")
      BY <1>19, <1>d, Moves DEF BeginVerify, IllegalTransition
    <2>u. /\ pc = "verify" /\ failure' \in {failure, "illegal"}
          /\ UNCHANGED <<entry, pending, stopped, signal, assignment, history>>
          /\ pc' = "verifying" => UNCHANGED failure
      BY <1>19 DEF BeginVerify, IllegalTransition
    <2>1. TypeOK' BY <2>0, <2>u DEF TypeOK, Moved, Labels, CallsKept, InStep
    <2>2. CopyAheadOfRow' BY <2>0, <2>u DEF CopyAheadOfRow, InStep, Moved
    <2>3. StatusInSync' BY <2>0, <2>u, TransitionFacts DEF StatusInSync, ParkedOnlyWhileAsking, Live, TerminalStatuses, Moved
    <2>4. SpendingKept' BY <2>0, <2>u DEF SpendingKept, CopyAheadOfRow, InStep, TypeOK, Moved
    <2>5. CallsKept' BY <2>0, <2>u DEF CallsKept, InStep, TypeOK
    <2>6. RejectionsCounted' BY <2>0, <2>u DEF RejectionsCounted, RejectionsBounded, CopyAheadOfRow, StatusInSync, TerminalStatuses, TypeOK, Moved
    <2>7. StatusTellsPlace' BY <2>0, <2>u, TransitionFacts DEF StatusTellsPlace, StatusInSync, CopyAheadOfRow, TerminalStatuses, TypeOK, Moved
    <2>8. ClosedAtTheEnd' BY <2>0, <2>u DEF ClosedAtTheEnd, AssignmentFollowsTask, StatusInSync, TerminalStatuses, Moved
    <2> QED BY <2>1, <2>2, <2>3, <2>4, <2>5, <2>6, <2>7, <2>8 DEF IndInv
  <1>20. CASE Accept
    <2>0. Moved("COMPLETED", task.exec, row.exec)
      BY <1>20, <1>d, Moves, CursorFields DEF Accept
    <2>1. TypeOK' BY <1>20, <2>0 DEF Accept, TypeOK, Moved, Labels, CallsKept, InStep
    <2>2. CopyAheadOfRow' BY <1>20, <2>0 DEF Accept, CopyAheadOfRow, InStep, Moved
    <2>3. StatusInSync' BY <1>20, <2>0 DEF Accept, StatusInSync, ParkedOnlyWhileAsking, Live, TerminalStatuses, Moved
    <2>4. SpendingKept' BY <1>20, <2>0 DEF Accept, SpendingKept, CopyAheadOfRow, InStep, TypeOK, Moved
    <2>5. CallsKept' BY <1>20, <2>0 DEF Accept, CallsKept, InStep, TypeOK
    <2>6. RejectionsCounted' BY <1>20, <2>0 DEF Accept, RejectionsCounted, RejectionsBounded, CopyAheadOfRow, StatusInSync, TerminalStatuses, TypeOK, Moved
    <2>7. StatusTellsPlace' BY <1>20, <2>0 DEF Accept, StatusTellsPlace, StatusInSync, CopyAheadOfRow, TerminalStatuses, TypeOK, Moved
    <2>8. ClosedAtTheEnd' BY <1>20, <2>0 DEF Accept, ClosedAtTheEnd, AssignmentFollowsTask, StatusInSync, TerminalStatuses, Moved
    <2> QED BY <2>1, <2>2, <2>3, <2>4, <2>5, <2>6, <2>7, <2>8 DEF IndInv
  <1>21. CASE SendBack
    <2>0. Moved("PLANNING", SecondAttempt(task.exec), row.exec)
      BY <1>21, <1>d, Moves, CursorFields
    <2>1. TypeOK' BY <1>21, <2>0 DEF SendBack, TypeOK, Moved, Labels, CallsKept, InStep
    <2>2. CopyAheadOfRow' BY <1>21, <2>0 DEF SendBack, CopyAheadOfRow, InStep, Moved
    <2>3. StatusInSync' BY <1>21, <2>0 DEF SendBack, StatusInSync, ParkedOnlyWhileAsking, Live, TerminalStatuses, Moved
    <2>4. SpendingKept' BY <1>21, <2>0 DEF SendBack, SpendingKept, CopyAheadOfRow, InStep, TypeOK, Moved
    <2>5. CallsKept' BY <1>21, <2>0 DEF SendBack, CallsKept, InStep, TypeOK
    <2>6. RejectionsCounted' BY <1>21, <2>0 DEF SendBack, RejectionsCounted, RejectionsBounded, CopyAheadOfRow, StatusInSync, TerminalStatuses, TypeOK, Moved
    <2>7. StatusTellsPlace' BY <1>21, <2>0 DEF SendBack, StatusTellsPlace, StatusInSync, CopyAheadOfRow, TerminalStatuses, TypeOK, Moved
    <2>8. ClosedAtTheEnd' BY <1>21, <2>0 DEF SendBack, ClosedAtTheEnd, AssignmentFollowsTask, StatusInSync, TerminalStatuses, Moved
    <2> QED BY <2>1, <2>2, <2>3, <2>4, <2>5, <2>6, <2>7, <2>8 DEF IndInv
  <1>22. CASE Reject
    <2>0. Moved("FAILED", task.exec, row.exec)
      BY <1>22, <1>d, Moves, CursorFields DEF Reject
    <2>1. TypeOK' BY <1>22, <2>0 DEF Reject, TypeOK, Moved, Labels, CallsKept, InStep
    <2>2. CopyAheadOfRow' BY <1>22, <2>0 DEF Reject, CopyAheadOfRow, InStep, Moved
    <2>3. StatusInSync' BY <1>22, <2>0 DEF Reject, StatusInSync, ParkedOnlyWhileAsking, Live, TerminalStatuses, Moved
    <2>4. SpendingKept' BY <1>22, <2>0 DEF Reject, SpendingKept, CopyAheadOfRow, InStep, TypeOK, Moved
    <2>5. CallsKept' BY <1>22, <2>0 DEF Reject, CallsKept, InStep, TypeOK
    <2>6. RejectionsCounted' BY <1>22, <2>0 DEF Reject, RejectionsCounted, RejectionsBounded, CopyAheadOfRow, StatusInSync, TerminalStatuses, TypeOK, Moved
    <2>7. StatusTellsPlace' BY <1>22, <2>0 DEF Reject, StatusTellsPlace, StatusInSync, CopyAheadOfRow, TerminalStatuses, TypeOK, Moved
    <2>8. ClosedAtTheEnd' BY <1>22, <2>0 DEF Reject, ClosedAtTheEnd, AssignmentFollowsTask, StatusInSync, TerminalStatuses, Moved
    <2> QED BY <2>1, <2>2, <2>3, <2>4, <2>5, <2>6, <2>7, <2>8 DEF IndInv
  <1>23. CASE RequestCancel
    <2>1. TypeOK' BY <1>23 DEF RequestCancel, TypeOK, Moved, Labels, CallsKept, InStep
    <2>2. CopyAheadOfRow' BY <1>23 DEF RequestCancel, CopyAheadOfRow, InStep, Moved
    <2>3. StatusInSync' BY <1>23 DEF RequestCancel, StatusInSync, ParkedOnlyWhileAsking, Live, TerminalStatuses, Moved
    <2>4. SpendingKept' BY <1>23 DEF RequestCancel, SpendingKept, CopyAheadOfRow, InStep, TypeOK, Moved
    <2>5. CallsKept' BY <1>23 DEF RequestCancel, CallsKept, InStep, TypeOK
    <2>6. RejectionsCounted' BY <1>23 DEF RequestCancel, RejectionsCounted, RejectionsBounded, CopyAheadOfRow, StatusInSync, TerminalStatuses, TypeOK, Moved
    <2>7. StatusTellsPlace' BY <1>23 DEF RequestCancel, StatusTellsPlace, StatusInSync, CopyAheadOfRow, TerminalStatuses, TypeOK, Moved
    <2>8. ClosedAtTheEnd' BY <1>23 DEF RequestCancel, ClosedAtTheEnd, AssignmentFollowsTask, StatusInSync, TerminalStatuses, Moved
    <2> QED BY <2>1, <2>2, <2>3, <2>4, <2>5, <2>6, <2>7, <2>8 DEF IndInv
  <1>24. CASE Crash
    <2>0. Moved(row.status, row.exec, row.exec)
      BY <1>24, Moves DEF Crash, Forget
    <2>u. /\ pc \notin {"ended", "down"} /\ pc' = "down" /\ crashes' = crashes + 1
          /\ entry' = 1 /\ pending' = 0 /\ stopped' = FALSE /\ signal' = FALSE
          /\ unsaved' = 0 /\ failure' \in {failure, "none"}
          /\ UNCHANGED <<assignment, paid, rejections, reentries>>
      BY <1>24 DEF Crash, Forget, Live
    <2>b. stopped' \in BOOLEAN /\ signal' \in BOOLEAN
      BY <2>u, Zenon DEF TypeOK
    <2>1. TypeOK' BY <2>b, <2>0, <2>u DEF TypeOK, Moved, Labels, CallsKept, InStep
    <2>2. CopyAheadOfRow' BY <2>0, <2>u DEF CopyAheadOfRow, InStep, Moved
    <2>3. StatusInSync' BY <2>0, <2>u DEF StatusInSync, ParkedOnlyWhileAsking, Live, TerminalStatuses, Moved
    <2>4. SpendingKept' BY <2>0, <2>u DEF SpendingKept, CopyAheadOfRow, InStep, TypeOK, Moved
    <2>5. CallsKept' BY <2>0, <2>u DEF CallsKept, InStep, TypeOK
    <2>6. RejectionsCounted' BY <2>0, <2>u DEF RejectionsCounted, RejectionsBounded, CopyAheadOfRow, StatusInSync, TerminalStatuses, TypeOK, Moved
    <2>7. StatusTellsPlace' BY <2>0, <2>u DEF StatusTellsPlace, StatusInSync, CopyAheadOfRow, TerminalStatuses, TypeOK, Moved
    <2>8. ClosedAtTheEnd' BY <2>0, <2>u DEF ClosedAtTheEnd, AssignmentFollowsTask, StatusInSync, TerminalStatuses, Moved
    <2> QED BY <2>1, <2>2, <2>3, <2>4, <2>5, <2>6, <2>7, <2>8 DEF IndInv
  <1>25. CASE ShutDown
    <2>0. Moved("RUNNING", row.exec, row.exec)
      BY <1>25, <1>d, Moves DEF ShutDown, Forget
    <2>u. /\ pc = "asking" /\ pc' = "down" /\ crashes' = crashes + 1
          /\ entry' = 1 /\ pending' = 0 /\ stopped' = FALSE /\ signal' = FALSE
          /\ unsaved' = 0 /\ failure' = failure
          /\ UNCHANGED <<assignment, paid, rejections, reentries>>
      BY <1>25 DEF ShutDown, Forget
    <2>b. stopped' \in BOOLEAN /\ signal' \in BOOLEAN
      BY <2>u, Zenon DEF TypeOK
    <2>1. TypeOK' BY <2>b, <2>0, <2>u DEF TypeOK, Moved, Labels, CallsKept, InStep
    <2>2. CopyAheadOfRow' BY <2>0, <2>u DEF CopyAheadOfRow, InStep, Moved
    <2>3. StatusInSync' BY <2>0, <2>u DEF StatusInSync, ParkedOnlyWhileAsking, Live, TerminalStatuses, Moved
    <2>4. SpendingKept' BY <2>0, <2>u DEF SpendingKept, CopyAheadOfRow, InStep, TypeOK, Moved
    <2>5. CallsKept' BY <2>0, <2>u DEF CallsKept, InStep, TypeOK
    <2>6. RejectionsCounted' BY <2>0, <2>u DEF RejectionsCounted, RejectionsBounded, CopyAheadOfRow, StatusInSync, TerminalStatuses, TypeOK, Moved
    <2>7. StatusTellsPlace' BY <2>0, <2>u DEF StatusTellsPlace, StatusInSync, CopyAheadOfRow, TerminalStatuses, TypeOK, Moved
    <2>8. ClosedAtTheEnd' BY <2>0, <2>u DEF ClosedAtTheEnd, AssignmentFollowsTask, StatusInSync, TerminalStatuses, Moved
    <2> QED BY <2>1, <2>2, <2>3, <2>4, <2>5, <2>6, <2>7, <2>8 DEF IndInv
  <1>26. CASE Resume
    <2>1. TypeOK' BY <1>26 DEF Resume, ResumableStatuses, TypeOK, Moved, Labels, CallsKept, InStep
    <2>2. CopyAheadOfRow' BY <1>26 DEF Resume, ResumableStatuses, CopyAheadOfRow, InStep, Moved
    <2>3. StatusInSync' BY <1>26 DEF Resume, ResumableStatuses, StatusInSync, ParkedOnlyWhileAsking, Live, TerminalStatuses, Moved
    <2>4. SpendingKept' BY <1>26 DEF Resume, ResumableStatuses, SpendingKept, CopyAheadOfRow, InStep, TypeOK, Moved
    <2>5. CallsKept' BY <1>26 DEF Resume, ResumableStatuses, CallsKept, InStep, TypeOK
    <2>6. RejectionsCounted' BY <1>26 DEF Resume, ResumableStatuses, RejectionsCounted, RejectionsBounded, CopyAheadOfRow, StatusInSync, TerminalStatuses, TypeOK, Moved
    <2>7. StatusTellsPlace' BY <1>26 DEF Resume, ResumableStatuses, StatusTellsPlace, StatusInSync, CopyAheadOfRow, TerminalStatuses, TypeOK, Moved
    <2>8. ClosedAtTheEnd' BY <1>26 DEF Resume, ResumableStatuses, ClosedAtTheEnd, AssignmentFollowsTask, StatusInSync, TerminalStatuses, Moved
    <2> QED BY <2>1, <2>2, <2>3, <2>4, <2>5, <2>6, <2>7, <2>8 DEF IndInv
  <1>27. CASE CancelIdle
    <2>0. Moved("CANCELLED", task.exec, row.exec)
      BY <1>27, <1>d, Moves, CursorFields DEF CancelIdle
    <2>1. TypeOK' BY <1>27, <2>0 DEF CancelIdle, TypeOK, Moved, Labels, CallsKept, InStep
    <2>2. CopyAheadOfRow' BY <1>27, <2>0 DEF CancelIdle, CopyAheadOfRow, InStep, Moved
    <2>3. StatusInSync' BY <1>27, <2>0 DEF CancelIdle, StatusInSync, ParkedOnlyWhileAsking, Live, TerminalStatuses, Moved
    <2>4. SpendingKept' BY <1>27, <2>0 DEF CancelIdle, SpendingKept, CopyAheadOfRow, InStep, TypeOK, Moved
    <2>5. CallsKept' BY <1>27, <2>0 DEF CancelIdle, CallsKept, InStep, TypeOK
    <2>6. RejectionsCounted' BY <1>27, <2>0 DEF CancelIdle, RejectionsCounted, RejectionsBounded, CopyAheadOfRow, StatusInSync, TerminalStatuses, TypeOK, Moved
    <2>7. StatusTellsPlace' BY <1>27, <2>0 DEF CancelIdle, StatusTellsPlace, StatusInSync, CopyAheadOfRow, TerminalStatuses, TypeOK, Moved
    <2>8. ClosedAtTheEnd' BY <1>27, <2>0 DEF CancelIdle, ClosedAtTheEnd, AssignmentFollowsTask, StatusInSync, TerminalStatuses, Moved
    <2> QED BY <2>1, <2>2, <2>3, <2>4, <2>5, <2>6, <2>7, <2>8 DEF IndInv
  <1>28. CASE UNCHANGED vars
    BY <1>28 DEF vars, IndInv, TypeOK, CopyAheadOfRow, StatusInSync, ParkedOnlyWhileAsking, Live,
       SpendingKept, CallsKept, RejectionsCounted, RejectionsBounded, StatusTellsPlace,
       ClosedAtTheEnd, AssignmentFollowsTask
  <1>29. QED
    BY <1>1, <1>2, <1>3, <1>4, <1>5, <1>6, <1>7, <1>8, <1>9, <1>10, <1>11, <1>12, <1>13, <1>14, <1>15, <1>16, <1>17, <1>18, <1>19, <1>20, <1>21, <1>22, <1>23, <1>24, <1>25, <1>26, <1>27, <1>28 DEF Next, Run
-----------------------------------------------------------------------------
\* IndInv holds in every reachable state, for every value of the limits and
\* any number of kills.
THEOREM RunInvariant == Spec => []IndInv
  <1>1. IndInv /\ [Next]_vars => IndInv'
    BY NextIndInv
  <1>2. QED
    BY InitIndInv, <1>1, PTL DEF Spec

\* What IndInv says in the terms of the properties.
LEMMA IndInvImplies ==
  IndInv => /\ TypeOK /\ SavedBeforeModelCall /\ LossBounded /\ SpendingCeiling
            /\ RejectionsBounded /\ IllegalOnlyAfterInterruption
            /\ ParkedOnlyWhileAsking /\ AssignmentFollowsTask
  <1> SUFFICES ASSUME IndInv
               PROVE  /\ TypeOK /\ SavedBeforeModelCall /\ LossBounded /\ SpendingCeiling
                      /\ RejectionsBounded /\ IllegalOnlyAfterInterruption
                      /\ ParkedOnlyWhileAsking /\ AssignmentFollowsTask
    OBVIOUS
  <1>1. task.exec.cost \in Nat
    BY TaskFields, CursorFields DEF IndInv, TypeOK
  <1>2. SavedBeforeModelCall /\ LossBounded
    BY DEF IndInv, CopyAheadOfRow, CallsKept, SavedBeforeModelCall, LossBounded
  <1>3. SpendingCeiling
    BY <1>1, ConstantsAssumption DEF IndInv, TypeOK, SpendingKept, SpendingCeiling
  <1>4. IllegalOnlyAfterInterruption
    BY DEF IndInv, TypeOK, StatusTellsPlace, IllegalOnlyAfterInterruption
  <1>5. TypeOK /\ RejectionsBounded /\ ParkedOnlyWhileAsking /\ AssignmentFollowsTask
    BY DEF IndInv, RejectionsCounted, StatusInSync, ClosedAtTheEnd, AssignmentFollowsTask
  <1>6. QED
    BY <1>2, <1>3, <1>4, <1>5

\* The variables keep their types.
THEOREM TypeCorrect == Spec => []TypeOK
  BY RunInvariant, IndInvImplies, PTL

\* No model call is made before what led to it is in the row (runtime.persist).
THEOREM SavedBeforeCalling == Spec => []SavedBeforeModelCall
  BY RunInvariant, IndInvImplies, PTL

\* A kill at any point loses one response and its tool calls at most.
THEOREM KillLosesOneResponse == Spec => []LossBounded
  BY RunInvariant, IndInvImplies, PTL

\* The cost limit holds over all attempts and processes, up to one call a kill.
THEOREM BudgetSurvivesRestarts == Spec => []SpendingCeiling
  BY RunInvariant, IndInvImplies, PTL

\* Work is sent back once, up to one verdict an interruption.
THEOREM SentBackOnce == Spec => []RejectionsBounded
  BY RunInvariant, IndInvImplies, PTL

\* An uninterrupted run is never refused a transition.
THEOREM UninterruptedIsLegal == Spec => []IllegalOnlyAfterInterruption
  BY RunInvariant, IndInvImplies, PTL

\* ApprovalGate._ask always gives the status back.
THEOREM QuestionGivesStatusBack == Spec => []ParkedOnlyWhileAsking
  BY RunInvariant, IndInvImplies, PTL

\* The assignment ends after its task and as its task did.
THEOREM AssignmentClosedWithTask == Spec => []AssignmentFollowsTask
  BY RunInvariant, IndInvImplies, PTL

-----------------------------------------------------------------------------
\* A step of the run is, for the status column, a declared move or a stutter.
LEMMA StepIsMove == IndInv /\ [Next]_vars => [Lifecycle!Move]_(row.status)
  <1> SUFFICES ASSUME IndInv, [Next]_vars
               PROVE  \/ row'.status = row.status
                      \/ row'.status \in Statuses /\ CanTransition(row.status, row'.status)
    BY DEF Lifecycle!Move, Lifecycle!Statuses, Lifecycle!CanTransition, Statuses, CanTransition
  <1>a. /\ TypeOK /\ StatusInSync
        /\ row.status \in Statuses /\ row.exec \in Executions
        /\ task.status = row.status /\ task.exec \in Executions
    BY TaskFields DEF IndInv, TypeOK, StatusInSync
  <1>b. /\ "PLANNING" \in Statuses /\ "RUNNING" \in Statuses /\ "FAILED" \in Statuses
        /\ "CANCELLED" \in Statuses /\ "COMPLETED" \in Statuses /\ "VERIFYING" \in Statuses
        /\ "WAITING_FOR_APPROVAL" \in Statuses
    BY DEF Statuses
  <1>c. /\ CanTransition("PLANNING", "RUNNING")
        /\ CanTransition("VERIFYING", "PLANNING")
        /\ CanTransition("VERIFYING", "COMPLETED")
        /\ row.status \notin TerminalStatuses =>
             CanTransition(row.status, "FAILED") /\ CanTransition(row.status, "CANCELLED")
    BY <1>a, TransitionFacts
  <1>1. ASSUME NEW s \in Statuses, SaveStatus(s) PROVE row'.status = s
    BY <1>a, <1>1, Moves DEF Moved
  <1>2. ASSUME NEW s \in Statuses, Park(s)
        PROVE  \/ row'.status = row.status
               \/ CanTransition(row.status, s) /\ row'.status = s
    <2>1. CASE CanTransition(task.status, s)
      <3>1. SaveStatus(s)
        BY <1>2, <2>1 DEF Park
      <3>2. row'.status = s
        BY <3>1, <1>1
      <3>3. CanTransition(row.status, s)
        BY <1>a, <2>1
      <3>4. QED
        BY <3>2, <3>3
    <2>2. CASE ~CanTransition(task.status, s)
      <3>1. row' = row
        BY <1>2, <2>2, Zenon DEF Park
      <3>2. row'.status = row.status
        BY <3>1
      <3>3. QED
        BY <3>2
    <2>3. QED
      BY <2>1, <2>2
  <1>3. ASSUME NEW e \in Executions, SaveStep(e) PROVE row'.status = row.status
    BY <1>a, <1>3, Moves DEF Moved
  <1>4. CASE BeginPlan
    BY <1>4, <1>a, <1>b, <1>1 DEF BeginPlan, IllegalTransition
  <1>5. CASE FinishPlan
    BY <1>5, <1>a, <1>b, <1>c, Moves DEF FinishPlan, Moved, StatusInSync, At
  <1>6. CASE Cancel
    BY <1>6, <1>a, <1>b, <1>c, <1>1 DEF Cancel, StatusInSync, At
  <1>7. CASE Answer
    BY <1>7, <1>a, <1>3, CursorFields DEF Answer
  <1>8. CASE AskPerson \/ PersonAnswers
    BY <1>8, <1>b, <1>2 DEF AskPerson, PersonAnswers
  <1>9. CASE FinishStep
    BY <1>9, <1>a, <1>3 DEF FinishStep
  <1>10. CASE BeginVerify
    BY <1>10, <1>a, <1>b, <1>1 DEF BeginVerify, IllegalTransition
  <1>11. CASE Accept \/ Reject
    BY <1>11, <1>a, <1>b, <1>c, <1>1 DEF Accept, Reject, StatusInSync, At, TerminalStatuses
  <1>12. CASE SendBack
    BY <1>12, <1>a, <1>b, <1>c, Moves DEF SendBack, Moved, StatusInSync, At
  <1>13. CASE MarkFailed
    <2>1. row.status \notin TerminalStatuses
      BY <1>13, <1>a DEF MarkFailed, StatusInSync, At
    <2>2. Save("FAILED", row.exec, row.exec)
      BY <1>13, <2>1 DEF MarkFailed
    <2>3. QED
      BY <1>a, <1>b, <1>c, <2>1, <2>2, SaveFields
  <1>14. CASE Crash
    <2>1. Save(row.status, row.exec, row.exec)
      BY <1>14 DEF Crash, Forget
    <2>2. QED
      BY <1>a, <2>1, SaveFields
  <1>15. CASE ShutDown
    <2>1. Save("RUNNING", row.exec, row.exec) /\ CanTransition(row.status, "RUNNING")
      BY <1>15 DEF ShutDown, Forget
    <2>2. QED
      BY <1>a, <1>b, <2>1, SaveFields
  <1>16. CASE CancelIdle
    BY <1>16, <1>a, <1>b, <1>c, <1>1 DEF CancelIdle
  <1>17. CASE SaveAssignment \/ Enter \/ Raise \/ Close
    BY <1>17 DEF SaveAssignment, Enter, Raise, Close
  <1>18. CASE Stop \/ AskModel \/ CallTools \/ RefuseCall \/ AllowCall \/ RunTool
    BY <1>18 DEF Stop, AskModel, CallTools, RefuseCall, AllowCall, RunTool
  <1>19. CASE RequestCancel \/ Resume \/ UNCHANGED vars
    BY <1>19 DEF RequestCancel, Resume, vars
  <1>20. QED
    BY <1>4, <1>5, <1>6, <1>7, <1>8, <1>9, <1>10, <1>11, <1>12, <1>13, <1>14,
       <1>15, <1>16, <1>17, <1>18, <1>19 DEF Next, Run

\* The whole run implements the promise of TaskLifecycle: whatever the runtime,
\* the runner, the gate, a kill and a resume do, the status column of the row
\* moves along the declared transitions only, and never leaves a terminal one.
THEOREM Refinement == Spec => StatusMovesAreDeclared
  <1>1. Init => Lifecycle!Init
    BY DEF Init, Lifecycle!Init
  <1>2. QED
    BY <1>1, StepIsMove, RunInvariant, PTL DEF Spec, StatusMovesAreDeclared, Lifecycle!Spec
=============================================================================
