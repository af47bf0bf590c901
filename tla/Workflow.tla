------------------------------- MODULE Workflow -------------------------------
(***************************************************************************)
(* One run of a declared workflow: WorkflowEngine.run over the row of the  *)
(* run and the rows of the tasks it starts.  The declaration is one of     *)
(* Declarations; a step of it is an index into the declaration.  A task is *)
(* carried by TaskRunner.submit_and_run, which may raise before its row is *)
(* written, after the task ended, or anywhere between.                     *)
(***************************************************************************)
EXTENDS Naturals, Sequences, FiniteSets

CONSTANT Declarations  \* what the files under workflows/ may hold

StepShape(d) == \A i \in DOMAIN d :
  /\ d[i].tries \in Nat
  /\ d[i].onFailure \in {"STOP", "CONTINUE"}
  /\ DOMAIN d[i] = {"name", "needs", "tries", "onFailure"}

ASSUME DeclarationsAssumption == \A d \in Declarations :
  /\ DOMAIN d = 1..Len(d) /\ Len(d) \in Nat
  /\ StepShape(d)

VARIABLES
  declared, \* the declaration this run is of
  pc,       \* the await the engine is at
  ordered,  \* order_steps: the indices placed so far
  ready,    \* order_steps: the rest of the layer being placed
  run,      \* the engine's WorkflowRun
  row,      \* the workflow_runs row, status "NONE" before the first save
  attempt,  \* the attempt of the current step
  outcome,  \* its StepOutcome so far
  tasks,    \* rows of the tasks table this run wrote
  lost      \* history: tasks submit_and_run raised about after writing them

engine == <<pc, ordered, ready, run, attempt, outcome>>
vars == <<declared, pc, ordered, ready, run, row, attempt, outcome, tasks, lost>>

Steps == DOMAIN declared
Placed == {ordered[k] : k \in DOMAIN ordered}
NamesOf(S) == {declared[i].name : i \in S}
Current == ordered[Len(run.steps) + 1]
Untried == [task |-> 0, attempts |-> 0, succeeded |-> FALSE]
Ended == {"refused", "returned", "raised", "dead"}

TypeOK ==
  /\ StepShape(declared)
  /\ pc \in {"loading", "ordering", "opening", "starting", "working", "recording",
             "stopping", "finishing"} \cup Ended
  /\ ordered \in Seq(Steps)
  /\ ready \in SUBSET Steps
  /\ run.status \in {"RUNNING", "COMPLETED", "FAILED"} /\ Len(run.steps) \in 0..Len(ordered)
  /\ row.status \in {"NONE", "RUNNING", "COMPLETED", "FAILED"}
  /\ attempt \in Nat
  /\ outcome \in [task : Nat, attempts : Nat, succeeded : BOOLEAN]
  /\ \A t \in tasks : t.step \in Steps /\ t.attempt \in Nat
  /\ lost \in SUBSET [step : Steps, attempt : Nat]

Init ==
  /\ declared \in Declarations
  /\ pc = "loading"
  /\ ordered = << >> /\ ready = {}
  /\ run = [status |-> "RUNNING", steps |-> << >>]
  /\ row = [status |-> "NONE", steps |-> << >>]
  /\ attempt = 1 /\ outcome = Untried
  /\ tasks = {} /\ lost = {}

-----------------------------------------------------------------------------
(* Reading and ordering *)

\* YamlWorkflowRegistry: a declaration has steps, each tried at least once.
Loadable(d) == d # << >> /\ \A i \in DOMAIN d : d[i].tries >= 1

Distinct == Cardinality(NamesOf(Steps)) = Len(declared)
Known == \A i \in Steps : declared[i].needs \subseteq NamesOf(Steps)

Load ==
  /\ pc = "loading"
  /\ pc' = IF Loadable(declared) /\ Distinct /\ Known THEN "ordering" ELSE "refused"
  /\ UNCHANGED <<declared, ordered, ready, run, row, attempt, outcome, tasks, lost>>

\* Fault: one of its needs is enough to make a step ready.
ReadyWhenOneIsDone == {i \in Steps \ Placed :
  declared[i].needs = {} \/ declared[i].needs \cap NamesOf(Placed) # {}}

\* The steps left whose needs are all done.
ReadyNow == {i \in Steps \ Placed : declared[i].needs \subseteq NamesOf(Placed)}

\* One turn of the loop of order_steps: the next layer, or no way on.
Layer ==
  /\ pc = "ordering" /\ ready = {}
  /\ LET rest == Steps \ Placed
     IN  /\ ready' = ReadyNow
         /\ pc' = IF rest = {} THEN "opening" ELSE IF ReadyNow = {} THEN "refused" ELSE pc
  /\ UNCHANGED <<declared, ordered, run, row, attempt, outcome, tasks, lost>>

\* ordered.extend(ready): in declaration order.
Extend ==
  /\ pc = "ordering"
  /\ \E i \in ready :
       /\ \A j \in ready : i <= j
       /\ ordered' = Append(ordered, i)
       /\ ready' = ready \ {i}
  /\ UNCHANGED <<declared, pc, run, row, attempt, outcome, tasks, lost>>

-----------------------------------------------------------------------------
(* Running *)

\* A save of the run, and where the engine goes from it.
Save(value, next) ==
  /\ run' = value
  /\ row' = value
  /\ pc' = next

\* A StorageError in a save leaves run(): nothing around it catches.
SaveFails ==
  /\ pc \in {"opening", "recording", "stopping", "finishing"}
  /\ pc' = "raised"
  /\ UNCHANGED <<declared, ordered, ready, run, row, attempt, outcome, tasks, lost>>

\* The run is written down before its first step.
Open ==
  /\ pc = "opening"
  /\ Save(run, "starting")
  /\ UNCHANGED <<declared, ordered, ready, attempt, outcome, tasks, lost>>

\* Fault: a success does not end the attempts.
TriedToTheEnd(result) ==
  /\ outcome' = result
  /\ IF result.attempts >= declared[Current].tries
       THEN pc' = "recording" /\ UNCHANGED attempt
       ELSE pc' = "starting" /\ attempt' = attempt + 1

\* An attempt is over: the next one, unless it succeeded or was the last.
Tried(result) ==
  /\ outcome' = result
  /\ IF result.succeeded \/ result.attempts >= declared[Current].tries
       THEN pc' = "recording" /\ UNCHANGED attempt
       ELSE pc' = "starting" /\ attempt' = attempt + 1

\* Fault: an exception is not counted as an attempt.
RaisedUncounted == pc' = "starting" /\ UNCHANGED <<outcome, attempt>>

\* An exception is a failed attempt; what the outcome said of an earlier task stays.
Raised == Tried([outcome EXCEPT !.attempts = attempt])

\* TaskRunner.submit: the task's row is written, or it could not even start.
Submit ==
  /\ pc = "starting"
  /\ \/ /\ tasks' = tasks \cup {[step |-> Current, attempt |-> attempt, status |-> "open"]}
        /\ pc' = "working"
        /\ UNCHANGED <<attempt, outcome>>
     \/ Raised /\ UNCHANGED tasks
  /\ UNCHANGED <<declared, ordered, ready, run, row, lost>>

Mine(t) == t.step = Current /\ t.attempt = attempt
Ending(status) == {IF Mine(t) THEN [t EXCEPT !.status = status] ELSE t : t \in tasks}

\* TaskRunner.run returned: only COMPLETED is a success, so a task a person
\* cancelled is a failed attempt like any other.
Settle ==
  /\ pc = "working"
  /\ \E status \in {"COMPLETED", "FAILED", "CANCELLED"} :
       /\ tasks' = Ending(status)
       /\ Tried([task |-> attempt, attempts |-> attempt, succeeded |-> status = "COMPLETED"])
  /\ UNCHANGED <<declared, ordered, ready, run, row, lost>>

\* A save of the task or of its assignment raised: the engine hears an
\* exception, whatever the row of the task says by then.
SettleLost ==
  /\ pc = "working"
  /\ \E status \in {"open", "COMPLETED", "FAILED", "CANCELLED"} : tasks' = Ending(status)
  /\ lost' = lost \cup {[step |-> Current, attempt |-> attempt]}
  /\ Raised
  /\ UNCHANGED <<declared, ordered, ready, run, row>>

\* Fault: a failed step ends the run only if it was the last declared.
AfterStepAlways(i, value) ==
  IF Len(value.steps) = Len(ordered)
    THEN IF ~outcome.succeeded /\ declared[i].onFailure = "STOP" THEN "stopping" ELSE "finishing"
    ELSE "starting"

AfterStep(i, value) ==
  IF ~outcome.succeeded /\ declared[i].onFailure = "STOP" THEN "stopping"
  ELSE IF Len(value.steps) = Len(ordered) THEN "finishing" ELSE "starting"

WithStep ==
  [run EXCEPT !.steps = Append(@, [step |-> Current, task |-> outcome.task,
                                   attempts |-> outcome.attempts,
                                   succeeded |-> outcome.succeeded])]

\* The outcome of a step is saved before the next one starts.
Record ==
  /\ pc = "recording"
  /\ Save(WithStep, AfterStep(Current, WithStep))
  /\ attempt' = 1 /\ outcome' = Untried
  /\ UNCHANGED <<declared, ordered, ready, tasks, lost>>

Stop ==
  /\ pc = "stopping"
  /\ Save([run EXCEPT !.status = "FAILED"], "returned")
  /\ UNCHANGED <<declared, ordered, ready, attempt, outcome, tasks, lost>>

\* A run that came to its end is COMPLETED, whichever CONTINUE steps failed.
Finish ==
  /\ pc = "finishing"
  /\ Save([run EXCEPT !.status = "COMPLETED"], "returned")
  /\ UNCHANGED <<declared, ordered, ready, attempt, outcome, tasks, lost>>

\* The process dies.  Nothing resumes a workflow run.
Kill ==
  /\ pc \notin Ended
  /\ pc' = "dead"
  /\ UNCHANGED <<declared, ordered, ready, run, row, attempt, outcome, tasks, lost>>

Engine ==
  \/ Load \/ Layer \/ Extend
  \/ Open \/ Submit \/ Settle \/ SettleLost \/ Record \/ Stop \/ Finish

Next == Engine \/ SaveFails \/ Kill

Spec == Init /\ [][Next]_vars

\* The engine is one coroutine, and every task it waits for ends
\* (EmployeeRuntime.EventuallySettled); storage need not fail, nobody kills.
FairSpec == Spec /\ WF_vars(Engine)

-----------------------------------------------------------------------------
(* What a run promises *)

Written == row.status # "NONE"
Stops(i) == declared[i].onFailure = "STOP"

\* A declaration some order of which can be run: no set of steps waits for itself.
Runnable ==
  /\ Loadable(declared) /\ Distinct /\ Known
  /\ \A S \in SUBSET Steps : S # {} => \E i \in S : declared[i].needs \cap NamesOf(S) = {}

\* order_steps refuses a declaration exactly when no order exists, and otherwise
\* places every step once.
RefusedIfImpossible ==
  /\ pc = "refused" => ~Runnable
  /\ pc \notin {"loading", "ordering", "refused", "dead"} =>
       /\ Runnable
       /\ Placed = Steps /\ Len(ordered) = Len(declared)

\* A task exists only for a step whose needs are all in the saved row, and for
\* none after a step that failed and stops the run: a kill at any moment leaves
\* no work that was started on a gap.
StepsFollowTheirNeeds == \A t \in tasks :
  /\ Written
  /\ \A n \in declared[t.step].needs :
       \E k \in DOMAIN row.steps : declared[row.steps[k].step].name = n
  /\ \A k \in DOMAIN row.steps :
       ~row.steps[k].succeeded /\ Stops(row.steps[k].step) =>
          \E j \in 1..k : row.steps[j].step = t.step

\* The saved verdict agrees with the saved steps, and the steps with the tasks:
\* a COMPLETED run ran every step and every STOP step of it succeeded, a FAILED
\* one ended at the STOP step that failed, a step that succeeded names a task
\* whose row is COMPLETED.
VerdictTellsTheSteps == Written =>
  /\ row.status = "COMPLETED" =>
       /\ {row.steps[k].step : k \in DOMAIN row.steps} = Steps
       /\ \A k \in DOMAIN row.steps : Stops(row.steps[k].step) => row.steps[k].succeeded
  /\ row.status = "FAILED" =>
       \E k \in DOMAIN row.steps :
         k = Len(row.steps) /\ Stops(row.steps[k].step) /\ ~row.steps[k].succeeded
  /\ \A k \in DOMAIN row.steps : row.steps[k].succeeded =>
       [step |-> row.steps[k].step, attempt |-> row.steps[k].task,
        status |-> "COMPLETED"] \in tasks

\* WorkflowEngine._run_step: work that was completed is done again only if a save after
\* its completion raised; then the engine counts the attempt as failed although the
\* row of the task says COMPLETED.
RedoneOnlyWhenLost == \A t, u \in tasks :
  t.status = "COMPLETED" /\ u.step = t.step /\ u.attempt > t.attempt =>
    [step |-> t.step, attempt |-> t.attempt] \in lost

\* A run that was written down comes to a verdict unless its process dies or its
\* storage fails: no declaration and no task makes it go on for ever.
RunsReachAVerdict ==
  Written ~> (row.status # "RUNNING" \/ pc \in {"dead", "raised"})

-----------------------------------------------------------------------------
(* What the documentation says and the code does not *)

\* engine.py:121, "a killed process leaves a run to account for rather than a
\* set of tasks nobody can attribute": the row names a step's last task only
\* once the step is over; earlier attempts and the task under way are in no row.
TasksAreAttributed == pc = "dead" /\ Written =>
  \A t \in tasks : \E k \in DOMAIN row.steps :
    row.steps[k].step = t.step /\ row.steps[k].task = t.attempt

\* run.py:60, the outcome "is the index - which task belonged to which step, and
\* how many attempts it took": when the last attempt raises, the index keeps the
\* task of an earlier attempt.
LastTaskIsNamed == Written =>
  \A k \in DOMAIN row.steps : \A t \in tasks :
    t.step = row.steps[k].step => t.attempt <= row.steps[k].task

\* runtime.py:311, "A person asked for this to stop": the engine starts the
\* step again as a new task, as after any failure.
StoppedStaysStopped == \A t, u \in tasks :
  t.status = "CANCELLED" /\ u.step = t.step => u.attempt <= t.attempt
=============================================================================
