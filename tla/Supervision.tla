----------------------------- MODULE Supervision -----------------------------
(***************************************************************************)
(* One objective carried to an answer: PrometheusManager                   *)
(* (application/prometheus/manager.py) plans it, the Supervisor            *)
(* (supervisor.py) runs the plan wave by wave and puts a failed task back  *)
(* to work, and the verdict decides between delivering, planning again and *)
(* handing it to the user.  `objective` and `plans` are saved rows;        *)
(* everything else is the state of one coroutine and of the coroutines     *)
(* asyncio.gather runs for a wave.                                         *)
(*                                                                         *)
(* Abstracted: a finished task is what the supervisor can tell about it    *)
(* (Kinds), a verdict or a reconciliation is a choice, and a plan is one   *)
(* of the dependency relations in Shapes over the same tasks.              *)
(***************************************************************************)
EXTENDS Integers, FiniteSets

CONSTANTS
  Tasks,         \* a plan's tasks, numbered in plan order
  Employees,     \* all of them declared for the first workspace
  Offering,      \* who offers the capabilities a task needs; nobody when it needs none
  Holding,       \* who holds the services a task needs; everyone when it needs none
  Shapes,        \* the dependencies a planner may write: sets of <<task, needs>>
  MaxAttempts,   \* MAX_TASK_ATTEMPTS
  MaxParallel,   \* MAX_PARALLEL_TASKS
  MaxRevisions   \* MAX_PLAN_REVISIONS

ASSUME SupervisionAssumption ==
  /\ Tasks \subseteq Nat /\ IsFiniteSet(Tasks)
  /\ Offering \in [Tasks -> SUBSET Employees]
  /\ Holding \in [Tasks -> SUBSET Employees]
  /\ Shapes \subseteq SUBSET (Tasks \X Tasks)
  /\ MaxAttempts \in Nat \ {0} /\ MaxParallel \in Nat \ {0}
  /\ MaxRevisions \in Nat \ {0}

VARIABLES
  objective,  \* status of the objective's row
  plans,      \* status of each revision's row
  stage,      \* where handle_objective is
  revision,
  staff,      \* who is listed in the objective's workspace: nobody but in the first
  edges,      \* the current plan's dependencies
  wave,       \* the tasks the supervisor awaits together
  carry,      \* where the coroutine that carries each task is
  attempt, avoid, by,
  outcome,    \* what the task's last run came to
  done,       \* accepted results, as the supervisor's loop knows them
  recovery,   \* what the plan's first failure calls for
  runs        \* history: employee runs started

record == <<objective, plans>>
crew == <<wave, carry, attempt, avoid, by, outcome, runs>>
vars == <<record, stage, revision, staff, edges, crew, done, recovery>>

Revisions == 1 .. MaxRevisions

\* What a finished task looks like from above.  The first three are COMPLETED:
\* taken, all its calls refused, all its calls failed.  A provider that timed
\* out is one error type, the other transient failures are the rest.
Kinds == {"accepted", "refused", "hollow",
          "denied", "transient", "timedOut", "failed", "stopped"}

\* recovery_for and classify.  The timeout's type is not among the names in
\* _TRANSIENT_ERRORS, so it reads as a bad plan.
RecoveryFor(kind) ==
  CASE kind = "transient" -> "RETRY"
    [] kind \in {"refused", "denied"} -> "REASSIGN"
    [] kind = "stopped" -> "GIVE_UP"
    [] OTHER -> "REPLAN"

\* Fault: a task that ended COMPLETED succeeded, whatever it did.
SucceededByStatus(t) == outcome[t] \in {"accepted", "refused", "hollow"}

Succeeded(t) == outcome[t] = "accepted"

Needs(t) == {d \in Tasks : <<t, d>> \in edges}

\* Plan.ready
Ready == {t \in Tasks \ done : Needs(t) \subseteq done}

\* Capabilities are looked for in the first workspace, whichever the task's is; where
\* nobody is found, or none are needed, it is whoever the task's own workspace lists.
\* A service is needed only where somebody listed holds it.  Those to be avoided are
\* left out unless that leaves nobody.
Candidates(t) ==
  LET able == IF Offering[t] = {} THEN staff ELSE Offering[t]
      holders == able \cap Holding[t] \cap staff
      field == IF holders = {} THEN able ELSE holders
  IN  IF field \ avoid[t] = {} THEN field ELSE field \ avoid[t]

\* Somebody of the wave was given to nobody: a DelegationError.
NobodyWasFound == staff = {} /\ \E t \in Tasks : Offering[t] = {} /\ carry[t] = "lost"

Live == {t \in Tasks : carry[t] \in {"choosing", "running"}}

TypeOK ==
  /\ objective \in {"RECEIVED", "PLANNING", "RUNNING", "DONE", "ESCALATED"}
  /\ plans \in [Revisions -> {"none", "DRAFT", "RUNNING", "DONE", "FAILED", "SUPERSEDED"}]
  /\ stage \in {"reading", "answering", "starting", "planning", "drafted", "announced",
                "supervising", "reconciling", "verifying", "rejected", "delivering",
                "escalating", "over", "raised", "dead"}
  /\ revision \in Revisions
  /\ staff \in {Employees, {}}
  /\ edges \in SUBSET (Tasks \X Tasks)
  /\ wave \in SUBSET Tasks
  /\ carry \in [Tasks -> {"none", "queued", "choosing", "running", "finished", "lost"}]
  /\ attempt \in [Tasks -> 0 .. MaxAttempts]
  /\ avoid \in [Tasks -> SUBSET Employees]
  /\ by \in [Tasks -> Employees \cup {"nobody"}]
  /\ outcome \in [Tasks -> Kinds \cup {"none"}]
  /\ done \in SUBSET Tasks
  /\ recovery \in {"NONE", "RETRY", "REASSIGN", "REPLAN", "GIVE_UP"}
  /\ runs \in Nat

Rested(new) ==
  /\ wave' = {}
  /\ carry' = [t \in Tasks |-> "none"]
  /\ attempt' = [t \in Tasks |-> 0]
  /\ avoid' = [t \in Tasks |-> {}]
  /\ by' = [t \in Tasks |-> "nobody"]
  /\ outcome' = new

Init ==
  /\ objective = "RECEIVED"
  /\ plans = [r \in Revisions |-> "none"]
  /\ stage = "reading"
  /\ revision = 1
  /\ staff \in {Employees, {}}
  /\ edges = {}
  /\ wave = {}
  /\ carry = [t \in Tasks |-> "none"]
  /\ attempt = [t \in Tasks |-> 0]
  /\ avoid = [t \in Tasks |-> {}]
  /\ by = [t \in Tasks |-> "nobody"]
  /\ outcome = [t \in Tasks |-> "none"]
  /\ done = {}
  /\ recovery = "NONE"
  /\ runs = 0

-----------------------------------------------------------------------------
(* The manager, up to the plan *)

\* The request is read: it needs no work, or it does.
Understand ==
  /\ stage = "reading"
  /\ stage' \in {"answering", "starting"}
  /\ UNCHANGED <<record, revision, staff, edges, crew, done, recovery>>

\* A direct answer is checked like any other, and one that fails is planned for.
AnswerDirectly ==
  /\ stage = "answering"
  /\ \/ stage' = "over" /\ objective' = "DONE"
     \/ stage' = "starting" /\ UNCHANGED objective
  /\ UNCHANGED <<plans, revision, staff, edges, crew, done, recovery>>

StartWork ==
  /\ stage = "starting"
  /\ stage' = "planning"
  /\ objective' = "PLANNING"
  /\ UNCHANGED <<plans, revision, staff, edges, crew, done, recovery>>

\* The plan's row is saved; its tasks are new ones, and nothing has run.
MakePlan ==
  /\ stage = "planning"
  /\ stage' = "drafted"
  /\ edges' \in Shapes
  /\ plans' = [plans EXCEPT ![revision] = "DRAFT"]
  /\ Rested([t \in Tasks |-> "none"])
  /\ done' = {} /\ recovery' = "NONE"
  /\ UNCHANGED <<objective, revision, staff, runs>>

ObjectiveRuns ==
  /\ stage = "drafted"
  /\ stage' = "announced"
  /\ objective' = "RUNNING"
  /\ UNCHANGED <<plans, revision, staff, edges, crew, done, recovery>>

PlanRuns ==
  /\ stage = "announced"
  /\ stage' = "supervising"
  /\ plans' = [plans EXCEPT ![revision] = "RUNNING"]
  /\ UNCHANGED <<objective, revision, staff, edges, crew, done, recovery>>

-----------------------------------------------------------------------------
(* The supervisor *)

StartWave ==
  /\ stage = "supervising" /\ wave = {} /\ recovery = "NONE"
  /\ Ready # {}
  /\ wave' = Ready
  /\ carry' = [t \in Tasks |-> IF t \in Ready THEN "queued" ELSE carry[t]]
  /\ UNCHANGED <<record, stage, revision, staff, edges, attempt, avoid, by, outcome,
                 done, recovery, runs>>

\* The semaphore.  A wave whose gather has raised goes on taking its turns.
Take(t) ==
  /\ carry[t] = "queued"
  /\ Cardinality(Live) < MaxParallel
  /\ carry' = [carry EXCEPT ![t] = "choosing"]
  /\ attempt' = [attempt EXCEPT ![t] = 1]
  /\ UNCHANGED <<record, stage, revision, staff, edges, wave, avoid, by, outcome,
                 done, recovery, runs>>

\* The delegator names somebody, and the task runs.
Choose(t) ==
  /\ carry[t] = "choosing"
  /\ \E e \in Candidates(t) : by' = [by EXCEPT ![t] = e]
  /\ carry' = [carry EXCEPT ![t] = "running"]
  /\ runs' = runs + 1
  /\ UNCHANGED <<record, stage, revision, staff, edges, wave, attempt, avoid, outcome,
                 done, recovery>>

\* Nobody is found: DelegationError, out of the gather and up to the manager, which
\* hands the objective back.  gather() does not stop the neighbours.
NobodyToAsk(t) ==
  /\ carry[t] = "choosing" /\ Candidates(t) = {}
  /\ carry' = [carry EXCEPT ![t] = "lost"]
  /\ IF stage = "supervising"
       THEN stage' = "over" /\ objective' = "ESCALATED"
       ELSE UNCHANGED <<stage, objective>>
  /\ UNCHANGED <<plans, revision, staff, edges, wave, attempt, avoid, by, outcome,
                 done, recovery, runs>>

\* The task is tried again in place, by anyone but those who could not reach it.
TryAgain(t, kind) ==
  /\ attempt' = [attempt EXCEPT ![t] = @ + 1]
  /\ avoid' = [avoid EXCEPT ![t] = IF RecoveryFor(kind) = "REASSIGN" THEN @ \cup {by[t]} ELSE @]
  /\ carry' = [carry EXCEPT ![t] = "choosing"]

WorthAnother(t, kind) ==
  /\ kind # "accepted"
  /\ attempt[t] < MaxAttempts
  /\ RecoveryFor(kind) \in {"RETRY", "REASSIGN"}

\* A run comes back as what it came to: the rest of Supervisor._carry.
Return(t) ==
  /\ carry[t] = "running"
  /\ \E kind \in Kinds :
       /\ outcome' = [outcome EXCEPT ![t] = kind]
       /\ IF WorthAnother(t, kind)
            THEN TryAgain(t, kind)
            ELSE carry' = [carry EXCEPT ![t] = "finished"] /\ UNCHANGED <<attempt, avoid>>
  /\ UNCHANGED <<record, stage, revision, staff, edges, wave, by, done, recovery, runs>>

\* Fault: the first failure ends the wave, with its neighbours still at work.
EndWaveAtFailure ==
  /\ stage = "supervising" /\ wave # {}
  /\ LET failed == {t \in wave : carry[t] = "finished" /\ ~Succeeded(t)} IN
       /\ failed # {} \/ \A t \in wave : carry[t] = "finished"
       /\ done' = done \cup {t \in wave : carry[t] = "finished" /\ Succeeded(t)}
       /\ \/ failed = {} /\ UNCHANGED recovery
          \/ \E t \in failed : recovery' = RecoveryFor(outcome[t])
  /\ wave' = {}
  /\ UNCHANGED <<record, stage, revision, staff, edges, carry, attempt, avoid, by, outcome, runs>>

\* The gather is over: results are read in plan order, the first failure decides.
EndWave ==
  /\ stage = "supervising" /\ wave # {}
  /\ \A t \in wave : carry[t] = "finished"
  /\ LET failed == {t \in wave : ~Succeeded(t)} IN
       /\ done' = done \cup (wave \ failed)
       /\ \/ failed = {} /\ UNCHANGED recovery
          \/ \E t \in failed :
               /\ \A u \in failed : t <= u
               /\ recovery' = RecoveryFor(outcome[t])
  /\ Rested(outcome)
  /\ UNCHANGED <<record, stage, revision, staff, edges, runs>>

\* Fault: the loop ends when every task has run or one has failed.
SupervisedIfSettled ==
  /\ stage = "supervising" /\ wave = {}
  /\ recovery # "NONE" \/ done = Tasks
  /\ stage' = "reconciling"
  /\ UNCHANGED <<record, revision, staff, edges, crew, done, recovery>>

\* Nothing is left to start: a failure, a finished plan, or a cycle.
Supervised ==
  /\ stage = "supervising" /\ wave = {}
  /\ recovery # "NONE" \/ Ready = {}
  /\ stage' = "reconciling"
  /\ recovery' = IF recovery = "NONE" /\ done # Tasks THEN "REPLAN" ELSE recovery
  /\ UNCHANGED <<record, revision, staff, edges, crew, done>>

-----------------------------------------------------------------------------
(* The manager, from what came back *)

\* Two accepted reports may contradict each other, and nothing settle it.
Reconcile ==
  /\ stage = "reconciling"
  /\ \/ stage' = "verifying" /\ UNCHANGED plans
     \/ /\ Cardinality(done) >= 2
        /\ stage' = "escalating"
        /\ plans' = [plans EXCEPT ![revision] = "FAILED"]
  /\ UNCHANGED <<objective, revision, staff, edges, crew, done, recovery>>

\* The verdict, whatever the supervisor made of it; with no outcome at all it is no.
Verify ==
  /\ stage = "verifying"
  /\ \/ /\ \E t \in Tasks : outcome[t] # "none"
        /\ stage' = "delivering"
        /\ plans' = [plans EXCEPT ![revision] = "DONE"]
     \/ /\ stage' = "rejected"
        /\ plans' = [plans EXCEPT ![revision] = "FAILED"]
  /\ UNCHANGED <<objective, revision, staff, edges, crew, done, recovery>>

\* Fault: the plan that fell short keeps its row.
ReplanBesideTheOld ==
  /\ stage = "rejected"
  /\ revision < MaxRevisions /\ recovery # "GIVE_UP"
  /\ stage' = "planning" /\ revision' = revision + 1
  /\ UNCHANGED <<record, staff, edges, crew, done, recovery>>

Replan ==
  /\ stage = "rejected"
  /\ revision < MaxRevisions /\ recovery # "GIVE_UP"
  /\ plans' = [plans EXCEPT ![revision] = "SUPERSEDED"]
  /\ stage' = "planning" /\ revision' = revision + 1
  /\ UNCHANGED <<objective, staff, edges, crew, done, recovery>>

NoMoreRevisions ==
  /\ stage = "rejected"
  /\ revision = MaxRevisions \/ recovery = "GIVE_UP"
  /\ stage' = "escalating"
  /\ UNCHANGED <<record, revision, staff, edges, crew, done, recovery>>

Deliver ==
  /\ stage = "delivering"
  /\ stage' = "over" /\ objective' = "DONE"
  /\ UNCHANGED <<plans, revision, staff, edges, crew, done, recovery>>

Escalate ==
  /\ stage = "escalating"
  /\ stage' = "over" /\ objective' = "ESCALATED"
  /\ UNCHANGED <<plans, revision, staff, edges, crew, done, recovery>>

-----------------------------------------------------------------------------
(* What nobody catches *)

\* A model call or a save between two tasks fails: nothing catches it.
Fails ==
  /\ stage \notin {"supervising", "over", "raised", "dead"}
  /\ stage' = "raised"
  /\ UNCHANGED <<record, revision, staff, edges, crew, done, recovery>>

\* It fails inside a wave: gather raises at once, the neighbours are on their own.
CarryFails(t) ==
  /\ t \in Live
  /\ carry' = [carry EXCEPT ![t] = "lost"]
  /\ stage' = IF stage = "supervising" THEN "raised" ELSE stage
  /\ UNCHANGED <<record, revision, staff, edges, wave, attempt, avoid, by, outcome,
                 done, recovery, runs>>

\* Runs.cancel_objective cancels the coroutine and all it awaits, or the process
\* is gone.  Only the rows stay.
Killed ==
  /\ stage # "dead"
  /\ stage # "over" \/ Live # {}
  /\ stage' = "dead"
  /\ carry' = [t \in Tasks |-> IF carry[t] = "none" THEN "none" ELSE "lost"]
  /\ UNCHANGED <<record, revision, staff, edges, wave, attempt, avoid, by, outcome,
                 done, recovery, runs>>

Manager == \/ Understand \/ AnswerDirectly \/ StartWork \/ MakePlan \/ ObjectiveRuns \/ PlanRuns
           \/ StartWave \/ EndWave \/ Supervised
           \/ Reconcile \/ Verify \/ Replan \/ NoMoreRevisions \/ Deliver \/ Escalate

Employee(t) == Take(t) \/ Choose(t) \/ NobodyToAsk(t) \/ Return(t)

Next == Manager \/ (\E t \in Tasks : Employee(t) \/ CarryFails(t)) \/ Fails \/ Killed

Spec == Init /\ [][Next]_vars

\* asyncio runs what is runnable; a model call, a run or a save comes back.
FairSpec == Spec /\ WF_vars(Manager) /\ \A t \in Tasks : WF_vars(Employee(t))

-----------------------------------------------------------------------------
(* Properties *)

\* Nobody works from a result that does not exist: a task is given to somebody
\* only when everything it needs was completed and accepted, through waves,
\* second attempts and refused results (Supervisor.run, accept).
WorksFromAcceptedResults ==
  \A t \in Tasks : (t \in Live \/ outcome[t] # "none") =>
    \A d \in Needs(t) : outcome[d] = "accepted"

\* When the user has the result, no employee is at work on it; when it was handed back,
\* one may still be only if a task of the same wave was one nobody could be found for
\* (the gather of Supervisor.run, handle_objective, _finish).
AnswerEndsTheWork ==
  (\E t \in Tasks : carry[t] = "running") =>
    objective # "DONE" /\ (objective = "ESCALATED" => NobodyWasFound)

\* Retries at every layer multiply and no more: an objective costs a bounded
\* number of employee runs (MAX_TASK_ATTEMPTS, MAX_PLAN_REVISIONS).
RunsAreBounded == runs <= MaxRevisions * MaxAttempts * Cardinality(Tasks)

\* The saved rows tell one story whenever the process dies: every plan before
\* the last was superseded, an objective that is DONE has a plan that is DONE
\* or none, and one handed back has a plan that failed, or that runs for ever after a
\* task nobody could be found for (PrometheusManager._work).
RecordsAgree ==
  /\ \A r \in Revisions : r < revision => plans[r] = "SUPERSEDED"
  /\ \A r \in Revisions : r > revision => plans[r] = "none"
  /\ objective = "DONE" => plans[revision] \in {"none", "DONE"}
  /\ objective = "ESCALATED" =>
       plans[revision] = "FAILED" \/ (NobodyWasFound /\ plans[revision] = "RUNNING")

\* handle_objective comes to an end, whatever the plan's shape.
ManagerFinishes == <>(stage \in {"over", "raised", "dead"})

\* What makes these inductive: what the loop believes of its wave is true of
\* it, and the rows and the coroutines are where the stage says.
LoopKnowsItsWave ==
  /\ \A d \in done : outcome[d] = "accepted"
  /\ wave \cap done = {}
  /\ \A t \in wave : Needs(t) \subseteq done
  /\ \A t \in Tasks : /\ carry[t] # "none" => t \in wave
                      /\ carry[t] = "running" => by[t] \in Employees
                      /\ outcome[t] # "none" => Needs(t) \subseteq done

StagesAreKept ==
  /\ stage \notin {"supervising", "raised", "over", "dead"} => \A t \in Tasks : carry[t] = "none"
  /\ stage = "over" => \/ objective = "ESCALATED" /\ NobodyWasFound
                       \/ \A t \in Tasks : carry[t] = "none"
  /\ stage = "dead" => \A t \in Tasks : carry[t] \in {"none", "lost"}
  /\ stage = "supervising" => plans[revision] = "RUNNING"
  /\ objective \in {"DONE", "ESCALATED"} => stage \in {"over", "dead"}
  /\ stage \in {"planning", "starting", "reading", "answering"} => plans[revision] = "none"
  /\ stage \in {"rejected", "escalating"} => plans[revision] = "FAILED"
  /\ stage = "delivering" => plans[revision] = "DONE"

IndInv == /\ TypeOK /\ LoopKnowsItsWave /\ StagesAreKept
          /\ WorksFromAcceptedResults /\ AnswerEndsTheWork /\ RecordsAgree

-----------------------------------------------------------------------------
(* What the documentation says and the code does not *)

\* supervisor.py:287-290, of a task that stops the plan: "Its neighbours in this wave are
\* already finished and their results stand".  When nobody was found for one of a wave,
\* the objective is handed back and the others are still at work.
NeighboursAreFinished == objective = "ESCALATED" => \A t \in Tasks : carry[t] # "running"

\* "carry one objective to an answer": without a kill, every objective is closed.
ObjectivesEnd == <>(objective \in {"DONE", "ESCALATED"} \/ stage = "dead")

\* "their results are kept": no accepted result of a wave is thrown away.
WaveResultsAreKept ==
  stage = "raised" => \A t \in wave : ~(carry[t] = "finished" /\ outcome[t] = "accepted")

\* "the same task, the same employee": a transient failure is retried by the same one.
RetriedBySameEmployee ==
  [][\A t \in Tasks :
       carry[t] = "choosing" /\ carry'[t] = "running" /\ outcome[t] = "transient"
         => by'[t] = by[t]]_vars

\* A provider that timed out is a transient failure: it is tried again.
TimeoutsAreRetried ==
  \A t \in Tasks : carry[t] = "finished" /\ outcome[t] = "timedOut" => attempt[t] = MaxAttempts

\* A task a person stopped is not recovered from: no new plan is made around it.
StopsAreNotReplanned ==
  [][revision' # revision => \A t \in Tasks : outcome[t] # "stopped"]_vars
=============================================================================
