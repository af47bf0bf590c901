-------------------------------- MODULE Planning --------------------------------
(***************************************************************************)
(* From a model's answer to a plan, and from the plan to people: which of  *)
(* the entries become tasks, which of the names between them become edges, *)
(* who is asked to do each task, and what each is told of the others'      *)
(* results.  How a wave ends a plan is Supervision's; here a plan stops at *)
(* its first task that is given up.                                        *)
(***************************************************************************)
EXTENDS Naturals, Sequences, FiniteSets

CONSTANTS
  Answers,      \* what the planning model may say: sequences of entries
  MaxTasks,     \* how many tasks one objective may become
  Staff,        \* declared employees, all of the first workspace
  Can, Holds,   \* the capabilities and the services of each
  Capabilities, Services,
  MaxAttempts,  \* attempts of one planned task
  MaxKey        \* bound: the highest number an entry may have or name

\* An entry is [kind, id, needs, on]: not an object, an object without a goal, or
\* a task; id 0 is an entry without one.  The others are numbered.
Keys == 1..MaxKey

VARIABLES
  answer, space,       \* the model's answer, and the workspace of the objective
  stage,               \* "reading", "working", "over" or "escalated"
  tasks,               \* the tasks of the plan, by the key their entry gave
  edges,               \* <<task, the one it waits for>>
  requirement,         \* what each task needs
  wave, done, given,   \* carried now; done; given up
  tries, avoid, chosen,
  results,             \* summaries the coordinator holds
  told                 \* what each task that started was told

vars == <<answer, space, stage, tasks, edges, requirement, wave, done, given,
          tries, avoid, chosen, results, told>>

Nobody == "nobody"
NoNeed == [capabilities |-> {}, services |-> {}]

Init ==
  /\ answer \in Answers
  /\ space \in {"first", "second"}
  /\ stage = "reading"
  /\ tasks = {} /\ edges = {} /\ requirement = [k \in Keys |-> NoNeed]
  /\ wave = {} /\ done = {} /\ given = {}
  /\ tries = [k \in Keys |-> 0] /\ avoid = [k \in Keys |-> {}]
  /\ chosen = [k \in Keys |-> Nobody]
  /\ results = {} /\ told = [k \in Keys |-> {}]

-----------------------------------------------------------------------------
(* ObjectivePlanner._read. *)

\* YamlEmployeeRegistry.list: a declaration belongs to the first workspace.
Listed == IF space = "first" THEN Staff ELSE {}

Key(i) == IF answer[i].id = 0 THEN i ELSE answer[i].id
KeysBefore(i) == {Key(j) : j \in {n \in 1..(i - 1) : answer[n].kind = "task"}}

\* The entries that are read: the loop ends when there are enough tasks.
Read == {i \in 1..Len(answer) : answer[i].kind = "task" /\ Cardinality(KeysBefore(i)) < MaxTasks}
Kept == {Key(i) : i \in Read}

\* Of two entries of one name the later is the task.
EntryOf(k) == CHOOSE i \in Read : Key(i) = k /\ \A j \in Read : Key(j) = k => j <= i

\* _needs: a capability of the vocabulary, a service somebody listed holds, or
\* nothing.
NeedsOf(k) ==
  LET said == answer[EntryOf(k)].needs
  IN  [capabilities |-> said \cap Capabilities,
       services |-> said \cap UNION {Holds[e] : e \in Listed}]

\* The edges are read from as many entries as there are tasks.
EdgesRead ==
  {edge \in Kept \X Kept :
     /\ edge[1] # edge[2]
     /\ \E i \in 1..Cardinality(Kept) :
          answer[i].kind # "junk" /\ Key(i) = edge[1] /\ edge[2] \in answer[i].on}

\* An answer nothing can be read from is one task: the objective itself.
Plan ==
  /\ stage = "reading"
  /\ stage' = "working"
  /\ IF Kept = {}
       THEN tasks' = {1} /\ edges' = {} /\ UNCHANGED requirement
       ELSE /\ tasks' = Kept
            /\ edges' = EdgesRead
            /\ requirement' = [k \in Keys |-> IF k \in Kept THEN NeedsOf(k) ELSE NoNeed]
  /\ UNCHANGED <<answer, space, wave, done, given, tries, avoid, chosen, results, told>>

-----------------------------------------------------------------------------
(* CapabilityDelegator.choose. *)

Offering(need) == {e \in Staff : need \subseteq Can[e]}
OrElse(found, fallback) == IF found = {} THEN fallback ELSE found

\* _candidates: both terms narrow and neither refuses.
Candidates(need) ==
  LET able == IF need.capabilities = {} THEN Listed
              ELSE OrElse(Offering(need.capabilities), Listed)
  IN  IF need.services = {} THEN able
      ELSE OrElse({e \in able : need.services \subseteq Holds[e]}, able)

\* The field a task is offered: avoiding is a preference among the candidates.
Field(k) == OrElse(Candidates(requirement[k]) \ avoid[k], Candidates(requirement[k]))

-----------------------------------------------------------------------------
(* Supervisor.run, and WorkforceCoordinator. *)

DependsOn(k) == {edge[2] : edge \in {d \in edges : d[1] = k}}
Ready == {k \in tasks \ done : DependsOn(k) \subseteq done}

\* Fault: everything that is known so far.
ContextOfAll(k) == results

\* context_for: the results of the tasks this one names, and no other.
ContextFor(k) == DependsOn(k) \cap results

StartWave ==
  /\ stage = "working" /\ wave = {} /\ given = {} /\ Ready # {}
  /\ wave' = Ready
  /\ told' = [k \in Keys |-> IF k \in Ready THEN ContextFor(k) ELSE told[k]]
  /\ UNCHANGED <<answer, space, stage, tasks, edges, requirement, done, given,
                 tries, avoid, chosen, results>>

\* Whoever the model names among the field, or the one whose tools fit best.
Choose(k) ==
  /\ stage = "working" /\ k \in wave \ (done \cup given)
  /\ chosen[k] = Nobody /\ Field(k) # {}
  /\ \E e \in Field(k) : chosen' = [chosen EXCEPT ![k] = e]
  /\ tries' = [tries EXCEPT ![k] = @ + 1]
  /\ UNCHANGED <<answer, space, stage, tasks, edges, requirement, wave, done, given,
                 avoid, results, told>>

\* DelegationError: nobody can take the task, and the objective is escalated.
NobodyLeft(k) ==
  /\ stage = "working" /\ k \in wave \ (done \cup given)
  /\ chosen[k] = Nobody /\ Field(k) = {}
  /\ stage' = "escalated"
  /\ UNCHANGED <<answer, space, tasks, edges, requirement, wave, done, given, tries, avoid,
                 chosen, results, told>>

\* A result is accepted; record() keeps it if it says anything.
Succeed(k) ==
  /\ stage = "working" /\ k \in wave /\ chosen[k] # Nobody /\ k \notin done \cup given
  /\ done' = done \cup {k}
  /\ \E says \in BOOLEAN : results' = IF says THEN results \cup {k} ELSE results
  /\ UNCHANGED <<answer, space, stage, tasks, edges, requirement, wave, given, tries, avoid,
                 chosen, told>>

\* An attempt fails: tried again by anybody, by somebody else, or given up.
Fall(k) ==
  /\ stage = "working" /\ k \in wave /\ chosen[k] # Nobody /\ k \notin done \cup given
  /\ \/ /\ tries[k] < MaxAttempts
        /\ \E recovery \in {"RETRY", "REASSIGN"} :
             avoid' = IF recovery = "REASSIGN" THEN [avoid EXCEPT ![k] = @ \cup {chosen[k]}]
                      ELSE avoid
        /\ chosen' = [chosen EXCEPT ![k] = Nobody]
        /\ UNCHANGED given
     \/ /\ given' = given \cup {k}
        /\ UNCHANGED <<avoid, chosen>>
  /\ UNCHANGED <<answer, space, stage, tasks, edges, requirement, wave, done, tries,
                 results, told>>

EndWave ==
  /\ stage = "working" /\ wave # {} /\ wave \subseteq done \cup given
  /\ wave' = {}
  /\ UNCHANGED <<answer, space, stage, tasks, edges, requirement, done, given, tries, avoid,
                 chosen, results, told>>

Finish ==
  /\ stage = "working" /\ wave = {} /\ (given # {} \/ Ready = {})
  /\ stage' = "over"
  /\ UNCHANGED <<answer, space, tasks, edges, requirement, wave, done, given, tries, avoid,
                 chosen, results, told>>

Next ==
  \/ Plan \/ StartWave \/ EndWave \/ Finish
  \/ \E k \in Keys : Choose(k) \/ NobodyLeft(k) \/ Succeed(k) \/ Fall(k)

Spec == Init /\ [][Next]_vars

-----------------------------------------------------------------------------
(* What holds. *)

\* A task is told the results of tasks its own entry named, of each of them that
\* said anything and that became an edge, and of no task further back (ADR 0012:
\* context passes only along declared edges; WorkforceCoordinator.context_for).
ContextFollowsTheEdges ==
  \A k \in tasks : \A other \in told[k] :
    /\ other \in done
    /\ \E i \in 1..Len(answer) : Key(i) = k /\ other \in answer[i].on

\* Whoever takes a task declares what it was read to need, whenever somebody
\* does, however many were to be avoided (CapabilityDelegator._candidates, choose).
TakenByTheAble ==
  \A k \in tasks : chosen[k] # Nobody =>
    LET need == requirement[k]
        Fit(e) == need.capabilities \subseteq Can[e] /\ need.services \subseteq Holds[e]
    IN  (\E e \in Staff : Fit(e)) => Fit(chosen[k])

-----------------------------------------------------------------------------
(* What the code says and does not keep. *)

\* A DelegationError "means the machine has no declared employee at all"
\* (supervisor.py:366-367): declarations belong to the first workspace, and an
\* objective of a second one finds nobody.
SomebodyTakesIt == stage = "escalated" => Staff = {}

\* A task starts after every task its entry says it depends on, of those that
\* were kept (Plan.ready): an unusable entry before it cuts its edges off, since
\* the edges are read from the first len(tasks) entries (planner.py:195).
StartsAfterWhatItNamed ==
  \A k \in Kept : tries[k] > 0 =>
    \A other \in answer[EntryOf(k)].on \cap tasks : other # k => other \in done
================================================================================
