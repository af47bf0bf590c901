------------------------------ MODULE MCWorkflow ------------------------------
(* What makes tasks out of a declaration - a run of a workflow, and the plan a model
   makes of an objective - and what the model of an employee is sent.  The three share
   no state: a behaviour is of one of them.

   Workflows: three steps, one with a single try that the run survives, and every
   relation of needs between them; two steps with a name twice or a need nothing
   declares; a step that may not be tried; no step at all.

   Plans: up to three tasks.  The first entry cannot be used, or is; the second
   waits for the first or for the third, with an id, without one, or with an id
   given before; the third waits for one of them.  One employee can do and reach
   everything, one can do it without the service, one only reaches the service.

   Conversations: two tools whose names come out the same on the messages wire, of
   which one is refused each time; three steps of up to two calls. *)
EXTENDS Workflow, TLC

CONSTANTS
  first, second, third, ghost,
  cap, svc, e1, e2, e3,
  Answers, MaxTasks, Staff, Can, Holds, Capabilities, Services, MaxAttempts, MaxKey,
  Registry, Sanitised, Refusable, Wires, Retries, MaxSteps, MaxCalls, MaxRequests, MaxFaults, MaxKills

VARIABLES
  part, \* the one of the three that moves
  answer, space, stage, planned, edges, requirement, wave, done, given, tries, avoid, chosen,
  results, told,
  wire, phase, transcript, saved, request, tried, todo, cancelled, ids, requests, faults,
  kills, charged, logged, asked

plan == <<answer, space, stage, planned, edges, requirement, wave, done, given, tries, avoid,
          chosen, results, told>>
talk == <<wire, phase, transcript, saved, request, tried, todo, cancelled, ids, requests,
          faults, kills, charged, logged, asked>>

Granted == <<"fs.read", "fs_read">>
OnTheWire == "fs.read" :> <<"fs_read">> @@ "fs_read" :> <<"fs_read">>

Planner == INSTANCE Planning WITH tasks <- planned
Talk == INSTANCE Conversation WITH
  MaxAttempts <- Retries, attempt <- tried

\* A model may number its entries as it likes, and there may be any number of them.
ASSUME AnswersAssumption ==
  /\ MaxKey \in Nat \ {0}
  /\ \A said \in Answers :
       /\ Len(said) \in 0..MaxKey
       /\ \A i \in 1..Len(said) : said[i].id \in 0..MaxKey

\* Tools have an order, and a name on the wire is a sequence: a suffix makes it longer.
\* An answer has a number of calls.
ASSUME ToolsAssumption ==
  /\ Len(Registry) \in Nat /\ DOMAIN Registry = 1..Len(Registry)
  /\ \A i \in 1..Len(Registry) : Sanitised[Registry[i]] \in Seq(STRING)
  /\ MaxCalls \in Nat

Declared(n, needs) ==
  [name |-> n, needs |-> needs,
   tries |-> IF n = second THEN 1 ELSE 2,
   onFailure |-> IF n = second THEN "CONTINUE" ELSE "STOP"]

AnyOf(n, among) == {Declared(n, needs) : needs \in SUBSET among}

AllDeclarations ==
  LET three == {first, second, third}
      two == {first, second, ghost}
  IN  AnyOf(first, three) \X AnyOf(second, three) \X AnyOf(third, three)
      \cup AnyOf(first, two) \X (AnyOf(first, two) \cup AnyOf(second, two))
      \cup {<<[Declared(first, {}) EXCEPT !.tries = 0]>>, << >>}

Entry(kind, id, on, needs) == [kind |-> kind, id |-> id, on |-> on, needs |-> needs]
Task(id, on) == Entry("task", id, on, {})
Junk == Entry("junk", 0, {}, {})

Said ==
  {<<a, Entry("task", b.id, b.on, needs), c>> :
     a \in {Junk, Entry("goalless", 2, {3}, {}), Task(1, {})},
     b \in {Task(2, {1}), Task(0, {1}), Task(1, {3})},
     needs \in {{cap}, {cap, svc}},
     c \in {Task(3, {2}), Task(1, {2})}}
  \cup {<< >>, <<Entry("task", 1, {}, {svc}), Task(2, {1}), Task(4, {1, 2})>>}

CanDo == e1 :> {cap} @@ e2 :> {cap} @@ e3 :> {}
Holding == e1 :> {svc} @@ e2 :> {} @@ e3 :> {svc}

\* Those that stand still stand at one of their beginnings.
AllInit ==
  /\ part \in {"workflow", "planning", "conversation"}
  /\ Init /\ Planner!Init /\ Talk!Init
  /\ part # "planning" => answer = << >> /\ space = "first"
  /\ part # "workflow" => declared = << >>
  /\ part # "conversation" => wire = "chat"

AllNext ==
  \/ part = "workflow" /\ Next /\ UNCHANGED <<part, plan, talk>>
  \/ part = "planning" /\ Planner!Next /\ UNCHANGED <<part, vars, talk>>
  \/ part = "conversation" /\ Talk!Next /\ UNCHANGED <<part, vars, plan>>

AllSpec ==
  /\ AllInit /\ [][AllNext]_<<part, vars, plan, talk>>
  /\ WF_vars(part = "workflow" /\ Engine)

\* Planning.ContextFollowsTheEdges: a task is told the results its entry named.
ContextFollowsTheEdges == Planner!ContextFollowsTheEdges

\* Planning.TakenByTheAble: whoever takes a task is able to, if anybody is.
TakenByTheAble == Planner!TakenByTheAble

\* Conversation.RequestsAreWhole: each request is one a provider accepts.
RequestsAreWhole == Talk!RequestsAreWhole

\* Conversation.CallsReachWhatWasShown: a call reaches the tool its name stood for.
CallsReachWhatWasShown == Talk!CallsReachWhatWasShown

\* Conversation.TheLogHasTheSpend: what was spent stands in the call log.
TheLogHasTheSpend == Talk!TheLogHasTheSpend
=============================================================================
