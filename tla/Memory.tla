-------------------------------- MODULE Memory --------------------------------
(***************************************************************************)
(* What runs write down and what later runs are told of it: the recorder   *)
(* beside each task, the consolidation that follows it, and the rule of    *)
(* who may read what.  Several tasks run at once, in one process or in     *)
(* several, and each await of a recorder lets the others in between.       *)
(* Which of the readable items a search ranks first is left open.          *)
(***************************************************************************)
EXTENDS Naturals, FiniteSets

CONSTANTS
  Tasks,        \* tasks, each with the three things that scope its memory
  SpaceOf, EmployeeOf,
  PlanOf,       \* the plan of a task, or NoPlan
  NoPlan,
  MainSpace,    \* the workspace requests to the manager are made in
  Threshold,    \* episodes before any are folded
  Batch,        \* episodes folded at once
  MaxAnswers,   \* bound: requests answered without a task
  MaxFaults     \* bound: calls of the store that raise, recorders cut off by the end
                \* of their process, items that pass their time to live

VARIABLES
  items,     \* memory_items
  pc,        \* where each task, its recorder and its consolidation stand
  sent,      \* was the work of a task sent back once
  oldest,    \* the batch each consolidation read
  read,      \* and all it read
  answers, faults,
  written,   \* history: the outcomes that were stored, in the order they were
  expired    \* history: those of them whose time to live passed

vars == <<items, pc, sent, oldest, read, answers, faults, written, expired>>

-----------------------------------------------------------------------------
(* Items.  `of` names the outcomes an item tells: itself, or the ones folded
   into it; `born` orders episodes; an old one is past its time to live. *)

Manager == "manager"
Writers == Tasks \cup {Manager}
SpaceBy(w) == IF w = Manager THEN MainSpace ELSE SpaceOf[w]

WorkspaceBound == {"WORKSPACE", "PLAN", "EMPLOYEE_PRIVATE"}
Fading == {"WORKING", "EPISODIC"}

Item(by, scope, kind, of, born) ==
  [by |-> by, scope |-> scope, kind |-> kind, of |-> of, born |-> born, old |-> FALSE]

Init ==
  /\ items = {}
  /\ pc = [t \in Tasks |-> "new"]
  /\ sent = [t \in Tasks |-> FALSE]
  /\ oldest = [t \in Tasks |-> {}] /\ read = [t \in Tasks |-> {}]
  /\ answers = 0 /\ faults = 0
  /\ written = {} /\ expired = {}

-----------------------------------------------------------------------------
(* Reading: domain/memory/access.py, which every store applies.            *)

\* Fault: a query that names no plan is not compared with one.
VisibleUnlessNamed(item, query) ==
  /\ item.scope \in WorkspaceBound => SpaceBy(item.by) = query.space
  /\ item.scope \in query.scopes
  /\ item.scope = "EMPLOYEE_PRIVATE" =>
       item.by # Manager /\ EmployeeOf[item.by] = query.employee
  /\ item.scope = "PLAN" => query.plan \in {NoPlan, PlanOf[item.by]}
  /\ item.kind \in query.kinds
  /\ item.kind = "WORKING" => item.by = query.task
  /\ ~item.old

Visible(item, query) ==
  /\ item.scope \in WorkspaceBound => SpaceBy(item.by) = query.space
  /\ item.scope \in query.scopes
  /\ item.scope = "EMPLOYEE_PRIVATE" =>
       item.by # Manager /\ EmployeeOf[item.by] = query.employee
  /\ item.scope = "PLAN" => PlanOf[item.by] = query.plan
  /\ item.kind \in query.kinds
  /\ item.kind = "WORKING" => item.by = query.task
  /\ ~item.old

Recall(query) == {i \in items : Visible(i, query)}

AnyKind == {"WORKING", "EPISODIC", "SEMANTIC"}

\* ContextAssembler._recall: three scopes inside the workspace and one above it.
OfTask(t) ==
  [space |-> SpaceOf[t], scopes |-> WorkspaceBound \cup {"USER"}, kinds |-> AnyKind,
   employee |-> EmployeeOf[t], plan |-> PlanOf[t], task |-> t]

\* WorkspaceMemory.context_for.
OfManager ==
  [space |-> MainSpace, scopes |-> {"WORKSPACE", "USER"}, kinds |-> {"SEMANTIC", "EPISODIC"},
   employee |-> Manager, plan |-> NoPlan, task |-> Manager]

\* Consolidator.consolidate.
OfConsolidator(t) ==
  [space |-> SpaceOf[t], scopes |-> {"WORKSPACE"}, kinds |-> {"EPISODIC"},
   employee |-> Manager, plan |-> NoPlan, task |-> Manager]

-----------------------------------------------------------------------------
(* Writing.  MemoryRecorder.remember: a store that raises costs the item.   *)

Goto(t, at) == pc' = [pc EXCEPT ![t] = at]

\* One more thing goes wrong.
Fault == faults < MaxFaults /\ faults' = faults + 1
NoFault == UNCHANGED faults

Remember(item) ==
  \/ NoFault /\ items' = items \cup {item}
  \/ Fault /\ UNCHANGED items

\* What was recalled is read before the work is planned, and again if it was
\* sent back.
Assemble(t) ==
  /\ pc[t] \in {"new", "again"}
  /\ Goto(t, "working")
  /\ UNCHANGED <<items, sent, oldest, read, answers, faults, written, expired>>

\* note_step: the task's own notes, while it works.
NoteStep(t) ==
  /\ pc[t] = "working"
  /\ Remember(Item(t, "EMPLOYEE_PRIVATE", "WORKING", {}, 0))
  /\ UNCHANGED <<pc, sent, oldest, read, answers, written, expired>>

SendBack(t) ==
  /\ pc[t] = "working" /\ ~sent[t]
  /\ sent' = [sent EXCEPT ![t] = TRUE]
  /\ Goto(t, "again")
  /\ UNCHANGED <<items, oldest, read, answers, faults, written, expired>>

\* An episode counts as written once it is stored.
Store(outcome, scope, by) ==
  LET item == Item(by, scope, "EPISODIC", {outcome}, Cardinality(written) + 1)
  IN  \/ NoFault /\ items' = items \cup {item} /\ written' = written \cup {outcome}
      \/ Fault /\ UNCHANGED <<items, written>>

\* record_task: the outcome for the workspace, distilled or as it was said.
RecordOutcome(t) ==
  /\ pc[t] = "working"
  /\ Store(t, "WORKSPACE", t)
  /\ Goto(t, IF PlanOf[t] = NoPlan THEN "lesson" ELSE "plan")
  /\ UNCHANGED <<sent, oldest, read, answers, expired>>

\* The same outcome for the tasks of its plan.
RecordForPlan(t) ==
  /\ pc[t] = "plan"
  /\ Remember(Item(t, "PLAN", "EPISODIC", {t}, 0))
  /\ Goto(t, "lesson")
  /\ UNCHANGED <<sent, oldest, read, answers, written, expired>>

\* _lesson: nothing, if no tool was used.
RecordLesson(t) ==
  /\ pc[t] = "lesson"
  /\ \/ Remember(Item(t, "EMPLOYEE_PRIVATE", "SEMANTIC", {}, 0))
     \/ NoFault /\ UNCHANGED items
  /\ Goto(t, "prune")
  /\ UNCHANGED <<sent, oldest, read, answers, written, expired>>

\* record_preferences: about the person, whatever workspace they said it in.
RememberPreference ==
  /\ Remember(Item(Manager, "USER", "SEMANTIC", {}, 0))
  /\ UNCHANGED <<pc, sent, oldest, read, answers, written, expired>>

\* remember_answer: no task ran, and nothing is consolidated after it.
RememberAnswer ==
  /\ answers < MaxAnswers
  /\ answers' = answers + 1
  /\ Store(answers + 1, "WORKSPACE", Manager)
  /\ UNCHANGED <<pc, sent, oldest, read, expired>>

-----------------------------------------------------------------------------
(* Consolidator.consolidate. *)

\* The store's prune, in the workspace of the task.
Prune(t) ==
  /\ pc[t] = "prune"
  /\ \/ /\ NoFault /\ Goto(t, "read")
        /\ items' = {i \in items : SpaceBy(i.by) = SpaceOf[t] => ~i.old}
     \/ Fault /\ Goto(t, "done") /\ UNCHANGED items
  /\ UNCHANGED <<sent, oldest, read, answers, written, expired>>

\* At most twice the threshold is read, and which of more is the ranking's; the
\* oldest of what was read are summarised.
FirstOf(S, n) == {i \in S : Cardinality({j \in S : j.born < i.born}) < n}

ReadEpisodes(t) ==
  /\ pc[t] = "read"
  /\ \/ /\ NoFault
        /\ \E some \in SUBSET Recall(OfConsolidator(t)) :
             LET all == Recall(OfConsolidator(t))
             IN  /\ \/ some = all
                    \/ Cardinality(all) > 2 * Threshold
                 /\ some # all => Cardinality(some) = 2 * Threshold
                 /\ Cardinality(all) <= 2 * Threshold => some = all
                 /\ read' = [read EXCEPT ![t] = some]
                 /\ IF Cardinality(some) < Threshold
                      THEN Goto(t, "done") /\ UNCHANGED oldest
                      ELSE Goto(t, "summarise") /\ oldest' = [oldest EXCEPT ![t] = FirstOf(some, Batch)]
     \/ Fault /\ Goto(t, "done") /\ UNCHANGED <<oldest, read>>
  /\ UNCHANGED <<items, sent, answers, written, expired>>

\* A model that fails, or says nothing, leaves the episodes in place.
Summarise(t) ==
  /\ pc[t] = "summarise"
  /\ Goto(t, "fold") \/ Goto(t, "done")
  /\ UNCHANGED <<items, sent, oldest, read, answers, faults, written, expired>>

Folded(t) == Item(t, "WORKSPACE", "SEMANTIC", UNION {i.of : i \in oldest[t]}, 0)

\* The summary is written before the originals go.
Fold(t) ==
  /\ pc[t] = "fold"
  /\ \/ NoFault /\ items' = items \cup {Folded(t)} /\ Goto(t, "forget")
     \/ Fault /\ UNCHANGED items /\ Goto(t, "done")
  /\ UNCHANGED <<sent, oldest, read, answers, written, expired>>

\* Fault: all that was read goes, and not what was summarised.
ForgottenAll(t) == read[t]

Forgotten(t) == oldest[t]

Forget(t) ==
  /\ pc[t] = "forget"
  /\ \/ NoFault /\ items' = {i \in items : \A j \in Forgotten(t) : [i EXCEPT !.old = FALSE] # j}
     \/ Fault /\ UNCHANGED items
  /\ Goto(t, "done")
  /\ UNCHANGED <<sent, oldest, read, answers, written, expired>>

-----------------------------------------------------------------------------

\* `memory --prune` and `prune` of a command beside the server.
PruneByHand ==
  /\ items' = {i \in items : SpaceBy(i.by) = MainSpace => ~i.old}
  /\ UNCHANGED <<pc, sent, oldest, read, answers, faults, written, expired>>

\* TIME_TO_LIVE: notes and episodes pass it, nothing else does.
Age ==
  /\ Fault
  /\ \E i \in items :
       /\ i.kind \in Fading /\ ~i.old
       /\ items' = (items \ {i}) \cup {[i EXCEPT !.old = TRUE]}
       /\ expired' = IF i.scope = "WORKSPACE" THEN expired \cup i.of ELSE expired
  /\ UNCHANGED <<pc, sent, oldest, read, answers, written>>

\* The process of a recorder ends; what the task did is in its own row.
Kill(t) ==
  /\ Fault
  /\ pc[t] \notin {"new", "done"}
  /\ Goto(t, IF pc[t] = "working" THEN "again" ELSE "done")
  /\ UNCHANGED <<items, sent, oldest, read, answers, written, expired>>

Next ==
  \/ RememberPreference \/ RememberAnswer \/ PruneByHand \/ Age
  \/ \E t \in Tasks :
       \/ Assemble(t) \/ NoteStep(t) \/ SendBack(t)
       \/ RecordOutcome(t) \/ RecordForPlan(t) \/ RecordLesson(t)
       \/ Prune(t) \/ ReadEpisodes(t) \/ Summarise(t) \/ Fold(t) \/ Forget(t)
       \/ Kill(t)

Spec == Init /\ [][Next]_vars

-----------------------------------------------------------------------------
(* What holds. *)

\* An outcome that was stored is told by some item of its workspace until its
\* time to live passes, however many consolidations overlap, fail or are cut off
\* ("The other order loses the episodes and has nothing that replaced them").
NothingForgottenUntold ==
  \A outcome \in written \ expired :
    \E i \in items : i.scope = "WORKSPACE" /\ ~i.old /\ outcome \in i.of

\* What a task may be told of comes from its workspace or is about the person;
\* an outcome kept for a plan from a task of that plan, a lesson from a task of
\* the same employee, a note from itself; and the manager is told no task's
\* notes, lessons or plan (MemoryScope: "an access boundary, not a hint").
OwnMemoriesOnly ==
  /\ \A t \in Tasks : pc[t] \in {"new", "again"} =>
       \A i \in Recall(OfTask(t)) : i.scope # "USER" =>
         /\ SpaceBy(i.by) = SpaceOf[t]
         /\ i.scope = "PLAN" => PlanOf[t] # NoPlan /\ PlanOf[i.by] = PlanOf[t]
         /\ i.scope = "EMPLOYEE_PRIVATE" => EmployeeOf[i.by] = EmployeeOf[t]
         /\ i.kind = "WORKING" => i.by = t
  /\ \A i \in Recall(OfManager) :
       i.by = Manager \/ (i.scope = "WORKSPACE" /\ SpaceBy(i.by) = MainSpace)

-----------------------------------------------------------------------------
(* What the code says and does not keep. *)

\* An episode is in one summary: two consolidations that read before either
\* forgot fold the same batch twice.
FoldedOnce ==
  \A i, j \in items : i.kind = "SEMANTIC" /\ j.kind = "SEMANTIC" /\ i # j => i.of \cap j.of = {}

\* "The oldest batch is folded" (consolidation.py:14-15): of more episodes than
\* twice the threshold the ranking drops the old ones before they are sorted.
OldestGoFirst ==
  \A t \in Tasks : pc[t] = "fold" =>
    \A i \in Recall(OfConsolidator(t)) \ read[t] : \A j \in oldest[t] : i.born > j.born

\* Every task that ended is remembered: a kill between its last save and the
\* recorder leaves nothing that would record it.
EveryOutcomeIsWritten == \A t \in Tasks : pc[t] = "done" => t \in written
=============================================================================
