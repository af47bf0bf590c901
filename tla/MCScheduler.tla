----------------------------- MODULE MCScheduler -----------------------------
(* Standing instructions, and the store they stand in: its migrations and its move
   to another backend.  The three share no state: a behaviour is of one of them.

   Schedules: one every two ticks of the clock, one at the second tick of a day of
   three, and one on the end of an objective; or, for two loops, one every two ticks
   and two on the end of an objective.

   Migrations: on either backend, to and from nothing, the seventh revision (the
   manager is KAI), the fourteenth (Alethic, before the memory scopes) and the last.

   The move: an employee, two tasks of hers of which one is the other's parent,
   three events numbered by the store, a plan and three of its dependencies, copied
   two rows at a time to PostgreSQL. *)
EXTENDS Scheduler, TLC

CONSTANTS
  hourly, daily, follow,
  Parts,
  note, Backends, Targets, Notes, MaxCommands,
  Items, TableOf, Needs, Leading, Inserted, Edited2, There, Batch, MaxWrites, MaxFaults, MaxMoves

VARIABLES
  part, \* the one of the three that moves
  backend, db, safe, cmd, commands, cut, failed, undone,
  home, away, next, pointed, at, table, left, copied, checked, good, writes, faults, moves,
  problems, told, quiet, collided

schema == <<backend, db, safe, cmd, commands, cut, failed, undone>>
move == <<home, away, next, pointed, at, table, left, copied, checked, good, writes, faults,
          moves, problems, told, quiet, collided>>

EveryTwo == (hourly :> 2)
AtOne == (daily :> 1)
AtNoTime == [s \in {} |-> 0]

RowTable ==
  [x \in Items |->
     CASE x = "employee" -> "employees"
       [] x \in {"task", "retry"} -> "tasks"
       [] x \in {"one", "two", "three"} -> "task_events"
       [] x = "plan" -> "plans"
       [] OTHER -> "plan_task_dependencies"]

RowNeeds ==
  [x \in Items |->
     CASE x = "task" -> {"employee"}
       [] x = "retry" -> {"employee", "task"}
       [] x \in {"one", "two", "three"} -> {"task"}
       [] RowTable[x] = "plan_task_dependencies" -> {"plan"}
       [] OTHER -> {}]

RowKey == [x \in Items |-> IF RowTable[x] = "plan_task_dependencies" THEN "plan" ELSE x]
RowNumber == "one" :> 1 @@ "two" :> 2 @@ "three" :> 3

Migrated == INSTANCE Migrations WITH kills <- cut
Moved == INSTANCE Transfer WITH Number <- RowNumber, Edited <- Edited2

\* What alembic is run on, and the revisions it knows.
ASSUME HistoryAssumption ==
  Backends \subseteq {"sqlite", "postgresql"} /\ Targets \subseteq 0..Migrated!Last

\* A row of a table whose key is one column is found by that column.
ASSUME ItemsAssumption ==
  /\ IsFiniteSet(Items)
  /\ \A x, y \in Items :
       /\ TableOf[x] = TableOf[y] /\ Leading[x] = Leading[y]
       /\ ~Moved!Composite(TableOf[x])
       => x = y

\* Those that stand still stand at one of their beginnings.
AllInit ==
  /\ part \in Parts
  /\ Init /\ Migrated!Init /\ Moved!Init
  /\ part # "migrations" => backend = "sqlite"

AllNext ==
  \/ part = "scheduler" /\ Next /\ UNCHANGED <<part, schema, move>>
  \/ part = "migrations" /\ Migrated!Next /\ UNCHANGED <<part, vars, move>>
  \/ part = "transfer" /\ Moved!Next /\ UNCHANGED <<part, vars, schema>>

AllSpec ==
  /\ AllInit /\ [][AllNext]_<<part, vars, schema, move>>
  /\ \A p \in Loops : WF_vars(part = "scheduler" /\ Step(p))

\* DueIsPickedUp of the behaviours in which the scheduler is what moves.
SchedulesArePickedUp == part = "scheduler" => DueIsPickedUp

\* Migrations.HeadIsDeclared: the last revision is what the models declare.
HeadIsDeclared == Migrated!HeadIsDeclared

\* Migrations.IndexHoldsTheRows: the text index finds the memories there are, and is
\* missing only after a kill on SQLite.
IndexHoldsTheRows == Migrated!IndexHoldsTheRows

\* Migrations.OnlyAKillSpoils: no command is refused that was not preceded by a kill.
OnlyAKillSpoils == Migrated!OnlyAKillSpoils

\* Transfer.ErasedOnlyWhatArrived: what is erased here had arrived there.
ErasedOnlyWhatArrived == Moved!ErasedOnlyWhatArrived

\* Transfer.NumbersAreFresh: a moved store hands out numbers that are not in use.
NumbersAreFresh == Moved!NumbersAreFresh

\* Transfer.KeyOfSeveralColumnsArrived: so had, also after a copy that did not go through,
\* each row of a table whose key has several columns.
KeyOfSeveralColumnsArrived == Moved!KeyOfSeveralColumnsArrived

\* Transfer.CopyEndsWithTheSource: a copy ends with the source's version of every row.
CopyEndsWithTheSource == Moved!CopyEndsWithTheSource
=============================================================================
