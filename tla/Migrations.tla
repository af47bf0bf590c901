------------------------------ MODULE Migrations ------------------------------
(***************************************************************************)
(* The twenty-two migrations of the store, forwards and backwards, as the  *)
(* statements they issue, over a database that is written between them by  *)
(* the programs of its own day.  On PostgreSQL one command is one          *)
(* transaction.  On SQLite a migration is one, but its driver opens it     *)
(* only at the first statement that changes rows: what a migration did to  *)
(* the schema before that outlives a kill.  A CREATE INDEX is part of the  *)
(* statement of its table.                                                 *)
(***************************************************************************)
EXTENDS Schema, Naturals, Sequences

CONSTANTS
  Backends,    \* of "sqlite", "postgresql"
  Targets,     \* revisions a person asks for
  Notes,       \* memories that may be written
  MaxCommands, \* bound: commands
  MaxKills     \* bound: commands killed half-way

VARIABLES
  backend,
  db,       \* the database as its connection sees it
  safe,     \* what of it a kill leaves
  cmd,      \* the alembic command under way
  commands, kills,
  failed,   \* history: a statement was refused
  undone    \* history: a downgrade was killed on SQLite

vars == <<backend, db, safe, cmd, commands, kills, failed, undone>>

-----------------------------------------------------------------------------
(* Statements. *)

Create(t, key, refs, checks) == [op |-> "create", of |-> t, as |-> Table(key, refs, checks)]
Drop(t) == [op |-> "drop", of |-> t]
Add(t, c) == [op |-> "add", of |-> t, column |-> c]
Remove(t, c) == [op |-> "remove", of |-> t, column |-> c]
Rename(t, old, new) == [op |-> "rename", of |-> t, old |-> old, new |-> new]
Check(t, check, accepts) == [op |-> "check", of |-> t, check |-> check, accepts |-> accepts]
Copy(t) == [op |-> "copy", of |-> t]
IndexText(t) == [op |-> "index", of |-> t]
DropText(t) == [op |-> "unindex", of |-> t]
Fill == [op |-> "fill", of |-> "memory_items"]
Forget == [op |-> "forget", of |-> "memory_items"]
Seed == [op |-> "seed", of |-> "workspaces"]

\* batch_alter_table: a copy of the table with the other constraint takes its place.
Rebuild(b, t, check, accepts) ==
  (IF b = "sqlite" THEN <<Copy(t)>> ELSE <<>>) \o <<Check(t, check, accepts)>>

Anything == Scopes \cup Product \cup ActorKinds("kai")

-----------------------------------------------------------------------------
(* The history. *)

M001 ==
  [up |-> <<Create("employees", "id", {}, {}),
            Create("tasks", "id", {Cascades("tasks"), Refuses("employees")}, {"status"}),
            Create("task_events", "number", {Cascades("tasks")}, {})>>,
   down |-> <<Drop("task_events"), Drop("tasks"), Drop("employees")>>]

M002 == [up |-> <<Create("llm_calls", "number", {}, {})>>, down |-> <<Drop("llm_calls")>>]

M003 ==
  [up |-> <<Create("task_assignments", "id", {Cascades("tasks"), Refuses("employees")}, {})>>,
   down |-> <<Drop("task_assignments")>>]

M004 ==
  [up |-> <<Create("tool_calls", "number", {}, {}),
            Create("approvals", "id", {Cascades("tasks"), Refuses("employees")}, {"state"})>>,
   down |-> <<Drop("approvals"), Drop("tool_calls")>>]

M005 == [up |-> <<Add("tool_calls", "interface")>>, down |-> <<Remove("tool_calls", "interface")>>]

M006 ==
  [up |-> <<Create("objectives", "id", {}, {"status"}),
            Create("plans", "id", {Cascades("objectives")}, {"status"}),
            Create("plan_task_dependencies", "composite", {Cascades("plans")}, {})>>,
   down |-> <<Drop("plan_task_dependencies"), Drop("plans"), Drop("objectives")>>]

M007 ==
  [up |-> <<Create("memory_items", "id", {}, {"scope", "kind"}), IndexText("memory_items")>>,
   down |-> <<DropText("memory_items"), Drop("memory_items")>>]

\* Two columns of task_assignments name the manager; one statement stands for both.
Renames(old, new) == <<Rename("tasks", old, new), Rename("task_assignments", old, new)>>

M008 == [up |-> Renames("kai", "alethic"), down |-> Renames("alethic", "kai")]

M009 ==
  [up |-> <<Add("approvals", "expires_at"),
            Create("audit_log", "number", {}, {"actor_kind", "result"}),
            Create("workflow_runs", "id", {}, {"trigger", "status"})>>,
   down |-> <<Drop("workflow_runs"), Drop("audit_log"), Remove("approvals", "expires_at")>>]

M010 ==
  [up |-> <<Create("validation_runs", "id", {}, {"status"})>>, down |-> <<Drop("validation_runs")>>]

M011 ==
  [up |-> <<Create("schedules", "id", {}, {}), Create("events", "id", {}, {})>>,
   down |-> <<Drop("events"), Drop("schedules")>>]

M012 ==
  [up |-> <<Create("conversations", "id", {}, {}), Add("objectives", "conversation_id")>>,
   down |-> <<Remove("objectives", "conversation_id"), Drop("conversations")>>]

M013 ==
  [up |-> <<Create("integrations", "id", {}, {"kind", "status"})>>, down |-> <<Drop("integrations")>>]

M014 == [up |-> <<Create("workspaces", "id", {}, {}), Seed>>, down |-> <<Drop("workspaces")>>]

\* Fault: the rebuilt index is left to its triggers.
RescopedUnfilled(b, scopes) ==
  IF b = "sqlite"
  THEN <<DropText("memory_items")>> \o Rebuild(b, "memory_items", "scope", scopes)
       \o <<IndexText("memory_items")>>
  ELSE Rebuild(b, "memory_items", "scope", scopes)

\* On SQLite the index goes before the table it hangs on is rebuilt, and is filled
\* from the rows afterwards: they were copied under no trigger.
Rescoped(b, scopes) ==
  IF b = "sqlite"
  THEN <<DropText("memory_items")>> \o Rebuild(b, "memory_items", "scope", scopes)
       \o <<IndexText("memory_items"), Fill>>
  ELSE Rebuild(b, "memory_items", "scope", scopes)

\* Fault: the way back narrows the constraint over whatever rows there are.
M015Kept(b) == [up |-> Rescoped(b, Scopes), down |-> Rescoped(b, OldScopes)]

M015(b) == [up |-> Rescoped(b, Scopes), down |-> <<Forget>> \o Rescoped(b, OldScopes)]

M016 ==
  [up |-> <<Create("documents", "id", {}, {"status"}),
            Create("chunks", "id", {Cascades("documents")}, {}), IndexText("chunks")>>,
   down |-> <<DropText("chunks"), Drop("chunks"), Drop("documents")>>]

M017 == [up |-> <<Add("approvals", "tool")>>, down |-> <<Remove("approvals", "tool")>>]

M018 == [up |-> <<Create("secrets", "id", {}, {})>>, down |-> <<Drop("secrets")>>]

M019 == [up |-> <<Create("connections", "id", {}, {})>>, down |-> <<Drop("connections")>>]

M020 ==
  [up |-> <<Create("model_entries", "id", {}, {}), Create("task_defaults", "id", {}, {})>>,
   down |-> <<Drop("task_defaults"), Drop("model_entries")>>]

\* The words of PostgreSQL's index are cut another way; SQLite has no such index.
M021(b) ==
  LET again == IF b = "sqlite" THEN <<>>
               ELSE <<DropText("memory_items"), DropText("chunks"),
                      IndexText("memory_items"), IndexText("chunks")>>
  IN [up |-> again, down |-> again]

\* Fault: the second renaming passes over the assignments.
RenamedHalf(b, old, new) ==
  Rebuild(b, "audit_log", "actor_kind", Anything)
  \o <<Rename("audit_log", old, new)>>
  \o Rebuild(b, "audit_log", "actor_kind", ActorKinds(new))
  \o <<Rename("tasks", old, new)>>

\* _rename: the constraint that lists the old name steps aside.
Renamed(b, old, new) ==
  Rebuild(b, "audit_log", "actor_kind", Anything)
  \o <<Rename("audit_log", old, new)>>
  \o Rebuild(b, "audit_log", "actor_kind", ActorKinds(new))
  \o Renames(old, new)

M022(b) ==
  [up |-> Renamed(b, "alethic", "prometheus"), down |-> Renamed(b, "prometheus", "alethic")]

History ==
  [b \in Backends |->
     <<M001, M002, M003, M004, M005, M006, M007, M008, M009, M010, M011, M012, M013, M014,
       M015(b), M016, M017, M018, M019, M020, M021(b), M022(b)>>]

Last == 22

-----------------------------------------------------------------------------
(* What a statement does. *)

Absent == [scope |-> "none", text |-> 0]

\* `live` has the tables whose text index follows them, `text` what the index of
\* memory_items holds, `copies` the tables an unfinished rebuild left a copy of.
Empty ==
  [rev |-> 0, tables |-> <<>>, columns |-> {}, accepts |-> [scope |-> {}, actor_kind |-> {}],
   named |-> [t \in {"tasks", "task_assignments", "audit_log"} |-> "none"],
   memory |-> [n \in Notes |-> Absent], text |-> [n \in Notes |-> 0],
   live |-> {}, copies |-> {}, seeded |-> FALSE]

Texts(memory) == [n \in Notes |-> memory[n].text]

\* The values of the column the constraint is on.
Carried(d, check) ==
  IF check = "scope" THEN {d.memory[n].scope : n \in Notes} \ {"none"}
  ELSE {d.named["audit_log"]} \ {"none"}

Refused(d, s) ==
  LET there == s.of \in DOMAIN d.tables IN
  \/ s.op = "create" /\ there
  \/ s.op # "create" /\ ~there
  \/ s.op = "drop" /\ \E t \in DOMAIN d.tables \ {s.of} : \E r \in d.tables[t].refs : r.to = s.of
  \/ s.op = "add" /\ <<s.of, s.column>> \in d.columns
  \/ s.op = "remove" /\ <<s.of, s.column>> \notin d.columns
  \/ s.op = "copy" /\ s.of \in d.copies
  \/ s.op = "check" /\ ~(Carried(d, s.check) \subseteq s.accepts)
  \/ s.op = "rename" /\ s.of = "audit_log" /\ s.new \notin d.accepts.actor_kind

\* The first constraints of the two columns come with their tables.
Accepting(d, t) ==
  CASE t = "memory_items" -> [d.accepts EXCEPT !.scope = OldScopes]
    [] t = "audit_log" -> [d.accepts EXCEPT !.actor_kind = ActorKinds("alethic")]
    [] OTHER -> d.accepts

Created(d, s) ==
  [d EXCEPT !.tables = [t \in DOMAIN @ \cup {s.of} |-> IF t = s.of THEN s.as ELSE @[t]],
            !.accepts = Accepting(d, s.of)]

Dropped(d, s) ==
  [d EXCEPT !.tables = [t \in DOMAIN @ \ {s.of} |-> @[t]],
            !.columns = {c \in @ : c[1] # s.of},
            !.named = [t \in DOMAIN @ |-> IF t = s.of THEN "none" ELSE @[t]],
            !.memory = IF s.of = "memory_items" THEN [n \in Notes |-> Absent] ELSE @,
            !.accepts = CASE s.of = "memory_items" -> [@ EXCEPT !.scope = {}]
                          [] s.of = "audit_log" -> [@ EXCEPT !.actor_kind = {}]
                          [] OTHER -> @,
            !.live = @ \ {s.of},
            !.seeded = @ /\ s.of # "workspaces"]

Renaming(d, s) ==
  [d EXCEPT !.named[s.of] = IF @ = s.old THEN s.new ELSE @]

\* The copy takes the table's place, and the triggers of the old one go with it.
Checked(d, s) ==
  [d EXCEPT !.accepts = [@ EXCEPT ![s.check] = s.accepts],
            !.copies = @ \ {s.of},
            !.live = IF backend = "sqlite" THEN @ \ {s.of} ELSE @]

\* Triggers see what is written after them; a GIN index is built from the rows.
Indexed(d, s) ==
  [d EXCEPT !.live = @ \cup {s.of},
            !.text = IF backend = "postgresql" /\ s.of = "memory_items" THEN Texts(d.memory) ELSE @]

Unindexed(d, s) ==
  [d EXCEPT !.live = @ \ {s.of},
            !.text = IF s.of = "memory_items" THEN [n \in Notes |-> 0] ELSE @]

Forgotten(d) ==
  LET left == [n \in Notes |-> IF d.memory[n].scope \in {"USER", "SYSTEM"} THEN Absent ELSE d.memory[n]]
  IN [d EXCEPT !.memory = left,
               !.text = IF "memory_items" \in d.live
                        THEN [n \in Notes |-> IF left[n] = Absent THEN 0 ELSE @[n]] ELSE @]

Done(d, s) ==
  CASE s.op = "create" -> Created(d, s)
    [] s.op = "drop" -> Dropped(d, s)
    [] s.op = "add" -> [d EXCEPT !.columns = @ \cup {<<s.of, s.column>>}]
    [] s.op = "remove" -> [d EXCEPT !.columns = @ \ {<<s.of, s.column>>}]
    [] s.op = "rename" -> Renaming(d, s)
    [] s.op = "copy" -> [d EXCEPT !.copies = @ \cup {s.of}]
    [] s.op = "check" -> Checked(d, s)
    [] s.op = "index" -> Indexed(d, s)
    [] s.op = "unindex" -> Unindexed(d, s)
    [] s.op = "fill" -> [d EXCEPT !.text = Texts(d.memory)]
    [] s.op = "forget" -> Forgotten(d)
    [] s.op = "seed" -> [d EXCEPT !.seeded = TRUE]

\* The first of these opens SQLite's transaction; "check" there is an INSERT ..
\* SELECT into the copy.
ChangesRows(s) == s.op \in {"rename", "check", "fill", "forget", "seed"}

-----------------------------------------------------------------------------
(* alembic upgrade and downgrade. *)

Idle == [to |-> 0, at |-> 0, open |-> FALSE, on |-> FALSE]

Init ==
  /\ backend \in Backends
  /\ db = Empty /\ safe = Empty /\ cmd = Idle
  /\ commands = 0 /\ kills = 0 /\ failed = FALSE /\ undone = FALSE

Up == cmd.to > db.rev
Statements == IF Up THEN History[backend][db.rev + 1].up ELSE History[backend][db.rev].down

Command(to) ==
  /\ ~cmd.on /\ commands < MaxCommands /\ to # db.rev
  /\ cmd' = [to |-> to, at |-> 1, open |-> FALSE, on |-> TRUE]
  /\ commands' = commands + 1
  /\ UNCHANGED <<backend, db, safe, kills, failed, undone>>

Execute ==
  /\ cmd.on /\ db.rev # cmd.to /\ cmd.at <= Len(Statements)
  /\ LET s == Statements[cmd.at]
         open == cmd.open \/ ChangesRows(s) \/ backend = "postgresql" IN
     IF Refused(db, s)
     THEN db' = safe /\ cmd' = Idle /\ failed' = TRUE /\ UNCHANGED safe
     ELSE /\ db' = Done(db, s)
          /\ safe' = IF open THEN safe ELSE db'
          /\ cmd' = [cmd EXCEPT !.at = @ + 1, !.open = open]
          /\ UNCHANGED failed
  /\ UNCHANGED <<backend, commands, kills, undone>>

\* alembic_version follows; PostgreSQL commits once for the whole command.
Stamp ==
  /\ cmd.on /\ db.rev # cmd.to /\ cmd.at > Len(Statements)
  /\ db' = [db EXCEPT !.rev = IF Up THEN @ + 1 ELSE @ - 1]
  /\ safe' = IF backend = "sqlite" \/ db'.rev = cmd.to THEN db' ELSE safe
  /\ cmd' = IF db'.rev = cmd.to THEN Idle ELSE [cmd EXCEPT !.at = 1, !.open = FALSE]
  /\ UNCHANGED <<backend, commands, kills, failed, undone>>

Kill ==
  /\ cmd.on /\ kills < MaxKills
  /\ db' = safe /\ cmd' = Idle /\ kills' = kills + 1
  /\ undone' = (undone \/ (backend = "sqlite" /\ ~Up))
  /\ UNCHANGED <<backend, safe, commands, failed>>

-----------------------------------------------------------------------------
(* The programs of the day, between two commands. *)

\* What the manager was called by the program that came with a revision.
Manager == IF db.rev < 8 THEN "kai" ELSE IF db.rev < Last THEN "alethic" ELSE "prometheus"

WriteName(t) ==
  /\ ~cmd.on /\ t \in DOMAIN db.tables /\ db.named[t] = "none"
  /\ t = "audit_log" => Manager \in db.accepts.actor_kind
  /\ db' = [db EXCEPT !.named[t] = Manager]
  /\ safe' = db'
  /\ UNCHANGED <<backend, cmd, commands, kills, failed, undone>>

\* Remembering, remembering again and deleting, each followed by its trigger.
WriteMemory(n, scope, text) ==
  /\ ~cmd.on /\ "memory_items" \in DOMAIN db.tables
  /\ IF text = 0 THEN db.memory[n] # Absent /\ scope = "none"
     ELSE scope \in db.accepts.scope /\ db.memory[n].text # text
  /\ db' = [db EXCEPT !.memory[n] = [scope |-> scope, text |-> text],
                      !.text = IF "memory_items" \in db.live THEN [@ EXCEPT ![n] = text] ELSE @]
  /\ safe' = db'
  /\ UNCHANGED <<backend, cmd, commands, kills, failed, undone>>

Next ==
  \/ \E to \in Targets : Command(to)
  \/ Execute \/ Stamp \/ Kill
  \/ \E t \in {"tasks", "task_assignments", "audit_log"} : WriteName(t)
  \/ \E n \in Notes, scope \in {"none", "WORKSPACE", "USER"}, text \in 0..2 : WriteMemory(n, scope, text)

Spec == Init /\ [][Next]_vars

-----------------------------------------------------------------------------
(* Properties. *)

TypeOK ==
  /\ db.rev \in 0..Last /\ safe.rev \in 0..Last
  /\ DOMAIN db.tables \subseteq DOMAIN Declared
  /\ commands \in 0..MaxCommands /\ kills \in 0..MaxKills /\ failed \in BOOLEAN
  /\ undone \in BOOLEAN

\* However a database came to the last revision - through downgrades, killed upgrades
\* and second attempts - its tables, keys, foreign keys, constraints and later
\* columns are the ones the models declare, and no row names the manager in a way
\* the enums of today cannot read.
HeadIsDeclared ==
  db.rev = Last /\ ~cmd.on /\ ~undone =>
    /\ db.tables = Declared /\ db.columns = DeclaredColumns
    /\ db.accepts = DeclaredValues /\ db.live = DeclaredIndexes /\ db.seeded
    /\ \A t \in DOMAIN db.named : db.named[t] \in {"none", "prometheus"}

\* The text index of the memories, where there is one, finds every memory under its
\* present words and none that is gone: over rows a migration copied, and over what a
\* killed command left.  A table of memories is without its index only on SQLite and
\* only after a kill (see IndexSurvives).
IndexHoldsTheRows ==
  ~cmd.on =>
    /\ "memory_items" \in db.live => db.text = Texts(db.memory)
    /\ "memory_items" \in DOMAIN db.tables \ db.live => backend = "sqlite" /\ kills > 0

\* A command is refused by the database only after an earlier one was killed, and
\* then only on SQLite, where half a migration may stay: going back, writing rows
\* of any kind and going forwards again never is.
OnlyAKillSpoils == failed => kills > 0 /\ backend = "sqlite"

\* Not so (SQLite): a migration killed after its first CREATE TABLE leaves the table
\* behind, and the next `alembic upgrade head` - which start.sh issues on every
\* start - is refused for ever.
UpgradesCanBeRepeated == ~failed

\* Not so (SQLite): a rebuild killed after its first statements leaves the memories in
\* their table and no index to find them by; what is written then is not indexed, and
\* the next upgrade is refused if the copy was there already.
IndexSurvives ==
  ~cmd.on /\ db.rev >= 7 /\ "memory_items" \in DOMAIN db.tables => "memory_items" \in db.live

\* Not so (SQLite): a downgrade killed after a DROP TABLE has lost the table at a
\* revision that has it, and going forwards again reaches the last one without it.
HeadIsWhole == db.rev = Last /\ ~cmd.on => db.tables = Declared
=============================================================================
