-------------------------------- MODULE Schema --------------------------------
(***************************************************************************)
(* The tables of the store as the program declares them, kept to what the  *)
(* modules above tell apart: how a row of a table is found by its key,     *)
(* which tables it refers to and what becomes of it when the row it refers *)
(* to is deleted, the names of its CHECK constraints and, for the two that *)
(* changed since, the values they accept, and the columns a table gained   *)
(* after it was made.                                                      *)
(***************************************************************************)
EXTENDS FiniteSets

\* The key of a table: one text column, a number the store hands out, or several
\* columns together.
Keys == {"id", "number", "composite"}

\* FOREIGN KEY ... ON DELETE CASCADE, and a foreign key that says nothing, which
\* refuses the deletion.
Cascades(t) == [to |-> t, on |-> "cascade"]
Refuses(t) == [to |-> t, on |-> "refuse"]

Table(key, refs, checks) == [key |-> key, refs |-> refs, checks |-> checks]

\* The names of the manager: KAI, then Alethic, then Prometheus.
Product == {"kai", "alethic", "prometheus"}
ActorKinds(manager) == {"user", manager, "employee", "system"}
OldScopes == {"WORKSPACE", "PLAN", "EMPLOYEE_PRIVATE"}
Scopes == OldScopes \cup {"USER", "SYSTEM"}

WorkTables ==
  [employees |-> Table("id", {}, {}),
   tasks |-> Table("id", {Cascades("tasks"), Refuses("employees")}, {"status"}),
   task_events |-> Table("number", {Cascades("tasks")}, {})]

CallTables ==
  [llm_calls |-> Table("number", {}, {}),
   task_assignments |-> Table("id", {Cascades("tasks"), Refuses("employees")}, {}),
   tool_calls |-> Table("number", {}, {}),
   approvals |-> Table("id", {Cascades("tasks"), Refuses("employees")}, {"state"})]

ObjectiveTables ==
  [objectives |-> Table("id", {}, {"status"}),
   conversations |-> Table("id", {}, {}),
   plans |-> Table("id", {Cascades("objectives")}, {"status"}),
   plan_task_dependencies |-> Table("composite", {Cascades("plans")}, {})]

\* A memory outlives what it is about: it refers to nothing.
MemoryTables == [memory_items |-> Table("id", {}, {"scope", "kind"})]

\* Records outlive what they describe.
RecordTables ==
  [audit_log |-> Table("number", {}, {"actor_kind", "result"}),
   workflow_runs |-> Table("id", {}, {"trigger", "status"}),
   validation_runs |-> Table("id", {}, {"status"})]

StandingTables ==
  [schedules |-> Table("id", {}, {}),
   events |-> Table("id", {}, {}),
   workspaces |-> Table("id", {}, {})]

IntegrationTables == [integrations |-> Table("id", {}, {"kind", "status"})]

DocumentTables ==
  [documents |-> Table("id", {}, {"status"}),
   chunks |-> Table("id", {Cascades("documents")}, {})]

ConnectionTables ==
  [connections |-> Table("id", {}, {}),
   model_entries |-> Table("id", {}, {}),
   task_defaults |-> Table("id", {}, {}),
   secrets |-> Table("id", {}, {})]

\* Base.metadata.tables.
Declared ==
  LET groups == {WorkTables, CallTables, ObjectiveTables, MemoryTables, RecordTables,
                 StandingTables, IntegrationTables, DocumentTables, ConnectionTables}
  IN  [t \in UNION {DOMAIN g : g \in groups} |->
         (CHOOSE g \in groups : t \in DOMAIN g)[t]]

\* Columns of the models that no CREATE TABLE of the history carries.
DeclaredColumns ==
  {<<"tool_calls", "interface">>, <<"approvals", "expires_at">>, <<"approvals", "tool">>,
   <<"objectives", "conversation_id">>}

\* What the two constraints built from an enum of today accept.
DeclaredValues == [scope |-> Scopes, actor_kind |-> ActorKinds("prometheus")]

\* The text indexes, built after the tables on either backend.
DeclaredIndexes == {"memory_items", "chunks"}

\* sorted_tables: a table comes after those its rows refer to.
Parents(t) == {r.to : r \in Declared[t].refs} \ {t}
=============================================================================
