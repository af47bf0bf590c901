------------------------------- MODULE ToolCalls -------------------------------
(***************************************************************************)
(* The calls of tools that employees' models ask for: what each employee   *)
(* is offered, what its declaration and the risk of the call decide, the   *)
(* question to a person, and the run of the tool, over one directory that  *)
(* several tasks write in.  A tool of the file system runs in one piece;   *)
(* only a question, and what follows its answer, lets other tasks in       *)
(* between.  Refusals are counted in the transcript, which is saved at the *)
(* end of each step and survives a kill.                                   *)
(***************************************************************************)
EXTENDS Naturals, FiniteSets

CONSTANTS
  Tasks,         \* tasks under way at once
  Files,         \* paths inside the root
  Declarations,  \* employees: [allowed, policies]
  ServiceEffects,\* what a connected service's tool may have been classified as
  MaxCalls,      \* bound: calls of all tasks
  MaxKills       \* bound: kills

VARIABLES
  files,      \* the files that are there
  employee,   \* who carries each task
  effect,     \* the effect the service's tool was classified as
  approver,   \* is a way to ask a person configured
  registered, \* is the service's tool registered
  at,         \* where the loop of each task stands
  call,       \* the call a person is asked about: what the gate made of it
  refused,    \* refusals in the transcript of each task
  saved,      \* refusals in the transcript as it was last saved
  calls, kills,
  ran,        \* history: the calls that ran
  lost        \* history: the files written over

vars == <<files, employee, effect, approver, registered, at, call, refused, saved,
          calls, kills, ran, lost>>

Effects == {"READ", "WRITE", "EXECUTE", "DELETE", "SEND", "PUBLISH", "SPEND"}
Irreversible == {"DELETE", "SEND", "PUBLISH", "SPEND"}

Low == 0
Medium == 1
High == 2
RiskOf(e) == CASE e = "READ" -> Low [] e = "WRITE" -> Medium [] OTHER -> High
Highest(a, b) == IF a >= b THEN a ELSE b

ToolNames == {"fs.read", "fs.write", "fs.move", "code.run", "service"}

EffectOf(tool) ==
  CASE tool = "fs.read" -> "READ"
    [] tool \in {"fs.write", "fs.move"} -> "WRITE"
    [] tool = "code.run" -> "EXECUTE"
    [] OTHER -> effect

Reversible(tool) == tool # "code.run" /\ EffectOf(tool) \notin Irreversible

PossibleCalls ==
  [tool : {"fs.read", "code.run", "service"}]
  \cup [tool : {"fs.write"}, file : Files]
  \cup {c \in [tool : {"fs.move"}, from : Files, file : Files] : c.from # c.file}

Quiet == [what |-> [tool |-> "none"], told |-> FALSE]
RefusalLimit == 2

Init ==
  /\ files \in SUBSET Files
  /\ employee \in [Tasks -> Declarations]
  /\ effect \in ServiceEffects
  /\ approver \in BOOLEAN
  /\ registered = TRUE
  /\ at = [t \in Tasks |-> "model"]
  /\ call = [t \in Tasks |-> Quiet]
  /\ refused = [t \in Tasks |-> [n \in ToolNames |-> 0]] /\ saved = refused
  /\ calls = 0 /\ kills = 0
  /\ ran = {} /\ lost = {}

-----------------------------------------------------------------------------
(* What the gate makes of a call: how risky it is, and what should happen.  *)

\* Fault: the level the effect implies, whatever is there.
AssessedByEffect(c) == RiskOf(EffectOf(c.tool))

\* FileWriteTool.assess, FileMoveTool.assess: the destination is there, or not.
Assessed(c) == IF c.file \in files THEN High ELSE Low

\* resolve_risk: of a reversible tool the assessment wins, in both directions.
Risk(c) ==
  IF "file" \in DOMAIN c THEN Assessed(c)
  ELSE IF Reversible(c.tool) THEN RiskOf(EffectOf(c.tool))
  ELSE Highest(RiskOf(EffectOf(c.tool)), High)

Forbids(policy) ==
  CASE policy = "read_only" -> Effects \ {"READ"}
    [] policy = "no_spending" -> {"SPEND"}
    [] policy = "no_deleting" -> {"DELETE"}
    [] policy = "no_sending" -> {"SEND"}
    [] policy = "no_publishing" -> {"PUBLISH"}
    [] OTHER -> {}

\* no_irreversible_actions and approve_every_write ask; the threshold asks of all.
Asks(policy, c, risk) ==
  CASE policy = "no_irreversible_actions" -> ~Reversible(c.tool) \/ risk >= High
    [] policy = "approve_every_write" -> EffectOf(c.tool) # "READ"
    [] OTHER -> FALSE

\* Fault: what asks is looked at before what forbids.
EvaluateMildest(policies, c, risk) ==
  IF risk >= High \/ \E p \in policies : Asks(p, c, risk) THEN "REQUIRE_APPROVAL"
  ELSE IF \E p \in policies : EffectOf(c.tool) \in Forbids(p) THEN "DENY"
  ELSE "ALLOW"

\* The strictest of the decisions, whichever rule made it.
Evaluate(policies, c, risk) ==
  IF \E p \in policies : EffectOf(c.tool) \in Forbids(p) THEN "DENY"
  ELSE IF risk >= High \/ \E p \in policies : Asks(p, c, risk) THEN "REQUIRE_APPROVAL"
  ELSE "ALLOW"

\* ToolRegistry.get and list_specs: it is there, and this employee lists it.
Granted(t) == employee[t].allowed \ (IF registered THEN {} ELSE {"service"})

\* ApprovalGate.check: nobody to ask is no way to say yes.
Gate(t, c) ==
  LET decision == Evaluate(employee[t].policies, c, Risk(c))
  IN  IF decision = "REQUIRE_APPROVAL" /\ ~approver THEN "DENY" ELSE decision

\* refusals.withheld.
Withheld(t) == {n \in ToolNames : refused[t][n] >= RefusalLimit}

-----------------------------------------------------------------------------
(* The loop of a task. *)

AskModel(t) ==
  /\ at[t] = "model"
  /\ at' = [at EXCEPT ![t] = "calls"]
  /\ UNCHANGED <<files, employee, effect, approver, registered, call, refused, saved,
                 calls, kills, ran, lost>>

Refuse(t, c) == refused' = [refused EXCEPT ![t][c.tool] = @ + 1]

\* What the tool does to the directory when it runs, and what is lost by it.
Run(t, c, answered, told) ==
  LET works == IF c.tool = "fs.move" THEN c.from \in files ELSE "file" \in DOMAIN c
  IN  /\ files' = IF ~works THEN files
                  ELSE (files \ (IF c.tool = "fs.move" THEN {c.from} ELSE {})) \cup {c.file}
      /\ lost' = IF works /\ c.file \in files
                   THEN lost \cup {[answered |-> answered, told |-> told]} ELSE lost
      /\ ran' = ran \cup {[task |-> t, tool |-> c.tool, answered |-> answered,
                           kept |-> c.tool = "service" => registered,
                           withheld |-> c.tool \in Withheld(t)]}

\* Executor._invoke: refused by the registry or by a policy, run at once, or
\* parked on a person.
Invoke(t) ==
  /\ at[t] = "calls" /\ calls < MaxCalls
  /\ calls' = calls + 1
  /\ \E c \in PossibleCalls :
       \/ /\ c.tool \notin Granted(t) \/ Gate(t, c) = "DENY"
          /\ Refuse(t, c)
          /\ UNCHANGED <<files, at, call, ran, lost>>
       \/ /\ c.tool \in Granted(t) /\ Gate(t, c) = "ALLOW"
          /\ Run(t, c, FALSE, FALSE)
          /\ UNCHANGED <<at, call, refused>>
       \/ /\ c.tool \in Granted(t) /\ Gate(t, c) = "REQUIRE_APPROVAL"
          /\ call' = [call EXCEPT ![t] = [what |-> c, told |-> Risk(c) >= High]]
          /\ at' = [at EXCEPT ![t] = "asking"]
          /\ UNCHANGED <<files, refused, ran, lost>>
  /\ UNCHANGED <<employee, effect, approver, registered, saved, kills>>

\* A person answers; the status of the task is restored before the call goes on.
Approve(t) ==
  /\ at[t] = "asking"
  /\ at' = [at EXCEPT ![t] = "approved"]
  /\ UNCHANGED <<files, employee, effect, approver, registered, call, refused, saved,
                 calls, kills, ran, lost>>

Decline(t) ==
  /\ at[t] = "asking"
  /\ Refuse(t, call[t].what)
  /\ at' = [at EXCEPT ![t] = "calls"]
  /\ call' = [call EXCEPT ![t] = Quiet]
  /\ UNCHANGED <<files, employee, effect, approver, registered, saved, calls, kills, ran, lost>>

\* The tool that was looked up before the question runs, on what is there now.
RunApproved(t) ==
  /\ at[t] = "approved"
  /\ Run(t, call[t].what, TRUE, call[t].told)
  /\ at' = [at EXCEPT ![t] = "calls"]
  /\ call' = [call EXCEPT ![t] = Quiet]
  /\ UNCHANGED <<employee, effect, approver, registered, refused, saved, calls, kills>>

EndStep(t) ==
  /\ at[t] = "calls"
  /\ saved' = [saved EXCEPT ![t] = refused[t]]
  /\ at' = [at EXCEPT ![t] = "model"]
  /\ UNCHANGED <<files, employee, effect, approver, registered, call, refused, calls, kills,
                 ran, lost>>

\* The process is killed and its tasks resumed from what was saved.
Restart ==
  /\ kills < MaxKills
  /\ kills' = kills + 1
  /\ refused' = saved
  /\ at' = [t \in Tasks |-> "model"]
  /\ call' = [t \in Tasks |-> Quiet]
  /\ UNCHANGED <<files, employee, effect, approver, registered, saved, calls, ran, lost>>

\* A person disconnects the service, or connects it again.
Reconnect ==
  /\ registered' = ~registered
  /\ UNCHANGED <<files, employee, effect, approver, at, call, refused, saved, calls, kills,
                 ran, lost>>

Next ==
  \/ \E t \in Tasks : \/ AskModel(t) \/ Invoke(t) \/ Approve(t) \/ Decline(t)
                      \/ RunApproved(t) \/ EndStep(t)
  \/ Restart \/ Reconnect

Spec == Init /\ [][Next]_vars

-----------------------------------------------------------------------------
(* What the calls may never do, however many tasks share the directory.     *)

\* A file that was there is written over only by a call a person said yes to:
\* what FileWriteTool.assess saw is still so when the tool runs, or was asked
\* about ("Overwriting an existing file needs the user's confirmation").
LossesWereAnswered == \A l \in lost : l.answered

\* No call that ran was outside its employee's grant or forbidden by one of its
\* policies, and none of the effects that cannot be taken back ran without a
\* person's yes, whatever else the declaration says (domain/policies/rules.py).
DeclarationsHold ==
  \A r \in ran :
    /\ r.tool \in employee[r.task].allowed
    /\ \A p \in employee[r.task].policies : EffectOf(r.tool) \notin Forbids(p)
    /\ EffectOf(r.tool) \in Irreversible \cup {"EXECUTE"} => r.answered

-----------------------------------------------------------------------------
(* What the code says and does not keep.                                     *)

\* "Overwriting an existing file needs the user's confirmation" (filesystem.py:165-166):
\* the person who said yes to a call that writes over a file was told that it does.
\* With approve_every_write a question about a new file is open for as long as the
\* person takes, and another task may create the file meanwhile.
LossesWereTold == \A l \in lost : l.told

\* A tool refused twice "is no longer available" (executor.py:438-443): it is
\* not offered again, but a call of it is carried out like any other.
WithheldToolsStay == \A r \in ran : ~r.withheld

\* "A capability can now be removed while the process runs" (registry.py:27-33):
\* a call that was parked on a person runs on the tool it looked up before.
RemovedToolsStay == \A r \in ran : r.kept
================================================================================
