----------------------------- MODULE Validation -----------------------------
(***************************************************************************)
(* `prometheus validate`: declared requests made of the real platform, one *)
(* after another, each judged by what the platform wrote down and by the   *)
(* files it left (ValidationHarness.run_scenario).                         *)
(*                                                                         *)
(* Abstracted: every scenario names the same file, of which the            *)
(* declaration says what must be in it; phrases of the answer, ceilings    *)
(* and head counts would be further checks of the same kind; what is       *)
(* recalled and what an exception says are chosen when they are looked at. *)
(***************************************************************************)
EXTENDS Naturals, Sequences, FiniteSets, SequencesExt

CONSTANTS
  Order,        \* the declared scenarios, as list_all sorts them
  Declared,     \* the Scenario of each name
  Tools,
  Errors,       \* what from_error makes of the exceptions that may leave a door
  Guarded,      \* tools the gate asks a person about
  Writer,       \* the tool that writes files
  AuditLimit,   \* how many records of a task recent() returns
  HistoryLimit, \* how many runs the report reads
  Width,        \* tasks of a plan that run together
  MaxAttempts, MaxCalls, MaxRuns, MaxCommands \* bounds

VARIABLES
  queue,     \* the scenarios the command has still to run
  stage,     \* where run_scenario is with the first of them
  allowed,   \* DeclaredApprover._allowed
  file,      \* the expected file, in the root of the first workspace
  before,    \* the mark _fingerprint took of it; 0 when it was not there
  tries,     \* the tasks the request became, the replaced ones too, each by a number
  result,    \* what the door handed back
  history,   \* the validation_runs rows, oldest first
  truth,     \* history: what was so of each of those runs
  rewritten, \* history: who has written the file since the mark was taken
  started    \* commands given

volatile == <<queue, stage, allowed, before, tries, result>>
vars == <<volatile, file, history, truth, rewritten, started>>

Names == ToSet(Order)
Doors == {"OBJECTIVE", "TASK", "WORKFLOW"}
Kinds == {"NONE", "PLANNING", "TOOL", "MEMORY", "MODEL", "NEEDED_APPROVAL", "EXPECTATION",
          "BUDGET", "ENVIRONMENT", "UNKNOWN", "MISSING_CAPABILITY", "COMPUTER_USE"}
Absent == [there |-> FALSE, mark |-> 0, says |-> FALSE]
NoResult == [succeeded |-> FALSE, listed |-> {}, error |-> "NONE"]

\* A call as the audit has it, and what was declared when it was allowed or refused.
Entries == [tool : Tools, result : {"ALLOWED", "SUCCESS", "FAILURE", "DENIED"},
            declared : SUBSET Tools]

Now == Declared[Head(queue)]

TypeOK ==
  /\ queue \in Seq(Names)
  /\ stage \in {"idle", "prepared", "asking", "gathering"}
  /\ allowed \in SUBSET Tools
  /\ file \in [there : BOOLEAN, mark : Nat, says : BOOLEAN]
  /\ before \in Nat
  /\ DOMAIN tries \subseteq 1..MaxAttempts
  /\ \A i \in DOMAIN tries :
       /\ tries[i].state \in {"running", "ended", "replaced", "left"}
       /\ tries[i].pending \in SUBSET Entries /\ Cardinality(tries[i].pending) <= 1
       /\ tries[i].log \in Seq(Entries)
  /\ result.listed \in SUBSET (DOMAIN tries) /\ result.error \in Kinds
  /\ history \in Seq([scenario : Names, status : {"PASSED", "FAILED", "SKIPPED"},
                      failure : Kinds])

Init ==
  /\ queue = << >> /\ stage = "idle" /\ allowed = {}
  /\ file = Absent /\ before = 0
  /\ tries = << >> /\ result = NoResult
  /\ history = << >> /\ truth = << >> /\ rewritten = {}
  /\ started = 0

-----------------------------------------------------------------------------
(* What the recorded runs say of a scenario *)

Latest(n, rows) == SubSeq(rows, IF Len(rows) > n THEN Len(rows) - n + 1 ELSE 1, Len(rows))
Recent == Latest(HistoryLimit, history)
\* reliability_of, as far as the rows that are read go back.
Passes(s) == {n \in DOMAIN Recent : Recent[n].scenario = s /\ Recent[n].status = "PASSED"}

\* A scenario that has passed here is expected to keep passing.
InRegressionSet(s) == Passes(s) # {} \/ Declared[s].regression

-----------------------------------------------------------------------------
(* The command *)

In(state) == {i \in DOMAIN tries : tries[i].state = state}

\* `validate`, `validate <name>`, `validate --regression`.
Choose(chosen) ==
  /\ queue = << >> /\ started < MaxCommands
  /\ chosen # << >>
  /\ queue' = chosen
  /\ started' = started + 1
  /\ UNCHANGED <<stage, allowed, before, tries, result, file, history, truth, rewritten>>

\* What is left of a run that ended: tasks nobody waits for, until the process ends.
Leave(rest) ==
  /\ queue' = rest
  /\ stage' = "idle"
  /\ before' = 0 /\ result' = NoResult /\ rewritten' = {}
  /\ tries' = [i \in IF rest = << >> THEN {} ELSE In("left") |-> tries[i]]

\* A machine that has not what the scenario needs says so, and runs nothing.
Skip ==
  /\ stage = "idle" /\ queue # << >> /\ Now.unmet /\ Len(history) < MaxRuns
  /\ history' = Append(history, [scenario |-> Head(queue), status |-> "SKIPPED",
                                 failure |-> "NONE"])
  /\ truth' = Append(truth, [wrote |-> {}, broke |-> FALSE, left |-> FALSE])
  /\ Leave(Tail(queue))
  /\ UNCHANGED <<allowed, file, started>>

-----------------------------------------------------------------------------
(* Before the request *)

\* Modification times are only compared: the least one that is not in use.
Stamp == CHOOSE m \in 1..3 : m \notin {file.mark, before}

\* What the scenario says must not be there is removed, then its files are written;
\* its documents are added meanwhile.
Prepare ==
  /\ stage = "idle" /\ queue # << >> /\ ~Now.unmet /\ Len(history) < MaxRuns
  /\ stage' = "prepared"
  /\ file' = IF Now.seed THEN [there |-> TRUE, mark |-> Stamp, says |-> TRUE]
             ELSE IF Now.reset THEN Absent ELSE file
  /\ UNCHANGED <<queue, allowed, before, tries, result, history, truth, rewritten, started>>

\* Nothing catches what goes wrong with a directory, a document or a row: the
\* command ends with it, and the process, and the rest of the set is not run.
Abandon ==
  /\ stage \in {"idle", "prepared", "gathering"} /\ queue # << >>
  /\ Leave(<< >>)
  /\ allowed' = {}
  /\ UNCHANGED <<file, history, truth, started>>

\* _fingerprint, and the scenario's answers put in front of the gate.
TakeMarks ==
  /\ stage = "prepared"
  /\ stage' = "asking"
  /\ before' = IF file.there THEN file.mark ELSE 0
  /\ rewritten' = {}
  /\ allowed' = Now.approve
  /\ UNCHANGED <<queue, tries, result, file, history, truth, started>>

-----------------------------------------------------------------------------
(* The platform at work *)

Task == [state |-> "running", place |-> Now.place, pending |-> {}, log |-> << >>]

\* The request becomes one task more.
Unused == 1..MaxAttempts \ DOMAIN tries
WithOneMore(old) ==
  LET new == CHOOSE i \in Unused : TRUE
  IN  [i \in DOMAIN old \cup {new} |-> IF i = new THEN Task ELSE old[i]]

\* A task of the request.  A named employee is given one; a process or a plan has
\* several, of which a plan's may run together.
Begin ==
  /\ stage = "asking" /\ Unused # {}
  /\ CASE Now.door = "TASK" -> In("running") \cup In("ended") \cup In("replaced") = {}
       [] Now.door = "WORKFLOW" -> In("running") = {}
       [] OTHER -> Cardinality(In("running")) < Width
  /\ tries' = WithOneMore(tries)
  /\ UNCHANGED <<queue, stage, allowed, before, result, file, history, truth, rewritten,
                 started>>

Working == In("running") \cup In("left")

\* What the scenario that is being asked declares a yes to.
Answering == {t \in Tools : stage = "asking" /\ t \in Now.approve}

\* A task is about to call a tool, also one nobody waits for.  The gate asks about a
\* guarded one: a no is written down, a yes saved, and the call is made some awaits
\* later.
Ask(i, tool) ==
  /\ i \in Working /\ tries[i].pending = {} /\ Len(tries[i].log) < MaxCalls
  /\ LET call(answer) == [tool |-> tool, result |-> answer, declared |-> Answering]
     IN  tries' = IF tool \in Guarded \ allowed
                  THEN [tries EXCEPT ![i].log = Append(@, call("DENIED"))]
                  ELSE [tries EXCEPT ![i].pending = {call("ALLOWED")}]
  /\ UNCHANGED <<queue, stage, allowed, file, before, result, history, truth, rewritten,
                 started>>

\* The tool runs, with or without success, whatever has been withdrawn meanwhile.
Run(i, outcome) ==
  \E call \in tries[i].pending :
    /\ i \in Working
    /\ tries' = [tries EXCEPT ![i].pending = {},
                             ![i].log = Append(@, [call EXCEPT !.result = outcome])]
    /\ IF call.tool = Writer /\ outcome = "SUCCESS" /\ tries[i].place = "default"
       THEN /\ \E says \in BOOLEAN : file' = [there |-> TRUE, mark |-> Stamp, says |-> says]
            /\ rewritten' = rewritten \cup {tries[i].state}
       ELSE UNCHANGED <<file, rewritten>>
    /\ UNCHANGED <<queue, stage, allowed, before, result, history, truth, started>>

End(i) ==
  /\ stage = "asking" /\ i \in In("running") /\ tries[i].pending = {}
  /\ tries' = [tries EXCEPT ![i].state = "ended"]
  /\ UNCHANGED <<queue, stage, allowed, before, result, file, history, truth, rewritten,
                 started>>

\* A planned task that failed is tried again as a new task, as is a workflow's
\* step; a revision of the plan replaces all of them.
Replace(i) ==
  /\ stage = "asking" /\ Now.door # "TASK"
  /\ i \in In("ended") /\ Unused # {}
  /\ tries' = WithOneMore([tries EXCEPT ![i].state = "replaced"])
  /\ UNCHANGED <<queue, stage, allowed, before, result, file, history, truth, rewritten,
                 started>>

\* The door hands back the last outcome of each planned task, or of each step.
Answer(succeeded) ==
  /\ stage = "asking" /\ In("running") = {}
  /\ Now.door = "TASK" => In("ended") # {}
  /\ stage' = "gathering"
  /\ result' = [succeeded |-> succeeded, listed |-> In("ended"), error |-> "NONE"]
  /\ allowed' = {}
  /\ UNCHANGED <<queue, before, tries, file, history, truth, rewritten, started>>

\* An exception leaves the door, out of one of the tasks at work when there are any.
\* gather() does not stop the others of the wave: they stay at work.
Leaving(who, kind) ==
  /\ stage = "asking"
  /\ IF who = {} THEN In("running") = {} ELSE who \subseteq In("running")
  /\ stage' = "gathering"
  /\ result' = [NoResult EXCEPT !.error = kind]
  /\ tries' = [i \in DOMAIN tries |->
                 CASE i \in who -> [tries[i] EXCEPT !.state = "ended", !.pending = {}]
                   [] i \in In("running") \ who -> [tries[i] EXCEPT !.state = "left"]
                   [] OTHER -> tries[i]]

\* Fault: the answers are withdrawn only when the door returns.
RaiseConsenting(who, kind) ==
  /\ Leaving(who, kind)
  /\ UNCHANGED <<queue, allowed, before, file, history, truth, rewritten, started>>

\* The answers are withdrawn with the door's exception.
Raise(who, kind) ==
  /\ Leaving(who, kind)
  /\ allowed' = {}
  /\ UNCHANGED <<queue, before, file, history, truth, rewritten, started>>

-----------------------------------------------------------------------------
(* The evidence and the verdict *)

Calls(which, outcome) ==
  {t \in Tools : \E i \in which : \E c \in ToSet(tries[i].log) :
                   c.tool = t /\ c.result = outcome}

\* The audit is read in the first workspace, the latest records of each task.
Denied ==
  {t \in Tools : \E i \in result.listed :
     /\ tries[i].place = "default"
     /\ \E c \in ToSet(Latest(AuditLimit, tries[i].log)) :
          c.tool = t /\ c.result = "DENIED"}

\* Fault: what is there is what this run produced.
FilesThere == file.there

\* _files: only what this run touched.
Files == file.there /\ (before = 0 \/ file.mark # before)

\* Every expectation is looked at, also after one has failed.
Failed(s) ==
  {c \in {"finished", "file", "refused", "forbidden"} :
     \/ c = "finished" /\ Declared[s].must /\ ~result.succeeded
     \/ c = "file" /\ Declared[s].file /\ ~(Files /\ file.says)
     \/ c = "refused" /\ ~(Declared[s].refused \subseteq Denied)
     \/ c = "forbidden" /\ Declared[s].forbidden \cap Calls(result.listed, "SUCCESS") # {}}

\* Why the run is not a pass, in the order of certainty.
Classify(s, recalled) ==
  IF result.error # "NONE" THEN result.error
  ELSE IF Failed(s) = {} THEN "NONE"
  ELSE IF Denied \ (Declared[s].refused \cup Declared[s].forbidden) # {} THEN "NEEDED_APPROVAL"
  ELSE IF Declared[s].memory /\ ~recalled THEN "MEMORY"
  ELSE IF Calls(result.listed, "FAILURE") # {} THEN "TOOL"
  ELSE IF \A i \in result.listed : \A c \in ToSet(tries[i].log) : c.result = "DENIED"
       THEN "PLANNING"
  ELSE IF ~result.succeeded THEN "MODEL" ELSE "EXPECTATION"

\* outcome_of, and the row.
Conclude(recalled) ==
  /\ stage = "gathering"
  /\ LET s == Head(queue)
         failure == Classify(s, recalled)
         passed == failure = "NONE" /\ Failed(s) = {}
         mine == DOMAIN tries \ In("left")
     IN  /\ history' = Append(history, [scenario |-> s, failure |-> failure,
                                        status |-> IF passed THEN "PASSED" ELSE "FAILED"])
         /\ truth' = Append(truth,
                       [wrote |-> rewritten, left |-> In("left") # {},
                        broke |-> Declared[s].forbidden \cap Calls(mine, "SUCCESS") # {}])
  /\ Leave(Tail(queue))
  /\ UNCHANGED <<allowed, file, started>>

\* The process dies; the next one was never told who would have been there.
Kill ==
  /\ queue # << >>
  /\ Leave(<< >>)
  /\ allowed' = {}
  /\ UNCHANGED <<file, history, truth, started>>

Next ==
  \/ Choose(Order) \/ Choose(SelectSeq(Order, InRegressionSet))
  \/ \E s \in Names : Choose(<<s>>)
  \/ Skip \/ Prepare \/ Abandon \/ TakeMarks \/ Begin
  \/ \E i \in DOMAIN tries :
       \/ End(i) \/ Replace(i)
       \/ \E t \in Tools : Ask(i, t)
       \/ \E o \in {"SUCCESS", "FAILURE"} : Run(i, o)
  \/ \E b \in BOOLEAN : Answer(b) \/ Conclude(b)
  \/ \E k \in Errors : Raise({}, k) \/ \E i \in DOMAIN tries : Raise({i}, k)
  \/ Kill

Spec == Init /\ [][Next]_vars

-----------------------------------------------------------------------------
(* What holds *)

\* A run that passed with a file to show wrote it, or a task an earlier run left at
\* work did so meanwhile: neither the scenario's own setup nor what a run that is over
\* left there is taken for its work ("A file that was already there is not evidence
\* that this run produced it", harness.py:478-480).
PassesAreEarned ==
  \A n \in DOMAIN history :
    history[n].status = "PASSED" /\ Declared[history[n].scenario].file =>
      \/ "running" \in truth[n].wrote
      \/ "left" \in truth[n].wrote /\ \E m \in 1..(n - 1) : truth[m].left

\* Whatever runs a guarded tool, or holds a yes to it, was answered while a scenario
\* that declares a yes to that tool was being asked: nobody is answered after it, also
\* not the tasks it left at work when it ended in an exception ("Anything not named is
\* refused, because a suite where silence means yes is a suite that stops noticing
\* when the gate breaks", approver.py:15-17).
ConsentIsDeclared ==
  \A i \in DOMAIN tries : \A c \in ToSet(tries[i].log) \cup tries[i].pending :
    c.tool \in Guarded /\ c.result # "DENIED" => c.tool \in c.declared

-----------------------------------------------------------------------------
(* What the documentation says and the code does not *)

\* harness.py:493, "and only if this run touched them": the mark tells that somebody
\* did, also a task that an earlier run left at work.
CreditedWhereDue ==
  \A n \in DOMAIN history :
    history[n].status = "PASSED" /\ Declared[history[n].scenario].file =>
      "running" \in truth[n].wrote

\* approver.py:14, "applies for exactly one run": a yes is given before the tool runs,
\* and the run may have ended in between; and the tasks it left at work are answered
\* like those of the scenario that follows it.
ConsentEndsWithTheRun ==
  [][\A i \in DOMAIN tries \cap DOMAIN tries' :
       tries'[i].log # tries[i].log /\ Last(tries'[i].log).tool \in Guarded
         /\ Last(tries'[i].log).result # "DENIED" =>
         stage = "asking" /\ tries[i].state = "running"]_vars

\* scenario.py:101, "Tools that must not have run successfully, whoever allowed
\* them": a task that was tried again is not among those the evidence is read of.
ForbiddenNeverRan ==
  \A n \in DOMAIN history : history[n].status = "PASSED" => ~truth[n].broke

\* cli/main.py:886, "a scenario that has passed here has earned its place" in the
\* regression set: until as many runs of any scenario follow as are read.
RegressionIsKept ==
  \A n \in DOMAIN history :
    history[n].status = "PASSED" => InRegressionSet(history[n].scenario)

\* harness.py:440, "The audit is the only place this is": of a request made in
\* another workspace it is not asked there.
RefusalsAreSeen == stage = "gathering" => Denied = Calls(result.listed, "DENIED")
=============================================================================
