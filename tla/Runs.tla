-------------------------------- MODULE Runs --------------------------------
(***************************************************************************)
(* The interface's register of live work: application/interface/runs.py.   *)
(* Tasks a person starts are coroutines the register knows; the tasks of   *)
(* an objective are run inside Prometheus's own coroutine, which it knows  *)
(* as one.  `row` is the task repository, the rest is in memory.           *)
(*                                                                         *)
(* Abstracted: what a run does.  Its working statuses are all RUNNING, and *)
(* it saves the copy of the task it holds, whatever the row says.          *)
(***************************************************************************)
EXTENDS TaskStates

CONSTANTS
  Direct,     \* tasks a person starts
  Delegated,  \* tasks an objective's supervisor starts
  Objectives,
  Owner       \* the objective of each delegated task

ASSUME RunsAssumption ==
  /\ Direct \cap Delegated = {}
  /\ Owner \in [Delegated -> Objectives]

Tasks == Direct \cup Delegated

VARIABLES
  row,        \* status of the saved task, ABSENT before it is submitted
  loop,       \* where the coroutine that carries the task is
  running,    \* Runs._running
  objective,  \* the coroutines in Runs._objectives, and what became of them
  signal,     \* InMemoryCancellations
  cancelling, \* Runs.cancel calls between their awaits
  closing,    \* aclose: not begun, waiting its grace, over
  asked       \* history: tasks a person asked to stop

vars == <<row, loop, running, objective, signal, cancelling, closing, asked>>

Places == {"none", "submitted", "working", "parked", "ended", "gone"}

TypeOK ==
  /\ row \in [Tasks -> Statuses \cup {"ABSENT"}]
  /\ loop \in [Tasks -> Places]
  /\ running \in SUBSET Tasks
  /\ objective \in [Objectives -> {"none", "thinking", "over", "stopped"}]
  /\ signal \in SUBSET Tasks
  /\ cancelling \in [Tasks -> {"none", "read", "saving"}]
  /\ closing \in {"no", "grace", "closed"}
  /\ asked \in SUBSET Tasks

Init ==
  /\ row = [t \in Tasks |-> "ABSENT"]
  /\ loop = [t \in Tasks |-> "none"]
  /\ running = {}
  /\ objective = [o \in Objectives |-> "none"]
  /\ signal = {}
  /\ cancelling = [t \in Tasks |-> "none"]
  /\ closing = "no"
  /\ asked = {}

Moves(t, status, place) ==
  /\ row' = [row EXCEPT ![t] = status]
  /\ loop' = [loop EXCEPT ![t] = place]

-----------------------------------------------------------------------------
(* Starting *)

\* TaskRunner.submit, or TaskRunner.start for a delegated task: the row first.
Submit(t) ==
  /\ closing = "no" /\ loop[t] = "none"
  /\ t \in Delegated => objective[Owner[t]] = "thinking"
  /\ Moves(t, "CREATED", "submitted")
  /\ UNCHANGED <<running, objective, signal, cancelling, closing, asked>>

\* start() registers the coroutine it creates.  Nobody registers a delegated one.
Begin(t) ==
  /\ loop[t] = "submitted"
  /\ closing = "no"
  /\ loop' = [loop EXCEPT ![t] = "working"]
  /\ running' = IF t \in Direct THEN running \cup {t} ELSE running
  /\ UNCHANGED <<row, objective, signal, cancelling, closing, asked>>

Ask(o) ==
  /\ closing = "no" /\ objective[o] = "none"
  /\ objective' = [objective EXCEPT ![o] = "thinking"]
  /\ UNCHANGED <<row, loop, running, signal, cancelling, closing, asked>>

-----------------------------------------------------------------------------
(* The run *)

\* Any save but the last: the copy's status goes over whatever the row says.
Work(t) ==
  /\ loop[t] = "working"
  /\ Moves(t, "RUNNING", "working")
  /\ UNCHANGED <<running, objective, signal, cancelling, closing, asked>>

\* A question is asked.  A run told to stop may be on its way to one already.
Park(t) ==
  /\ loop[t] = "working"
  /\ Moves(t, "WAITING_FOR_APPROVAL", "parked")
  /\ UNCHANGED <<running, objective, signal, cancelling, closing, asked>>

\* Answered, timed out, or released by a cancel.
Unpark(t) ==
  /\ loop[t] = "parked"
  /\ Moves(t, "RUNNING", "working")
  /\ UNCHANGED <<running, objective, signal, cancelling, closing, asked>>

Finish(t) ==
  /\ loop[t] = "working"
  /\ \E status \in {"COMPLETED", "FAILED"} : Moves(t, status, "ended")
  /\ UNCHANGED <<running, objective, signal, cancelling, closing, asked>>

\* Fault: the signal is looked at before the first step only.
ObeyBeforeWork(t) ==
  /\ loop[t] = "working" /\ t \in signal /\ row[t] = "CREATED"
  /\ Moves(t, "CANCELLED", "ended")
  /\ UNCHANGED <<running, objective, signal, cancelling, closing, asked>>

\* The loop sees the signal between two steps and saves what it has.
Obey(t) ==
  /\ loop[t] = "working" /\ t \in signal
  /\ Moves(t, "CANCELLED", "ended")
  /\ UNCHANGED <<running, objective, signal, cancelling, closing, asked>>

\* _finished, the done callback, also of a coroutine that was interrupted.  A
\* delegated run has none: it returns to its supervisor, and was never signalled.
Finished(t) ==
  /\ loop[t] = "ended"
  /\ loop' = [loop EXCEPT ![t] = "gone"]
  /\ running' = running \ {t}
  /\ signal' = signal \ {t}
  /\ UNCHANGED <<row, objective, cancelling, closing, asked>>

\* handle_objective returns when the tasks it waits for have.
ManagerEnds(o) ==
  /\ objective[o] = "thinking"
  /\ \A t \in Delegated : Owner[t] = o => loop[t] \in {"none", "gone"}
  /\ objective' = [objective EXCEPT ![o] = "over"]
  /\ UNCHANGED <<row, loop, running, signal, cancelling, closing, asked>>

-----------------------------------------------------------------------------
(* Stopping *)

\* Cancelling a coroutine stops it where it awaits.  Of what is on the way out,
\* only ApprovalGate._ask's finally saves something.
Interrupt(hit) ==
  /\ row' = [t \in Tasks |->
              IF t \in hit /\ loop[t] = "parked" THEN "RUNNING" ELSE row[t]]
  /\ loop' = [t \in Tasks |->
               IF t \in hit /\ loop[t] \in {"submitted", "working", "parked"}
               THEN "ended" ELSE loop[t]]

\* cancel() reads the row, and awaits.
CancelRead(t) ==
  /\ closing = "no"
  /\ cancelling[t] = "none"
  /\ row[t] \notin TerminalStatuses \cup {"ABSENT"}
  /\ cancelling' = [cancelling EXCEPT ![t] = "read"]
  /\ asked' = asked \cup {t}
  /\ UNCHANGED <<row, loop, running, objective, signal, closing>>

\* A run this process carries is told to stop.
CancelSignal(t) ==
  /\ cancelling[t] = "read" /\ t \in running
  /\ signal' = signal \cup {t}
  /\ cancelling' = [cancelling EXCEPT ![t] = "none"]
  /\ UNCHANGED <<row, loop, running, objective, closing, asked>>

\* One it does not carry is moved to CANCELLED, and that is saved next.
CancelIdle(t) ==
  /\ cancelling[t] = "read" /\ t \notin running
  /\ cancelling' = [cancelling EXCEPT ![t] = "saving"]
  /\ UNCHANGED <<row, loop, running, objective, signal, closing, asked>>

CancelSave(t) ==
  /\ cancelling[t] = "saving"
  /\ row' = [row EXCEPT ![t] = "CANCELLED"]
  /\ cancelling' = [cancelling EXCEPT ![t] = "none"]
  /\ UNCHANGED <<loop, running, objective, signal, closing, asked>>

\* cancel_objective: every registered run is told to stop, and Prometheus's own
\* coroutine is cancelled, with the delegated runs it is waiting for inside it.
CancelObjective(o) ==
  /\ closing = "no"
  /\ signal' = signal \cup running
  /\ IF objective[o] = "thinking"
     THEN /\ objective' = [objective EXCEPT ![o] = "stopped"]
          /\ Interrupt({t \in Delegated : Owner[t] = o})
     ELSE UNCHANGED <<row, loop, objective>>
  /\ UNCHANGED <<running, cancelling, closing, asked>>

\* aclose: objectives are cancelled outright, runs are asked and waited for.
Close ==
  /\ closing = "no"
  /\ closing' = "grace"
  /\ objective' = [o \in Objectives |->
                    IF objective[o] = "thinking" THEN "stopped" ELSE objective[o]]
  /\ Interrupt({t \in Delegated : objective[Owner[t]] = "thinking"})
  /\ signal' = signal \cup running
  /\ UNCHANGED <<running, cancelling, asked>>

\* The grace is over: what still runs is cancelled.
GiveUp ==
  /\ closing = "grace"
  /\ closing' = "closed"
  /\ Interrupt(running)
  /\ UNCHANGED <<running, objective, signal, cancelling, asked>>

Run(t) == Begin(t) \/ Work(t) \/ Unpark(t) \/ Finish(t) \/ Obey(t) \/ Finished(t)

Next ==
  \/ \E t \in Tasks :
       \/ Submit(t) \/ Run(t) \/ Park(t)
       \/ CancelRead(t) \/ CancelSignal(t) \/ CancelIdle(t) \/ CancelSave(t)
  \/ \E o \in Objectives : Ask(o) \/ ManagerEnds(o) \/ CancelObjective(o)
  \/ Close \/ GiveUp

\* The event loop schedules every coroutine and callback it holds, questions
\* have a deadline, and a run comes by its signal each time round the loop: it
\* cannot go on for ever between two looks.
Fairness ==
  /\ \A t \in Tasks : WF_vars(Finished(t)) /\ WF_vars(Unpark(t)) /\ SF_vars(Obey(t))
  /\ WF_vars(GiveUp)

Spec == Init /\ [][Next]_vars
FairSpec == Spec /\ Fairness

-----------------------------------------------------------------------------
(* Properties *)

\* _finished: "A cancellation that outlived its run would silently stop the next
\* one started under the same id".  None does, whichever call set it.
SignalsHaveRuns == signal \subseteq running

\* aclose: a run it interrupts "is resumable by construction".  No row is left
\* where list_resumable would not find it.
ClosedRowsResume ==
  closing = "closed" =>
    \A t \in Tasks : row[t] \in TerminalStatuses \cup ResumableStatuses \cup {"ABSENT"}

\* A run told to stop ends, and nothing is left of it in the register.
SignalsAreObeyed == \A t \in Tasks : t \in signal ~> t \notin running

-----------------------------------------------------------------------------
(* What the documentation says and the code does not *)

\* runs.py: a task "that is *not* running" is moved to CANCELLED, for doing so
\* to a live run would be "writing a terminal status underneath a loop that is
\* still working".  What cancel() takes for idle has no loop.
IdleHasNoLoop ==
  [][\A t \in Tasks : cancelling[t] = "read" /\ cancelling'[t] = "saving"
                        => loop[t] \notin {"working", "parked"}]_vars

\* cancel_objective: "its tasks are asked to stop the cooperative way, which is
\* what keeps whatever they had already done".  Those that had begun have ended.
StoppedObjectivesKeepWork ==
  \A t \in Delegated :
    objective[Owner[t]] = "stopped" /\ loop[t] = "gone" =>
      row[t] \in TerminalStatuses \cup {"CREATED"}

\* cancel_objective stops "every task it has running", and so no other: a task
\* is told to stop because a person asked for that, or everything is closing.
OnlyItsOwnTasksStop == closing = "no" => signal \cap Direct \subseteq asked

\* A terminal status is the last one, ALLOWED_TRANSITIONS says: what the run
\* itself reported is not overwritten by a cancel that read an older row.
OutcomesStand ==
  [][\A t \in Tasks : row[t] \in TerminalStatuses => row'[t] = row[t]]_vars

-----------------------------------------------------------------------------
(* Why the safety properties hold *)

\* The register knows the direct runs that work, and an objective's coroutine
\* outlives the delegated ones.
LoopsAccountedFor ==
  \A t \in Tasks :
    /\ t \in running => loop[t] \in {"working", "parked", "ended"}
    /\ t \in Direct /\ loop[t] \in {"working", "parked"} => t \in running
    /\ t \in Delegated /\ loop[t] \in {"submitted", "working", "parked"} =>
         objective[Owner[t]] = "thinking"

\* A row says it is parked only while its loop is.
ParkedRowsHaveLoops ==
  \A t \in Tasks : row[t] = "WAITING_FOR_APPROVAL" => loop[t] = "parked"

ClosingStopsAll ==
  /\ closing # "no" => \A o \in Objectives : objective[o] # "thinking"
  /\ closing = "closed" => \A t \in Tasks : loop[t] \notin {"working", "parked"}

IndInv == /\ TypeOK /\ SignalsHaveRuns /\ LoopsAccountedFor /\ ParkedRowsHaveLoops
          /\ ClosingStopsAll
=============================================================================
