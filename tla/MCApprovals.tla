----------------------------- MODULE MCApprovals -----------------------------
(* What people are asked, and who answers when the platform is being measured.  The
   two share no state: a behaviour is of one of them.

   Approvals: one question of each of two tasks.

   Validation: a goal that is to leave a file and must not move one; a process that
   goes on from the file it is given; a request made in another workspace, to be
   refused; and one this machine cannot run. *)
EXTENDS Approvals, TLC

CONSTANTS
  q1, q2, t1, t2,
  Parts,
  Order, Declared, Tools, Guarded, Writer, Errors, AuditLimit, HistoryLimit, Width,
  MaxAttempts, MaxCalls, MaxRuns, MaxCommands

\* from_error (domain/validation) gives every exception a kind of failure.
ASSUME ErrorsAreKinds == "NONE" \notin Errors

VARIABLES
  part, \* the one of the two that moves
  queue, stage, allowed, file, before, tries, result, history, truth, rewritten, started

suite == <<queue, stage, allowed, file, before, tries, result, history, truth, rewritten,
           started>>

OneTaskEach == (q1 :> t1 @@ q2 :> t2)

Goal ==
  [door |-> "OBJECTIVE", place |-> "default", unmet |-> FALSE, approve |-> {"write"},
   refused |-> {}, forbidden |-> {"move"}, reset |-> TRUE, seed |-> FALSE, file |-> TRUE,
   must |-> TRUE, memory |-> FALSE, regression |-> FALSE]

Scenarios ==
  "goal" :> Goal
  @@ "follow" :> [Goal EXCEPT !.door = "WORKFLOW", !.forbidden = {}, !.reset = FALSE,
                              !.seed = TRUE, !.memory = TRUE]
  @@ "unsent" :> [Goal EXCEPT !.door = "TASK", !.place = "personal", !.approve = {},
                              !.refused = {"write"}, !.forbidden = {}, !.file = FALSE,
                              !.must = FALSE, !.regression = TRUE]
  @@ "screen" :> [Goal EXCEPT !.unmet = TRUE]

Listed == <<"goal", "follow", "unsent", "screen">>

Measured == INSTANCE Validation

\* The one that stands still stands at one of its beginnings.
AllInit ==
  /\ part \in Parts
  /\ Init /\ Measured!Init
  /\ part # "approvals" => mode = "page"

AllNext ==
  \/ part = "approvals" /\ Next /\ UNCHANGED <<part, suite>>
  \/ part = "validation" /\ Measured!Next /\ UNCHANGED <<part, vars>>

AllSpec ==
  /\ AllInit /\ [][AllNext]_<<part, vars, suite>>
  /\ \A q \in Questions :
       /\ WF_vars(part = "approvals" /\ Proceed(q))
       /\ WF_vars(part = "approvals" /\ DeadlinePasses(q))
  /\ WF_vars(part = "approvals" /\ List)

\* Validation.PassesAreEarned: a run that passed, or a task left at work before it,
\* wrote the file it has to show.
PassesAreEarned == Measured!PassesAreEarned

\* Validation.ConsentIsDeclared: a yes is given only while it was declared to be.
ConsentIsDeclared == Measured!ConsentIsDeclared
=============================================================================
