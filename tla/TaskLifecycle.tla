--------------------------- MODULE TaskLifecycle ---------------------------
(***************************************************************************)
(* What a stored task promises: its status starts at CREATED, moves only   *)
(* along the declared transitions, and once terminal never moves again.    *)
(* The modules that write task rows are shown to implement this one.       *)
(***************************************************************************)
EXTENDS TaskStates

VARIABLE status

Init == status = "CREATED"

Move == \E to \in Statuses : CanTransition(status, to) /\ status' = to

Spec == Init /\ [][Move]_status
=============================================================================
