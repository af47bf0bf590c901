------------------------------ MODULE Consent ------------------------------
(***************************************************************************)
(* What domain/approvals/protocols.py promises of every ApprovalService:   *)
(* a call that asks is told one answer, once, and it is told yes only      *)
(* about a question somebody agreed to before.  Silence, an error and a    *)
(* person out of reach are all answers, and none of them is a yes.         *)
(***************************************************************************)
CONSTANT Questions

VARIABLES
  agreed, \* questions somebody said yes to
  told    \* what each asking call was told

Answers == {"APPROVED", "REJECTED", "EXPIRED"}

\* A configuration may have agreed to everything beforehand.
Init == agreed \in {{}, Questions} /\ told = [q \in Questions |-> "none"]

Agree(q) == agreed' = agreed \cup {q}

Tell(q, answer) ==
  /\ told[q] = "none"
  /\ answer = "APPROVED" => q \in agreed'
  /\ told' = [told EXCEPT ![q] = answer]

Next ==
  \E q \in Questions :
    /\ Agree(q) \/ UNCHANGED agreed
    /\ UNCHANGED told \/ \E answer \in Answers : Tell(q, answer)

Spec == Init /\ [][Next]_<<agreed, told>>
=============================================================================
