------------------------------ MODULE Telegram ------------------------------
(***************************************************************************)
(* Asking a person through a bot: TelegramApprovalService.  Each question  *)
(* is a call with a long poll of its own, and all of them share one        *)
(* _offset.  The bot API is external and modelled by what the code expects *)
(* of it: it numbers the presses, returns those from an offset on, and     *)
(* forgets the ones below it.                                              *)
(*                                                                         *)
(* Abstracted: the message, credentials, and clocks: a deadline may pass   *)
(* at any moment.  A press of another kind is nobody's and adds nothing.   *)
(***************************************************************************)
EXTENDS Naturals, Sequences

CONSTANTS
  Questions,  \* approval ids: one per asking call
  MaxPresses  \* bound: buttons pressed

VARIABLES
  row,       \* ApprovalRow.state
  call,      \* where request() is
  verdict,   \* what it returns
  offset,    \* _offset; 1, where every press is new, for None
  asked,     \* the offset in the poll each call has sent
  reply,     \* the presses a poll brought back, as first and last number
  shown,     \* questions whose buttons are in the chat
  updates,   \* presses, oldest first, as the bot API numbers them
  confirmed, \* presses the bot API does not repeat
  heard,     \* history: presses some call has looked at
  overruled  \* history: questions resolve() decided after the call was told

asking == <<call, verdict, offset, asked, reply>>
vars == <<row, asking, shown, updates, confirmed, heard, overruled>>

Decisions == {"APPROVED", "REJECTED"}
States == {"ABSENT", "PENDING", "EXPIRED"} \cup Decisions
Awaiting == {"polling", "replied", "resting"}
Places == {"none", "saved", "decided", "told", "dead"} \cup Awaiting
Presses == [to : Questions, decision : Decisions]

TypeOK ==
  /\ row \in [Questions -> States]
  /\ call \in [Questions -> Places]
  /\ verdict \in [Questions -> {"none", "EXPIRED"} \cup Decisions]
  /\ offset \in Nat \ {0}
  /\ asked \in [Questions -> Nat \ {0}]
  /\ reply \in [Questions -> [first : Nat, last : Nat]]
  /\ shown \in SUBSET Questions
  /\ updates \in Seq(Presses)
  /\ confirmed \in Nat /\ heard \in Nat
  /\ overruled \in SUBSET Questions

Empty == [first |-> 1, last |-> 0]

Init ==
  /\ row = [q \in Questions |-> "ABSENT"]
  /\ call = [q \in Questions |-> "none"]
  /\ verdict = [q \in Questions |-> "none"]
  /\ offset = 1
  /\ asked = [q \in Questions |-> 1]
  /\ reply = [q \in Questions |-> Empty]
  /\ shown = {} /\ updates = << >>
  /\ confirmed = 0 /\ heard = 0
  /\ overruled = {}

-----------------------------------------------------------------------------
(* request, up to the first poll *)

\* The question is written down before it is asked.
Ask(q) ==
  /\ call[q] = "none"
  /\ row' = [row EXCEPT ![q] = "PENDING"]
  /\ call' = [call EXCEPT ![q] = "saved"]
  /\ UNCHANGED <<verdict, offset, asked, reply, shown, updates, confirmed, heard, overruled>>

\* sendMessage reaches the chat, whatever the call is told about it and even if
\* it has given up by then.
Deliver(q) ==
  /\ call[q] # "none" /\ q \notin shown
  /\ shown' = shown \cup {q}
  /\ UNCHANGED <<row, asking, updates, confirmed, heard, overruled>>

\* The next poll carries the offset of this moment.
Repoll(q, from) ==
  /\ call' = [call EXCEPT ![q] = "polling"]
  /\ asked' = [asked EXCEPT ![q] = from]
  /\ reply' = [reply EXCEPT ![q] = Empty]
  /\ UNCHANGED <<row, verdict, shown, updates, overruled>>

Sent(q) ==
  /\ call[q] = "saved" /\ q \in shown
  /\ Repoll(q, offset)
  /\ UNCHANGED <<offset, confirmed, heard>>

\* The call knows its verdict and saves it next.
Conclude(q, decision) ==
  /\ call' = [call EXCEPT ![q] = "decided"]
  /\ verdict' = [verdict EXCEPT ![q] = decision]
  /\ reply' = [reply EXCEPT ![q] = Empty]
  /\ UNCHANGED <<row, asked, shown, updates, overruled>>

\* No credentials, an API out of reach, a response that is lost: no.
Fails(q) ==
  /\ call[q] \in {"saved", "polling", "replied"}
  /\ Conclude(q, "REJECTED")
  /\ UNCHANGED <<offset, confirmed, heard>>

\* wait_for cancels the poll, wherever it awaits.
TimeOut(q) ==
  /\ call[q] \in Awaiting
  /\ Conclude(q, "EXPIRED")
  /\ UNCHANGED <<offset, confirmed, heard>>

-----------------------------------------------------------------------------
(* The long poll: _await_answer *)

Larger(m, n) == IF m > n THEN m ELSE n

\* getUpdates: what lies below the offset is forgotten, what lies above comes
\* back, at once or after the server has held the poll for a while.
Serve(q) ==
  /\ call[q] = "polling"
  /\ confirmed' = Larger(confirmed, asked[q] - 1)
  /\ call' = [call EXCEPT ![q] = "replied"]
  /\ reply' = [reply EXCEPT ![q] = [first |-> confirmed' + 1, last |-> Len(updates)]]
  /\ UNCHANGED <<row, verdict, offset, asked, shown, updates, heard, overruled>>

\* _answer_in: a press of this question's own buttons.
AnswersIn(q, n) == n \in reply[q].first .. reply[q].last /\ updates[n].to = q

\* Fault: the whole batch is behind the offset, also what was not looked at.
HearAnswerSkipping(q) ==
  /\ call[q] = "replied"
  /\ \E n \in 1..Len(updates) :
       /\ AnswersIn(q, n) /\ \A m \in 1..n - 1 : ~AnswersIn(q, m)
       /\ heard' = Larger(heard, n)
       /\ Conclude(q, updates[n].decision)
  /\ offset' = reply[q].last + 1
  /\ UNCHANGED confirmed

\* The first of them is the answer; what comes after it is left for others.
HearAnswer(q) ==
  /\ call[q] = "replied"
  /\ \E n \in 1..Len(updates) :
       /\ AnswersIn(q, n) /\ \A m \in 1..n - 1 : ~AnswersIn(q, m)
       /\ offset' = n + 1
       /\ heard' = Larger(heard, n)
       /\ Conclude(q, updates[n].decision)
  /\ UNCHANGED confirmed

\* The presses are of other questions: consumed, skipped, and asked again.
HearOthers(q) ==
  /\ call[q] = "replied" /\ reply[q].first <= reply[q].last
  /\ \A n \in 1..Len(updates) : ~AnswersIn(q, n)
  /\ offset' = reply[q].last + 1
  /\ heard' = Larger(heard, reply[q].last)
  /\ Repoll(q, offset')
  /\ UNCHANGED confirmed

\* Nothing came: a pause, and then the offset of that later moment.
HearNothing(q) ==
  /\ call[q] = "replied" /\ reply[q].first > reply[q].last
  /\ call' = [call EXCEPT ![q] = "resting"]
  /\ reply' = [reply EXCEPT ![q] = Empty]
  /\ UNCHANGED <<row, verdict, offset, asked, shown, updates, confirmed, heard, overruled>>

Rested(q) ==
  /\ call[q] = "resting"
  /\ Repoll(q, offset)
  /\ UNCHANGED <<offset, confirmed, heard>>

\* The verdict goes over whatever the row says, and is told to the gate.
Store(q) ==
  /\ call[q] = "decided"
  /\ row' = [row EXCEPT ![q] = verdict[q]]
  /\ call' = [call EXCEPT ![q] = "told"]
  /\ UNCHANGED <<verdict, offset, asked, reply, shown, updates, confirmed, heard, overruled>>

-----------------------------------------------------------------------------
(* Everybody else *)

\* The buttons stay in the chat, whatever became of the question.
Press(q, decision) ==
  /\ q \in shown /\ Len(updates) < MaxPresses
  /\ updates' = Append(updates, [to |-> q, decision |-> decision])
  /\ UNCHANGED <<row, asking, shown, confirmed, heard, overruled>>

\* resolve(), from the command line: the row is decided, the call not woken.  What
\* it read before does not matter: a row once written is never taken away.
Resolve(q, decision) ==
  /\ row[q] # "ABSENT"
  /\ row' = [row EXCEPT ![q] = decision]
  /\ overruled' = IF call[q] = "told" THEN overruled \cup {q} ELSE overruled
  /\ UNCHANGED <<asking, shown, updates, confirmed, heard>>

\* list_pending in another process closes a row whose deadline has passed.
Sweep(q) ==
  /\ row[q] = "PENDING"
  /\ row' = [row EXCEPT ![q] = "EXPIRED"]
  /\ UNCHANGED <<asking, shown, updates, confirmed, heard, overruled>>

\* The process dies with its calls; a new one starts without an offset.
Crash ==
  /\ call' = [q \in Questions |->
               IF call[q] \in {"none", "told"} THEN call[q] ELSE "dead"]
  /\ offset' = 1
  /\ reply' = [q \in Questions |-> Empty]
  /\ UNCHANGED <<row, verdict, asked, shown, updates, confirmed, heard, overruled>>

Proceed(q) ==
  \/ Sent(q) \/ Serve(q) \/ HearAnswer(q) \/ HearOthers(q) \/ HearNothing(q) \/ Rested(q)
  \/ Store(q)

Next ==
  \/ \E q \in Questions :
       \/ Ask(q) \/ Deliver(q) \/ Proceed(q) \/ Fails(q) \/ TimeOut(q) \/ Sweep(q)
       \/ \E d \in Decisions : Press(q, d) \/ Resolve(q, d)
  \/ Crash

\* Coroutines are scheduled and timers fire: the sending of the message by
\* httpx's timeout, the wait for an answer by wait_for's.  Nobody has to press.
Fairness ==
  \A q \in Questions :
    WF_vars(Proceed(q)) /\ WF_vars(call[q] = "saved" /\ Fails(q)) /\ WF_vars(TimeOut(q))

Spec == Init /\ [][Next]_vars
FairSpec == Spec /\ Fairness

-----------------------------------------------------------------------------
(* Properties *)

Agreed == {updates[n].to : n \in {m \in 1..Len(updates) : updates[m].decision = "APPROVED"}}

\* "Anything but a pressed Approve is a no": not a timeout, an error, a press on
\* another question's buttons or one left over from a process that died.  Stated
\* as the promise of every approval service.
TelegramConsent == INSTANCE Consent WITH agreed <- Agreed, told <- verdict
OnlyAPressApproves == TelegramConsent!Spec

\* Whatever the sweep, the command line and old presses write in between, the
\* row says what the call was told, until somebody overrules it later.
ToldIsRecorded ==
  \A q \in Questions : call[q] = "told" /\ q \notin overruled => row[q] = verdict[q]

\* The shared offset never makes the bot API forget a press no call has looked
\* at: neither one behind the answer in its batch nor one of a slower poll.
NothingForgottenUnheard == confirmed <= heard

\* "A question here expires by default and the run continues as refused rather
\* than parking forever": polls that bring other people's answers do not keep it.
EveryQuestionEnds ==
  \A q \in Questions : call[q] = "saved" ~> call[q] \in {"told", "dead"}

-----------------------------------------------------------------------------
(* What the documentation says and the code does not *)

\* _await_answer: "Poll until this particular question is answered."  The poll of
\* a call asks for every press of its own buttons.
PressesFindTheirCall ==
  \A n \in 1..Len(updates) : call[updates[n].to] = "polling" => asked[updates[n].to] <= n

-----------------------------------------------------------------------------
(* Why the safety properties hold: offsets only move past what was heard, and a
   reply starts no later than that. *)

OffsetsAreHeard ==
  /\ NothingForgottenUnheard
  /\ heard <= Len(updates) /\ offset <= heard + 1
  /\ \A q \in Questions :
       /\ asked[q] <= heard + 1
       /\ reply[q].first <= heard + 1 /\ reply[q].first >= 1 /\ reply[q].last <= Len(updates)

\* A call has its verdict exactly when it no longer waits, and a yes was pressed.
VerdictsArePressed ==
  \A q \in Questions :
    /\ call[q] \in {"none", "saved"} \cup Awaiting => verdict[q] = "none"
    /\ call[q] \in {"decided", "told"} => verdict[q] # "none"
    /\ verdict[q] = "APPROVED" => q \in Agreed

IndInv == TypeOK /\ OffsetsAreHeard /\ VerdictsArePressed /\ ToldIsRecorded
=============================================================================
