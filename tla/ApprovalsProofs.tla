--------------------------- MODULE ApprovalsProofs ---------------------------
(***************************************************************************)
(* No question is approved but by a person or by configuration, and what a *)
(* tool call was told is what its row says: for any number of questions,   *)
(* tasks, clicks, deadlines and crashes.                                   *)
(***************************************************************************)
EXTENDS MCApprovals, Sequences, TLAPS

LEMMA InitIndInv == Init => IndInv
  BY DEF Init, IndInv, TypeOK, Modes, States, Decisions, AnswersAccountedFor,
         OnlyAYesApproves, ToldIsRecorded

\* Every way request() reaches its verdict keeps the invariant, provided the
\* verdict is not a yes nobody gave.
LEMMA ConcludeIndInv ==
  ASSUME IndInv, NEW q \in Questions, call[q] \in {"saved", "parked"},
         NEW d \in Decisions \cup {"EXPIRED"}, Conclude(q, d),
         yes' \in SUBSET Questions, yes \subseteq yes',
         d = "APPROVED" => mode = "allow" \/ q \in yes'
  PROVE  IndInv'
  <1>1. TypeOK'
    BY DEF IndInv, TypeOK, Conclude, Decisions, Modes, States
  <1>2. AnswersAccountedFor'
    BY DEF IndInv, TypeOK, Conclude, Decisions, AnswersAccountedFor
  <1>3. OnlyAYesApproves'
    BY DEF IndInv, TypeOK, Conclude, OnlyAYesApproves
  <1>4. ToldIsRecorded'
    BY DEF IndInv, TypeOK, Conclude, ToldIsRecorded
  <1>5. QED
    BY <1>1, <1>2, <1>3, <1>4 DEF IndInv

LEMMA NextIndInv == IndInv /\ [Next]_vars => IndInv'
  <1> SUFFICES ASSUME IndInv, [Next]_vars PROVE IndInv'
    OBVIOUS
  <1> USE DEF IndInv, TypeOK, Decisions
  <1>1. ASSUME NEW q \in Questions, Ask(q) PROVE IndInv'
    <2>1. TypeOK'
      BY <1>1 DEF Ask, States, Modes
    <2>2. AnswersAccountedFor' /\ OnlyAYesApproves' /\ ToldIsRecorded'
      BY <1>1 DEF Ask, AnswersAccountedFor, OnlyAYesApproves, ToldIsRecorded
    <2>3. QED
      BY <2>1, <2>2
  <1>2. ASSUME NEW q \in Questions, Configured(q) PROVE IndInv'
    <2>1. CASE mode = "allow"
      BY <1>2, <2>1, ConcludeIndInv DEF Configured
    <2>2. CASE mode # "allow"
      BY <1>2, <2>2, ConcludeIndInv DEF Configured
    <2>3. QED
      BY <2>1, <2>2
  <1>3. ASSUME NEW q \in Questions, NEW d \in Decisions, Typed(q, d) PROVE IndInv'
    BY <1>3, ConcludeIndInv DEF Typed
  <1>4. ASSUME NEW q \in Questions, Park(q) PROVE IndInv'
    <2>1. TypeOK'
      BY <1>4 DEF Park, Modes, States
    <2>2. AnswersAccountedFor' /\ OnlyAYesApproves' /\ ToldIsRecorded'
      BY <1>4 DEF Park, AnswersAccountedFor, OnlyAYesApproves, ToldIsRecorded
    <2>3. QED
      BY <2>1, <2>2
  <1>5. ASSUME NEW q \in Questions, Wake(q) PROVE IndInv'
    BY <1>5, ConcludeIndInv DEF Wake, AnswersAccountedFor
  <1>6. ASSUME NEW q \in Questions, TimeOut(q) PROVE IndInv'
    <2>1. CASE Conclude(q, "REJECTED")
      BY <1>6, <2>1, ConcludeIndInv DEF TimeOut
    <2>2. CASE Conclude(q, "EXPIRED")
      BY <1>6, <2>2, ConcludeIndInv DEF TimeOut
    <2>3. QED
      BY <1>6, <2>1, <2>2 DEF TimeOut
  <1>7. ASSUME NEW q \in Questions, Store(q) PROVE IndInv'
    <2>1. TypeOK'
      BY <1>7 DEF Store, States, AnswersAccountedFor, Modes
    <2>2. AnswersAccountedFor' /\ OnlyAYesApproves' /\ ToldIsRecorded'
      BY <1>7 DEF Store, AnswersAccountedFor, OnlyAYesApproves, ToldIsRecorded
    <2>3. QED
      BY <2>1, <2>2
  <1>8. ASSUME NEW q \in Questions, NEW d \in Decisions, Click(q, d) PROVE IndInv'
    <2>1. TypeOK'
      BY <1>8 DEF Click, Modes, States
    <2>2. AnswersAccountedFor' /\ OnlyAYesApproves' /\ ToldIsRecorded'
      BY <1>8 DEF Click, AnswersAccountedFor, OnlyAYesApproves, ToldIsRecorded
    <2>3. QED
      BY <2>1, <2>2
  <1>9. ASSUME NEW q \in Questions, NEW d \in Decisions, ClickLate(q, d) PROVE IndInv'
    BY <1>9 DEF ClickLate, Modes, States, AnswersAccountedFor, OnlyAYesApproves,
                ToldIsRecorded
  <1>10. ASSUME NEW q \in Questions, NEW d \in Decisions, RecordLate(q, d) PROVE IndInv'
    <2>1. TypeOK'
      BY <1>10 DEF RecordLate, Modes, States
    <2>2. AnswersAccountedFor' /\ OnlyAYesApproves' /\ ToldIsRecorded'
      BY <1>10 DEF RecordLate, AnswersAccountedFor, OnlyAYesApproves, ToldIsRecorded
    <2>3. QED
      BY <2>1, <2>2
  <1>11. ASSUME NEW t \in Tasks, Release(t) PROVE IndInv'
    <2>1. TypeOK'
      BY <1>11 DEF Release, Modes, States
    <2>2. AnswersAccountedFor' /\ OnlyAYesApproves' /\ ToldIsRecorded'
      BY <1>11 DEF Release, AnswersAccountedFor, OnlyAYesApproves, ToldIsRecorded
    <2>3. QED
      BY <2>1, <2>2
  <1>12. ASSUME NEW q \in Questions, DeadlinePasses(q) PROVE IndInv'
    BY <1>12 DEF DeadlinePasses, Modes, States, AnswersAccountedFor, OnlyAYesApproves,
                 ToldIsRecorded
  <1>13. CASE List
    <2>1. TypeOK'
      BY <1>13 DEF List, Modes, States
    <2>2. AnswersAccountedFor' /\ OnlyAYesApproves'
      BY <1>13 DEF List, AnswersAccountedFor, OnlyAYesApproves
    <2>3. ToldIsRecorded'
      BY <1>13 DEF List, ToldIsRecorded
    <2>4. QED
      BY <2>1, <2>2, <2>3
  <1>14. CASE Crash
    <2>1. TypeOK'
      BY <1>14 DEF Crash, Waiting, Modes, States
    <2>2. AnswersAccountedFor' /\ OnlyAYesApproves' /\ ToldIsRecorded'
      BY <1>14 DEF Crash, Waiting, AnswersAccountedFor, OnlyAYesApproves, ToldIsRecorded
    <2>3. QED
      BY <2>1, <2>2
  <1>15. CASE UNCHANGED vars
    BY <1>15 DEF vars, Modes, States, AnswersAccountedFor, OnlyAYesApproves, ToldIsRecorded
  <1>16. QED
    BY <1>1, <1>2, <1>3, <1>4, <1>5, <1>6, <1>7, <1>8, <1>9, <1>10, <1>11, <1>12,
       <1>13, <1>14, <1>15 DEF Next, Proceed

\* IndInv holds in every reachable state.
THEOREM QuestionInvariant == Spec => []IndInv
  <1>1. IndInv /\ [Next]_vars => IndInv'
    BY NextIndInv
  <1>2. QED
    BY InitIndInv, <1>1, PTL DEF Spec

\* No timeout, release, crash or race of clicks is ever taken for a yes
\* (waiting.py: "Anything but an explicit approval is a rejection").
THEOREM NothingElseApproves == Spec => []OnlyAYesApproves
  <1>1. IndInv => OnlyAYesApproves
    BY DEF IndInv
  <1>2. QED
    BY QuestionInvariant, <1>1, PTL

\* Once the gate has been told, the row request() saved says the same, whatever the
\* sweep of overdue rows and earlier clicks wrote in between, until a later click
\* decides the row once more.
THEOREM RowSaysWhatWasTold == Spec => []ToldIsRecorded
  <1>1. IndInv => ToldIsRecorded
    BY DEF IndInv
  <1>2. QED
    BY QuestionInvariant, <1>1, PTL

\* What the promise is about, under the mapping of ToldOnceWithConsent.
Agreeing == IF mode = "allow" THEN Questions ELSE yes

\* A call that reaches its verdict is told it once, and somebody had agreed.
LEMMA ConcludeTells ==
  ASSUME IndInv, IndInv', NEW q \in Questions, call[q] \in {"saved", "parked"},
         NEW d \in Decisions \cup {"EXPIRED"}, Conclude(q, d),
         yes' = yes \/ yes' = yes \cup {q}
  PROVE  LocalConsent!Next
  <1>1. verdict[q] = "none" /\ verdict' = [verdict EXCEPT ![q] = d] /\ verdict'[q] = d
    BY DEF IndInv, TypeOK, AnswersAccountedFor, Conclude
  <1>2. d = "APPROVED" => q \in Agreeing'
    BY <1>1 DEF IndInv, OnlyAYesApproves, Agreeing
  <1>3. Agreeing' = Agreeing \/ Agreeing' = Agreeing \cup {q}
    BY DEF Conclude, Agreeing
  <1>4. d \in LocalConsent!Answers
    BY DEF LocalConsent!Answers, Decisions
  <1>5. LocalConsent!Tell(q, d)
    BY <1>1, <1>2 DEF LocalConsent!Tell, Agreeing
  <1>6. LocalConsent!Agree(q) \/ UNCHANGED Agreeing
    BY <1>3 DEF LocalConsent!Agree, Agreeing
  <1>7. QED
    BY <1>4, <1>5, <1>6 DEF LocalConsent!Next, Agreeing

\* LocalApprovalService implements the promise of domain.approvals.protocols:
\* each call is told one answer, once, and yes only after somebody agreed.
THEOREM LocalKeepsConsent == Spec => ToldOnceWithConsent
  <1>1. Init => LocalConsent!Init
    BY DEF Init, LocalConsent!Init
  <1>2. IndInv /\ IndInv' /\ [Next]_vars => [LocalConsent!Next]_<<Agreeing, verdict>>
    <2> SUFFICES ASSUME IndInv, IndInv', [Next]_vars
                 PROVE  [LocalConsent!Next]_<<Agreeing, verdict>>
      OBVIOUS
    <2>1. ASSUME NEW q \in Questions, Configured(q) PROVE LocalConsent!Next
      BY <2>1, ConcludeTells DEF Configured, Decisions
    <2>2. ASSUME NEW q \in Questions, NEW d \in Decisions, Typed(q, d)
          PROVE  LocalConsent!Next
      BY <2>2, ConcludeTells DEF Typed
    <2>3. ASSUME NEW q \in Questions, Wake(q) \/ TimeOut(q) PROVE LocalConsent!Next
      BY <2>3, ConcludeTells DEF Wake, TimeOut, Decisions
    <2>4. ASSUME NEW q \in Questions, NEW d \in Decisions, Click(q, d)
          PROVE  [LocalConsent!Next]_<<Agreeing, verdict>>
      <3>1. (Agreeing' = Agreeing \/ Agreeing' = Agreeing \cup {q}) /\ UNCHANGED verdict
        BY <2>4 DEF Click, Agreeing
      <3>2. QED
        BY <3>1 DEF LocalConsent!Next, LocalConsent!Agree, Agreeing
    <2>5. ASSUME NEW q \in Questions,
                 \/ Ask(q) \/ Park(q) \/ Store(q) \/ DeadlinePasses(q)
                 \/ \E d \in Decisions : ClickLate(q, d) \/ RecordLate(q, d)
          PROVE  UNCHANGED <<mode, yes, verdict>>
      BY <2>5 DEF Ask, Park, Store, DeadlinePasses, ClickLate, RecordLate
    <2>6. (\E t \in Tasks : Release(t)) \/ List \/ Crash \/ UNCHANGED vars
            => UNCHANGED <<mode, yes, verdict>>
      BY DEF Release, List, Crash, vars
    <2>7. UNCHANGED <<mode, yes, verdict>> => UNCHANGED <<Agreeing, verdict>>
      BY DEF Agreeing
    <2>8. QED
      BY <2>1, <2>2, <2>3, <2>4, <2>5, <2>6, <2>7 DEF Next, Proceed
  <1>3. QED
    BY <1>1, <1>2, QuestionInvariant, PTL
       DEF Spec, ToldOnceWithConsent, LocalConsent!Spec, Agreeing

-----------------------------------------------------------------------------
(* The platform measured *)

\* What a log of calls is made of, and what a task holds a yes to.
CallsMade == [tool : Tools, result : {"ALLOWED", "SUCCESS", "FAILURE", "DENIED"},
              declared : SUBSET Tools]

\* A call that needed a yes had one that was declared.
Agreed(c) == c.tool \in Guarded => c.tool \in c.declared
Covered(c) == c.result = "DENIED" \/ Agreed(c)

\* The calls a task has made and the one it was allowed are of that kind.
Sound(task) ==
  /\ "log" \in DOMAIN task /\ "pending" \in DOMAIN task
  /\ task.log \in Seq(CallsMade) /\ task.pending \subseteq CallsMade
  /\ \A c \in task.pending : Agreed(c)
  /\ \A n \in 1..Len(task.log) : Covered(task.log[n])

\* Answers stand in front of the gate only while the scenario they are declared for
\* is being asked, and whatever was allowed was declared.
AnswersStandWhileAsking ==
  /\ stage # "idle" => queue # << >>
  /\ allowed # {} => stage = "asking" /\ allowed = Measured!Now.approve
  /\ \A i \in DOMAIN tries : Sound(tries[i])

\* A task more, under a number nobody has.
LEMMA OneMore ==
  ASSUME Measured!Unused # {}, NEW old, DOMAIN old = DOMAIN tries
  PROVE  LET more == Measured!WithOneMore(old)
         IN  /\ \A i \in DOMAIN tries : i \in DOMAIN more /\ more[i] = old[i]
             /\ \A i \in DOMAIN more \ DOMAIN tries : more[i] = Measured!Task
  <1> DEFINE new == CHOOSE i \in Measured!Unused : TRUE
  <1>1. new \in Measured!Unused
    OBVIOUS
  <1>2. new \notin DOMAIN tries
    BY <1>1 DEF Measured!Unused
  <1>3. Measured!WithOneMore(old)
          = [i \in DOMAIN old \cup {new} |-> IF i = new THEN Measured!Task ELSE old[i]]
    BY DEF Measured!WithOneMore
  <1> HIDE DEF new
  <1>4. QED
    BY <1>2, <1>3

LEMMA TaskIsSound == Sound(Measured!Task)
  <1>1. /\ "log" \in DOMAIN Measured!Task /\ "pending" \in DOMAIN Measured!Task
        /\ Measured!Task.log = << >> /\ Measured!Task.pending = {}
    BY DEF Measured!Task
  <1>2. << >> \in Seq(CallsMade) /\ 1..Len(<< >>) = {}
    OBVIOUS
  <1>3. QED
    BY <1>1, <1>2 DEF Sound

\* What a task has called is all that is asked of it.
LEMMA SoundIsOfCalls ==
  ASSUME NEW old, NEW new, Sound(old), "log" \in DOMAIN new, "pending" \in DOMAIN new,
         new.log = old.log, new.pending = old.pending \/ new.pending = {}
  PROVE  Sound(new)
  <1>1. CASE new.pending = old.pending
    BY <1>1 DEF Sound
  <1>2. CASE new.pending = {}
    BY <1>2 DEF Sound
  <1>3. QED
    BY <1>1, <1>2

\* One entry more, and what is allowed next.
LEMMA SoundWithOneMore ==
  ASSUME NEW old, NEW new, NEW c \in CallsMade, Sound(old),
         "log" \in DOMAIN new, "pending" \in DOMAIN new,
         \/ new.log = Append(old.log, c) /\ new.pending \in {old.pending, {}} /\ Covered(c)
         \/ new.log = old.log /\ new.pending = {c} /\ Agreed(c)
  PROVE  Sound(new)
  <1>1. CASE new.log = old.log /\ new.pending = {c} /\ Agreed(c)
    BY <1>1 DEF Sound
  <1>2. CASE new.log = Append(old.log, c) /\ new.pending \in {old.pending, {}} /\ Covered(c)
    <2>1. old.log \in Seq(CallsMade) /\ \A n \in 1..Len(old.log) : Covered(old.log[n])
      BY DEF Sound
    <2>2. /\ new.log \in Seq(CallsMade) /\ Len(new.log) = Len(old.log) + 1
          /\ new.log[Len(old.log) + 1] = c
          /\ \A n \in 1..Len(old.log) : new.log[n] = old.log[n]
          /\ Len(old.log) \in Nat
      BY <1>2, <2>1
    <2>3. ASSUME NEW n \in 1..Len(new.log) PROVE Covered(new.log[n])
      <3>1. n \in 1..Len(old.log) \/ n = Len(old.log) + 1
        BY <2>2
      <3>2. CASE n \in 1..Len(old.log)
        <4>1. new.log[n] = old.log[n] /\ Covered(old.log[n])
          BY <2>1, <2>2, <3>2
        <4>2. QED
          BY <4>1
      <3>3. CASE n = Len(old.log) + 1
        <4>1. new.log[n] = c
          BY <2>2, <3>3
        <4>2. QED
          BY <1>2, <4>1
      <3>4. QED
        BY <3>1, <3>2, <3>3
    <2>4. new.pending \subseteq CallsMade /\ \A p \in new.pending : Agreed(p)
      BY <1>2 DEF Sound
    <2>5. QED
      BY <2>2, <2>3, <2>4 DEF Sound
  <1>3. QED
    BY <1>1, <1>2

\* A step that leaves the calls alone, or starts with none, or drops tasks.
LEMMA CallsKept ==
  ASSUME AnswersStandWhileAsking,
         \A i \in DOMAIN tries' :
           \/ /\ i \in DOMAIN tries
              /\ "log" \in DOMAIN tries'[i] /\ "pending" \in DOMAIN tries'[i]
              /\ tries'[i].log = tries[i].log
              /\ tries'[i].pending = tries[i].pending \/ tries'[i].pending = {}
           \/ tries'[i] = Measured!Task
  PROVE  \A i \in DOMAIN tries' : Sound(tries'[i])
  <1> SUFFICES ASSUME NEW i \in DOMAIN tries' PROVE Sound(tries'[i])
    OBVIOUS
  <1>1. CASE tries'[i] = Measured!Task
    BY <1>1, TaskIsSound
  <1>2. CASE tries'[i] # Measured!Task
    <2>1. Sound(tries[i])
      BY <1>2 DEF AnswersStandWhileAsking
    <2>2. QED
      BY <1>2, <2>1, SoundIsOfCalls
  <1>3. QED
    BY <1>1, <1>2

\* The tool a task asks for.
LEMMA AskIsCovered ==
  ASSUME AnswersStandWhileAsking, NEW i \in DOMAIN tries, NEW t \in Tools,
         Measured!Ask(i, t)
  PROVE  AnswersStandWhileAsking'
  <1> DEFINE made(said) == [tool |-> t, result |-> said,
                              declared |-> Measured!Answering]
  <1>1. /\ tries' = IF t \in Guarded \ allowed
                    THEN [tries EXCEPT ![i].log = Append(@, made("DENIED"))]
                    ELSE [tries EXCEPT ![i].pending = {made("ALLOWED")}]
        /\ UNCHANGED <<queue, stage, allowed>> /\ Sound(tries[i])
    BY DEF Measured!Ask, AnswersStandWhileAsking
  <1>2. made("DENIED") \in CallsMade /\ made("ALLOWED") \in CallsMade
    BY DEF CallsMade, Measured!Answering
  <1>3. Covered(made("DENIED"))
    BY DEF Covered
  <1>4. t \notin Guarded \ allowed => Agreed(made("ALLOWED"))
    BY DEF Agreed, AnswersStandWhileAsking, Measured!Answering
  <1> HIDE DEF made
  <1>5. /\ DOMAIN tries' = DOMAIN tries
        /\ \A j \in DOMAIN tries : j # i => tries'[j] = tries[j]
        /\ "log" \in DOMAIN tries[i] /\ "pending" \in DOMAIN tries[i]
    BY <1>1 DEF Sound
  <1>6. Sound(tries'[i])
    <2>1. CASE t \in Guarded \ allowed
      <3>1. /\ "log" \in DOMAIN tries'[i] /\ "pending" \in DOMAIN tries'[i]
            /\ tries'[i].log = Append(tries[i].log, made("DENIED"))
            /\ tries'[i].pending = tries[i].pending
        BY <1>1, <1>5, <2>1
      <3>2. QED
        BY <1>1, <1>2, <1>3, <3>1, SoundWithOneMore
    <2>2. CASE t \notin Guarded \ allowed
      <3>1. /\ "log" \in DOMAIN tries'[i] /\ "pending" \in DOMAIN tries'[i]
            /\ tries'[i].log = tries[i].log
            /\ tries'[i].pending = {made("ALLOWED")}
        BY <1>1, <1>5, <2>2
      <3>2. QED
        BY <1>1, <1>2, <1>4, <2>2, <3>1, SoundWithOneMore
    <2>3. QED
      BY <2>1, <2>2
  <1>7. QED
    BY <1>1, <1>5, <1>6 DEF AnswersStandWhileAsking, Measured!Now

\* The call it was allowed, made.
LEMMA RunIsCovered ==
  ASSUME AnswersStandWhileAsking, NEW i \in DOMAIN tries,
         NEW o \in {"SUCCESS", "FAILURE"}, Measured!Run(i, o)
  PROVE  AnswersStandWhileAsking'
  <1>1. PICK c \in tries[i].pending :
          /\ tries' = [tries EXCEPT ![i].pending = {},
                                   ![i].log = Append(@, [c EXCEPT !.result = o])]
          /\ UNCHANGED <<queue, stage, allowed>>
    BY DEF Measured!Run
  <1> DEFINE made == [c EXCEPT !.result = o]
  <1>2. Sound(tries[i]) /\ c \in CallsMade /\ Agreed(c)
    BY <1>1 DEF AnswersStandWhileAsking, Sound
  <1>3. made \in CallsMade /\ made.tool = c.tool /\ made.declared = c.declared
    BY <1>2 DEF CallsMade
  <1>4. Covered(made)
    BY <1>2, <1>3 DEF Covered, Agreed
  <1> HIDE DEF made
  <1>5. /\ DOMAIN tries' = DOMAIN tries
        /\ \A j \in DOMAIN tries : j # i => tries'[j] = tries[j]
        /\ "log" \in DOMAIN tries'[i] /\ "pending" \in DOMAIN tries'[i]
        /\ tries'[i].log = Append(tries[i].log, made) /\ tries'[i].pending = {}
    BY <1>1, <1>2 DEF Sound, made
  <1>6. Sound(tries'[i])
    BY <1>2, <1>3, <1>4, <1>5, SoundWithOneMore
  <1>7. QED
    BY <1>1, <1>5, <1>6 DEF AnswersStandWhileAsking, Measured!Now

LEMMA ConsentStep ==
  AnswersStandWhileAsking /\ [Measured!Next]_(Measured!vars) => AnswersStandWhileAsking'
  <1> SUFFICES ASSUME AnswersStandWhileAsking, [Measured!Next]_(Measured!vars)
               PROVE  AnswersStandWhileAsking'
    OBVIOUS
  <1>1. ASSUME NEW rest, Measured!Leave(rest), allowed' = {} PROVE AnswersStandWhileAsking'
    <2>1. /\ stage' = "idle"
          /\ \A i \in DOMAIN tries' : i \in DOMAIN tries /\ tries'[i] = tries[i]
      BY <1>1 DEF Measured!Leave, Measured!In
    <2>2. \A i \in DOMAIN tries' : Sound(tries'[i])
      BY <2>1 DEF AnswersStandWhileAsking
    <2>3. QED
      BY <1>1, <2>1, <2>2 DEF AnswersStandWhileAsking
  <1>2. CASE Measured!Skip \/ Measured!Abandon \/ Measured!Kill
    BY <1>1, <1>2 DEF AnswersStandWhileAsking, Measured!Skip, Measured!Abandon, Measured!Kill
  <1>3. ASSUME NEW b \in BOOLEAN, Measured!Conclude(b) PROVE AnswersStandWhileAsking'
    BY <1>1, <1>3 DEF AnswersStandWhileAsking, Measured!Conclude
  <1>4. ASSUME tries' = tries, \/ UNCHANGED <<queue, stage, allowed>>
                               \/ queue = << >> /\ UNCHANGED <<stage, allowed>>
                               \/ queue' = queue /\ queue # << >> /\ allowed' = {}
                               \/ /\ queue' = queue /\ queue # << >> /\ stage' = "asking"
                                  /\ allowed' = Measured!Now.approve
        PROVE  AnswersStandWhileAsking'
    BY <1>4 DEF AnswersStandWhileAsking, Measured!Now
  <1>5. ASSUME NEW chosen, Measured!Choose(chosen) PROVE AnswersStandWhileAsking'
    BY <1>4, <1>5 DEF Measured!Choose
  <1>6. CASE Measured!Prepare
    BY <1>4, <1>6 DEF Measured!Prepare, AnswersStandWhileAsking
  <1>7. CASE Measured!TakeMarks
    BY <1>4, <1>7 DEF Measured!TakeMarks, AnswersStandWhileAsking
  <1>8. ASSUME NEW b \in BOOLEAN, Measured!Answer(b) PROVE AnswersStandWhileAsking'
    BY <1>4, <1>8 DEF Measured!Answer, AnswersStandWhileAsking
  <1>9. ASSUME \A i \in DOMAIN tries' : Sound(tries'[i]),
               UNCHANGED <<queue, stage, allowed>>
        PROVE  AnswersStandWhileAsking'
    BY <1>9 DEF AnswersStandWhileAsking, Measured!Now
  <1>10. CASE Measured!Begin
    <2>1. tries' = Measured!WithOneMore(tries) /\ Measured!Unused # {}
            /\ UNCHANGED <<queue, stage, allowed>>
      BY <1>10 DEF Measured!Begin
    <2>2. \A i \in DOMAIN tries : "log" \in DOMAIN tries[i] /\ "pending" \in DOMAIN tries[i]
      BY DEF AnswersStandWhileAsking, Sound
    <2>3. \A i \in DOMAIN tries' : Sound(tries'[i])
      BY <2>1, <2>2, OneMore, CallsKept
    <2>4. QED
      BY <1>9, <2>1, <2>3
  <1>11. ASSUME NEW i \in DOMAIN tries, Measured!End(i) PROVE AnswersStandWhileAsking'
    <2>1. tries' = [tries EXCEPT ![i].state = "ended"] /\ UNCHANGED <<queue, stage, allowed>>
      BY <1>11 DEF Measured!End
    <2>2. \A j \in DOMAIN tries : "log" \in DOMAIN tries[j] /\ "pending" \in DOMAIN tries[j]
      BY DEF AnswersStandWhileAsking, Sound
    <2>3. \A j \in DOMAIN tries' : Sound(tries'[j])
      BY <2>1, <2>2, CallsKept
    <2>4. QED
      BY <1>9, <2>1, <2>3
  <1>12. ASSUME NEW i \in DOMAIN tries, Measured!Replace(i) PROVE AnswersStandWhileAsking'
    <2> DEFINE old == [tries EXCEPT ![i].state = "replaced"]
    <2>1. /\ tries' = Measured!WithOneMore(old) /\ Measured!Unused # {}
          /\ UNCHANGED <<queue, stage, allowed>>
      BY <1>12 DEF Measured!Replace
    <2>2. /\ DOMAIN old = DOMAIN tries
          /\ \A j \in DOMAIN tries :
               /\ "log" \in DOMAIN old[j] /\ old[j].log = tries[j].log
               /\ "pending" \in DOMAIN old[j] /\ old[j].pending = tries[j].pending
      BY DEF AnswersStandWhileAsking, Sound
    <2> HIDE DEF old
    <2>3. \A j \in DOMAIN tries' : Sound(tries'[j])
      BY <2>1, <2>2, OneMore, CallsKept
    <2>4. QED
      BY <1>9, <2>1, <2>3
  <1>13. ASSUME NEW who, NEW k \in Errors, Measured!Raise(who, k)
         PROVE  AnswersStandWhileAsking'
    <2>1. /\ DOMAIN tries' = DOMAIN tries
          /\ \A j \in DOMAIN tries :
               /\ "log" \in DOMAIN tries'[j] /\ tries'[j].log = tries[j].log
               /\ "pending" \in DOMAIN tries'[j]
               /\ tries'[j].pending = tries[j].pending \/ tries'[j].pending = {}
      BY <1>13 DEF Measured!Raise, Measured!Leaving, AnswersStandWhileAsking, Sound
    <2>2. queue' = queue /\ queue # << >> /\ allowed' = {}
      BY <1>13 DEF Measured!Raise, Measured!Leaving, AnswersStandWhileAsking
    <2>3. \A j \in DOMAIN tries' : Sound(tries'[j])
      BY <2>1, CallsKept
    <2>4. QED
      BY <2>2, <2>3 DEF AnswersStandWhileAsking
  <1>14. ASSUME NEW i \in DOMAIN tries, NEW t \in Tools, Measured!Ask(i, t)
         PROVE  AnswersStandWhileAsking'
    BY <1>14, AskIsCovered
  <1>15. ASSUME NEW i \in DOMAIN tries, NEW o \in {"SUCCESS", "FAILURE"}, Measured!Run(i, o)
         PROVE  AnswersStandWhileAsking'
    BY <1>15, RunIsCovered
  <1>16. CASE UNCHANGED Measured!vars
    BY <1>4, <1>16 DEF Measured!vars, Measured!volatile
  <1>17. QED
    BY <1>2, <1>3, <1>5, <1>6, <1>7, <1>8, <1>10, <1>11, <1>12, <1>13, <1>14, <1>15, <1>16
       DEF Measured!Next

THEOREM ConsentInvariant == Measured!Spec => []AnswersStandWhileAsking
  <1>1. Measured!Init => AnswersStandWhileAsking
    BY DEF Measured!Init, AnswersStandWhileAsking
  <1>2. QED
    BY <1>1, ConsentStep, PTL DEF Measured!Spec

\* Whatever scenarios are run one after the other, and whatever tasks an earlier one
\* left at work, no guarded tool runs, now or later, on a yes given while no scenario
\* that declares one was being asked.
THEOREM OnlyDeclaredAnswers == Measured!Spec => []ConsentIsDeclared
  <1>1. AnswersStandWhileAsking => ConsentIsDeclared
    <2> SUFFICES ASSUME AnswersStandWhileAsking, NEW i \in DOMAIN tries,
                        NEW c \in Measured!ToSet(tries[i].log) \cup tries[i].pending,
                        c.tool \in Guarded, c.result # "DENIED"
                 PROVE  c.tool \in c.declared
      BY DEF ConsentIsDeclared, Measured!ConsentIsDeclared
    <2>1. Sound(tries[i])
      BY DEF AnswersStandWhileAsking
    <2>2. CASE c \in tries[i].pending
      BY <2>1, <2>2 DEF Sound, Agreed
    <2>3. CASE c \in Measured!ToSet(tries[i].log)
      <3>1. PICK n \in 1..Len(tries[i].log) : c = tries[i].log[n]
        BY <2>1, <2>3 DEF Sound, Measured!ToSet
      <3>2. Covered(c)
        BY <2>1, <3>1 DEF Sound
      <3>3. QED
        BY <3>2 DEF Covered, Agreed
    <2>4. QED
      BY <2>2, <2>3
  <1>2. QED
    BY <1>1, ConsentInvariant, PTL

\* An earlier run that left tasks at work.
LeftBefore(n) == \E m \in 1..n : truth[m].left

\* The run that is under way has an exception to show for what it left at work.
Raised == stage = "gathering" /\ result.error # "NONE"

\* Rows of one another's length; a mark that tells what was written from what was
\* there before; and nobody is left at work, or writes, but after a run that left him.
MarksTellApart ==
  /\ \E rows, truths : history \in Seq(rows) /\ truth \in Seq(truths)
  /\ Len(history) = Len(truth)
  /\ file.there => file.mark # 0
  /\ stage \in {"asking", "gathering"} /\ Measured!Files =>
       rewritten \cap {"running", "left"} # {}
  /\ \A i \in DOMAIN tries : "state" \in DOMAIN tries[i]
  /\ Measured!In("left") # {} => LeftBefore(Len(truth)) \/ Raised
  /\ "left" \in rewritten => LeftBefore(Len(truth)) \/ Raised
  /\ PassesAreEarned

\* A row more, and what was so of that run.
LEMMA OneRowMore ==
  ASSUME MarksTellApart, NEW r, NEW so, history' = Append(history, r),
         truth' = Append(truth, so),
         r.status = "PASSED" /\ Declared[r.scenario].file =>
           "running" \in so.wrote \/ ("left" \in so.wrote /\ LeftBefore(Len(truth)))
  PROVE  /\ \E rows, truths : history' \in Seq(rows) /\ truth' \in Seq(truths)
         /\ Len(history') = Len(truth') /\ Len(truth') = Len(truth) + 1
         /\ LeftBefore(Len(truth)) \/ so.left => LeftBefore(Len(truth))'
         /\ PassesAreEarned'
  <1>1. PICK rows, truths : history \in Seq(rows) /\ truth \in Seq(truths)
    BY DEF MarksTellApart
  <1>2. /\ history \in Seq(rows \cup {r}) /\ truth \in Seq(truths \cup {so})
        /\ Len(history) = Len(truth)
    BY <1>1 DEF MarksTellApart
  <1>3. history' \in Seq(rows \cup {r}) /\ truth' \in Seq(truths \cup {so})
    BY <1>2
  <1>4. /\ Len(history') = Len(truth') /\ DOMAIN history' = 1..(Len(history) + 1)
        /\ Len(truth') = Len(truth) + 1
        /\ \A n \in 1..Len(history) : history'[n] = history[n] /\ truth'[n] = truth[n]
        /\ history'[Len(history) + 1] = r /\ truth'[Len(history) + 1] = so
        /\ DOMAIN history = 1..Len(history) /\ Len(history) \in Nat
    BY <1>2
  <1>5. ASSUME NEW n \in DOMAIN history', history'[n].status = "PASSED",
               Declared[history'[n].scenario].file
        PROVE  \/ "running" \in truth'[n].wrote
               \/ "left" \in truth'[n].wrote /\ \E m \in 1..(n - 1) : truth'[m].left
    <2>1. CASE n \in 1..Len(history)
      <3>1. /\ history'[n] = history[n] /\ truth'[n] = truth[n] /\ n \in DOMAIN history
            /\ \A m \in 1..(n - 1) : truth'[m] = truth[m]
        BY <1>4, <2>1
      <3>2. \/ "running" \in truth[n].wrote
            \/ "left" \in truth[n].wrote /\ \E m \in 1..(n - 1) : truth[m].left
        BY <1>5, <3>1 DEF MarksTellApart, PassesAreEarned, Measured!PassesAreEarned
      <3>3. QED
        BY <3>1, <3>2
    <2>2. CASE n = Len(history) + 1
      <3>1. /\ history'[n] = r /\ truth'[n] = so /\ 1..(n - 1) = 1..Len(truth)
            /\ \A m \in 1..(n - 1) : truth'[m] = truth[m]
        BY <1>2, <1>4, <2>2
      <3>2. "running" \in so.wrote \/ ("left" \in so.wrote /\ LeftBefore(Len(truth)))
        BY <1>5, <3>1
      <3>3. QED
        BY <3>1, <3>2 DEF LeftBefore
    <2>3. QED
      BY <1>4, <2>1, <2>2
  <1>6. PassesAreEarned'
    BY <1>5 DEF PassesAreEarned, Measured!PassesAreEarned
  <1>7. LeftBefore(Len(truth)) \/ so.left => LeftBefore(Len(truth))'
    <2>1. CASE so.left
      <3>1. Len(history) + 1 \in 1..Len(truth') /\ truth'[Len(history) + 1].left
        BY <1>2, <1>4, <2>1
      <3>2. QED
        BY <3>1 DEF LeftBefore
    <2>2. CASE LeftBefore(Len(truth))
      <3>1. PICK m \in 1..Len(truth) : truth[m].left
        BY <2>2 DEF LeftBefore
      <3>2. m \in 1..Len(truth') /\ truth'[m] = truth[m]
        BY <1>2, <1>4, <3>1
      <3>3. QED
        BY <3>1, <3>2 DEF LeftBefore
    <2>3. QED
      BY <2>1, <2>2
  <1>8. QED
    BY <1>3, <1>4, <1>6, <1>7

\* The least mark that is not in use is one nobody has.
LEMMA StampIsNew ==
  /\ Measured!Stamp \in 1..3 /\ Measured!Stamp # 0
  /\ Measured!Stamp # file.mark /\ Measured!Stamp # before
  <1>1. \E m \in 1..3 : m \notin {file.mark, before}
    OBVIOUS
  <1>2. QED
    BY <1>1 DEF Measured!Stamp

\* Steps that write no row.
LEMMA NoRow ==
  ASSUME MarksTellApart, UNCHANGED <<history, truth>>,
         file'.there => file'.mark # 0,
         stage' \in {"asking", "gathering"} /\ Measured!Files' =>
           rewritten' \cap {"running", "left"} # {},
         \A i \in DOMAIN tries' : "state" \in DOMAIN tries'[i],
         Measured!In("left")' # {} \/ "left" \in rewritten' =>
           LeftBefore(Len(truth)) \/ Raised'
  PROVE  MarksTellApart'
  BY DEF MarksTellApart, PassesAreEarned, Measured!PassesAreEarned, LeftBefore

\* Steps of the tasks at work that write nothing to the file.
LEMMA NothingWritten ==
  ASSUME MarksTellApart, UNCHANGED <<stage, result, before, file, rewritten, history, truth>>,
         \A i \in DOMAIN tries' :
           /\ "state" \in DOMAIN tries'[i]
           /\ tries'[i].state = "left" => i \in Measured!In("left")
  PROVE  MarksTellApart'
  <1>1. Measured!In("left")' # {} => Measured!In("left") # {}
    BY DEF Measured!In
  <1>2. Measured!Files' => Measured!Files
    BY DEF Measured!Files
  <1>3. Raised' <=> Raised
    BY DEF Raised
  <1>4. QED
    BY <1>1, <1>2, <1>3, NoRow DEF MarksTellApart

\* What an earlier run left at work is all that is left of a run.
LEMMA WhatIsLeft ==
  ASSUME MarksTellApart, NEW rest, Measured!Leave(rest)
  PROVE  /\ stage' = "idle" /\ rewritten' = {}
         /\ \A i \in DOMAIN tries' : "state" \in DOMAIN tries'[i]
         /\ Measured!In("left")' # {} => Measured!In("left") # {}
  BY DEF Measured!Leave, Measured!In, MarksTellApart

\* The verdict of a run, and its row.
LEMMA ARow ==
  ASSUME MarksTellApart, NEW s, NEW f, NEW status, NEW so, NEW rest,
         history' = Append(history, [scenario |-> s, status |-> status, failure |-> f]),
         truth' = Append(truth, so),
         status = "PASSED" /\ Declared[s].file =>
           "running" \in so.wrote \/ ("left" \in so.wrote /\ LeftBefore(Len(truth))),
         Measured!In("left") # {} => LeftBefore(Len(truth)) \/ so.left,
         file' = file, Measured!Leave(rest)
  PROVE  MarksTellApart'
  <1> DEFINE r == [scenario |-> s, status |-> status, failure |-> f]
  <1>1. history' = Append(history, r) /\ r.scenario = s /\ r.status = status
    OBVIOUS
  <1> HIDE DEF r
  <1>2. /\ \E rows, truths : history' \in Seq(rows) /\ truth' \in Seq(truths)
        /\ Len(history') = Len(truth')
        /\ LeftBefore(Len(truth)) \/ so.left => LeftBefore(Len(truth))'
        /\ PassesAreEarned'
    BY <1>1, OneRowMore
  <1>3. file'.there => file'.mark # 0
    BY DEF MarksTellApart
  <1>4. /\ stage' = "idle" /\ rewritten' = {}
        /\ \A i \in DOMAIN tries' : "state" \in DOMAIN tries'[i]
        /\ Measured!In("left")' # {} => LeftBefore(Len(truth))'
    BY <1>2, WhatIsLeft
  <1>5. QED
    BY <1>2, <1>3, <1>4 DEF MarksTellApart

\* A task that runs its tool, and may write the file.
LEMMA RunMarks ==
  ASSUME MarksTellApart, NEW i \in DOMAIN tries, NEW o \in {"SUCCESS", "FAILURE"},
         Measured!Run(i, o)
  PROVE  MarksTellApart'
  <1>1. PICK c \in tries[i].pending :
          /\ i \in Measured!Working
          /\ tries' = [tries EXCEPT ![i].pending = {},
                                   ![i].log = Append(@, [c EXCEPT !.result = o])]
          /\ \/ /\ \E says \in BOOLEAN :
                     file' = [there |-> TRUE, mark |-> Measured!Stamp, says |-> says]
                /\ rewritten' = rewritten \cup {tries[i].state}
             \/ UNCHANGED <<file, rewritten>>
          /\ UNCHANGED <<stage, result, before, history, truth>>
    BY DEF Measured!Run
  <1>2. \A j \in DOMAIN tries' :
          /\ j \in DOMAIN tries /\ "state" \in DOMAIN tries'[j]
          /\ tries'[j].state = tries[j].state
    BY <1>1 DEF MarksTellApart
  <1>3. CASE UNCHANGED <<file, rewritten>>
    BY <1>1, <1>2, <1>3, NothingWritten DEF Measured!In
  <1>4. ASSUME NEW says \in BOOLEAN,
               file' = [there |-> TRUE, mark |-> Measured!Stamp, says |-> says],
               rewritten' = rewritten \cup {tries[i].state}
        PROVE  MarksTellApart'
    <2>1. file'.there => file'.mark # 0
      BY <1>4, StampIsNew
    <2>2. tries[i].state \in {"running", "left"}
      BY <1>1 DEF Measured!Working, Measured!In
    <2>3. rewritten' \cap {"running", "left"} # {}
      BY <1>4, <2>2
    <2>4. Measured!In("left")' \subseteq Measured!In("left")
      BY <1>2 DEF Measured!In
    <2>5. "left" \in rewritten' => "left" \in rewritten \/ Measured!In("left") # {}
      BY <1>4 DEF Measured!In
    <2>6. Raised' <=> Raised
      BY <1>1 DEF Raised
    <2>7. Measured!In("left")' # {} \/ "left" \in rewritten' =>
            LeftBefore(Len(truth)) \/ Raised'
      BY <2>4, <2>5, <2>6 DEF MarksTellApart
    <2>8. QED
      BY <1>1, <1>2, <2>1, <2>3, <2>7, NoRow
  <1>5. QED
    BY <1>1, <1>3, <1>4

LEMMA MarksStep == MarksTellApart /\ [Measured!Next]_(Measured!vars) => MarksTellApart'
  <1> SUFFICES ASSUME MarksTellApart, [Measured!Next]_(Measured!vars)
               PROVE  MarksTellApart'
    OBVIOUS
  <1>1. CASE Measured!Skip
    <2> DEFINE so == [wrote |-> {}, broke |-> FALSE, left |-> FALSE]
    <2>1. /\ history' = Append(history, [scenario |-> Head(queue), status |-> "SKIPPED",
                                         failure |-> "NONE"])
          /\ truth' = Append(truth, so) /\ Measured!Leave(Tail(queue)) /\ file' = file
          /\ stage = "idle"
      BY <1>1 DEF Measured!Skip
    <2>2. Measured!In("left") # {} => LeftBefore(Len(truth))
      BY <2>1 DEF MarksTellApart, Raised
    <2> HIDE DEF so
    <2>3. QED
      BY <2>1, <2>2, ARow
  <1>2. ASSUME NEW b \in BOOLEAN, Measured!Conclude(b) PROVE MarksTellApart'
    <2> DEFINE s == Head(queue)
               failure == Measured!Classify(s, b)
               passed == failure = "NONE" /\ Measured!Failed(s) = {}
               broke == Declared[s].forbidden
                          \cap Measured!Calls(DOMAIN tries \ Measured!In("left"), "SUCCESS") # {}
               left == Measured!In("left") # {}
               so == [wrote |-> rewritten, left |-> left, broke |-> broke]
    <2>1. /\ history' = Append(history, [scenario |-> s, failure |-> failure,
                                         status |-> IF passed THEN "PASSED" ELSE "FAILED"])
          /\ truth' = Append(truth, so)
          /\ Measured!Leave(Tail(queue)) /\ file' = file /\ stage = "gathering"
      BY <1>2 DEF Measured!Conclude
    <2>2. passed /\ Declared[s].file =>
            "running" \in so.wrote \/ ("left" \in so.wrote /\ LeftBefore(Len(truth)))
      <3> SUFFICES ASSUME passed, Declared[s].file
                   PROVE  "running" \in rewritten \/ ("left" \in rewritten /\ LeftBefore(Len(truth)))
        OBVIOUS
      <3>1. Measured!Files
        BY DEF Measured!Failed
      <3>2. result.error = "NONE"
        BY DEF Measured!Classify
      <3>3. QED
        BY <2>1, <3>1, <3>2 DEF MarksTellApart, Raised
    <2>3. Measured!In("left") # {} => so.left
      OBVIOUS
    <2> HIDE DEF s, failure, passed, so
    <2>4. QED
      BY <2>1, <2>2, <2>3, ARow
  <1>3. ASSUME NEW rest, Measured!Leave(rest), UNCHANGED <<file, history, truth>>,
               Raised => FALSE
        PROVE  MarksTellApart'
    BY <1>3, NoRow, WhatIsLeft DEF MarksTellApart
  <1>4. ASSUME Measured!Leave(<< >>), UNCHANGED <<file, history, truth>>
        PROVE  MarksTellApart'
    <2>1. Measured!In("left")' = {}
      BY <1>4 DEF Measured!Leave, Measured!In
    <2>2. QED
      BY <1>4, <2>1, NoRow, WhatIsLeft DEF MarksTellApart
  <1>5. CASE Measured!Abandon \/ Measured!Kill
    BY <1>4, <1>5 DEF Measured!Abandon, Measured!Kill
  <1>6. ASSUME NEW chosen, Measured!Choose(chosen) PROVE MarksTellApart'
    BY <1>6, NothingWritten DEF Measured!Choose, Measured!In, MarksTellApart
  <1>7. CASE Measured!Prepare
    <2>1. /\ UNCHANGED <<history, truth, tries, rewritten, result>>
          /\ stage = "idle" /\ stage' = "prepared"
          /\ \/ file' = [there |-> TRUE, mark |-> Measured!Stamp, says |-> TRUE]
             \/ file' = [there |-> FALSE, mark |-> 0, says |-> FALSE]
             \/ file' = file
      BY <1>7 DEF Measured!Prepare, Measured!Absent
    <2>2. file'.there => file'.mark # 0
      BY <2>1, StampIsNew DEF MarksTellApart
    <2>3. QED
      BY <2>1, <2>2, NoRow DEF MarksTellApart, Measured!In, Raised
  <1>8. CASE Measured!TakeMarks
    <2>1. /\ UNCHANGED <<file, history, truth, tries>> /\ rewritten' = {}
          /\ before' = IF file.there THEN file.mark ELSE 0
          /\ stage = "prepared"
      BY <1>8 DEF Measured!TakeMarks
    <2>2. ~Measured!Files'
      BY <2>1 DEF Measured!Files, MarksTellApart
    <2>3. QED
      BY <2>1, <2>2, NoRow DEF MarksTellApart, Measured!In, Raised
  <1>9. ASSUME NEW i \in DOMAIN tries, NEW t \in Tools, Measured!Ask(i, t)
        PROVE  MarksTellApart'
    <2>1. /\ UNCHANGED <<stage, result, before, file, rewritten, history, truth>>
          /\ DOMAIN tries' = DOMAIN tries
          /\ \A j \in DOMAIN tries : "state" \in DOMAIN tries'[j]
                                       /\ tries'[j].state = tries[j].state
      BY <1>9 DEF Measured!Ask, MarksTellApart
    <2>2. QED
      BY <2>1, NothingWritten DEF Measured!In
  <1>10. ASSUME NEW i \in DOMAIN tries, NEW o \in {"SUCCESS", "FAILURE"}, Measured!Run(i, o)
         PROVE  MarksTellApart'
    BY <1>10, RunMarks
  <1>11. CASE Measured!Begin
    <2>1. /\ tries' = Measured!WithOneMore(tries) /\ Measured!Unused # {}
          /\ UNCHANGED <<stage, result, before, file, rewritten, history, truth>>
      BY <1>11 DEF Measured!Begin
    <2>2. \A j \in DOMAIN tries' :
            \/ tries'[j] = Measured!Task
            \/ j \in DOMAIN tries /\ tries'[j] = tries[j]
      BY <2>1, OneMore
    <2>3. "state" \in DOMAIN Measured!Task /\ Measured!Task.state # "left"
      BY DEF Measured!Task
    <2>4. QED
      BY <2>1, <2>2, <2>3, NothingWritten DEF MarksTellApart, Measured!In
  <1>12. ASSUME NEW i \in DOMAIN tries, Measured!End(i) PROVE MarksTellApart'
    <2>1. /\ UNCHANGED <<stage, result, before, file, rewritten, history, truth>>
          /\ tries' = [tries EXCEPT ![i].state = "ended"]
      BY <1>12 DEF Measured!End
    <2>2. \A j \in DOMAIN tries' : "state" \in DOMAIN tries'[j]
                                     /\ (tries'[j].state = "left" => tries[j].state = "left")
      BY <2>1 DEF MarksTellApart
    <2>3. QED
      BY <2>1, <2>2, NothingWritten DEF Measured!In
  <1>13. ASSUME NEW i \in DOMAIN tries, Measured!Replace(i) PROVE MarksTellApart'
    <2> DEFINE old == [tries EXCEPT ![i].state = "replaced"]
    <2>1. /\ tries' = Measured!WithOneMore(old) /\ Measured!Unused # {}
          /\ UNCHANGED <<stage, result, before, file, rewritten, history, truth>>
      BY <1>13 DEF Measured!Replace
    <2>2. /\ DOMAIN old = DOMAIN tries
          /\ \A j \in DOMAIN tries : "state" \in DOMAIN old[j]
                                       /\ (old[j].state = "left" => tries[j].state = "left")
      BY DEF MarksTellApart
    <2> HIDE DEF old
    <2>3. \A j \in DOMAIN tries' :
            \/ tries'[j] = Measured!Task
            \/ j \in DOMAIN tries /\ tries'[j] = old[j]
      BY <2>1, <2>2, OneMore
    <2>4. "state" \in DOMAIN Measured!Task /\ Measured!Task.state # "left"
      BY DEF Measured!Task
    <2>5. QED
      BY <2>1, <2>2, <2>3, <2>4, NothingWritten DEF Measured!In
  <1>14. ASSUME NEW b \in BOOLEAN, Measured!Answer(b) PROVE MarksTellApart'
    <2>1. /\ UNCHANGED <<before, file, rewritten, history, truth, tries>>
          /\ stage = "asking" /\ stage' = "gathering"
      BY <1>14 DEF Measured!Answer
    <2>2. QED
      BY <2>1, NoRow DEF MarksTellApart, Measured!In, Measured!Files, Raised
  <1>15. ASSUME NEW who, NEW k \in Errors, Measured!Raise(who, k) PROVE MarksTellApart'
    <2>1. /\ UNCHANGED <<before, file, rewritten, history, truth>>
          /\ stage = "asking" /\ stage' = "gathering"
          /\ result'.error = k
          /\ \A j \in DOMAIN tries' : "state" \in DOMAIN tries'[j]
      BY <1>15 DEF Measured!Raise, Measured!Leaving, Measured!NoResult, MarksTellApart
    <2>2. k # "NONE"
      BY ErrorsAreKinds
    <2>3. Raised'
      BY <2>1, <2>2 DEF Raised
    <2>4. QED
      BY <2>1, <2>3, NoRow DEF MarksTellApart, Measured!Files
  <1>16. CASE UNCHANGED Measured!vars
    BY <1>16, NothingWritten DEF Measured!vars, Measured!volatile, Measured!In, MarksTellApart
  <1>17. QED
    BY <1>1, <1>2, <1>5, <1>6, <1>7, <1>8, <1>9, <1>10, <1>11, <1>12, <1>13, <1>14,
       <1>15, <1>16 DEF Measured!Next

\* However many runs follow each other in one directory, a run that passed with a file
\* to show wrote it, or a task did that a run before it had left at work.
THEOREM PassedRunsWrote == Measured!Spec => []PassesAreEarned
  <1>1. Measured!Init => MarksTellApart
    <2>1. << >> \in Seq({})
      OBVIOUS
    <2>2. Measured!Init => /\ Len(history) = Len(truth) /\ ~file.there /\ PassesAreEarned
                           /\ stage = "idle" /\ history = << >> /\ truth = << >>
                           /\ rewritten = {} /\ DOMAIN tries = {}
      BY DEF Measured!Init, Measured!Absent, PassesAreEarned, Measured!PassesAreEarned
    <2>3. QED
      BY <2>1, <2>2 DEF MarksTellApart, Measured!In
  <1>2. MarksTellApart => PassesAreEarned
    BY DEF MarksTellApart
  <1>3. QED
    BY <1>1, <1>2, MarksStep, PTL DEF Measured!Spec

-----------------------------------------------------------------------------
(* The two side by side, as they are checked *)

\* Of each of the two, what they do side by side is a behaviour of it alone, so that
\* what is proved of each holds of the composition a run checks.
THEOREM PartsMoveAlone == AllSpec => Spec /\ Measured!Spec
  <1>1. AllInit => Init /\ Measured!Init
    BY DEF AllInit
  <1>2. [AllNext]_<<part, vars, suite>> => [Next]_vars /\ [Measured!Next]_(Measured!vars)
    BY DEF AllNext, suite, Measured!vars, Measured!volatile
  <1>3. QED
    BY <1>1, <1>2, PTL DEF AllSpec, Spec, Measured!Spec

\* The safety properties a run checks of the two hold for all values of the constants.
THEOREM ApprovalsAreSafe ==
  AllSpec => ToldOnceWithConsent /\ []PassesAreEarned /\ []ConsentIsDeclared
  BY PartsMoveAlone, LocalKeepsConsent, PassedRunsWrote, OnlyDeclaredAnswers
=============================================================================
