-------------------------- MODULE SupervisionProofs --------------------------
(***************************************************************************)
(* Supervision, proved for any plan, any workforce and any bounds: what an *)
(* employee works from, when the answer is given, and what the rows say.   *)
(***************************************************************************)
EXTENDS Supervision, TLAPS

USE SupervisionAssumption

\* Every kind of ending calls for one of the four recoveries (recovery_for).
LEMMA RecoveryTyped ==
  ASSUME NEW kind
  PROVE  RecoveryFor(kind) \in {"NONE", "RETRY", "REASSIGN", "REPLAN", "GIVE_UP"}
BY Zenon DEF RecoveryFor

\* Whoever is chosen is declared, and nobody is only when nobody is listed or offers
\* what the task needs (CapabilityDelegator.choose).
LEMMA CandidatesDeclared ==
  ASSUME NEW t \in Tasks, staff \in {Employees, {}}
  PROVE  /\ Candidates(t) \subseteq Employees
         /\ Candidates(t) = {} => staff = {} /\ Offering[t] = {}
BY DEF Candidates

\* A task that was lost stays lost until the next wave, or plan.
LEMMA NobodyStays ==
  ASSUME NobodyWasFound, staff' = staff,
         \A t \in Tasks : carry[t] = "lost" => carry'[t] = "lost"
  PROVE  NobodyWasFound'
BY DEF NobodyWasFound

\* The initial state satisfies the invariant.
LEMMA InitInvariant == Init => IndInv
BY DEF Init, IndInv, TypeOK, LoopKnowsItsWave, StagesAreKept, WorksFromAcceptedResults,
       AnswerEndsTheWork, RecordsAgree, Needs, Live, Revisions, Kinds

\* A step of handle_objective outside the supervisor's loop.
LEMMA ManagerKeeps ==
  ASSUME IndInv,
         \/ Understand \/ AnswerDirectly \/ StartWork \/ MakePlan \/ ObjectiveRuns \/ PlanRuns
         \/ Reconcile \/ Verify \/ Replan \/ NoMoreRevisions \/ Deliver \/ Escalate \/ Fails
  PROVE  IndInv'
<1> USE DEF IndInv, TypeOK, LoopKnowsItsWave, StagesAreKept, WorksFromAcceptedResults,
            AnswerEndsTheWork, RecordsAgree, NobodyWasFound, Needs, Live, Revisions,
            record, crew
<1>1. CASE Understand BY <1>1 DEF Understand
<1>2. CASE AnswerDirectly BY <1>2 DEF AnswerDirectly
<1>3. CASE StartWork BY <1>3 DEF StartWork
<1>4. CASE MakePlan BY <1>4 DEF MakePlan, Rested, Kinds
<1>5. CASE ObjectiveRuns BY <1>5 DEF ObjectiveRuns
<1>6. CASE PlanRuns BY <1>6 DEF PlanRuns
<1>7. CASE Reconcile BY <1>7 DEF Reconcile
<1>8. CASE Verify
  <2>1. stage = "verifying" /\ stage' \in {"delivering", "rejected"} BY <1>8 DEF Verify
  <2>2. /\ stage' = "delivering" => plans' = [plans EXCEPT ![revision] = "DONE"]
        /\ stage' = "rejected" => plans' = [plans EXCEPT ![revision] = "FAILED"]
        BY <1>8 DEF Verify
  <2>3. UNCHANGED <<objective, revision, staff, edges, wave, carry, attempt, avoid, by,
                    outcome, done, recovery, runs>>
        BY <1>8 DEF Verify
  <2>4. TypeOK' BY <2>1, <2>2, <2>3
  <2> QED BY <2>1, <2>2, <2>3, <2>4
<1>9. CASE Replan BY <1>9 DEF Replan
<1>10. CASE NoMoreRevisions BY <1>10 DEF NoMoreRevisions
<1>11. CASE Deliver BY <1>11 DEF Deliver
<1>12. CASE Escalate BY <1>12 DEF Escalate
<1>13. CASE Fails BY <1>13 DEF Fails
<1> QED BY <1>1, <1>2, <1>3, <1>4, <1>5, <1>6, <1>7, <1>8, <1>9, <1>10, <1>11, <1>12, <1>13

\* A step of the supervisor's loop, of a coroutine it awaits, or a kill.
LEMMA CrewKeeps ==
  ASSUME IndInv,
         \/ StartWave \/ EndWave \/ Supervised \/ Killed
         \/ \E t \in Tasks : Take(t) \/ Choose(t) \/ NobodyToAsk(t) \/ Return(t) \/ CarryFails(t)
  PROVE  IndInv'
<1> USE DEF IndInv, TypeOK, LoopKnowsItsWave, StagesAreKept, WorksFromAcceptedResults,
            AnswerEndsTheWork, RecordsAgree, NobodyWasFound, Needs, Live, Revisions,
            record, crew
<1>1. CASE StartWave BY <1>1 DEF StartWave, Ready
<1>2. CASE EndWave
  <2>1. recovery' \in {"NONE", "RETRY", "REASSIGN", "REPLAN", "GIVE_UP"}
        BY <1>2, RecoveryTyped DEF EndWave
  <2>2. /\ done' = done \cup (wave \ {t \in wave : ~Succeeded(t)})
        /\ UNCHANGED <<objective, plans, stage, revision, staff, edges, runs, outcome>>
        /\ stage = "supervising"
        BY <1>2 DEF EndWave, Rested
  <2>3. /\ wave' = {} /\ carry' = [t \in Tasks |-> "none"]
        /\ attempt' = [t \in Tasks |-> 0] /\ avoid' = [t \in Tasks |-> {}]
        /\ by' = [t \in Tasks |-> "nobody"]
        BY <1>2 DEF EndWave, Rested
  <2>4. done' \subseteq Tasks /\ \A d \in done' : outcome[d] = "accepted"
        BY <2>2 DEF Succeeded
  <2>5. TypeOK' BY <2>1, <2>2, <2>3, <2>4
  <2>6. LoopKnowsItsWave' BY <2>2, <2>3, <2>4
  <2>7. WorksFromAcceptedResults' BY <2>2, <2>3
  <2> QED BY <2>2, <2>3, <2>5, <2>6, <2>7
<1>3. CASE Supervised BY <1>3 DEF Supervised
<1>4. CASE Killed BY <1>4 DEF Killed
<1>5. ASSUME NEW t \in Tasks, Take(t) PROVE IndInv'
  <2>1. /\ carry[t] = "queued" /\ carry' = [carry EXCEPT ![t] = "choosing"]
        /\ attempt' = [attempt EXCEPT ![t] = 1]
        /\ UNCHANGED <<objective, plans, stage, revision, staff, edges, wave, avoid, by,
                       outcome, done, recovery, runs>>
        BY <1>5 DEF Take
  <2>2. TypeOK' BY <2>1
  <2>3. LoopKnowsItsWave' /\ WorksFromAcceptedResults' BY <2>1
  <2>4. StagesAreKept' BY <2>1
  <2>5. AnswerEndsTheWork' /\ RecordsAgree' BY <2>1
  <2> QED BY <2>2, <2>3, <2>4, <2>5
<1>6. ASSUME NEW t \in Tasks, Choose(t) PROVE IndInv'
  <2>1. PICK e \in Candidates(t) : by' = [by EXCEPT ![t] = e] BY <1>6 DEF Choose
  <2>2. e \in Employees BY <2>1, CandidatesDeclared
  <2>3. /\ carry[t] = "choosing" /\ carry' = [carry EXCEPT ![t] = "running"]
        /\ runs' = runs + 1
        /\ UNCHANGED <<objective, plans, stage, revision, staff, edges, wave, attempt, avoid,
                       outcome, done, recovery>>
        BY <1>6 DEF Choose
  <2>4. TypeOK' BY <2>1, <2>2, <2>3
  <2>5. LoopKnowsItsWave' BY <2>1, <2>2, <2>3
  <2>6. WorksFromAcceptedResults' BY <2>3
  <2>7. StagesAreKept' BY <2>2, <2>3
  <2>8. AnswerEndsTheWork' /\ RecordsAgree' BY <2>2, <2>3
  <2> QED BY <2>4, <2>5, <2>6, <2>7, <2>8
<1>7. ASSUME NEW t \in Tasks, NobodyToAsk(t) PROVE IndInv'
  <2>1. staff = {} /\ Offering[t] = {} BY <1>7, CandidatesDeclared DEF NobodyToAsk
  <2>2. /\ carry[t] = "choosing" /\ carry' = [carry EXCEPT ![t] = "lost"]
        /\ \/ stage = "supervising" /\ stage' = "over" /\ objective' = "ESCALATED"
           \/ stage # "supervising" /\ UNCHANGED <<stage, objective>>
        /\ UNCHANGED <<plans, revision, staff, edges, wave, attempt, avoid, by, outcome,
                       done, recovery, runs>>
        BY <1>7 DEF NobodyToAsk
  <2>3. TypeOK' BY <2>2
  <2>4. LoopKnowsItsWave' /\ WorksFromAcceptedResults' BY <2>2
  <2>5. StagesAreKept' BY <2>1, <2>2
  <2>6. AnswerEndsTheWork' /\ RecordsAgree' BY <2>1, <2>2
  <2> QED BY <2>3, <2>4, <2>5, <2>6
<1>8. ASSUME NEW t \in Tasks, Return(t) PROVE IndInv'
  <2>1. PICK kind \in Kinds : outcome' = [outcome EXCEPT ![t] = kind]
                               /\ IF WorthAnother(t, kind)
                                    THEN TryAgain(t, kind)
                                    ELSE carry' = [carry EXCEPT ![t] = "finished"]
                                         /\ UNCHANGED <<attempt, avoid>>
        BY <1>8 DEF Return
  <2>2. /\ carry[t] = "running"
        /\ UNCHANGED <<objective, plans, stage, revision, staff, edges, wave, by, done,
                       recovery, runs>>
        BY <1>8 DEF Return
  <2>3. /\ carry' \in {[carry EXCEPT ![t] = "choosing"], [carry EXCEPT ![t] = "finished"]}
        /\ attempt' \in [Tasks -> 0 .. MaxAttempts]
        BY <2>1 DEF WorthAnother, TryAgain
  <2>5. avoid' \in [Tasks -> SUBSET Employees]
        <3>1. by[t] \in Employees BY <2>2
        <3> QED BY <3>1, <2>1 DEF TryAgain
  <2>6. TypeOK'
        <3>1. carry' \in [Tasks -> {"none", "queued", "choosing", "running", "finished", "lost"}]
              BY <2>3
        <3>2. outcome' \in [Tasks -> Kinds \cup {"none"}] BY <2>1
        <3> QED BY <2>2, <2>3, <2>5, <3>1, <3>2
  <2>7. t \in wave /\ t \notin done BY <2>2
  <2>8. LoopKnowsItsWave' BY <2>1, <2>2, <2>3, <2>7
  <2>9. WorksFromAcceptedResults' BY <2>1, <2>2, <2>3, <2>7
  <2>10. /\ \A u \in Tasks : u # t => carry'[u] = carry[u]
         /\ stage \in {"supervising", "over", "raised"}
         BY <2>2, <2>3
  <2>11. NobodyWasFound => NobodyWasFound' BY <2>2, <2>10, NobodyStays
  <2>12. StagesAreKept' BY <2>2, <2>10, <2>11
  <2>13. AnswerEndsTheWork' /\ RecordsAgree' BY <2>2, <2>10, <2>11
  <2> QED BY <2>6, <2>8, <2>9, <2>12, <2>13
<1>9. ASSUME NEW t \in Tasks, CarryFails(t) PROVE IndInv'
  <2>1. /\ carry[t] \in {"choosing", "running"} /\ carry' = [carry EXCEPT ![t] = "lost"]
        /\ stage' = IF stage = "supervising" THEN "raised" ELSE stage
        /\ UNCHANGED <<objective, plans, revision, staff, edges, wave, attempt, avoid, by,
                       outcome, done, recovery, runs>>
        BY <1>9 DEF CarryFails
  <2>2. /\ \A u \in Tasks : u # t => carry'[u] = carry[u]
        /\ carry'[t] = "lost" /\ stage \in {"supervising", "over", "raised"}
        BY <2>1
  <2>3. NobodyWasFound => NobodyWasFound' BY <2>1, <2>2, NobodyStays
  <2>4. TypeOK' BY <2>1
  <2>5. LoopKnowsItsWave' /\ WorksFromAcceptedResults' BY <2>1, <2>2
  <2>6. StagesAreKept' BY <2>1, <2>2, <2>3
  <2>7. AnswerEndsTheWork' /\ RecordsAgree' BY <2>1, <2>2, <2>3
  <2> QED BY <2>4, <2>5, <2>6, <2>7
<1> QED BY <1>1, <1>2, <1>3, <1>4, <1>5, <1>6, <1>7, <1>8, <1>9

\* The invariant holds throughout every behaviour.
THEOREM SupervisionInvariant == Spec => []IndInv
<1>1. ASSUME IndInv, [Next]_vars PROVE IndInv'
  <2>1. CASE UNCHANGED vars
    <3> USE <1>1, <2>1 DEF vars, record, crew, IndInv
    <3>1. NobodyWasFound' <=> NobodyWasFound BY DEF NobodyWasFound
    <3>2. TypeOK' BY DEF TypeOK, Revisions
    <3>3. LoopKnowsItsWave' BY DEF LoopKnowsItsWave, Needs
    <3>4. StagesAreKept' BY <3>1 DEF StagesAreKept
    <3>5. WorksFromAcceptedResults' BY DEF WorksFromAcceptedResults, Needs, Live
    <3>6. AnswerEndsTheWork' BY <3>1 DEF AnswerEndsTheWork
    <3>7. RecordsAgree' BY <3>1 DEF RecordsAgree, Revisions
    <3> QED BY <3>2, <3>3, <3>4, <3>5, <3>6, <3>7
  <2>2. CASE Next
        BY <1>1, <2>2, ManagerKeeps, CrewKeeps DEF Next, Manager, Employee
  <2> QED BY <1>1, <2>1, <2>2
<1> QED BY InitInvariant, <1>1, PTL DEF Spec

\* Whatever the plan's shape and however often its tasks are tried again, an
\* employee is only ever given work whose dependencies were accepted.
THEOREM NobodyWorksFromNothing == Spec => []WorksFromAcceptedResults
<1>1. IndInv => WorksFromAcceptedResults BY DEF IndInv
<1> QED BY SupervisionInvariant, <1>1, PTL

\* When the result is delivered none of the objective's employees is at work, and when
\* it was handed back only beside a task nobody could be found for.
THEOREM TheAnswerIsTheEnd == Spec => []AnswerEndsTheWork
<1>1. IndInv => AnswerEndsTheWork BY DEF IndInv
<1> QED BY SupervisionInvariant, <1>1, PTL

\* The rows of an objective and of its plans agree in every state a process can
\* die in.
THEOREM RowsTellOneStory == Spec => []RecordsAgree
<1>1. IndInv => RecordsAgree BY DEF IndInv
<1> QED BY SupervisionInvariant, <1>1, PTL
=============================================================================
