----------------------------- MODULE RunsProofs -----------------------------
(***************************************************************************)
(* The register of live runs, for any number of tasks and objectives: a    *)
(* cancellation never outlives its run, and a shutdown leaves every row    *)
(* finished or where `resume` finds it.  Then the streams of their         *)
(* progress: who keeps up is told everything.                              *)
(***************************************************************************)
EXTENDS MCRuns, Sequences, TLAPS

LEMMA InitIndInv == Init => IndInv
  BY DEF Init, IndInv, TypeOK, Places, Tasks, SignalsHaveRuns, LoopsAccountedFor,
         ParkedRowsHaveLoops, ClosingStopsAll

\* Interrupting some coroutines types and places: a parked one is restored.
LEMMA InterruptFacts ==
  ASSUME TypeOK, NEW hit, Interrupt(hit)
  PROVE  /\ row' \in [Tasks -> Statuses \cup {"ABSENT"}]
         /\ loop' \in [Tasks -> Places]
         /\ \A t \in Tasks :
              /\ t \notin hit => row'[t] = row[t] /\ loop'[t] = loop[t]
              /\ t \in hit =>
                   /\ loop'[t] \notin {"submitted", "working", "parked"}
                   /\ loop[t] \in {"submitted", "working", "parked"} => loop'[t] = "ended"
                   /\ loop[t] \notin {"submitted", "working", "parked"} => loop'[t] = loop[t]
                   /\ loop[t] = "parked" => row'[t] = "RUNNING"
                   /\ loop[t] # "parked" => row'[t] = row[t]
  <1>1. "RUNNING" \in Statuses /\ "ended" \in Places
    BY DEF Statuses, Places
  <1>2. QED
    BY <1>1 DEF TypeOK, Interrupt

LEMMA NextIndInv == IndInv /\ [Next]_vars => IndInv'
  <1> SUFFICES ASSUME IndInv, [Next]_vars PROVE IndInv'
    OBVIOUS
  <1>a. Owner \in [Delegated -> Objectives] /\ Direct \cap Delegated = {}
    BY RunsAssumption
  <1>b. /\ {"CREATED", "RUNNING", "WAITING_FOR_APPROVAL", "COMPLETED", "FAILED",
            "CANCELLED"} \subseteq Statuses
        /\ {"submitted", "working", "parked", "ended", "gone"} \subseteq Places
    BY DEF Statuses, Places
  <1> USE <1>a, <1>b DEF IndInv, Tasks
  <1>1. ASSUME NEW t \in Tasks, Submit(t) PROVE IndInv'
    BY <1>1 DEF Submit, Moves, TypeOK, SignalsHaveRuns, LoopsAccountedFor,
                ParkedRowsHaveLoops, ClosingStopsAll
  <1>2. ASSUME NEW t \in Tasks, Begin(t) PROVE IndInv'
    BY <1>2 DEF Begin, TypeOK, SignalsHaveRuns, LoopsAccountedFor, ParkedRowsHaveLoops,
                ClosingStopsAll
  <1>3. ASSUME NEW t \in Tasks, Work(t) PROVE IndInv'
    BY <1>3 DEF Work, Moves, TypeOK, SignalsHaveRuns, LoopsAccountedFor,
                ParkedRowsHaveLoops, ClosingStopsAll
  <1>4. ASSUME NEW t \in Tasks, Park(t) PROVE IndInv'
    BY <1>4 DEF Park, Moves, TypeOK, SignalsHaveRuns, LoopsAccountedFor,
                ParkedRowsHaveLoops, ClosingStopsAll
  <1>5. ASSUME NEW t \in Tasks, Unpark(t) PROVE IndInv'
    BY <1>5 DEF Unpark, Moves, TypeOK, SignalsHaveRuns, LoopsAccountedFor,
                ParkedRowsHaveLoops, ClosingStopsAll
  <1>6. ASSUME NEW t \in Tasks, Finish(t) PROVE IndInv'
    BY <1>6 DEF Finish, Moves, TypeOK, SignalsHaveRuns, LoopsAccountedFor,
                ParkedRowsHaveLoops, ClosingStopsAll
  <1>7. ASSUME NEW t \in Tasks, Obey(t) PROVE IndInv'
    BY <1>7 DEF Obey, Moves, TypeOK, SignalsHaveRuns, LoopsAccountedFor,
                ParkedRowsHaveLoops, ClosingStopsAll
  <1>8. ASSUME NEW t \in Tasks, Finished(t) PROVE IndInv'
    BY <1>8 DEF Finished, TypeOK, SignalsHaveRuns, LoopsAccountedFor, ParkedRowsHaveLoops,
                ClosingStopsAll
  <1>9. ASSUME NEW t \in Tasks, CancelRead(t) \/ CancelIdle(t) PROVE IndInv'
    BY <1>9 DEF CancelRead, CancelIdle, TypeOK, SignalsHaveRuns, LoopsAccountedFor,
                ParkedRowsHaveLoops, ClosingStopsAll
  <1>10. ASSUME NEW t \in Tasks, CancelSignal(t) PROVE IndInv'
    BY <1>10 DEF CancelSignal, TypeOK, SignalsHaveRuns, LoopsAccountedFor,
                 ParkedRowsHaveLoops, ClosingStopsAll
  <1>11. ASSUME NEW t \in Tasks, CancelSave(t) PROVE IndInv'
    BY <1>11 DEF CancelSave, TypeOK, SignalsHaveRuns, LoopsAccountedFor,
                 ParkedRowsHaveLoops, ClosingStopsAll
  <1>12. ASSUME NEW o \in Objectives, Ask(o) PROVE IndInv'
    BY <1>12 DEF Ask, TypeOK, SignalsHaveRuns, LoopsAccountedFor, ParkedRowsHaveLoops,
                 ClosingStopsAll
  <1>13. ASSUME NEW o \in Objectives, ManagerEnds(o) PROVE IndInv'
    BY <1>13 DEF ManagerEnds, TypeOK, SignalsHaveRuns, LoopsAccountedFor,
                 ParkedRowsHaveLoops, ClosingStopsAll
  <1>14. ASSUME NEW o \in Objectives, CancelObjective(o) PROVE IndInv'
    <2>1. CASE objective[o] = "thinking"
      <3>1. Interrupt({t \in Delegated : Owner[t] = o})
        BY <1>14, <2>1 DEF CancelObjective
      <3>2. TypeOK' /\ SignalsHaveRuns'
        BY <1>14, <2>1, <3>1, InterruptFacts DEF CancelObjective, TypeOK, SignalsHaveRuns
      <3>3. LoopsAccountedFor'
        BY <1>14, <2>1, <3>1, InterruptFacts DEF CancelObjective, TypeOK, LoopsAccountedFor
      <3>4. ParkedRowsHaveLoops' /\ ClosingStopsAll'
        BY <1>14, <2>1, <3>1, InterruptFacts
           DEF CancelObjective, TypeOK, ParkedRowsHaveLoops, ClosingStopsAll
      <3>5. QED
        BY <3>2, <3>3, <3>4
    <2>2. CASE objective[o] # "thinking"
      BY <1>14, <2>2 DEF CancelObjective, TypeOK, SignalsHaveRuns, LoopsAccountedFor,
                         ParkedRowsHaveLoops, ClosingStopsAll
    <2>3. QED
      BY <2>1, <2>2
  <1>15. CASE Close
    <2>1. Interrupt({t \in Delegated : objective[Owner[t]] = "thinking"})
      BY <1>15 DEF Close
    <2>2. TypeOK' /\ SignalsHaveRuns'
      BY <1>15, <2>1, InterruptFacts DEF Close, TypeOK, SignalsHaveRuns
    <2>3. LoopsAccountedFor'
      BY <1>15, <2>1, InterruptFacts DEF Close, TypeOK, LoopsAccountedFor
    <2>4. ParkedRowsHaveLoops' /\ ClosingStopsAll'
      BY <1>15, <2>1, InterruptFacts DEF Close, TypeOK, ParkedRowsHaveLoops, ClosingStopsAll
    <2>5. QED
      BY <2>2, <2>3, <2>4
  <1>16. CASE GiveUp
    <2>1. Interrupt(running)
      BY <1>16 DEF GiveUp
    <2>2. TypeOK' /\ SignalsHaveRuns'
      BY <1>16, <2>1, InterruptFacts DEF GiveUp, TypeOK, SignalsHaveRuns
    <2>3. LoopsAccountedFor' /\ ParkedRowsHaveLoops'
      BY <1>16, <2>1, InterruptFacts DEF GiveUp, TypeOK, LoopsAccountedFor, ParkedRowsHaveLoops
    <2>4. ClosingStopsAll'
      BY <1>16, <2>1, InterruptFacts DEF GiveUp, TypeOK, LoopsAccountedFor, ClosingStopsAll
    <2>5. QED
      BY <2>2, <2>3, <2>4
  <1>17. CASE UNCHANGED vars
    BY <1>17 DEF vars, TypeOK, SignalsHaveRuns, LoopsAccountedFor, ParkedRowsHaveLoops,
                 ClosingStopsAll
  <1>18. QED
    BY <1>1, <1>2, <1>3, <1>4, <1>5, <1>6, <1>7, <1>8, <1>9, <1>10, <1>11, <1>12,
       <1>13, <1>14, <1>15, <1>16, <1>17 DEF Next, Run

\* IndInv holds in every reachable state.
THEOREM RegisterInvariant == Spec => []IndInv
  <1>1. IndInv /\ [Next]_vars => IndInv'
    BY NextIndInv
  <1>2. QED
    BY InitIndInv, <1>1, PTL DEF Spec

\* A cancellation does not outlive its run (Runs._finished).
THEOREM SignalsEndWithTheirRun == Spec => []SignalsHaveRuns
  <1>1. IndInv => SignalsHaveRuns
    BY DEF IndInv
  <1>2. QED
    BY RegisterInvariant, <1>1, PTL

\* After aclose every row is terminal or one list_resumable returns.
THEOREM ShutdownIsResumable == Spec => []ClosedRowsResume
  <1>1. IndInv => ClosedRowsResume
    <2> SUFFICES ASSUME IndInv, closing = "closed", NEW t \in Tasks
                 PROVE  row[t] \in TerminalStatuses \cup ResumableStatuses \cup {"ABSENT"}
      BY DEF ClosedRowsResume
    <2>1. row[t] # "WAITING_FOR_APPROVAL"
      BY DEF IndInv, ParkedRowsHaveLoops, ClosingStopsAll
    <2>2. row[t] \in Statuses \cup {"ABSENT"}
      BY DEF IndInv, TypeOK
    <2>3. QED
      BY <2>1, <2>2 DEF Statuses, TerminalStatuses, ResumableStatuses
  <1>2. QED
    BY RegisterInvariant, <1>1, PTL

-----------------------------------------------------------------------------
(* The streams of an objective's progress (application/interface/activity.py): until
   its queue overflows a watcher is told everything about what it watches, for any
   number of watchers, tasks and events. *)

Range(s) == Watch!Range(s)
Names(e, t) == e.mine /\ t \in e.names
Told(w, e) == e.n \in seen[w] \/ e \in Range(queue[w])

\* An event of the objective carries its id, one of a task follows its delegation,
\* and what is remembered or waits was announced.
EventsAreKnown ==
  /\ \A e \in Range(events) : (e.of = Objective => e.mine) /\ (e.of \in Given => e.of \in given)
  /\ started \subseteq given /\ saved \cap Given \subseteq started
  /\ \A x \in Watch!Ids : \A e \in Range(recent[x]) : e \in Range(events) /\ e.of = x
  /\ \A w \in Watchers : Range(queue[w]) \subseteq Range(events)

\* What it has still to replay is about what it watches, the objective before its tasks.
ReplayIsOrdered(w) ==
  /\ at[w] = "replaying" /\ watched[w] \in left[w] => left[w] = {watched[w]}
  /\ at[w] = "replaying" /\ watched[w] # Objective => left[w] \subseteq {watched[w]}
  /\ at[w] = "draining" => left[w] = {}

SeenIsAbout(w) == seen[w] \subseteq {e.n : e \in Watch!About(w)}

\* Whose events it must have been told of, once they are replayed.
Followed(w) ==
  {watched[w]} \cup IF watched[w] = Objective THEN tracked[w] \ between[w] ELSE {}

FollowedAreTold(w) ==
  at[w] \in {"replaying", "draining"} /\ watched[w] \notin left[w] =>
    \A e \in Range(events) : e.of \in Followed(w) \ left[w] => Told(w, e)

\* A task it does not follow yet was given after it came: all its events wait in the
\* queue, and none before the one that names it.
Ahead(w, t) ==
  /\ \A e \in Range(events) : e.of = t => e \in Range(queue[w])
  /\ t \in given => \E i \in DOMAIN queue[w] : Names(queue[w][i], t)
  /\ \A j \in DOMAIN queue[w] : queue[w][j].of = t => \E i \in 1..j : Names(queue[w][i], t)

LaterOnesWait(w) ==
  at[w] \in {"counted", "replaying", "draining"} /\ watched[w] = Objective =>
    \A t \in Given \ (tracked[w] \cup between[w]) : Ahead(w, t)

WatcherInv(w) ==
  /\ ReplayIsOrdered(w)
  /\ SeenIsAbout(w)
  /\ Watch!Subscribed(w) /\ w \notin lost =>
       /\ at[w] \in {"subscribed", "counted", "replaying"} => Watch!Remembered
       /\ FollowedAreTold(w)
       /\ LaterOnesWait(w)

StreamInv == Watch!TypeOK /\ EventsAreKnown /\ \A w \in Watchers : WatcherInv(w)

\* Lists, apart from the specification.
LEMMA AppendedRange ==
  ASSUME NEW S, NEW s \in Seq(S), NEW e \in S
  PROVE  /\ Append(s, e) \in Seq(S) /\ DOMAIN Append(s, e) = DOMAIN s \cup {Len(s) + 1}
         /\ Append(s, e)[Len(s) + 1] = e /\ \A i \in DOMAIN s : Append(s, e)[i] = s[i]
         /\ Range(Append(s, e)) = Range(s) \cup {e}
<1>1. /\ Append(s, e) \in Seq(S) /\ DOMAIN Append(s, e) = DOMAIN s \cup {Len(s) + 1}
      /\ Append(s, e)[Len(s) + 1] = e /\ \A i \in DOMAIN s : Append(s, e)[i] = s[i]
  OBVIOUS
<1> HIDE DEF Watch!Append
<1>2. Range(Append(s, e)) = Range(s) \cup {e}
  BY <1>1, Zenon DEF Range, Watch!Range
<1> QED BY <1>1, <1>2

LEMMA TailRange ==
  ASSUME NEW S, NEW s \in Seq(S), s # << >>
  PROVE  /\ Tail(s) \in Seq(S) /\ Head(s) = s[1] /\ Head(s) \in S /\ 1 \in DOMAIN s
         /\ \A i \in DOMAIN Tail(s) : i \in Nat /\ i >= 1 /\ i + 1 \in DOMAIN s /\ Tail(s)[i] = s[i + 1]
         /\ \A i \in DOMAIN s : i \in Nat /\ i >= 1
         /\ \A i \in DOMAIN s : i # 1 => i - 1 \in DOMAIN Tail(s) /\ Tail(s)[i - 1] = s[i]
         /\ Range(s) = {Head(s)} \cup Range(Tail(s))
<1>1. /\ Tail(s) \in Seq(S) /\ Head(s) = s[1] /\ Head(s) \in S /\ 1 \in DOMAIN s
      /\ \A i \in DOMAIN Tail(s) : i \in Nat /\ i >= 1 /\ i + 1 \in DOMAIN s /\ Tail(s)[i] = s[i + 1]
      /\ \A i \in DOMAIN s : i \in Nat /\ i >= 1
      /\ \A i \in DOMAIN s : i # 1 => i - 1 \in DOMAIN Tail(s) /\ Tail(s)[i - 1] = s[i]
  OBVIOUS
<1>2. \A k \in DOMAIN Tail(s) : \E i \in DOMAIN s : s[i] = Tail(s)[k]
  BY <1>1
<1>3. \A i \in DOMAIN s : s[i] = Head(s) \/ \E k \in DOMAIN Tail(s) : s[i] = Tail(s)[k]
  BY <1>1
<1>4. \A x : x \in Range(s) <=> \E i \in DOMAIN s : x = s[i]
  BY DEF Range, Watch!Range
<1>5. \A x : x \in Range(Tail(s)) <=> \E k \in DOMAIN Tail(s) : x = Tail(s)[k]
  BY DEF Range, Watch!Range
<1> HIDE DEF Range
<1>6. Range(s) = {Head(s)} \cup Range(Tail(s))
  <2>1. \E i \in DOMAIN s : s[i] = Head(s)
    BY <1>1
  <2>2. \A x : x \in Range(s) <=> (x = Head(s) \/ x \in Range(Tail(s)))
    BY <1>2, <1>3, <1>4, <1>5, <2>1, Zenon
  <2> QED BY <2>2
<1> QED BY <1>1, <1>6

LEMMA RangeTyped ==
  ASSUME NEW S, NEW s \in Seq(S)
  PROVE  \A x \in Range(s) : x \in S
<1>1. \A i \in DOMAIN s : s[i] \in S
  OBVIOUS
<1> QED BY <1>1, Zenon DEF Range, Watch!Range

LEMMA StreamsBegin == ASSUME Watch!Init PROVE StreamInv
<1> USE DEF Watch!Init
<1>1. Watch!TypeOK
  BY DEF Watch!TypeOK, Watch!Places, Watch!Ids
<1>2. Range(<< >>) = {}
  BY DEF Range, Watch!Range
<1>3. EventsAreKnown
  BY <1>2 DEF EventsAreKnown
<1>4. \A w \in Watchers : WatcherInv(w)
  BY DEF WatcherInv, ReplayIsOrdered, SeenIsAbout, Watch!Subscribed
<1> QED BY <1>1, <1>3, <1>4 DEF StreamInv

-----------------------------------------------------------------------------
(* What is announced *)

\* An event of somebody known reaches the memory of its id and every queue with room.
LEMMA EmitKeeps ==
  ASSUME StreamInv,
         NEW of \in Watch!Ids, NEW mine \in BOOLEAN, NEW names \in SUBSET Given,
         NEW final \in BOOLEAN, Watch!Emit(of, mine, names, final), UNCHANGED Watch!stream,
         plan' \in {"none", "saved", "announced"}, given' \in SUBSET Given,
         started' \in SUBSET Given, saved' \in SUBSET Watch!Ids, announced' \in SUBSET Watch!Ids,
         started' \subseteq given', saved' \cap Given \subseteq started', given \subseteq given',
         of = Objective => mine, of \in Given => of \in given',
         \A t \in given' \ given : mine /\ t \in names
  PROVE  StreamInv'
<1> DEFINE e == [n |-> Len(events) + 1, of |-> of, mine |-> mine, names |-> names, final |-> final]
           forgets == Len(recent[of]) = Buffer
<1>1. /\ Len(events) < MaxEvents
      /\ events' = Append(events, e)
      /\ recent' = [recent EXCEPT ![of] = Append(IF forgets THEN Tail(@) ELSE @, e)]
      /\ queue' = [w \in Watchers |->
           IF Watch!Subscribed(w) /\ ~Watch!Full(w) THEN Append(queue[w], e) ELSE queue[w]]
      /\ lost' = lost \cup {w \in Watchers :
           Watch!Subscribed(w) /\ (Watch!Full(w) \/ (forgets /\ at[w] # "draining"))}
  BY DEF Watch!Emit
<1>2. /\ events \in Seq(Watch!Event) /\ recent \in [Watch!Ids -> Seq(Watch!Event)]
      /\ queue \in [Watchers -> Seq(Watch!Event)] /\ lost \in SUBSET Watchers
  BY DEF StreamInv, Watch!TypeOK
<1>3. e \in Watch!Event
  BY <1>1, <1>2, StreamsAssumption DEF Watch!Event
<1>4. e.of = of /\ e.mine = mine /\ e.names = names
  OBVIOUS
<1> HIDE DEF e
<1>5. events' \in Seq(Watch!Event) /\ Range(events') = Range(events) \cup {e}
  BY <1>1, <1>2, <1>3, AppendedRange
<1>6. \A w \in Watchers :
        /\ queue'[w] \in Seq(Watch!Event)
        /\ Range(queue'[w]) \subseteq Range(queue[w]) \cup {e}
        /\ Range(queue[w]) \subseteq Range(queue'[w])
  <2> SUFFICES ASSUME NEW w \in Watchers
               PROVE  /\ queue'[w] \in Seq(Watch!Event)
                      /\ Range(queue'[w]) \subseteq Range(queue[w]) \cup {e}
                      /\ Range(queue[w]) \subseteq Range(queue'[w])
    OBVIOUS
  <2>1. queue'[w] = Append(queue[w], e) \/ queue'[w] = queue[w]
    BY <1>1
  <2>2. queue[w] \in Seq(Watch!Event)
    BY <1>2
  <2>3. /\ Append(queue[w], e) \in Seq(Watch!Event)
        /\ Range(Append(queue[w], e)) = Range(queue[w]) \cup {e}
    BY <1>3, <2>2, AppendedRange
  <2>4. CASE queue'[w] = Append(queue[w], e)
    BY <2>3, <2>4
  <2>5. CASE queue'[w] = queue[w]
    BY <2>2, <2>5
  <2> QED BY <2>1, <2>4, <2>5
<1> DEFINE older == IF forgets THEN Tail(recent[of]) ELSE recent[of]
<1>7. /\ older \in Seq(Watch!Event) /\ Range(older) \subseteq Range(recent[of])
      /\ ~forgets => older = recent[of]
  <2>1. CASE forgets
    <3>1. recent[of] # << >> /\ recent[of] \in Seq(Watch!Event)
      BY <1>2, <2>1, StreamsAssumption
    <3>2. /\ Tail(recent[of]) \in Seq(Watch!Event)
          /\ Range(recent[of]) = {Head(recent[of])} \cup Range(Tail(recent[of]))
      BY <3>1, TailRange
    <3> QED BY <2>1, <3>2
  <2>2. CASE ~forgets
    BY <1>2, <2>2
  <2> QED BY <2>1, <2>2
<1>8. /\ recent' \in [Watch!Ids -> Seq(Watch!Event)]
      /\ recent'[of] = Append(older, e)
      /\ \A x \in Watch!Ids \ {of} : recent'[x] = recent[x]
  <2>1. recent' = [recent EXCEPT ![of] = Append(older, e)]
    BY <1>1
  <2>2. Append(older, e) \in Seq(Watch!Event)
    BY <1>3, <1>7, AppendedRange
  <2> QED BY <1>2, <2>1, <2>2
<1> HIDE DEF older, forgets
<1>9. Range(recent'[of]) = Range(older) \cup {e}
  <2>1. Range(Append(older, e)) = Range(older) \cup {e}
    BY <1>3, <1>7, AppendedRange
  <2> QED BY <1>8, <2>1
<1>10. UNCHANGED <<at, watched, tracked, over, left, seen, between>>
  BY DEF Watch!stream
<1>11. Watch!TypeOK'
  <2>1. queue' \in [Watchers -> Seq(Watch!Event)]
    BY <1>1, <1>6
  <2>2. lost' \in SUBSET Watchers
    BY <1>1, <1>2
  <2> QED BY <1>5, <1>8, <1>10, <2>1, <2>2 DEF StreamInv, Watch!TypeOK
<1>12. EventsAreKnown'
  <2>1. \A f \in Range(events') : (f.of = Objective => f.mine) /\ (f.of \in Given => f.of \in given')
    BY <1>4, <1>5 DEF StreamInv, EventsAreKnown
  <2>2. ASSUME NEW x \in Watch!Ids, NEW f \in Range(recent'[x])
        PROVE  f \in Range(events') /\ f.of = x
    <3>1. f \in Range(recent[x]) \/ (f = e /\ x = of)
      <4>1. CASE x = of
        BY <1>7, <1>9, <2>2, <4>1
      <4>2. CASE x # of
        BY <1>8, <2>2, <4>2
      <4> QED BY <4>1, <4>2
    <3> QED BY <1>4, <1>5, <3>1 DEF StreamInv, EventsAreKnown
  <2>3. \A w \in Watchers : Range(queue'[w]) \subseteq Range(events')
    BY <1>5, <1>6 DEF StreamInv, EventsAreKnown
  <2> QED BY <2>1, <2>2, <2>3 DEF EventsAreKnown, Range
<1>13. ASSUME NEW w \in Watchers PROVE WatcherInv(w)'
  <2>1. ReplayIsOrdered(w)'
    BY <1>10 DEF StreamInv, WatcherInv, ReplayIsOrdered
  <2>2. SeenIsAbout(w)'
    <3>1. Watch!About(w) \subseteq Watch!About(w)'
      BY <1>5, <1>10 DEF Watch!About, Range
    <3> QED BY <1>10, <3>1 DEF StreamInv, WatcherInv, SeenIsAbout
  <2>3. ASSUME Watch!Subscribed(w)', w \notin lost'
        PROVE  /\ (at[w] \in {"subscribed", "counted", "replaying"} => Watch!Remembered)'
               /\ FollowedAreTold(w)' /\ LaterOnesWait(w)'
    <3>1. /\ Watch!Subscribed(w) /\ w \notin lost /\ ~Watch!Full(w)
          /\ forgets => at[w] = "draining"
      BY <1>1, <1>10, <2>3 DEF Watch!Subscribed
    <3>2. queue'[w] = Append(queue[w], e)
      BY <1>1, <3>1
    <3>3. /\ DOMAIN queue'[w] = DOMAIN queue[w] \cup {Len(queue[w]) + 1}
          /\ queue'[w][Len(queue[w]) + 1] = e
          /\ \A i \in DOMAIN queue[w] : queue'[w][i] = queue[w][i]
          /\ Range(queue'[w]) = Range(queue[w]) \cup {e}
      BY <1>2, <1>3, <3>2, AppendedRange
    <3>4. WatcherInv(w)
      BY DEF StreamInv
    <3>5. ASSUME at'[w] \in {"subscribed", "counted", "replaying"} PROVE Watch!Remembered'
      <4>1. Watch!Remembered /\ ~forgets
        BY <1>10, <3>1, <3>4, <3>5 DEF WatcherInv
      <4>2. \A f \in Range(events) : f.of \in Watch!Ids
        <5>1. \A f \in Range(events) : f \in Watch!Event
          BY <1>2, RangeTyped
        <5> QED BY <5>1 DEF Watch!Event
      <4>3. \A f \in Range(events') : f \in Range(recent'[f.of])
        BY <1>4, <1>5, <1>7, <1>8, <1>9, <4>1, <4>2 DEF Watch!Remembered, Range
      <4> QED BY <4>3 DEF Watch!Remembered, Range
    <3>6. FollowedAreTold(w)'
      BY <1>5, <1>10, <3>1, <3>3, <3>4 DEF WatcherInv, FollowedAreTold, Followed, Told, Range
    <3>7. LaterOnesWait(w)'
      <4> SUFFICES ASSUME at[w] \in {"counted", "replaying", "draining"}, watched[w] = Objective,
                          NEW t \in Given \ (tracked[w] \cup between[w])
                   PROVE  Ahead(w, t)'
        BY <1>10 DEF LaterOnesWait
      <4>1. Ahead(w, t)
        BY <3>1, <3>4 DEF WatcherInv, LaterOnesWait
      <4>2. \A f \in Range(events') : f.of = t => f \in Range(queue'[w])
        BY <1>5, <3>3, <4>1 DEF Ahead
      <4>3. t \in given' => \E i \in DOMAIN queue'[w] : Names(queue'[w][i], t)
        BY <1>4, <3>3, <4>1 DEF Ahead, Names
      <4>4. ASSUME NEW j \in DOMAIN queue'[w], queue'[w][j].of = t
            PROVE  \E i \in 1..j : Names(queue'[w][i], t)
        <5>1. \A i \in DOMAIN queue[w] : 1..i \subseteq DOMAIN queue[w] /\ i \in 1..Len(queue[w]) + 1
          BY <1>2
        <5>2. CASE j \in DOMAIN queue[w]
          BY <3>3, <4>1, <4>4, <5>1, <5>2 DEF Ahead, Names
        <5>3. CASE j = Len(queue[w]) + 1
          <6>1. t = of /\ t \in given'
            BY <1>4, <3>3, <4>4, <5>3
          <6>2. PICK i \in DOMAIN queue'[w] : Names(queue'[w][i], t)
            BY <4>3, <6>1
          <6>3. i \in 1..j
            BY <1>2, <3>3, <5>1, <5>3
          <6> QED BY <6>2, <6>3
        <5> QED BY <3>3, <5>2, <5>3
      <4> QED BY <4>2, <4>3, <4>4 DEF Ahead, Range, Names
    <3> QED BY <3>5, <3>6, <3>7
  <2> QED BY <2>1, <2>2, <2>3 DEF WatcherInv
<1> QED BY <1>11, <1>12, <1>13 DEF StreamInv

\* Rows are saved: nobody is told anything.
LEMMA SavingKeeps ==
  ASSUME StreamInv,
         UNCHANGED <<given, events, recent, queue, Watch!stream, lost>>,
         plan' \in {"none", "saved", "announced"}, started' \subseteq given,
         saved' \in SUBSET Watch!Ids, announced' \in SUBSET Watch!Ids,
         saved' \cap Given \subseteq started'
  PROVE  StreamInv'
<1>1. UNCHANGED <<at, watched, tracked, over, left, seen, between>>
  BY DEF Watch!stream
<1>2. Watch!TypeOK'
  BY <1>1 DEF StreamInv, Watch!TypeOK
<1>3. EventsAreKnown'
  BY DEF StreamInv, EventsAreKnown
<1>4. \A w \in Watchers : WatcherInv(w)'
  BY <1>1 DEF StreamInv, WatcherInv, ReplayIsOrdered, SeenIsAbout, FollowedAreTold, LaterOnesWait,
     Followed, Told, Ahead, Names, Watch!About, Watch!Subscribed, Watch!Remembered, Range
<1> QED BY <1>2, <1>3, <1>4 DEF StreamInv

\* Those who announce keep the invariant.
LEMMA AnnouncersKeep ==
  ASSUME StreamInv,
         \/ Watch!SavePlan \/ Watch!AnnouncePlan
         \/ \E t \in Given : Watch!Delegate(t) \/ Watch!Start(t)
         \/ \E x \in Watch!Ids : Watch!Work(x) \/ Watch!Save(x) \/ Watch!SayResult(x)
  PROVE  StreamInv'
<1> USE DEF Watch!runtime
<1>0. /\ plan \in {"none", "saved", "announced"} /\ given \in SUBSET Given
      /\ started \in SUBSET Given /\ saved \in SUBSET Watch!Ids /\ announced \in SUBSET Watch!Ids
      /\ started \subseteq given /\ saved \cap Given \subseteq started
  BY DEF StreamInv, Watch!TypeOK, EventsAreKnown
<1>1. CASE Watch!SavePlan
  BY <1>0, <1>1, SavingKeeps DEF Watch!SavePlan
<1>2. CASE Watch!AnnouncePlan
  <2>1. Objective \in Watch!Ids /\ Planned \in SUBSET Given /\ Objective \notin Given
    BY StreamsAssumption DEF Watch!Ids
  <2>2. Watch!Emit(Objective, TRUE, Planned, FALSE) /\ plan' = "announced"
        /\ UNCHANGED <<given, started, saved, announced, Watch!stream>>
    BY <1>2 DEF Watch!AnnouncePlan
  <2> QED BY <1>0, <2>1, <2>2, EmitKeeps
<1>3. ASSUME NEW t \in Given, Watch!Delegate(t) PROVE StreamInv'
  <2>1. t \in Watch!Ids /\ {t} \in SUBSET Given /\ t # Objective
    BY StreamsAssumption DEF Watch!Ids
  <2>2. Watch!Emit(t, TRUE, {t}, FALSE) /\ given' = given \cup {t}
        /\ UNCHANGED <<plan, started, saved, announced, Watch!stream>>
    BY <1>3 DEF Watch!Delegate
  <2>3. /\ given' \in SUBSET Given /\ t \in given' /\ given \subseteq given'
        /\ \A u \in given' \ given : u \in {t}
    BY <1>0, <2>2
  <2> QED BY <1>0, <2>1, <2>2, <2>3, EmitKeeps
<1>4. ASSUME NEW t \in Given, Watch!Start(t) PROVE StreamInv'
  BY <1>0, <1>4, SavingKeeps DEF Watch!Start
<1>5. ASSUME NEW x \in Watch!Ids, Watch!Work(x) PROVE StreamInv'
  <2>1. Watch!Emit(x, x = Objective, {}, FALSE) /\ UNCHANGED <<plan, given, started, saved, announced, Watch!stream>>
    BY <1>5 DEF Watch!Work
  <2>2. x \in Given => x \in given
    BY <1>0, <1>5, StreamsAssumption DEF Watch!Work
  <2>3. {} \in SUBSET Given /\ (x = Objective) \in BOOLEAN
    OBVIOUS
  <2> QED BY <1>0, <2>1, <2>2, <2>3, EmitKeeps
<1>6. ASSUME NEW x \in Watch!Ids, Watch!Save(x) PROVE StreamInv'
  BY <1>0, <1>6, SavingKeeps, StreamsAssumption DEF Watch!Save
<1>7. ASSUME NEW x \in Watch!Ids, Watch!SayResult(x) PROVE StreamInv'
  <2>1. /\ Watch!Emit(x, x = Objective, {}, TRUE) /\ announced' = announced \cup {x}
        /\ UNCHANGED <<plan, given, started, saved, Watch!stream>>
    BY <1>7 DEF Watch!SayResult
  <2>2. x \in Given => x \in given
    BY <1>0, <1>7 DEF Watch!SayResult
  <2>3. {} \in SUBSET Given /\ (x = Objective) \in BOOLEAN /\ announced' \in SUBSET Watch!Ids
    BY <1>0, <2>1
  <2> QED BY <1>0, <2>1, <2>2, <2>3, EmitKeeps
<1> QED BY <1>1, <1>2, <1>3, <1>4, <1>5, <1>6, <1>7

-----------------------------------------------------------------------------
(* What a watcher reads *)

\* A step of one watcher leaves what was announced and the other watchers alone.
LEMMA OneWatcherReads ==
  ASSUME StreamInv, NEW w \in Watchers, Watch!TypeOK', WatcherInv(w)',
         UNCHANGED <<Watch!runtime, events, recent>>,
         Range(queue'[w]) \subseteq Range(events), lost' \in {lost, lost \cup {w}, lost \ {w}},
         \A v \in Watchers \ {w} :
           /\ queue'[v] = queue[v] /\ at'[v] = at[v] /\ watched'[v] = watched[v]
           /\ tracked'[v] = tracked[v] /\ left'[v] = left[v] /\ seen'[v] = seen[v]
           /\ between'[v] = between[v]
  PROVE  StreamInv'
<1>1. EventsAreKnown'
  <2>1. \A v \in Watchers : Range(queue'[v]) \subseteq Range(events)
    BY DEF StreamInv, EventsAreKnown
  <2> QED BY <2>1 DEF StreamInv, EventsAreKnown, Watch!runtime, Range
<1>2. ASSUME NEW v \in Watchers \ {w} PROVE WatcherInv(v)'
  <2>1. WatcherInv(v) /\ (v \in lost' <=> v \in lost)
    BY DEF StreamInv
  <2>2. ReplayIsOrdered(v)' /\ SeenIsAbout(v)'
    BY <2>1 DEF WatcherInv, ReplayIsOrdered, SeenIsAbout, Watch!About
  <2>3. (Watch!Subscribed(v)' <=> Watch!Subscribed(v)) /\ (Watch!Remembered' <=> Watch!Remembered)
    BY DEF Watch!Subscribed, Watch!Remembered
  <2>4. FollowedAreTold(v) => FollowedAreTold(v)'
    BY DEF FollowedAreTold, Followed, Told, Range
  <2>5. LaterOnesWait(v) => LaterOnesWait(v)'
    BY DEF LaterOnesWait, Ahead, Names, Range, Watch!runtime
  <2> QED BY <2>1, <2>2, <2>3, <2>4, <2>5 DEF WatcherInv
<1> QED BY <1>1, <1>2 DEF StreamInv

\* The types of what a step of w reads.
LEMMA WatcherTypes ==
  ASSUME StreamInv, NEW w \in Watchers
  PROVE  /\ queue[w] \in Seq(Watch!Event) /\ tracked[w] \in SUBSET Given
         /\ left[w] \in SUBSET Watch!Ids /\ watched[w] \in Watch!Ids /\ between[w] \in SUBSET Given
         /\ at[w] \in Watch!Places /\ Range(queue[w]) \subseteq Range(events)
         /\ events \in Seq(Watch!Event) /\ recent \in [Watch!Ids -> Seq(Watch!Event)]
         /\ at \in [Watchers -> Watch!Places] /\ queue \in [Watchers -> Seq(Watch!Event)]
         /\ \A e \in Range(events) :
              e.of \in Watch!Ids /\ e.names \in SUBSET Given /\ e.n \in 1..MaxEvents
<1>1. \A e \in Range(events) : e \in Watch!Event
  BY RangeTyped DEF StreamInv, Watch!TypeOK
<1> QED BY <1>1 DEF StreamInv, Watch!TypeOK, EventsAreKnown, Watch!Event

LEMMA SubscribeKeeps ==
  ASSUME StreamInv, NEW w \in Watchers, NEW x \in Watch!Ids, Watch!Subscribe(w, x)
  PROVE  StreamInv'
<1> USE DEF Watch!Subscribe
<1>1. Watch!TypeOK'
  BY DEF StreamInv, Watch!TypeOK, Watch!Places, Watch!runtime
<1>2. at'[w] = "subscribed" /\ seen'[w] = {} /\ (w \notin lost' => Watch!Remembered)
  BY DEF StreamInv, Watch!TypeOK
<1>3. Watch!Remembered <=> Watch!Remembered'
  BY DEF Watch!Remembered
<1>4. WatcherInv(w)'
  BY <1>2, <1>3 DEF WatcherInv, ReplayIsOrdered, SeenIsAbout, FollowedAreTold, LaterOnesWait
<1>5. Range(queue'[w]) \subseteq Range(events)
  BY WatcherTypes DEF Range
<1> QED BY <1>1, <1>4, <1>5, OneWatcherReads DEF StreamInv, Watch!TypeOK

\* The tasks that have rows are followed; of those without one a task that was given
\* is excepted, and nothing was announced yet of the others.
LEMMA CountTasksKeeps ==
  ASSUME StreamInv, NEW w \in Watchers, Watch!CountTasks(w)
  PROVE  StreamInv'
<1> USE DEF Watch!CountTasks
<1>1. Watch!TypeOK'
  BY StreamsAssumption DEF StreamInv, Watch!TypeOK, Watch!Places, Watch!runtime, Watch!Rows
<1>2. /\ at[w] = "subscribed" /\ at'[w] = "counted" /\ between'[w] = given \ started
      /\ watched[w] = Objective => started \subseteq tracked'[w]
      /\ UNCHANGED <<given, events, recent, queue, watched, seen, lost>>
  BY DEF StreamInv, Watch!TypeOK, Watch!Rows, Watch!runtime
<1>3. ReplayIsOrdered(w)' /\ FollowedAreTold(w)'
  BY <1>2 DEF ReplayIsOrdered, FollowedAreTold
<1>4. SeenIsAbout(w)'
  BY <1>2 DEF StreamInv, WatcherInv, SeenIsAbout, Watch!About
<1>5. w \notin lost => Watch!Remembered'
  BY <1>2 DEF StreamInv, WatcherInv, Watch!Subscribed, Watch!Remembered
<1>6. LaterOnesWait(w)'
  <2> SUFFICES ASSUME watched[w] = Objective, NEW t \in Given \ (tracked'[w] \cup between'[w])
               PROVE  Ahead(w, t)'
    BY <1>2 DEF LaterOnesWait
  <2>1. t \notin given
    BY <1>2
  <2>2. \A e \in Range(events) : e.of # t
    BY <2>1 DEF StreamInv, EventsAreKnown
  <2>3. \A j \in DOMAIN queue[w] : queue[w][j] \in Range(events)
    BY WatcherTypes DEF Range, Watch!Range
  <2> QED BY <1>2, <2>1, <2>2, <2>3 DEF Ahead, Range
<1>7. WatcherInv(w)'
  BY <1>2, <1>3, <1>4, <1>5, <1>6 DEF WatcherInv
<1>8. Range(queue'[w]) \subseteq Range(events)
  BY WatcherTypes DEF Range
<1> QED BY <1>1, <1>7, <1>8, OneWatcherReads DEF StreamInv, Watch!TypeOK

LEMMA ReadRowKeeps ==
  ASSUME StreamInv, NEW w \in Watchers, Watch!ReadRow(w)
  PROVE  StreamInv'
<1> USE DEF Watch!ReadRow
<1>1. Watch!TypeOK'
  BY DEF StreamInv, Watch!TypeOK, Watch!Places, Watch!runtime
<1>2. /\ at[w] = "counted" /\ at'[w] = "replaying" /\ left'[w] = {watched[w]}
      /\ UNCHANGED <<given, events, recent, queue, watched, tracked, between, seen, lost>>
  BY DEF StreamInv, Watch!TypeOK, Watch!runtime
<1>3. ReplayIsOrdered(w)' /\ FollowedAreTold(w)'
  BY <1>2 DEF ReplayIsOrdered, FollowedAreTold
<1>4. SeenIsAbout(w)'
  BY <1>2 DEF StreamInv, WatcherInv, SeenIsAbout, Watch!About
<1>5. w \notin lost => Watch!Remembered' /\ LaterOnesWait(w)'
  BY <1>2 DEF StreamInv, WatcherInv, Watch!Subscribed, Watch!Remembered, LaterOnesWait, Ahead,
     Names, Range
<1>6. WatcherInv(w)'
  BY <1>2, <1>3, <1>4, <1>5 DEF WatcherInv
<1>7. Range(queue'[w]) \subseteq Range(events)
  BY WatcherTypes DEF Range
<1> QED BY <1>1, <1>6, <1>7, OneWatcherReads DEF StreamInv, Watch!TypeOK

\* All that is remembered of an id is told, and it is all there was.
LEMMA ReplayKeeps ==
  ASSUME StreamInv, NEW w \in Watchers, NEW x \in Watch!Ids, Watch!Replay(w, x)
  PROVE  StreamInv'
<1>1. /\ at[w] = "replaying" /\ x \in left[w]
      /\ UNCHANGED <<Watch!runtime, events, recent, queue, at, watched, over, between, lost>>
  BY DEF Watch!Replay
<1>2. /\ tracked[w] \subseteq tracked'[w] /\ tracked'[w] \in SUBSET Given
      /\ \A v \in Watchers \ {w} : tracked'[v] = tracked[v]
      /\ tracked' \in [Watchers -> SUBSET Given]
      /\ x # Objective => tracked'[w] = tracked[w]
      /\ left' = [left EXCEPT ![w] = IF x = Objective THEN tracked'[w] ELSE @ \ {x}]
  <2> DEFINE follows == IF x = Objective
                          THEN tracked[w] \cup UNION {Watch!Track({}, e) : e \in Watch!Range(recent[x])}
                          ELSE tracked[w]
  <2>1. /\ tracked' = [tracked EXCEPT ![w] = follows]
        /\ left' = [left EXCEPT ![w] = IF x = Objective THEN follows ELSE @ \ {x}]
    BY DEF Watch!Replay
  <2>2. \A e \in Watch!Range(recent[x]) : Watch!Track({}, e) \in SUBSET Given
    <3>1. recent[x] \in Seq(Watch!Event)
      BY WatcherTypes
    <3>2. \A e \in Range(recent[x]) : e \in Watch!Event
      BY <3>1, RangeTyped
    <3> QED BY <3>2 DEF Range, Watch!Track, Watch!Event
  <2>3. follows \in SUBSET Given /\ tracked[w] \subseteq follows
    BY <2>2, WatcherTypes
  <2> HIDE DEF follows
  <2>4. tracked \in [Watchers -> SUBSET Given]
    BY DEF StreamInv, Watch!TypeOK
  <2>5. x # Objective => follows = tracked[w]
    BY DEF follows
  <2> QED BY <2>1, <2>3, <2>4, <2>5
<1>3. /\ left \in [Watchers -> SUBSET Watch!Ids] /\ seen \in [Watchers -> SUBSET (1..MaxEvents)]
      /\ seen' = [seen EXCEPT ![w] = @ \cup {e.n : e \in Range(recent[x])}]
  BY DEF StreamInv, Watch!TypeOK, Watch!Replay, Range
<1>4. \A e \in Range(recent[x]) : e \in Range(events) /\ e.of = x /\ e.n \in 1..MaxEvents
  BY WatcherTypes DEF StreamInv, EventsAreKnown
<1>5. seen' \in [Watchers -> SUBSET (1..MaxEvents)] /\ seen'[w] = seen[w] \cup {e.n : e \in Range(recent[x])}
  BY <1>3, <1>4
<1>6. /\ left' \in [Watchers -> SUBSET Watch!Ids]
      /\ left'[w] = IF x = Objective THEN tracked'[w] ELSE left[w] \ {x}
      /\ \A v \in Watchers \ {w} : left'[v] = left[v]
  BY <1>2, <1>3 DEF Watch!Ids
<1>7. Watch!TypeOK'
  BY <1>1, <1>2, <1>5, <1>6 DEF StreamInv, Watch!TypeOK, Watch!runtime
<1>8. WatcherInv(w) /\ watched[w] \in Watch!Ids
  BY WatcherTypes DEF StreamInv
<1>9. x = watched[w] \/ watched[w] = Objective
  BY <1>1, <1>8 DEF WatcherInv, ReplayIsOrdered
<1>o. x = Objective => watched[w] = Objective
  BY <1>9
<1>10. ReplayIsOrdered(w)'
  <2>1. CASE x = Objective
    BY <1>1, <1>2, <1>6, <1>o, <2>1, StreamsAssumption DEF ReplayIsOrdered
  <2>2. CASE x # Objective
    BY <1>1, <1>6, <1>8, <1>9, <2>2 DEF WatcherInv, ReplayIsOrdered
  <2> QED BY <2>1, <2>2
<1>11. SeenIsAbout(w)'
  <2>1. \A e \in Range(recent[x]) : e \in Watch!About(w)
    BY <1>4, <1>9 DEF Watch!About, Range
  <2>2. Watch!About(w)' = Watch!About(w)
    BY <1>1 DEF Watch!About
  <2> QED BY <1>5, <1>8, <2>1, <2>2 DEF WatcherInv, SeenIsAbout
<1>12. ASSUME w \notin lost, Watch!Subscribed(w)
       PROVE  Watch!Remembered' /\ FollowedAreTold(w)' /\ LaterOnesWait(w)'
  <2>1. Watch!Remembered /\ FollowedAreTold(w) /\ LaterOnesWait(w)
    BY <1>1, <1>8, <1>12 DEF WatcherInv
  <2>2. Watch!Remembered'
    BY <1>1, <2>1 DEF Watch!Remembered
  <2>3. \A e \in Range(events) : e.of = x => e.n \in seen'[w]
    BY <1>5, <2>1 DEF Watch!Remembered, Range
  <2>4. FollowedAreTold(w)'
    <3> SUFFICES ASSUME watched[w] \notin left'[w], NEW e \in Range(events),
                        e.of \in Followed(w)' \ left'[w]
                 PROVE  Told(w, e)'
      BY <1>1 DEF FollowedAreTold, Range
    <3>1. CASE e.of = x
      BY <2>3, <3>1 DEF Told
    <3>2. CASE e.of # x /\ x = watched[w] /\ x # Objective
      BY <3>2, <1>1 DEF Followed
    <3>3. CASE e.of # x /\ x = Objective
      <4>1. watched[w] = Objective /\ left'[w] = tracked'[w]
        BY <1>o, <1>6, <3>3
      <4> QED BY <1>1, <3>3, <4>1 DEF Followed
    <3>4. CASE e.of # x /\ x # watched[w] /\ x # Objective
      <4>1. watched[w] = Objective /\ watched[w] \notin left[w] /\ e.of \in Followed(w) \ left[w]
        BY <1>1, <1>2, <1>6, <1>9, <3>4 DEF Followed
      <4>2. Told(w, e)
        BY <1>1, <2>1, <4>1 DEF FollowedAreTold
      <4> QED BY <1>1, <1>5, <4>2 DEF Told, Range
    <3> QED BY <3>1, <3>2, <3>3, <3>4
  <2>5. LaterOnesWait(w)'
    <3> SUFFICES ASSUME watched[w] = Objective, NEW t \in Given \ (tracked'[w] \cup between[w])
                 PROVE  Ahead(w, t)'
      BY <1>1 DEF LaterOnesWait
    <3>1. Ahead(w, t)
      BY <1>1, <1>2, <2>1 DEF LaterOnesWait
    <3> QED BY <1>1, <3>1 DEF Ahead, Range, Names, Watch!runtime
  <2> QED BY <2>2, <2>4, <2>5
<1>13. WatcherInv(w)'
  BY <1>1, <1>10, <1>11, <1>12 DEF WatcherInv, Watch!Subscribed
<1>14. Range(queue'[w]) \subseteq Range(events)
  BY <1>1, WatcherTypes DEF Range
<1> QED BY <1>1, <1>2, <1>3, <1>6, <1>7, <1>13, <1>14, OneWatcherReads

LEMMA EndReplayKeeps ==
  ASSUME StreamInv, NEW w \in Watchers, Watch!EndReplay(w)
  PROVE  StreamInv'
<1> USE DEF Watch!EndReplay
<1>1. Watch!TypeOK'
  BY DEF StreamInv, Watch!TypeOK, Watch!Places, Watch!runtime
<1>2. /\ at[w] = "replaying" /\ left[w] = {} /\ at'[w] \in {"ended", "draining"}
      /\ at'[w] = "draining" => queue' = queue
      /\ UNCHANGED <<given, events, recent, watched, tracked, between, seen, left, lost>>
      /\ queue'[w] = queue[w] \/ queue'[w] = << >>
      /\ \A v \in Watchers \ {w} : queue'[v] = queue[v] /\ at'[v] = at[v]
  BY DEF StreamInv, Watch!TypeOK, Watch!runtime
<1>3. WatcherInv(w)
  BY DEF StreamInv
<1>4. ReplayIsOrdered(w)' /\ SeenIsAbout(w)'
  BY <1>2, <1>3 DEF WatcherInv, ReplayIsOrdered, SeenIsAbout, Watch!About
<1>5. ASSUME w \notin lost, at'[w] = "draining" PROVE FollowedAreTold(w)' /\ LaterOnesWait(w)'
  <2>1. FollowedAreTold(w) /\ LaterOnesWait(w)
    BY <1>2, <1>3, <1>5 DEF WatcherInv, Watch!Subscribed
  <2>2. FollowedAreTold(w)'
    BY <1>2, <1>5, <2>1 DEF FollowedAreTold, Followed, Told, Range
  <2>3. LaterOnesWait(w)'
    BY <1>2, <1>5, <2>1 DEF LaterOnesWait, Ahead, Names, Range
  <2> QED BY <2>2, <2>3
<1>6. WatcherInv(w)'
  BY <1>2, <1>4, <1>5 DEF WatcherInv, Watch!Subscribed
<1>7. Range(queue'[w]) \subseteq Range(events)
  <2>1. Range(<< >>) = {}
    BY DEF Range, Watch!Range
  <2>2. Range(queue[w]) \subseteq Range(events)
    BY WatcherTypes
  <2>3. CASE queue'[w] = << >>
    BY <2>1, <2>3
  <2>4. CASE queue'[w] = queue[w]
    BY <2>2, <2>4
  <2> QED BY <1>2, <2>3, <2>4
<1> QED BY <1>1, <1>2, <1>6, <1>7, OneWatcherReads

LEMMA LeaveKeeps ==
  ASSUME StreamInv, NEW w \in Watchers, Watch!Leave(w)
  PROVE  StreamInv'
<1> USE DEF Watch!Leave
<1>1. Watch!TypeOK'
  BY DEF StreamInv, Watch!TypeOK, Watch!Places, Watch!runtime
<1>2. at'[w] = "away" /\ queue'[w] = << >>
  BY DEF StreamInv, Watch!TypeOK
<1>3. WatcherInv(w)'
  BY <1>2 DEF StreamInv, WatcherInv, ReplayIsOrdered, SeenIsAbout, Watch!About, Watch!Subscribed
<1>4. Range(queue'[w]) \subseteq Range(events)
  <2>1. Range(<< >>) = {}
    BY DEF Range, Watch!Range
  <2> HIDE DEF Range
  <2> QED BY <1>2, <2>1
<1> QED BY <1>1, <1>3, <1>4, OneWatcherReads DEF StreamInv, Watch!TypeOK

\* The oldest that waits is told if it is about what is followed, and what it names is
\* followed from then on; the rest goes on waiting.
LEMMA DrainKeeps ==
  ASSUME StreamInv, NEW w \in Watchers, Watch!Drain(w)
  PROVE  StreamInv'
<1> DEFINE e == Head(queue[w])
<1>1. /\ at[w] = "draining" /\ queue[w] # << >>
      /\ tracked' = [tracked EXCEPT ![w] = IF watched[w] = Objective THEN Watch!Track(@, e) ELSE @]
      /\ seen' = [seen EXCEPT ![w] = IF Watch!Mine(w, e) THEN @ \cup {e.n} ELSE @]
      /\ at' = [at EXCEPT ![w] = IF Watch!EndsWith(w, e) THEN "ended" ELSE @]
      /\ queue' = [queue EXCEPT ![w] = IF Watch!EndsWith(w, e) THEN << >> ELSE Tail(@)]
      /\ UNCHANGED <<Watch!runtime, events, recent, watched, over, left, between, lost>>
  BY DEF Watch!Drain
<1>2. queue[w] \in Seq(Watch!Event) /\ Range(queue[w]) \subseteq Range(events)
  BY WatcherTypes
<1>3. /\ Tail(queue[w]) \in Seq(Watch!Event) /\ e = queue[w][1] /\ e \in Watch!Event
      /\ 1 \in DOMAIN queue[w]
      /\ \A i \in DOMAIN Tail(queue[w]) :
           i \in Nat /\ i >= 1 /\ i + 1 \in DOMAIN queue[w] /\ Tail(queue[w])[i] = queue[w][i + 1]
      /\ \A i \in DOMAIN queue[w] : i \in Nat /\ i >= 1
      /\ \A i \in DOMAIN queue[w] : i # 1 =>
           i - 1 \in DOMAIN Tail(queue[w]) /\ Tail(queue[w])[i - 1] = queue[w][i]
      /\ Range(queue[w]) = {e} \cup Range(Tail(queue[w]))
  BY <1>1, <1>2, TailRange
<1> HIDE DEF e
<1>4. /\ tracked \in [Watchers -> SUBSET Given] /\ seen \in [Watchers -> SUBSET (1..MaxEvents)]
      /\ at \in [Watchers -> Watch!Places] /\ queue \in [Watchers -> Seq(Watch!Event)]
      /\ lost \in SUBSET Watchers
  BY DEF StreamInv, Watch!TypeOK
<1>5. e.names \in SUBSET Given /\ e.n \in 1..MaxEvents /\ e.of \in Watch!Ids
  BY <1>3 DEF Watch!Event
<1>6. /\ tracked'[w] = IF watched[w] = Objective /\ e.mine THEN tracked[w] \cup e.names ELSE tracked[w]
      /\ seen'[w] = IF Watch!Mine(w, e) THEN seen[w] \cup {e.n} ELSE seen[w]
      /\ at'[w] = IF Watch!EndsWith(w, e) THEN "ended" ELSE "draining"
      /\ queue'[w] = IF Watch!EndsWith(w, e) THEN << >> ELSE Tail(queue[w])
  BY <1>1, <1>4 DEF Watch!Track
<1>7. Watch!TypeOK'
  <2>1. tracked' \in [Watchers -> SUBSET Given] /\ seen' \in [Watchers -> SUBSET (1..MaxEvents)]
    BY <1>1, <1>4, <1>5 DEF Watch!Track
  <2>2. at' \in [Watchers -> Watch!Places] /\ queue' \in [Watchers -> Seq(Watch!Event)]
    BY <1>1, <1>3, <1>4 DEF Watch!Places
  <2> QED BY <1>1, <2>1, <2>2 DEF StreamInv, Watch!TypeOK, Watch!runtime
<1>8. WatcherInv(w) /\ left[w] = {}
  BY <1>1 DEF StreamInv, WatcherInv, ReplayIsOrdered
<1>9. e \in Range(events)
  BY <1>2, <1>3
<1>10. ReplayIsOrdered(w)'
  BY <1>1, <1>6, <1>8 DEF ReplayIsOrdered
<1>11. SeenIsAbout(w)'
  <2>1. Watch!Mine(w, e) => e \in Watch!About(w)
    BY <1>9 DEF Watch!Mine, Watch!About, Range
  <2>2. Watch!About(w)' = Watch!About(w)
    BY <1>1 DEF Watch!About
  <2> QED BY <1>6, <1>8, <2>1, <2>2 DEF WatcherInv, SeenIsAbout
<1>12. ASSUME w \notin lost, ~Watch!EndsWith(w, e)
       PROVE  FollowedAreTold(w)' /\ LaterOnesWait(w)'
  <2>1. FollowedAreTold(w) /\ LaterOnesWait(w)
    BY <1>1, <1>8, <1>12 DEF WatcherInv, Watch!Subscribed
  <2>2. queue'[w] = Tail(queue[w]) /\ at'[w] = "draining" /\ given' = given
    BY <1>1, <1>6, <1>12 DEF Watch!runtime
  <2>3. FollowedAreTold(w)'
    <3> SUFFICES ASSUME NEW f \in Range(events), f.of \in Followed(w)' PROVE Told(w, f)'
      BY <1>1 DEF FollowedAreTold, Range
    <3>1. Told(w, f)
      <4>1. CASE f.of \in Followed(w)
        BY <1>1, <1>8, <2>1, <4>1 DEF FollowedAreTold
      <4>2. CASE f.of \notin Followed(w)
        <5>1. watched[w] = Objective /\ f.of \in Given \ (tracked[w] \cup between[w])
          BY <1>1, <1>5, <1>6, <4>2 DEF Followed
        <5> QED BY <1>1, <2>1, <5>1 DEF LaterOnesWait, Ahead, Told
      <4> QED BY <4>1, <4>2
    <3>2. CASE f \in Range(queue[w]) /\ f # e
      BY <1>3, <2>2, <3>2 DEF Told, Range
    <3>3. CASE f.n \in seen[w]
      BY <1>6, <3>3 DEF Told
    <3>4. CASE f = e
      <4>1. Watch!Mine(w, e)
        <5>1. CASE watched[w] # Objective
          BY <1>1, <3>4, <5>1 DEF Followed, Watch!Mine
        <5>2. CASE watched[w] = Objective /\ e.of = Objective
          BY <1>9, <5>2 DEF Watch!Mine, StreamInv, EventsAreKnown
        <5>3. CASE watched[w] = Objective /\ e.of # Objective
          BY <1>1, <1>6, <3>4, <5>3 DEF Followed, Watch!Mine
        <5> QED BY <5>1, <5>2, <5>3
      <4> QED BY <1>6, <3>4, <4>1 DEF Told
    <3> QED BY <3>1, <3>2, <3>3, <3>4 DEF Told
  <2>4. LaterOnesWait(w)'
    <3> SUFFICES ASSUME watched[w] = Objective, NEW t \in Given \ (tracked'[w] \cup between[w])
                 PROVE  Ahead(w, t)'
      BY <1>1 DEF LaterOnesWait
    <3>1. Ahead(w, t) /\ ~Names(e, t)
      <4>1. t \notin tracked[w] /\ ~(e.mine /\ t \in e.names)
        BY <1>6
      <4> QED BY <1>1, <2>1, <4>1 DEF LaterOnesWait, Names
    <3>2. \A j \in DOMAIN queue[w] : queue[w][j].of = t => j # 1
      BY <1>3, <3>1 DEF Ahead
    <3>3. e.of # t
      BY <1>3, <3>2
    <3>4. \A f \in Range(events) : f.of = t => f \in Range(queue'[w])
      BY <1>3, <2>2, <3>1, <3>3 DEF Ahead, Range
    <3>5. t \in given => \E i \in DOMAIN queue'[w] : Names(queue'[w][i], t)
      <4> SUFFICES ASSUME t \in given PROVE \E i \in DOMAIN queue'[w] : Names(queue'[w][i], t)
        OBVIOUS
      <4>1. PICK i \in DOMAIN queue[w] : Names(queue[w][i], t)
        BY <3>1 DEF Ahead
      <4>2. i # 1
        BY <1>3, <3>1, <4>1
      <4>3. i - 1 \in DOMAIN queue'[w] /\ queue'[w][i - 1] = queue[w][i]
        BY <1>3, <2>2, <4>2
      <4> QED BY <4>1, <4>3
    <3>6. ASSUME NEW j \in DOMAIN queue'[w], queue'[w][j].of = t
          PROVE  \E i \in 1..j : Names(queue'[w][i], t)
      <4>1. /\ j \in Nat /\ j >= 1 /\ j + 1 \in DOMAIN queue[w]
            /\ queue'[w][j] = queue[w][j + 1]
        BY <1>3, <2>2, <3>6
      <4>2. PICK i \in 1..j + 1 : Names(queue[w][i], t)
        BY <3>1, <3>6, <4>1 DEF Ahead
      <4>3. i # 1
        BY <1>3, <3>1, <4>2
      <4>4. i \in DOMAIN queue[w]
        BY <1>2, <4>1, <4>2
      <4>5. i - 1 \in 1..j /\ queue'[w][i - 1] = queue[w][i]
        <5>1. i \in Nat /\ i >= 1 /\ i <= j + 1
          BY <4>1, <4>2
        <5>2. i - 1 \in 1..j
          BY <4>1, <4>3, <5>1
        <5>3. i - 1 \in DOMAIN Tail(queue[w]) /\ Tail(queue[w])[i - 1] = queue[w][i]
          BY <1>3, <4>3, <4>4
        <5> QED BY <2>2, <5>2, <5>3
      <4> QED BY <4>2, <4>5
    <3> QED BY <1>1, <2>2, <3>4, <3>5, <3>6 DEF Ahead, Range, Names
  <2> QED BY <2>3, <2>4
<1>13. WatcherInv(w)'
  BY <1>1, <1>6, <1>10, <1>11, <1>12 DEF WatcherInv, Watch!Subscribed
<1>14. Range(queue'[w]) \subseteq Range(events)
  <2>1. Range(<< >>) = {}
    BY DEF Range, Watch!Range
  <2>2. Range(Tail(queue[w])) \subseteq Range(events)
    BY <1>2, <1>3
  <2>3. queue'[w] = << >> \/ queue'[w] = Tail(queue[w])
    BY <1>6
  <2> HIDE DEF Range
  <2>4. CASE queue'[w] = << >>
    BY <2>1, <2>4
  <2>5. CASE queue'[w] = Tail(queue[w])
    BY <2>2, <2>5
  <2> QED BY <2>3, <2>4, <2>5
<1>15. \A v \in Watchers \ {w} :
         /\ queue'[v] = queue[v] /\ at'[v] = at[v] /\ watched'[v] = watched[v]
         /\ tracked'[v] = tracked[v] /\ left'[v] = left[v] /\ seen'[v] = seen[v]
         /\ between'[v] = between[v]
  BY <1>1, <1>4
<1> QED BY <1>1, <1>7, <1>13, <1>14, <1>15, OneWatcherReads

-----------------------------------------------------------------------------
(* The theorem *)

LEMMA StreamStep == ASSUME StreamInv, [Watch!Next]_(Watch!vars) PROVE StreamInv'
<1>1. CASE \/ Watch!SavePlan \/ Watch!AnnouncePlan
           \/ \E t \in Given : Watch!Delegate(t) \/ Watch!Start(t)
           \/ \E x \in Watch!Ids : Watch!Work(x) \/ Watch!Save(x) \/ Watch!SayResult(x)
  BY <1>1, AnnouncersKeep
<1>2. ASSUME NEW w \in Watchers, Watch!Read(w) PROVE StreamInv'
  BY <1>2, CountTasksKeeps, ReadRowKeeps, ReplayKeeps, EndReplayKeeps, DrainKeeps DEF Watch!Read
<1>3. ASSUME NEW w \in Watchers, Watch!Leave(w) \/ \E x \in Watch!Ids : Watch!Subscribe(w, x)
      PROVE  StreamInv'
  BY <1>3, LeaveKeeps, SubscribeKeeps
<1>4. CASE UNCHANGED Watch!vars
  <2>1. /\ UNCHANGED <<given, events, recent, queue, Watch!stream, lost>>
        /\ UNCHANGED <<plan, started, saved, announced>>
    BY <1>4 DEF Watch!vars, Watch!runtime
  <2> QED BY <2>1, SavingKeeps DEF StreamInv, Watch!TypeOK, EventsAreKnown
<1> QED BY <1>1, <1>2, <1>3, <1>4 DEF Watch!Next

\* The inductive invariant of the streams.
THEOREM StreamInvariant == Watch!Spec => []StreamInv
<1>1. StreamInv /\ [Watch!Next]_(Watch!vars) => StreamInv'
  BY StreamStep
<1>2. Watch!Init => StreamInv
  BY StreamsBegin
<1> QED BY <1>1, <1>2, PTL DEF Watch!Spec

\* Once the replay is done, a watcher for whom nothing was dropped was shown, or has
\* waiting, every event about what it watches and no other (Activity.for_objective,
\* for_task).
THEOREM WatchersAreTold == Watch!Spec => []NothingMissed
<1>1. StreamInv => NothingMissed
  <2> SUFFICES ASSUME StreamInv, NEW w \in Watchers, at[w] = "draining", w \notin lost
               PROVE  /\ {e.n : e \in {f \in Watch!About(w) : f.of \notin between[w]}} \subseteq Watch!Shown(w)
                      /\ Watch!Shown(w) \subseteq {e.n : e \in Watch!About(w)}
    BY DEF NothingMissed, Watch!NothingMissed
  <2>1. WatcherInv(w) /\ left[w] = {}
    BY DEF StreamInv, WatcherInv, ReplayIsOrdered
  <2>2. FollowedAreTold(w) /\ LaterOnesWait(w) /\ SeenIsAbout(w)
    BY <2>1 DEF WatcherInv, Watch!Subscribed
  <2>3. ASSUME NEW f \in Watch!About(w), f.of \notin between[w] PROVE Told(w, f)
    <3>1. f \in Range(events) /\ f.of \in Watch!Ids
      BY WatcherTypes DEF Watch!About, Range
    <3>2. CASE f.of \in Followed(w)
      BY <2>1, <2>2, <3>1, <3>2 DEF FollowedAreTold
    <3>3. CASE f.of \notin Followed(w)
      <4>1. watched[w] = Objective /\ f.of \in Given \ (tracked[w] \cup between[w])
        BY <2>3, <3>1, <3>3 DEF Followed, Watch!About, Watch!Ids
      <4> QED BY <2>2, <3>1, <4>1 DEF LaterOnesWait, Ahead, Told
    <3> QED BY <3>2, <3>3
  <2>4. ASSUME NEW f \in Watch!About(w), Told(w, f) PROVE f.n \in Watch!Shown(w)
    BY <2>4 DEF Told, Watch!Shown, Range
  <2>5. Watch!Shown(w) \subseteq {e.n : e \in Watch!About(w)}
    BY <2>2 DEF Watch!Shown, SeenIsAbout
  <2> QED BY <2>3, <2>4, <2>5
<1>2. Watch!Spec => []StreamInv
  BY StreamInvariant
<1> QED BY <1>1, <1>2, PTL

-----------------------------------------------------------------------------
(* The three side by side, as they are checked *)

\* Of the register and the streams, what the three do side by side is a behaviour of
\* it alone, so that what is proved of it holds of the composition a run checks.
THEOREM PartsMoveAlone == AllSpec => Spec /\ Watch!Spec
  <1> DEFINE all == <<part, runs, stream, page>>
  <1>1. AllInit => Init /\ Watch!Init
    BY DEF AllInit
  <1>2. [AllNext]_all => [Next]_vars
    BY DEF AllNext, runs, vars
  <1>3. [AllNext]_all => [Watch!Next]_(Watch!vars)
    BY DEF AllNext, stream, Watch!vars, Watch!runtime, Watch!stream
  <1>4. QED
    BY <1>1, <1>2, <1>3, PTL DEF AllSpec, Spec, Watch!Spec

\* Who watches and keeps up misses nothing, no cancellation outlives its run, and a
\* shutdown leaves every row finished or resumable, for all values of the constants.
THEOREM RunsAreSafe ==
  AllSpec => [](NothingMissed /\ SignalsHaveRuns /\ ClosedRowsResume)
  BY PartsMoveAlone, WatchersAreTold, SignalsEndWithTheirRun, ShutdownIsResumable, PTL
=============================================================================
