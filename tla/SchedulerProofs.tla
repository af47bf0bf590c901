--------------------------- MODULE SchedulerProofs ---------------------------
(***************************************************************************)
(* An event becomes one objective at most, for every number of loops,      *)
(* schedules, events and kills.  The argument: an event is open until one  *)
(* loop stamps it, the loop that did is the only one to be about to act on *)
(* it, and acting on it leaves it stamped.                                 *)
(*                                                                         *)
(* What the move of the store erases had arrived, for all rows, batches,   *)
(* writes and failures.  The argument: a row found by its whole key is     *)
(* compared itself; of a table with a key of several columns a copy that   *)
(* went through leaves no row there that is not here, so as many rows are  *)
(* the same rows; and afterwards a row there changes only when a program   *)
(* writes it there.                                                        *)
(*                                                                         *)
(* The text index of the memories holds their words at every revision, for *)
(* all memories, commands and kills.  The argument: only the statements    *)
(* about that table touch either, each list of them is in an order in      *)
(* which a new index is filled before the next thing is asked of it, and   *)
(* between the two SQLite's transaction is open, so that a kill finds the  *)
(* rows and the index of before.                                           *)
(*                                                                         *)
(* The last revision is what the models declare, and nothing but a kill    *)
(* has a migration refused, for all commands, rows, kills and targets.     *)
(* The argument: the history makes thirty-one tables, later columns and    *)
(* text indexes, one after the other, and going back unmakes the last      *)
(* first.  So before each statement of each list the database is the one   *)
(* that the statement expects: it has the first n of them, and its         *)
(* constraints, names and rows are those of that place.  A kill on SQLite  *)
(* may leave a table or a copy too many; then the statement that is going  *)
(* to be refused for it is still to come, and no command gets past it.     *)
(***************************************************************************)
EXTENDS MCScheduler, FiniteSetTheorems, SequenceTheorems, TLAPS

\* The next moment of a recurrence is a moment, and later than the one asked
\* about (Recurrence.next_after: "strictly after").
LEMMA NextIsLater ==
  ASSUME NEW s \in Timed, NEW moment \in Nat
  PROVE  NextAfter(s, moment) \in Nat /\ NextAfter(s, moment) > moment
<1> DEFINE today == (moment - (moment % Day)) + DailyAt[s]
<1>1. CASE s \in DOMAIN Interval
  <2>1. Interval[s] \in Nat \ {0}
    BY <1>1, RecurrenceAssumption
  <2> QED BY <2>1, <1>1 DEF NextAfter
<1>2. CASE s \notin DOMAIN Interval
  <2>1. DailyAt[s] \in 0..Day - 1 /\ Day \in Nat \ {0}
    BY <1>2, RecurrenceAssumption DEF Timed
  <2>2. moment % Day \in Nat /\ moment % Day < Day
    BY <2>1
  <2>3. moment % Day <= moment
    BY <2>1
  <2>4. today \in Nat /\ today + Day > moment
    BY <2>1, <2>2, <2>3
  <2>5. NextAfter(s, moment) = IF today > moment THEN today ELSE today + Day
    BY <1>2 DEF NextAfter
  <2> QED BY <2>1, <2>4, <2>5
<1> QED BY <1>1, <1>2

\* A step that leaves the log and the account of what was acted on alone, and
\* brings no loop to an event it was not already at, keeps the claims exclusive.
LEMMA QuietSteps ==
  ASSUME IndInv, UNCHANGED <<log, acted>>,
         \A q \in Loops : claims'[q] \subseteq DOMAIN log,
         \A q \in Loops : Taken(q)' => Taken(q) /\ cur'[q].event = cur[q].event
  PROVE  ClaimsAreExclusive' /\ EventsActOnce'
<1>1. EventsActOnce'
  BY DEF IndInv, EventsActOnce
<1>2. Len(log)' <= MaxEvents
  BY DEF IndInv, ClaimsAreExclusive
<1>3. \A q \in Loops :
        /\ claims'[q] \subseteq DOMAIN log'
        /\ Taken(q)' => /\ cur'[q].event \in DOMAIN log'
                        /\ log'[cur'[q].event] = "used" /\ acted'[cur'[q].event] = 0
  BY DEF IndInv, ClaimsAreExclusive
<1>4. \A q, r \in Loops : Taken(q)' /\ Taken(r)' /\ q # r => cur'[q].event # cur'[r].event
  BY DEF IndInv, ClaimsAreExclusive
<1>5. \A e \in 1..MaxEvents : acted'[e] > 0 => e \in DOMAIN log' /\ log'[e] = "used"
  BY DEF IndInv, ClaimsAreExclusive
<1> QED BY <1>1, <1>2, <1>3, <1>4, <1>5 DEF ClaimsAreExclusive

THEOREM InitialState == Init => IndInv
<1> SUFFICES ASSUME Init PROVE IndInv
  OBVIOUS
<1> USE BoundsAssumption DEF Init
<1>1. \A s \in Schedules : FirstDue(s) \in Nat
  BY NextIsLater DEF FirstDue, Timed
<1>2. TypeOK
  <2>1. rows \in [Schedules -> Row]
    BY <1>1 DEF Row
  <2>2. log \in Seq({"open", "used"}) /\ desk \in SUBSET Copy
    OBVIOUS
  <2>3. cur \in [Loops -> [s : Schedules \cup {"nobody"}, due : Nat, event : Nat]]
    BY DEF Nobody
  <2>4. ran \in [Timed -> [times : Nat, last : Nat]]
    BY DEF Never
  <2> QED BY <2>1, <2>2, <2>3, <2>4 DEF TypeOK, Places
<1>3. ClaimsAreExclusive
  BY DEF ClaimsAreExclusive, Taken
<1>4. EventsActOnce
  BY DEF EventsActOnce
<1> QED BY <1>2, <1>3, <1>4 DEF IndInv

-----------------------------------------------------------------------------
(* The steps of a pass *)

\* What ends with the locals of tick() is well typed and claims nothing.
LEMMA LeavingIsQuiet ==
  ASSUME IndInv, NEW p \in Loops, NEW place \in Places \ {"receive"}, Leave(p, place),
         UNCHANGED <<log, acted>>
  PROVE  /\ pc' \in [Loops -> Places]
         /\ now' \in [Loops -> Nat]
         /\ batch' \in [Loops -> SUBSET Copy]
         /\ claims' \in [Loops -> SUBSET Nat]
         /\ cur' \in [Loops -> [s : Schedules \cup {"nobody"}, due : Nat, event : Nat]]
         /\ ClaimsAreExclusive' /\ EventsActOnce'
<1>1. /\ pc' \in [Loops -> Places] /\ now' \in [Loops -> Nat]
      /\ batch' \in [Loops -> SUBSET Copy] /\ claims' \in [Loops -> SUBSET Nat]
  BY DEF IndInv, TypeOK, Leave, Goto
<1>2. cur' \in [Loops -> [s : Schedules \cup {"nobody"}, due : Nat, event : Nat]]
  BY DEF IndInv, TypeOK, Leave, Nobody
<1>3. \A q \in Loops : claims'[q] \subseteq DOMAIN log
  BY DEF IndInv, TypeOK, ClaimsAreExclusive, Leave
<1>4. \A q \in Loops : Taken(q)' => Taken(q) /\ cur'[q].event = cur[q].event
  BY DEF IndInv, TypeOK, Leave, Goto, Taken
<1> QED BY <1>1, <1>2, <1>3, <1>4, QuietSteps

LEMMA TickKeeps == ASSUME IndInv, NEW p \in Loops, Tick(p) PROVE IndInv'
<1> USE DEF IndInv, TypeOK, Tick, Goto, store
<1>1. \A s \in DueBy(clock) : CopyOf(s) \in Copy
  BY RecurrenceAssumption DEF CopyOf, DueBy, Copy, Row
<1>2. batch' \in [Loops -> SUBSET Copy]
  BY <1>1
<1>3. now' \in [Loops -> Nat] /\ pc' \in [Loops -> Places]
  BY DEF Places
<1>4. TypeOK'
  BY <1>2, <1>3
<1>5. ClaimsAreExclusive' /\ EventsActOnce'
  <2>1. \A q \in Loops : claims'[q] \subseteq DOMAIN log
    BY DEF ClaimsAreExclusive
  <2>2. \A q \in Loops : Taken(q)' => Taken(q) /\ cur'[q].event = cur[q].event
    BY DEF Taken
  <2> QED BY <2>1, <2>2, QuietSteps
<1> QED BY <1>4, <1>5

LEMMA FireDueKeeps == ASSUME IndInv, NEW p \in Loops, FireDue(p) PROVE IndInv'
<1> USE DEF IndInv, TypeOK, FireDue, Goto, store
<1>1. PICK c \in batch[p] :
        /\ cur' = [cur EXCEPT ![p] = [s |-> c.s, due |-> c.due, event |-> 0]]
        /\ batch' = [batch EXCEPT ![p] = @ \ {c}]
  OBVIOUS
<1>2. c \in Copy
  OBVIOUS
<1>3. TypeOK'
  BY <1>1, <1>2 DEF Copy, Places
<1>4. ClaimsAreExclusive' /\ EventsActOnce'
  <2>1. \A q \in Loops : claims'[q] \subseteq DOMAIN log
    BY DEF ClaimsAreExclusive
  <2>2. \A q \in Loops : Taken(q)' => Taken(q) /\ cur'[q].event = cur[q].event
    BY <1>1 DEF Taken
  <2> QED BY <2>1, <2>2, QuietSteps
<1> QED BY <1>3, <1>4

LEMMA ListKeeps == ASSUME IndInv, NEW p \in Loops, List(p) PROVE IndInv'
<1> USE DEF IndInv, TypeOK, List, Goto, store
<1>1. \A s \in Schedules : CopyOf(s) \in Copy
  BY DEF CopyOf, Copy, Row
<1>2. TypeOK'
  BY <1>1 DEF Places, Nobody
<1>3. ClaimsAreExclusive' /\ EventsActOnce'
  <2>1. \A q \in Loops : claims'[q] \subseteq DOMAIN log
    BY DEF ClaimsAreExclusive
  <2>2. \A q \in Loops : Taken(q)' => Taken(q) /\ cur'[q].event = cur[q].event
    BY DEF Taken
  <2> QED BY <2>1, <2>2, QuietSteps
<1> QED BY <1>2, <1>3

LEMMA PendingKeeps == ASSUME IndInv, NEW p \in Loops, Pending(p) PROVE IndInv'
<1> USE DEF IndInv, TypeOK, Pending, store
<1>1. PICK c \in batch[p] :
        /\ cur' = [cur EXCEPT ![p] = [s |-> c.s, due |-> c.due, event |-> 0]]
        /\ batch' = [batch EXCEPT ![p] = @ \ {c}]
  OBVIOUS
<1>2. c \in Copy
  OBVIOUS
<1>3. Open \subseteq DOMAIN log /\ DOMAIN log \subseteq Nat
  BY DEF Open
<1>4. TypeOK'
  BY <1>1, <1>2, <1>3 DEF Copy
<1>5. ClaimsAreExclusive' /\ EventsActOnce'
  <2>1. \A q \in Loops : claims'[q] \subseteq DOMAIN log
    BY <1>3 DEF ClaimsAreExclusive
  <2>2. \A q \in Loops : Taken(q)' => Taken(q) /\ cur'[q].event = cur[q].event
    BY <1>1 DEF Taken
  <2> QED BY <2>1, <2>2, QuietSteps
<1> QED BY <1>4, <1>5

LEMMA PassDoneKeeps == ASSUME IndInv, NEW p \in Loops, PassDone(p) PROVE IndInv'
<1>1. Leave(p, "idle") /\ "idle" \in Places \ {"receive"}
  BY DEF PassDone, Places
<1> QED BY <1>1, LeavingIsQuiet DEF PassDone, store, IndInv, TypeOK

LEMMA QueryFailsKeeps == ASSUME IndInv, NEW p \in Loops, QueryFails(p) PROVE IndInv'
<1>1. Leave(p, "dead") /\ "dead" \in Places \ {"receive"}
  BY DEF QueryFails, Places
<1> QED BY <1>1, LeavingIsQuiet DEF QueryFails, store, IndInv, TypeOK

\* The one step that takes an event: it was open, so nobody else is at it.
LEMMA ClaimKeeps == ASSUME IndInv, NEW p \in Loops, Claim(p) PROVE IndInv'
<1> USE DEF IndInv, TypeOK
<1>1. PICK e \in Oldest(claims[p]) :
        /\ claims' = [claims EXCEPT ![p] = @ \ {e}]
        /\ \/ /\ log[e] = "open"
              /\ log' = [log EXCEPT ![e] = "used"]
              /\ cur' = [cur EXCEPT ![p].event = e]
              /\ Goto(p, "receive")
           \/ log[e] = "used" /\ UNCHANGED <<log, cur, pc>>
  BY DEF Claim
<1>e. e \in claims[p] /\ e \in DOMAIN log /\ e \in Nat /\ e # 0
  BY DEF Oldest, ClaimsAreExclusive
<1>2. CASE log[e] = "used" /\ UNCHANGED <<log, cur, pc>>
  <2>1. claims' = [claims EXCEPT ![p] = @ \ {e}]
    BY <1>1
  <2>2. TypeOK'
    BY <1>2, <2>1 DEF Claim
  <2>3. \A q \in Loops : claims'[q] \subseteq DOMAIN log
    BY <2>1 DEF ClaimsAreExclusive
  <2>4. \A q \in Loops : Taken(q)' => Taken(q) /\ cur'[q].event = cur[q].event
    BY <1>2 DEF Taken
  <2> QED BY <1>2, <2>2, <2>3, <2>4, QuietSteps DEF Claim
<1>3. CASE /\ log[e] = "open"
           /\ log' = [log EXCEPT ![e] = "used"]
           /\ cur' = [cur EXCEPT ![p].event = e]
           /\ Goto(p, "receive")
  <2>1. TypeOK'
    <3>1. log' \in Seq({"open", "used"})
      BY <1>e, <1>3
    <3>2. cur' \in [Loops -> [s : Schedules \cup {"nobody"}, due : Nat, event : Nat]]
      BY <1>e, <1>3
    <3>3. claims' \in [Loops -> SUBSET Nat] /\ pc' \in [Loops -> Places]
      BY <1>1, <1>3 DEF Goto, Places
    <3>4. UNCHANGED <<clock, rows, desk, now, batch, kills, ran, acted>>
      BY DEF Claim
    <3> QED BY <3>1, <3>2, <3>3, <3>4
  <2>2. acted' = acted /\ DOMAIN log' = DOMAIN log /\ Len(log') = Len(log)
    BY <1>e, <1>3 DEF Claim
  <2>3. acted[e] = 0 /\ \A q \in Loops : Taken(q) => cur[q].event # e
    <3>1. e \in 1..MaxEvents
      BY <1>e, BoundsAssumption DEF ClaimsAreExclusive
    <3>2. acted[e] \in Nat /\ ~(acted[e] > 0)
      BY <1>e, <1>3, <3>1 DEF ClaimsAreExclusive
    <3>3. \A q \in Loops : Taken(q) => log[cur[q].event] = "used"
      BY DEF ClaimsAreExclusive
    <3> QED BY <1>3, <3>2, <3>3
  <2>4. \A q \in Loops : Taken(q)' =>
          \/ q = p /\ cur'[q].event = e
          \/ q # p /\ Taken(q) /\ cur'[q].event = cur[q].event
    BY <1>e, <1>3 DEF Taken, Goto
  <2>5. \A f \in DOMAIN log : log'[f] = IF f = e THEN "used" ELSE log[f]
    BY <1>e, <1>3
  <2>6. \A q \in Loops :
          /\ claims'[q] \subseteq DOMAIN log'
          /\ Taken(q)' => /\ cur'[q].event \in DOMAIN log'
                          /\ log'[cur'[q].event] = "used" /\ acted'[cur'[q].event] = 0
    BY <1>1, <1>e, <2>2, <2>3, <2>4, <2>5 DEF ClaimsAreExclusive
  <2>7. \A q, r \in Loops : Taken(q)' /\ Taken(r)' /\ q # r =>
                              cur'[q].event # cur'[r].event
    BY <2>3, <2>4 DEF ClaimsAreExclusive
  <2>8. \A f \in 1..MaxEvents : acted'[f] > 0 => f \in DOMAIN log' /\ log'[f] = "used"
    BY <2>2, <2>5 DEF ClaimsAreExclusive
  <2>9. Len(log)' <= MaxEvents /\ EventsActOnce'
    BY <2>2 DEF ClaimsAreExclusive, EventsActOnce
  <2> QED BY <2>1, <2>6, <2>7, <2>8, <2>9 DEF ClaimsAreExclusive
<1> QED BY <1>1, <1>2, <1>3

-----------------------------------------------------------------------------
(* The steps of a firing *)

LEMMA ReceiveKeeps == ASSUME IndInv, NEW p \in Loops, Receive(p) PROVE IndInv'
<1> USE DEF IndInv, TypeOK
<1>1. pc' \in [Loops -> Places] /\ pc'[p] # "receive" /\ \A q \in Loops \ {p} : pc'[q] = pc[q]
  BY DEF Receive, Goto, Places
<1>2. UNCHANGED <<clock, rows, log, desk, now, batch, claims, cur, kills, ran>>
  BY DEF Receive, store
<1>3. \A q \in Loops : Taken(q)' => q # p /\ Taken(q)
  BY <1>1, <1>2 DEF Taken
<1>4. CASE cur[p].event = 0
  <2>1. acted' = acted
    BY <1>4 DEF Receive
  <2>2. \A q \in Loops : claims'[q] \subseteq DOMAIN log
    BY <1>2 DEF ClaimsAreExclusive
  <2> QED BY <1>1, <1>2, <1>3, <2>1, <2>2, QuietSteps
<1>5. CASE cur[p].event # 0
  <2> DEFINE e == cur[p].event
  <2>1. Taken(p) /\ acted' = [acted EXCEPT ![e] = @ + 1]
    BY <1>5 DEF Receive, Taken
  <2>2. e \in 1..MaxEvents /\ e \in DOMAIN log /\ log[e] = "used" /\ acted[e] = 0
    BY <2>1, BoundsAssumption DEF ClaimsAreExclusive
  <2>3. TypeOK'
    BY <1>1, <1>2, <2>1, <2>2
  <2>4. \A f \in 1..MaxEvents : acted'[f] = IF f = e THEN 1 ELSE acted[f]
    BY <2>1, <2>2
  <2>5. EventsActOnce'
    <3>1. \A f \in 1..MaxEvents : acted[f] <= 1
      BY DEF EventsActOnce
    <3>2. \A f \in 1..MaxEvents : acted'[f] <= 1
      <4> SUFFICES ASSUME NEW f \in 1..MaxEvents PROVE acted'[f] <= 1
        OBVIOUS
      <4>1. CASE f = e
        BY <4>1, <2>4
      <4>2. CASE f # e
        BY <4>2, <2>4, <3>1
      <4> QED BY <4>1, <4>2
    <3> QED BY <3>2 DEF EventsActOnce
  <2>6. \A q \in Loops : Taken(q)' => cur[q].event # e /\ cur[q].event \in 1..MaxEvents
    BY <1>3, <2>1, BoundsAssumption DEF ClaimsAreExclusive
  <2>7. ClaimsAreExclusive'
    BY <1>2, <1>3, <2>2, <2>4, <2>6 DEF ClaimsAreExclusive
  <2> QED BY <2>3, <2>5, <2>7
<1> QED BY <1>4, <1>5

LEMMA MarkKeeps == ASSUME IndInv, NEW p \in Loops, Mark(p) PROVE IndInv'
<1> USE DEF IndInv, TypeOK
<1>1. /\ UNCHANGED <<clock, log, desk, now, batch, claims, cur, kills, acted>>
      /\ pc' \in [Loops -> Places] /\ pc'[p] # "receive"
      /\ \A q \in Loops \ {p} : pc'[q] = pc[q]
  BY DEF Mark, Goto, Places
<1>2. rows' \in [Schedules -> Row]
  <2>1. Fired(cur[p], now[p]) \in Row
    BY NextIsLater DEF Fired, Row
  <2> QED BY <2>1 DEF Mark
<1>3. ran' \in [Timed -> [times : Nat, last : Nat]]
  <2>1. CASE ran' = ran
    BY <2>1
  <2>2. ASSUME NEW s \in Timed,
               ran' = [ran EXCEPT ![s] = [times |-> @.times + 1, last |-> now[p]]]
        PROVE  ran' \in [Timed -> [times : Nat, last : Nat]]
    <3>1. ran[s].times + 1 \in Nat /\ now[p] \in Nat
      OBVIOUS
    <3> QED BY <2>2, <3>1
  <2> QED BY <2>1, <2>2 DEF Mark
<1>4. ClaimsAreExclusive' /\ EventsActOnce'
  <2>1. \A q \in Loops : claims'[q] \subseteq DOMAIN log
    BY <1>1 DEF ClaimsAreExclusive
  <2>2. \A q \in Loops : Taken(q)' => Taken(q) /\ cur'[q].event = cur[q].event
    BY <1>1 DEF Taken
  <2> QED BY <1>1, <2>1, <2>2, QuietSteps
<1> QED BY <1>1, <1>2, <1>3, <1>4

\* A new event is open and nobody's: its place in the log was free.
LEMMA RecordKeeps == ASSUME IndInv, NEW p \in Loops, Record(p) PROVE IndInv'
<1> USE DEF IndInv, TypeOK
<1>1. /\ UNCHANGED <<clock, rows, desk, now, batch, claims, cur, kills, ran, acted>>
      /\ pc' \in [Loops -> Places] /\ pc'[p] # "receive"
      /\ \A q \in Loops \ {p} : pc'[q] = pc[q]
  BY DEF Record, Goto, Places
<1>2. \A q \in Loops : Taken(q)' => Taken(q) /\ cur'[q].event = cur[q].event
  BY <1>1 DEF Taken
<1>3. CASE UNCHANGED log
  <2>1. \A q \in Loops : claims'[q] \subseteq DOMAIN log
    BY <1>1 DEF ClaimsAreExclusive
  <2> QED BY <1>1, <1>2, <1>3, <2>1, QuietSteps
<1>4. CASE Len(log) < MaxEvents /\ log' = Append(log, "open")
  <2>1. /\ log' \in Seq({"open", "used"}) /\ Len(log') <= MaxEvents
        /\ DOMAIN log \subseteq DOMAIN log'
        /\ \A e \in DOMAIN log : log'[e] = log[e]
    BY <1>4, BoundsAssumption
  <2>2. TypeOK'
    BY <1>1, <2>1
  <2>3. ClaimsAreExclusive'
    BY <1>1, <1>2, <2>1 DEF ClaimsAreExclusive
  <2>4. EventsActOnce'
    BY <1>1 DEF EventsActOnce
  <2> QED BY <2>2, <2>3, <2>4
<1> QED BY <1>3, <1>4 DEF Record

-----------------------------------------------------------------------------
(* Everything else that moves *)

\* The clock, a person's edits and a restart touch neither log nor claims.
LEMMA OthersKeep ==
  ASSUME IndInv,
         Advance \/ PauseSave \/ (\E s \in Edited : PauseRead(s) \/ Delete(s))
  PROVE  IndInv'
<1> USE DEF IndInv, TypeOK
<1>1. /\ UNCHANGED <<log, pc, now, batch, claims, cur, kills, ran, acted>>
  BY DEF Advance, PauseSave, PauseRead, Delete, store, local
<1>2. clock' \in Nat /\ rows' \in [Schedules -> Row] /\ desk' \in SUBSET Copy
  <2>1. CASE Advance
    BY <2>1 DEF Advance, store
  <2>2. CASE PauseSave
    BY <2>2 DEF PauseSave, Row, Copy
  <2>3. ASSUME NEW s \in Edited, PauseRead(s)
        PROVE clock' \in Nat /\ rows' \in [Schedules -> Row] /\ desk' \in SUBSET Copy
    BY <2>3, BoundsAssumption DEF PauseRead, CopyOf, Copy, Row
  <2>4. ASSUME NEW s \in Edited, Delete(s)
        PROVE clock' \in Nat /\ rows' \in [Schedules -> Row] /\ desk' \in SUBSET Copy
    BY <2>4, BoundsAssumption DEF Delete, Row
  <2> QED BY <2>1, <2>2, <2>3, <2>4
<1>3. ClaimsAreExclusive' /\ EventsActOnce'
  BY <1>1, QuietSteps DEF ClaimsAreExclusive, Taken
<1> QED BY <1>1, <1>2, <1>3

LEMMA ProcessesKeep ==
  ASSUME IndInv, NEW p \in Loops, Kill(p) \/ Restart(p)
  PROVE  IndInv'
<1>1. CASE Kill(p)
  <2>1. Leave(p, "off") /\ "off" \in Places \ {"receive"}
    BY <1>1 DEF Kill, Places
  <2> QED BY <1>1, <2>1, LeavingIsQuiet DEF Kill, store, IndInv, TypeOK
<1>2. CASE Restart(p)
  <2>1. pc' \in [Loops -> Places] /\ \A q \in Loops : Taken(q)' => Taken(q)
    BY <1>2 DEF Restart, Goto, Taken, Places, IndInv, TypeOK
  <2>2. UNCHANGED <<clock, rows, log, desk, now, batch, claims, cur, kills, ran, acted>>
    BY <1>2 DEF Restart, store
  <2> QED BY <2>1, <2>2, QuietSteps DEF IndInv, TypeOK, ClaimsAreExclusive
<1> QED BY <1>1, <1>2

\* IndInv is inductive.
THEOREM InvariantStep == IndInv /\ [Next]_vars => IndInv'
<1> SUFFICES ASSUME IndInv, [Next]_vars PROVE IndInv'
  OBVIOUS
<1>1. ASSUME NEW p \in Loops, Step(p) PROVE IndInv'
  BY <1>1, TickKeeps, FireDueKeeps, ListKeeps, PendingKeeps, ClaimKeeps, PassDoneKeeps,
     ReceiveKeeps, MarkKeeps, RecordKeeps DEF Step
<1>2. ASSUME NEW p \in Loops, QueryFails(p) \/ Kill(p) \/ Restart(p) PROVE IndInv'
  BY <1>2, QueryFailsKeeps, ProcessesKeep
<1>3. CASE Advance \/ PauseSave \/ (\E s \in Edited : PauseRead(s) \/ Delete(s))
  BY <1>3, OthersKeep
<1>4. CASE UNCHANGED vars
  BY <1>4 DEF vars, IndInv, TypeOK, ClaimsAreExclusive, EventsActOnce, Taken
<1> QED BY <1>1, <1>2, <1>3, <1>4 DEF Next

\* The scheduler's inductive invariant holds in every reachable state.
THEOREM SchedulerInvariant == Spec => []IndInv
BY InitialState, InvariantStep, PTL DEF Spec

\* An event becomes one objective at most (Scheduler.tick, SqlEventLog.consume).
THEOREM EventsAreActedOnOnce == Spec => []EventsActOnce
<1>1. IndInv => EventsActOnce
  BY DEF IndInv
<1> QED BY <1>1, SchedulerInvariant, PTL

-----------------------------------------------------------------------------
(* A single loop keeps the periods *)

\* At first nothing has fired, and no pass holds anything.
LEMMA PeriodInit == Init => PeriodInv
BY DEF Init, PeriodInv, PassIsFresh, InPeriod, Never, Firing, InEvents, Nobody

\* The only loop is the one that steps.
LEMMA OnlyLoop == ASSUME OneLoop, NEW p \in Loops PROVE Loops = {p}
BY DEF OneLoop

\* A pass reads rows that are in their period, once each.
LEMMA TickKeepsPeriods ==
  ASSUME TypeOK, OneLoop, PeriodInv, NEW p \in Loops, Tick(p) PROVE PeriodInv'
<1>1. batch'[p] = {CopyOf(s) : s \in DueBy(clock)} /\ now'[p] = clock /\ pc'[p] = "due"
  BY DEF Tick, TypeOK, Goto
<1>2. UNCHANGED <<rows, ran, cur>>
  BY DEF Tick, store
<1>3. \A s \in DueBy(clock) : InPeriod(s, rows[s].due) /\ rows[s].due <= clock
  BY DEF DueBy, PeriodInv
<1>4. PassIsFresh(p)'
  BY <1>1, <1>2, <1>3 DEF PassIsFresh, Firing, InEvents, CopyOf, InPeriod
<1>5. \A s \in Timed : On(s)' => InPeriod(s, rows[s].due)'
  BY <1>2 DEF PeriodInv, On, InPeriod
<1> QED BY <1>4, <1>5, OnlyLoop DEF PeriodInv

\* What leaves tick() holds nothing.
LEMMA LeavingKeepsPeriods ==
  ASSUME TypeOK, OneLoop, PeriodInv, NEW p \in Loops, NEW place \in {"idle", "dead", "off"},
         Leave(p, place), UNCHANGED <<rows, ran>>
  PROVE  PeriodInv'
<1>1. batch'[p] = {} /\ pc'[p] = place
  BY DEF Leave, Goto, TypeOK
<1>2. PassIsFresh(p)'
  BY <1>1 DEF PassIsFresh, Firing, InEvents
<1>3. \A s \in Timed : On(s)' => InPeriod(s, rows[s].due)'
  BY DEF PeriodInv, On, InPeriod
<1> QED BY <1>2, <1>3, OnlyLoop DEF PeriodInv

LEMMA FireDueKeepsPeriods ==
  ASSUME TypeOK, OneLoop, PeriodInv, NEW p \in Loops, FireDue(p) PROVE PeriodInv'
<1>1. PICK c \in batch[p] :
        /\ cur' = [cur EXCEPT ![p] = [s |-> c.s, due |-> c.due, event |-> 0]]
        /\ batch' = [batch EXCEPT ![p] = @ \ {c}]
  BY DEF FireDue
<1>2. /\ cur'[p] = [s |-> c.s, due |-> c.due, event |-> 0] /\ batch'[p] = batch[p] \ {c}
      /\ pc'[p] = "receive" /\ pc[p] = "due" /\ now' = now /\ rows' = rows /\ ran' = ran
  BY <1>1 DEF FireDue, Goto, TypeOK, store
<1>3. PassIsFresh(p)
  BY DEF PeriodInv
<1>4. \A d \in batch'[p] : d \in batch[p] /\ d.s # c.s
  BY <1>2, <1>3 DEF PassIsFresh
<1>5. ~InEvents(p)'
  BY <1>2 DEF InEvents
<1>6. PassIsFresh(p)'
  BY <1>2, <1>3, <1>4, <1>5 DEF PassIsFresh, InPeriod
<1>7. \A s \in Timed : On(s)' => InPeriod(s, rows[s].due)'
  BY <1>2 DEF PeriodInv, On, InPeriod
<1> QED BY <1>6, <1>7, OnlyLoop DEF PeriodInv

\* The second half of a pass holds no timed schedule.
LEMMA EventStepsKeepPeriods ==
  ASSUME TypeOK, OneLoop, PeriodInv, NEW p \in Loops, List(p) \/ Pending(p) \/ Claim(p)
  PROVE  PeriodInv'
<1>1. now' = now /\ rows' = rows /\ ran' = ran
  BY DEF List, Pending, Claim, store
<1>2. PassIsFresh(p)
  BY DEF PeriodInv
<1>3. ASSUME List(p) PROVE PassIsFresh(p)'
  <2>1. /\ batch'[p] = {CopyOf(s) : s \in {t \in Schedules \ Timed : On(t)}}
        /\ pc'[p] = "events" /\ cur'[p] = Nobody
    BY <1>3 DEF List, Goto, TypeOK
  <2>2. cur'[p].s \notin Timed
    BY <2>1, NobodyAssumption, RecurrenceAssumption DEF Nobody
  <2> QED BY <2>1, <2>2 DEF PassIsFresh, Firing, InEvents, CopyOf
<1>4. ASSUME Pending(p) PROVE PassIsFresh(p)'
  <2>1. PICK c \in batch[p] :
          /\ cur' = [cur EXCEPT ![p] = [s |-> c.s, due |-> c.due, event |-> 0]]
          /\ batch' = [batch EXCEPT ![p] = @ \ {c}]
    BY <1>4 DEF Pending
  <2>2. cur'[p].s = c.s /\ batch'[p] \subseteq batch[p] /\ pc'[p] = "events" /\ pc[p] = "events"
    BY <1>4, <2>1 DEF Pending, TypeOK
  <2>3. \A d \in batch[p] : d.s \notin Timed
    BY <1>2, <2>2 DEF PassIsFresh, InEvents
  <2> QED BY <1>2, <2>2, <2>3 DEF PassIsFresh, Firing
<1>5. ASSUME Claim(p) PROVE PassIsFresh(p)'
  <2>1. batch' = batch /\ cur'[p].s = cur[p].s /\ pc[p] = "events"
    BY <1>5 DEF Claim, TypeOK
  <2>2. cur[p].s \notin Timed /\ \A d \in batch[p] : d.s \notin Timed
    BY <1>2, <2>1 DEF PassIsFresh, InEvents
  <2> QED BY <1>2, <2>1, <2>2 DEF PassIsFresh
<1>6. \A s \in Timed : On(s)' => InPeriod(s, rows[s].due)'
  BY <1>1 DEF PeriodInv, On, InPeriod
<1>7. PassIsFresh(p)'
  BY <1>3, <1>4, <1>5
<1> QED BY <1>6, <1>7, OnlyLoop DEF PeriodInv

\* A firing moves the row and the account of it on to the same moment.
LEMMA MarkKeepsPeriods ==
  ASSUME TypeOK, OneLoop, PeriodInv, NEW p \in Loops, Mark(p) PROVE PeriodInv'
<1>s. PICK s : s = cur[p].s
  OBVIOUS
<1>1. PassIsFresh(p) /\ pc[p] = "mark" /\ Firing(p)
  BY DEF PeriodInv, Mark, Firing
<1>2. batch' = batch /\ now' = now /\ cur' = cur /\ now[p] \in Nat
  BY DEF Mark, TypeOK
<1>3. pc'[p] = "record"
  BY DEF Mark, Goto, TypeOK
<1>4. ~Firing(p)' /\ (InEvents(p)' <=> InEvents(p))
  BY <1>1, <1>2, <1>3 DEF Firing, InEvents
<1>5. \A t \in Timed : t # s => ran'[t] = ran[t] /\ rows'[t] = rows[t]
  BY <1>s, RecurrenceAssumption DEF Mark, TypeOK
<1>6. PassIsFresh(p)'
  BY <1>s, <1>1, <1>2, <1>4, <1>5 DEF PassIsFresh, InPeriod
<1>7. ASSUME s \in Timed, On(s)' PROVE InPeriod(s, rows[s].due)'
  <2>1. CASE UNCHANGED <<rows, ran>>
    BY <1>7, <2>1 DEF PeriodInv, On, InPeriod
  <2>2. CASE /\ rows' = [rows EXCEPT ![s] = Fired(cur[p], now[p])]
             /\ ran' = [ran EXCEPT ![s] = [times |-> @.times + 1, last |-> now[p]]]
    <3>1. rows'[s].due = NextAfter(s, now[p]) /\ ran'[s].last = now[p]
      BY <1>s, <1>7, <2>2, RecurrenceAssumption DEF Fired, TypeOK
    <3>2. NextAfter(s, now[p]) \in Nat
      BY <1>2, <1>7, NextIsLater
    <3> QED BY <3>1, <3>2 DEF InPeriod
  <2> QED BY <1>s, <1>7, <2>1, <2>2 DEF Mark
<1>8. \A t \in Timed : On(t)' => InPeriod(t, rows[t].due)'
  BY <1>5, <1>7 DEF PeriodInv, On, InPeriod
<1> QED BY <1>6, <1>8, OnlyLoop DEF PeriodInv

LEMMA OtherFiringStepsKeepPeriods ==
  ASSUME TypeOK, OneLoop, PeriodInv, NEW p \in Loops, Receive(p) \/ Record(p)
  PROVE  PeriodInv'
<1>1. UNCHANGED <<rows, ran, batch, now, cur>> /\ PassIsFresh(p)
  BY DEF Receive, Record, store, PeriodInv
<1>2. (Firing(p)' => Firing(p)) /\ (InEvents(p)' <=> InEvents(p))
  BY <1>1 DEF Receive, Record, Goto, TypeOK, Firing, InEvents
<1>3. PassIsFresh(p)'
  BY <1>1, <1>2 DEF PassIsFresh, InPeriod
<1>4. \A s \in Timed : On(s)' => InPeriod(s, rows[s].due)'
  BY <1>1 DEF PeriodInv, On, InPeriod
<1> QED BY <1>3, <1>4, OnlyLoop DEF PeriodInv

\* What a person saves from a stale copy is disabled.
LEMMA OthersKeepPeriods ==
  ASSUME TypeOK, PeriodInv,
         Advance \/ PauseSave \/ (\E s \in Edited : PauseRead(s) \/ Delete(s))
  PROVE  PeriodInv'
<1>1. UNCHANGED <<pc, now, batch, cur, ran>>
  BY DEF Advance, PauseSave, PauseRead, Delete, local
<1>2. \A s \in Schedules : rows'[s] = rows[s] \/ rows'[s].state \in {"paused", "gone"}
  <2>1. CASE Advance \/ \E s \in Edited : PauseRead(s)
    BY <2>1 DEF Advance, PauseRead, store
  <2>2. CASE PauseSave
    BY <2>2 DEF PauseSave, TypeOK, Copy
  <2>3. CASE \E s \in Edited : Delete(s)
    BY <2>3 DEF Delete, TypeOK
  <2> QED BY <2>1, <2>2, <2>3
<1>3. \A s \in Timed : On(s)' => InPeriod(s, rows[s].due)'
  BY <1>1, <1>2, RecurrenceAssumption DEF PeriodInv, On, InPeriod
<1>4. \A p \in Loops : PassIsFresh(p)'
  BY <1>1 DEF PeriodInv, PassIsFresh, Firing, InEvents, InPeriod
<1> QED BY <1>3, <1>4 DEF PeriodInv

\* PeriodInv is inductive for one loop, next to the types.
LEMMA PeriodStep ==
  ASSUME TypeOK, OneLoop, PeriodInv, [Next]_vars PROVE PeriodInv'
<1>1. ASSUME NEW p \in Loops, Step(p) PROVE PeriodInv'
  <2>1. CASE PassDone(p)
    BY <2>1, LeavingKeepsPeriods DEF PassDone, store
  <2> QED BY <1>1, <2>1, TickKeepsPeriods, FireDueKeepsPeriods, EventStepsKeepPeriods,
             MarkKeepsPeriods, OtherFiringStepsKeepPeriods DEF Step
<1>2. ASSUME NEW p \in Loops, QueryFails(p) \/ Kill(p) PROVE PeriodInv'
  BY <1>2, LeavingKeepsPeriods DEF QueryFails, Kill, store
<1>3. ASSUME NEW p \in Loops, Restart(p) PROVE PeriodInv'
  <2>1. pc'[p] = "idle" /\ pc[p] = "off" /\ UNCHANGED <<rows, ran, batch, now, cur>>
    BY <1>3 DEF Restart, Goto, TypeOK, store
  <2>2. PassIsFresh(p)'
    BY <2>1 DEF PeriodInv, PassIsFresh, Firing, InEvents, InPeriod
  <2> QED BY <2>1, <2>2, OnlyLoop DEF PeriodInv, On, InPeriod
<1>4. CASE Advance \/ PauseSave \/ (\E s \in Edited : PauseRead(s) \/ Delete(s))
  BY <1>4, OthersKeepPeriods
<1>5. CASE UNCHANGED vars
  BY <1>5 DEF vars, PeriodInv, PassIsFresh, Firing, InEvents, InPeriod, On
<1> QED BY <1>1, <1>2, <1>3, <1>4, <1>5 DEF Next

\* With one loop every enabled row and every copy a pass holds is in its period.
THEOREM PeriodsAreTracked == OneLoop /\ Spec => [](OneLoop /\ PeriodInv)
<1>1. Init => PeriodInv
  BY PeriodInit
<1>2. OneLoop /\ PeriodInv /\ IndInv /\ [Next]_vars => (OneLoop /\ PeriodInv)'
  BY PeriodStep DEF IndInv, OneLoop
<1> QED BY <1>1, <1>2, SchedulerInvariant, PTL DEF Spec

\* Between two firings of a schedule lies a whole recurrence: no step of a single
\* loop fires it sooner, for any recurrences, edits, failures and kills.
THEOREM PeriodsAreKept == OneLoop /\ Spec => PeriodIsKept
<1> DEFINE Kept == \A s \in Timed :
             OneLoop /\ ran'[s] # ran[s] /\ ran[s].times > 0 =>
               ran'[s].last >= NextAfter(s, ran[s].last)
<1>1. TypeOK /\ PeriodInv /\ [Next]_vars => [Kept]_vars
  <2> SUFFICES ASSUME TypeOK, PeriodInv, Next, NEW s \in Timed,
                      ran'[s] # ran[s], ran[s].times > 0
               PROVE  ran'[s].last >= NextAfter(s, ran[s].last)
    BY DEF vars
  <2>1. PICK p \in Loops : Mark(p)
    BY DEF Next, Step, Tick, FireDue, List, Pending, Claim, PassDone, Receive, Record,
           QueryFails, Kill, Restart, Advance, PauseSave, PauseRead, Delete
  <2>2. cur[p].s = s /\ ran'[s].last = now[p]
    BY <2>1 DEF Mark, TypeOK
  <2>3. PassIsFresh(p) /\ Firing(p)
    BY <2>1 DEF PeriodInv, Mark, Firing
  <2>4. cur[p].due <= now[p] /\ cur[p].due >= NextAfter(s, ran[s].last)
    BY <2>2, <2>3 DEF PassIsFresh, InPeriod
  <2>5. NextAfter(s, ran[s].last) \in Nat /\ cur[p].due \in Nat /\ now[p] \in Nat
    BY NextIsLater DEF TypeOK
  <2> QED BY <2>2, <2>4, <2>5
<1>2. IndInv => TypeOK
  BY DEF IndInv
<1> QED BY <1>1, <1>2, SchedulerInvariant, PeriodsAreTracked, PTL DEF Spec, PeriodIsKept

-----------------------------------------------------------------------------
(* The move to another store *)

MoveTypes ==
  /\ home \in [Items -> Moved!Versions] /\ away \in [Items -> Moved!Versions]
  /\ DOMAIN left \subseteq Items /\ left \in [DOMAIN left -> Moved!Versions]

\* Nobody wrote, nothing failed and no problem was printed since the command began.
WentThrough == quiet /\ ~problems

\* The destination's rows of t are rows of the source, in its version.
OnlyOurs(t) == \A x \in Moved!In(away, t) : away[x] = home[x]

\* What is still to write is of the table and as the source has it.
LeftIsTheSource ==
  at = "copy" /\ WentThrough /\ table # "none" =>
    \A x \in DOMAIN left : x \in Moved!In(home, table) /\ left[x] = home[x]

\* Of a table with a key of several columns: all of it is still to write, or what is
\* at the destination is what this copy has written.
CopyReplaces ==
  at = "copy" /\ WentThrough /\ table # "none" /\ Moved!Composite(table) =>
    \/ DOMAIN left = Moved!In(home, table)
    \/ OnlyOurs(table)

\* Its copy is over: there was nothing to write, or no row of the destination is
\* another's.
Settled(t) == Moved!In(home, t) = {} \/ OnlyOurs(t)

CopiesAreSettled ==
  /\ at = "copy" => DOMAIN checked = {}
  /\ at = "copy" /\ WentThrough =>
       \A t \in copied : Moved!Composite(t) => Settled(t)
  /\ at \in {"verify", "ask"} /\ WentThrough =>
       \A t \in Moved!Tables : Moved!Composite(t) => Settled(t)

\* A table that agreed had arrived, and goes on having arrived until the answer.
AgreedHadArrived ==
  /\ at = "ask" => good
  /\ at \in {"verify", "ask"} /\ good => \A t \in DOMAIN checked :
       /\ t \in Moved!Tables /\ DOMAIN checked[t] \subseteq Items
       /\ (Moved!Composite(t) => WentThrough) => Moved!HadArrived(t)

\* The inductive invariant of the move.
MoveInv ==
  MoveTypes /\ LeftIsTheSource /\ CopyReplaces /\ CopiesAreSettled /\ AgreedHadArrived

THEOREM MoveStarts == Moved!Init => MoveInv
<1> SUFFICES ASSUME Moved!Init PROVE MoveInv
  OBVIOUS
<1> USE DEF Moved!Init
<1>1. MoveTypes
  BY DEF MoveTypes, Moved!Versions
<1> QED BY <1>1 DEF MoveInv, LeftIsTheSource, CopyReplaces, CopiesAreSettled, AgreedHadArrived

\* What moves neither the two stores nor the command leaves the invariant alone.
LEMMA MoveRests ==
  ASSUME MoveInv,
         UNCHANGED <<home, away, at, table, left, copied, checked, good, problems, quiet>>
  PROVE  MoveInv'
<1>1. MoveTypes'
  BY DEF MoveInv, MoveTypes
<1>2. LeftIsTheSource' /\ CopyReplaces'
  BY DEF MoveInv, LeftIsTheSource, CopyReplaces, WentThrough, OnlyOurs, Moved!In, Moved!Rows, Moved!Of
<1>3. CopiesAreSettled'
  BY DEF MoveInv, CopiesAreSettled, Settled, WentThrough, OnlyOurs, Moved!In, Moved!Rows, Moved!Of
<1>4. AgreedHadArrived'
  BY DEF MoveInv, AgreedHadArrived, WentThrough, Moved!HadArrived
<1> QED BY <1>1, <1>2, <1>3, <1>4 DEF MoveInv

\* Where no command runs the invariant asks for types alone.
LEMMA IdleIsEasy ==
  ASSUME MoveTypes', at' = "idle"
  PROVE  MoveInv'
BY DEF MoveInv, LeftIsTheSource, CopyReplaces, CopiesAreSettled, AgreedHadArrived

LEMMA EndsKeep ==
  ASSUME MoveInv, Moved!Erase \/ Moved!LeftAlone \/ Moved!Kill
  PROVE  MoveInv'
<1>1. at' = "idle"
  BY DEF Moved!Erase, Moved!LeftAlone, Moved!Kill
<1>2. MoveTypes'
  <2>1. CASE Moved!Erase
    BY <2>1 DEF MoveInv, MoveTypes, Moved!Erase, Moved!Versions
  <2>2. CASE Moved!LeftAlone
    BY <2>2 DEF MoveInv, MoveTypes, Moved!LeftAlone
  <2>3. CASE Moved!Kill
    BY <2>3 DEF MoveInv, MoveTypes, Moved!Kill
  <2> QED BY <2>1, <2>2, <2>3
<1> QED BY <1>1, <1>2, IdleIsEasy

LEMMA StartKeeps == ASSUME MoveInv, Moved!Start PROVE MoveInv'
<1> USE DEF Moved!Start
<1>1. MoveTypes'
  BY DEF MoveInv, MoveTypes
<1>2. at' = "copy" /\ table' = "none" /\ copied' = {} /\ DOMAIN checked' = {}
  OBVIOUS
<1> QED BY <1>1, <1>2 DEF MoveInv, LeftIsTheSource, CopyReplaces, CopiesAreSettled, AgreedHadArrived

-----------------------------------------------------------------------------
(* The copy *)

LEMMA OpenTableKeeps ==
  ASSUME MoveInv, NEW t \in Moved!Tables, Moved!OpenTable(t) PROVE MoveInv'
<1> USE DEF Moved!OpenTable
<1>1. /\ at = "copy" /\ at' = at /\ table' = t
      /\ left' = [x \in Moved!In(home, t) |-> home[x]]
      /\ UNCHANGED <<home, away, copied, checked, good, problems, quiet>>
  OBVIOUS
<1>2. MoveTypes'
  BY <1>1 DEF MoveInv, MoveTypes, Moved!In, Moved!Rows
<1>3. LeftIsTheSource' /\ CopyReplaces'
  BY <1>1 DEF LeftIsTheSource, CopyReplaces, Moved!In, Moved!Rows, Moved!Of
<1>4. CopiesAreSettled'
  BY <1>1 DEF MoveInv, CopiesAreSettled, Settled, WentThrough, OnlyOurs, Moved!In, Moved!Rows, Moved!Of
<1>5. AgreedHadArrived'
  BY <1>1 DEF AgreedHadArrived
<1> QED BY <1>2, <1>3, <1>4, <1>5 DEF MoveInv

\* The copy of a table ends: it is settled if nothing of it is left to write, and a
\* copy that ends another way is not one that went through.
LEMMA CloseTableKeeps ==
  ASSUME MoveInv, Moved!CloseTable, at = "copy", at' = at, table # "none",
         UNCHANGED <<home, away, checked, good>>,
         \/ left = <<>> /\ UNCHANGED <<problems, quiet>>
         \/ problems'
  PROVE  MoveInv'
<1>1. table' = "none" /\ left' = <<>> /\ copied' = copied \cup {table}
  BY DEF Moved!CloseTable
<1>2. MoveTypes'
  BY <1>1 DEF MoveInv, MoveTypes
<1>3. LeftIsTheSource' /\ CopyReplaces'
  BY <1>1 DEF LeftIsTheSource, CopyReplaces
<1>4. AgreedHadArrived'
  BY DEF AgreedHadArrived
<1>5. CopiesAreSettled'
  <2>1. ASSUME WentThrough', NEW t \in copied', Moved!Composite(t) PROVE Settled(t)'
    <3>1. ~problems' /\ quiet'
      BY <2>1 DEF WentThrough
    <3>2. left = <<>> /\ problems' = problems /\ quiet' = quiet
      BY <3>1
    <3>3. WentThrough
      BY <3>1, <3>2 DEF WentThrough
    <3>4. Settled(t)
      <4>1. CASE t \in copied
        BY <2>1, <3>3, <4>1 DEF MoveInv, CopiesAreSettled
      <4>2. CASE t = table
        <5>1. DOMAIN left = {}
          BY <3>2
        <5> QED BY <2>1, <3>3, <4>2, <5>1 DEF MoveInv, CopyReplaces, Settled
      <4> QED BY <1>1, <4>1, <4>2
    <3> QED BY <3>4 DEF Settled, OnlyOurs, Moved!In, Moved!Rows, Moved!Of
  <2>2. DOMAIN checked' = {}
    BY DEF MoveInv, CopiesAreSettled
  <2> QED BY <2>1, <2>2 DEF CopiesAreSettled
<1> QED BY <1>2, <1>3, <1>4, <1>5 DEF MoveInv

\* What a deletion leaves is what was there or nothing; what it deletes is gone.
LEMMA DeletionLeaves ==
  ASSUME NEW gone, NEW x \in Items
  PROVE  /\ Moved!Without(away, gone)[x] \in {away[x], "none"}
         /\ x \in gone => Moved!Without(away, gone)[x] = "none"
<1>1. gone \subseteq Moved!Closure(away, gone)
  BY DEF Moved!Closure
<1> QED BY <1>1 DEF Moved!Without

\* One transaction at the destination writes rows of the table as the source has
\* them, of a composite key in the place of all that were there.
LEMMA CopyBatchKeeps ==
  ASSUME MoveInv, NEW b \in SUBSET DOMAIN left, Moved!CopyBatch(b) PROVE MoveInv'
<1> DEFINE payload == [x \in b |-> left[x]]
           gone == Moved!Replaced(table, payload)
           rest == Moved!Without(away, gone)
<1>1. /\ at = "copy" /\ at' = at /\ table # "none"
      /\ UNCHANGED <<home, checked, good, quiet>>
  BY DEF Moved!CopyBatch
<1>2. CASE Moved!CloseTable /\ problems' /\ UNCHANGED away
  BY <1>1, <1>2, CloseTableKeeps
<1>3. CASE /\ away' = [x \in Items |-> IF x \in b THEN left[x] ELSE rest[x]]
           /\ left' = [x \in DOMAIN left \ b |-> left[x]]
           /\ UNCHANGED <<table, copied, problems>>
  <2>1. \A x \in Items :
          /\ away'[x] = IF x \in b THEN left[x] ELSE rest[x]
          /\ rest[x] \in {away[x], "none"}
          /\ x \in gone => rest[x] = "none"
    BY <1>3, DeletionLeaves
  <2>2. \A x \in DOMAIN left : x \in Items /\ left[x] \in Moved!Versions
    BY DEF MoveInv, MoveTypes
  <2> HIDE DEF rest, gone
  <2>3. MoveTypes'
    <3>1. away' \in [Items -> Moved!Versions]
      BY <1>3, <2>1, <2>2 DEF MoveInv, MoveTypes, Moved!Versions
    <3> QED BY <1>1, <1>3, <2>2, <3>1 DEF MoveInv, MoveTypes
  <2>4. WentThrough' => WentThrough
    BY <1>1, <1>3 DEF WentThrough
  <2>5. LeftIsTheSource'
    BY <1>1, <1>3, <2>4 DEF MoveInv, LeftIsTheSource, Moved!In, Moved!Rows, Moved!Of
  <2>6. ASSUME WentThrough PROVE \A x \in b : TableOf[x] = table /\ left[x] = home[x] /\ x \in Items
    BY <1>1, <2>6, <2>2 DEF MoveInv, LeftIsTheSource, Moved!In, Moved!Of
  <2>7. ASSUME WentThrough, Moved!Composite(table) PROVE OnlyOurs(table)'
    <3>1. gone = Moved!In(away, table)
      BY <2>7 DEF gone, Moved!Replaced
    <3>2. ASSUME NEW x \in Items, TableOf[x] = table, away'[x] # "none" PROVE away'[x] = home[x]
      <4>1. CASE x \in b
        BY <2>1, <2>6, <2>7, <4>1
      <4>2. CASE x \notin b
        <5>1. away[x] # "none"
          BY <2>1, <3>2, <4>2
        <5>2. x \in gone
          BY <3>1, <3>2, <5>1 DEF Moved!In, Moved!Rows, Moved!Of
        <5> QED BY <2>1, <3>2, <4>2, <5>2
      <4> QED BY <4>1, <4>2
    <3> QED BY <1>1, <1>3, <3>2 DEF OnlyOurs, Moved!In, Moved!Rows, Moved!Of
  <2>8. CopyReplaces'
    BY <1>3, <2>4, <2>7 DEF CopyReplaces
  <2>9. CopiesAreSettled'
    <3>1. ASSUME WentThrough', NEW t \in copied, Moved!Composite(t) PROVE Settled(t)'
      <4>1. WentThrough /\ Settled(t)
        BY <1>1, <2>4, <3>1 DEF MoveInv, CopiesAreSettled
      <4>2. CASE t = table
        BY <2>7, <3>1, <4>1, <4>2, <1>3 DEF Settled
      <4>3. CASE t # table
        <5>1. \A x \in Items : TableOf[x] = t => away'[x] \in {away[x], "none"}
          BY <2>1, <2>6, <4>1, <4>3
        <5> QED BY <1>1, <4>1, <5>1 DEF Settled, OnlyOurs, Moved!In, Moved!Rows, Moved!Of
      <4> QED BY <4>2, <4>3
    <3>2. DOMAIN checked' = {}
      BY <1>1 DEF MoveInv, CopiesAreSettled
    <3> QED BY <1>1, <1>3, <3>1, <3>2 DEF CopiesAreSettled
  <2>10. AgreedHadArrived'
    BY <1>1 DEF AgreedHadArrived
  <2> QED BY <2>3, <2>5, <2>8, <2>9, <2>10 DEF MoveInv
<1> QED BY <1>2, <1>3 DEF Moved!CopyBatch

LEMMA CopyEndsKeep ==
  ASSUME MoveInv, Moved!TableCopied \/ Moved!CopyFails PROVE MoveInv'
<1>1. CASE Moved!TableCopied
  BY <1>1, CloseTableKeeps DEF Moved!TableCopied
<1>2. CASE Moved!CopyFails
  BY <1>2, CloseTableKeeps DEF Moved!CopyFails
<1> QED BY <1>1, <1>2

LEMMA AdvanceKeeps == ASSUME MoveInv, Moved!Advance PROVE MoveInv'
<1>1. /\ at = "copy" /\ copied = Moved!Tables /\ at' = "verify"
      /\ UNCHANGED <<home, away, table, left, copied, checked, good, quiet>>
      /\ problems' = problems \/ problems'
  BY DEF Moved!Advance
<1>2. MoveTypes'
  BY <1>1 DEF MoveInv, MoveTypes
<1>3. LeftIsTheSource' /\ CopyReplaces'
  BY <1>1 DEF LeftIsTheSource, CopyReplaces
<1>4. DOMAIN checked' = {}
  BY <1>1 DEF MoveInv, CopiesAreSettled
<1>5. AgreedHadArrived'
  BY <1>1, <1>4 DEF AgreedHadArrived
<1>6. CopiesAreSettled'
  <2>1. ASSUME WentThrough', NEW t \in Moved!Tables, Moved!Composite(t) PROVE Settled(t)'
    <3>1. WentThrough
      BY <1>1, <2>1 DEF WentThrough
    <3>2. Settled(t)
      BY <1>1, <2>1, <3>1 DEF MoveInv, CopiesAreSettled
    <3> QED BY <1>1, <3>2 DEF Settled, OnlyOurs, Moved!In, Moved!Rows, Moved!Of
  <2> QED BY <1>1, <2>1 DEF CopiesAreSettled
<1> QED BY <1>2, <1>3, <1>5, <1>6 DEF MoveInv

-----------------------------------------------------------------------------
(* The verification *)

\* Sets of rows with as many members, one within the other, are the same.
LEMMA AsManyAreTheSame ==
  ASSUME NEW t, Moved!In(away, t) \subseteq Moved!In(home, t),
         Moved!Cardinality(Moved!In(home, t)) = Moved!Cardinality(Moved!In(away, t))
  PROVE  Moved!In(away, t) = Moved!In(home, t)
<1>1. IsFiniteSet(Moved!In(home, t))
  <2>1. Moved!In(home, t) \subseteq Items
    BY DEF Moved!In, Moved!Rows
  <2> QED BY <2>1, ItemsAssumption, FS_Subset
<1>2. \A S : Moved!Cardinality(S) = Cardinality(S)
  BY DEF Moved!Cardinality, Cardinality
<1> QED BY <1>1, <1>2, FS_Subset

\* What agrees has arrived: compared by the whole key, or as many rows as the copy
\* that went through has brought.
LEMMA AgreeingHasArrived ==
  ASSUME MoveInv, NEW t \in Moved!Tables, at = "verify",
         NEW mine \in Moved!Read(home, t), NEW theirs \in Moved!Read(away, t),
         Moved!Agrees(t, mine, theirs), Moved!Composite(t) => WentThrough
  PROVE  \A x \in Moved!In(home, t) : away[x] = home[x]
<1>1. CASE ~Moved!Composite(t)
  <2> SUFFICES ASSUME NEW x \in Moved!In(home, t) PROVE away[x] = home[x]
    OBVIOUS
  <2> DEFINE k == Leading[x]
  <2>1. /\ k \in DOMAIN theirs /\ mine[k] = theirs[k]
        /\ home[mine[k]] = away[theirs[k]]
    BY DEF Moved!Agrees
  <2>2. mine[k] \in Moved!In(home, t) /\ Leading[mine[k]] = k
    BY DEF Moved!Read
  <2>3. mine[k] = x
    BY <1>1, <2>2, ItemsAssumption DEF Moved!In, Moved!Rows, Moved!Of
  <2> QED BY <2>1, <2>3
<1>2. CASE Moved!Composite(t)
  <2>1. Settled(t)
    BY <1>2 DEF MoveInv, CopiesAreSettled
  <2>2. CASE Moved!In(home, t) = {}
    BY <2>2
  <2>3. CASE OnlyOurs(t)
    <3>1. Moved!In(away, t) \subseteq Moved!In(home, t)
      BY <2>3 DEF OnlyOurs, Moved!In, Moved!Rows, Moved!Of
    <3>2. Moved!In(away, t) = Moved!In(home, t)
      BY <3>1, AsManyAreTheSame DEF Moved!Agrees
    <3> QED BY <2>3, <3>2 DEF OnlyOurs
  <2> QED BY <2>1, <2>2, <2>3 DEF Settled
<1> QED BY <1>1, <1>2

\* The verification moves no row.
LEMMA CheckingKeeps ==
  ASSUME MoveInv, at \in {"verify", "ask"}, at' \in {"verify", "ask"}, AgreedHadArrived',
         UNCHANGED <<home, away, table, left, problems, quiet>>
  PROVE  MoveInv'
<1>1. MoveTypes'
  BY DEF MoveInv, MoveTypes
<1>2. LeftIsTheSource' /\ CopyReplaces'
  BY DEF LeftIsTheSource, CopyReplaces
<1>3. CopiesAreSettled'
  <2>1. ASSUME WentThrough', NEW t \in Moved!Tables, Moved!Composite(t) PROVE Settled(t)'
    <3>1. Settled(t)
      BY <2>1 DEF MoveInv, CopiesAreSettled, WentThrough
    <3> QED BY <3>1 DEF Settled, OnlyOurs, Moved!In, Moved!Rows, Moved!Of
  <2> QED BY <2>1 DEF CopiesAreSettled
<1> QED BY <1>1, <1>2, <1>3 DEF MoveInv

LEMMA VerifyKeeps ==
  ASSUME MoveInv, NEW t \in Moved!Tables, Moved!Verify(t) \/ Moved!VerifyFails(t)
  PROVE  MoveInv'
<1>1. /\ at = "verify" /\ at' = at
      /\ UNCHANGED <<home, away, table, left, problems, quiet>>
  BY DEF Moved!Verify, Moved!VerifyFails
<1>2. CASE Moved!Verify(t)
  <2>1. PICK mine \in Moved!Read(home, t), theirs \in Moved!Read(away, t) :
          good' = (good /\ Moved!Agrees(t, mine, theirs))
    BY <1>2 DEF Moved!Verify
  <2>2. /\ DOMAIN checked' = DOMAIN checked \cup {t}
        /\ checked'[t] = [x \in Moved!In(home, t) |-> home[x]]
        /\ \A u \in DOMAIN checked \ {t} : checked'[u] = checked[u]
    BY <1>2 DEF Moved!Verify, Moved!NowChecked
  <2>3. ASSUME good', NEW u \in DOMAIN checked', u # t
        PROVE  /\ u \in Moved!Tables /\ DOMAIN checked'[u] \subseteq Items
               /\ (Moved!Composite(u) => WentThrough') => Moved!HadArrived(u)'
    <3>1. good /\ u \in DOMAIN checked /\ checked'[u] = checked[u]
      BY <2>1, <2>2, <2>3
    <3>2. /\ u \in Moved!Tables /\ DOMAIN checked[u] \subseteq Items
          /\ (Moved!Composite(u) => WentThrough) => Moved!HadArrived(u)
      BY <1>1, <3>1 DEF MoveInv, AgreedHadArrived
    <3> QED BY <1>1, <3>1, <3>2 DEF WentThrough, Moved!HadArrived
  <2>4. ASSUME good', Moved!Composite(t) => WentThrough' PROVE Moved!HadArrived(t)'
    <3>1. Moved!Agrees(t, mine, theirs) /\ (Moved!Composite(t) => WentThrough)
      BY <1>1, <2>1, <2>4 DEF WentThrough
    <3>2. \A x \in Moved!In(home, t) : away[x] = home[x]
      BY <1>1, <3>1, AgreeingHasArrived
    <3> QED BY <1>1, <2>2, <3>2 DEF Moved!HadArrived
  <2>5. AgreedHadArrived'
    <3>1. DOMAIN checked'[t] \subseteq Items
      BY <2>2 DEF Moved!In, Moved!Rows
    <3> QED BY <1>1, <2>3, <2>4, <3>1 DEF AgreedHadArrived
  <2> QED BY <1>1, <2>5, CheckingKeeps
<1>3. CASE Moved!VerifyFails(t)
  <2>1. ~good'
    BY <1>3 DEF Moved!VerifyFails
  <2>2. AgreedHadArrived'
    BY <1>1, <2>1 DEF AgreedHadArrived
  <2> QED BY <1>1, <2>2, CheckingKeeps
<1> QED BY <1>2, <1>3

LEMMA ConcludeKeeps == ASSUME MoveInv, Moved!Conclude PROVE MoveInv'
<1>1. /\ at = "verify"
      /\ UNCHANGED <<home, away, table, left, checked, good, problems, quiet>>
  BY DEF Moved!Conclude
<1>2. CASE good
  <2>1. at' = "ask"
    BY <1>2 DEF Moved!Conclude
  <2>2. AgreedHadArrived'
    BY <1>1, <1>2, <2>1 DEF MoveInv, AgreedHadArrived, WentThrough, Moved!HadArrived
  <2> QED BY <1>1, <2>1, <2>2, CheckingKeeps
<1>3. CASE ~good
  <2>1. at' = "idle"
    BY <1>3 DEF Moved!Conclude
  <2>2. MoveTypes'
    BY <1>1 DEF MoveInv, MoveTypes
  <2> QED BY <2>1, <2>2, IdleIsEasy
<1> QED BY <1>2, <1>3

-----------------------------------------------------------------------------
(* Programs, and the theorem *)

\* A row is written at home, or away in that version; then nothing is quiet.
LEMMA WritingKeeps ==
  ASSUME MoveInv, NEW x \in Items, ~quiet',
         Moved!Put(x) \/ UNCHANGED <<home, away>>,
         UNCHANGED <<at, table, left, copied, checked, good, problems>>
  PROVE  MoveInv'
<1>1. MoveTypes'
  <2>1. CASE UNCHANGED <<home, away>>
    BY <2>1 DEF MoveInv, MoveTypes
  <2>2. CASE Moved!Put(x)
    BY <2>2 DEF MoveInv, MoveTypes, Moved!Put, Moved!Versions
  <2> QED BY <2>1, <2>2
<1>2. ~WentThrough'
  BY DEF WentThrough
<1>3. LeftIsTheSource' /\ CopyReplaces' /\ CopiesAreSettled'
  BY <1>2 DEF MoveInv, LeftIsTheSource, CopyReplaces, CopiesAreSettled
<1>4. \A y \in Items : away'[y] \in {away[y], "away"}
  BY DEF MoveInv, MoveTypes, Moved!Put
<1>5. AgreedHadArrived'
  <2>1. ASSUME at' \in {"verify", "ask"}, good', NEW t \in DOMAIN checked'
        PROVE  /\ t \in Moved!Tables /\ DOMAIN checked'[t] \subseteq Items
               /\ (Moved!Composite(t) => WentThrough') => Moved!HadArrived(t)'
    <3>1. /\ t \in Moved!Tables /\ DOMAIN checked[t] \subseteq Items
          /\ (Moved!Composite(t) => WentThrough) => Moved!HadArrived(t)
      BY <2>1 DEF MoveInv, AgreedHadArrived
    <3> QED BY <1>2, <1>4, <3>1 DEF Moved!HadArrived
  <2>2. at' = "ask" => good'
    BY DEF MoveInv, AgreedHadArrived
  <2> QED BY <2>1, <2>2 DEF AgreedHadArrived
<1> QED BY <1>1, <1>3, <1>5 DEF MoveInv

LEMMA ProgramsKeep ==
  ASSUME MoveInv, NEW x \in Items, Moved!Write(x) \/ Moved!WriteNumbered(x)
  PROVE  MoveInv'
<1>1. CASE Moved!Write(x)
  BY <1>1, WritingKeeps DEF Moved!Write
<1>2. CASE Moved!WriteNumbered(x)
  <2>1. Moved!Put(x) \/ UNCHANGED <<home, away>>
    BY <1>2 DEF Moved!WriteNumbered
  <2>2. ~quiet' /\ UNCHANGED <<at, table, left, copied, checked, good, problems>>
    BY <1>2 DEF Moved!WriteNumbered
  <2> QED BY <2>1, <2>2, WritingKeeps
<1> QED BY <1>1, <1>2

THEOREM MoveStep == MoveInv /\ [Moved!Next]_move => MoveInv'
<1> SUFFICES ASSUME MoveInv, [Moved!Next]_move PROVE MoveInv'
  OBVIOUS
<1>1. CASE Moved!Start \/ Moved!Advance \/ Moved!TableCopied \/ Moved!CopyFails
           \/ Moved!Conclude \/ Moved!Erase \/ Moved!LeftAlone \/ Moved!Kill
  BY <1>1, StartKeeps, AdvanceKeeps, CopyEndsKeep, ConcludeKeeps, EndsKeep
<1>2. CASE Moved!Point \/ Moved!PointBack
  BY <1>2, MoveRests DEF Moved!Point, Moved!PointBack
<1>3. ASSUME NEW t \in Moved!Tables, Moved!OpenTable(t) \/ Moved!Verify(t) \/ Moved!VerifyFails(t)
      PROVE  MoveInv'
  BY <1>3, OpenTableKeeps, VerifyKeeps
<1>4. ASSUME NEW b \in SUBSET DOMAIN left, Moved!CopyBatch(b) PROVE MoveInv'
  BY <1>4, CopyBatchKeeps
<1>5. ASSUME NEW x \in Items, Moved!Write(x) \/ Moved!WriteNumbered(x) PROVE MoveInv'
  BY <1>5, ProgramsKeep
<1>6. CASE UNCHANGED move
  BY <1>6, MoveRests DEF move
<1> QED BY <1>1, <1>2, <1>3, <1>4, <1>5, <1>6 DEF Moved!Next

-----------------------------------------------------------------------------
(* What a statement does to the memories and to their index *)

Known == {"create", "drop", "add", "remove", "rename", "copy", "check", "index", "unindex",
          "fill", "forget", "seed"}

\* A database: its memories and what the index says of each.
IsDatabase(d) ==
  /\ DOMAIN d = DOMAIN Migrated!Empty
  /\ d.memory = [n \in Notes |-> d.memory[n]] /\ d.text = [n \in Notes |-> d.text[n]]

NoMemories(d) == \A n \in Notes : d.memory[n] = Migrated!Absent

\* Without their table there are no memories, and without triggers the index is empty.
NothingLeftOver(d) ==
  /\ "memory_items" \notin DOMAIN d.tables => "memory_items" \notin d.live /\ NoMemories(d)
  /\ "memory_items" \notin d.live => \A n \in Notes : d.text[n] = 0

HoldsTheRows(d) == "memory_items" \in d.live => d.text = Migrated!Texts(d.memory)

\* Any statement about another table.
LEMMA OthersAreApart ==
  ASSUME NEW d, IsDatabase(d), NEW s, s.of # "memory_items", s.op \in Known \ {"fill", "forget"}
  PROVE  /\ IsDatabase(Migrated!Done(d, s))
         /\ Migrated!Done(d, s).memory = d.memory /\ Migrated!Done(d, s).text = d.text
         /\ "memory_items" \in Migrated!Done(d, s).live <=> "memory_items" \in d.live
         /\ "memory_items" \in DOMAIN Migrated!Done(d, s).tables <=> "memory_items" \in DOMAIN d.tables
<1> DEFINE e == Migrated!Done(d, s)
           Apart(x) ==
             /\ DOMAIN x = DOMAIN d /\ x.memory = d.memory /\ x.text = d.text
             /\ "memory_items" \in x.live <=> "memory_items" \in d.live
             /\ "memory_items" \in DOMAIN x.tables <=> "memory_items" \in DOMAIN d.tables
<1>1. {"rev", "tables", "columns", "accepts", "named", "memory", "text", "live", "copies", "seeded"} = DOMAIN d
  BY DEF IsDatabase, Migrated!Empty
<1> SUFFICES Apart(e)
  BY DEF IsDatabase
<1>2. CASE s.op = "create"
  <2>1. e = Migrated!Created(d, s)
    BY <1>2 DEF Migrated!Done
  <2> QED
    BY <1>1, <2>1 DEF Migrated!Created
<1>3. CASE s.op = "drop"
  <2>1. e = Migrated!Dropped(d, s)
    BY <1>3 DEF Migrated!Done
  <2> QED
    BY <1>1, <2>1 DEF Migrated!Dropped
<1>4. CASE s.op = "add"
  <2>1. e = [d EXCEPT !.columns = @ \cup {<<s.of, s.column>>}]
    BY <1>4 DEF Migrated!Done
  <2> QED
    BY <1>1, <2>1
<1>5. CASE s.op = "remove"
  <2>1. e = [d EXCEPT !.columns = @ \ {<<s.of, s.column>>}]
    BY <1>5 DEF Migrated!Done
  <2> QED
    BY <1>1, <2>1
<1>6. CASE s.op = "rename"
  <2>1. e = Migrated!Renaming(d, s)
    BY <1>6 DEF Migrated!Done
  <2> QED
    BY <1>1, <2>1 DEF Migrated!Renaming
<1>7. CASE s.op = "copy"
  <2>1. e = [d EXCEPT !.copies = @ \cup {s.of}]
    BY <1>7 DEF Migrated!Done
  <2> QED
    BY <1>1, <2>1
<1>8. CASE s.op = "check"
  <2>1. e = Migrated!Checked(d, s)
    BY <1>8 DEF Migrated!Done
  <2> QED
    BY <1>1, <2>1 DEF Migrated!Checked
<1>9. CASE s.op = "index"
  <2>1. e = Migrated!Indexed(d, s)
    BY <1>9 DEF Migrated!Done
  <2> QED
    BY <1>1, <2>1 DEF Migrated!Indexed
<1>10. CASE s.op = "unindex"
  <2>1. e = Migrated!Unindexed(d, s)
    BY <1>10 DEF Migrated!Done
  <2> QED
    BY <1>1, <2>1 DEF Migrated!Unindexed
<1>11. CASE s.op = "seed"
  <2>1. e = [d EXCEPT !.seeded = TRUE]
    BY <1>11 DEF Migrated!Done
  <2> QED
    BY <1>1, <2>1
<1> QED
  BY <1>2, <1>3, <1>4, <1>5, <1>6, <1>7, <1>8, <1>9, <1>10, <1>11 DEF Known

\* Statements about the table of the memories, its constraint and its index.
LEMMA MemoriesAreMade ==
  ASSUME NEW d, IsDatabase(d), NEW s, s.of = "memory_items", s.op = "create"
  PROVE  /\ IsDatabase(Migrated!Done(d, s))
         /\ Migrated!Done(d, s).memory = d.memory /\ Migrated!Done(d, s).text = d.text
         /\ Migrated!Done(d, s).live = d.live
         /\ "memory_items" \in DOMAIN Migrated!Done(d, s).tables
<1> DEFINE e == Migrated!Done(d, s)
<1>1. {"rev", "tables", "columns", "accepts", "named", "memory", "text", "live", "copies", "seeded"} = DOMAIN d
  BY DEF IsDatabase, Migrated!Empty
<1>2. e = Migrated!Created(d, s)
  BY DEF Migrated!Done
<1>3. /\ DOMAIN e = DOMAIN d /\ e.memory = d.memory /\ e.text = d.text /\ e.live = d.live
      /\ "memory_items" \in DOMAIN e.tables
  BY <1>1, <1>2 DEF Migrated!Created
<1> QED
  BY <1>3 DEF IsDatabase

LEMMA MemoriesAreDropped ==
  ASSUME NEW d, IsDatabase(d), NEW s, s.of = "memory_items", s.op = "drop"
  PROVE  /\ IsDatabase(Migrated!Done(d, s)) /\ NoMemories(Migrated!Done(d, s))
         /\ Migrated!Done(d, s).text = d.text
         /\ "memory_items" \notin Migrated!Done(d, s).live
<1> DEFINE e == Migrated!Done(d, s)
<1>1. {"rev", "tables", "columns", "accepts", "named", "memory", "text", "live", "copies", "seeded"} = DOMAIN d
  BY DEF IsDatabase, Migrated!Empty
<1>2. e = Migrated!Dropped(d, s)
  BY DEF Migrated!Done
<1>3. /\ DOMAIN e = DOMAIN d /\ e.memory = [n \in Notes |-> Migrated!Absent] /\ e.text = d.text
      /\ "memory_items" \notin e.live
  BY <1>1, <1>2 DEF Migrated!Dropped
<1> HIDE DEF e
<1>4. e.memory = [n \in Notes |-> e.memory[n]] /\ \A n \in Notes : e.memory[n] = Migrated!Absent
  BY <1>3
<1> QED
  BY <1>3, <1>4 DEF IsDatabase, NoMemories, e

\* The constraint, or the copy before it: the rows stay; of SQLite the triggers go.
LEMMA RebuildsKeepRows ==
  ASSUME NEW d, IsDatabase(d), NEW s, s.of = "memory_items", s.op \in {"copy", "check"}
  PROVE  /\ IsDatabase(Migrated!Done(d, s))
         /\ Migrated!Done(d, s).memory = d.memory /\ Migrated!Done(d, s).text = d.text
         /\ DOMAIN Migrated!Done(d, s).tables = DOMAIN d.tables
         /\ Migrated!Done(d, s).live \subseteq d.live
         /\ backend # "sqlite" \/ "memory_items" \notin d.live => Migrated!Done(d, s).live = d.live
<1> DEFINE e == Migrated!Done(d, s)
           Rest(x) ==
             /\ DOMAIN x = DOMAIN d /\ x.memory = d.memory /\ x.text = d.text
             /\ DOMAIN x.tables = DOMAIN d.tables /\ x.live \subseteq d.live
             /\ backend # "sqlite" \/ "memory_items" \notin d.live => x.live = d.live
<1>1. {"rev", "tables", "columns", "accepts", "named", "memory", "text", "live", "copies", "seeded"} = DOMAIN d
  BY DEF IsDatabase, Migrated!Empty
<1> SUFFICES Rest(e)
  BY DEF IsDatabase
<1>2. CASE s.op = "copy"
  <2>1. e = [d EXCEPT !.copies = @ \cup {s.of}]
    BY <1>2 DEF Migrated!Done
  <2> QED
    BY <1>1, <2>1
<1>3. CASE s.op = "check"
  <2>1. e = Migrated!Checked(d, s)
    BY <1>3 DEF Migrated!Done
  <2>2. e.live = IF backend = "sqlite" THEN d.live \ {"memory_items"} ELSE d.live
    BY <1>1, <2>1 DEF Migrated!Checked
  <2>3. /\ DOMAIN e = DOMAIN d /\ e.memory = d.memory /\ e.text = d.text /\ e.tables = d.tables
    BY <1>1, <2>1 DEF Migrated!Checked
  <2> HIDE DEF e
  <2> QED
    BY <2>2, <2>3
<1> QED
  BY <1>2, <1>3

LEMMA IndexIsMade ==
  ASSUME NEW d, IsDatabase(d), NEW s, s.of = "memory_items", s.op = "index"
  PROVE  /\ IsDatabase(Migrated!Done(d, s))
         /\ Migrated!Done(d, s).memory = d.memory
         /\ Migrated!Done(d, s).tables = d.tables
         /\ "memory_items" \in Migrated!Done(d, s).live
         /\ Migrated!Done(d, s).text = IF backend = "postgresql" THEN Migrated!Texts(d.memory) ELSE d.text
<1> DEFINE e == Migrated!Done(d, s)
<1>1. {"rev", "tables", "columns", "accepts", "named", "memory", "text", "live", "copies", "seeded"} = DOMAIN d
  BY DEF IsDatabase, Migrated!Empty
<1>2. e = Migrated!Indexed(d, s)
  BY DEF Migrated!Done
<1>3. /\ DOMAIN e = DOMAIN d /\ e.memory = d.memory /\ e.tables = d.tables /\ "memory_items" \in e.live
  BY <1>1, <1>2 DEF Migrated!Indexed
<1>4. e.text = IF backend = "postgresql" THEN Migrated!Texts(d.memory) ELSE d.text
  BY <1>1, <1>2 DEF Migrated!Indexed
<1> HIDE DEF e
<1>5. e.text = [n \in Notes |-> e.text[n]]
  BY <1>4 DEF IsDatabase, Migrated!Texts
<1> QED
  BY <1>3, <1>4, <1>5 DEF IsDatabase, e

LEMMA IndexIsDropped ==
  ASSUME NEW d, IsDatabase(d), NEW s, s.of = "memory_items", s.op = "unindex"
  PROVE  /\ IsDatabase(Migrated!Done(d, s))
         /\ Migrated!Done(d, s).memory = d.memory
         /\ Migrated!Done(d, s).tables = d.tables
         /\ "memory_items" \notin Migrated!Done(d, s).live
         /\ \A n \in Notes : Migrated!Done(d, s).text[n] = 0
<1> DEFINE e == Migrated!Done(d, s)
<1>1. {"rev", "tables", "columns", "accepts", "named", "memory", "text", "live", "copies", "seeded"} = DOMAIN d
  BY DEF IsDatabase, Migrated!Empty
<1>2. e = Migrated!Unindexed(d, s)
  BY DEF Migrated!Done
<1>3. /\ DOMAIN e = DOMAIN d /\ e.memory = d.memory /\ e.tables = d.tables /\ "memory_items" \notin e.live
      /\ e.text = [n \in Notes |-> 0]
  BY <1>1, <1>2 DEF Migrated!Unindexed
<1> HIDE DEF e
<1>4. e.text = [n \in Notes |-> e.text[n]] /\ \A n \in Notes : e.text[n] = 0
  BY <1>3
<1> QED
  BY <1>3, <1>4 DEF IsDatabase, e

LEMMA IndexIsFilled ==
  ASSUME NEW d, IsDatabase(d), NEW s, s.op = "fill"
  PROVE  /\ IsDatabase(Migrated!Done(d, s))
         /\ Migrated!Done(d, s).memory = d.memory
         /\ Migrated!Done(d, s).tables = d.tables
         /\ Migrated!Done(d, s).live = d.live
         /\ Migrated!Done(d, s).text = Migrated!Texts(d.memory)
<1> DEFINE e == Migrated!Done(d, s)
<1>1. {"rev", "tables", "columns", "accepts", "named", "memory", "text", "live", "copies", "seeded"} = DOMAIN d
  BY DEF IsDatabase, Migrated!Empty
<1>2. e = [d EXCEPT !.text = Migrated!Texts(d.memory)]
  BY DEF Migrated!Done
<1>3. /\ DOMAIN e = DOMAIN d /\ e.memory = d.memory /\ e.tables = d.tables /\ e.live = d.live
      /\ e.text = Migrated!Texts(d.memory)
  BY <1>1, <1>2
<1> HIDE DEF e
<1>4. e.text = [n \in Notes |-> e.text[n]]
  BY <1>3 DEF Migrated!Texts
<1> QED
  BY <1>3, <1>4 DEF IsDatabase, e

\* The memories the old scopes have no name for are deleted, and the triggers follow.
LEMMA TheWiderAreForgotten ==
  ASSUME NEW d, IsDatabase(d), NothingLeftOver(d), HoldsTheRows(d), NEW s, s.op = "forget"
  PROVE  /\ IsDatabase(Migrated!Done(d, s)) /\ NothingLeftOver(Migrated!Done(d, s))
         /\ HoldsTheRows(Migrated!Done(d, s))
<1> DEFINE e == Migrated!Done(d, s)
           kept == [n \in Notes |-> IF d.memory[n].scope \in {"USER", "SYSTEM"} THEN Migrated!Absent
                                    ELSE d.memory[n]]
<1>1. {"rev", "tables", "columns", "accepts", "named", "memory", "text", "live", "copies", "seeded"} = DOMAIN d
  BY DEF IsDatabase, Migrated!Empty
<1>2. e = [d EXCEPT !.memory = kept,
                    !.text = IF "memory_items" \in d.live
                             THEN [n \in Notes |-> IF kept[n] = Migrated!Absent THEN 0 ELSE @[n]] ELSE @]
  BY DEF Migrated!Done, Migrated!Forgotten
<1> HIDE DEF kept
<1>3. /\ DOMAIN e = DOMAIN d /\ e.memory = kept /\ e.tables = d.tables /\ e.live = d.live
  BY <1>1, <1>2
<1>4. CASE "memory_items" \in d.live
  <2>1. e.text = [n \in Notes |-> IF kept[n] = Migrated!Absent THEN 0 ELSE d.text[n]]
    BY <1>1, <1>2, <1>4
  <2>2. d.text = [n \in Notes |-> d.memory[n].text]
    BY <1>4 DEF HoldsTheRows, Migrated!Texts
  <2>3. ASSUME NEW n \in Notes
        PROVE  (IF kept[n] = Migrated!Absent THEN 0 ELSE d.text[n]) = kept[n].text
    <3>1. CASE kept[n] = Migrated!Absent
      BY <3>1 DEF Migrated!Absent
    <3>2. CASE kept[n] # Migrated!Absent
      <4>1. kept[n] = d.memory[n]
        BY <3>2 DEF kept
      <4>2. d.text[n] = d.memory[n].text
        BY <2>2
      <4> QED
        BY <3>2, <4>1, <4>2
    <3> QED
      BY <3>1, <3>2
  <2>4. e.text = [n \in Notes |-> kept[n].text]
    BY <2>1, <2>3
  <2> HIDE DEF e
  <2>5. e.text = [n \in Notes |-> e.text[n]] /\ e.memory = [n \in Notes |-> e.memory[n]]
    BY <1>3, <2>4 DEF kept
  <2>6. "memory_items" \in DOMAIN e.tables
    BY <1>3, <1>4 DEF NothingLeftOver
  <2> QED
    BY <1>3, <1>4, <2>4, <2>5, <2>6 DEF IsDatabase, NothingLeftOver, HoldsTheRows, Migrated!Texts, e
<1>5. CASE "memory_items" \notin d.live
  <2>1. e.text = d.text
    BY <1>1, <1>2, <1>5
  <2> HIDE DEF e
  <2>2. e.memory = [n \in Notes |-> e.memory[n]]
    BY <1>3 DEF kept
  <2>3. NoMemories(d) => NoMemories(e)
    <3>1. ASSUME NEW n \in Notes, d.memory[n] = Migrated!Absent PROVE kept[n] = Migrated!Absent
      BY <3>1 DEF kept
    <3> QED
      BY <1>3, <3>1 DEF NoMemories
  <2> QED
    BY <1>3, <1>5, <2>1, <2>2, <2>3 DEF IsDatabase, NothingLeftOver, HoldsTheRows, e
<1> QED
  BY <1>4, <1>5

-----------------------------------------------------------------------------
(* What a migration keeps, statement by statement *)

\* The statement before the k-th is one of these, about the memories.
Follows(st, k, ops) == k > 1 /\ st[k - 1].of = "memory_items" /\ st[k - 1].op \in ops

\* The order in which statements about the memories come: the index goes before its
\* table does, and on SQLite before it is rebuilt; the rebuilt one is filled.
Orderly(b, st) ==
  /\ Len(st) \in Nat
  /\ \A k \in 1..Len(st) :
       /\ st[k].op \in Known
       /\ st[k].of # "memory_items" => st[k].op \notin {"fill", "forget"}
       /\ st[k].of = "memory_items" =>
            /\ st[k].op \notin {"add", "remove", "rename", "seed"}
            /\ st[k].op = "drop" => Follows(st, k, {"unindex"})
            /\ st[k].op = "fill" => Follows(st, k, {"index"})
            /\ b = "sqlite" =>
                 /\ st[k].op = "copy" => Follows(st, k, {"unindex"})
                 /\ st[k].op = "check" => Follows(st, k, {"copy"})
                 /\ st[k].op = "index" =>
                      \/ Follows(st, k, {"create"})
                      \/ Follows(st, k, {"check"}) /\ k < Len(st) /\ st[k + 1].op = "fill"

\* Before the k-th statement the index holds the rows, or the transaction is open that
\* is about to fill it; and it is not there when the table goes, or is rebuilt on SQLite.
Ready(b, d, open, st, k) ==
  /\ k \in 1..Len(st) + 1
  /\ HoldsTheRows(d) \/ (open /\ k <= Len(st) /\ st[k].op = "fill")
  /\ k <= Len(st) /\ st[k].of = "memory_items" =>
       /\ st[k].op = "fill" => "memory_items" \in d.live
       /\ st[k].op = "drop" => "memory_items" \notin d.live
       /\ b = "sqlite" /\ st[k].op \in {"copy", "check", "index"} => "memory_items" \notin d.live
       /\ b = "sqlite" /\ st[k].op = "index" =>
            NoMemories(d) \/ (open /\ k < Len(st) /\ st[k + 1].op = "fill")

\* What it takes to be ready for the next statement.
LEMMA ReadyForTheNext ==
  ASSUME NEW st, Orderly(backend, st), NEW k \in 1..Len(st), NEW d, NEW open,
         HoldsTheRows(d) \/ (open /\ k < Len(st) /\ st[k + 1].op = "fill"),
         st[k].of = "memory_items" =>
           /\ st[k].op = "index" => "memory_items" \in d.live
           /\ st[k].op = "unindex" => "memory_items" \notin d.live
           /\ backend = "sqlite" /\ st[k].op \in {"copy", "create"} => "memory_items" \notin d.live
           /\ backend = "sqlite" /\ st[k].op = "create" => NoMemories(d)
           /\ backend = "sqlite" /\ st[k].op = "check" => "memory_items" \notin d.live /\ open
  PROVE  Ready(backend, d, open, st, k + 1)
<1>1. PICK j \in 2..Len(st) + 1 : j = k + 1 /\ j - 1 = k
  BY DEF Orderly
<1>2. Len(st) \in Nat
  BY DEF Orderly
<1>3. CASE j \in 1..Len(st) /\ st[j].of = "memory_items"
  <2>1. /\ st[j].op = "drop" => st[k].of = "memory_items" /\ st[k].op = "unindex"
        /\ st[j].op = "fill" => st[k].of = "memory_items" /\ st[k].op = "index"
        /\ backend = "sqlite" =>
             /\ st[j].op = "copy" => st[k].of = "memory_items" /\ st[k].op = "unindex"
             /\ st[j].op = "check" => st[k].of = "memory_items" /\ st[k].op = "copy"
             /\ st[j].op = "index" =>
                  /\ st[k].of = "memory_items"
                  /\ \/ st[k].op = "create"
                     \/ st[k].op = "check" /\ j < Len(st) /\ st[j + 1].op = "fill"
    BY <1>1, <1>3 DEF Orderly, Follows
  <2>2. HoldsTheRows(d) \/ (open /\ j <= Len(st) /\ st[j].op = "fill")
    BY <1>1, <1>2
  <2>3. Ready(backend, d, open, st, j)
    BY <1>1, <1>3, <2>1, <2>2 DEF Ready
  <2> QED
    BY <1>1, <2>3
<1>4. CASE ~(j \in 1..Len(st) /\ st[j].of = "memory_items")
  <2>1. HoldsTheRows(d) \/ (open /\ j <= Len(st) /\ st[j].op = "fill")
    BY <1>1, <1>2
  <2>2. ~(j <= Len(st) /\ st[j].of = "memory_items")
    BY <1>1, <1>2, <1>4
  <2>3. Ready(backend, d, open, st, j)
    BY <1>1, <1>2, <2>1, <2>2 DEF Ready
  <2> QED
    BY <1>1, <2>3
<1> QED
  BY <1>3, <1>4

LEMMA StatementKeepsIndex ==
  ASSUME backend \in {"sqlite", "postgresql"},
         NEW st, Orderly(backend, st), NEW k \in 1..Len(st), NEW d, NEW open,
         IsDatabase(d), NothingLeftOver(d), Ready(backend, d, open, st, k), ~Migrated!Refused(d, st[k])
  PROVE  /\ IsDatabase(Migrated!Done(d, st[k])) /\ NothingLeftOver(Migrated!Done(d, st[k]))
         /\ Ready(backend, Migrated!Done(d, st[k]),
                  open \/ Migrated!ChangesRows(st[k]) \/ backend = "postgresql", st, k + 1)
<1> DEFINE s == st[k]
           e == Migrated!Done(d, s)
           opened == open \/ Migrated!ChangesRows(s) \/ backend = "postgresql"
<1>1. /\ s.op \in Known /\ (s.of # "memory_items" => s.op \notin {"fill", "forget"})
      /\ s.of = "memory_items" => s.op \notin {"add", "remove", "rename", "seed"}
  BY DEF Orderly
<1>2. /\ s.op # "fill" => HoldsTheRows(d)
      /\ s.of = "memory_items" =>
           /\ s.op = "fill" => "memory_items" \in d.live
           /\ s.op = "drop" => "memory_items" \notin d.live
           /\ backend = "sqlite" /\ s.op \in {"copy", "check", "index"} => "memory_items" \notin d.live
           /\ backend = "sqlite" /\ s.op = "index" =>
                NoMemories(d) \/ (open /\ k < Len(st) /\ st[k + 1].op = "fill")
  BY DEF Ready, Orderly
<1>3. ~Migrated!Refused(d, s)
  OBVIOUS
\* It is enough to know the database after the statement.
<1>r. ASSUME IsDatabase(e), NothingLeftOver(e),
             HoldsTheRows(e) \/ (opened /\ k < Len(st) /\ st[k + 1].op = "fill"),
             s.of = "memory_items" =>
               /\ s.op = "index" => "memory_items" \in e.live
               /\ s.op = "unindex" => "memory_items" \notin e.live
               /\ backend = "sqlite" /\ s.op \in {"copy", "create"} => "memory_items" \notin e.live
               /\ backend = "sqlite" /\ s.op = "create" => NoMemories(e)
               /\ backend = "sqlite" /\ s.op = "check" => "memory_items" \notin e.live /\ opened
      PROVE  IsDatabase(e) /\ NothingLeftOver(e) /\ Ready(backend, e, opened, st, k + 1)
  <2> HIDE DEF e, opened
  <2> QED
    BY <1>r, ReadyForTheNext DEF s
<1> SUFFICES IsDatabase(e) /\ NothingLeftOver(e) /\ Ready(backend, e, opened, st, k + 1)
  OBVIOUS
<1> HIDE DEF s, e, opened
<1>4. CASE s.of # "memory_items"
  <2>1. /\ IsDatabase(e) /\ e.memory = d.memory /\ e.text = d.text
        /\ "memory_items" \in e.live <=> "memory_items" \in d.live
        /\ "memory_items" \in DOMAIN e.tables <=> "memory_items" \in DOMAIN d.tables
    BY <1>1, <1>4, OthersAreApart DEF e
  <2>2. NothingLeftOver(e) /\ HoldsTheRows(e)
    BY <1>1, <1>2, <1>4, <2>1 DEF NothingLeftOver, HoldsTheRows, NoMemories
  <2> QED
    BY <1>4, <1>r, <2>1, <2>2
<1>5. CASE s.of = "memory_items" /\ s.op = "create"
  <2>1. /\ IsDatabase(e) /\ e.memory = d.memory /\ e.text = d.text /\ e.live = d.live
        /\ "memory_items" \in DOMAIN e.tables
    BY <1>5, MemoriesAreMade DEF e
  <2>2. "memory_items" \notin DOMAIN d.tables
    BY <1>3, <1>5 DEF Migrated!Refused
  <2>3. "memory_items" \notin e.live /\ NoMemories(e) /\ NothingLeftOver(e) /\ HoldsTheRows(e)
    BY <2>1, <2>2 DEF NothingLeftOver, HoldsTheRows, NoMemories
  <2> QED
    BY <1>5, <1>r, <2>1, <2>3
<1>6. CASE s.of = "memory_items" /\ s.op = "drop"
  <2>1. IsDatabase(e) /\ NoMemories(e) /\ e.text = d.text /\ "memory_items" \notin e.live
    BY <1>6, MemoriesAreDropped DEF e
  <2>2. NothingLeftOver(e) /\ HoldsTheRows(e)
    BY <1>2, <1>6, <2>1 DEF NothingLeftOver, HoldsTheRows
  <2> QED
    BY <1>6, <1>r, <2>1, <2>2
<1>7. CASE s.of = "memory_items" /\ s.op \in {"copy", "check"}
  <2>1. /\ IsDatabase(e) /\ e.memory = d.memory /\ e.text = d.text
        /\ DOMAIN e.tables = DOMAIN d.tables /\ e.live \subseteq d.live
        /\ backend # "sqlite" \/ "memory_items" \notin d.live => e.live = d.live
    BY <1>7, RebuildsKeepRows DEF e
  <2>2. e.live = d.live /\ (backend = "sqlite" => "memory_items" \notin e.live)
    BY <1>2, <1>7, <2>1
  <2>3. NothingLeftOver(e) /\ HoldsTheRows(e)
    BY <1>2, <1>7, <2>1, <2>2 DEF NothingLeftOver, HoldsTheRows, NoMemories
  <2>4. s.op = "check" => opened
    BY DEF opened, Migrated!ChangesRows
  <2> QED
    BY <1>7, <1>r, <2>1, <2>2, <2>3, <2>4
<1>8. CASE s.of = "memory_items" /\ s.op = "index"
  <2>1. /\ IsDatabase(e) /\ e.memory = d.memory /\ e.tables = d.tables /\ "memory_items" \in e.live
        /\ e.text = IF backend = "postgresql" THEN Migrated!Texts(d.memory) ELSE d.text
    BY <1>8, IndexIsMade DEF e
  <2>2. "memory_items" \in DOMAIN d.tables
    BY <1>3, <1>8 DEF Migrated!Refused
  <2>3. NothingLeftOver(e)
    BY <2>1, <2>2 DEF NothingLeftOver
  <2>4. HoldsTheRows(e) \/ (opened /\ k < Len(st) /\ st[k + 1].op = "fill")
    <3>1. CASE backend = "postgresql"
      BY <2>1, <3>1 DEF HoldsTheRows
    <3>2. CASE backend = "sqlite" /\ NoMemories(d)
      <4>1. e.text = d.text /\ \A n \in Notes : d.text[n] = 0 /\ d.memory[n].text = 0
        BY <1>2, <1>8, <2>1, <3>2 DEF NothingLeftOver, NoMemories, Migrated!Absent
      <4>2. d.text = [n \in Notes |-> d.text[n]]
        BY DEF IsDatabase
      <4>3. e.text = Migrated!Texts(e.memory)
        BY <2>1, <4>1, <4>2 DEF Migrated!Texts
      <4> QED
        BY <4>3 DEF HoldsTheRows
    <3>3. CASE open /\ k < Len(st) /\ st[k + 1].op = "fill"
      BY <3>3 DEF opened
    <3> QED
      BY <1>2, <1>8, <3>1, <3>2, <3>3
  <2> QED
    BY <1>8, <1>r, <2>1, <2>3, <2>4
<1>9. CASE s.of = "memory_items" /\ s.op = "unindex"
  <2>1. /\ IsDatabase(e) /\ e.memory = d.memory /\ e.tables = d.tables
        /\ "memory_items" \notin e.live /\ \A n \in Notes : e.text[n] = 0
    BY <1>9, IndexIsDropped DEF e
  <2>2. NothingLeftOver(e) /\ HoldsTheRows(e)
    BY <2>1 DEF NothingLeftOver, HoldsTheRows, NoMemories
  <2> QED
    BY <1>9, <1>r, <2>1, <2>2
<1>10. CASE s.of = "memory_items" /\ s.op = "fill"
  <2>1. /\ IsDatabase(e) /\ e.memory = d.memory /\ e.tables = d.tables /\ e.live = d.live
        /\ e.text = Migrated!Texts(d.memory)
    BY <1>10, IndexIsFilled DEF e
  <2>2. NothingLeftOver(e) /\ HoldsTheRows(e)
    BY <1>2, <1>10, <2>1 DEF NothingLeftOver, HoldsTheRows
  <2> QED
    BY <1>10, <1>r, <2>1, <2>2
<1>11. CASE s.of = "memory_items" /\ s.op = "forget"
  <2>1. IsDatabase(e) /\ NothingLeftOver(e) /\ HoldsTheRows(e)
    BY <1>2, <1>11, TheWiderAreForgotten DEF e
  <2> QED
    BY <1>11, <1>r, <2>1
<1> QED
  BY <1>1, <1>4, <1>5, <1>6, <1>7, <1>8, <1>9, <1>10, <1>11 DEF Known

-----------------------------------------------------------------------------
(* The twenty-two migrations *)

\* A statement that makes no rows of its own, about another table.
Elsewhere(s) == s.of # "memory_items" /\ s.op \in Known \ {"fill", "forget"}

LEMMA ElsewhereIsOrderly ==
  ASSUME NEW b, NEW st, Len(st) \in Nat, \A k \in 1..Len(st) : Elsewhere(st[k])
  PROVE  Orderly(b, st)
BY DEF Orderly, Elsewhere

LEMMA StatementsElsewhere ==
  ASSUME NEW t, t # "memory_items"
  PROVE  /\ \A key, refs, checks : Elsewhere(Migrated!Create(t, key, refs, checks))
         /\ Elsewhere(Migrated!Drop(t)) /\ Elsewhere(Migrated!IndexText(t)) /\ Elsewhere(Migrated!DropText(t))
         /\ \A c : Elsewhere(Migrated!Add(t, c)) /\ Elsewhere(Migrated!Remove(t, c))
         /\ \A old, new : Elsewhere(Migrated!Rename(t, old, new))
         /\ Elsewhere(Migrated!Copy(t)) /\ \A check, accepts : Elsewhere(Migrated!Check(t, check, accepts))
         /\ Elsewhere(Migrated!Seed)
BY DEF Elsewhere, Known, Migrated!Create, Migrated!Drop, Migrated!IndexText, Migrated!DropText, Migrated!Add,
       Migrated!Remove, Migrated!Rename, Migrated!Copy, Migrated!Check, Migrated!Seed

\* Short lists of such statements, one after the other.
LEMMA ListsElsewhere ==
  /\ \A a : Elsewhere(a) => \A b : Orderly(b, <<a>>)
  /\ \A a, c : Elsewhere(a) /\ Elsewhere(c) => \A b : Orderly(b, <<a, c>>)
  /\ \A a, c, e : Elsewhere(a) /\ Elsewhere(c) /\ Elsewhere(e) => \A b : Orderly(b, <<a, c, e>>)
<1>1. ASSUME NEW a, Elsewhere(a), NEW b PROVE Orderly(b, <<a>>)
  <2>1. Len(<<a>>) = 1 /\ <<a>>[1] = a
    OBVIOUS
  <2> QED
    BY <1>1, <2>1, ElsewhereIsOrderly
<1>2. ASSUME NEW a, NEW c, Elsewhere(a), Elsewhere(c), NEW b PROVE Orderly(b, <<a, c>>)
  <2>1. Len(<<a, c>>) = 2 /\ <<a, c>>[1] = a /\ <<a, c>>[2] = c
    OBVIOUS
  <2>2. \A k \in 1..2 : k = 1 \/ k = 2
    OBVIOUS
  <2> QED
    BY <1>2, <2>1, <2>2, ElsewhereIsOrderly
<1>3. ASSUME NEW a, NEW c, NEW e, Elsewhere(a), Elsewhere(c), Elsewhere(e), NEW b
      PROVE  Orderly(b, <<a, c, e>>)
  <2>1. Len(<<a, c, e>>) = 3 /\ <<a, c, e>>[1] = a /\ <<a, c, e>>[2] = c /\ <<a, c, e>>[3] = e
    OBVIOUS
  <2>2. \A k \in 1..3 : k = 1 \/ k = 2 \/ k = 3
    OBVIOUS
  <2> QED
    BY <1>3, <2>1, <2>2, ElsewhereIsOrderly
<1> QED
  BY <1>1, <1>2, <1>3

\* Most migrations have nothing to do with the memories.
LEMMA MostAreElsewhere ==
  ASSUME NEW b,
         NEW m \in {Migrated!M001, Migrated!M002, Migrated!M003, Migrated!M004, Migrated!M005, Migrated!M006,
                    Migrated!M008, Migrated!M009, Migrated!M010, Migrated!M011, Migrated!M012, Migrated!M013,
                    Migrated!M014, Migrated!M016, Migrated!M017, Migrated!M018, Migrated!M019, Migrated!M020}
  PROVE  Orderly(b, m.up) /\ Orderly(b, m.down)
<1> USE StatementsElsewhere, ListsElsewhere
<1>1. CASE m = Migrated!M001
  BY <1>1 DEF Migrated!M001
<1>2. CASE m = Migrated!M002
  BY <1>2 DEF Migrated!M002
<1>3. CASE m = Migrated!M003
  BY <1>3 DEF Migrated!M003
<1>4. CASE m = Migrated!M004
  BY <1>4 DEF Migrated!M004
<1>5. CASE m = Migrated!M005
  BY <1>5 DEF Migrated!M005
<1>6. CASE m = Migrated!M006
  BY <1>6 DEF Migrated!M006
<1>8. CASE m = Migrated!M008
  BY <1>8 DEF Migrated!M008, Migrated!Renames
<1>9. CASE m = Migrated!M009
  BY <1>9 DEF Migrated!M009
<1>10. CASE m = Migrated!M010
  BY <1>10 DEF Migrated!M010
<1>11. CASE m = Migrated!M011
  BY <1>11 DEF Migrated!M011
<1>12. CASE m = Migrated!M012
  BY <1>12 DEF Migrated!M012
<1>13. CASE m = Migrated!M013
  BY <1>13 DEF Migrated!M013
<1>14. CASE m = Migrated!M014
  BY <1>14 DEF Migrated!M014
<1>16. CASE m = Migrated!M016
  BY <1>16 DEF Migrated!M016
<1>17. CASE m = Migrated!M017
  BY <1>17 DEF Migrated!M017
<1>18. CASE m = Migrated!M018
  BY <1>18 DEF Migrated!M018
<1>19. CASE m = Migrated!M019
  BY <1>19 DEF Migrated!M019
<1>20. CASE m = Migrated!M020
  BY <1>20 DEF Migrated!M020
<1> QED
  BY <1>1, <1>2, <1>3, <1>4, <1>5, <1>6, <1>8, <1>9, <1>10, <1>11, <1>12, <1>13, <1>14, <1>16,
     <1>17, <1>18, <1>19, <1>20

-----------------------------------------------------------------------------
(* Short lists, one after the other *)

LEMMA Lists11 ==
  ASSUME NEW a, NEW b
  PROVE  <<a>> \o <<b>> = <<a, b>>
<1> DEFINE S == {a, b}
           s == <<a>>
           t == <<b>>
           u == <<a, b>>
<1>1. /\ s \in Seq(S) /\ Len(s) = 1 /\ s[1] = a
      /\ t \in Seq(S) /\ Len(t) = 1 /\ t[1] = b
      /\ u \in Seq(S) /\ Len(u) = 2 /\ u[1] = a /\ u[2] = b
  OBVIOUS
<1> HIDE DEF S, s, t, u
<1>2. /\ s \o t \in Seq(S) /\ Len(s \o t) = 2
      /\ \A i \in 1..2 : (s \o t)[i] = IF i <= 1 THEN s[i] ELSE t[i - 1]
  <2>1. /\ s \o t \in Seq(S) /\ Len(s \o t) = Len(s) + Len(t)
        /\ \A i \in 1..Len(s) + Len(t) : (s \o t)[i] = IF i <= Len(s) THEN s[i] ELSE t[i - Len(s)]
    BY <1>1, ConcatProperties
  <2>2. Len(s) = 1 /\ Len(s) + Len(t) = 2
    BY <1>1
  <2> QED
    BY <2>1, <2>2
<1>3. \A i \in 1..2 : (s \o t)[i] = u[i]
  BY <1>1, <1>2
<1>4. s \o t = u
  BY <1>1, <1>2, <1>3, SeqEqual
<1> QED
  BY <1>4 DEF s, t, u

LEMMA Lists12 ==
  ASSUME NEW a, NEW b, NEW c
  PROVE  <<a>> \o <<b, c>> = <<a, b, c>>
<1> DEFINE S == {a, b, c}
           s == <<a>>
           t == <<b, c>>
           u == <<a, b, c>>
<1>1. /\ s \in Seq(S) /\ Len(s) = 1 /\ s[1] = a
      /\ t \in Seq(S) /\ Len(t) = 2 /\ t[1] = b /\ t[2] = c
      /\ u \in Seq(S) /\ Len(u) = 3 /\ u[1] = a /\ u[2] = b /\ u[3] = c
  OBVIOUS
<1> HIDE DEF S, s, t, u
<1>2. /\ s \o t \in Seq(S) /\ Len(s \o t) = 3
      /\ \A i \in 1..3 : (s \o t)[i] = IF i <= 1 THEN s[i] ELSE t[i - 1]
  <2>1. /\ s \o t \in Seq(S) /\ Len(s \o t) = Len(s) + Len(t)
        /\ \A i \in 1..Len(s) + Len(t) : (s \o t)[i] = IF i <= Len(s) THEN s[i] ELSE t[i - Len(s)]
    BY <1>1, ConcatProperties
  <2>2. Len(s) = 1 /\ Len(s) + Len(t) = 3
    BY <1>1
  <2> QED
    BY <2>1, <2>2
<1>3. \A i \in 1..3 : (s \o t)[i] = u[i]
  BY <1>1, <1>2
<1>4. s \o t = u
  BY <1>1, <1>2, <1>3, SeqEqual
<1> QED
  BY <1>4 DEF s, t, u

LEMMA Lists21 ==
  ASSUME NEW a, NEW b, NEW c
  PROVE  <<a, b>> \o <<c>> = <<a, b, c>>
<1> DEFINE S == {a, b, c}
           s == <<a, b>>
           t == <<c>>
           u == <<a, b, c>>
<1>1. /\ s \in Seq(S) /\ Len(s) = 2 /\ s[1] = a /\ s[2] = b
      /\ t \in Seq(S) /\ Len(t) = 1 /\ t[1] = c
      /\ u \in Seq(S) /\ Len(u) = 3 /\ u[1] = a /\ u[2] = b /\ u[3] = c
  OBVIOUS
<1> HIDE DEF S, s, t, u
<1>2. /\ s \o t \in Seq(S) /\ Len(s \o t) = 3
      /\ \A i \in 1..3 : (s \o t)[i] = IF i <= 2 THEN s[i] ELSE t[i - 2]
  <2>1. /\ s \o t \in Seq(S) /\ Len(s \o t) = Len(s) + Len(t)
        /\ \A i \in 1..Len(s) + Len(t) : (s \o t)[i] = IF i <= Len(s) THEN s[i] ELSE t[i - Len(s)]
    BY <1>1, ConcatProperties
  <2>2. Len(s) = 2 /\ Len(s) + Len(t) = 3
    BY <1>1
  <2> QED
    BY <2>1, <2>2
<1>3. \A i \in 1..3 : (s \o t)[i] = u[i]
  BY <1>1, <1>2
<1>4. s \o t = u
  BY <1>1, <1>2, <1>3, SeqEqual
<1> QED
  BY <1>4 DEF s, t, u

LEMMA Lists32 ==
  ASSUME NEW a, NEW b, NEW c, NEW d, NEW e
  PROVE  <<a, b, c>> \o <<d, e>> = <<a, b, c, d, e>>
<1> DEFINE S == {a, b, c, d, e}
           s == <<a, b, c>>
           t == <<d, e>>
           u == <<a, b, c, d, e>>
<1>1. /\ s \in Seq(S) /\ Len(s) = 3 /\ s[1] = a /\ s[2] = b /\ s[3] = c
      /\ t \in Seq(S) /\ Len(t) = 2 /\ t[1] = d /\ t[2] = e
      /\ u \in Seq(S) /\ Len(u) = 5 /\ u[1] = a /\ u[2] = b /\ u[3] = c /\ u[4] = d /\ u[5] = e
  OBVIOUS
<1> HIDE DEF S, s, t, u
<1>2. /\ s \o t \in Seq(S) /\ Len(s \o t) = 5
      /\ \A i \in 1..5 : (s \o t)[i] = IF i <= 3 THEN s[i] ELSE t[i - 3]
  <2>1. /\ s \o t \in Seq(S) /\ Len(s \o t) = Len(s) + Len(t)
        /\ \A i \in 1..Len(s) + Len(t) : (s \o t)[i] = IF i <= Len(s) THEN s[i] ELSE t[i - Len(s)]
    BY <1>1, ConcatProperties
  <2>2. Len(s) = 3 /\ Len(s) + Len(t) = 5
    BY <1>1
  <2> QED
    BY <2>1, <2>2
<1>3. \A i \in 1..5 : (s \o t)[i] = u[i]
  BY <1>1, <1>2
<1>4. s \o t = u
  BY <1>1, <1>2, <1>3, SeqEqual
<1> QED
  BY <1>4 DEF s, t, u

LEMMA Lists15 ==
  ASSUME NEW a, NEW b, NEW c, NEW d, NEW e, NEW f
  PROVE  <<a>> \o <<b, c, d, e, f>> = <<a, b, c, d, e, f>>
<1> DEFINE S == {a, b, c, d, e, f}
           s == <<a>>
           t == <<b, c, d, e, f>>
           u == <<a, b, c, d, e, f>>
<1>1. /\ s \in Seq(S) /\ Len(s) = 1 /\ s[1] = a
      /\ t \in Seq(S) /\ Len(t) = 5 /\ t[1] = b /\ t[2] = c /\ t[3] = d /\ t[4] = e /\ t[5] = f
      /\ u \in Seq(S) /\ Len(u) = 6 /\ u[1] = a /\ u[2] = b /\ u[3] = c /\ u[4] = d /\ u[5] = e /\ u[6] = f
  OBVIOUS
<1> HIDE DEF S, s, t, u
<1>2. /\ s \o t \in Seq(S) /\ Len(s \o t) = 6
      /\ \A i \in 1..6 : (s \o t)[i] = IF i <= 1 THEN s[i] ELSE t[i - 1]
  <2>1. /\ s \o t \in Seq(S) /\ Len(s \o t) = Len(s) + Len(t)
        /\ \A i \in 1..Len(s) + Len(t) : (s \o t)[i] = IF i <= Len(s) THEN s[i] ELSE t[i - Len(s)]
    BY <1>1, ConcatProperties
  <2>2. Len(s) = 1 /\ Len(s) + Len(t) = 6
    BY <1>1
  <2> QED
    BY <2>1, <2>2
<1>3. \A i \in 1..6 : (s \o t)[i] = u[i]
  BY <1>1, <1>2
<1>4. s \o t = u
  BY <1>1, <1>2, <1>3, SeqEqual
<1> QED
  BY <1>4 DEF s, t, u

LEMMA Lists52 ==
  ASSUME NEW a, NEW b, NEW c, NEW d, NEW e, NEW f, NEW g
  PROVE  <<a, b, c, d, e>> \o <<f, g>> = <<a, b, c, d, e, f, g>>
<1> DEFINE S == {a, b, c, d, e, f, g}
           s == <<a, b, c, d, e>>
           t == <<f, g>>
           u == <<a, b, c, d, e, f, g>>
<1>1. /\ s \in Seq(S) /\ Len(s) = 5 /\ s[1] = a /\ s[2] = b /\ s[3] = c /\ s[4] = d /\ s[5] = e
      /\ t \in Seq(S) /\ Len(t) = 2 /\ t[1] = f /\ t[2] = g
      /\ u \in Seq(S) /\ Len(u) = 7 /\ u[1] = a /\ u[2] = b /\ u[3] = c /\ u[4] = d /\ u[5] = e /\ u[6] = f
      /\ u[7] = g
  OBVIOUS
<1> HIDE DEF S, s, t, u
<1>2. /\ s \o t \in Seq(S) /\ Len(s \o t) = 7
      /\ \A i \in 1..7 : (s \o t)[i] = IF i <= 5 THEN s[i] ELSE t[i - 5]
  <2>1. /\ s \o t \in Seq(S) /\ Len(s \o t) = Len(s) + Len(t)
        /\ \A i \in 1..Len(s) + Len(t) : (s \o t)[i] = IF i <= Len(s) THEN s[i] ELSE t[i - Len(s)]
    BY <1>1, ConcatProperties
  <2>2. Len(s) = 5 /\ Len(s) + Len(t) = 7
    BY <1>1
  <2> QED
    BY <2>1, <2>2
<1>3. \A i \in 1..7 : (s \o t)[i] = u[i]
  BY <1>1, <1>2
<1>4. s \o t = u
  BY <1>1, <1>2, <1>3, SeqEqual
<1> QED
  BY <1>4 DEF s, t, u

\* The two parts of a rebuild, on SQLite, and the one there is elsewhere.
LEMMA RebuildIs ==
  ASSUME NEW t, NEW check, NEW accepts
  PROVE  /\ Migrated!Rebuild("sqlite", t, check, accepts)
              = <<Migrated!Copy(t), Migrated!Check(t, check, accepts)>>
         /\ Migrated!Rebuild("postgresql", t, check, accepts) = <<Migrated!Check(t, check, accepts)>>
<1> DEFINE a == Migrated!Copy(t)
           c == Migrated!Check(t, check, accepts)
<1>1. Migrated!Rebuild("sqlite", t, check, accepts) = <<a>> \o <<c>>
  BY DEF Migrated!Rebuild
<1>2. Migrated!Rebuild("postgresql", t, check, accepts) = << >> \o <<c>>
  BY DEF Migrated!Rebuild
<1> HIDE DEF a, c
<1>3. <<a>> \o <<c>> = <<a, c>> /\ << >> \o <<c>> = <<c>>
  <2>1. <<c>> \in Seq({c})
    OBVIOUS
  <2> QED
    BY <2>1, Lists11, ConcatEmptySeq
<1> QED
  BY <1>1, <1>2, <1>3 DEF a, c

\* The first table of the memories and its index.
LEMMA MemoriesInOrder ==
  ASSUME NEW b
  PROVE  Orderly(b, Migrated!M007.up) /\ Orderly(b, Migrated!M007.down)
<1> DEFINE create == Migrated!Create("memory_items", "id", {}, {"scope", "kind"})
           index == Migrated!IndexText("memory_items")
           unindex == Migrated!DropText("memory_items")
           drop == Migrated!Drop("memory_items")
           up == <<create, index>>
           down == <<unindex, drop>>
<1>1. /\ create.op = "create" /\ create.of = "memory_items"
      /\ index.op = "index" /\ index.of = "memory_items"
      /\ unindex.op = "unindex" /\ unindex.of = "memory_items"
      /\ drop.op = "drop" /\ drop.of = "memory_items"
  BY DEF Migrated!Create, Migrated!IndexText, Migrated!DropText, Migrated!Drop
<1>2. Migrated!M007.up = up /\ Migrated!M007.down = down
  BY DEF Migrated!M007
<1> HIDE DEF create, index, unindex, drop
<1>3. /\ Len(up) = 2 /\ up[1] = create /\ up[2] = index
      /\ Len(down) = 2 /\ down[1] = unindex /\ down[2] = drop
  OBVIOUS
<1> HIDE DEF up, down
<1>4. 2 - 1 = 1 /\ \A k \in 1..2 : k = 1 \/ k = 2
  OBVIOUS
<1>5. Follows(up, 2, {"create"}) /\ Follows(down, 2, {"unindex"})
  BY <1>1, <1>3, <1>4 DEF Follows
<1>6. Orderly(b, up)
  BY <1>1, <1>3, <1>4, <1>5 DEF Orderly, Known
<1>7. Orderly(b, down)
  BY <1>1, <1>3, <1>4, <1>5 DEF Orderly, Known
<1> QED
  BY <1>2, <1>6, <1>7

\* The scopes: the table is rebuilt without its index, which is then filled.
LEMMA ScopesInOrder ==
  ASSUME NEW b \in {"sqlite", "postgresql"}
  PROVE  Orderly(b, Migrated!M015(b).up) /\ Orderly(b, Migrated!M015(b).down)
<1> DEFINE unindex == Migrated!DropText("memory_items")
           copy == Migrated!Copy("memory_items")
           wide == Migrated!Check("memory_items", "scope", Migrated!Scopes)
           narrow == Migrated!Check("memory_items", "scope", Migrated!OldScopes)
           index == Migrated!IndexText("memory_items")
           fill == Migrated!Fill
           forget == Migrated!Forget
<1>1. /\ unindex.op = "unindex" /\ unindex.of = "memory_items"
      /\ copy.op = "copy" /\ copy.of = "memory_items"
      /\ wide.op = "check" /\ wide.of = "memory_items"
      /\ narrow.op = "check" /\ narrow.of = "memory_items"
      /\ index.op = "index" /\ index.of = "memory_items"
      /\ fill.op = "fill" /\ fill.of = "memory_items"
      /\ forget.op = "forget" /\ forget.of = "memory_items"
  BY DEF Migrated!DropText, Migrated!Copy, Migrated!Check, Migrated!IndexText, Migrated!Fill, Migrated!Forget
<1>2. CASE b = "sqlite"
  <2> DEFINE up == <<unindex, copy, wide, index, fill>>
             down == <<forget, unindex, copy, narrow, index, fill>>
  <2>1. Migrated!Rescoped(b, Migrated!Scopes) = <<unindex>> \o <<copy, wide>> \o <<index, fill>>
    BY <1>2, RebuildIs DEF Migrated!Rescoped
  <2>2. Migrated!Rescoped(b, Migrated!OldScopes) = <<unindex>> \o <<copy, narrow>> \o <<index, fill>>
    BY <1>2, RebuildIs DEF Migrated!Rescoped
  <2>3. /\ Migrated!M015(b).up = <<unindex>> \o <<copy, wide>> \o <<index, fill>>
        /\ Migrated!M015(b).down = <<forget>> \o (<<unindex>> \o <<copy, narrow>> \o <<index, fill>>)
    BY <2>1, <2>2 DEF Migrated!M015
  <2> HIDE DEF unindex, copy, wide, narrow, index, fill, forget
  <2>4. /\ <<unindex>> \o <<copy, wide>> \o <<index, fill>> = up
        /\ <<forget>> \o (<<unindex>> \o <<copy, narrow>> \o <<index, fill>>) = down
    <3>1. <<unindex>> \o <<copy, wide>> = <<unindex, copy, wide>>
      BY Lists12
    <3>2. <<unindex, copy, wide>> \o <<index, fill>> = up
      BY Lists32
    <3>3. <<unindex>> \o <<copy, narrow>> = <<unindex, copy, narrow>>
      BY Lists12
    <3>4. <<unindex, copy, narrow>> \o <<index, fill>> = <<unindex, copy, narrow, index, fill>>
      BY Lists32
    <3>5. <<forget>> \o <<unindex, copy, narrow, index, fill>> = down
      BY Lists15
    <3> HIDE DEF up, down
    <3> QED
      BY <3>1, <3>2, <3>3, <3>4, <3>5
  <2>5. /\ Len(up) = 5 /\ up[1] = unindex /\ up[2] = copy /\ up[3] = wide /\ up[4] = index /\ up[5] = fill
        /\ Len(down) = 6 /\ down[1] = forget /\ down[2] = unindex /\ down[3] = copy /\ down[4] = narrow
        /\ down[5] = index /\ down[6] = fill
    OBVIOUS
  <2> HIDE DEF up, down
  <2>6. 2 - 1 = 1 /\ 3 - 1 = 2 /\ 4 - 1 = 3 /\ 5 - 1 = 4 /\ 6 - 1 = 5 /\ 4 + 1 = 5 /\ 5 + 1 = 6
    OBVIOUS
  <2>7. /\ Follows(up, 2, {"unindex"}) /\ Follows(up, 3, {"copy"}) /\ Follows(up, 4, {"check"})
        /\ Follows(up, 5, {"index"})
    BY <1>1, <2>5, <2>6 DEF Follows
  <2>8. /\ Follows(down, 3, {"unindex"}) /\ Follows(down, 4, {"copy"}) /\ Follows(down, 5, {"check"})
        /\ Follows(down, 6, {"index"})
    BY <1>1, <2>5, <2>6 DEF Follows
  <2>9. \A k \in 1..5 : k = 1 \/ k = 2 \/ k = 3 \/ k = 4 \/ k = 5
    OBVIOUS
  <2>10. \A k \in 1..6 : k = 1 \/ k = 2 \/ k = 3 \/ k = 4 \/ k = 5 \/ k = 6
    OBVIOUS
  <2>11. Orderly(b, up)
    BY <1>1, <2>5, <2>6, <2>7, <2>9 DEF Orderly, Known
  <2>12. Orderly(b, down)
    BY <1>1, <2>5, <2>6, <2>8, <2>10 DEF Orderly, Known
  <2> QED
    BY <2>3, <2>4, <2>11, <2>12
<1>3. CASE b = "postgresql"
  <2> DEFINE up == <<wide>>
             down == <<forget, narrow>>
  <2>1. /\ Migrated!Rescoped(b, Migrated!Scopes) = <<wide>>
        /\ Migrated!Rescoped(b, Migrated!OldScopes) = <<narrow>>
    BY <1>3, RebuildIs DEF Migrated!Rescoped
  <2>2. Migrated!M015(b).up = <<wide>> /\ Migrated!M015(b).down = <<forget>> \o <<narrow>>
    BY <2>1 DEF Migrated!M015
  <2> HIDE DEF unindex, copy, wide, narrow, index, fill, forget
  <2>3. <<forget>> \o <<narrow>> = down
    BY Lists11
  <2>4. Len(up) = 1 /\ up[1] = wide /\ Len(down) = 2 /\ down[1] = forget /\ down[2] = narrow
    OBVIOUS
  <2> HIDE DEF up, down
  <2>5. (\A k \in 1..1 : k = 1) /\ \A k \in 1..2 : k = 1 \/ k = 2
    OBVIOUS
  <2>6. Orderly(b, up)
    BY <1>1, <1>3, <2>4, <2>5 DEF Orderly, Known
  <2>7. Orderly(b, down)
    BY <1>1, <1>3, <2>4, <2>5 DEF Orderly, Known
  <2> QED
    BY <2>2, <2>3, <2>6, <2>7 DEF up
<1> QED
  BY <1>2, <1>3

\* The words of PostgreSQL's index.
LEMMA WordsInOrder ==
  ASSUME NEW b \in {"sqlite", "postgresql"}
  PROVE  Orderly(b, Migrated!M021(b).up) /\ Orderly(b, Migrated!M021(b).down)
<1> DEFINE unindex == Migrated!DropText("memory_items")
           index == Migrated!IndexText("memory_items")
           u == Migrated!DropText("chunks")
           i == Migrated!IndexText("chunks")
           again == <<unindex, u, index, i>>
           nothing == << >>
<1>1. /\ unindex.op = "unindex" /\ unindex.of = "memory_items"
      /\ index.op = "index" /\ index.of = "memory_items"
      /\ u.op = "unindex" /\ u.of = "chunks" /\ i.op = "index" /\ i.of = "chunks"
  BY DEF Migrated!DropText, Migrated!IndexText
<1>2. /\ b = "sqlite" => Migrated!M021(b).up = nothing /\ Migrated!M021(b).down = nothing
      /\ b = "postgresql" => Migrated!M021(b).up = again /\ Migrated!M021(b).down = again
  BY DEF Migrated!M021
<1> HIDE DEF unindex, index, u, i
<1>3. Orderly(b, nothing)
  <2>1. Len(nothing) = 0
    OBVIOUS
  <2> HIDE DEF nothing
  <2> QED
    BY <2>1, ElsewhereIsOrderly
<1>4. CASE b = "postgresql"
  <2>1. Len(again) = 4 /\ again[1] = unindex /\ again[2] = u /\ again[3] = index /\ again[4] = i
    OBVIOUS
  <2> HIDE DEF again
  <2>2. \A k \in 1..4 : k = 1 \/ k = 2 \/ k = 3 \/ k = 4
    OBVIOUS
  <2>3. Orderly(b, again)
    BY <1>1, <1>4, <2>1, <2>2 DEF Orderly, Known
  <2> QED
    BY <1>2, <1>4, <2>3
<1> QED
  BY <1>2, <1>3, <1>4

\* The last name of the manager.
LEMMA NamesInOrder ==
  ASSUME NEW b \in {"sqlite", "postgresql"}
  PROVE  Orderly(b, Migrated!M022(b).up) /\ Orderly(b, Migrated!M022(b).down)
<1>1. ASSUME NEW old, NEW new PROVE Orderly(b, Migrated!Renamed(b, old, new))
  <2> DEFINE copy == Migrated!Copy("audit_log")
             any == Migrated!Check("audit_log", "actor_kind", Migrated!Anything)
             only == Migrated!Check("audit_log", "actor_kind", Migrated!ActorKinds(new))
             first == Migrated!Rename("audit_log", old, new)
             second == Migrated!Rename("tasks", old, new)
             third == Migrated!Rename("task_assignments", old, new)
             st == Migrated!Renamed(b, old, new)
  <2>1. /\ Elsewhere(copy) /\ Elsewhere(any) /\ Elsewhere(only)
        /\ Elsewhere(first) /\ Elsewhere(second) /\ Elsewhere(third)
    BY StatementsElsewhere
  <2>2. CASE b = "sqlite"
    <3>1. st = <<copy, any>> \o <<first>> \o <<copy, only>> \o <<second, third>>
      BY <2>2, RebuildIs DEF Migrated!Renamed, Migrated!Renames
    <3> HIDE DEF copy, any, only, first, second, third, st
    <3>2. st = <<copy, any, first, copy, only, second, third>>
      <4>1. <<copy, any>> \o <<first>> = <<copy, any, first>>
        BY Lists21
      <4>2. <<copy, any, first>> \o <<copy, only>> = <<copy, any, first, copy, only>>
        BY Lists32
      <4>3. <<copy, any, first, copy, only>> \o <<second, third>> = <<copy, any, first, copy, only, second, third>>
        BY Lists52
      <4> QED
        BY <3>1, <4>1, <4>2, <4>3
    <3>3. /\ Len(st) = 7 /\ st[1] = copy /\ st[2] = any /\ st[3] = first /\ st[4] = copy /\ st[5] = only
          /\ st[6] = second /\ st[7] = third
      BY <3>2
    <3>4. \A k \in 1..7 : k = 1 \/ k = 2 \/ k = 3 \/ k = 4 \/ k = 5 \/ k = 6 \/ k = 7
      OBVIOUS
    <3>5. \A k \in 1..Len(st) : Elsewhere(st[k])
      BY <2>1, <3>3, <3>4
    <3>6. Orderly(b, st)
      BY <3>3, <3>5, ElsewhereIsOrderly
    <3> QED
      BY <3>6 DEF st
  <2>3. CASE b = "postgresql"
    <3>1. st = <<any>> \o <<first>> \o <<only>> \o <<second, third>>
      BY <2>3, RebuildIs DEF Migrated!Renamed, Migrated!Renames
    <3> HIDE DEF copy, any, only, first, second, third, st
    <3>2. st = <<any, first, only, second, third>>
      <4>1. <<any>> \o <<first>> = <<any, first>>
        BY Lists11
      <4>2. <<any, first>> \o <<only>> = <<any, first, only>>
        BY Lists21
      <4>3. <<any, first, only>> \o <<second, third>> = <<any, first, only, second, third>>
        BY Lists32
      <4> QED
        BY <3>1, <4>1, <4>2, <4>3
    <3>3. /\ Len(st) = 5 /\ st[1] = any /\ st[2] = first /\ st[3] = only /\ st[4] = second /\ st[5] = third
      BY <3>2
    <3>4. \A k \in 1..5 : k = 1 \/ k = 2 \/ k = 3 \/ k = 4 \/ k = 5
      OBVIOUS
    <3>5. \A k \in 1..Len(st) : Elsewhere(st[k])
      BY <2>1, <3>3, <3>4
    <3>6. Orderly(b, st)
      BY <3>3, <3>5, ElsewhereIsOrderly
    <3> QED
      BY <3>6 DEF st
  <2> QED
    BY <2>2, <2>3
<1> QED
  BY <1>1 DEF Migrated!M022

LEMMA HistoryIsOrderly ==
  ASSUME NEW b \in Backends, NEW r \in 1..22
  PROVE  Orderly(b, Migrated!History[b][r].up) /\ Orderly(b, Migrated!History[b][r].down)
<1> DEFINE h == Migrated!History[b]
<1>1. b \in {"sqlite", "postgresql"}
  BY HistoryAssumption
<1>2. h = <<Migrated!M001, Migrated!M002, Migrated!M003, Migrated!M004, Migrated!M005, Migrated!M006,
            Migrated!M007, Migrated!M008, Migrated!M009, Migrated!M010, Migrated!M011, Migrated!M012,
            Migrated!M013, Migrated!M014, Migrated!M015(b), Migrated!M016, Migrated!M017, Migrated!M018,
            Migrated!M019, Migrated!M020, Migrated!M021(b), Migrated!M022(b)>>
  BY DEF Migrated!History
<1> HIDE DEF h
<1>3. /\ h[7] = Migrated!M007 /\ h[15] = Migrated!M015(b) /\ h[21] = Migrated!M021(b) /\ h[22] = Migrated!M022(b)
  BY <1>2
<1>4. r \notin {7, 15, 21, 22} =>
        h[r] \in {Migrated!M001, Migrated!M002, Migrated!M003, Migrated!M004, Migrated!M005, Migrated!M006,
                  Migrated!M008, Migrated!M009, Migrated!M010, Migrated!M011, Migrated!M012, Migrated!M013,
                  Migrated!M014, Migrated!M016, Migrated!M017, Migrated!M018, Migrated!M019, Migrated!M020}
  BY <1>2
<1>5. Orderly(b, h[r].up) /\ Orderly(b, h[r].down)
  BY <1>1, <1>3, <1>4, MostAreElsewhere, MemoriesInOrder, ScopesInOrder, WordsInOrder, NamesInOrder
<1> QED
  BY <1>5 DEF h

-----------------------------------------------------------------------------
(* At every revision *)

\* A command under way is ready for its next statement; whenever none is, and in what a
\* kill leaves, the index holds the rows.
IndexInv ==
  /\ backend \in Backends /\ DOMAIN cmd = DOMAIN Migrated!Idle
  /\ IsDatabase(db) /\ NothingLeftOver(db) /\ db.rev \in 0..22
  /\ IsDatabase(safe) /\ NothingLeftOver(safe) /\ HoldsTheRows(safe) /\ safe.rev \in 0..22
  /\ ~cmd.on => HoldsTheRows(db)
  /\ cmd.on => /\ cmd.to \in 0..22 /\ cmd.to # db.rev
               /\ Ready(backend, db, cmd.open, Migrated!Statements, cmd.at)

\* Ready to begin a migration: no such statement is its first.
LEMMA ReadyToBegin ==
  ASSUME NEW b \in {"sqlite", "postgresql"}, b = backend, NEW st, Orderly(b, st), NEW d, HoldsTheRows(d), NEW open
  PROVE  Ready(backend, d, open, st, 1)
<1>1. ~ \E ops : Follows(st, 1, ops)
  BY DEF Follows
<1>2. Len(st) \in Nat
  BY DEF Orderly
<1>3. 1 <= Len(st) /\ st[1].of = "memory_items" =>
        st[1].op \notin {"drop", "fill"} /\ (backend = "sqlite" => st[1].op \notin {"copy", "check", "index"})
  BY <1>1, <1>2 DEF Orderly
<1>4. 1 <= Len(st) => st[1].op # "fill"
  BY <1>2, <1>3 DEF Orderly
<1> QED
  BY <1>2, <1>3, <1>4 DEF Ready

LEMMA BackendsAreTwo == backend \in Backends => backend \in {"sqlite", "postgresql"}
BY HistoryAssumption

\* The statements of whatever migration is next.
LEMMA StatementsAreOrderly ==
  ASSUME backend \in Backends, NEW to \in 0..22, NEW rev \in 0..22, to # rev
  PROVE  /\ to > rev => Orderly(backend, Migrated!History[backend][rev + 1].up)
         /\ ~(to > rev) => Orderly(backend, Migrated!History[backend][rev].down)
<1>1. to > rev => rev + 1 \in 1..22
  OBVIOUS
<1>2. ~(to > rev) => rev \in 1..22
  OBVIOUS
<1> QED
  BY <1>1, <1>2, HistoryIsOrderly

LEMMA NextIsOrderly ==
  ASSUME backend \in Backends, cmd.to \in 0..22, db.rev \in 0..22, cmd.to # db.rev
  PROVE  Orderly(backend, Migrated!Statements)
<1>1. /\ cmd.to > db.rev => Orderly(backend, Migrated!History[backend][db.rev + 1].up)
      /\ ~(cmd.to > db.rev) => Orderly(backend, Migrated!History[backend][db.rev].down)
  BY StatementsAreOrderly
<1>2. Migrated!Statements = IF cmd.to > db.rev THEN Migrated!History[backend][db.rev + 1].up
                            ELSE Migrated!History[backend][db.rev].down
  BY DEF Migrated!Statements, Migrated!Up
<1> QED
  BY <1>1, <1>2

LEMMA IndexStarts == Migrated!Init => IndexInv
<1> SUFFICES ASSUME Migrated!Init PROVE IndexInv
  OBVIOUS
<1>1. /\ backend \in Backends /\ cmd = Migrated!Idle /\ db = Migrated!Empty /\ safe = Migrated!Empty
  BY DEF Migrated!Init
<1>2. ~cmd.on
  BY <1>1 DEF Migrated!Idle
<1> DEFINE e == Migrated!Empty
<1>3. /\ e.rev = 0 /\ DOMAIN e.tables = {} /\ e.live = {}
      /\ e.memory = [n \in Notes |-> Migrated!Absent] /\ e.text = [n \in Notes |-> 0]
  BY DEF Migrated!Empty
<1>4. DOMAIN e = DOMAIN Migrated!Empty
  OBVIOUS
<1> HIDE DEF e
<1>5. e.memory = [n \in Notes |-> e.memory[n]] /\ e.text = [n \in Notes |-> e.text[n]]
  BY <1>3
<1>6. IsDatabase(e) /\ NothingLeftOver(e) /\ HoldsTheRows(e) /\ e.rev \in 0..22
  BY <1>3, <1>4, <1>5 DEF IsDatabase, NothingLeftOver, HoldsTheRows, NoMemories
<1> QED
  BY <1>1, <1>2, <1>6 DEF IndexInv, e

\* Another revision of the same rows.
LEMMA StampedAlike ==
  ASSUME NEW d, IsDatabase(d), NothingLeftOver(d), HoldsTheRows(d), NEW r
  PROVE  /\ IsDatabase([d EXCEPT !.rev = r]) /\ NothingLeftOver([d EXCEPT !.rev = r])
         /\ HoldsTheRows([d EXCEPT !.rev = r]) /\ [d EXCEPT !.rev = r].rev = r
<1> DEFINE e == [d EXCEPT !.rev = r]
<1>1. {"rev", "tables", "memory", "text", "live"} \subseteq DOMAIN d
  BY DEF IsDatabase, Migrated!Empty
<1>2. /\ DOMAIN e = DOMAIN d /\ e.memory = d.memory /\ e.text = d.text /\ e.tables = d.tables
      /\ e.live = d.live /\ e.rev = r
  BY <1>1
<1> HIDE DEF e
<1>3. IsDatabase(e) /\ NothingLeftOver(e) /\ HoldsTheRows(e)
  BY <1>2 DEF IsDatabase, NothingLeftOver, HoldsTheRows, NoMemories
<1> QED
  BY <1>2, <1>3 DEF e

LEMMA RowIsWritten ==
  ASSUME NEW d, IsDatabase(d), NothingLeftOver(d), HoldsTheRows(d), "memory_items" \in DOMAIN d.tables,
         NEW n \in Notes, NEW text, NEW e,
         DOMAIN e = DOMAIN d, e.tables = d.tables, e.live = d.live, e.rev = d.rev,
         NEW row, e.memory = [d.memory EXCEPT ![n] = row], row.text = text,
         "memory_items" \in d.live => e.text = [d.text EXCEPT ![n] = text],
         "memory_items" \notin d.live => e.text = d.text
  PROVE  IsDatabase(e) /\ NothingLeftOver(e) /\ HoldsTheRows(e) /\ e.rev = d.rev
<1> DEFINE memory == [d.memory EXCEPT ![n] = row]
           words == IF "memory_items" \in d.live THEN [d.text EXCEPT ![n] = text] ELSE d.text
<1> HIDE DEF memory, words
<1>4. /\ DOMAIN e = DOMAIN d /\ e.memory = memory /\ e.text = words /\ e.tables = d.tables
      /\ e.live = d.live /\ e.rev = d.rev
  BY DEF memory, words
<1>5. memory = [m \in Notes |-> IF m = n THEN row ELSE d.memory[m]]
  BY DEF IsDatabase, memory
<1>6. CASE "memory_items" \in d.live
  <2>1. words = [m \in Notes |-> IF m = n THEN text ELSE d.text[m]]
    BY <1>6 DEF IsDatabase, words
  <2>2. \A m \in Notes : d.text[m] = d.memory[m].text
    BY <1>6 DEF HoldsTheRows, Migrated!Texts
  <2>3. \A m \in Notes : (IF m = n THEN text ELSE d.text[m]) = memory[m].text
    BY <1>5, <2>2
  <2>4. words = [m \in Notes |-> memory[m].text]
    BY <2>1, <2>3
  <2>5. memory = [m \in Notes |-> memory[m]] /\ words = [m \in Notes |-> words[m]]
    BY <1>5, <2>1
  <2> QED
    BY <1>4, <1>6, <2>4, <2>5 DEF IsDatabase, NothingLeftOver, HoldsTheRows, Migrated!Texts
<1>7. CASE "memory_items" \notin d.live
  <2>1. words = d.text
    BY <1>7 DEF words
  <2>2. memory = [m \in Notes |-> memory[m]]
    BY <1>5
  <2> QED
    BY <1>4, <1>7, <2>1, <2>2 DEF IsDatabase, NothingLeftOver, HoldsTheRows
<1> QED
  BY <1>6, <1>7

\* No statement touches alembic_version.
LEMMA RevisionStays ==
  ASSUME NEW b, NEW st, Orderly(b, st), NEW k \in 1..Len(st), NEW d, IsDatabase(d)
  PROVE  Migrated!Done(d, st[k]).rev = d.rev
<1> DEFINE s == st[k]
           e == Migrated!Done(d, s)
<1>1. s.op \in Known
  BY DEF Orderly
<1>2. {"rev", "tables", "columns", "accepts", "named", "memory", "text", "live", "copies", "seeded"} = DOMAIN d
  BY DEF IsDatabase, Migrated!Empty
<1> SUFFICES e.rev = d.rev
  OBVIOUS
<1> HIDE DEF s
<1>3. CASE s.op = "create"
  <2>1. e = Migrated!Created(d, s)
    BY <1>3 DEF Migrated!Done
  <2> QED
    BY <1>2, <2>1 DEF Migrated!Created
<1>4. CASE s.op = "drop"
  <2>1. e = Migrated!Dropped(d, s)
    BY <1>4 DEF Migrated!Done
  <2> QED
    BY <1>2, <2>1 DEF Migrated!Dropped
<1>5. CASE s.op = "add"
  <2>1. e = [d EXCEPT !.columns = @ \cup {<<s.of, s.column>>}]
    BY <1>5 DEF Migrated!Done
  <2> QED
    BY <1>2, <2>1
<1>6. CASE s.op = "remove"
  <2>1. e = [d EXCEPT !.columns = @ \ {<<s.of, s.column>>}]
    BY <1>6 DEF Migrated!Done
  <2> QED
    BY <1>2, <2>1
<1>7. CASE s.op = "rename"
  <2>1. e = Migrated!Renaming(d, s)
    BY <1>7 DEF Migrated!Done
  <2> QED
    BY <1>2, <2>1 DEF Migrated!Renaming
<1>8. CASE s.op = "copy"
  <2>1. e = [d EXCEPT !.copies = @ \cup {s.of}]
    BY <1>8 DEF Migrated!Done
  <2> QED
    BY <1>2, <2>1
<1>9. CASE s.op = "check"
  <2>1. e = Migrated!Checked(d, s)
    BY <1>9 DEF Migrated!Done
  <2> QED
    BY <1>2, <2>1 DEF Migrated!Checked
<1>10. CASE s.op = "index"
  <2>1. e = Migrated!Indexed(d, s)
    BY <1>10 DEF Migrated!Done
  <2> QED
    BY <1>2, <2>1 DEF Migrated!Indexed
<1>11. CASE s.op = "unindex"
  <2>1. e = Migrated!Unindexed(d, s)
    BY <1>11 DEF Migrated!Done
  <2> QED
    BY <1>2, <2>1 DEF Migrated!Unindexed
<1>12. CASE s.op = "fill"
  <2>1. e = [d EXCEPT !.text = Migrated!Texts(d.memory)]
    BY <1>12 DEF Migrated!Done
  <2> QED
    BY <1>2, <2>1
<1>13. CASE s.op = "forget"
  <2>1. e = Migrated!Forgotten(d)
    BY <1>13 DEF Migrated!Done
  <2> QED
    BY <1>2, <2>1 DEF Migrated!Forgotten
<1>14. CASE s.op = "seed"
  <2>1. e = [d EXCEPT !.seeded = TRUE]
    BY <1>14 DEF Migrated!Done
  <2> QED
    BY <1>2, <2>1
<1> QED
  BY <1>1, <1>3, <1>4, <1>5, <1>6, <1>7, <1>8, <1>9, <1>10, <1>11, <1>12, <1>13, <1>14 DEF Known

LEMMA IndexStep == IndexInv /\ [Migrated!Next]_(Migrated!vars) => IndexInv'
<1> SUFFICES ASSUME IndexInv, [Migrated!Next]_(Migrated!vars) PROVE IndexInv'
  OBVIOUS
<1>t. /\ backend \in Backends /\ DOMAIN cmd = {"to", "at", "open", "on"}
      /\ IsDatabase(db) /\ NothingLeftOver(db) /\ db.rev \in 0..22
      /\ IsDatabase(safe) /\ NothingLeftOver(safe) /\ HoldsTheRows(safe) /\ safe.rev \in 0..22
      /\ ~cmd.on => HoldsTheRows(db)
      /\ cmd.on => /\ cmd.to \in 0..22 /\ cmd.to # db.rev
                   /\ Ready(backend, db, cmd.open, Migrated!Statements, cmd.at)
  BY DEF IndexInv, Migrated!Idle
<1>b. backend \in {"sqlite", "postgresql"}
  BY <1>t, BackendsAreTwo
<1>i. Migrated!Idle.on = FALSE
  BY DEF Migrated!Idle
\* A command that ends, or is undone, leaves what a kill would.
<1>e. ASSUME cmd' = Migrated!Idle, UNCHANGED backend, db' = safe', 
             IsDatabase(safe'), NothingLeftOver(safe'), HoldsTheRows(safe'), safe'.rev \in 0..22
      PROVE  IndexInv'
  BY <1>e, <1>i, <1>t DEF IndexInv
<1>1. CASE UNCHANGED Migrated!vars
  <2>1. UNCHANGED <<backend, db, safe, cmd>>
    BY <1>1 DEF Migrated!vars
  <2> QED
    BY <1>t, <2>1 DEF IndexInv, Ready, Migrated!Statements, Migrated!Up, Migrated!Idle
<1>2. ASSUME NEW to \in Targets, Migrated!Command(to) PROVE IndexInv'
  <2>1. /\ ~cmd.on /\ to # db.rev /\ UNCHANGED <<backend, db, safe>>
        /\ cmd' = [to |-> to, at |-> 1, open |-> FALSE, on |-> TRUE]
    BY <1>2 DEF Migrated!Command
  <2>2. to \in 0..22
    BY HistoryAssumption DEF Migrated!Last
  <2>3. cmd'.to = to /\ cmd'.at = 1 /\ cmd'.open = FALSE /\ cmd'.on = TRUE /\ DOMAIN cmd' = DOMAIN Migrated!Idle
    BY <2>1 DEF Migrated!Idle
  <2>4. Migrated!Statements' = IF to > db.rev THEN Migrated!History[backend][db.rev + 1].up
                               ELSE Migrated!History[backend][db.rev].down
    BY <2>1, <2>3 DEF Migrated!Statements, Migrated!Up, Migrated!History
  <2>5. Orderly(backend, Migrated!Statements')
    BY <1>t, <2>1, <2>2, <2>4, StatementsAreOrderly
  <2> DEFINE st == Migrated!Statements'
  <2> HIDE DEF st
  <2>6. Ready(backend, db, FALSE, st, 1)
    BY <1>b, <1>t, <2>1, <2>5, ReadyToBegin DEF st
  <2>7. Ready(backend', db', cmd'.open, Migrated!Statements', cmd'.at)
    BY <2>1, <2>3, <2>6 DEF st
  <2> QED
    BY <1>t, <2>1, <2>2, <2>3, <2>7 DEF IndexInv
<1>3. CASE Migrated!Execute
  <2> DEFINE st == Migrated!Statements
             s == st[cmd.at]
             opened == cmd.open \/ Migrated!ChangesRows(s) \/ backend = "postgresql"
             d == Migrated!Done(db, s)
  <2>1. /\ cmd.on /\ db.rev # cmd.to /\ cmd.at <= Len(st) /\ UNCHANGED backend
        /\ IF Migrated!Refused(db, s) THEN db' = safe /\ cmd' = Migrated!Idle /\ UNCHANGED safe
           ELSE /\ db' = d /\ safe' = IF opened THEN safe ELSE db'
                /\ cmd' = [cmd EXCEPT !.at = @ + 1, !.open = opened]
    BY <1>3 DEF Migrated!Execute
  <2>2. CASE Migrated!Refused(db, s)
    BY <1>e, <1>t, <2>1, <2>2
  <2>3. CASE ~Migrated!Refused(db, s)
    <3>1. Orderly(backend, st)
      BY <1>t, <2>1, NextIsOrderly
    <3>2. cmd.at \in 1..Len(st) /\ Ready(backend, db, cmd.open, st, cmd.at)
      BY <1>t, <2>1, <3>1 DEF Ready, Orderly
    <3>3. IsDatabase(d) /\ NothingLeftOver(d) /\ Ready(backend, d, opened, st, cmd.at + 1)
      <4> HIDE DEF st
      <4> QED
        BY <1>b, <1>t, <2>3, <3>1, <3>2, StatementKeepsIndex
    <3>4. /\ db' = d /\ safe' = (IF opened THEN safe ELSE db')
          /\ cmd' = [cmd EXCEPT !.at = @ + 1, !.open = opened]
      BY <2>1, <2>3
    <3>5. d.rev = db.rev
      BY <1>t, <3>1, <3>2, RevisionStays
    <3> HIDE DEF opened, d
    <3>6. cmd'.on /\ cmd'.to = cmd.to /\ cmd'.at = cmd.at + 1 /\ cmd'.open = opened /\ DOMAIN cmd' = DOMAIN cmd
      BY <1>t, <2>1, <3>4
    <3>7. Migrated!Statements' = st
      BY <2>1, <3>4, <3>5, <3>6 DEF Migrated!Statements, Migrated!Up
    <3>8. ~opened => HoldsTheRows(d)
      BY <3>3 DEF Ready
    <3>9. Ready(backend', db', cmd'.open, Migrated!Statements', cmd'.at)
      <4> HIDE DEF st
      <4> QED
        BY <2>1, <3>3, <3>4, <3>6, <3>7
    <3>10. IsDatabase(safe') /\ NothingLeftOver(safe') /\ HoldsTheRows(safe') /\ safe'.rev \in 0..22
      BY <1>t, <3>3, <3>4, <3>5, <3>8
    <3> QED
      BY <1>t, <2>1, <3>3, <3>4, <3>5, <3>6, <3>9, <3>10 DEF IndexInv, Migrated!Idle
  <2> QED
    BY <2>2, <2>3
<1>4. CASE Migrated!Stamp
  <2> DEFINE st == Migrated!Statements
             r == IF Migrated!Up THEN db.rev + 1 ELSE db.rev - 1
  <2>1. /\ cmd.on /\ db.rev # cmd.to /\ cmd.at > Len(st) /\ UNCHANGED backend
        /\ db' = [db EXCEPT !.rev = r]
        /\ safe' = IF backend = "sqlite" \/ db'.rev = cmd.to THEN db' ELSE safe
        /\ cmd' = IF db'.rev = cmd.to THEN Migrated!Idle ELSE [cmd EXCEPT !.at = 1, !.open = FALSE]
    BY <1>4 DEF Migrated!Stamp, Migrated!Idle
  <2>2. r \in 0..22
    <3>1. db.rev \in 0..22 /\ cmd.to \in 0..22 /\ cmd.to # db.rev
      BY <1>t, <2>1
    <3>2. CASE cmd.to > db.rev
      <4>1. r = db.rev + 1
        BY <3>2 DEF Migrated!Up
      <4> QED
        BY <3>1, <3>2, <4>1
    <3>3. CASE ~(cmd.to > db.rev)
      <4>1. r = db.rev - 1
        BY <3>3 DEF Migrated!Up
      <4> QED
        BY <3>1, <3>3, <4>1
    <3> QED
      BY <3>2, <3>3
  <2>3. Orderly(backend, st)
    BY <1>t, <2>1, NextIsOrderly
  <2>4. HoldsTheRows(db)
    BY <1>t, <2>1, <2>3 DEF Ready, Orderly
  <2> HIDE DEF r
  <2>5. IsDatabase(db') /\ NothingLeftOver(db') /\ HoldsTheRows(db') /\ db'.rev = r
    BY <1>t, <2>1, <2>4, StampedAlike
  <2>6. IsDatabase(safe') /\ NothingLeftOver(safe') /\ HoldsTheRows(safe') /\ safe'.rev \in 0..22
    BY <1>t, <2>1, <2>2, <2>5
  <2>7. CASE r = cmd.to
    BY <1>e, <2>1, <2>5, <2>6, <2>7
  <2>8. CASE r # cmd.to
    <3> DEFINE later == Migrated!Statements'
    <3>1. cmd'.on /\ cmd'.to = cmd.to /\ cmd'.at = 1 /\ cmd'.open = FALSE /\ DOMAIN cmd' = DOMAIN cmd
      BY <1>t, <2>1, <2>5, <2>8
    <3>2. later = IF cmd.to > r THEN Migrated!History[backend][r + 1].up
                 ELSE Migrated!History[backend][r].down
      BY <2>1, <2>5, <3>1 DEF Migrated!Statements, Migrated!Up, Migrated!History
    <3>3. Orderly(backend, later)
      BY <1>t, <2>1, <2>2, <2>8, <3>2, StatementsAreOrderly
    <3> HIDE DEF later
    <3>4. Ready(backend, db', FALSE, later, 1)
      BY <1>b, <2>5, <3>3, ReadyToBegin
    <3>5. Ready(backend', db', cmd'.open, Migrated!Statements', cmd'.at)
      BY <2>1, <3>1, <3>4 DEF later
    <3> QED
      BY <1>t, <2>1, <2>2, <2>5, <2>6, <2>8, <3>1, <3>5 DEF IndexInv, Migrated!Idle
  <2> QED
    BY <2>7, <2>8
<1>5. CASE Migrated!Kill
  BY <1>5, <1>e, <1>t DEF Migrated!Kill
<1>6. ASSUME NEW t, Migrated!WriteName(t) PROVE IndexInv'
  <2>1. /\ ~cmd.on /\ db' = [db EXCEPT !.named[t] = Migrated!Manager] /\ safe' = db' /\ UNCHANGED <<backend, cmd>>
    BY <1>6 DEF Migrated!WriteName
  <2>2. {"rev", "tables", "memory", "text", "live"} \subseteq DOMAIN db
    BY <1>t DEF IsDatabase, Migrated!Empty
  <2>3. /\ DOMAIN db' = DOMAIN db /\ db'.memory = db.memory /\ db'.text = db.text /\ db'.tables = db.tables
        /\ db'.live = db.live /\ db'.rev = db.rev
    BY <2>1, <2>2
  <2>4. IsDatabase(db) /\ NothingLeftOver(db) /\ HoldsTheRows(db)
    BY <1>t, <2>1
  <2> DEFINE e == db'
             d == db
  <2>5. IsDatabase(d) /\ NothingLeftOver(d) /\ HoldsTheRows(d)
        /\ DOMAIN e = DOMAIN d /\ e.memory = d.memory /\ e.text = d.text /\ e.tables = d.tables
        /\ e.live = d.live
    BY <2>3, <2>4
  <2> HIDE DEF d, e
  <2>6. IsDatabase(e)
    BY <2>5 DEF IsDatabase
  <2>7. NothingLeftOver(e)
    BY <2>5 DEF NothingLeftOver, NoMemories
  <2>8. HoldsTheRows(e)
    BY <2>5 DEF HoldsTheRows
  <2>9. IsDatabase(db') /\ NothingLeftOver(db') /\ HoldsTheRows(db')
    BY <2>6, <2>7, <2>8 DEF e
  <2> QED
    BY <1>t, <2>1, <2>3, <2>9 DEF IndexInv, Migrated!Idle
<1>7. ASSUME NEW n \in Notes, NEW scope, NEW text, Migrated!WriteMemory(n, scope, text) PROVE IndexInv'
  <2>1. /\ ~cmd.on /\ "memory_items" \in DOMAIN db.tables /\ safe' = db' /\ UNCHANGED <<backend, cmd>>
        /\ db' = [db EXCEPT !.memory[n] = [scope |-> scope, text |-> text],
                            !.text = IF "memory_items" \in db.live THEN [@ EXCEPT ![n] = text] ELSE @]
    BY <1>7 DEF Migrated!WriteMemory
  <2>2. IsDatabase(db') /\ NothingLeftOver(db') /\ HoldsTheRows(db') /\ db'.rev = db.rev
    <3>1. IsDatabase(db) /\ NothingLeftOver(db) /\ HoldsTheRows(db)
      BY <1>t, <2>1
    <3>2. {"rev", "tables", "memory", "text", "live"} \subseteq DOMAIN db
      BY <1>t DEF IsDatabase, Migrated!Empty
    <3> DEFINE row == [scope |-> scope, text |-> text]
    <3> HIDE DEF row
    <3>3. db' = [db EXCEPT !.memory[n] = row,
                           !.text = IF "memory_items" \in db.live THEN [@ EXCEPT ![n] = text] ELSE @]
      BY <2>1 DEF row
    <3>4. /\ DOMAIN db' = DOMAIN db /\ db'.tables = db.tables /\ db'.live = db.live /\ db'.rev = db.rev
          /\ db'.memory = [db.memory EXCEPT ![n] = row]
          /\ db'.text = IF "memory_items" \in db.live THEN [db.text EXCEPT ![n] = text] ELSE db.text
      BY <3>2, <3>3
    <3>5. row.text = text
      BY DEF row
    <3>6. PICK d, e : d = db /\ e = db'
      OBVIOUS
    <3>7. /\ IsDatabase(d) /\ NothingLeftOver(d) /\ HoldsTheRows(d) /\ "memory_items" \in DOMAIN d.tables
          /\ DOMAIN e = DOMAIN d /\ e.tables = d.tables /\ e.live = d.live /\ e.rev = d.rev
          /\ e.memory = [d.memory EXCEPT ![n] = row]
          /\ "memory_items" \in d.live => e.text = [d.text EXCEPT ![n] = text]
          /\ "memory_items" \notin d.live => e.text = d.text
      BY <2>1, <3>1, <3>4, <3>6
    <3>8. IsDatabase(e) /\ NothingLeftOver(e) /\ HoldsTheRows(e) /\ e.rev = d.rev
      BY <3>5, <3>7, RowIsWritten
    <3> QED
      BY <3>6, <3>8
  <2> QED
    BY <1>t, <2>1, <2>2 DEF IndexInv, Migrated!Idle
<1> QED
  BY <1>1, <1>2, <1>3, <1>4, <1>5, <1>6, <1>7 DEF Migrated!Next

-----------------------------------------------------------------------------
(* What the history makes, in the order in which it does *)

\* The number of a table among the thirty-one tables, later columns and text indexes
\* that the history makes one after the other; going back it unmakes the last first.
Born(t) ==
  CASE t = "employees" -> 1 [] t = "tasks" -> 2 [] t = "task_events" -> 3
    [] t = "llm_calls" -> 4 [] t = "task_assignments" -> 5 [] t = "tool_calls" -> 6
    [] t = "approvals" -> 7 [] t = "objectives" -> 9 [] t = "plans" -> 10
    [] t = "plan_task_dependencies" -> 11 [] t = "memory_items" -> 12 [] t = "audit_log" -> 15
    [] t = "workflow_runs" -> 16 [] t = "validation_runs" -> 17 [] t = "schedules" -> 18
    [] t = "events" -> 19 [] t = "conversations" -> 20 [] t = "integrations" -> 22
    [] t = "workspaces" -> 23 [] t = "documents" -> 24 [] t = "chunks" -> 25
    [] t = "secrets" -> 28 [] t = "connections" -> 29 [] t = "model_entries" -> 30
    [] t = "task_defaults" -> 31

ColumnBorn(c) ==
  CASE c = <<"tool_calls", "interface">> -> 8 [] c = <<"approvals", "expires_at">> -> 14
    [] c = <<"objectives", "conversation_id">> -> 21 [] c = <<"approvals", "tool">> -> 27

IndexBorn(t) == IF t = "memory_items" THEN 13 ELSE 26

TableNames ==
  {"employees", "tasks", "task_events", "llm_calls", "task_assignments", "tool_calls", "approvals",
   "objectives", "conversations", "plans", "plan_task_dependencies", "memory_items", "audit_log",
   "workflow_runs", "validation_runs", "schedules", "events", "workspaces", "integrations",
   "documents", "chunks", "connections", "model_entries", "task_defaults", "secrets"}

\* Each table is the one its group says it is.
LEMMA DeclaredAre ==
  /\ Migrated!Declared = [t \in TableNames |-> Migrated!Declared[t]]
  /\ \A t \in DOMAIN Migrated!WorkTables : Migrated!Declared[t] = Migrated!WorkTables[t]
  /\ \A t \in DOMAIN Migrated!CallTables : Migrated!Declared[t] = Migrated!CallTables[t]
  /\ \A t \in DOMAIN Migrated!ObjectiveTables : Migrated!Declared[t] = Migrated!ObjectiveTables[t]
  /\ \A t \in DOMAIN Migrated!MemoryTables : Migrated!Declared[t] = Migrated!MemoryTables[t]
  /\ \A t \in DOMAIN Migrated!RecordTables : Migrated!Declared[t] = Migrated!RecordTables[t]
  /\ \A t \in DOMAIN Migrated!StandingTables : Migrated!Declared[t] = Migrated!StandingTables[t]
  /\ \A t \in DOMAIN Migrated!IntegrationTables : Migrated!Declared[t] = Migrated!IntegrationTables[t]
  /\ \A t \in DOMAIN Migrated!DocumentTables : Migrated!Declared[t] = Migrated!DocumentTables[t]
  /\ \A t \in DOMAIN Migrated!ConnectionTables : Migrated!Declared[t] = Migrated!ConnectionTables[t]
<1> DEFINE groups == {Migrated!WorkTables, Migrated!CallTables, Migrated!ObjectiveTables, Migrated!MemoryTables,
                      Migrated!RecordTables, Migrated!StandingTables, Migrated!IntegrationTables,
                      Migrated!DocumentTables, Migrated!ConnectionTables}
           names == UNION {DOMAIN g : g \in groups}
<1>1. Migrated!Declared = [t \in names |-> (CHOOSE g \in groups : t \in DOMAIN g)[t]]
  BY DEF Migrated!Declared
<1>2. /\ DOMAIN Migrated!WorkTables = {"employees", "tasks", "task_events"}
      /\ DOMAIN Migrated!CallTables = {"llm_calls", "task_assignments", "tool_calls", "approvals"}
      /\ DOMAIN Migrated!ObjectiveTables = {"objectives", "conversations", "plans", "plan_task_dependencies"}
      /\ DOMAIN Migrated!MemoryTables = {"memory_items"}
      /\ DOMAIN Migrated!RecordTables = {"audit_log", "workflow_runs", "validation_runs"}
      /\ DOMAIN Migrated!StandingTables = {"schedules", "events", "workspaces"}
      /\ DOMAIN Migrated!IntegrationTables = {"integrations"}
      /\ DOMAIN Migrated!DocumentTables = {"documents", "chunks"}
      /\ DOMAIN Migrated!ConnectionTables = {"connections", "model_entries", "task_defaults", "secrets"}
  BY DEF Migrated!WorkTables, Migrated!CallTables, Migrated!ObjectiveTables, Migrated!MemoryTables,
         Migrated!RecordTables, Migrated!StandingTables, Migrated!IntegrationTables,
         Migrated!DocumentTables, Migrated!ConnectionTables
<1>3. names = TableNames
  BY <1>2 DEF TableNames
<1>4. ASSUME NEW f \in groups, NEW t \in DOMAIN f PROVE \A g \in groups : t \in DOMAIN g => g = f
  BY <1>2, <1>4
<1>5. ASSUME NEW f \in groups, NEW t \in DOMAIN f PROVE Migrated!Declared[t] = f[t]
  <2> HIDE DEF groups
  <2>1. (CHOOSE g \in groups : t \in DOMAIN g) = f
    BY <1>4, <1>5
  <2> QED
    BY <1>1, <1>5, <2>1
<1>6. Migrated!Declared = [t \in TableNames |-> Migrated!Declared[t]]
  BY <1>1, <1>3
<1> QED
  BY <1>5, <1>6

\* So it stands in the history's own words.
LEMMA TableIs ==
  /\ Migrated!Declared["employees"] = Migrated!Table("id", {}, {})
  /\ Migrated!Declared["tasks"]
       = Migrated!Table("id", {Migrated!Cascades("tasks"), Migrated!Refuses("employees")}, {"status"})
  /\ Migrated!Declared["task_events"] = Migrated!Table("number", {Migrated!Cascades("tasks")}, {})
  /\ Migrated!Declared["llm_calls"] = Migrated!Table("number", {}, {})
  /\ Migrated!Declared["task_assignments"]
       = Migrated!Table("id", {Migrated!Cascades("tasks"), Migrated!Refuses("employees")}, {})
  /\ Migrated!Declared["tool_calls"] = Migrated!Table("number", {}, {})
  /\ Migrated!Declared["approvals"]
       = Migrated!Table("id", {Migrated!Cascades("tasks"), Migrated!Refuses("employees")}, {"state"})
  /\ Migrated!Declared["objectives"] = Migrated!Table("id", {}, {"status"})
  /\ Migrated!Declared["conversations"] = Migrated!Table("id", {}, {})
  /\ Migrated!Declared["plans"] = Migrated!Table("id", {Migrated!Cascades("objectives")}, {"status"})
  /\ Migrated!Declared["plan_task_dependencies"] = Migrated!Table("composite", {Migrated!Cascades("plans")}, {})
  /\ Migrated!Declared["memory_items"] = Migrated!Table("id", {}, {"scope", "kind"})
  /\ Migrated!Declared["audit_log"] = Migrated!Table("number", {}, {"actor_kind", "result"})
  /\ Migrated!Declared["workflow_runs"] = Migrated!Table("id", {}, {"trigger", "status"})
  /\ Migrated!Declared["validation_runs"] = Migrated!Table("id", {}, {"status"})
  /\ \A t \in {"schedules", "events", "workspaces", "connections", "model_entries", "task_defaults", "secrets"} :
       Migrated!Declared[t] = Migrated!Table("id", {}, {})
  /\ Migrated!Declared["integrations"] = Migrated!Table("id", {}, {"kind", "status"})
  /\ Migrated!Declared["documents"] = Migrated!Table("id", {}, {"status"})
  /\ Migrated!Declared["chunks"] = Migrated!Table("id", {Migrated!Cascades("documents")}, {})
BY DeclaredAre DEF Migrated!WorkTables, Migrated!CallTables, Migrated!ObjectiveTables, Migrated!MemoryTables,
       Migrated!RecordTables, Migrated!StandingTables, Migrated!IntegrationTables,
       Migrated!DocumentTables, Migrated!ConnectionTables

\* A number is one thing's.
LEMMA OneAtATime ==
  /\ \A t \in TableNames : Born(t) \in 1..31 /\ Born(t) \notin {8, 13, 14, 21, 26, 27}
  /\ \A t, u \in TableNames : Born(t) = Born(u) => t = u
  /\ \A c \in Migrated!DeclaredColumns :
       /\ ColumnBorn(c) \in {8, 14, 21, 27} /\ c = <<c[1], c[2]>>
       /\ c[1] \in TableNames /\ Born(c[1]) < ColumnBorn(c)
  /\ \A c, e \in Migrated!DeclaredColumns : ColumnBorn(c) = ColumnBorn(e) => c = e
  /\ \A t \in Migrated!DeclaredIndexes :
       t \in TableNames /\ IndexBorn(t) \in {13, 26} /\ Born(t) < IndexBorn(t)
  /\ \A t, u \in Migrated!DeclaredIndexes : IndexBorn(t) = IndexBorn(u) => t = u
<1>1. ASSUME NEW t \in TableNames PROVE Born(t) \in 1..31 /\ Born(t) \notin {8, 13, 14, 21, 26, 27}
  <2>1. Born(t) \in {1, 2, 3, 4, 5, 6, 7, 9, 10, 11, 12, 15, 16, 17, 18, 19, 20, 22, 23, 24, 25, 28, 29, 30, 31}
    BY DEF TableNames, Born
  <2> QED
    BY <2>1
<1>2. ASSUME NEW t \in TableNames, NEW u \in TableNames, Born(t) = Born(u) PROVE t = u
  BY <1>2 DEF TableNames, Born
<1>3. \A c \in Migrated!DeclaredColumns :
        /\ ColumnBorn(c) \in {8, 14, 21, 27} /\ c = <<c[1], c[2]>>
        /\ c[1] \in TableNames /\ Born(c[1]) < ColumnBorn(c)
  BY DEF TableNames, Born, ColumnBorn, Migrated!DeclaredColumns
<1>4. \A c, e \in Migrated!DeclaredColumns : ColumnBorn(c) = ColumnBorn(e) => c = e
  BY DEF ColumnBorn, Migrated!DeclaredColumns
<1>5. \A t \in Migrated!DeclaredIndexes :
        t \in TableNames /\ IndexBorn(t) \in {13, 26} /\ Born(t) < IndexBorn(t)
  BY DEF TableNames, Born, IndexBorn, Migrated!DeclaredIndexes
<1>6. \A t, u \in Migrated!DeclaredIndexes : IndexBorn(t) = IndexBorn(u) => t = u
  BY DEF IndexBorn, Migrated!DeclaredIndexes
<1> QED
  BY <1>1, <1>2, <1>3, <1>4, <1>5, <1>6

\* A table comes after those its rows refer to, and goes before them.
LEMMA ParentsComeFirst ==
  ASSUME NEW t \in TableNames, NEW r \in Migrated!Declared[t].refs
  PROVE  r.to \in TableNames /\ Born(r.to) <= Born(t)
<1>1. Migrated!Declared[t].refs \subseteq
        CASE t \in {"tasks", "task_assignments", "approvals"} ->
               {Migrated!Cascades("tasks"), Migrated!Refuses("employees")}
          [] t = "task_events" -> {Migrated!Cascades("tasks")}
          [] t = "plans" -> {Migrated!Cascades("objectives")}
          [] t = "plan_task_dependencies" -> {Migrated!Cascades("plans")}
          [] t = "chunks" -> {Migrated!Cascades("documents")}
          [] OTHER -> {}
  BY TableIs DEF TableNames, Migrated!Table
<1> QED
  BY <1>1 DEF TableNames, Born, Migrated!Cascades, Migrated!Refuses

\* What there is once the first n things are made.
Made(n) == {t \in TableNames : Born(t) <= n}
Gained(n) == {c \in Migrated!DeclaredColumns : ColumnBorn(c) <= n}
Covered(n) == {t \in Migrated!DeclaredIndexes : IndexBorn(t) <= n}

\* The statements that make the n-th thing and unmake it.
Makes(s, n) ==
  \/ \E t \in TableNames : Born(t) = n /\ s = [op |-> "create", of |-> t, as |-> Migrated!Declared[t]]
  \/ \E c \in Migrated!DeclaredColumns : ColumnBorn(c) = n /\ s = Migrated!Add(c[1], c[2])
  \/ \E t \in Migrated!DeclaredIndexes : IndexBorn(t) = n /\ s = Migrated!IndexText(t)

Unmakes(s, n) ==
  \/ \E t \in TableNames : Born(t) = n /\ s = Migrated!Drop(t)
  \/ \E c \in Migrated!DeclaredColumns : ColumnBorn(c) = n /\ s = Migrated!Remove(c[1], c[2])
  \/ \E t \in Migrated!DeclaredIndexes : IndexBorn(t) = n /\ s = Migrated!DropText(t)

\* One thing more.
LEMMA OneMore ==
  ASSUME NEW n \in Nat
  PROVE  /\ \A t \in TableNames : Born(t) = n + 1 =>
              /\ t \notin Made(n) /\ Made(n + 1) = Made(n) \cup {t}
              /\ Gained(n + 1) = Gained(n) /\ Covered(n + 1) = Covered(n)
         /\ \A c \in Migrated!DeclaredColumns : ColumnBorn(c) = n + 1 =>
              /\ c \notin Gained(n) /\ Gained(n + 1) = Gained(n) \cup {c} /\ c[1] \in Made(n)
              /\ Made(n + 1) = Made(n) /\ Covered(n + 1) = Covered(n)
         /\ \A t \in Migrated!DeclaredIndexes : IndexBorn(t) = n + 1 =>
              /\ t \notin Covered(n) /\ Covered(n + 1) = Covered(n) \cup {t} /\ t \in Made(n)
              /\ Made(n + 1) = Made(n) /\ Gained(n + 1) = Gained(n)
<1>1. /\ \A t \in TableNames : Born(t) \in Nat /\ (Born(t) <= n + 1 <=> Born(t) <= n \/ Born(t) = n + 1)
                               /\ ~(Born(t) = n + 1 /\ Born(t) <= n)
      /\ \A c \in Migrated!DeclaredColumns :
           ColumnBorn(c) \in Nat /\ (ColumnBorn(c) <= n + 1 <=> ColumnBorn(c) <= n \/ ColumnBorn(c) = n + 1)
           /\ ~(ColumnBorn(c) = n + 1 /\ ColumnBorn(c) <= n)
      /\ \A t \in Migrated!DeclaredIndexes :
           IndexBorn(t) \in Nat /\ (IndexBorn(t) <= n + 1 <=> IndexBorn(t) <= n \/ IndexBorn(t) = n + 1)
           /\ ~(IndexBorn(t) = n + 1 /\ IndexBorn(t) <= n)
  BY OneAtATime
<1>2. ASSUME NEW t \in TableNames, Born(t) = n + 1
      PROVE  /\ t \notin Made(n) /\ Made(n + 1) = Made(n) \cup {t}
             /\ Gained(n + 1) = Gained(n) /\ Covered(n + 1) = Covered(n)
  <2>1. t \notin Made(n) /\ Made(n + 1) = Made(n) \cup {t}
    BY <1>1, <1>2, OneAtATime DEF Made
  <2>2. Gained(n + 1) = Gained(n)
    BY <1>1, <1>2, OneAtATime DEF Gained
  <2>3. Covered(n + 1) = Covered(n)
    BY <1>1, <1>2, OneAtATime DEF Covered
  <2> QED
    BY <2>1, <2>2, <2>3
<1>3. ASSUME NEW c \in Migrated!DeclaredColumns, ColumnBorn(c) = n + 1
      PROVE  /\ c \notin Gained(n) /\ Gained(n + 1) = Gained(n) \cup {c} /\ c[1] \in Made(n)
             /\ Made(n + 1) = Made(n) /\ Covered(n + 1) = Covered(n)
  <2>1. c \notin Gained(n) /\ Gained(n + 1) = Gained(n) \cup {c}
    BY <1>1, <1>3, OneAtATime DEF Gained
  <2>2. Made(n + 1) = Made(n)
    BY <1>1, <1>3, OneAtATime DEF Made
  <2>3. Covered(n + 1) = Covered(n)
    BY <1>1, <1>3, OneAtATime DEF Covered
  <2>4. c[1] \in Made(n)
    BY <1>3, OneAtATime DEF Made
  <2> QED
    BY <2>1, <2>2, <2>3, <2>4
<1>4. ASSUME NEW t \in Migrated!DeclaredIndexes, IndexBorn(t) = n + 1
      PROVE  /\ t \notin Covered(n) /\ Covered(n + 1) = Covered(n) \cup {t} /\ t \in Made(n)
             /\ Made(n + 1) = Made(n) /\ Gained(n + 1) = Gained(n)
  <2>1. t \notin Covered(n) /\ Covered(n + 1) = Covered(n) \cup {t}
    BY <1>1, <1>4, OneAtATime DEF Covered
  <2>2. Made(n + 1) = Made(n)
    BY <1>1, <1>4, OneAtATime DEF Made
  <2>3. Gained(n + 1) = Gained(n)
    BY <1>1, <1>4, OneAtATime DEF Gained
  <2>4. t \in Made(n)
    BY <1>4, OneAtATime DEF Made
  <2> QED
    BY <2>1, <2>2, <2>3, <2>4
<1> QED
  BY <1>2, <1>3, <1>4

-----------------------------------------------------------------------------
(* A database at one place of the history *)

NamedTables == {"tasks", "task_assignments", "audit_log"}

\* d has the first n things, and for the rest is as g says: the values its two constraints
\* accept, the scopes its memories have, the name each table has for the manager, the
\* indexes that are taken down and the tables that are being copied.  What a killed upgrade
\* may add or take away where it is not spoilt for good - x says there was none - is a later
\* column of a table, and the first index of the memories.
Fits(d, x, n, g) ==
  /\ d.tables = [t \in Made(n) |-> Migrated!Declared[t]]
  /\ Gained(n) \subseteq d.columns
  /\ d.columns \subseteq {c \in Migrated!DeclaredColumns : c[1] \in Made(n)}
  /\ x => d.columns = Gained(n)
  /\ \/ d.live = Covered(n) \ g.gone
     \/ ~x /\ g.scope = Migrated!OldScopes /\ d.live = (Covered(n) \ g.gone) \ {"memory_items"}
  /\ d.accepts = [scope |-> IF "memory_items" \in Made(n) THEN g.scope ELSE {},
                  actor_kind |-> IF "audit_log" \in Made(n) THEN g.kinds ELSE {}]
  /\ d.named = [t \in NamedTables |-> d.named[t]]
  /\ \A t \in NamedTables : d.named[t] = "none" \/ (d.named[t] = g.name[t] /\ t \in Made(n))
  /\ \A i \in Notes : d.memory[i].scope \in {"none"} \cup g.rows
  /\ d.copies = g.copies /\ d.seeded = g.seeded

FieldsOf(d) ==
  {"rev", "tables", "columns", "accepts", "named", "memory", "text", "live", "copies", "seeded"} = DOMAIN d

LEMMA DatabasesHaveFields == ASSUME NEW d, IsDatabase(d) PROVE FieldsOf(d)
BY DEF IsDatabase, Migrated!Empty, FieldsOf

\* The values of the two constraints, of which one changes.
LEMMA OneConstraintChanges ==
  ASSUME NEW a, NEW scope, NEW kinds, NEW v, a = [scope |-> scope, actor_kind |-> kinds]
  PROVE  /\ [a EXCEPT !.scope = v] = [scope |-> v, actor_kind |-> kinds]
         /\ [a EXCEPT !.actor_kind = v] = [scope |-> scope, actor_kind |-> v]
<1> DEFINE b == [a EXCEPT !.scope = v]
           c == [a EXCEPT !.actor_kind = v]
<1>1. DOMAIN a = {"scope", "actor_kind"} /\ a.scope = scope /\ a.actor_kind = kinds
  OBVIOUS
<1>2. /\ DOMAIN b = {"scope", "actor_kind"} /\ b.scope = v /\ b.actor_kind = kinds
      /\ DOMAIN c = {"scope", "actor_kind"} /\ c.scope = scope /\ c.actor_kind = v
      /\ b = [f \in {"scope", "actor_kind"} |-> b[f]] /\ c = [f \in {"scope", "actor_kind"} |-> c[f]]
  BY <1>1
<1> HIDE DEF b, c
<1>3. b = [scope |-> v, actor_kind |-> kinds] /\ c = [scope |-> scope, actor_kind |-> v]
  BY <1>2
<1> QED
  BY <1>3 DEF b, c

\* The next thing is made.
LEMMA ThingIsMade ==
  ASSUME NEW d, IsDatabase(d), NEW x \in BOOLEAN, NEW n \in Nat, NEW g, Fits(d, x, n, g),
         NEW s, Makes(s, n + 1), ~Migrated!Refused(d, s), g.gone = {},
         n + 1 = 12 => g.scope = Migrated!OldScopes, n + 1 = 15 => g.kinds = Migrated!ActorKinds("alethic")
  PROVE  Fits(Migrated!Done(d, s), x, n + 1, g)
<1> DEFINE e == Migrated!Done(d, s)
<1> SUFFICES Fits(e, x, n + 1, g)
  OBVIOUS
<1>f. {"rev", "tables", "columns", "accepts", "named", "memory", "text", "live", "copies", "seeded"} = DOMAIN d
  BY DatabasesHaveFields DEF FieldsOf
<1>1. ASSUME NEW t \in TableNames, Born(t) = n + 1,
             s = [op |-> "create", of |-> t, as |-> Migrated!Declared[t]]
      PROVE  Fits(e, x, n + 1, g)
  <2>1. s.op = "create" /\ s.of = t /\ s.as = Migrated!Declared[t]
    BY <1>1
  <2>2. e = Migrated!Created(d, s)
    BY <2>1 DEF Migrated!Done
  <2>3. /\ e.tables = [u \in DOMAIN d.tables \cup {t} |-> IF u = t THEN Migrated!Declared[t] ELSE d.tables[u]]
        /\ e.accepts = Migrated!Accepting(d, t)
        /\ e.columns = d.columns /\ e.live = d.live /\ e.named = d.named /\ e.memory = d.memory
        /\ e.copies = d.copies /\ e.seeded = d.seeded
    BY <1>f, <2>1, <2>2 DEF Migrated!Created
  <2> HIDE DEF e
  <2>4. /\ t \notin Made(n) /\ Made(n + 1) = Made(n) \cup {t}
        /\ Gained(n + 1) = Gained(n) /\ Covered(n + 1) = Covered(n)
    BY <1>1, OneMore
  <2>5. e.tables = [u \in Made(n + 1) |-> Migrated!Declared[u]]
    BY <2>3, <2>4 DEF Fits
  <2>6. e.accepts = [scope |-> IF "memory_items" \in Made(n + 1) THEN g.scope ELSE {},
                     actor_kind |-> IF "audit_log" \in Made(n + 1) THEN g.kinds ELSE {}]
    <3>1. PICK scope, kinds :
            /\ d.accepts = [scope |-> scope, actor_kind |-> kinds]
            /\ scope = (IF "memory_items" \in Made(n) THEN g.scope ELSE {})
            /\ kinds = (IF "audit_log" \in Made(n) THEN g.kinds ELSE {})
      BY DEF Fits
    <3>2. Born("memory_items") = 12 /\ Born("audit_log") = 15
      BY DEF Born
    <3>3. CASE t = "memory_items"
      <4>1. e.accepts = [d.accepts EXCEPT !.scope = Migrated!OldScopes] /\ g.scope = Migrated!OldScopes
        BY <1>1, <2>3, <3>2, <3>3 DEF Migrated!Accepting
      <4>2. e.accepts = [scope |-> Migrated!OldScopes, actor_kind |-> kinds]
        BY <3>1, <4>1, OneConstraintChanges
      <4> QED
        BY <2>4, <3>1, <3>3, <4>1, <4>2
    <3>4. CASE t = "audit_log"
      <4> DEFINE first == Migrated!ActorKinds("alethic")
      <4>1. e.accepts = [d.accepts EXCEPT !.actor_kind = first] /\ g.kinds = first
        BY <1>1, <2>3, <3>2, <3>4 DEF Migrated!Accepting
      <4> HIDE DEF first
      <4>2. e.accepts = [scope |-> scope, actor_kind |-> first]
        BY <3>1, <4>1, OneConstraintChanges
      <4> QED
        BY <2>4, <3>1, <3>4, <4>1, <4>2
    <3>5. CASE t \notin {"memory_items", "audit_log"}
      <4>1. e.accepts = d.accepts
        BY <2>3, <3>5 DEF Migrated!Accepting
      <4> QED
        BY <2>4, <3>1, <3>5, <4>1
    <3> QED
      BY <3>3, <3>4, <3>5
  <2> QED
    BY <2>3, <2>4, <2>5, <2>6 DEF Fits
<1>2. ASSUME NEW c \in Migrated!DeclaredColumns, ColumnBorn(c) = n + 1, s = Migrated!Add(c[1], c[2])
      PROVE  Fits(e, x, n + 1, g)
  <2>1. s.op = "add" /\ s.of = c[1] /\ s.column = c[2] /\ c = <<c[1], c[2]>>
    BY <1>2, OneAtATime DEF Migrated!Add
  <2>2. e = [d EXCEPT !.columns = @ \cup {c}]
    BY <2>1 DEF Migrated!Done
  <2>3. /\ e.columns = d.columns \cup {c}
        /\ e.tables = d.tables /\ e.accepts = d.accepts /\ e.live = d.live /\ e.named = d.named
        /\ e.memory = d.memory /\ e.copies = d.copies /\ e.seeded = d.seeded
    BY <1>f, <2>2
  <2> HIDE DEF e
  <2>4. /\ c \notin Gained(n) /\ Gained(n + 1) = Gained(n) \cup {c} /\ c[1] \in Made(n)
        /\ Made(n + 1) = Made(n) /\ Covered(n + 1) = Covered(n)
    BY <1>2, OneMore
  <2> QED
    BY <2>3, <2>4 DEF Fits
<1>3. ASSUME NEW t \in Migrated!DeclaredIndexes, IndexBorn(t) = n + 1, s = Migrated!IndexText(t)
      PROVE  Fits(e, x, n + 1, g)
  <2>1. s.op = "index" /\ s.of = t
    BY <1>3 DEF Migrated!IndexText
  <2>2. e = Migrated!Indexed(d, s)
    BY <2>1 DEF Migrated!Done
  <2>3. /\ e.live = d.live \cup {t}
        /\ e.tables = d.tables /\ e.accepts = d.accepts /\ e.columns = d.columns /\ e.named = d.named
        /\ e.memory = d.memory /\ e.copies = d.copies /\ e.seeded = d.seeded
    BY <1>f, <2>1, <2>2 DEF Migrated!Indexed
  <2> HIDE DEF e
  <2>4. /\ t \notin Covered(n) /\ Covered(n + 1) = Covered(n) \cup {t} /\ t \in Made(n)
        /\ Made(n + 1) = Made(n) /\ Gained(n + 1) = Gained(n)
    BY <1>3, OneMore
  <2>5. \/ e.live = Covered(n + 1) \ g.gone
        \/ ~x /\ g.scope = Migrated!OldScopes /\ e.live = (Covered(n + 1) \ g.gone) \ {"memory_items"}
    BY <2>3, <2>4 DEF Fits
  <2> QED
    BY <2>3, <2>4, <2>5 DEF Fits
<1> QED
  BY <1>1, <1>2, <1>3 DEF Makes

\* The database refuses that only where a killed upgrade has left the column.
LEMMA ThingMayBeMade ==
  ASSUME NEW d, NEW x \in BOOLEAN, NEW n \in Nat, NEW g, Fits(d, x, n, g), NEW s, Makes(s, n + 1),
         x \/ s.op # "add"
  PROVE  ~Migrated!Refused(d, s)
<1>1. DOMAIN d.tables = Made(n)
  BY DEF Fits
<1>2. ASSUME NEW t \in TableNames, Born(t) = n + 1,
             s = [op |-> "create", of |-> t, as |-> Migrated!Declared[t]]
      PROVE  ~Migrated!Refused(d, s)
  <2>1. s.op = "create" /\ s.of = t /\ t \notin Made(n)
    BY <1>2, OneMore
  <2> QED
    BY <1>1, <2>1 DEF Migrated!Refused
<1>3. ASSUME NEW c \in Migrated!DeclaredColumns, ColumnBorn(c) = n + 1, s = Migrated!Add(c[1], c[2])
      PROVE  ~Migrated!Refused(d, s)
  <2>1. s.op = "add" /\ s.of = c[1] /\ s.column = c[2] /\ c = <<c[1], c[2]>>
    BY <1>3, OneAtATime DEF Migrated!Add
  <2>2. c \notin Gained(n) /\ c[1] \in Made(n)
    BY <1>3, OneMore
  <2>3. d.columns = Gained(n)
    BY <2>1 DEF Fits
  <2> QED
    BY <1>1, <2>1, <2>2, <2>3 DEF Migrated!Refused
<1>4. ASSUME NEW t \in Migrated!DeclaredIndexes, IndexBorn(t) = n + 1, s = Migrated!IndexText(t)
      PROVE  ~Migrated!Refused(d, s)
  <2>1. s.op = "index" /\ s.of = t
    BY <1>4 DEF Migrated!IndexText
  <2>2. t \in Made(n)
    BY <1>4, OneMore
  <2> QED
    BY <1>1, <2>1, <2>2 DEF Migrated!Refused
<1> QED
  BY <1>2, <1>3, <1>4 DEF Makes

\* Nothing refers to the last thing made: going back is never refused.
LEMMA ThingMayBeUnmade ==
  ASSUME NEW d, NEW x \in BOOLEAN, NEW n \in Nat, NEW g, Fits(d, x, n + 1, g), NEW s, Unmakes(s, n + 1)
  PROVE  ~Migrated!Refused(d, s)
<1>1. DOMAIN d.tables = Made(n + 1) /\ \A t \in Made(n + 1) : d.tables[t] = Migrated!Declared[t]
  BY DEF Fits
<1>2. ASSUME NEW t \in TableNames, Born(t) = n + 1, s = Migrated!Drop(t) PROVE ~Migrated!Refused(d, s)
  <2>1. s.op = "drop" /\ s.of = t
    BY <1>2 DEF Migrated!Drop
  <2>2. t \in Made(n + 1)
    BY <1>2, OneMore
  <2>3. ASSUME NEW u \in Made(n + 1) \ {t}, NEW r \in d.tables[u].refs PROVE r.to # t
    <3>1. u \in TableNames /\ Born(u) <= n + 1 /\ r \in Migrated!Declared[u].refs
      BY <1>1, <2>3 DEF Made
    <3>2. Born(r.to) <= Born(u) /\ Born(u) \in Nat /\ Born(u) # n + 1
      BY <1>2, <2>3, <3>1, ParentsComeFirst, OneAtATime
    <3> QED
      BY <1>2, <3>1, <3>2
  <2> QED
    BY <1>1, <2>1, <2>2, <2>3 DEF Migrated!Refused
<1>3. ASSUME NEW c \in Migrated!DeclaredColumns, ColumnBorn(c) = n + 1, s = Migrated!Remove(c[1], c[2])
      PROVE  ~Migrated!Refused(d, s)
  <2>1. s.op = "remove" /\ s.of = c[1] /\ s.column = c[2] /\ c = <<c[1], c[2]>>
    BY <1>3, OneAtATime DEF Migrated!Remove
  <2>2. c \in Gained(n + 1) /\ c[1] \in Made(n + 1)
    BY <1>3, OneMore
  <2>3. c \in d.columns
    BY <2>2 DEF Fits
  <2> QED
    BY <1>1, <2>1, <2>2, <2>3 DEF Migrated!Refused
<1>4. ASSUME NEW t \in Migrated!DeclaredIndexes, IndexBorn(t) = n + 1, s = Migrated!DropText(t)
      PROVE  ~Migrated!Refused(d, s)
  <2>1. s.op = "unindex" /\ s.of = t
    BY <1>4 DEF Migrated!DropText
  <2>2. t \in Made(n + 1)
    BY <1>4, OneMore
  <2> QED
    BY <1>1, <2>1, <2>2 DEF Migrated!Refused
<1> QED
  BY <1>2, <1>3, <1>4 DEF Unmakes

\* The last thing made is unmade.  The seed goes with its table, the twenty-third.
LEMMA ThingIsUnmade ==
  ASSUME NEW d, IsDatabase(d), NEW x \in BOOLEAN, NEW n \in Nat, NEW g, Fits(d, x, n + 1, g),
         NEW s, Unmakes(s, n + 1), g.seeded \in BOOLEAN, NEW h,
         h.scope = g.scope, h.rows = g.rows, h.kinds = g.kinds, h.name = g.name,
         h.gone = g.gone, h.copies = g.copies, n + 1 # 23 => h.seeded = g.seeded, n + 1 = 23 => h.seeded = FALSE
  PROVE  Fits(Migrated!Done(d, s), x, n, h)
<1> DEFINE e == Migrated!Done(d, s)
<1> SUFFICES Fits(e, x, n, h)
  OBVIOUS
<1>f. {"rev", "tables", "columns", "accepts", "named", "memory", "text", "live", "copies", "seeded"} = DOMAIN d
  BY DatabasesHaveFields DEF FieldsOf
<1>b. Born("workspaces") = 23 /\ n + 1 # n
  BY DEF Born
<1>1. ASSUME NEW t \in TableNames, Born(t) = n + 1, s = Migrated!Drop(t) PROVE Fits(e, x, n, h)
  <2>1. s.op = "drop" /\ s.of = t
    BY <1>1 DEF Migrated!Drop
  <2>2. e = Migrated!Dropped(d, s)
    BY <2>1 DEF Migrated!Done
  <2>3. /\ e.tables = [u \in DOMAIN d.tables \ {t} |-> d.tables[u]]
        /\ e.columns = {c \in d.columns : c[1] # t}
        /\ e.named = [u \in DOMAIN d.named |-> IF u = t THEN "none" ELSE d.named[u]]
        /\ e.memory = IF t = "memory_items" THEN [i \in Notes |-> Migrated!Absent] ELSE d.memory
        /\ e.accepts = CASE t = "memory_items" -> [d.accepts EXCEPT !.scope = {}]
                         [] t = "audit_log" -> [d.accepts EXCEPT !.actor_kind = {}]
                         [] OTHER -> d.accepts
        /\ e.live = d.live \ {t} /\ e.seeded = (d.seeded /\ t # "workspaces") /\ e.copies = d.copies
    BY <1>f, <2>1, <2>2 DEF Migrated!Dropped
  <2> HIDE DEF e
  <2>4. /\ t \notin Made(n) /\ Made(n + 1) = Made(n) \cup {t}
        /\ Gained(n + 1) = Gained(n) /\ Covered(n + 1) = Covered(n)
    BY <1>1, OneMore
  <2>5. e.tables = [u \in Made(n) |-> Migrated!Declared[u]]
    BY <2>3, <2>4 DEF Fits
  <2>6. e.accepts = [scope |-> IF "memory_items" \in Made(n) THEN h.scope ELSE {},
                     actor_kind |-> IF "audit_log" \in Made(n) THEN h.kinds ELSE {}]
    <3>1. PICK scope, kinds :
            /\ d.accepts = [scope |-> scope, actor_kind |-> kinds]
            /\ scope = (IF "memory_items" \in Made(n + 1) THEN h.scope ELSE {})
            /\ kinds = (IF "audit_log" \in Made(n + 1) THEN h.kinds ELSE {})
      BY DEF Fits
    <3>4. d.accepts = [scope |-> scope, actor_kind |-> kinds]
      BY <3>1
    <3>2. CASE t = "memory_items"
      <4>1. PICK nothing : nothing = {}
        OBVIOUS
      <4>3. e.accepts = [d.accepts EXCEPT !.scope = nothing]
        BY <2>3, <3>2, <4>1
      <4>2. e.accepts = [scope |-> nothing, actor_kind |-> kinds]
        BY <3>4, <4>3, OneConstraintChanges
      <4> QED
        BY <2>4, <3>1, <3>2, <4>1, <4>2
    <3>3. CASE t = "audit_log"
      <4>1. PICK nothing : nothing = {}
        OBVIOUS
      <4>3. e.accepts = [d.accepts EXCEPT !.actor_kind = nothing]
        BY <2>3, <3>3, <4>1
      <4>2. e.accepts = [scope |-> scope, actor_kind |-> nothing]
        BY <3>4, <4>3, OneConstraintChanges
      <4> QED
        BY <2>4, <3>1, <3>3, <4>1, <4>2
    <3>5. CASE t \notin {"memory_items", "audit_log"}
      <4>1. e.accepts = d.accepts
        BY <2>3, <3>5
      <4> QED
        BY <2>4, <3>1, <3>5, <4>1
    <3> QED
      BY <3>2, <3>3, <3>5
  <2>7. /\ Gained(n) \subseteq e.columns
        /\ e.columns \subseteq {c \in Migrated!DeclaredColumns : c[1] \in Made(n)}
        /\ x => e.columns = Gained(n)
    <3>1. \A c \in Gained(n) : c[1] # t
      <4>1. \A c \in Migrated!DeclaredColumns : c[1] = t => ColumnBorn(c) \in Nat /\ n + 1 < ColumnBorn(c)
        BY <1>1, OneAtATime
      <4> QED
        BY <4>1 DEF Gained
    <3> QED
      BY <2>3, <2>4, <3>1 DEF Fits
  <2>8. \/ e.live = Covered(n) \ h.gone
        \/ ~x /\ h.scope = Migrated!OldScopes /\ e.live = (Covered(n) \ h.gone) \ {"memory_items"}
    <3>1. t \notin Covered(n)
      <4>1. \A u \in Migrated!DeclaredIndexes : u = t => IndexBorn(u) \in Nat /\ n + 1 < IndexBorn(u)
        BY <1>1, OneAtATime
      <4> QED
        BY <4>1 DEF Covered
    <3> QED
      BY <2>3, <2>4, <3>1 DEF Fits
  <2>9. /\ e.named = [u \in NamedTables |-> e.named[u]]
        /\ \A u \in NamedTables : e.named[u] = "none" \/ (e.named[u] = h.name[u] /\ u \in Made(n))
    <3>1. DOMAIN d.named = NamedTables
      BY DEF Fits
    <3>2. e.named = [u \in NamedTables |-> IF u = t THEN "none" ELSE d.named[u]]
      BY <2>3, <3>1
    <3>3. \A u \in NamedTables : e.named[u] = IF u = t THEN "none" ELSE d.named[u]
      BY <3>2
    <3>4. e.named = [u \in NamedTables |-> e.named[u]]
      BY <3>2
    <3> QED
      BY <2>4, <3>3, <3>4 DEF Fits
  <2>10. \A i \in Notes : e.memory[i].scope \in {"none"} \cup h.rows
    BY <2>3 DEF Fits, Migrated!Absent
  <2>11. e.copies = h.copies /\ e.seeded = h.seeded
    <3>1. "workspaces" \in TableNames /\ d.seeded = g.seeded /\ d.copies = g.copies
      BY DEF TableNames, Fits
    <3>2. CASE t = "workspaces"
      <4>1. n + 1 = 23 /\ e.seeded = FALSE
        BY <1>1, <1>b, <2>3, <3>2
      <4> QED
        BY <2>3, <3>1, <4>1
    <3>3. CASE t # "workspaces"
      <4>1. n + 1 # 23
        BY <1>1, <1>b, <3>1, <3>3, OneAtATime
      <4>2. e.seeded = d.seeded
        BY <2>3, <3>1, <3>3
      <4> QED
        BY <2>3, <3>1, <4>1, <4>2
    <3> QED
      BY <3>2, <3>3
  <2> QED
    BY <2>5, <2>6, <2>7, <2>8, <2>9, <2>10, <2>11 DEF Fits
<1>2. ASSUME NEW c \in Migrated!DeclaredColumns, ColumnBorn(c) = n + 1, s = Migrated!Remove(c[1], c[2])
      PROVE  Fits(e, x, n, h)
  <2>1. s.op = "remove" /\ s.of = c[1] /\ s.column = c[2] /\ c = <<c[1], c[2]>>
    BY <1>2, OneAtATime DEF Migrated!Remove
  <2>2. e = [d EXCEPT !.columns = @ \ {c}]
    BY <2>1 DEF Migrated!Done
  <2>3. /\ e.columns = d.columns \ {c}
        /\ e.tables = d.tables /\ e.accepts = d.accepts /\ e.live = d.live /\ e.named = d.named
        /\ e.memory = d.memory /\ e.copies = d.copies /\ e.seeded = d.seeded
    BY <1>f, <2>2
  <2> HIDE DEF e
  <2>4. /\ c \notin Gained(n) /\ Gained(n + 1) = Gained(n) \cup {c} /\ c[1] \in Made(n)
        /\ Made(n + 1) = Made(n) /\ Covered(n + 1) = Covered(n)
    BY <1>2, OneMore
  <2>5. n + 1 # 23
    BY <1>2, OneAtATime
  <2> QED
    BY <2>3, <2>4, <2>5 DEF Fits
<1>3. ASSUME NEW t \in Migrated!DeclaredIndexes, IndexBorn(t) = n + 1, s = Migrated!DropText(t)
      PROVE  Fits(e, x, n, h)
  <2>1. s.op = "unindex" /\ s.of = t
    BY <1>3 DEF Migrated!DropText
  <2>2. e = Migrated!Unindexed(d, s)
    BY <2>1 DEF Migrated!Done
  <2>3. /\ e.live = d.live \ {t}
        /\ e.tables = d.tables /\ e.accepts = d.accepts /\ e.columns = d.columns /\ e.named = d.named
        /\ e.memory = d.memory /\ e.copies = d.copies /\ e.seeded = d.seeded
    BY <1>f, <2>1, <2>2 DEF Migrated!Unindexed
  <2> HIDE DEF e
  <2>4. /\ t \notin Covered(n) /\ Covered(n + 1) = Covered(n) \cup {t} /\ t \in Made(n)
        /\ Made(n + 1) = Made(n) /\ Gained(n + 1) = Gained(n)
    BY <1>3, OneMore
  <2>5. n + 1 # 23
    BY <1>3, OneAtATime
  <2>6. \/ e.live = Covered(n) \ h.gone
        \/ ~x /\ h.scope = Migrated!OldScopes /\ e.live = (Covered(n) \ h.gone) \ {"memory_items"}
    BY <2>3, <2>4 DEF Fits
  <2> QED
    BY <2>3, <2>4, <2>5, <2>6 DEF Fits
<1> QED
  BY <1>1, <1>2, <1>3 DEF Unmakes

-----------------------------------------------------------------------------
(* The other statements: each changes one part of the shape *)

\* Two shapes that differ in one aspect.
AlikeBut(g, h, a) ==
  /\ a = "scope" \/ h.scope = g.scope
  /\ a = "rows" \/ h.rows = g.rows
  /\ a = "kinds" \/ h.kinds = g.kinds
  /\ a = "name" \/ h.name = g.name
  /\ a = "gone" \/ h.gone = g.gone
  /\ a = "copies" \/ h.copies = g.copies
  /\ a = "seeded" \/ h.seeded = g.seeded

LEMMA ManagerIsRenamed ==
  ASSUME NEW d, IsDatabase(d), NEW x \in BOOLEAN, NEW n \in Nat, NEW g, Fits(d, x, n, g), NEW h,
         AlikeBut(g, h, "name"), NEW t \in NamedTables, t \in Made(n), NEW new,
         t = "audit_log" => new \in g.kinds,
         h.name[t] = new, \A u \in NamedTables \ {t} : h.name[u] = g.name[u]
  PROVE  /\ ~Migrated!Refused(d, Migrated!Rename(t, g.name[t], new))
         /\ Fits(Migrated!Done(d, Migrated!Rename(t, g.name[t], new)), x, n, h)
<1> DEFINE s == Migrated!Rename(t, g.name[t], new)
           e == Migrated!Done(d, s)
<1> SUFFICES ~Migrated!Refused(d, s) /\ Fits(e, x, n, h)
  OBVIOUS
<1>f. {"rev", "tables", "columns", "accepts", "named", "memory", "text", "live", "copies", "seeded"} = DOMAIN d
  BY DatabasesHaveFields DEF FieldsOf
<1>1. s.op = "rename" /\ s.of = t /\ s.old = g.name[t] /\ s.new = new
  BY DEF Migrated!Rename
<1>h. h.scope = g.scope /\ h.rows = g.rows /\ h.kinds = g.kinds /\ h.gone = g.gone
      /\ h.copies = g.copies /\ h.seeded = g.seeded
  BY DEF AlikeBut
<1>2. DOMAIN d.tables = Made(n)
  BY DEF Fits
<1> HIDE DEF s
<1>3. ~Migrated!Refused(d, s)
  <2>1. t = "audit_log" => new \in d.accepts.actor_kind
    BY DEF Fits
  <2> QED
    BY <1>1, <1>2, <2>1 DEF Migrated!Refused
<1>4. e = Migrated!Renaming(d, s)
  BY <1>1 DEF Migrated!Done
<1>5. /\ e.named = [d.named EXCEPT ![t] = IF @ = g.name[t] THEN new ELSE @]
      /\ e.tables = d.tables /\ e.accepts = d.accepts /\ e.live = d.live /\ e.columns = d.columns
      /\ e.memory = d.memory /\ e.copies = d.copies /\ e.seeded = d.seeded
  BY <1>1, <1>4, <1>f DEF Migrated!Renaming
<1> HIDE DEF e
<1>6. /\ e.named = [u \in NamedTables |-> e.named[u]]
      /\ \A u \in NamedTables : e.named[u] = "none" \/ (e.named[u] = h.name[u] /\ u \in Made(n))
  <2>1. DOMAIN d.named = NamedTables
    BY DEF Fits
  <2>2. e.named = [u \in NamedTables |-> IF u = t THEN (IF d.named[t] = g.name[t] THEN new ELSE d.named[t])
                                         ELSE d.named[u]]
    BY <1>5, <2>1
  <2>3. /\ e.named[t] = IF d.named[t] = g.name[t] THEN new ELSE d.named[t]
        /\ \A u \in NamedTables \ {t} : e.named[u] = d.named[u]
    BY <2>2
  <2>4. e.named = [u \in NamedTables |-> e.named[u]]
    BY <2>2
  <2> QED
    BY <2>3, <2>4 DEF Fits
<1>7. Fits(e, x, n, h)
  BY <1>5, <1>6, <1>h DEF Fits
<1> QED
  BY <1>3, <1>7

LEMMA TableIsCopied ==
  ASSUME NEW d, IsDatabase(d), NEW x \in BOOLEAN, NEW n \in Nat, NEW g, Fits(d, x, n, g), NEW h,
         AlikeBut(g, h, "copies"), NEW t \in Made(n), t \notin g.copies, h.copies = g.copies \cup {t}
  PROVE  /\ ~Migrated!Refused(d, Migrated!Copy(t))
         /\ Fits(Migrated!Done(d, Migrated!Copy(t)), x, n, h)
<1> DEFINE s == Migrated!Copy(t)
           e == Migrated!Done(d, s)
<1> SUFFICES ~Migrated!Refused(d, s) /\ Fits(e, x, n, h)
  OBVIOUS
<1>f. {"rev", "tables", "columns", "accepts", "named", "memory", "text", "live", "copies", "seeded"} = DOMAIN d
  BY DatabasesHaveFields DEF FieldsOf
<1>1. s.op = "copy" /\ s.of = t
  BY DEF Migrated!Copy
<1>h. h.scope = g.scope /\ h.rows = g.rows /\ h.kinds = g.kinds /\ h.gone = g.gone
      /\ h.name = g.name /\ h.seeded = g.seeded
  BY DEF AlikeBut
<1>2. DOMAIN d.tables = Made(n) /\ d.copies = g.copies
  BY DEF Fits
<1> HIDE DEF s
<1>3. ~Migrated!Refused(d, s)
  BY <1>1, <1>2 DEF Migrated!Refused
<1>4. e = [d EXCEPT !.copies = @ \cup {s.of}]
  BY <1>1 DEF Migrated!Done
<1>5. /\ e.copies = d.copies \cup {t}
      /\ e.tables = d.tables /\ e.accepts = d.accepts /\ e.live = d.live /\ e.columns = d.columns
      /\ e.memory = d.memory /\ e.named = d.named /\ e.seeded = d.seeded
  BY <1>1, <1>4, <1>f
<1> HIDE DEF e
<1>6. Fits(e, x, n, h)
  BY <1>5, <1>h DEF Fits
<1> QED
  BY <1>3, <1>6

\* The scopes: on SQLite the index is down while the table is rebuilt.
LEMMA ScopesAreChecked ==
  ASSUME NEW d, IsDatabase(d), NEW x \in BOOLEAN, NEW n \in Nat, NEW g, Fits(d, x, n, g), NEW h, NEW v,
         "memory_items" \in Made(n), g.rows \subseteq v, g.rows \subseteq h.rows,
         "memory_items" \in g.gone \/ (backend = "postgresql" /\ x),
         h.scope = v, h.copies = g.copies \ {"memory_items"}, h.kinds = g.kinds,
         h.name = g.name, h.gone = g.gone, h.seeded = g.seeded
  PROVE  /\ ~Migrated!Refused(d, Migrated!Check("memory_items", "scope", v))
         /\ Fits(Migrated!Done(d, Migrated!Check("memory_items", "scope", v)), x, n, h)
<1> DEFINE s == Migrated!Check("memory_items", "scope", v)
           e == Migrated!Done(d, s)
<1> SUFFICES ~Migrated!Refused(d, s) /\ Fits(e, x, n, h)
  OBVIOUS
<1>f. {"rev", "tables", "columns", "accepts", "named", "memory", "text", "live", "copies", "seeded"} = DOMAIN d
  BY DatabasesHaveFields DEF FieldsOf
<1>1. s.op = "check" /\ s.of = "memory_items" /\ s.check = "scope" /\ s.accepts = v
  BY DEF Migrated!Check
<1>2. DOMAIN d.tables = Made(n) /\ d.copies = g.copies
  BY DEF Fits
<1> HIDE DEF s
<1>3. ~Migrated!Refused(d, s)
  <2>1. Migrated!Carried(d, "scope") \subseteq v
    BY DEF Migrated!Carried, Fits
  <2> QED
    BY <1>1, <1>2, <2>1 DEF Migrated!Refused
<1>4. e = Migrated!Checked(d, s)
  BY <1>1 DEF Migrated!Done
<1>5. /\ e.accepts = [d.accepts EXCEPT !.scope = v]
      /\ e.copies = d.copies \ {"memory_items"}
      /\ e.live = IF backend = "sqlite" THEN d.live \ {"memory_items"} ELSE d.live
      /\ e.tables = d.tables /\ e.columns = d.columns
      /\ e.memory = d.memory /\ e.named = d.named /\ e.seeded = d.seeded
  <2>1. DOMAIN d.accepts = {"scope", "actor_kind"}
    BY DEF Fits
  <2> QED
    BY <1>1, <1>4, <1>f, <2>1 DEF Migrated!Checked
<1> HIDE DEF e
<1>6. e.accepts = [scope |-> v, actor_kind |-> IF "audit_log" \in Made(n) THEN h.kinds ELSE {}]
  <2>1. PICK scope, kinds : d.accepts = [scope |-> scope, actor_kind |-> kinds]
                            /\ kinds = IF "audit_log" \in Made(n) THEN h.kinds ELSE {}
    BY DEF Fits
  <2>2. d.accepts = [scope |-> scope, actor_kind |-> kinds]
    BY <2>1
  <2>3. e.accepts = [d.accepts EXCEPT !.scope = v]
    BY <1>5
  <2>4. e.accepts = [scope |-> v, actor_kind |-> kinds]
    BY <2>2, <2>3, OneConstraintChanges
  <2> QED
    BY <2>1, <2>4
<1>7. e.live = Covered(n) \ h.gone
  BY <1>5 DEF Fits
<1>8. Fits(e, x, n, h)
  BY <1>5, <1>6, <1>7 DEF Fits
<1> QED
  BY <1>3, <1>8

\* The kinds of actors: the log of the actions has no text index.
LEMMA KindsAreChecked ==
  ASSUME NEW d, IsDatabase(d), NEW x \in BOOLEAN, NEW n \in Nat, NEW g, Fits(d, x, n, g), NEW h, NEW v,
         "audit_log" \in Made(n), g.name["audit_log"] \in v,
         h.kinds = v, h.copies = g.copies \ {"audit_log"}, h.rows = g.rows, h.scope = g.scope,
         h.name = g.name, h.gone = g.gone, h.seeded = g.seeded
  PROVE  /\ ~Migrated!Refused(d, Migrated!Check("audit_log", "actor_kind", v))
         /\ Fits(Migrated!Done(d, Migrated!Check("audit_log", "actor_kind", v)), x, n, h)
<1> DEFINE s == Migrated!Check("audit_log", "actor_kind", v)
           e == Migrated!Done(d, s)
<1> SUFFICES ~Migrated!Refused(d, s) /\ Fits(e, x, n, h)
  OBVIOUS
<1>f. {"rev", "tables", "columns", "accepts", "named", "memory", "text", "live", "copies", "seeded"} = DOMAIN d
  BY DatabasesHaveFields DEF FieldsOf
<1>1. s.op = "check" /\ s.of = "audit_log" /\ s.check = "actor_kind" /\ s.accepts = v
  BY DEF Migrated!Check
<1>2. DOMAIN d.tables = Made(n) /\ d.copies = g.copies
  BY DEF Fits
<1> HIDE DEF s
<1>3. ~Migrated!Refused(d, s)
  <2>1. Migrated!Carried(d, "actor_kind") \subseteq v
    BY DEF Migrated!Carried, Fits, NamedTables
  <2> QED
    BY <1>1, <1>2, <2>1 DEF Migrated!Refused
<1>4. e = Migrated!Checked(d, s)
  BY <1>1 DEF Migrated!Done
<1>5. /\ e.accepts = [d.accepts EXCEPT !.actor_kind = v]
      /\ e.copies = d.copies \ {"audit_log"}
      /\ e.live = IF backend = "sqlite" THEN d.live \ {"audit_log"} ELSE d.live
      /\ e.tables = d.tables /\ e.columns = d.columns
      /\ e.memory = d.memory /\ e.named = d.named /\ e.seeded = d.seeded
  <2>1. DOMAIN d.accepts = {"scope", "actor_kind"}
    BY DEF Fits
  <2> QED
    BY <1>1, <1>4, <1>f, <2>1 DEF Migrated!Checked
<1> HIDE DEF e
<1>6. e.accepts = [scope |-> IF "memory_items" \in Made(n) THEN h.scope ELSE {}, actor_kind |-> v]
  <2>1. PICK scope, kinds : d.accepts = [scope |-> scope, actor_kind |-> kinds]
                            /\ scope = IF "memory_items" \in Made(n) THEN h.scope ELSE {}
    BY DEF Fits
  <2>2. d.accepts = [scope |-> scope, actor_kind |-> kinds]
    BY <2>1
  <2>3. e.accepts = [d.accepts EXCEPT !.actor_kind = v]
    BY <1>5
  <2>4. e.accepts = [scope |-> scope, actor_kind |-> v]
    BY <2>2, <2>3, OneConstraintChanges
  <2> QED
    BY <2>1, <2>4
<1>7. e.live = d.live
  <2>1. "audit_log" \notin Covered(n)
    BY DEF Covered, Migrated!DeclaredIndexes
  <2>2. "audit_log" \notin d.live
    BY <2>1 DEF Fits
  <2> QED
    BY <1>5, <2>2
<1>8. Fits(e, x, n, h)
  BY <1>5, <1>6, <1>7 DEF Fits
<1> QED
  BY <1>3, <1>8

\* An index that is down is built again.
LEMMA IndexIsBack ==
  ASSUME NEW d, IsDatabase(d), NEW x \in BOOLEAN, NEW n \in Nat, NEW g, Fits(d, x, n, g), NEW h,
         AlikeBut(g, h, "gone"), NEW t \in Covered(n), t \in Made(n), h.gone = g.gone \ {t}
  PROVE  /\ ~Migrated!Refused(d, Migrated!IndexText(t))
         /\ Fits(Migrated!Done(d, Migrated!IndexText(t)), x, n, h)
<1> DEFINE s == Migrated!IndexText(t)
           e == Migrated!Done(d, s)
<1> SUFFICES ~Migrated!Refused(d, s) /\ Fits(e, x, n, h)
  OBVIOUS
<1>f. {"rev", "tables", "columns", "accepts", "named", "memory", "text", "live", "copies", "seeded"} = DOMAIN d
  BY DatabasesHaveFields DEF FieldsOf
<1>1. s.op = "index" /\ s.of = t
  BY DEF Migrated!IndexText
<1>h. h.scope = g.scope /\ h.rows = g.rows /\ h.kinds = g.kinds /\ h.copies = g.copies
      /\ h.name = g.name /\ h.seeded = g.seeded
  BY DEF AlikeBut
<1>2. DOMAIN d.tables = Made(n)
  BY DEF Fits
<1> HIDE DEF s
<1>3. ~Migrated!Refused(d, s)
  BY <1>1, <1>2 DEF Migrated!Refused
<1>4. e = Migrated!Indexed(d, s)
  BY <1>1 DEF Migrated!Done
<1>5. /\ e.live = d.live \cup {t}
      /\ e.tables = d.tables /\ e.accepts = d.accepts /\ e.copies = d.copies /\ e.columns = d.columns
      /\ e.memory = d.memory /\ e.named = d.named /\ e.seeded = d.seeded
  BY <1>1, <1>4, <1>f DEF Migrated!Indexed
<1> HIDE DEF e
<1>6. \/ e.live = Covered(n) \ h.gone
      \/ ~x /\ h.scope = Migrated!OldScopes /\ e.live = (Covered(n) \ h.gone) \ {"memory_items"}
  BY <1>5, <1>h DEF Fits
<1>7. Fits(e, x, n, h)
  BY <1>5, <1>6, <1>h DEF Fits
<1> QED
  BY <1>3, <1>7

LEMMA IndexGoesDown ==
  ASSUME NEW d, IsDatabase(d), NEW x \in BOOLEAN, NEW n \in Nat, NEW g, Fits(d, x, n, g), NEW h,
         AlikeBut(g, h, "gone"), NEW t \in Made(n), h.gone = g.gone \cup {t}
  PROVE  /\ ~Migrated!Refused(d, Migrated!DropText(t))
         /\ Fits(Migrated!Done(d, Migrated!DropText(t)), x, n, h)
<1> DEFINE s == Migrated!DropText(t)
           e == Migrated!Done(d, s)
<1> SUFFICES ~Migrated!Refused(d, s) /\ Fits(e, x, n, h)
  OBVIOUS
<1>f. {"rev", "tables", "columns", "accepts", "named", "memory", "text", "live", "copies", "seeded"} = DOMAIN d
  BY DatabasesHaveFields DEF FieldsOf
<1>1. s.op = "unindex" /\ s.of = t
  BY DEF Migrated!DropText
<1>h. h.scope = g.scope /\ h.rows = g.rows /\ h.kinds = g.kinds /\ h.copies = g.copies
      /\ h.name = g.name /\ h.seeded = g.seeded
  BY DEF AlikeBut
<1>2. DOMAIN d.tables = Made(n)
  BY DEF Fits
<1> HIDE DEF s
<1>3. ~Migrated!Refused(d, s)
  BY <1>1, <1>2 DEF Migrated!Refused
<1>4. e = Migrated!Unindexed(d, s)
  BY <1>1 DEF Migrated!Done
<1>5. /\ e.live = d.live \ {t}
      /\ e.tables = d.tables /\ e.accepts = d.accepts /\ e.copies = d.copies /\ e.columns = d.columns
      /\ e.memory = d.memory /\ e.named = d.named /\ e.seeded = d.seeded
  BY <1>1, <1>4, <1>f DEF Migrated!Unindexed
<1> HIDE DEF e
<1>6. \/ e.live = Covered(n) \ h.gone
      \/ ~x /\ h.scope = Migrated!OldScopes /\ e.live = (Covered(n) \ h.gone) \ {"memory_items"}
  BY <1>5, <1>h DEF Fits
<1>7. Fits(e, x, n, h)
  BY <1>5, <1>6, <1>h DEF Fits
<1> QED
  BY <1>3, <1>7

\* Filling the index touches nothing else.
LEMMA IndexIsFilledAlone ==
  ASSUME NEW d, IsDatabase(d), NEW x \in BOOLEAN, NEW n \in Nat, NEW g, Fits(d, x, n, g),
         "memory_items" \in Made(n)
  PROVE  ~Migrated!Refused(d, Migrated!Fill) /\ Fits(Migrated!Done(d, Migrated!Fill), x, n, g)
<1> DEFINE s == Migrated!Fill
           e == Migrated!Done(d, s)
<1> SUFFICES ~Migrated!Refused(d, s) /\ Fits(e, x, n, g)
  OBVIOUS
<1>f. {"rev", "tables", "columns", "accepts", "named", "memory", "text", "live", "copies", "seeded"} = DOMAIN d
  BY DatabasesHaveFields DEF FieldsOf
<1>1. s.op = "fill" /\ s.of = "memory_items"
  BY DEF Migrated!Fill
<1>2. DOMAIN d.tables = Made(n)
  BY DEF Fits
<1> HIDE DEF s
<1>3. ~Migrated!Refused(d, s)
  BY <1>1, <1>2 DEF Migrated!Refused
<1>4. e = [d EXCEPT !.text = Migrated!Texts(d.memory)]
  BY <1>1 DEF Migrated!Done
<1>5. /\ e.tables = d.tables /\ e.accepts = d.accepts /\ e.copies = d.copies /\ e.columns = d.columns
      /\ e.memory = d.memory /\ e.named = d.named /\ e.seeded = d.seeded /\ e.live = d.live
  BY <1>4, <1>f
<1> HIDE DEF e
<1>6. Fits(e, x, n, g)
  BY <1>5 DEF Fits
<1> QED
  BY <1>3, <1>6

\* The memories of the wider scopes are forgotten.
LEMMA OnlyTheOldStay ==
  ASSUME NEW d, IsDatabase(d), NEW x \in BOOLEAN, NEW n \in Nat, NEW g, Fits(d, x, n, g), NEW h,
         AlikeBut(g, h, "rows"), "memory_items" \in Made(n), g.rows \ {"USER", "SYSTEM"} \subseteq h.rows
  PROVE  ~Migrated!Refused(d, Migrated!Forget) /\ Fits(Migrated!Done(d, Migrated!Forget), x, n, h)
<1> DEFINE s == Migrated!Forget
           e == Migrated!Done(d, s)
<1> SUFFICES ~Migrated!Refused(d, s) /\ Fits(e, x, n, h)
  OBVIOUS
<1>f. {"rev", "tables", "columns", "accepts", "named", "memory", "text", "live", "copies", "seeded"} = DOMAIN d
  BY DatabasesHaveFields DEF FieldsOf
<1>1. s.op = "forget" /\ s.of = "memory_items"
  BY DEF Migrated!Forget
<1>h. h.scope = g.scope /\ h.gone = g.gone /\ h.kinds = g.kinds /\ h.copies = g.copies
      /\ h.name = g.name /\ h.seeded = g.seeded
  BY DEF AlikeBut
<1>2. DOMAIN d.tables = Made(n)
  BY DEF Fits
<1> HIDE DEF s
<1>3. ~Migrated!Refused(d, s)
  BY <1>1, <1>2 DEF Migrated!Refused
<1>4. e = Migrated!Forgotten(d)
  BY <1>1 DEF Migrated!Done
<1>5. /\ e.memory = [i \in Notes |-> IF d.memory[i].scope \in {"USER", "SYSTEM"} THEN Migrated!Absent
                                     ELSE d.memory[i]]
      /\ e.tables = d.tables /\ e.accepts = d.accepts /\ e.copies = d.copies /\ e.columns = d.columns
      /\ e.live = d.live /\ e.named = d.named /\ e.seeded = d.seeded
  BY <1>4, <1>f DEF Migrated!Forgotten
<1> HIDE DEF e
<1>6. \A i \in Notes : e.memory[i].scope \in {"none"} \cup h.rows
  <2> TAKE i \in Notes
  <2>1. e.memory[i] = IF d.memory[i].scope \in {"USER", "SYSTEM"} THEN Migrated!Absent ELSE d.memory[i]
    BY <1>5
  <2>2. d.memory[i].scope \in {"none"} \cup g.rows
    BY DEF Fits
  <2>3. Migrated!Absent.scope = "none"
    BY DEF Migrated!Absent
  <2> QED
    BY <2>1, <2>2, <2>3
<1>7. Fits(e, x, n, h)
  BY <1>5, <1>6, <1>h DEF Fits
<1> QED
  BY <1>3, <1>7

LEMMA StoreIsSeeded ==
  ASSUME NEW d, IsDatabase(d), NEW x \in BOOLEAN, NEW n \in Nat, NEW g, Fits(d, x, n, g), NEW h,
         AlikeBut(g, h, "seeded"), "workspaces" \in Made(n), h.seeded = TRUE
  PROVE  ~Migrated!Refused(d, Migrated!Seed) /\ Fits(Migrated!Done(d, Migrated!Seed), x, n, h)
<1> DEFINE s == Migrated!Seed
           e == Migrated!Done(d, s)
<1> SUFFICES ~Migrated!Refused(d, s) /\ Fits(e, x, n, h)
  OBVIOUS
<1>f. {"rev", "tables", "columns", "accepts", "named", "memory", "text", "live", "copies", "seeded"} = DOMAIN d
  BY DatabasesHaveFields DEF FieldsOf
<1>1. s.op = "seed" /\ s.of = "workspaces"
  BY DEF Migrated!Seed
<1>h. h.scope = g.scope /\ h.gone = g.gone /\ h.kinds = g.kinds /\ h.copies = g.copies
      /\ h.name = g.name /\ h.rows = g.rows
  BY DEF AlikeBut
<1>2. DOMAIN d.tables = Made(n)
  BY DEF Fits
<1> HIDE DEF s
<1>3. ~Migrated!Refused(d, s)
  BY <1>1, <1>2 DEF Migrated!Refused
<1>4. e = [d EXCEPT !.seeded = TRUE]
  BY <1>1 DEF Migrated!Done
<1>5. /\ e.seeded = TRUE
      /\ e.tables = d.tables /\ e.accepts = d.accepts /\ e.copies = d.copies /\ e.columns = d.columns
      /\ e.live = d.live /\ e.named = d.named /\ e.memory = d.memory
  BY <1>4, <1>f
<1> HIDE DEF e
<1>6. Fits(e, x, n, h)
  BY <1>5, <1>h DEF Fits
<1> QED
  BY <1>3, <1>6

-----------------------------------------------------------------------------
(* The statements of the history, by number *)

LEMMA TablesAreMade ==
  ASSUME NEW t \in TableNames, NEW key, NEW refs, NEW checks,
         Migrated!Declared[t] = Migrated!Table(key, refs, checks)
  PROVE  Makes(Migrated!Create(t, key, refs, checks), Born(t)) /\ Unmakes(Migrated!Drop(t), Born(t))
<1>1. Migrated!Create(t, key, refs, checks) = [op |-> "create", of |-> t, as |-> Migrated!Declared[t]]
  BY DEF Migrated!Create
<1> QED
  BY <1>1 DEF Makes, Unmakes

LEMMA NumbersOfTables ==
  /\ Makes(Migrated!Create("employees", "id", {}, {}), 1)
  /\ Makes(Migrated!Create("tasks", "id", {Migrated!Cascades("tasks"), Migrated!Refuses("employees")}, {"status"}), 2)
  /\ Makes(Migrated!Create("task_events", "number", {Migrated!Cascades("tasks")}, {}), 3)
  /\ Makes(Migrated!Create("llm_calls", "number", {}, {}), 4)
  /\ Makes(Migrated!Create("task_assignments", "id", {Migrated!Cascades("tasks"), Migrated!Refuses("employees")}, {}), 5)
  /\ Makes(Migrated!Create("tool_calls", "number", {}, {}), 6)
  /\ Makes(Migrated!Create("approvals", "id", {Migrated!Cascades("tasks"), Migrated!Refuses("employees")}, {"state"}), 7)
  /\ Makes(Migrated!Create("objectives", "id", {}, {"status"}), 9)
  /\ Makes(Migrated!Create("plans", "id", {Migrated!Cascades("objectives")}, {"status"}), 10)
  /\ Makes(Migrated!Create("plan_task_dependencies", "composite", {Migrated!Cascades("plans")}, {}), 11)
  /\ Makes(Migrated!Create("memory_items", "id", {}, {"scope", "kind"}), 12)
  /\ Makes(Migrated!Create("audit_log", "number", {}, {"actor_kind", "result"}), 15)
  /\ Makes(Migrated!Create("workflow_runs", "id", {}, {"trigger", "status"}), 16)
  /\ Makes(Migrated!Create("validation_runs", "id", {}, {"status"}), 17)
  /\ Makes(Migrated!Create("schedules", "id", {}, {}), 18)
  /\ Makes(Migrated!Create("events", "id", {}, {}), 19)
  /\ Makes(Migrated!Create("conversations", "id", {}, {}), 20)
  /\ Makes(Migrated!Create("integrations", "id", {}, {"kind", "status"}), 22)
  /\ Makes(Migrated!Create("workspaces", "id", {}, {}), 23)
  /\ Makes(Migrated!Create("documents", "id", {}, {"status"}), 24)
  /\ Makes(Migrated!Create("chunks", "id", {Migrated!Cascades("documents")}, {}), 25)
  /\ Makes(Migrated!Create("secrets", "id", {}, {}), 28)
  /\ Makes(Migrated!Create("connections", "id", {}, {}), 29)
  /\ Makes(Migrated!Create("model_entries", "id", {}, {}), 30)
  /\ Makes(Migrated!Create("task_defaults", "id", {}, {}), 31)
  /\ Unmakes(Migrated!Drop("employees"), 1) /\ Unmakes(Migrated!Drop("tasks"), 2)
     /\ Unmakes(Migrated!Drop("task_events"), 3) /\ Unmakes(Migrated!Drop("llm_calls"), 4)
     /\ Unmakes(Migrated!Drop("task_assignments"), 5)
  /\ Unmakes(Migrated!Drop("tool_calls"), 6) /\ Unmakes(Migrated!Drop("approvals"), 7)
     /\ Unmakes(Migrated!Drop("objectives"), 9) /\ Unmakes(Migrated!Drop("plans"), 10)
     /\ Unmakes(Migrated!Drop("plan_task_dependencies"), 11)
  /\ Unmakes(Migrated!Drop("memory_items"), 12) /\ Unmakes(Migrated!Drop("audit_log"), 15)
     /\ Unmakes(Migrated!Drop("workflow_runs"), 16) /\ Unmakes(Migrated!Drop("validation_runs"), 17)
     /\ Unmakes(Migrated!Drop("schedules"), 18)
  /\ Unmakes(Migrated!Drop("events"), 19) /\ Unmakes(Migrated!Drop("conversations"), 20)
     /\ Unmakes(Migrated!Drop("integrations"), 22) /\ Unmakes(Migrated!Drop("workspaces"), 23)
     /\ Unmakes(Migrated!Drop("documents"), 24)
  /\ Unmakes(Migrated!Drop("chunks"), 25) /\ Unmakes(Migrated!Drop("secrets"), 28)
     /\ Unmakes(Migrated!Drop("connections"), 29) /\ Unmakes(Migrated!Drop("model_entries"), 30)
     /\ Unmakes(Migrated!Drop("task_defaults"), 31)
<1>1. /\ Makes(Migrated!Create("employees", "id", {}, {}), 1)
      /\ Unmakes(Migrated!Drop("employees"), 1)
  <2>1. "employees" \in TableNames /\ Born("employees") = 1
    BY DEF TableNames, Born
  <2> QED
    BY <2>1, TableIs, TablesAreMade
<1>2. /\ Makes(Migrated!Create("tasks", "id", {Migrated!Cascades("tasks"), Migrated!Refuses("employees")}, {"status"}), 2)
      /\ Unmakes(Migrated!Drop("tasks"), 2)
  <2>1. "tasks" \in TableNames /\ Born("tasks") = 2
    BY DEF TableNames, Born
  <2> QED
    BY <2>1, TableIs, TablesAreMade
<1>3. /\ Makes(Migrated!Create("task_events", "number", {Migrated!Cascades("tasks")}, {}), 3)
      /\ Unmakes(Migrated!Drop("task_events"), 3)
  <2>1. "task_events" \in TableNames /\ Born("task_events") = 3
    BY DEF TableNames, Born
  <2> QED
    BY <2>1, TableIs, TablesAreMade
<1>4. /\ Makes(Migrated!Create("llm_calls", "number", {}, {}), 4)
      /\ Unmakes(Migrated!Drop("llm_calls"), 4)
  <2>1. "llm_calls" \in TableNames /\ Born("llm_calls") = 4
    BY DEF TableNames, Born
  <2> QED
    BY <2>1, TableIs, TablesAreMade
<1>5. /\ Makes(Migrated!Create("task_assignments", "id", {Migrated!Cascades("tasks"), Migrated!Refuses("employees")}, {}), 5)
      /\ Unmakes(Migrated!Drop("task_assignments"), 5)
  <2>1. "task_assignments" \in TableNames /\ Born("task_assignments") = 5
    BY DEF TableNames, Born
  <2> QED
    BY <2>1, TableIs, TablesAreMade
<1>6. /\ Makes(Migrated!Create("tool_calls", "number", {}, {}), 6)
      /\ Unmakes(Migrated!Drop("tool_calls"), 6)
  <2>1. "tool_calls" \in TableNames /\ Born("tool_calls") = 6
    BY DEF TableNames, Born
  <2> QED
    BY <2>1, TableIs, TablesAreMade
<1>7. /\ Makes(Migrated!Create("approvals", "id", {Migrated!Cascades("tasks"), Migrated!Refuses("employees")}, {"state"}), 7)
      /\ Unmakes(Migrated!Drop("approvals"), 7)
  <2>1. "approvals" \in TableNames /\ Born("approvals") = 7
    BY DEF TableNames, Born
  <2> QED
    BY <2>1, TableIs, TablesAreMade
<1>8. /\ Makes(Migrated!Create("objectives", "id", {}, {"status"}), 9)
      /\ Unmakes(Migrated!Drop("objectives"), 9)
  <2>1. "objectives" \in TableNames /\ Born("objectives") = 9
    BY DEF TableNames, Born
  <2> QED
    BY <2>1, TableIs, TablesAreMade
<1>9. /\ Makes(Migrated!Create("plans", "id", {Migrated!Cascades("objectives")}, {"status"}), 10)
      /\ Unmakes(Migrated!Drop("plans"), 10)
  <2>1. "plans" \in TableNames /\ Born("plans") = 10
    BY DEF TableNames, Born
  <2> QED
    BY <2>1, TableIs, TablesAreMade
<1>10. /\ Makes(Migrated!Create("plan_task_dependencies", "composite", {Migrated!Cascades("plans")}, {}), 11)
      /\ Unmakes(Migrated!Drop("plan_task_dependencies"), 11)
  <2>1. "plan_task_dependencies" \in TableNames /\ Born("plan_task_dependencies") = 11
    BY DEF TableNames, Born
  <2> QED
    BY <2>1, TableIs, TablesAreMade
<1>11. /\ Makes(Migrated!Create("memory_items", "id", {}, {"scope", "kind"}), 12)
      /\ Unmakes(Migrated!Drop("memory_items"), 12)
  <2>1. "memory_items" \in TableNames /\ Born("memory_items") = 12
    BY DEF TableNames, Born
  <2> QED
    BY <2>1, TableIs, TablesAreMade
<1>12. /\ Makes(Migrated!Create("audit_log", "number", {}, {"actor_kind", "result"}), 15)
      /\ Unmakes(Migrated!Drop("audit_log"), 15)
  <2>1. "audit_log" \in TableNames /\ Born("audit_log") = 15
    BY DEF TableNames, Born
  <2> QED
    BY <2>1, TableIs, TablesAreMade
<1>13. /\ Makes(Migrated!Create("workflow_runs", "id", {}, {"trigger", "status"}), 16)
      /\ Unmakes(Migrated!Drop("workflow_runs"), 16)
  <2>1. "workflow_runs" \in TableNames /\ Born("workflow_runs") = 16
    BY DEF TableNames, Born
  <2> QED
    BY <2>1, TableIs, TablesAreMade
<1>14. /\ Makes(Migrated!Create("validation_runs", "id", {}, {"status"}), 17)
      /\ Unmakes(Migrated!Drop("validation_runs"), 17)
  <2>1. "validation_runs" \in TableNames /\ Born("validation_runs") = 17
    BY DEF TableNames, Born
  <2> QED
    BY <2>1, TableIs, TablesAreMade
<1>15. /\ Makes(Migrated!Create("schedules", "id", {}, {}), 18)
      /\ Unmakes(Migrated!Drop("schedules"), 18)
  <2>1. "schedules" \in TableNames /\ Born("schedules") = 18
    BY DEF TableNames, Born
  <2> QED
    BY <2>1, TableIs, TablesAreMade
<1>16. /\ Makes(Migrated!Create("events", "id", {}, {}), 19)
      /\ Unmakes(Migrated!Drop("events"), 19)
  <2>1. "events" \in TableNames /\ Born("events") = 19
    BY DEF TableNames, Born
  <2> QED
    BY <2>1, TableIs, TablesAreMade
<1>17. /\ Makes(Migrated!Create("conversations", "id", {}, {}), 20)
      /\ Unmakes(Migrated!Drop("conversations"), 20)
  <2>1. "conversations" \in TableNames /\ Born("conversations") = 20
    BY DEF TableNames, Born
  <2> QED
    BY <2>1, TableIs, TablesAreMade
<1>18. /\ Makes(Migrated!Create("integrations", "id", {}, {"kind", "status"}), 22)
      /\ Unmakes(Migrated!Drop("integrations"), 22)
  <2>1. "integrations" \in TableNames /\ Born("integrations") = 22
    BY DEF TableNames, Born
  <2> QED
    BY <2>1, TableIs, TablesAreMade
<1>19. /\ Makes(Migrated!Create("workspaces", "id", {}, {}), 23)
      /\ Unmakes(Migrated!Drop("workspaces"), 23)
  <2>1. "workspaces" \in TableNames /\ Born("workspaces") = 23
    BY DEF TableNames, Born
  <2> QED
    BY <2>1, TableIs, TablesAreMade
<1>20. /\ Makes(Migrated!Create("documents", "id", {}, {"status"}), 24)
      /\ Unmakes(Migrated!Drop("documents"), 24)
  <2>1. "documents" \in TableNames /\ Born("documents") = 24
    BY DEF TableNames, Born
  <2> QED
    BY <2>1, TableIs, TablesAreMade
<1>21. /\ Makes(Migrated!Create("chunks", "id", {Migrated!Cascades("documents")}, {}), 25)
      /\ Unmakes(Migrated!Drop("chunks"), 25)
  <2>1. "chunks" \in TableNames /\ Born("chunks") = 25
    BY DEF TableNames, Born
  <2> QED
    BY <2>1, TableIs, TablesAreMade
<1>22. /\ Makes(Migrated!Create("secrets", "id", {}, {}), 28)
      /\ Unmakes(Migrated!Drop("secrets"), 28)
  <2>1. "secrets" \in TableNames /\ Born("secrets") = 28
    BY DEF TableNames, Born
  <2> QED
    BY <2>1, TableIs, TablesAreMade
<1>23. /\ Makes(Migrated!Create("connections", "id", {}, {}), 29)
      /\ Unmakes(Migrated!Drop("connections"), 29)
  <2>1. "connections" \in TableNames /\ Born("connections") = 29
    BY DEF TableNames, Born
  <2> QED
    BY <2>1, TableIs, TablesAreMade
<1>24. /\ Makes(Migrated!Create("model_entries", "id", {}, {}), 30)
      /\ Unmakes(Migrated!Drop("model_entries"), 30)
  <2>1. "model_entries" \in TableNames /\ Born("model_entries") = 30
    BY DEF TableNames, Born
  <2> QED
    BY <2>1, TableIs, TablesAreMade
<1>25. /\ Makes(Migrated!Create("task_defaults", "id", {}, {}), 31)
      /\ Unmakes(Migrated!Drop("task_defaults"), 31)
  <2>1. "task_defaults" \in TableNames /\ Born("task_defaults") = 31
    BY DEF TableNames, Born
  <2> QED
    BY <2>1, TableIs, TablesAreMade
<1> QED
  BY <1>1, <1>2, <1>3, <1>4, <1>5, <1>6, <1>7, <1>8, <1>9, <1>10, <1>11, <1>12, <1>13, <1>14, <1>15, <1>16,
     <1>17, <1>18, <1>19, <1>20, <1>21, <1>22, <1>23, <1>24, <1>25

LEMMA NumbersOfTheRest ==
  /\ Makes(Migrated!Add("tool_calls", "interface"), 8) /\ Unmakes(Migrated!Remove("tool_calls", "interface"), 8)
  /\ Makes(Migrated!Add("approvals", "expires_at"), 14) /\ Unmakes(Migrated!Remove("approvals", "expires_at"), 14)
  /\ Makes(Migrated!Add("objectives", "conversation_id"), 21)
  /\ Unmakes(Migrated!Remove("objectives", "conversation_id"), 21)
  /\ Makes(Migrated!Add("approvals", "tool"), 27) /\ Unmakes(Migrated!Remove("approvals", "tool"), 27)
  /\ Makes(Migrated!IndexText("memory_items"), 13) /\ Unmakes(Migrated!DropText("memory_items"), 13)
  /\ Makes(Migrated!IndexText("chunks"), 26) /\ Unmakes(Migrated!DropText("chunks"), 26)
<1>1. ASSUME NEW t, NEW c, <<t, c>> \in Migrated!DeclaredColumns
      PROVE  Makes(Migrated!Add(t, c), ColumnBorn(<<t, c>>)) /\ Unmakes(Migrated!Remove(t, c), ColumnBorn(<<t, c>>))
  <2>1. <<t, c>>[1] = t /\ <<t, c>>[2] = c
    OBVIOUS
  <2> QED
    BY <1>1, <2>1 DEF Makes, Unmakes
<1>2. /\ ColumnBorn(<<"tool_calls", "interface">>) = 8 /\ ColumnBorn(<<"approvals", "expires_at">>) = 14
      /\ ColumnBorn(<<"objectives", "conversation_id">>) = 21 /\ ColumnBorn(<<"approvals", "tool">>) = 27
  BY DEF ColumnBorn
<1>3. {<<"tool_calls", "interface">>, <<"approvals", "expires_at">>, <<"objectives", "conversation_id">>,
       <<"approvals", "tool">>} = Migrated!DeclaredColumns
  BY DEF Migrated!DeclaredColumns
<1>4. /\ Makes(Migrated!Add("tool_calls", "interface"), 8) /\ Unmakes(Migrated!Remove("tool_calls", "interface"), 8)
      /\ Makes(Migrated!Add("approvals", "expires_at"), 14)
      /\ Unmakes(Migrated!Remove("approvals", "expires_at"), 14)
  BY <1>1, <1>2, <1>3
<1>5. /\ Makes(Migrated!Add("objectives", "conversation_id"), 21)
      /\ Unmakes(Migrated!Remove("objectives", "conversation_id"), 21)
      /\ Makes(Migrated!Add("approvals", "tool"), 27) /\ Unmakes(Migrated!Remove("approvals", "tool"), 27)
  BY <1>1, <1>2, <1>3
<1>6. /\ Makes(Migrated!IndexText("memory_items"), 13) /\ Unmakes(Migrated!DropText("memory_items"), 13)
      /\ Makes(Migrated!IndexText("chunks"), 26) /\ Unmakes(Migrated!DropText("chunks"), 26)
  BY DEF Makes, Unmakes, IndexBorn, Migrated!DeclaredIndexes
<1> QED
  BY <1>4, <1>5, <1>6

\* How many things there are at each revision.
Size(r) ==
  CASE r = 0 -> 0 [] r = 1 -> 3 [] r = 2 -> 4 [] r = 3 -> 5 [] r = 4 -> 7 [] r = 5 -> 8
    [] r = 6 -> 11 [] r \in {7, 8} -> 13 [] r = 9 -> 16 [] r = 10 -> 17 [] r = 11 -> 19
    [] r = 12 -> 21 [] r = 13 -> 22 [] r \in {14, 15} -> 23 [] r = 16 -> 26 [] r = 17 -> 27
    [] r = 18 -> 28 [] r = 19 -> 29 [] r \in {20, 21, 22} -> 31

\* The c things after the first n, in this order; the last c of n, the last first.
MakesAll(st, n, c) == Len(st) = c /\ \A k \in 1..c : Makes(st[k], n + k)
UnmakesAll(st, n, c) == Len(st) = c /\ \A k \in 1..c : Unmakes(st[k], n + 1 - k)

LEMMA ShortListsMake ==
  ASSUME NEW n \in Nat
  PROVE  /\ \A a : Makes(a, n + 1) => MakesAll(<<a>>, n, 1)
         /\ \A a, c : Makes(a, n + 1) /\ Makes(c, n + 2) => MakesAll(<<a, c>>, n, 2)
         /\ \A a, c, e : Makes(a, n + 1) /\ Makes(c, n + 2) /\ Makes(e, n + 3) => MakesAll(<<a, c, e>>, n, 3)
<1>1. ASSUME NEW a, Makes(a, n + 1) PROVE MakesAll(<<a>>, n, 1)
  <2>1. Len(<<a>>) = 1 /\ <<a>>[1] = a /\ \A k \in 1..1 : k = 1
    OBVIOUS
  <2> QED
    BY <1>1, <2>1 DEF MakesAll
<1>2. ASSUME NEW a, NEW c, Makes(a, n + 1), Makes(c, n + 2) PROVE MakesAll(<<a, c>>, n, 2)
  <2>1. Len(<<a, c>>) = 2 /\ <<a, c>>[1] = a /\ <<a, c>>[2] = c /\ \A k \in 1..2 : k = 1 \/ k = 2
    OBVIOUS
  <2> QED
    BY <1>2, <2>1 DEF MakesAll
<1>3. ASSUME NEW a, NEW c, NEW e, Makes(a, n + 1), Makes(c, n + 2), Makes(e, n + 3)
      PROVE  MakesAll(<<a, c, e>>, n, 3)
  <2>1. /\ Len(<<a, c, e>>) = 3 /\ <<a, c, e>>[1] = a /\ <<a, c, e>>[2] = c /\ <<a, c, e>>[3] = e
        /\ \A k \in 1..3 : k = 1 \/ k = 2 \/ k = 3
    OBVIOUS
  <2> QED
    BY <1>3, <2>1 DEF MakesAll
<1> QED
  BY <1>1, <1>2, <1>3

LEMMA ShortListsUnmake ==
  ASSUME NEW n \in Nat
  PROVE  /\ \A a : Unmakes(a, n) => UnmakesAll(<<a>>, n, 1)
         /\ \A a, c : Unmakes(a, n) /\ Unmakes(c, n - 1) => UnmakesAll(<<a, c>>, n, 2)
         /\ \A a, c, e : Unmakes(a, n) /\ Unmakes(c, n - 1) /\ Unmakes(e, n - 2) => UnmakesAll(<<a, c, e>>, n, 3)
<1>0. n + 1 - 1 = n /\ n + 1 - 2 = n - 1 /\ n + 1 - 3 = n - 2
  OBVIOUS
<1>1. ASSUME NEW a, Unmakes(a, n) PROVE UnmakesAll(<<a>>, n, 1)
  <2>1. Len(<<a>>) = 1 /\ <<a>>[1] = a /\ \A k \in 1..1 : k = 1
    OBVIOUS
  <2> QED
    BY <1>0, <1>1, <2>1 DEF UnmakesAll
<1>2. ASSUME NEW a, NEW c, Unmakes(a, n), Unmakes(c, n - 1) PROVE UnmakesAll(<<a, c>>, n, 2)
  <2>1. Len(<<a, c>>) = 2 /\ <<a, c>>[1] = a /\ <<a, c>>[2] = c /\ \A k \in 1..2 : k = 1 \/ k = 2
    OBVIOUS
  <2> QED
    BY <1>0, <1>2, <2>1 DEF UnmakesAll
<1>3. ASSUME NEW a, NEW c, NEW e, Unmakes(a, n), Unmakes(c, n - 1), Unmakes(e, n - 2)
      PROVE  UnmakesAll(<<a, c, e>>, n, 3)
  <2>1. /\ Len(<<a, c, e>>) = 3 /\ <<a, c, e>>[1] = a /\ <<a, c, e>>[2] = c /\ <<a, c, e>>[3] = e
        /\ \A k \in 1..3 : k = 1 \/ k = 2 \/ k = 3
    OBVIOUS
  <2> QED
    BY <1>0, <1>3, <2>1 DEF UnmakesAll
<1> QED
  BY <1>1, <1>2, <1>3

\* Most migrations make things and nothing else, and unmake them in the opposite order.
LEMMA MostOnlyMake ==
  /\ MakesAll(Migrated!M001.up, 0, 3) /\ UnmakesAll(Migrated!M001.down, 3, 3)
  /\ MakesAll(Migrated!M002.up, 3, 1) /\ UnmakesAll(Migrated!M002.down, 4, 1)
  /\ MakesAll(Migrated!M003.up, 4, 1) /\ UnmakesAll(Migrated!M003.down, 5, 1)
  /\ MakesAll(Migrated!M004.up, 5, 2) /\ UnmakesAll(Migrated!M004.down, 7, 2)
  /\ MakesAll(Migrated!M005.up, 7, 1) /\ UnmakesAll(Migrated!M005.down, 8, 1)
  /\ MakesAll(Migrated!M006.up, 8, 3) /\ UnmakesAll(Migrated!M006.down, 11, 3)
  /\ MakesAll(Migrated!M007.up, 11, 2) /\ UnmakesAll(Migrated!M007.down, 13, 2)
  /\ MakesAll(Migrated!M009.up, 13, 3) /\ UnmakesAll(Migrated!M009.down, 16, 3)
  /\ MakesAll(Migrated!M010.up, 16, 1) /\ UnmakesAll(Migrated!M010.down, 17, 1)
  /\ MakesAll(Migrated!M011.up, 17, 2) /\ UnmakesAll(Migrated!M011.down, 19, 2)
  /\ MakesAll(Migrated!M012.up, 19, 2) /\ UnmakesAll(Migrated!M012.down, 21, 2)
  /\ MakesAll(Migrated!M013.up, 21, 1) /\ UnmakesAll(Migrated!M013.down, 22, 1)
  /\ MakesAll(Migrated!M016.up, 23, 3) /\ UnmakesAll(Migrated!M016.down, 26, 3)
  /\ MakesAll(Migrated!M017.up, 26, 1) /\ UnmakesAll(Migrated!M017.down, 27, 1)
  /\ MakesAll(Migrated!M018.up, 27, 1) /\ UnmakesAll(Migrated!M018.down, 28, 1)
  /\ MakesAll(Migrated!M019.up, 28, 1) /\ UnmakesAll(Migrated!M019.down, 29, 1)
  /\ MakesAll(Migrated!M020.up, 29, 2) /\ UnmakesAll(Migrated!M020.down, 31, 2)
<1> USE NumbersOfTables, NumbersOfTheRest
<1>1. MakesAll(Migrated!M001.up, 0, 3) /\ UnmakesAll(Migrated!M001.down, 3, 3)
  BY ShortListsMake, ShortListsUnmake DEF Migrated!M001
<1>2. MakesAll(Migrated!M002.up, 3, 1) /\ UnmakesAll(Migrated!M002.down, 4, 1)
  BY ShortListsMake, ShortListsUnmake DEF Migrated!M002
<1>3. MakesAll(Migrated!M003.up, 4, 1) /\ UnmakesAll(Migrated!M003.down, 5, 1)
  BY ShortListsMake, ShortListsUnmake DEF Migrated!M003
<1>4. MakesAll(Migrated!M004.up, 5, 2) /\ UnmakesAll(Migrated!M004.down, 7, 2)
  BY ShortListsMake, ShortListsUnmake DEF Migrated!M004
<1>5. MakesAll(Migrated!M005.up, 7, 1) /\ UnmakesAll(Migrated!M005.down, 8, 1)
  BY ShortListsMake, ShortListsUnmake DEF Migrated!M005
<1>6. MakesAll(Migrated!M006.up, 8, 3) /\ UnmakesAll(Migrated!M006.down, 11, 3)
  BY ShortListsMake, ShortListsUnmake DEF Migrated!M006
<1>7. MakesAll(Migrated!M007.up, 11, 2) /\ UnmakesAll(Migrated!M007.down, 13, 2)
  BY ShortListsMake, ShortListsUnmake DEF Migrated!M007
<1>9. MakesAll(Migrated!M009.up, 13, 3) /\ UnmakesAll(Migrated!M009.down, 16, 3)
  BY ShortListsMake, ShortListsUnmake DEF Migrated!M009
<1>10. MakesAll(Migrated!M010.up, 16, 1) /\ UnmakesAll(Migrated!M010.down, 17, 1)
  BY ShortListsMake, ShortListsUnmake DEF Migrated!M010
<1>11. MakesAll(Migrated!M011.up, 17, 2) /\ UnmakesAll(Migrated!M011.down, 19, 2)
  BY ShortListsMake, ShortListsUnmake DEF Migrated!M011
<1>12. MakesAll(Migrated!M012.up, 19, 2) /\ UnmakesAll(Migrated!M012.down, 21, 2)
  BY ShortListsMake, ShortListsUnmake DEF Migrated!M012
<1>13. MakesAll(Migrated!M013.up, 21, 1) /\ UnmakesAll(Migrated!M013.down, 22, 1)
  BY ShortListsMake, ShortListsUnmake DEF Migrated!M013
<1>16. MakesAll(Migrated!M016.up, 23, 3) /\ UnmakesAll(Migrated!M016.down, 26, 3)
  BY ShortListsMake, ShortListsUnmake DEF Migrated!M016
<1>17. MakesAll(Migrated!M017.up, 26, 1) /\ UnmakesAll(Migrated!M017.down, 27, 1)
  BY ShortListsMake, ShortListsUnmake DEF Migrated!M017
<1>18. MakesAll(Migrated!M018.up, 27, 1) /\ UnmakesAll(Migrated!M018.down, 28, 1)
  BY ShortListsMake, ShortListsUnmake DEF Migrated!M018
<1>19. MakesAll(Migrated!M019.up, 28, 1) /\ UnmakesAll(Migrated!M019.down, 29, 1)
  BY ShortListsMake, ShortListsUnmake DEF Migrated!M019
<1>20. MakesAll(Migrated!M020.up, 29, 2) /\ UnmakesAll(Migrated!M020.down, 31, 2)
  BY ShortListsMake, ShortListsUnmake DEF Migrated!M020
<1> QED
  BY <1>1, <1>2, <1>3, <1>4, <1>5, <1>6, <1>7, <1>9, <1>10, <1>11, <1>12, <1>13, <1>16, <1>17, <1>18, <1>19, <1>20

\* The lists of the others.
LEMMA ScopeLists ==
  LET unindex == Migrated!DropText("memory_items")
      copy == Migrated!Copy("memory_items")
      wide == Migrated!Check("memory_items", "scope", Migrated!Scopes)
      narrow == Migrated!Check("memory_items", "scope", Migrated!OldScopes)
      index == Migrated!IndexText("memory_items")
  IN  /\ Migrated!M015("sqlite").up = <<unindex, copy, wide, index, Migrated!Fill>>
      /\ Migrated!M015("sqlite").down = <<Migrated!Forget, unindex, copy, narrow, index, Migrated!Fill>>
      /\ Migrated!M015("postgresql").up = <<wide>>
      /\ Migrated!M015("postgresql").down = <<Migrated!Forget, narrow>>
<1> DEFINE unindex == Migrated!DropText("memory_items")
           copy == Migrated!Copy("memory_items")
           wide == Migrated!Check("memory_items", "scope", Migrated!Scopes)
           narrow == Migrated!Check("memory_items", "scope", Migrated!OldScopes)
           index == Migrated!IndexText("memory_items")
           fill == Migrated!Fill
           forget == Migrated!Forget
<1>1. /\ Migrated!Rescoped("sqlite", Migrated!Scopes) = <<unindex>> \o <<copy, wide>> \o <<index, fill>>
      /\ Migrated!Rescoped("sqlite", Migrated!OldScopes) = <<unindex>> \o <<copy, narrow>> \o <<index, fill>>
  BY RebuildIs DEF Migrated!Rescoped
<1>2. /\ Migrated!M015("sqlite").up = <<unindex>> \o <<copy, wide>> \o <<index, fill>>
      /\ Migrated!M015("sqlite").down = <<forget>> \o (<<unindex>> \o <<copy, narrow>> \o <<index, fill>>)
  BY <1>1 DEF Migrated!M015
<1>3. /\ Migrated!Rescoped("postgresql", Migrated!Scopes) = <<wide>>
      /\ Migrated!Rescoped("postgresql", Migrated!OldScopes) = <<narrow>>
  BY RebuildIs DEF Migrated!Rescoped
<1>4. Migrated!M015("postgresql").up = <<wide>> /\ Migrated!M015("postgresql").down = <<forget>> \o <<narrow>>
  BY <1>3 DEF Migrated!M015
<1> SUFFICES /\ Migrated!M015("sqlite").up = <<unindex, copy, wide, index, fill>>
             /\ Migrated!M015("sqlite").down = <<forget, unindex, copy, narrow, index, fill>>
             /\ Migrated!M015("postgresql").up = <<wide>>
             /\ Migrated!M015("postgresql").down = <<forget, narrow>>
  OBVIOUS
<1> HIDE DEF unindex, copy, wide, narrow, index, fill, forget
<1>5. /\ <<unindex>> \o <<copy, wide>> \o <<index, fill>> = <<unindex, copy, wide, index, fill>>
      /\ <<forget>> \o (<<unindex>> \o <<copy, narrow>> \o <<index, fill>>)
           = <<forget, unindex, copy, narrow, index, fill>>
  <2>1. <<unindex>> \o <<copy, wide>> = <<unindex, copy, wide>>
    BY Lists12
  <2>2. <<unindex, copy, wide>> \o <<index, fill>> = <<unindex, copy, wide, index, fill>>
    BY Lists32
  <2>3. <<unindex>> \o <<copy, narrow>> = <<unindex, copy, narrow>>
    BY Lists12
  <2>4. <<unindex, copy, narrow>> \o <<index, fill>> = <<unindex, copy, narrow, index, fill>>
    BY Lists32
  <2>5. <<forget>> \o <<unindex, copy, narrow, index, fill>> = <<forget, unindex, copy, narrow, index, fill>>
    BY Lists15
  <2> QED
    BY <2>1, <2>2, <2>3, <2>4, <2>5
<1>6. <<forget>> \o <<narrow>> = <<forget, narrow>>
  BY Lists11
<1> QED
  BY <1>2, <1>4, <1>5, <1>6

LEMMA NameLists ==
  ASSUME NEW old, NEW new
  PROVE  LET copy == Migrated!Copy("audit_log")
             any == Migrated!Check("audit_log", "actor_kind", Migrated!Anything)
             only == Migrated!Check("audit_log", "actor_kind", Migrated!ActorKinds(new))
             first == Migrated!Rename("audit_log", old, new)
             second == Migrated!Rename("tasks", old, new)
             third == Migrated!Rename("task_assignments", old, new)
         IN  /\ Migrated!Renamed("sqlite", old, new) = <<copy, any, first, copy, only, second, third>>
             /\ Migrated!Renamed("postgresql", old, new) = <<any, first, only, second, third>>
<1> DEFINE copy == Migrated!Copy("audit_log")
           any == Migrated!Check("audit_log", "actor_kind", Migrated!Anything)
           only == Migrated!Check("audit_log", "actor_kind", Migrated!ActorKinds(new))
           first == Migrated!Rename("audit_log", old, new)
           second == Migrated!Rename("tasks", old, new)
           third == Migrated!Rename("task_assignments", old, new)
<1>1. /\ Migrated!Renamed("sqlite", old, new) = <<copy, any>> \o <<first>> \o <<copy, only>> \o <<second, third>>
      /\ Migrated!Renamed("postgresql", old, new) = <<any>> \o <<first>> \o <<only>> \o <<second, third>>
  BY RebuildIs DEF Migrated!Renamed, Migrated!Renames
<1> SUFFICES /\ Migrated!Renamed("sqlite", old, new) = <<copy, any, first, copy, only, second, third>>
             /\ Migrated!Renamed("postgresql", old, new) = <<any, first, only, second, third>>
  OBVIOUS
<1> HIDE DEF copy, any, only, first, second, third
<1>2. <<copy, any>> \o <<first>> = <<copy, any, first>>
  BY Lists21
<1>3. <<copy, any, first>> \o <<copy, only>> = <<copy, any, first, copy, only>>
  BY Lists32
<1>4. <<copy, any, first, copy, only>> \o <<second, third>> = <<copy, any, first, copy, only, second, third>>
  BY Lists52
<1>5. <<any>> \o <<first>> = <<any, first>>
  BY Lists11
<1>6. <<any, first>> \o <<only>> = <<any, first, only>>
  BY Lists21
<1>7. <<any, first, only>> \o <<second, third>> = <<any, first, only, second, third>>
  BY Lists32
<1> QED
  BY <1>1, <1>2, <1>3, <1>4, <1>5, <1>6, <1>7

\* Where in the history a list stands.
LEMMA HistoryIs ==
  ASSUME NEW b \in Backends
  PROVE  /\ Migrated!History[b][1] = Migrated!M001 /\ Migrated!History[b][2] = Migrated!M002
         /\ Migrated!History[b][3] = Migrated!M003 /\ Migrated!History[b][4] = Migrated!M004
         /\ Migrated!History[b][5] = Migrated!M005 /\ Migrated!History[b][6] = Migrated!M006
         /\ Migrated!History[b][7] = Migrated!M007 /\ Migrated!History[b][8] = Migrated!M008
         /\ Migrated!History[b][9] = Migrated!M009 /\ Migrated!History[b][10] = Migrated!M010
         /\ Migrated!History[b][11] = Migrated!M011 /\ Migrated!History[b][12] = Migrated!M012
         /\ Migrated!History[b][13] = Migrated!M013 /\ Migrated!History[b][14] = Migrated!M014
         /\ Migrated!History[b][15] = Migrated!M015(b) /\ Migrated!History[b][16] = Migrated!M016
         /\ Migrated!History[b][17] = Migrated!M017 /\ Migrated!History[b][18] = Migrated!M018
         /\ Migrated!History[b][19] = Migrated!M019 /\ Migrated!History[b][20] = Migrated!M020
         /\ Migrated!History[b][21] = Migrated!M021(b) /\ Migrated!History[b][22] = Migrated!M022(b)
<1> DEFINE h == Migrated!History[b]
<1>1. h = <<Migrated!M001, Migrated!M002, Migrated!M003, Migrated!M004, Migrated!M005, Migrated!M006,
            Migrated!M007, Migrated!M008, Migrated!M009, Migrated!M010, Migrated!M011, Migrated!M012,
            Migrated!M013, Migrated!M014, Migrated!M015(b), Migrated!M016, Migrated!M017, Migrated!M018,
            Migrated!M019, Migrated!M020, Migrated!M021(b), Migrated!M022(b)>>
  BY DEF Migrated!History
<1> HIDE DEF h
<1>2. /\ h[1] = Migrated!M001 /\ h[2] = Migrated!M002 /\ h[3] = Migrated!M003 /\ h[4] = Migrated!M004
      /\ h[5] = Migrated!M005 /\ h[6] = Migrated!M006 /\ h[7] = Migrated!M007 /\ h[8] = Migrated!M008
      /\ h[9] = Migrated!M009 /\ h[10] = Migrated!M010 /\ h[11] = Migrated!M011 /\ h[12] = Migrated!M012
      /\ h[13] = Migrated!M013 /\ h[14] = Migrated!M014 /\ h[15] = Migrated!M015(b) /\ h[16] = Migrated!M016
      /\ h[17] = Migrated!M017 /\ h[18] = Migrated!M018 /\ h[19] = Migrated!M019 /\ h[20] = Migrated!M020
      /\ h[21] = Migrated!M021(b) /\ h[22] = Migrated!M022(b)
  BY <1>1
<1> QED
  BY <1>2 DEF h

Others == {8, 14, 15, 21, 22}

LEMMA SizesGrow ==
  /\ \A r \in 0..22 : Size(r) \in 0..31
  /\ \A m \in 1..22 : Size(m) - Size(m - 1) \in 0..3 /\ Size(m - 1) <= Size(m)
  /\ \A m \in {8, 15, 21, 22} : Size(m) = Size(m - 1)
<1>1. ASSUME NEW m \in 1..22
      PROVE  /\ Size(m - 1) \in 0..31 /\ Size(m) \in 0..31 /\ Size(m) - Size(m - 1) \in 0..3
             /\ Size(m - 1) <= Size(m) /\ (m \in {8, 15, 21, 22} => Size(m) = Size(m - 1))
  <2>1. m \in {1, 2, 3, 4, 5, 6, 7, 8, 9, 10, 11, 12, 13, 14, 15, 16, 17, 18, 19, 20, 21, 22}
    OBVIOUS
  <2> QED
    BY <2>1 DEF Size
<1>2. Size(0) \in 0..31
  BY DEF Size
<1>3. \A r \in 0..22 : r = 0 \/ r \in 1..22
  OBVIOUS
<1> QED
  BY <1>1, <1>2, <1>3

LEMMA MostInTheHistory ==
  ASSUME NEW b \in Backends, NEW m \in 1..22 \ Others
  PROVE  /\ MakesAll(Migrated!History[b][m].up, Size(m - 1), Size(m) - Size(m - 1))
         /\ UnmakesAll(Migrated!History[b][m].down, Size(m), Size(m) - Size(m - 1))
<1>1. m \in {1, 2, 3, 4, 5, 6, 7, 9, 10, 11, 12, 13, 16, 17, 18, 19, 20}
  BY DEF Others
<1>2. \E M, i, j, c :
        /\ Migrated!History[b][m] = M /\ Size(m - 1) = i /\ Size(m) = j /\ c = j - i
        /\ MakesAll(M.up, i, c) /\ UnmakesAll(M.down, j, c)
  BY <1>1, HistoryIs, MostOnlyMake DEF Size
<1> QED
  BY <1>2

-----------------------------------------------------------------------------
(* The shapes between the statements *)

Shape(scope, held, kinds, tasks, assigned, audit, gone, copies, seeded) ==
  [scope |-> scope, rows |-> held, kinds |-> kinds,
   name |-> [t \in NamedTables |-> CASE t = "tasks" -> tasks [] t = "task_assignments" -> assigned
                                     [] t = "audit_log" -> audit],
   gone |-> gone, copies |-> copies, seeded |-> seeded]

\* At rest at a revision.  There is no log of the actions before the ninth.
NameAt(r) == IF r < 8 THEN "kai" ELSE IF r < 22 THEN "alethic" ELSE "prometheus"
LogAt(r) == IF r < 22 THEN "alethic" ELSE "prometheus"
SeededAt(r) == r >= 14
ScopesAt(r) == IF r < 15 THEN Migrated!OldScopes ELSE Migrated!Scopes
Rest(r) ==
  Shape(ScopesAt(r), ScopesAt(r), Migrated!ActorKinds(LogAt(r)), NameAt(r), NameAt(r), LogAt(r), {}, {}, SeededAt(r))

\* Before the k-th statement of the eighth migration, forwards or back; of the
\* fourteenth, the fifteenth, the twenty-first and the last.
Renaming8(old, new, k) ==
  Shape(Migrated!OldScopes, Migrated!OldScopes, Migrated!ActorKinds("alethic"),
        IF k >= 2 THEN new ELSE old, IF k >= 3 THEN new ELSE old, "alethic", {}, {}, FALSE)

Seeding(seeded) ==
  Shape(Migrated!OldScopes, Migrated!OldScopes, Migrated!ActorKinds("alethic"),
        "alethic", "alethic", "alethic", {}, {}, seeded)

Scoping(scope, held, gone, copies) ==
  Shape(scope, held, Migrated!ActorKinds("alethic"), "alethic", "alethic", "alethic", gone, copies, TRUE)

Widening(b, k) ==
  Scoping(IF k > (IF b = "sqlite" THEN 3 ELSE 1) THEN Migrated!Scopes ELSE Migrated!OldScopes,
          IF k > (IF b = "sqlite" THEN 3 ELSE 1) THEN Migrated!Scopes ELSE Migrated!OldScopes,
          IF b = "sqlite" /\ k \in {2, 3, 4} THEN {"memory_items"} ELSE {},
          IF b = "sqlite" /\ k = 3 THEN {"memory_items"} ELSE {})

Narrowing(b, k) ==
  Scoping(IF k > (IF b = "sqlite" THEN 4 ELSE 2) THEN Migrated!OldScopes ELSE Migrated!Scopes,
          IF k > 1 THEN Migrated!OldScopes ELSE Migrated!Scopes,
          IF b = "sqlite" /\ k \in {3, 4, 5} THEN {"memory_items"} ELSE {},
          IF b = "sqlite" /\ k = 4 THEN {"memory_items"} ELSE {})

Rewording(k) ==
  Scoping(Migrated!Scopes, Migrated!Scopes,
          (IF k \in {2, 3} THEN {"memory_items"} ELSE {}) \cup (IF k \in {3, 4} THEN {"chunks"} ELSE {}), {})

Naming(kinds, tasks, assigned, audit, copies) ==
  Shape(Migrated!Scopes, Migrated!Scopes, kinds, tasks, assigned, audit, {}, copies, TRUE)

Renaming22(b, old, new, k) ==
  IF b = "sqlite"
  THEN Naming(IF k <= 2 THEN Migrated!ActorKinds(old) ELSE IF k <= 5 THEN Migrated!Anything
              ELSE Migrated!ActorKinds(new),
              IF k <= 6 THEN old ELSE new, IF k <= 7 THEN old ELSE new, IF k <= 3 THEN old ELSE new,
              IF k \in {2, 5} THEN {"audit_log"} ELSE {})
  ELSE Naming(IF k <= 1 THEN Migrated!ActorKinds(old) ELSE IF k <= 3 THEN Migrated!Anything
              ELSE Migrated!ActorKinds(new),
              IF k <= 4 THEN old ELSE new, IF k <= 5 THEN old ELSE new, IF k <= 2 THEN old ELSE new, {})

\* On PostgreSQL a killed upgrade leaves nothing.
Transactional(b, x) == b = "postgresql" => x

\* What was there at each of them.
LEMMA ThereByThen ==
  /\ \A n \in 13..31 : {"tasks", "task_assignments", "memory_items"} \subseteq Made(n)
                         /\ "memory_items" \in Covered(n)
  /\ "workspaces" \in Made(23) /\ "audit_log" \in Made(31) /\ "chunks" \in Made(31) /\ "chunks" \in Covered(31)
<1>1. /\ Born("tasks") = 2 /\ Born("task_assignments") = 5 /\ Born("memory_items") = 12
      /\ Born("workspaces") = 23 /\ Born("audit_log") = 15 /\ Born("chunks") = 25
      /\ IndexBorn("memory_items") = 13 /\ IndexBorn("chunks") = 26
  BY DEF Born, IndexBorn
<1> QED
  BY <1>1 DEF Made, Covered, TableNames, Migrated!DeclaredIndexes

\* KAI becomes Alethic, or Alethic KAI again.
LEMMA EighthStep ==
  ASSUME NEW d, IsDatabase(d), NEW x \in BOOLEAN, NEW old, NEW new, NEW k \in 1..2,
         Fits(d, x, 13, Renaming8(old, new, k)), NEW s, s = Migrated!Renames(old, new)[k]
  PROVE  ~Migrated!Refused(d, s) /\ Fits(Migrated!Done(d, s), x, 13, Renaming8(old, new, k + 1))
<1> DEFINE first == Migrated!Rename("tasks", old, new)
           second == Migrated!Rename("task_assignments", old, new)
<1>1. Migrated!Renames(old, new) = <<first, second>>
  BY DEF Migrated!Renames
<1> HIDE DEF first, second
<1>2. Migrated!Renames(old, new)[1] = first /\ Migrated!Renames(old, new)[2] = second
  BY <1>1
<1>3. PICK g, h : g = Renaming8(old, new, k) /\ h = Renaming8(old, new, k + 1)
  OBVIOUS
<1>4. "tasks" \in Made(13) /\ "task_assignments" \in Made(13) /\ 1 + 1 = 2 /\ 2 + 1 = 3
  BY ThereByThen
<1>5. CASE k = 1
  <2>1. /\ g = Shape(Migrated!OldScopes, Migrated!OldScopes, Migrated!ActorKinds("alethic"),
                     old, old, "alethic", {}, {}, FALSE)
        /\ h = Shape(Migrated!OldScopes, Migrated!OldScopes, Migrated!ActorKinds("alethic"),
                     new, old, "alethic", {}, {}, FALSE)
    BY <1>3, <1>5 DEF Renaming8
  <2>2. /\ AlikeBut(g, h, "name") /\ h.name["tasks"] = new /\ g.name["tasks"] = old
        /\ \A u \in NamedTables \ {"tasks"} : h.name[u] = g.name[u]
    BY <2>1 DEF Shape, AlikeBut, NamedTables
  <2> QED
    BY <1>2, <1>3, <1>4, <1>5, <2>2, ManagerIsRenamed DEF first, NamedTables
<1>6. CASE k = 2
  <2>1. /\ g = Shape(Migrated!OldScopes, Migrated!OldScopes, Migrated!ActorKinds("alethic"),
                     new, old, "alethic", {}, {}, FALSE)
        /\ h = Shape(Migrated!OldScopes, Migrated!OldScopes, Migrated!ActorKinds("alethic"),
                     new, new, "alethic", {}, {}, FALSE)
    BY <1>3, <1>6 DEF Renaming8
  <2>2. /\ AlikeBut(g, h, "name") /\ h.name["task_assignments"] = new /\ g.name["task_assignments"] = old
        /\ \A u \in NamedTables \ {"task_assignments"} : h.name[u] = g.name[u]
    BY <2>1 DEF Shape, AlikeBut, NamedTables
  <2> QED
    BY <1>2, <1>3, <1>4, <1>6, <2>2, ManagerIsRenamed DEF second, NamedTables
<1> QED
  BY <1>5, <1>6

\* The workspaces and their seed.
LEMMA FourteenthStep ==
  ASSUME NEW d, IsDatabase(d), NEW x \in BOOLEAN
  PROVE  /\ Fits(d, x, 22, Seeding(FALSE)) => LET s == Migrated!M014.up[1] IN
              ~Migrated!Refused(d, s) /\ Fits(Migrated!Done(d, s), x, 23, Seeding(FALSE))
         /\ Fits(d, x, 23, Seeding(FALSE)) => LET s == Migrated!M014.up[2] IN
              ~Migrated!Refused(d, s) /\ Fits(Migrated!Done(d, s), x, 23, Seeding(TRUE))
         /\ Fits(d, x, 23, Seeding(TRUE)) => LET s == Migrated!M014.down[1] IN
              ~Migrated!Refused(d, s) /\ Fits(Migrated!Done(d, s), x, 22, Seeding(FALSE))
<1> DEFINE create == Migrated!Create("workspaces", "id", {}, {})
           drop == Migrated!Drop("workspaces")
<1>1. Makes(create, 22 + 1) /\ Unmakes(drop, 22 + 1) /\ create.op = "create" /\ 22 + 1 = 23
  BY NumbersOfTables DEF Migrated!Create
<1>2. Migrated!M014.up = <<create, Migrated!Seed>> /\ Migrated!M014.down = <<drop>>
  BY DEF Migrated!M014
<1> HIDE DEF create, drop
<1>3. Migrated!M014.up[1] = create /\ Migrated!M014.up[2] = Migrated!Seed /\ Migrated!M014.down[1] = drop
  BY <1>2
<1>4. PICK g, h : g = Seeding(FALSE) /\ h = Seeding(TRUE)
  OBVIOUS
<1>5. /\ g.gone = {} /\ g.seeded = FALSE /\ h.seeded = TRUE /\ AlikeBut(g, h, "seeded") /\ AlikeBut(h, g, "seeded")
  BY <1>4 DEF Seeding, Shape, AlikeBut
<1>6. ASSUME Fits(d, x, 22, g) PROVE ~Migrated!Refused(d, create) /\ Fits(Migrated!Done(d, create), x, 23, g)
  <2>1. ~Migrated!Refused(d, create)
    BY <1>1, <1>6, ThingMayBeMade
  <2> QED
    BY <1>1, <1>5, <1>6, <2>1, ThingIsMade
<1>7. ASSUME Fits(d, x, 23, g)
      PROVE  ~Migrated!Refused(d, Migrated!Seed) /\ Fits(Migrated!Done(d, Migrated!Seed), x, 23, h)
  BY <1>5, <1>7, ThereByThen, StoreIsSeeded
<1>8. ASSUME Fits(d, x, 23, h) PROVE ~Migrated!Refused(d, drop) /\ Fits(Migrated!Done(d, drop), x, 22, g)
  <2>1. Fits(d, x, 22 + 1, h) /\ ~Migrated!Refused(d, drop)
    BY <1>1, <1>8, ThingMayBeUnmade
  <2>2. /\ g.scope = h.scope /\ g.rows = h.rows /\ g.kinds = h.kinds /\ g.name = h.name
        /\ g.gone = h.gone /\ g.copies = h.copies
    BY <1>5 DEF AlikeBut
  <2> QED
    BY <1>1, <1>5, <2>1, <2>2, ThingIsUnmade
<1> QED
  BY <1>3, <1>4, <1>6, <1>7, <1>8

\* The scopes are widened.
LEMMA WideningStep ==
  ASSUME NEW b \in {"sqlite", "postgresql"}, b = backend, NEW d, IsDatabase(d),
         NEW x \in BOOLEAN, Transactional(b, x),
         NEW st, st = Migrated!M015(b).up, NEW k \in 1..Len(st), Fits(d, x, 23, Widening(b, k))
  PROVE  ~Migrated!Refused(d, st[k]) /\ Fits(Migrated!Done(d, st[k]), x, 23, Widening(b, k + 1))
<1> DEFINE unindex == Migrated!DropText("memory_items")
           copy == Migrated!Copy("memory_items")
           wide == Migrated!Check("memory_items", "scope", Migrated!Scopes)
           index == Migrated!IndexText("memory_items")
           fill == Migrated!Fill
<1>1. /\ b = "sqlite" => st = <<unindex, copy, wide, index, fill>>
      /\ b = "postgresql" => st = <<wide>>
  BY ScopeLists
<1>2. PICK g, h : g = Widening(b, k) /\ h = Widening(b, k + 1)
  OBVIOUS
<1>3. "memory_items" \in Made(23) /\ "memory_items" \in Covered(23)
  BY ThereByThen
<1> HIDE DEF unindex, copy, wide, index, fill
<1>4. CASE b = "sqlite"
  <2> DEFINE list == <<unindex, copy, wide, index, fill>>
  <2>a. /\ Len(list) = 5
        /\ list[1] = unindex /\ list[2] = copy /\ list[3] = wide /\ list[4] = index /\ list[5] = fill
    OBVIOUS
  <2>b. st = list
    BY <1>1, <1>4
  <2> HIDE DEF list
  <2>1. /\ Len(st) = 5
        /\ st[1] = unindex /\ st[2] = copy /\ st[3] = wide /\ st[4] = index /\ st[5] = fill
    BY <2>a, <2>b
  <2>2. k \in 1..5
    BY <2>1
  <2>3. k = 1 \/ k = 2 \/ k = 3 \/ k = 4 \/ k = 5
    BY <2>2
  <2>4. b = "sqlite" /\ 1 + 1 = 2 /\ 2 + 1 = 3 /\ 3 + 1 = 4 /\ 4 + 1 = 5 /\ 5 + 1 = 6
    BY <1>4
  <2>5. CASE k = 1
    <3>1. /\ g = Scoping(Migrated!OldScopes, Migrated!OldScopes, {}, {})
          /\ h = Scoping(Migrated!OldScopes, Migrated!OldScopes, {"memory_items"}, {})
      BY <1>2, <2>5, <2>4 DEF Widening
    <3>2. AlikeBut(g, h, "gone") /\ h.gone = g.gone \cup {"memory_items"}
      BY <3>1 DEF Shape, AlikeBut, NamedTables, Scoping
    <3> QED
      BY <1>2, <1>3, <2>1, <2>5, <2>4, <3>2, IndexGoesDown DEF unindex
  <2>6. CASE k = 2
    <3>1. /\ g = Scoping(Migrated!OldScopes, Migrated!OldScopes, {"memory_items"}, {})
          /\ h = Scoping(Migrated!OldScopes, Migrated!OldScopes, {"memory_items"}, {"memory_items"})
      BY <1>2, <2>6, <2>4 DEF Widening
    <3>2. AlikeBut(g, h, "copies") /\ "memory_items" \notin g.copies /\ h.copies = g.copies \cup {"memory_items"}
      BY <3>1 DEF Shape, AlikeBut, NamedTables, Scoping
    <3> QED
      BY <1>2, <1>3, <2>1, <2>6, <2>4, <3>2, TableIsCopied DEF copy
  <2>7. CASE k = 3
    <3>1. /\ g = Scoping(Migrated!OldScopes, Migrated!OldScopes, {"memory_items"}, {"memory_items"})
          /\ h = Scoping(Migrated!Scopes, Migrated!Scopes, {"memory_items"}, {})
      BY <1>2, <2>7, <2>4 DEF Widening
    <3>2. /\ g.rows \subseteq Migrated!Scopes /\ g.rows \subseteq h.rows /\ "memory_items" \in g.gone
          /\ h.scope = Migrated!Scopes /\ h.copies = g.copies \ {"memory_items"} /\ h.kinds = g.kinds
          /\ h.name = g.name /\ h.gone = g.gone /\ h.seeded = g.seeded
      BY <3>1 DEF Shape, AlikeBut, NamedTables, Scoping, Migrated!Scopes, Migrated!OldScopes
    <3> QED
      BY <1>2, <1>3, <2>1, <2>7, <2>4, <3>2, ScopesAreChecked DEF wide
  <2>8. CASE k = 4
    <3>1. /\ g = Scoping(Migrated!Scopes, Migrated!Scopes, {"memory_items"}, {})
          /\ h = Scoping(Migrated!Scopes, Migrated!Scopes, {}, {})
      BY <1>2, <2>8, <2>4 DEF Widening
    <3>2. AlikeBut(g, h, "gone") /\ h.gone = g.gone \ {"memory_items"}
      BY <3>1 DEF Shape, AlikeBut, NamedTables, Scoping
    <3> QED
      BY <1>2, <1>3, <2>1, <2>8, <2>4, <3>2, IndexIsBack DEF index
  <2>9. CASE k = 5
    <3>1. /\ g = Scoping(Migrated!Scopes, Migrated!Scopes, {}, {})
          /\ h = Scoping(Migrated!Scopes, Migrated!Scopes, {}, {})
      BY <1>2, <2>9, <2>4 DEF Widening
    <3>2. g = h
      BY <3>1 DEF Shape, AlikeBut, NamedTables, Scoping
    <3> QED
      BY <1>2, <1>3, <2>1, <2>9, <2>4, <3>2, IndexIsFilledAlone DEF fill
  <2> QED
    BY <2>3, <2>5, <2>6, <2>7, <2>8, <2>9
<1>5. CASE b = "postgresql"
  <2> DEFINE list == <<wide>>
  <2>a. /\ Len(list) = 1
        /\ list[1] = wide
    OBVIOUS
  <2>b. st = list
    BY <1>1, <1>5
  <2> HIDE DEF list
  <2>1. /\ Len(st) = 1
        /\ st[1] = wide
    BY <2>a, <2>b
  <2>2. k \in 1..1
    BY <2>1
  <2>3. k = 1
    BY <2>2
  <2>4. b = "postgresql" /\ 1 + 1 = 2
    BY <1>5
  <2>5. CASE k = 1
    <3>1. /\ g = Scoping(Migrated!OldScopes, Migrated!OldScopes, {}, {})
          /\ h = Scoping(Migrated!Scopes, Migrated!Scopes, {}, {})
      BY <1>2, <2>5, <2>4 DEF Widening
    <3>2. /\ g.rows \subseteq Migrated!Scopes /\ g.rows \subseteq h.rows
          /\ h.scope = Migrated!Scopes /\ h.copies = g.copies \ {"memory_items"} /\ h.kinds = g.kinds
          /\ h.name = g.name /\ h.gone = g.gone /\ h.seeded = g.seeded
      BY <3>1 DEF Shape, AlikeBut, NamedTables, Scoping, Migrated!Scopes, Migrated!OldScopes
    <3>3. "memory_items" \in g.gone \/ (backend = "postgresql" /\ x)
      BY <1>5 DEF Transactional
    <3> QED
      BY <1>2, <1>3, <2>1, <2>5, <2>4, <3>2, <3>3, ScopesAreChecked DEF wide
  <2> QED
    BY <2>3, <2>5
<1> QED
  BY <1>4, <1>5

\* They are narrowed, over rows that are of the narrow ones.
LEMMA NarrowingStep ==
  ASSUME NEW b \in {"sqlite", "postgresql"}, b = backend, NEW d, IsDatabase(d),
         NEW x \in BOOLEAN, Transactional(b, x),
         NEW st, st = Migrated!M015(b).down, NEW k \in 1..Len(st), Fits(d, x, 23, Narrowing(b, k))
  PROVE  ~Migrated!Refused(d, st[k]) /\ Fits(Migrated!Done(d, st[k]), x, 23, Narrowing(b, k + 1))
<1> DEFINE forget == Migrated!Forget
           unindex == Migrated!DropText("memory_items")
           copy == Migrated!Copy("memory_items")
           narrow == Migrated!Check("memory_items", "scope", Migrated!OldScopes)
           index == Migrated!IndexText("memory_items")
           fill == Migrated!Fill
<1>1. /\ b = "sqlite" => st = <<forget, unindex, copy, narrow, index, fill>>
      /\ b = "postgresql" => st = <<forget, narrow>>
  BY ScopeLists
<1>2. PICK g, h : g = Narrowing(b, k) /\ h = Narrowing(b, k + 1)
  OBVIOUS
<1>3. "memory_items" \in Made(23) /\ "memory_items" \in Covered(23)
  BY ThereByThen
<1> HIDE DEF forget, unindex, copy, narrow, index, fill
<1>4. CASE b = "sqlite"
  <2> DEFINE list == <<forget, unindex, copy, narrow, index, fill>>
  <2>a. /\ Len(list) = 6
        /\ list[1] = forget /\ list[2] = unindex /\ list[3] = copy /\ list[4] = narrow /\ list[5] = index
        /\ list[6] = fill
    OBVIOUS
  <2>b. st = list
    BY <1>1, <1>4
  <2> HIDE DEF list
  <2>1. /\ Len(st) = 6
        /\ st[1] = forget /\ st[2] = unindex /\ st[3] = copy /\ st[4] = narrow /\ st[5] = index /\ st[6] = fill
    BY <2>a, <2>b
  <2>2. k \in 1..6
    BY <2>1
  <2>3. k = 1 \/ k = 2 \/ k = 3 \/ k = 4 \/ k = 5 \/ k = 6
    BY <2>2
  <2>4. b = "sqlite" /\ 1 + 1 = 2 /\ 2 + 1 = 3 /\ 3 + 1 = 4 /\ 4 + 1 = 5 /\ 5 + 1 = 6 /\ 6 + 1 = 7
    BY <1>4
  <2>5. CASE k = 1
    <3>1. /\ g = Scoping(Migrated!Scopes, Migrated!Scopes, {}, {})
          /\ h = Scoping(Migrated!Scopes, Migrated!OldScopes, {}, {})
      BY <1>2, <2>5, <2>4 DEF Narrowing
    <3>2. AlikeBut(g, h, "rows") /\ g.rows \ {"USER", "SYSTEM"} \subseteq h.rows
      BY <3>1 DEF Shape, AlikeBut, NamedTables, Scoping, Migrated!Scopes, Migrated!OldScopes
    <3> QED
      BY <1>2, <1>3, <2>1, <2>5, <2>4, <3>2, OnlyTheOldStay DEF forget
  <2>6. CASE k = 2
    <3>1. /\ g = Scoping(Migrated!Scopes, Migrated!OldScopes, {}, {})
          /\ h = Scoping(Migrated!Scopes, Migrated!OldScopes, {"memory_items"}, {})
      BY <1>2, <2>6, <2>4 DEF Narrowing
    <3>2. AlikeBut(g, h, "gone") /\ h.gone = g.gone \cup {"memory_items"}
      BY <3>1 DEF Shape, AlikeBut, NamedTables, Scoping
    <3> QED
      BY <1>2, <1>3, <2>1, <2>6, <2>4, <3>2, IndexGoesDown DEF unindex
  <2>7. CASE k = 3
    <3>1. /\ g = Scoping(Migrated!Scopes, Migrated!OldScopes, {"memory_items"}, {})
          /\ h = Scoping(Migrated!Scopes, Migrated!OldScopes, {"memory_items"}, {"memory_items"})
      BY <1>2, <2>7, <2>4 DEF Narrowing
    <3>2. AlikeBut(g, h, "copies") /\ "memory_items" \notin g.copies /\ h.copies = g.copies \cup {"memory_items"}
      BY <3>1 DEF Shape, AlikeBut, NamedTables, Scoping
    <3> QED
      BY <1>2, <1>3, <2>1, <2>7, <2>4, <3>2, TableIsCopied DEF copy
  <2>8. CASE k = 4
    <3>1. /\ g = Scoping(Migrated!Scopes, Migrated!OldScopes, {"memory_items"}, {"memory_items"})
          /\ h = Scoping(Migrated!OldScopes, Migrated!OldScopes, {"memory_items"}, {})
      BY <1>2, <2>8, <2>4 DEF Narrowing
    <3>2. /\ g.rows \subseteq Migrated!OldScopes /\ g.rows \subseteq h.rows /\ "memory_items" \in g.gone
          /\ h.scope = Migrated!OldScopes /\ h.copies = g.copies \ {"memory_items"} /\ h.kinds = g.kinds
          /\ h.name = g.name /\ h.gone = g.gone /\ h.seeded = g.seeded
      BY <3>1 DEF Shape, AlikeBut, NamedTables, Scoping, Migrated!Scopes, Migrated!OldScopes
    <3> QED
      BY <1>2, <1>3, <2>1, <2>8, <2>4, <3>2, ScopesAreChecked DEF narrow
  <2>9. CASE k = 5
    <3>1. /\ g = Scoping(Migrated!OldScopes, Migrated!OldScopes, {"memory_items"}, {})
          /\ h = Scoping(Migrated!OldScopes, Migrated!OldScopes, {}, {})
      BY <1>2, <2>9, <2>4 DEF Narrowing
    <3>2. AlikeBut(g, h, "gone") /\ h.gone = g.gone \ {"memory_items"}
      BY <3>1 DEF Shape, AlikeBut, NamedTables, Scoping
    <3> QED
      BY <1>2, <1>3, <2>1, <2>9, <2>4, <3>2, IndexIsBack DEF index
  <2>10. CASE k = 6
    <3>1. /\ g = Scoping(Migrated!OldScopes, Migrated!OldScopes, {}, {})
          /\ h = Scoping(Migrated!OldScopes, Migrated!OldScopes, {}, {})
      BY <1>2, <2>10, <2>4 DEF Narrowing
    <3>2. g = h
      BY <3>1 DEF Shape, AlikeBut, NamedTables, Scoping
    <3> QED
      BY <1>2, <1>3, <2>1, <2>10, <2>4, <3>2, IndexIsFilledAlone DEF fill
  <2> QED
    BY <2>3, <2>5, <2>6, <2>7, <2>8, <2>9, <2>10
<1>5. CASE b = "postgresql"
  <2> DEFINE list == <<forget, narrow>>
  <2>a. /\ Len(list) = 2
        /\ list[1] = forget /\ list[2] = narrow
    OBVIOUS
  <2>b. st = list
    BY <1>1, <1>5
  <2> HIDE DEF list
  <2>1. /\ Len(st) = 2
        /\ st[1] = forget /\ st[2] = narrow
    BY <2>a, <2>b
  <2>2. k \in 1..2
    BY <2>1
  <2>3. k = 1 \/ k = 2
    BY <2>2
  <2>4. b = "postgresql" /\ 1 + 1 = 2 /\ 2 + 1 = 3
    BY <1>5
  <2>5. CASE k = 1
    <3>1. /\ g = Scoping(Migrated!Scopes, Migrated!Scopes, {}, {})
          /\ h = Scoping(Migrated!Scopes, Migrated!OldScopes, {}, {})
      BY <1>2, <2>5, <2>4 DEF Narrowing
    <3>2. AlikeBut(g, h, "rows") /\ g.rows \ {"USER", "SYSTEM"} \subseteq h.rows
      BY <3>1 DEF Shape, AlikeBut, NamedTables, Scoping, Migrated!Scopes, Migrated!OldScopes
    <3> QED
      BY <1>2, <1>3, <2>1, <2>5, <2>4, <3>2, OnlyTheOldStay DEF forget
  <2>6. CASE k = 2
    <3>1. /\ g = Scoping(Migrated!Scopes, Migrated!OldScopes, {}, {})
          /\ h = Scoping(Migrated!OldScopes, Migrated!OldScopes, {}, {})
      BY <1>2, <2>6, <2>4 DEF Narrowing
    <3>2. /\ g.rows \subseteq Migrated!OldScopes /\ g.rows \subseteq h.rows
          /\ h.scope = Migrated!OldScopes /\ h.copies = g.copies \ {"memory_items"} /\ h.kinds = g.kinds
          /\ h.name = g.name /\ h.gone = g.gone /\ h.seeded = g.seeded
      BY <3>1 DEF Shape, AlikeBut, NamedTables, Scoping, Migrated!Scopes, Migrated!OldScopes
    <3>3. "memory_items" \in g.gone \/ (backend = "postgresql" /\ x)
      BY <1>5 DEF Transactional
    <3> QED
      BY <1>2, <1>3, <2>1, <2>6, <2>4, <3>2, <3>3, ScopesAreChecked DEF narrow
  <2> QED
    BY <2>3, <2>5, <2>6
<1> QED
  BY <1>4, <1>5

\* PostgreSQL cuts its words another way, forwards and back.
LEMMA RewordingStep ==
  ASSUME NEW b \in {"sqlite", "postgresql"}, b = backend, NEW d, IsDatabase(d),
         NEW x \in BOOLEAN, Transactional(b, x),
         NEW st, st = Migrated!M021(b).up, NEW k \in 1..Len(st), Fits(d, x, 31, Rewording(k))
  PROVE  ~Migrated!Refused(d, st[k]) /\ Fits(Migrated!Done(d, st[k]), x, 31, Rewording(k + 1))
<1> DEFINE unindex == Migrated!DropText("memory_items")
           unchunk == Migrated!DropText("chunks")
           index == Migrated!IndexText("memory_items")
           chunk == Migrated!IndexText("chunks")
<1>1. /\ b = "sqlite" => st = <<>>
      /\ b = "postgresql" => st = <<unindex, unchunk, index, chunk>>
  BY DEF Migrated!M021
<1>2. PICK g, h : g = Rewording(k) /\ h = Rewording(k + 1)
  OBVIOUS
<1>3. /\ "memory_items" \in Made(31) /\ "memory_items" \in Covered(31)
      /\ "chunks" \in Made(31) /\ "chunks" \in Covered(31)
  BY ThereByThen
<1> HIDE DEF unindex, unchunk, index, chunk
<1>4. CASE b = "sqlite"
  <2>1. Len(st) = 0
    BY <1>1, <1>4
  <2> QED
    BY <2>1
<1>5. CASE b = "postgresql"
  <2> DEFINE list == <<unindex, unchunk, index, chunk>>
  <2>a. /\ Len(list) = 4
        /\ list[1] = unindex /\ list[2] = unchunk /\ list[3] = index /\ list[4] = chunk
    OBVIOUS
  <2>b. st = list
    BY <1>1, <1>5
  <2> HIDE DEF list
  <2>1. /\ Len(st) = 4
        /\ st[1] = unindex /\ st[2] = unchunk /\ st[3] = index /\ st[4] = chunk
    BY <2>a, <2>b
  <2>2. k \in 1..4
    BY <2>1
  <2>3. k = 1 \/ k = 2 \/ k = 3 \/ k = 4
    BY <2>2
  <2>4. b = "postgresql" /\ 1 + 1 = 2 /\ 2 + 1 = 3 /\ 3 + 1 = 4 /\ 4 + 1 = 5
    BY <1>5
  <2>5. CASE k = 1
    <3>1. /\ g = Scoping(Migrated!Scopes, Migrated!Scopes, {}, {})
          /\ h = Scoping(Migrated!Scopes, Migrated!Scopes, {"memory_items"}, {})
      BY <1>2, <2>5, <2>4 DEF Rewording
    <3>2. AlikeBut(g, h, "gone") /\ h.gone = g.gone \cup {"memory_items"}
      BY <3>1 DEF Shape, AlikeBut, NamedTables, Scoping
    <3> QED
      BY <1>2, <1>3, <2>1, <2>5, <2>4, <3>2, IndexGoesDown DEF unindex
  <2>6. CASE k = 2
    <3>1. /\ g = Scoping(Migrated!Scopes, Migrated!Scopes, {"memory_items"}, {})
          /\ h = Scoping(Migrated!Scopes, Migrated!Scopes, {"memory_items", "chunks"}, {})
      BY <1>2, <2>6, <2>4 DEF Rewording
    <3>2. AlikeBut(g, h, "gone") /\ h.gone = g.gone \cup {"chunks"}
      BY <3>1 DEF Shape, AlikeBut, NamedTables, Scoping
    <3> QED
      BY <1>2, <1>3, <2>1, <2>6, <2>4, <3>2, IndexGoesDown DEF unchunk
  <2>7. CASE k = 3
    <3>1. /\ g = Scoping(Migrated!Scopes, Migrated!Scopes, {"memory_items", "chunks"}, {})
          /\ h = Scoping(Migrated!Scopes, Migrated!Scopes, {"chunks"}, {})
      BY <1>2, <2>7, <2>4 DEF Rewording
    <3>2. AlikeBut(g, h, "gone") /\ h.gone = g.gone \ {"memory_items"}
      BY <3>1 DEF Shape, AlikeBut, NamedTables, Scoping
    <3> QED
      BY <1>2, <1>3, <2>1, <2>7, <2>4, <3>2, IndexIsBack DEF index
  <2>8. CASE k = 4
    <3>1. /\ g = Scoping(Migrated!Scopes, Migrated!Scopes, {"chunks"}, {})
          /\ h = Scoping(Migrated!Scopes, Migrated!Scopes, {}, {})
      BY <1>2, <2>8, <2>4 DEF Rewording
    <3>2. AlikeBut(g, h, "gone") /\ h.gone = g.gone \ {"chunks"}
      BY <3>1 DEF Shape, AlikeBut, NamedTables, Scoping
    <3> QED
      BY <1>2, <1>3, <2>1, <2>8, <2>4, <3>2, IndexIsBack DEF chunk
  <2> QED
    BY <2>3, <2>5, <2>6, <2>7, <2>8
<1> QED
  BY <1>4, <1>5

\* Alethic becomes Prometheus, or Prometheus Alethic again.
LEMMA NamingStep ==
  ASSUME NEW b \in {"sqlite", "postgresql"}, b = backend, NEW d, IsDatabase(d),
         NEW x \in BOOLEAN, Transactional(b, x), NEW old \in Migrated!Product, NEW new \in Migrated!Product,
         NEW st, st = Migrated!Renamed(b, old, new), NEW k \in 1..Len(st), Fits(d, x, 31, Renaming22(b, old, new, k))
  PROVE  ~Migrated!Refused(d, st[k]) /\ Fits(Migrated!Done(d, st[k]), x, 31, Renaming22(b, old, new, k + 1))
<1> DEFINE again == Migrated!Copy("audit_log")
           any == Migrated!Check("audit_log", "actor_kind", Migrated!Anything)
           first == Migrated!Rename("audit_log", old, new)
           only == Migrated!Check("audit_log", "actor_kind", Migrated!ActorKinds(new))
           second == Migrated!Rename("tasks", old, new)
           third == Migrated!Rename("task_assignments", old, new)
<1>1. /\ b = "sqlite" => st = <<again, any, first, again, only, second, third>>
      /\ b = "postgresql" => st = <<any, first, only, second, third>>
  BY NameLists
<1>2. PICK g, h : g = Renaming22(b, old, new, k) /\ h = Renaming22(b, old, new, k + 1)
  OBVIOUS
<1>3. /\ "audit_log" \in Made(31) /\ "tasks" \in Made(31) /\ "task_assignments" \in Made(31)
  BY ThereByThen
<1>k. /\ old \in Migrated!Anything /\ new \in Migrated!Anything
      /\ old \in Migrated!ActorKinds(old) /\ new \in Migrated!ActorKinds(new)
  BY DEF Migrated!Anything, Migrated!Product, Migrated!ActorKinds
<1> HIDE DEF again, any, first, only, second, third
<1>4. CASE b = "sqlite"
  <2> DEFINE list == <<again, any, first, again, only, second, third>>
  <2>a. /\ Len(list) = 7
        /\ list[1] = again /\ list[2] = any /\ list[3] = first /\ list[4] = again /\ list[5] = only
        /\ list[6] = second /\ list[7] = third
    OBVIOUS
  <2>b. st = list
    BY <1>1, <1>4
  <2> HIDE DEF list
  <2>1. /\ Len(st) = 7
        /\ st[1] = again /\ st[2] = any /\ st[3] = first /\ st[4] = again /\ st[5] = only /\ st[6] = second
        /\ st[7] = third
    BY <2>a, <2>b
  <2>2. k \in 1..7
    BY <2>1
  <2>3. k = 1 \/ k = 2 \/ k = 3 \/ k = 4 \/ k = 5 \/ k = 6 \/ k = 7
    BY <2>2
  <2>4. b = "sqlite" /\ 1 + 1 = 2 /\ 2 + 1 = 3 /\ 3 + 1 = 4 /\ 4 + 1 = 5 /\ 5 + 1 = 6 /\ 6 + 1 = 7 /\ 7 + 1 = 8
    BY <1>4
  <2>5. CASE k = 1
    <3>1. /\ g = Naming(Migrated!ActorKinds(old), old, old, old, {})
          /\ h = Naming(Migrated!ActorKinds(old), old, old, old, {"audit_log"})
      BY <1>2, <2>5, <2>4 DEF Renaming22
    <3>2. AlikeBut(g, h, "copies") /\ "audit_log" \notin g.copies /\ h.copies = g.copies \cup {"audit_log"}
      BY <3>1, <1>k DEF Shape, AlikeBut, NamedTables, Naming
    <3> QED
      BY <1>2, <1>3, <2>1, <2>5, <2>4, <3>2, TableIsCopied DEF again
  <2>6. CASE k = 2
    <3>1. /\ g = Naming(Migrated!ActorKinds(old), old, old, old, {"audit_log"})
          /\ h = Naming(Migrated!Anything, old, old, old, {})
      BY <1>2, <2>6, <2>4 DEF Renaming22
    <3>2. /\ g.name["audit_log"] \in Migrated!Anything /\ h.kinds = Migrated!Anything
          /\ h.copies = g.copies \ {"audit_log"}
          /\ h.rows = g.rows /\ h.scope = g.scope /\ h.name = g.name /\ h.gone = g.gone /\ h.seeded = g.seeded
      BY <3>1, <1>k DEF Shape, AlikeBut, NamedTables, Naming
    <3> QED
      BY <1>2, <1>3, <2>1, <2>6, <2>4, <3>2, KindsAreChecked DEF any
  <2>7. CASE k = 3
    <3>1. /\ g = Naming(Migrated!Anything, old, old, old, {})
          /\ h = Naming(Migrated!Anything, old, old, new, {})
      BY <1>2, <2>7, <2>4 DEF Renaming22
    <3>2. /\ AlikeBut(g, h, "name") /\ h.name["audit_log"] = new /\ g.name["audit_log"] = old /\ new \in g.kinds
          /\ \A u \in NamedTables \ {"audit_log"} : h.name[u] = g.name[u]
      BY <3>1, <1>k DEF Shape, AlikeBut, NamedTables, Naming
    <3> QED
      BY <1>2, <1>3, <2>1, <2>7, <2>4, <3>2, ManagerIsRenamed DEF first, NamedTables
  <2>8. CASE k = 4
    <3>1. /\ g = Naming(Migrated!Anything, old, old, new, {})
          /\ h = Naming(Migrated!Anything, old, old, new, {"audit_log"})
      BY <1>2, <2>8, <2>4 DEF Renaming22
    <3>2. AlikeBut(g, h, "copies") /\ "audit_log" \notin g.copies /\ h.copies = g.copies \cup {"audit_log"}
      BY <3>1, <1>k DEF Shape, AlikeBut, NamedTables, Naming
    <3> QED
      BY <1>2, <1>3, <2>1, <2>8, <2>4, <3>2, TableIsCopied DEF again
  <2>9. CASE k = 5
    <3>1. /\ g = Naming(Migrated!Anything, old, old, new, {"audit_log"})
          /\ h = Naming(Migrated!ActorKinds(new), old, old, new, {})
      BY <1>2, <2>9, <2>4 DEF Renaming22
    <3>2. /\ g.name["audit_log"] \in Migrated!ActorKinds(new) /\ h.kinds = Migrated!ActorKinds(new)
          /\ h.copies = g.copies \ {"audit_log"}
          /\ h.rows = g.rows /\ h.scope = g.scope /\ h.name = g.name /\ h.gone = g.gone /\ h.seeded = g.seeded
      BY <3>1, <1>k DEF Shape, AlikeBut, NamedTables, Naming
    <3> QED
      BY <1>2, <1>3, <2>1, <2>9, <2>4, <3>2, KindsAreChecked DEF only
  <2>10. CASE k = 6
    <3>1. /\ g = Naming(Migrated!ActorKinds(new), old, old, new, {})
          /\ h = Naming(Migrated!ActorKinds(new), new, old, new, {})
      BY <1>2, <2>10, <2>4 DEF Renaming22
    <3>2. /\ AlikeBut(g, h, "name") /\ h.name["tasks"] = new /\ g.name["tasks"] = old
          /\ \A u \in NamedTables \ {"tasks"} : h.name[u] = g.name[u]
      BY <3>1, <1>k DEF Shape, AlikeBut, NamedTables, Naming
    <3> QED
      BY <1>2, <1>3, <2>1, <2>10, <2>4, <3>2, ManagerIsRenamed DEF second, NamedTables
  <2>11. CASE k = 7
    <3>1. /\ g = Naming(Migrated!ActorKinds(new), new, old, new, {})
          /\ h = Naming(Migrated!ActorKinds(new), new, new, new, {})
      BY <1>2, <2>11, <2>4 DEF Renaming22
    <3>2. /\ AlikeBut(g, h, "name") /\ h.name["task_assignments"] = new /\ g.name["task_assignments"] = old
          /\ \A u \in NamedTables \ {"task_assignments"} : h.name[u] = g.name[u]
      BY <3>1, <1>k DEF Shape, AlikeBut, NamedTables, Naming
    <3> QED
      BY <1>2, <1>3, <2>1, <2>11, <2>4, <3>2, ManagerIsRenamed DEF third, NamedTables
  <2> QED
    BY <2>3, <2>5, <2>6, <2>7, <2>8, <2>9, <2>10, <2>11
<1>5. CASE b = "postgresql"
  <2> DEFINE list == <<any, first, only, second, third>>
  <2>a. /\ Len(list) = 5
        /\ list[1] = any /\ list[2] = first /\ list[3] = only /\ list[4] = second /\ list[5] = third
    OBVIOUS
  <2>b. st = list
    BY <1>1, <1>5
  <2> HIDE DEF list
  <2>1. /\ Len(st) = 5
        /\ st[1] = any /\ st[2] = first /\ st[3] = only /\ st[4] = second /\ st[5] = third
    BY <2>a, <2>b
  <2>2. k \in 1..5
    BY <2>1
  <2>3. k = 1 \/ k = 2 \/ k = 3 \/ k = 4 \/ k = 5
    BY <2>2
  <2>4. b = "postgresql" /\ 1 + 1 = 2 /\ 2 + 1 = 3 /\ 3 + 1 = 4 /\ 4 + 1 = 5 /\ 5 + 1 = 6
    BY <1>5
  <2>5. CASE k = 1
    <3>1. /\ g = Naming(Migrated!ActorKinds(old), old, old, old, {})
          /\ h = Naming(Migrated!Anything, old, old, old, {})
      BY <1>2, <2>5, <2>4 DEF Renaming22
    <3>2. /\ g.name["audit_log"] \in Migrated!Anything /\ h.kinds = Migrated!Anything
          /\ h.copies = g.copies \ {"audit_log"}
          /\ h.rows = g.rows /\ h.scope = g.scope /\ h.name = g.name /\ h.gone = g.gone /\ h.seeded = g.seeded
      BY <3>1, <1>k DEF Shape, AlikeBut, NamedTables, Naming
    <3> QED
      BY <1>2, <1>3, <2>1, <2>5, <2>4, <3>2, KindsAreChecked DEF any
  <2>6. CASE k = 2
    <3>1. /\ g = Naming(Migrated!Anything, old, old, old, {})
          /\ h = Naming(Migrated!Anything, old, old, new, {})
      BY <1>2, <2>6, <2>4 DEF Renaming22
    <3>2. /\ AlikeBut(g, h, "name") /\ h.name["audit_log"] = new /\ g.name["audit_log"] = old /\ new \in g.kinds
          /\ \A u \in NamedTables \ {"audit_log"} : h.name[u] = g.name[u]
      BY <3>1, <1>k DEF Shape, AlikeBut, NamedTables, Naming
    <3> QED
      BY <1>2, <1>3, <2>1, <2>6, <2>4, <3>2, ManagerIsRenamed DEF first, NamedTables
  <2>7. CASE k = 3
    <3>1. /\ g = Naming(Migrated!Anything, old, old, new, {})
          /\ h = Naming(Migrated!ActorKinds(new), old, old, new, {})
      BY <1>2, <2>7, <2>4 DEF Renaming22
    <3>2. /\ g.name["audit_log"] \in Migrated!ActorKinds(new) /\ h.kinds = Migrated!ActorKinds(new)
          /\ h.copies = g.copies \ {"audit_log"}
          /\ h.rows = g.rows /\ h.scope = g.scope /\ h.name = g.name /\ h.gone = g.gone /\ h.seeded = g.seeded
      BY <3>1, <1>k DEF Shape, AlikeBut, NamedTables, Naming
    <3> QED
      BY <1>2, <1>3, <2>1, <2>7, <2>4, <3>2, KindsAreChecked DEF only
  <2>8. CASE k = 4
    <3>1. /\ g = Naming(Migrated!ActorKinds(new), old, old, new, {})
          /\ h = Naming(Migrated!ActorKinds(new), new, old, new, {})
      BY <1>2, <2>8, <2>4 DEF Renaming22
    <3>2. /\ AlikeBut(g, h, "name") /\ h.name["tasks"] = new /\ g.name["tasks"] = old
          /\ \A u \in NamedTables \ {"tasks"} : h.name[u] = g.name[u]
      BY <3>1, <1>k DEF Shape, AlikeBut, NamedTables, Naming
    <3> QED
      BY <1>2, <1>3, <2>1, <2>8, <2>4, <3>2, ManagerIsRenamed DEF second, NamedTables
  <2>9. CASE k = 5
    <3>1. /\ g = Naming(Migrated!ActorKinds(new), new, old, new, {})
          /\ h = Naming(Migrated!ActorKinds(new), new, new, new, {})
      BY <1>2, <2>9, <2>4 DEF Renaming22
    <3>2. /\ AlikeBut(g, h, "name") /\ h.name["task_assignments"] = new /\ g.name["task_assignments"] = old
          /\ \A u \in NamedTables \ {"task_assignments"} : h.name[u] = g.name[u]
      BY <3>1, <1>k DEF Shape, AlikeBut, NamedTables, Naming
    <3> QED
      BY <1>2, <1>3, <2>1, <2>9, <2>4, <3>2, ManagerIsRenamed DEF third, NamedTables
  <2> QED
    BY <2>3, <2>5, <2>6, <2>7, <2>8, <2>9
<1> QED
  BY <1>4, <1>5

-----------------------------------------------------------------------------
(* Before each statement of the history *)

\* How many things there are, and in which shape the rest is, before the k-th statement of
\* the m-th migration, forwards or back.
Age(m, way, k) ==
  IF way = "up" THEN (IF Size(m - 1) + k - 1 < Size(m) THEN Size(m - 1) + k - 1 ELSE Size(m))
  ELSE (IF Size(m) + 1 - k > Size(m - 1) THEN Size(m) + 1 - k ELSE Size(m - 1))

SeededBefore(way, k) == IF way = "up" THEN k > 2 ELSE k = 1

ShapeAt(b, m, way, k) ==
  CASE m = 8 -> IF way = "up" THEN Renaming8("kai", "alethic", k) ELSE Renaming8("alethic", "kai", k)
    [] m = 14 -> Seeding(SeededBefore(way, k))
    [] m = 15 -> IF way = "up" THEN Widening(b, k) ELSE Narrowing(b, k)
    [] m = 21 -> Rewording(k)
    [] m = 22 -> IF way = "up" THEN Renaming22(b, "alethic", "prometheus", k)
                 ELSE Renaming22(b, "prometheus", "alethic", k)
    [] m \notin Others -> Rest(m)

Script(b, m, way) == IF way = "up" THEN Migrated!History[b][m].up ELSE Migrated!History[b][m].down

\* What these are for each of the migrations that do not only make things.
LEMMA ShapesOfTheOthers ==
  /\ \A b, k : ShapeAt(b, 8, "up", k) = Renaming8("kai", "alethic", k)
  /\ \A b, k : ShapeAt(b, 8, "down", k) = Renaming8("alethic", "kai", k)
  /\ \A b, k : ShapeAt(b, 14, "up", k) = Seeding(SeededBefore("up", k))
  /\ \A b, k : ShapeAt(b, 14, "down", k) = Seeding(SeededBefore("down", k))
  /\ \A b, k : ShapeAt(b, 15, "up", k) = Widening(b, k)
  /\ \A b, k : ShapeAt(b, 15, "down", k) = Narrowing(b, k)
  /\ \A b, k : ShapeAt(b, 21, "up", k) = Rewording(k)
  /\ \A b, k : ShapeAt(b, 21, "down", k) = Rewording(k)
  /\ \A b, k : ShapeAt(b, 22, "up", k) = Renaming22(b, "alethic", "prometheus", k)
  /\ \A b, k : ShapeAt(b, 22, "down", k) = Renaming22(b, "prometheus", "alethic", k)
  /\ \A b, m, way, k : m \in 1..22 \ Others => ShapeAt(b, m, way, k) = Rest(m)
<1>1. \A b, k : ShapeAt(b, 8, "up", k) = Renaming8("kai", "alethic", k)
  BY DEF ShapeAt, Others
<1>2. \A b, k : ShapeAt(b, 8, "down", k) = Renaming8("alethic", "kai", k)
  BY DEF ShapeAt, Others
<1>3. /\ \A b, k : ShapeAt(b, 14, "up", k) = Seeding(SeededBefore("up", k))
      /\ \A b, k : ShapeAt(b, 14, "down", k) = Seeding(SeededBefore("down", k))
  BY DEF ShapeAt, Others
<1>4. \A b, k : ShapeAt(b, 15, "up", k) = Widening(b, k)
  BY DEF ShapeAt, Others
<1>5. \A b, k : ShapeAt(b, 15, "down", k) = Narrowing(b, k)
  BY DEF ShapeAt, Others
<1>6. /\ \A b, k : ShapeAt(b, 21, "up", k) = Rewording(k)
      /\ \A b, k : ShapeAt(b, 21, "down", k) = Rewording(k)
  BY DEF ShapeAt, Others
<1>7. \A b, k : ShapeAt(b, 22, "up", k) = Renaming22(b, "alethic", "prometheus", k)
  BY DEF ShapeAt, Others
<1>8. \A b, k : ShapeAt(b, 22, "down", k) = Renaming22(b, "prometheus", "alethic", k)
  BY DEF ShapeAt, Others
<1>9. \A b, m, way, k : m \in 1..22 \ Others => ShapeAt(b, m, way, k) = Rest(m)
  BY DEF ShapeAt, Others
<1> QED
  BY <1>1, <1>2, <1>3, <1>4, <1>5, <1>6, <1>7, <1>8, <1>9

\* How long their lists are.
LEMMA OtherLengths ==
  ASSUME NEW b \in Backends
  PROVE  /\ Len(Script(b, 8, "up")) = 2 /\ Len(Script(b, 8, "down")) = 2
         /\ Len(Script(b, 14, "up")) = 2 /\ Len(Script(b, 14, "down")) = 1
         /\ b = "sqlite" =>
              /\ Len(Script(b, 15, "up")) = 5 /\ Len(Script(b, 15, "down")) = 6
              /\ Len(Script(b, 21, "up")) = 0 /\ Len(Script(b, 21, "down")) = 0
              /\ Len(Script(b, 22, "up")) = 7 /\ Len(Script(b, 22, "down")) = 7
         /\ b = "postgresql" =>
              /\ Len(Script(b, 15, "up")) = 1 /\ Len(Script(b, 15, "down")) = 2
              /\ Len(Script(b, 21, "up")) = 4 /\ Len(Script(b, 21, "down")) = 4
              /\ Len(Script(b, 22, "up")) = 5 /\ Len(Script(b, 22, "down")) = 5
<1>s. \A m : /\ Script(b, m, "up") = Migrated!History[b][m].up
             /\ Script(b, m, "down") = Migrated!History[b][m].down
  BY DEF Script
<1>1. Len(Migrated!M008.up) = 2 /\ Len(Migrated!M008.down) = 2
  BY DEF Migrated!M008, Migrated!Renames
<1>2. Len(Migrated!M014.up) = 2 /\ Len(Migrated!M014.down) = 1
  BY DEF Migrated!M014
<1>3. /\ Len(Migrated!M015("sqlite").up) = 5 /\ Len(Migrated!M015("sqlite").down) = 6
      /\ Len(Migrated!M015("postgresql").up) = 1 /\ Len(Migrated!M015("postgresql").down) = 2
  BY ScopeLists
<1>4. /\ Len(Migrated!M021("sqlite").up) = 0 /\ Len(Migrated!M021("sqlite").down) = 0
      /\ Len(Migrated!M021("postgresql").up) = 4 /\ Len(Migrated!M021("postgresql").down) = 4
  BY DEF Migrated!M021
<1>5. \A old, new : /\ Len(Migrated!Renamed("sqlite", old, new)) = 7
                    /\ Len(Migrated!Renamed("postgresql", old, new)) = 5
  BY NameLists
<1>6. /\ Migrated!M022(b).up = Migrated!Renamed(b, "alethic", "prometheus")
      /\ Migrated!M022(b).down = Migrated!Renamed(b, "prometheus", "alethic")
  BY DEF Migrated!M022
<1>h. /\ Migrated!History[b][8] = Migrated!M008 /\ Migrated!History[b][14] = Migrated!M014
      /\ Migrated!History[b][15] = Migrated!M015(b) /\ Migrated!History[b][21] = Migrated!M021(b)
      /\ Migrated!History[b][22] = Migrated!M022(b)
  BY HistoryIs
<1> QED
  BY <1>s, <1>h, <1>1, <1>2, <1>3, <1>4, <1>5, <1>6

\* The rest of the revisions beside them.
LEMMA RestsAre ==
  /\ Rest(7) = Shape(Migrated!OldScopes, Migrated!OldScopes, Migrated!ActorKinds("alethic"),
                     "kai", "kai", "alethic", {}, {}, FALSE)
  /\ Rest(8) = Shape(Migrated!OldScopes, Migrated!OldScopes, Migrated!ActorKinds("alethic"),
                     "alethic", "alethic", "alethic", {}, {}, FALSE)
  /\ Rest(13) = Shape(Migrated!OldScopes, Migrated!OldScopes, Migrated!ActorKinds("alethic"),
                      "alethic", "alethic", "alethic", {}, {}, FALSE)
  /\ Rest(14) = Shape(Migrated!OldScopes, Migrated!OldScopes, Migrated!ActorKinds("alethic"),
                      "alethic", "alethic", "alethic", {}, {}, TRUE)
  /\ Rest(15) = Shape(Migrated!Scopes, Migrated!Scopes, Migrated!ActorKinds("alethic"),
                      "alethic", "alethic", "alethic", {}, {}, TRUE)
  /\ Rest(20) = Shape(Migrated!Scopes, Migrated!Scopes, Migrated!ActorKinds("alethic"),
                      "alethic", "alethic", "alethic", {}, {}, TRUE)
  /\ Rest(21) = Shape(Migrated!Scopes, Migrated!Scopes, Migrated!ActorKinds("alethic"),
                      "alethic", "alethic", "alethic", {}, {}, TRUE)
  /\ Rest(22) = Shape(Migrated!Scopes, Migrated!Scopes, Migrated!ActorKinds("prometheus"),
                      "prometheus", "prometheus", "prometheus", {}, {}, TRUE)
<1>1. Rest(7) = Shape(Migrated!OldScopes, Migrated!OldScopes, Migrated!ActorKinds("alethic"),
                      "kai", "kai", "alethic", {}, {}, FALSE)
  <2>1. NameAt(7) = "kai" /\ LogAt(7) = "alethic" /\ ScopesAt(7) = Migrated!OldScopes /\ SeededAt(7) = FALSE
    BY DEF NameAt, LogAt, ScopesAt, SeededAt
  <2> QED
    BY <2>1 DEF Rest
<1>2. Rest(8) = Shape(Migrated!OldScopes, Migrated!OldScopes, Migrated!ActorKinds("alethic"),
                      "alethic", "alethic", "alethic", {}, {}, FALSE)
  <2>1. NameAt(8) = "alethic" /\ LogAt(8) = "alethic" /\ ScopesAt(8) = Migrated!OldScopes /\ SeededAt(8) = FALSE
    BY DEF NameAt, LogAt, ScopesAt, SeededAt
  <2> QED
    BY <2>1 DEF Rest
<1>3. Rest(13) = Shape(Migrated!OldScopes, Migrated!OldScopes, Migrated!ActorKinds("alethic"),
                       "alethic", "alethic", "alethic", {}, {}, FALSE)
  <2>1. NameAt(13) = "alethic" /\ LogAt(13) = "alethic" /\ ScopesAt(13) = Migrated!OldScopes /\ SeededAt(13) = FALSE
    BY DEF NameAt, LogAt, ScopesAt, SeededAt
  <2> QED
    BY <2>1 DEF Rest
<1>4. Rest(14) = Shape(Migrated!OldScopes, Migrated!OldScopes, Migrated!ActorKinds("alethic"),
                       "alethic", "alethic", "alethic", {}, {}, TRUE)
  <2>1. NameAt(14) = "alethic" /\ LogAt(14) = "alethic" /\ ScopesAt(14) = Migrated!OldScopes /\ SeededAt(14) = TRUE
    BY DEF NameAt, LogAt, ScopesAt, SeededAt
  <2> QED
    BY <2>1 DEF Rest
<1>5. Rest(15) = Shape(Migrated!Scopes, Migrated!Scopes, Migrated!ActorKinds("alethic"),
                       "alethic", "alethic", "alethic", {}, {}, TRUE)
  <2>1. NameAt(15) = "alethic" /\ LogAt(15) = "alethic" /\ ScopesAt(15) = Migrated!Scopes /\ SeededAt(15) = TRUE
    BY DEF NameAt, LogAt, ScopesAt, SeededAt
  <2> QED
    BY <2>1 DEF Rest
<1>6. Rest(20) = Shape(Migrated!Scopes, Migrated!Scopes, Migrated!ActorKinds("alethic"),
                       "alethic", "alethic", "alethic", {}, {}, TRUE)
  <2>1. NameAt(20) = "alethic" /\ LogAt(20) = "alethic" /\ ScopesAt(20) = Migrated!Scopes /\ SeededAt(20) = TRUE
    BY DEF NameAt, LogAt, ScopesAt, SeededAt
  <2> QED
    BY <2>1 DEF Rest
<1>7. Rest(21) = Shape(Migrated!Scopes, Migrated!Scopes, Migrated!ActorKinds("alethic"),
                       "alethic", "alethic", "alethic", {}, {}, TRUE)
  <2>1. NameAt(21) = "alethic" /\ LogAt(21) = "alethic" /\ ScopesAt(21) = Migrated!Scopes /\ SeededAt(21) = TRUE
    BY DEF NameAt, LogAt, ScopesAt, SeededAt
  <2> QED
    BY <2>1 DEF Rest
<1>8. Rest(22) = Shape(Migrated!Scopes, Migrated!Scopes, Migrated!ActorKinds("prometheus"),
                       "prometheus", "prometheus", "prometheus", {}, {}, TRUE)
  <2>1. NameAt(22) = "prometheus" /\ LogAt(22) = "prometheus" /\ ScopesAt(22) = Migrated!Scopes /\ SeededAt(22) = TRUE
    BY DEF NameAt, LogAt, ScopesAt, SeededAt
  <2> QED
    BY <2>1 DEF Rest
<1> QED
  BY <1>1, <1>2, <1>3, <1>4, <1>5, <1>6, <1>7, <1>8

\* The others change no shape.
LEMMA MostKeepTheShape ==
  ASSUME NEW m \in 1..22 \ Others
  PROVE  Rest(m - 1) = Rest(m) /\ Rest(m).gone = {}
<1>1. m \in {1, 2, 3, 4, 5, 6, 7, 9, 10, 11, 12, 13, 16, 17, 18, 19, 20}
  BY DEF Others
<1>2. /\ NameAt(m - 1) = NameAt(m) /\ LogAt(m - 1) = LogAt(m) /\ ScopesAt(m - 1) = ScopesAt(m)
      /\ SeededAt(m - 1) = SeededAt(m)
  BY <1>1 DEF NameAt, LogAt, ScopesAt, SeededAt
<1>3. Rest(m - 1) = Rest(m)
  BY <1>2 DEF Rest
<1>4. Rest(m).gone = {}
  BY DEF Rest, Shape
<1> QED
  BY <1>3, <1>4


\* Before the k-th statement there is what there is at rest at revision r.
Leads(b, m, way, k, r) == Age(m, way, k) = Size(r) /\ ShapeAt(b, m, way, k) = Rest(r)

\* A migration starts from the rest of the revision before it and ends at its own, and
\* goes back from its own to the one before.
LEMMA ListsStartAtRest ==
  ASSUME NEW b \in {"sqlite", "postgresql"}, NEW m \in 1..22
  PROVE  Leads(b, m, "up", 1, m - 1) /\ Leads(b, m, "down", 1, m)
<1>1. Age(m, "up", 1) = Size(m - 1) /\ Age(m, "down", 1) = Size(m)
  <2>1. Size(m) \in Int /\ Size(m - 1) \in Int /\ Size(m - 1) <= Size(m)
    BY SizesGrow, m - 1 \in 0..22, m \in 0..22
  <2> QED
    BY <2>1 DEF Age
<1>2. CASE m \notin Others
  BY <1>1, <1>2, MostKeepTheShape, ShapesOfTheOthers DEF Leads
<1>3. CASE m = 8
  <2>1. Renaming8("kai", "alethic", 1) =
          Shape(Migrated!OldScopes, Migrated!OldScopes, Migrated!ActorKinds("alethic"),
                "kai", "kai", "alethic", {}, {}, FALSE)
    BY DEF Renaming8
  <2>2. Renaming8("alethic", "kai", 1) =
          Shape(Migrated!OldScopes, Migrated!OldScopes, Migrated!ActorKinds("alethic"),
                "alethic", "alethic", "alethic", {}, {}, FALSE)
    BY DEF Renaming8
  <2>a. Renaming8("kai", "alethic", 1) = Rest(7) /\ Renaming8("alethic", "kai", 1) = Rest(8)
    BY <2>1, <2>2, RestsAre
  <2>3. ShapeAt(b, 8, "up", 1) = Rest(7)
    BY <2>a, ShapesOfTheOthers
  <2>4. ShapeAt(b, 8, "down", 1) = Rest(8)
    BY <2>a, ShapesOfTheOthers
  <2>5. m - 1 = 7
    BY <1>3
  <2> QED
    BY <1>1, <1>3, <2>3, <2>4, <2>5 DEF Leads
<1>a. /\ SeededBefore("up", 1) = FALSE /\ SeededBefore("down", 1) = TRUE
  BY DEF SeededBefore
<1>4. CASE m = 14
  <2>1. Seeding(FALSE) = Shape(Migrated!OldScopes, Migrated!OldScopes, Migrated!ActorKinds("alethic"),
                               "alethic", "alethic", "alethic", {}, {}, FALSE)
    BY DEF Seeding
  <2>2. Seeding(TRUE) = Shape(Migrated!OldScopes, Migrated!OldScopes, Migrated!ActorKinds("alethic"),
                              "alethic", "alethic", "alethic", {}, {}, TRUE)
    BY DEF Seeding
  <2>a. Seeding(FALSE) = Rest(13) /\ Seeding(TRUE) = Rest(14)
    BY <2>1, <2>2, RestsAre
  <2>3. ShapeAt(b, 14, "up", 1) = Rest(13)
    BY <2>a, ShapesOfTheOthers, <1>a
  <2>4. ShapeAt(b, 14, "down", 1) = Rest(14)
    BY <2>a, ShapesOfTheOthers, <1>a
  <2>5. m - 1 = 13
    BY <1>4
  <2> QED
    BY <1>1, <1>4, <2>3, <2>4, <2>5 DEF Leads
<1>5. CASE m = 15
  <2>1. Widening(b, 1) = Shape(Migrated!OldScopes, Migrated!OldScopes, Migrated!ActorKinds("alethic"),
                               "alethic", "alethic", "alethic", {}, {}, TRUE)
    BY DEF Widening, Narrowing, Scoping
  <2>2. Narrowing(b, 1) = Shape(Migrated!Scopes, Migrated!Scopes, Migrated!ActorKinds("alethic"),
                                "alethic", "alethic", "alethic", {}, {}, TRUE)
    BY DEF Widening, Narrowing, Scoping
  <2>a. Widening(b, 1) = Rest(14) /\ Narrowing(b, 1) = Rest(15)
    BY <2>1, <2>2, RestsAre
  <2>3. ShapeAt(b, 15, "up", 1) = Rest(14)
    BY <2>a, ShapesOfTheOthers
  <2>4. ShapeAt(b, 15, "down", 1) = Rest(15)
    BY <2>a, ShapesOfTheOthers
  <2>5. m - 1 = 14
    BY <1>5
  <2> QED
    BY <1>1, <1>5, <2>3, <2>4, <2>5 DEF Leads
<1>6. CASE m = 21
  <2>1. Rewording(1) = Shape(Migrated!Scopes, Migrated!Scopes, Migrated!ActorKinds("alethic"),
                             "alethic", "alethic", "alethic", {}, {}, TRUE)
    BY DEF Rewording, Scoping
  <2>2. Rewording(1) = Shape(Migrated!Scopes, Migrated!Scopes, Migrated!ActorKinds("alethic"),
                             "alethic", "alethic", "alethic", {}, {}, TRUE)
    BY DEF Rewording, Scoping
  <2>a. Rewording(1) = Rest(20) /\ Rewording(1) = Rest(21)
    BY <2>1, <2>2, RestsAre
  <2>3. ShapeAt(b, 21, "up", 1) = Rest(20)
    BY <2>a, ShapesOfTheOthers
  <2>4. ShapeAt(b, 21, "down", 1) = Rest(21)
    BY <2>a, ShapesOfTheOthers
  <2>5. m - 1 = 20
    BY <1>6
  <2> QED
    BY <1>1, <1>6, <2>3, <2>4, <2>5 DEF Leads
<1>7. CASE m = 22
  <2>1. Renaming22(b, "alethic", "prometheus", 1) =
          Shape(Migrated!Scopes, Migrated!Scopes, Migrated!ActorKinds("alethic"),
                "alethic", "alethic", "alethic", {}, {}, TRUE)
    BY DEF Renaming22, Naming
  <2>2. Renaming22(b, "prometheus", "alethic", 1) =
          Shape(Migrated!Scopes, Migrated!Scopes, Migrated!ActorKinds("prometheus"),
                "prometheus", "prometheus", "prometheus", {}, {}, TRUE)
    BY DEF Renaming22, Naming
  <2>a. Renaming22(b, "alethic", "prometheus", 1) = Rest(21) /\ Renaming22(b, "prometheus", "alethic", 1) = Rest(22)
    BY <2>1, <2>2, RestsAre
  <2>3. ShapeAt(b, 22, "up", 1) = Rest(21)
    BY <2>a, ShapesOfTheOthers
  <2>4. ShapeAt(b, 22, "down", 1) = Rest(22)
    BY <2>a, ShapesOfTheOthers
  <2>5. m - 1 = 21
    BY <1>7
  <2> QED
    BY <1>1, <1>7, <2>3, <2>4, <2>5 DEF Leads
<1> QED
  BY <1>2, <1>3, <1>4, <1>5, <1>6, <1>7 DEF Others

LEMMA ListsEndAtRest ==
  ASSUME NEW b \in Backends, NEW m \in 1..22
  PROVE  /\ Leads(b, m, "up", Len(Script(b, m, "up")) + 1, m)
         /\ Leads(b, m, "down", Len(Script(b, m, "down")) + 1, m - 1)
<1> DEFINE p == Len(Script(b, m, "up"))
           q == Len(Script(b, m, "down"))
<1> SUFFICES Leads(b, m, "up", p + 1, m) /\ Leads(b, m, "down", q + 1, m - 1)
  OBVIOUS
<1>b. b \in {"sqlite", "postgresql"}
  BY HistoryAssumption
<1>s. /\ Size(8) = 13 /\ Size(7) = 13 /\ Size(14) = 23 /\ Size(13) = 22 /\ Size(15) = 23
      /\ Size(20) = 31 /\ Size(21) = 31 /\ Size(22) = 31
  BY DEF Size
<1>t. 8 - 1 = 7 /\ 14 - 1 = 13 /\ 15 - 1 = 14 /\ 21 - 1 = 20 /\ 22 - 1 = 21
  OBVIOUS
<1>1. CASE m \notin Others
  <2>1. p = Size(m) - Size(m - 1) /\ q = Size(m) - Size(m - 1)
    BY <1>1, MostInTheHistory DEF Script, MakesAll, UnmakesAll
  <2> HIDE DEF p, q
  <2>2. Size(m) \in Int /\ Size(m - 1) \in Int /\ Size(m - 1) <= Size(m)
    BY SizesGrow, m - 1 \in 0..22, m \in 0..22
  <2>3. Size(m - 1) + (p + 1) - 1 = Size(m) /\ Size(m) + 1 - (q + 1) = Size(m - 1)
    BY <2>1, <2>2
  <2>4. Age(m, "up", p + 1) = Size(m) /\ Age(m, "down", q + 1) = Size(m - 1)
    BY <2>2, <2>3 DEF Age
  <2> QED
    BY <1>1, <2>4, MostKeepTheShape, ShapesOfTheOthers DEF Leads
<1>2. CASE m = 8
  <2>1. p = 2 /\ q = 2
    BY <1>2, OtherLengths
  <2> HIDE DEF p, q
  <2>2. p + 1 = 3 /\ q + 1 = 3
    BY <2>1
  <2>3. Renaming8("kai", "alethic", 3) =
          Shape(Migrated!OldScopes, Migrated!OldScopes, Migrated!ActorKinds("alethic"),
                "alethic", "alethic", "alethic", {}, {}, FALSE)
    BY <1>2 DEF Renaming8
  <2>4. Renaming8("alethic", "kai", 3) =
          Shape(Migrated!OldScopes, Migrated!OldScopes, Migrated!ActorKinds("alethic"),
                "kai", "kai", "alethic", {}, {}, FALSE)
    BY <1>2 DEF Renaming8
  <2>5. Age(8, "up", 3) = Size(8) /\ Age(8, "down", 3) = Size(7)
    BY <1>s, <1>t DEF Age
  <2>a. Renaming8("kai", "alethic", 3) = Rest(8) /\ Renaming8("alethic", "kai", 3) = Rest(7)
    BY <2>3, <2>4, RestsAre
  <2>6. ShapeAt(b, 8, "up", 3) = Rest(8)
    BY <2>a, ShapesOfTheOthers
  <2>7. ShapeAt(b, 8, "down", 3) = Rest(7)
    BY <2>a, ShapesOfTheOthers
  <2>8. Leads(b, 8, "up", 3, 8) /\ Leads(b, 8, "down", 3, 7)
    BY <2>5, <2>6, <2>7 DEF Leads
  <2> QED
    BY <1>2, <1>t, <2>2, <2>8
<1>a. SeededBefore("up", 3) = TRUE /\ SeededBefore("down", 2) = FALSE
  BY DEF SeededBefore
<1>3. CASE m = 14
  <2>1. p = 2 /\ q = 1
    BY <1>3, OtherLengths
  <2> HIDE DEF p, q
  <2>2. p + 1 = 3 /\ q + 1 = 2
    BY <2>1
  <2>3. Seeding(TRUE) = Shape(Migrated!OldScopes, Migrated!OldScopes, Migrated!ActorKinds("alethic"),
                              "alethic", "alethic", "alethic", {}, {}, TRUE)
    BY <1>3 DEF Seeding
  <2>4. Seeding(FALSE) = Shape(Migrated!OldScopes, Migrated!OldScopes, Migrated!ActorKinds("alethic"),
                               "alethic", "alethic", "alethic", {}, {}, FALSE)
    BY <1>3 DEF Seeding
  <2>5. Age(14, "up", 3) = Size(14) /\ Age(14, "down", 2) = Size(13)
    BY <1>s, <1>t DEF Age
  <2>a. Seeding(TRUE) = Rest(14) /\ Seeding(FALSE) = Rest(13)
    BY <2>3, <2>4, RestsAre
  <2>6. ShapeAt(b, 14, "up", 3) = Rest(14)
    BY <2>a, ShapesOfTheOthers, <1>a
  <2>7. ShapeAt(b, 14, "down", 2) = Rest(13)
    BY <2>a, ShapesOfTheOthers, <1>a
  <2>8. Leads(b, 14, "up", 3, 14) /\ Leads(b, 14, "down", 2, 13)
    BY <2>5, <2>6, <2>7 DEF Leads
  <2> QED
    BY <1>3, <1>t, <2>2, <2>8
<1>4. CASE m = 15
  <2>1. CASE b = "sqlite"
    <3>1. p = 5 /\ q = 6
      BY <1>4, <2>1, OtherLengths
    <3> HIDE DEF p, q
    <3>2. p + 1 = 6 /\ q + 1 = 7
      BY <3>1
    <3>3. Widening(b, 6) = Shape(Migrated!Scopes, Migrated!Scopes, Migrated!ActorKinds("alethic"),
                                 "alethic", "alethic", "alethic", {}, {}, TRUE)
      BY <1>4, <2>1 DEF Widening, Narrowing, Scoping
    <3>4. Narrowing(b, 7) = Shape(Migrated!OldScopes, Migrated!OldScopes, Migrated!ActorKinds("alethic"),
                                  "alethic", "alethic", "alethic", {}, {}, TRUE)
      BY <1>4, <2>1 DEF Widening, Narrowing, Scoping
    <3>5. Age(15, "up", 6) = Size(15) /\ Age(15, "down", 7) = Size(14)
      BY <1>s, <1>t DEF Age
    <3>a. Widening(b, 6) = Rest(15) /\ Narrowing(b, 7) = Rest(14)
      BY <3>3, <3>4, RestsAre
    <3>6. ShapeAt(b, 15, "up", 6) = Rest(15)
      BY <3>a, ShapesOfTheOthers
    <3>7. ShapeAt(b, 15, "down", 7) = Rest(14)
      BY <3>a, ShapesOfTheOthers
    <3>8. Leads(b, 15, "up", 6, 15) /\ Leads(b, 15, "down", 7, 14)
      BY <3>5, <3>6, <3>7 DEF Leads
    <3> QED
      BY <1>4, <1>t, <3>2, <3>8
  <2>2. CASE b = "postgresql"
    <3>1. p = 1 /\ q = 2
      BY <1>4, <2>2, OtherLengths
    <3> HIDE DEF p, q
    <3>2. p + 1 = 2 /\ q + 1 = 3
      BY <3>1
    <3>3. Widening(b, 2) = Shape(Migrated!Scopes, Migrated!Scopes, Migrated!ActorKinds("alethic"),
                                 "alethic", "alethic", "alethic", {}, {}, TRUE)
      BY <1>4, <2>2 DEF Widening, Narrowing, Scoping
    <3>4. Narrowing(b, 3) = Shape(Migrated!OldScopes, Migrated!OldScopes, Migrated!ActorKinds("alethic"),
                                  "alethic", "alethic", "alethic", {}, {}, TRUE)
      BY <1>4, <2>2 DEF Widening, Narrowing, Scoping
    <3>5. Age(15, "up", 2) = Size(15) /\ Age(15, "down", 3) = Size(14)
      BY <1>s, <1>t DEF Age
    <3>a. Widening(b, 2) = Rest(15) /\ Narrowing(b, 3) = Rest(14)
      BY <3>3, <3>4, RestsAre
    <3>6. ShapeAt(b, 15, "up", 2) = Rest(15)
      BY <3>a, ShapesOfTheOthers
    <3>7. ShapeAt(b, 15, "down", 3) = Rest(14)
      BY <3>a, ShapesOfTheOthers
    <3>8. Leads(b, 15, "up", 2, 15) /\ Leads(b, 15, "down", 3, 14)
      BY <3>5, <3>6, <3>7 DEF Leads
    <3> QED
      BY <1>4, <1>t, <3>2, <3>8
  <2> QED
    BY <1>b, <2>1, <2>2
<1>5. CASE m = 21
  <2>1. CASE b = "sqlite"
    <3>1. p = 0 /\ q = 0
      BY <1>5, <2>1, OtherLengths
    <3> HIDE DEF p, q
    <3>2. p + 1 = 1 /\ q + 1 = 1
      BY <3>1
    <3>3. Rewording(1) = Shape(Migrated!Scopes, Migrated!Scopes, Migrated!ActorKinds("alethic"),
                               "alethic", "alethic", "alethic", {}, {}, TRUE)
      BY <1>5, <2>1 DEF Rewording, Scoping
    <3>4. Rewording(1) = Shape(Migrated!Scopes, Migrated!Scopes, Migrated!ActorKinds("alethic"),
                               "alethic", "alethic", "alethic", {}, {}, TRUE)
      BY <1>5, <2>1 DEF Rewording, Scoping
    <3>5. Age(21, "up", 1) = Size(21) /\ Age(21, "down", 1) = Size(20)
      BY <1>s, <1>t DEF Age
    <3>a. Rewording(1) = Rest(21) /\ Rewording(1) = Rest(20)
      BY <3>3, <3>4, RestsAre
    <3>6. ShapeAt(b, 21, "up", 1) = Rest(21)
      BY <3>a, ShapesOfTheOthers
    <3>7. ShapeAt(b, 21, "down", 1) = Rest(20)
      BY <3>a, ShapesOfTheOthers
    <3>8. Leads(b, 21, "up", 1, 21) /\ Leads(b, 21, "down", 1, 20)
      BY <3>5, <3>6, <3>7 DEF Leads
    <3> QED
      BY <1>5, <1>t, <3>2, <3>8
  <2>2. CASE b = "postgresql"
    <3>1. p = 4 /\ q = 4
      BY <1>5, <2>2, OtherLengths
    <3> HIDE DEF p, q
    <3>2. p + 1 = 5 /\ q + 1 = 5
      BY <3>1
    <3>3. Rewording(5) = Shape(Migrated!Scopes, Migrated!Scopes, Migrated!ActorKinds("alethic"),
                               "alethic", "alethic", "alethic", {}, {}, TRUE)
      BY <1>5, <2>2 DEF Rewording, Scoping
    <3>4. Rewording(5) = Shape(Migrated!Scopes, Migrated!Scopes, Migrated!ActorKinds("alethic"),
                               "alethic", "alethic", "alethic", {}, {}, TRUE)
      BY <1>5, <2>2 DEF Rewording, Scoping
    <3>5. Age(21, "up", 5) = Size(21) /\ Age(21, "down", 5) = Size(20)
      BY <1>s, <1>t DEF Age
    <3>a. Rewording(5) = Rest(21) /\ Rewording(5) = Rest(20)
      BY <3>3, <3>4, RestsAre
    <3>6. ShapeAt(b, 21, "up", 5) = Rest(21)
      BY <3>a, ShapesOfTheOthers
    <3>7. ShapeAt(b, 21, "down", 5) = Rest(20)
      BY <3>a, ShapesOfTheOthers
    <3>8. Leads(b, 21, "up", 5, 21) /\ Leads(b, 21, "down", 5, 20)
      BY <3>5, <3>6, <3>7 DEF Leads
    <3> QED
      BY <1>5, <1>t, <3>2, <3>8
  <2> QED
    BY <1>b, <2>1, <2>2
<1>6. CASE m = 22
  <2>1. CASE b = "sqlite"
    <3>1. p = 7 /\ q = 7
      BY <1>6, <2>1, OtherLengths
    <3> HIDE DEF p, q
    <3>2. p + 1 = 8 /\ q + 1 = 8
      BY <3>1
    <3>3. Renaming22(b, "alethic", "prometheus", 8) =
            Shape(Migrated!Scopes, Migrated!Scopes, Migrated!ActorKinds("prometheus"),
                  "prometheus", "prometheus", "prometheus", {}, {}, TRUE)
      BY <1>6, <2>1 DEF Renaming22, Naming
    <3>4. Renaming22(b, "prometheus", "alethic", 8) =
            Shape(Migrated!Scopes, Migrated!Scopes, Migrated!ActorKinds("alethic"),
                  "alethic", "alethic", "alethic", {}, {}, TRUE)
      BY <1>6, <2>1 DEF Renaming22, Naming
    <3>5. Age(22, "up", 8) = Size(22) /\ Age(22, "down", 8) = Size(21)
      BY <1>s, <1>t DEF Age
    <3>a. Renaming22(b, "alethic", "prometheus", 8) = Rest(22) /\ Renaming22(b, "prometheus", "alethic", 8) = Rest(21)
      BY <3>3, <3>4, RestsAre
    <3>6. ShapeAt(b, 22, "up", 8) = Rest(22)
      BY <3>a, ShapesOfTheOthers
    <3>7. ShapeAt(b, 22, "down", 8) = Rest(21)
      BY <3>a, ShapesOfTheOthers
    <3>8. Leads(b, 22, "up", 8, 22) /\ Leads(b, 22, "down", 8, 21)
      BY <3>5, <3>6, <3>7 DEF Leads
    <3> QED
      BY <1>6, <1>t, <3>2, <3>8
  <2>2. CASE b = "postgresql"
    <3>1. p = 5 /\ q = 5
      BY <1>6, <2>2, OtherLengths
    <3> HIDE DEF p, q
    <3>2. p + 1 = 6 /\ q + 1 = 6
      BY <3>1
    <3>3. Renaming22(b, "alethic", "prometheus", 6) =
            Shape(Migrated!Scopes, Migrated!Scopes, Migrated!ActorKinds("prometheus"),
                  "prometheus", "prometheus", "prometheus", {}, {}, TRUE)
      BY <1>6, <2>2 DEF Renaming22, Naming
    <3>4. Renaming22(b, "prometheus", "alethic", 6) =
            Shape(Migrated!Scopes, Migrated!Scopes, Migrated!ActorKinds("alethic"),
                  "alethic", "alethic", "alethic", {}, {}, TRUE)
      BY <1>6, <2>2 DEF Renaming22, Naming
    <3>5. Age(22, "up", 6) = Size(22) /\ Age(22, "down", 6) = Size(21)
      BY <1>s, <1>t DEF Age
    <3>a. Renaming22(b, "alethic", "prometheus", 6) = Rest(22) /\ Renaming22(b, "prometheus", "alethic", 6) = Rest(21)
      BY <3>3, <3>4, RestsAre
    <3>6. ShapeAt(b, 22, "up", 6) = Rest(22)
      BY <3>a, ShapesOfTheOthers
    <3>7. ShapeAt(b, 22, "down", 6) = Rest(21)
      BY <3>a, ShapesOfTheOthers
    <3>8. Leads(b, 22, "up", 6, 22) /\ Leads(b, 22, "down", 6, 21)
      BY <3>5, <3>6, <3>7 DEF Leads
    <3> QED
      BY <1>6, <1>t, <3>2, <3>8
  <2> QED
    BY <1>b, <2>1, <2>2
<1> QED
  BY <1>1, <1>2, <1>3, <1>4, <1>5, <1>6 DEF Others

\* The things made and unmade on the way.
LEMMA WhenTheScopesCome ==
  ASSUME NEW m \in 1..22 \ Others
  PROVE  /\ Size(m - 1) < 12 => Rest(m).scope = Migrated!OldScopes
         /\ Size(m - 1) < 15 => Rest(m).kinds = Migrated!ActorKinds("alethic")
         /\ Size(m) < 23 \/ Size(m - 1) >= 23
         /\ Rest(m).seeded \in BOOLEAN
<1>1. m \in {1, 2, 3, 4, 5, 6, 7, 9, 10, 11, 12, 13, 16, 17, 18, 19, 20}
  BY DEF Others
<1>2. Size(m - 1) < 12 => ScopesAt(m) = Migrated!OldScopes
  BY <1>1 DEF Size, ScopesAt
<1>3. Size(m - 1) < 15 => LogAt(m) = "alethic"
  BY <1>1 DEF Size, LogAt
<1>4. Size(m) < 23 \/ Size(m - 1) >= 23
  BY <1>1 DEF Size
<1>5. SeededAt(m) \in BOOLEAN
  BY DEF SeededAt
<1>6. /\ Rest(m).scope = ScopesAt(m) /\ Rest(m).kinds = Migrated!ActorKinds(LogAt(m))
      /\ Rest(m).seeded = SeededAt(m)
  BY DEF Rest, Shape
<1> QED
  BY <1>2, <1>3, <1>4, <1>5, <1>6

LEMMA MostStepsFit ==
  ASSUME NEW b \in Backends, NEW d, IsDatabase(d), NEW x \in BOOLEAN, NEW m \in 1..22 \ Others
  PROVE  /\ \A k \in 1..Len(Script(b, m, "up")) :
              LET s == Script(b, m, "up")[k] IN
              Fits(d, x, Age(m, "up", k), Rest(m)) =>
                /\ x \/ s.op # "add" => ~Migrated!Refused(d, s)
                /\ ~Migrated!Refused(d, s) => Fits(Migrated!Done(d, s), x, Age(m, "up", k + 1), Rest(m))
         /\ \A k \in 1..Len(Script(b, m, "down")) :
              LET s == Script(b, m, "down")[k] IN
              Fits(d, x, Age(m, "down", k), Rest(m)) =>
                ~Migrated!Refused(d, s) /\ Fits(Migrated!Done(d, s), x, Age(m, "down", k + 1), Rest(m))
<1> DEFINE c == Size(m) - Size(m - 1)
           forth == Script(b, m, "up")
           back == Script(b, m, "down")
<1>1. /\ Len(forth) = c /\ \A k \in 1..c : Makes(forth[k], Size(m - 1) + k)
      /\ Len(back) = c /\ \A k \in 1..c : Unmakes(back[k], Size(m) + 1 - k)
  BY MostInTheHistory DEF Script, MakesAll, UnmakesAll
<1> HIDE DEF forth, back
<1>2. Size(m) \in Nat /\ Size(m - 1) \in Nat /\ Size(m - 1) <= Size(m)
  BY SizesGrow, m - 1 \in 0..22, m \in 0..22
<1>3. PICK g : g = Rest(m)
  OBVIOUS
<1>4. /\ g.gone = {} /\ g.seeded \in BOOLEAN
      /\ Size(m - 1) < 12 => g.scope = Migrated!OldScopes
      /\ Size(m - 1) < 15 => g.kinds = Migrated!ActorKinds("alethic")
      /\ Size(m) < 23 \/ Size(m - 1) >= 23
  BY <1>3, MostKeepTheShape, WhenTheScopesCome
<1>5. ASSUME NEW k \in 1..Len(forth), Fits(d, x, Age(m, "up", k), g)
      PROVE  /\ x \/ forth[k].op # "add" => ~Migrated!Refused(d, forth[k])
             /\ ~Migrated!Refused(d, forth[k]) => Fits(Migrated!Done(d, forth[k]), x, Age(m, "up", k + 1), g)
  <2>0. k \in 1..c
    BY <1>1, <1>5
  <2> DEFINE n == Size(m - 1) + k - 1
  <2>1. n \in Nat /\ n + 1 = Size(m - 1) + k /\ Size(m - 1) <= n /\ n < Size(m)
    BY <1>2, <2>0
  <2>2. Age(m, "up", k) = n /\ Age(m, "up", k + 1) = n + 1
    BY <1>2, <2>0 DEF Age
  <2>3. Makes(forth[k], n + 1)
    BY <1>1, <2>0, <2>1
  <2> HIDE DEF n
  <2>4. Fits(d, x, n, g)
    BY <1>5, <2>2
  <2>5. /\ n + 1 = 12 => g.scope = Migrated!OldScopes
        /\ n + 1 = 15 => g.kinds = Migrated!ActorKinds("alethic")
    BY <1>2, <1>4, <2>1
  <2>6. PICK s : s = forth[k]
    OBVIOUS
  <2>7. x \/ s.op # "add" => ~Migrated!Refused(d, s)
    BY <2>1, <2>3, <2>4, <2>6, ThingMayBeMade
  <2>8. ~Migrated!Refused(d, s) => Fits(Migrated!Done(d, s), x, n + 1, g)
    BY <1>4, <2>1, <2>3, <2>4, <2>5, <2>6, ThingIsMade
  <2> QED
    BY <2>2, <2>6, <2>7, <2>8
<1>6. ASSUME NEW k \in 1..Len(back), Fits(d, x, Age(m, "down", k), g)
      PROVE  /\ ~Migrated!Refused(d, back[k])
             /\ Fits(Migrated!Done(d, back[k]), x, Age(m, "down", k + 1), g)
  <2>0. k \in 1..c
    BY <1>1, <1>6
  <2> DEFINE n == Size(m) - k
  <2>1. n \in Nat /\ n + 1 = Size(m) + 1 - k /\ Size(m - 1) <= n /\ n < Size(m)
    BY <1>2, <2>0
  <2>2. Age(m, "down", k) = n + 1 /\ Age(m, "down", k + 1) = n
    BY <1>2, <2>0 DEF Age
  <2>3. Unmakes(back[k], n + 1)
    BY <1>1, <2>0, <2>1
  <2> HIDE DEF n
  <2>4. Fits(d, x, n + 1, g)
    BY <1>6, <2>2
  <2>5. n + 1 # 23
    BY <1>2, <1>4, <2>1
  <2>6. PICK s : s = back[k]
    OBVIOUS
  <2>7. ~Migrated!Refused(d, s)
    BY <2>1, <2>3, <2>4, <2>6, ThingMayBeUnmade
  <2>8. Fits(Migrated!Done(d, s), x, n, g)
    BY <1>4, <2>1, <2>3, <2>4, <2>5, <2>6, ThingIsUnmade
  <2> QED
    BY <2>2, <2>6, <2>7, <2>8
<1> QED
  BY <1>3, <1>5, <1>6 DEF forth, back

\* A statement of a migration, forwards or back, finds what it needs and leaves what the
\* next one needs.  It is only forwards, and only where a killed upgrade has left the
\* column it is about to add, that it may be refused.
StepFits(b, d, x, m, way, k) ==
  LET s == Script(b, m, way)[k] IN
  Fits(d, x, Age(m, way, k), ShapeAt(b, m, way, k)) =>
    /\ x \/ way # "up" \/ s.op # "add" => ~Migrated!Refused(d, s)
    /\ ~Migrated!Refused(d, s) => Fits(Migrated!Done(d, s), x, Age(m, way, k + 1), ShapeAt(b, m, way, k + 1))

LEMMA SameAge ==
  ASSUME NEW m \in {8, 15, 21, 22}, NEW way, NEW k \in Nat \ {0}
  PROVE  Age(m, way, k) = Size(m)
<1>1. m \in 1..22 /\ m \in 0..22
  OBVIOUS
<1>2. Size(m) \in 0..31 /\ Size(m) = Size(m - 1)
  BY <1>1, SizesGrow
<1>3. Size(m) + k - 1 >= Size(m) /\ Size(m) + 1 - k <= Size(m)
  BY <1>2
<1> QED
  BY <1>2, <1>3 DEF Age

LEMMA StepsFit ==
  ASSUME NEW b \in Backends, b = backend, NEW d, IsDatabase(d), NEW x \in BOOLEAN, Transactional(b, x),
         NEW m \in 1..22, NEW way \in {"up", "down"}, NEW k \in 1..Len(Script(b, m, way))
  PROVE  StepFits(b, d, x, m, way, k)
<1>b. b \in {"sqlite", "postgresql"}
  BY HistoryAssumption
<1>k. Len(Script(b, m, way)) \in Int => k \in Nat \ {0} /\ k + 1 \in Nat \ {0}
  OBVIOUS
<1>1. CASE m \notin Others
  <2>1. PICK g : g = Rest(m)
    OBVIOUS
  <2>a. m \in 1..22 \ Others /\ \A j : ShapeAt(b, m, way, j) = Rest(m)
    BY <1>1, ShapesOfTheOthers
  <2>2. ShapeAt(b, m, way, k) = g /\ ShapeAt(b, m, way, k + 1) = g
    BY <2>1, <2>a
  <2>3. CASE way = "up"
    BY <1>1, <2>1, <2>2, <2>3, MostStepsFit DEF StepFits
  <2>4. CASE way = "down"
    BY <1>1, <2>1, <2>2, <2>4, MostStepsFit DEF StepFits
  <2> QED
    BY <2>3, <2>4
<1>2. CASE m = 8
  <2>1. k \in 1..2 /\ Age(8, way, k) = 13 /\ Age(8, way, k + 1) = 13
    <3>1. Len(Script(b, m, way)) = 2
      BY <1>2, OtherLengths
    <3>2. k \in 1..2 /\ k \in Nat \ {0} /\ k + 1 \in Nat \ {0}
      BY <3>1
    <3> QED
      BY <3>2, SameAge DEF Size
  <2>2. \E old, new : /\ Script(b, 8, way) = Migrated!Renames(old, new)
                      /\ ShapeAt(b, 8, way, k) = Renaming8(old, new, k)
                      /\ ShapeAt(b, 8, way, k + 1) = Renaming8(old, new, k + 1)
    <3>1. Script(b, 8, "up") = Migrated!M008.up /\ Script(b, 8, "down") = Migrated!M008.down
      BY HistoryIs DEF Script
    <3>2. /\ Migrated!M008.up = Migrated!Renames("kai", "alethic")
          /\ Migrated!M008.down = Migrated!Renames("alethic", "kai")
      BY DEF Migrated!M008
    <3>3. CASE way = "up"
      BY <3>1, <3>2, <3>3, ShapesOfTheOthers
    <3>4. CASE way = "down"
      BY <3>1, <3>2, <3>4, ShapesOfTheOthers
    <3> QED
      BY <3>3, <3>4
  <2>3. PICK old, new : /\ Script(b, 8, way) = Migrated!Renames(old, new)
                        /\ ShapeAt(b, 8, way, k) = Renaming8(old, new, k)
                        /\ ShapeAt(b, 8, way, k + 1) = Renaming8(old, new, k + 1)
    BY <2>2
  <2>4. PICK s : s = Migrated!Renames(old, new)[k]
    OBVIOUS
  <2>5. Fits(d, x, 13, Renaming8(old, new, k)) =>
          ~Migrated!Refused(d, s) /\ Fits(Migrated!Done(d, s), x, 13, Renaming8(old, new, k + 1))
    BY <2>1, <2>4, EighthStep
  <2> QED
    BY <1>2, <2>1, <2>3, <2>4, <2>5 DEF StepFits
<1>3. CASE m = 14
  <2>1. /\ Script(b, 14, "up") = Migrated!M014.up /\ Script(b, 14, "down") = Migrated!M014.down
        /\ Len(Script(b, 14, "up")) = 2 /\ Len(Script(b, 14, "down")) = 1
    BY HistoryIs, OtherLengths DEF Script
  <2>2. /\ Age(14, "up", 1) = 22 /\ Age(14, "up", 2) = 23 /\ Age(14, "up", 3) = 23
        /\ Age(14, "down", 1) = 23 /\ Age(14, "down", 2) = 22
    BY DEF Age, Size
  <2>3. /\ SeededBefore("up", 1) = FALSE /\ SeededBefore("up", 2) = FALSE /\ SeededBefore("up", 3) = TRUE
        /\ SeededBefore("down", 1) = TRUE /\ SeededBefore("down", 2) = FALSE
    BY DEF SeededBefore
  <2>4. /\ ShapeAt(b, 14, "up", 1) = Seeding(FALSE) /\ ShapeAt(b, 14, "up", 2) = Seeding(FALSE)
        /\ ShapeAt(b, 14, "up", 3) = Seeding(TRUE)
        /\ ShapeAt(b, 14, "down", 1) = Seeding(TRUE) /\ ShapeAt(b, 14, "down", 2) = Seeding(FALSE)
    BY <2>3, ShapesOfTheOthers
  <2>5. PICK g, h : g = Seeding(FALSE) /\ h = Seeding(TRUE)
    OBVIOUS
  <2>6. /\ Fits(d, x, 22, g) => LET s == Script(b, 14, "up")[1] IN
             ~Migrated!Refused(d, s) /\ Fits(Migrated!Done(d, s), x, 23, g)
        /\ Fits(d, x, 23, g) => LET s == Script(b, 14, "up")[2] IN
             ~Migrated!Refused(d, s) /\ Fits(Migrated!Done(d, s), x, 23, h)
        /\ Fits(d, x, 23, h) => LET s == Script(b, 14, "down")[1] IN
             ~Migrated!Refused(d, s) /\ Fits(Migrated!Done(d, s), x, 22, g)
    BY <2>1, <2>5, FourteenthStep
  <2>7. 1 + 1 = 2 /\ 2 + 1 = 3
    OBVIOUS
  <2>8. StepFits(b, d, x, 14, "up", 1)
    BY <2>2, <2>4, <2>5, <2>6, <2>7 DEF StepFits
  <2>9. StepFits(b, d, x, 14, "up", 2)
    BY <2>2, <2>4, <2>5, <2>6, <2>7 DEF StepFits
  <2>10. StepFits(b, d, x, 14, "down", 1)
    BY <2>2, <2>4, <2>5, <2>6, <2>7 DEF StepFits
  <2>11. (way = "up" /\ (k = 1 \/ k = 2)) \/ (way = "down" /\ k = 1)
    <3>1. CASE way = "up"
      <4>1. Len(Script(b, m, way)) = 2
        BY <1>3, <2>1, <3>1
      <4>2. k \in 1..2
        BY <4>1
      <4> QED
        BY <3>1, <4>2
    <3>2. CASE way = "down"
      <4>1. Len(Script(b, m, way)) = 1
        BY <1>3, <2>1, <3>2
      <4>2. k \in 1..1
        BY <4>1
      <4> QED
        BY <3>2, <4>2
    <3> QED
      BY <3>1, <3>2
  <2> QED
    BY <1>3, <2>8, <2>9, <2>10, <2>11
<1>4. CASE m = 15
  <2>1. Len(Script(b, 15, way)) \in {1, 2, 5, 6}
    BY <1>b, OtherLengths
  <2>2. k \in Nat \ {0} /\ k + 1 \in Nat \ {0} /\ k \in 1..Len(Script(b, 15, way))
    BY <1>4, <2>1
  <2>3. Age(15, way, k) = 23 /\ Age(15, way, k + 1) = 23
    BY <2>2, SameAge DEF Size
  <2>4. PICK st : st = Script(b, 15, way)
    OBVIOUS
  <2>5. CASE way = "up"
    <3>1. st = Migrated!M015(b).up /\ k \in 1..Len(st)
      BY <2>2, <2>4, <2>5, HistoryIs DEF Script
    <3>2. ShapeAt(b, 15, "up", k) = Widening(b, k) /\ ShapeAt(b, 15, "up", k + 1) = Widening(b, k + 1)
      BY ShapesOfTheOthers
    <3>3. Fits(d, x, 23, Widening(b, k)) =>
            ~Migrated!Refused(d, st[k]) /\ Fits(Migrated!Done(d, st[k]), x, 23, Widening(b, k + 1))
      BY <1>b, <3>1, WideningStep
    <3> QED
      BY <1>4, <2>3, <2>4, <2>5, <3>2, <3>3 DEF StepFits
  <2>6. CASE way = "down"
    <3>1. st = Migrated!M015(b).down /\ k \in 1..Len(st)
      BY <2>2, <2>4, <2>6, HistoryIs DEF Script
    <3>2. ShapeAt(b, 15, "down", k) = Narrowing(b, k) /\ ShapeAt(b, 15, "down", k + 1) = Narrowing(b, k + 1)
      BY ShapesOfTheOthers
    <3>3. Fits(d, x, 23, Narrowing(b, k)) =>
            ~Migrated!Refused(d, st[k]) /\ Fits(Migrated!Done(d, st[k]), x, 23, Narrowing(b, k + 1))
      BY <1>b, <3>1, NarrowingStep
    <3> QED
      BY <1>4, <2>3, <2>4, <2>6, <3>2, <3>3 DEF StepFits
  <2> QED
    BY <2>5, <2>6
<1>5. CASE m = 21
  <2>1. Len(Script(b, 21, way)) \in {0, 4}
    BY <1>b, OtherLengths
  <2>2. k \in Nat \ {0} /\ k + 1 \in Nat \ {0} /\ k \in 1..Len(Script(b, 21, way))
    BY <1>5, <2>1
  <2>3. Age(21, way, k) = 31 /\ Age(21, way, k + 1) = 31
    BY <2>2, SameAge DEF Size
  <2>4. Script(b, 21, way) = Migrated!M021(b).up
    <3>1. Migrated!M021(b).down = Migrated!M021(b).up
      BY DEF Migrated!M021
    <3> QED
      BY <3>1, HistoryIs DEF Script
  <2>5. PICK st : st = Migrated!M021(b).up
    OBVIOUS
  <2>6. ShapeAt(b, 21, way, k) = Rewording(k) /\ ShapeAt(b, 21, way, k + 1) = Rewording(k + 1)
    BY ShapesOfTheOthers
  <2>7. k \in 1..Len(st)
    BY <2>2, <2>4, <2>5
  <2>8. Fits(d, x, 31, Rewording(k)) =>
          ~Migrated!Refused(d, st[k]) /\ Fits(Migrated!Done(d, st[k]), x, 31, Rewording(k + 1))
    BY <1>b, <2>5, <2>7, RewordingStep
  <2> QED
    BY <1>5, <2>3, <2>4, <2>5, <2>6, <2>8 DEF StepFits
<1>6. CASE m = 22
  <2>1. Len(Script(b, 22, way)) \in {5, 7}
    BY <1>b, OtherLengths
  <2>2. k \in Nat \ {0} /\ k + 1 \in Nat \ {0} /\ k \in 1..Len(Script(b, 22, way))
    BY <1>6, <2>1
  <2>3. Age(22, way, k) = 31 /\ Age(22, way, k + 1) = 31
    BY <2>2, SameAge DEF Size
  <2>4. \E old, new \in Migrated!Product :
           /\ Script(b, 22, way) = Migrated!Renamed(b, old, new)
           /\ ShapeAt(b, 22, way, k) = Renaming22(b, old, new, k)
           /\ ShapeAt(b, 22, way, k + 1) = Renaming22(b, old, new, k + 1)
    <3>1. Script(b, 22, "up") = Migrated!M022(b).up /\ Script(b, 22, "down") = Migrated!M022(b).down
      BY HistoryIs DEF Script
    <3>2. /\ Migrated!M022(b).up = Migrated!Renamed(b, "alethic", "prometheus")
          /\ Migrated!M022(b).down = Migrated!Renamed(b, "prometheus", "alethic")
      BY DEF Migrated!M022
    <3>3. "alethic" \in Migrated!Product /\ "prometheus" \in Migrated!Product
      BY DEF Migrated!Product
    <3>4. CASE way = "up"
      BY <3>1, <3>2, <3>3, <3>4, ShapesOfTheOthers
    <3>5. CASE way = "down"
      BY <3>1, <3>2, <3>3, <3>5, ShapesOfTheOthers
    <3> QED
      BY <3>4, <3>5
  <2>5. PICK old \in Migrated!Product, new \in Migrated!Product :
           /\ Script(b, 22, way) = Migrated!Renamed(b, old, new)
           /\ ShapeAt(b, 22, way, k) = Renaming22(b, old, new, k)
           /\ ShapeAt(b, 22, way, k + 1) = Renaming22(b, old, new, k + 1)
    BY <2>4
  <2>6. PICK st : st = Migrated!Renamed(b, old, new)
    OBVIOUS
  <2>7. k \in 1..Len(st)
    BY <2>2, <2>5, <2>6
  <2>8. Fits(d, x, 31, Renaming22(b, old, new, k)) =>
          ~Migrated!Refused(d, st[k]) /\ Fits(Migrated!Done(d, st[k]), x, 31, Renaming22(b, old, new, k + 1))
    BY <1>b, <2>6, <2>7, NamingStep
  <2> QED
    BY <1>6, <2>3, <2>5, <2>6, <2>8 DEF StepFits
<1> QED
  BY <1>1, <1>2, <1>3, <1>4, <1>5, <1>6 DEF Others

-----------------------------------------------------------------------------
(* A half-made migration on SQLite *)

\* What shows for good that a migration was cut off: a table that the revision does not
\* have yet, or the copy of one that is yet to be rebuilt.
Stuck(d) ==
  \/ \E t \in TableNames \cap DOMAIN d.tables : Born(t) > Size(d.rev)
  \/ "memory_items" \in d.copies /\ d.rev < 15
  \/ "audit_log" \in d.copies /\ d.rev < 22

\* The same before the k-th statement of what comes next: the statement that would be
\* refused for it is still to come.
TooNew(d, way, k) ==
  \E t \in TableNames \cap DOMAIN d.tables :
    Born(t) > (IF way = "up" THEN Age(d.rev + 1, way, k) ELSE Size(d.rev))
MemoryCopied(d, way, k) ==
  "memory_items" \in d.copies /\ d.rev < 15 /\ ~(way = "up" /\ d.rev = 14 /\ k > 2)
LogCopied(d, way, k) ==
  "audit_log" \in d.copies /\ d.rev < 22 /\ ~(way = "up" /\ d.rev = 21 /\ k > 1)
StuckOn(d, way, k) == TooNew(d, way, k) \/ MemoryCopied(d, way, k) \/ LogCopied(d, way, k)

\* Tables go by DROP TABLE, and copies by the CHECK that puts them in place.
LEMMA WhatStays ==
  ASSUME NEW d, IsDatabase(d), NEW s, s.op \in Known
  PROVE  /\ DOMAIN d.tables \subseteq DOMAIN Migrated!Done(d, s).tables \cup {s.of}
         /\ s.op # "drop" => DOMAIN d.tables \subseteq DOMAIN Migrated!Done(d, s).tables
         /\ d.copies \subseteq Migrated!Done(d, s).copies \cup {s.of}
         /\ s.op # "check" => d.copies \subseteq Migrated!Done(d, s).copies
<1> DEFINE e == Migrated!Done(d, s)
           Stays == /\ DOMAIN d.tables \subseteq DOMAIN e.tables \cup {s.of}
                    /\ s.op # "drop" => DOMAIN d.tables \subseteq DOMAIN e.tables
                    /\ d.copies \subseteq e.copies \cup {s.of}
                    /\ s.op # "check" => d.copies \subseteq e.copies
<1> SUFFICES Stays
  OBVIOUS
<1>f. {"rev", "tables", "columns", "accepts", "named", "memory", "text", "live", "copies", "seeded"} = DOMAIN d
  BY DatabasesHaveFields DEF FieldsOf
<1>1. CASE s.op = "create"
  <2>1. e = Migrated!Created(d, s)
    BY <1>1 DEF Migrated!Done
  <2>2. e.tables = [t \in DOMAIN d.tables \cup {s.of} |-> IF t = s.of THEN s.as ELSE d.tables[t]] /\ e.copies = d.copies
    BY <1>f, <2>1 DEF Migrated!Created
  <2> HIDE DEF e
  <2> QED
    BY <2>2
<1>2. CASE s.op = "drop"
  <2>1. e = Migrated!Dropped(d, s)
    BY <1>2 DEF Migrated!Done
  <2>2. e.tables = [t \in DOMAIN d.tables \ {s.of} |-> d.tables[t]] /\ e.copies = d.copies
    BY <1>f, <2>1 DEF Migrated!Dropped
  <2> HIDE DEF e
  <2> QED
    BY <1>2, <2>2
<1>3. CASE s.op \in {"add", "remove", "fill", "seed"}
  <2>1. e.tables = d.tables /\ e.copies = d.copies
    BY <1>3, <1>f DEF Migrated!Done
  <2> HIDE DEF e
  <2> QED
    BY <2>1
<1>4. CASE s.op = "rename"
  <2>1. e = Migrated!Renaming(d, s)
    BY <1>4 DEF Migrated!Done
  <2>2. e.tables = d.tables /\ e.copies = d.copies
    BY <1>f, <2>1 DEF Migrated!Renaming
  <2> HIDE DEF e
  <2> QED
    BY <2>2
<1>5. CASE s.op = "copy"
  <2>1. e.tables = d.tables /\ e.copies = d.copies \cup {s.of}
    BY <1>5, <1>f DEF Migrated!Done
  <2> HIDE DEF e
  <2> QED
    BY <2>1
<1>6. CASE s.op = "check"
  <2>1. e = Migrated!Checked(d, s)
    BY <1>6 DEF Migrated!Done
  <2>2. e.tables = d.tables /\ e.copies = d.copies \ {s.of}
    BY <1>f, <2>1 DEF Migrated!Checked
  <2> HIDE DEF e
  <2> QED
    BY <1>6, <2>2
<1>7. CASE s.op = "index"
  <2>1. e = Migrated!Indexed(d, s)
    BY <1>7 DEF Migrated!Done
  <2>2. e.tables = d.tables /\ e.copies = d.copies
    BY <1>f, <2>1 DEF Migrated!Indexed
  <2> HIDE DEF e
  <2> QED
    BY <2>2
<1>8. CASE s.op = "unindex"
  <2>1. e = Migrated!Unindexed(d, s)
    BY <1>8 DEF Migrated!Done
  <2>2. e.tables = d.tables /\ e.copies = d.copies
    BY <1>f, <2>1 DEF Migrated!Unindexed
  <2> HIDE DEF e
  <2> QED
    BY <2>2
<1>9. CASE s.op = "forget"
  <2>1. e = Migrated!Forgotten(d)
    BY <1>9 DEF Migrated!Done
  <2>2. e.tables = d.tables /\ e.copies = d.copies
    BY <1>f, <2>1 DEF Migrated!Forgotten
  <2> HIDE DEF e
  <2> QED
    BY <2>2
<1> QED
  BY <1>1, <1>2, <1>3, <1>4, <1>5, <1>6, <1>7, <1>8, <1>9 DEF Known

\* What the k-th statement of a migration may take away, and that a table whose number is
\* passed is being created.
Takes(b, m, way, k) ==
  LET s == Script(b, m, way)[k] IN
  /\ s.op \in Known
  /\ s.op = "drop" => way = "down" /\ s.of \in TableNames /\ Born(s.of) <= Size(m)
  /\ s.op = "check" => (m = 15 /\ s.of = "memory_items") \/ (m = 22 /\ s.of = "audit_log")
  /\ way = "up" => \A t \in TableNames :
       Born(t) > Age(m, way, k) => Born(t) > Age(m, way, k + 1) \/ (s.op = "create" /\ s.of = t)

LEMMA NumbersAreNumbers ==
  /\ \A t \in TableNames : Born(t) \in 1..31
  /\ \A t \in TableNames : Born(t) \in Int
BY OneAtATime

LEMMA SizesAround ==
  ASSUME NEW m \in 1..22
  PROVE  Size(m) \in Nat /\ Size(m - 1) \in Nat /\ Size(m - 1) <= Size(m)
BY SizesGrow, m - 1 \in 0..22, m \in 0..22

LEMMA MostTakeLittle ==
  ASSUME NEW b \in Backends, NEW m \in 1..22 \ Others, NEW way \in {"up", "down"},
         NEW k \in 1..Len(Script(b, m, way))
  PROVE  Takes(b, m, way, k)
<1> DEFINE c == Size(m) - Size(m - 1)
<1>1. /\ Len(Script(b, m, "up")) = c /\ \A j \in 1..c : Makes(Script(b, m, "up")[j], Size(m - 1) + j)
      /\ Len(Script(b, m, "down")) = c /\ \A j \in 1..c : Unmakes(Script(b, m, "down")[j], Size(m) + 1 - j)
  BY MostInTheHistory DEF Script, MakesAll, UnmakesAll
<1>2. Size(m) \in Nat /\ Size(m - 1) \in Nat /\ Size(m - 1) <= Size(m)
  BY SizesAround
<1>3. PICK p : p = Len(Script(b, m, way))
  OBVIOUS
<1>4. p = c /\ k \in 1..p
  BY <1>1, <1>3
<1>5. k \in 1..c
  BY <1>4
<1>6. CASE way = "up"
  <2> DEFINE n == Size(m - 1) + k - 1
  <2>1. n \in Nat /\ n + 1 = Size(m - 1) + k /\ n < Size(m)
    BY <1>2, <1>5
  <2>2. Age(m, "up", k) = n /\ Age(m, "up", k + 1) = n + 1
    BY <1>2, <1>5 DEF Age
  <2>3. Makes(Script(b, m, "up")[k], n + 1)
    BY <1>1, <1>5, <2>1
  <2> HIDE DEF n
  <2>4. PICK s : s = Script(b, m, "up")[k]
    OBVIOUS
  <2>5. s.op \in {"create", "add", "index"}
    <3>1. CASE \E t \in TableNames : s = [op |-> "create", of |-> t, as |-> Migrated!Declared[t]]
      BY <3>1
    <3>2. CASE \E x \in Migrated!DeclaredColumns : s = [op |-> "add", of |-> x[1], column |-> x[2]]
      BY <3>2
    <3>3. CASE \E t \in Migrated!DeclaredIndexes : s = [op |-> "index", of |-> t]
      BY <3>3
    <3> QED
      BY <2>3, <2>4, <3>1, <3>2, <3>3 DEF Makes, Migrated!Add, Migrated!IndexText
  <2>6. ASSUME NEW t \in TableNames, Born(t) > n, ~(Born(t) > n + 1)
        PROVE  s.op = "create" /\ s.of = t
    <3>0. Born(t) \in Int
      BY <2>6, NumbersAreNumbers
    <3>1. Born(t) = n + 1
      BY <2>1, <2>6, <3>0
    <3>2. \A x \in Migrated!DeclaredColumns : ColumnBorn(x) # n + 1
      BY <3>1, OneAtATime
    <3>3. \A x \in Migrated!DeclaredIndexes : IndexBorn(x) # n + 1
      BY <3>1, OneAtATime
    <3>4. PICK u \in TableNames : Born(u) = n + 1 /\ s = [op |-> "create", of |-> u, as |-> Migrated!Declared[u]]
      BY <2>3, <2>4, <3>2, <3>3 DEF Makes
    <3>5. u = t
      BY <3>1, <3>4, OneAtATime
    <3> QED
      BY <3>4, <3>5
  <2>7. \A t \in TableNames : Born(t) > n => Born(t) > n + 1 \/ (s.op = "create" /\ s.of = t)
    BY <2>6
  <2>8. s.op \in Known /\ s.op # "drop" /\ s.op # "check"
    BY <2>5 DEF Known
  <2> QED
    BY <1>6, <2>2, <2>4, <2>7, <2>8 DEF Takes
<1>7. CASE way = "down"
  <2>1. PICK s, n : s = Script(b, m, "down")[k] /\ n = Size(m) + 1 - k
    OBVIOUS
  <2>2. Unmakes(s, n) /\ n <= Size(m)
    BY <1>1, <1>2, <1>5, <2>1
  <2>3. s.op \in {"drop", "remove", "unindex"}
    BY <2>2 DEF Unmakes, Migrated!Drop, Migrated!Remove, Migrated!DropText
  <2>4. s.op = "drop" => s.of \in TableNames /\ Born(s.of) = n
    BY <2>2 DEF Unmakes, Migrated!Drop, Migrated!Remove, Migrated!DropText
  <2>5. s.op \in Known /\ s.op # "check"
    BY <2>3 DEF Known
  <2> QED
    BY <1>7, <2>1, <2>2, <2>4, <2>5 DEF Takes
<1> QED
  BY <1>6, <1>7

\* The statements of the others: none drops a table, but for the one that made the store's
\* first workspace.
Puts(s, t) ==
  /\ s.op \in {"rename", "copy", "check", "index", "unindex", "fill", "forget", "seed"}
  /\ s.op = "check" => s.of = t

LEMMA ScopesArePut ==
  ASSUME NEW b \in {"sqlite", "postgresql"}
  PROVE  /\ \A k \in 1..Len(Migrated!M015(b).up) : Puts(Migrated!M015(b).up[k], "memory_items")
         /\ \A k \in 1..Len(Migrated!M015(b).down) : Puts(Migrated!M015(b).down[k], "memory_items")
<1> DEFINE unindex == Migrated!DropText("memory_items")
           copy == Migrated!Copy("memory_items")
           wide == Migrated!Check("memory_items", "scope", Migrated!Scopes)
           narrow == Migrated!Check("memory_items", "scope", Migrated!OldScopes)
           index == Migrated!IndexText("memory_items")
           fill == Migrated!Fill
           forget == Migrated!Forget
           Fine(s) == Puts(s, "memory_items")
<1>1. Fine(unindex) /\ Fine(copy) /\ Fine(wide) /\ Fine(narrow) /\ Fine(index) /\ Fine(fill) /\ Fine(forget)
  BY DEF Puts, Migrated!DropText, Migrated!Copy, Migrated!Check, Migrated!IndexText, Migrated!Fill, Migrated!Forget
<1>2. /\ Migrated!M015("sqlite").up = <<unindex, copy, wide, index, fill>>
      /\ Migrated!M015("sqlite").down = <<forget, unindex, copy, narrow, index, fill>>
      /\ Migrated!M015("postgresql").up = <<wide>>
      /\ Migrated!M015("postgresql").down = <<forget, narrow>>
  BY ScopeLists
<1> HIDE DEF unindex, copy, wide, narrow, index, fill, forget, Fine
<1>3. /\ \A k \in 1..5 : Fine(<<unindex, copy, wide, index, fill>>[k])
      /\ \A k \in 1..6 : Fine(<<forget, unindex, copy, narrow, index, fill>>[k])
      /\ \A k \in 1..1 : Fine(<<wide>>[k])
      /\ \A k \in 1..2 : Fine(<<forget, narrow>>[k])
  BY <1>1
<1>4. /\ Len(<<unindex, copy, wide, index, fill>>) = 5 /\ Len(<<forget, unindex, copy, narrow, index, fill>>) = 6
      /\ Len(<<wide>>) = 1 /\ Len(<<forget, narrow>>) = 2
  OBVIOUS
<1>5. /\ \A k \in 1..Len(Migrated!M015(b).up) : Fine(Migrated!M015(b).up[k])
      /\ \A k \in 1..Len(Migrated!M015(b).down) : Fine(Migrated!M015(b).down[k])
  <2>1. CASE b = "sqlite"
    BY <1>2, <1>3, <1>4, <2>1
  <2>2. CASE b = "postgresql"
    BY <1>2, <1>3, <1>4, <2>2
  <2> QED
    BY <2>1, <2>2
<1> QED
  BY <1>5 DEF Fine

LEMMA NamesArePut ==
  ASSUME NEW b \in {"sqlite", "postgresql"}, NEW old, NEW new
  PROVE  \A k \in 1..Len(Migrated!Renamed(b, old, new)) : Puts(Migrated!Renamed(b, old, new)[k], "audit_log")
<1> DEFINE copy == Migrated!Copy("audit_log")
           any == Migrated!Check("audit_log", "actor_kind", Migrated!Anything)
           only == Migrated!Check("audit_log", "actor_kind", Migrated!ActorKinds(new))
           first == Migrated!Rename("audit_log", old, new)
           second == Migrated!Rename("tasks", old, new)
           third == Migrated!Rename("task_assignments", old, new)
           Fine(s) == Puts(s, "audit_log")
<1>1. Fine(copy) /\ Fine(any) /\ Fine(only) /\ Fine(first) /\ Fine(second) /\ Fine(third)
  BY DEF Puts, Migrated!Copy, Migrated!Check, Migrated!Rename
<1>2. /\ Migrated!Renamed("sqlite", old, new) = <<copy, any, first, copy, only, second, third>>
      /\ Migrated!Renamed("postgresql", old, new) = <<any, first, only, second, third>>
  BY NameLists
<1> HIDE DEF copy, any, only, first, second, third, Fine
<1>3. /\ \A k \in 1..7 : Fine(<<copy, any, first, copy, only, second, third>>[k])
      /\ \A k \in 1..5 : Fine(<<any, first, only, second, third>>[k])
  BY <1>1
<1>4. Len(<<copy, any, first, copy, only, second, third>>) = 7 /\ Len(<<any, first, only, second, third>>) = 5
  OBVIOUS
<1>5. \A k \in 1..Len(Migrated!Renamed(b, old, new)) : Fine(Migrated!Renamed(b, old, new)[k])
  <2>1. CASE b = "sqlite"
    BY <1>2, <1>3, <1>4, <2>1
  <2>2. CASE b = "postgresql"
    BY <1>2, <1>3, <1>4, <2>2
  <2> QED
    BY <2>1, <2>2
<1> QED
  BY <1>5 DEF Fine

LEMMA OthersArePut ==
  ASSUME NEW b \in {"sqlite", "postgresql"}
  PROVE  /\ \A k \in 1..2 : Puts(Migrated!M008.up[k], "tasks") /\ Puts(Migrated!M008.down[k], "tasks")
         /\ \A k \in 1..Len(Migrated!M021(b).up) :
              Puts(Migrated!M021(b).up[k], "tasks") /\ Migrated!M021(b).up[k].op \in {"index", "unindex"}
         /\ \A k \in 1..2 : Migrated!M008.up[k].op = "rename" /\ Migrated!M008.down[k].op = "rename"
<1>1. ASSUME NEW t, NEW old, NEW new
      PROVE  /\ Puts(Migrated!Rename(t, old, new), "tasks") /\ Migrated!Rename(t, old, new).op = "rename"
             /\ Puts(Migrated!DropText(t), "tasks") /\ Migrated!DropText(t).op = "unindex"
             /\ Puts(Migrated!IndexText(t), "tasks") /\ Migrated!IndexText(t).op = "index"
  BY DEF Puts, Migrated!DropText, Migrated!IndexText, Migrated!Rename
<1>2. ASSUME NEW old, NEW new, NEW k \in 1..2
      PROVE  Puts(Migrated!Renames(old, new)[k], "tasks") /\ Migrated!Renames(old, new)[k].op = "rename"
  <2>1. /\ Migrated!Renames(old, new)[1] = Migrated!Rename("tasks", old, new)
        /\ Migrated!Renames(old, new)[2] = Migrated!Rename("task_assignments", old, new)
    BY DEF Migrated!Renames
  <2> QED
    BY <1>1, <2>1
<1>3. /\ Migrated!M008.up = Migrated!Renames("kai", "alethic")
      /\ Migrated!M008.down = Migrated!Renames("alethic", "kai")
  BY DEF Migrated!M008
<1>4. ASSUME NEW k \in 1..Len(Migrated!M021(b).up)
      PROVE  Puts(Migrated!M021(b).up[k], "tasks") /\ Migrated!M021(b).up[k].op \in {"index", "unindex"}
  <2> DEFINE u == Migrated!DropText("memory_items")
             v == Migrated!DropText("chunks")
             i == Migrated!IndexText("memory_items")
             j == Migrated!IndexText("chunks")
             Fine(s) == Puts(s, "tasks") /\ s.op \in {"index", "unindex"}
  <2>1. Migrated!M021(b).up = IF b = "sqlite" THEN <<>> ELSE <<u, v, i, j>>
    BY DEF Migrated!M021
  <2>2. Fine(u) /\ Fine(v) /\ Fine(i) /\ Fine(j)
    BY <1>1
  <2> HIDE DEF u, v, i, j, Fine
  <2>3. \A n \in 1..4 : Fine(<<u, v, i, j>>[n])
    BY <2>2
  <2>4. Len(<<>>) = 0 /\ Len(<<u, v, i, j>>) = 4
    OBVIOUS
  <2>5. Fine(Migrated!M021(b).up[k])
    BY <1>4, <2>1, <2>3, <2>4
  <2> QED
    BY <2>5 DEF Fine
<1> QED
  BY <1>1, <1>2, <1>3, <1>4

MayPut(m, s) ==
  /\ s.op \in Known \ {"drop"}
  /\ s.op = "check" => (m = 15 /\ s.of = "memory_items") \/ (m = 22 /\ s.of = "audit_log")

LEMMA WhatIsPutTakesLittle ==
  ASSUME NEW b, NEW m \in {8, 15, 21, 22}, NEW way, NEW k \in Nat \ {0},
         MayPut(m, Script(b, m, way)[k])
  PROVE  Takes(b, m, way, k)
<1>1. Age(m, way, k) = Age(m, way, k + 1)
  <2>1. k + 1 \in Nat \ {0}
    OBVIOUS
  <2>2. Age(m, way, k) = Size(m) /\ Age(m, way, k + 1) = Size(m)
    BY <2>1, SameAge
  <2> QED
    BY <2>2
<1>2. PICK s : s = Script(b, m, way)[k]
  OBVIOUS
<1>3. /\ s.op \in Known /\ s.op # "drop"
      /\ s.op = "check" => (m = 15 /\ s.of = "memory_items") \/ (m = 22 /\ s.of = "audit_log")
  BY <1>2 DEF MayPut
<1> QED
  BY <1>1, <1>2, <1>3 DEF Takes

LEMMA StepsTakeLittle ==
  ASSUME NEW b \in Backends, NEW m \in 1..22, NEW way \in {"up", "down"},
         NEW k \in 1..Len(Script(b, m, way))
  PROVE  Takes(b, m, way, k)
<1>b. b \in {"sqlite", "postgresql"}
  BY HistoryAssumption
<1>h. /\ Script(b, 8, "up") = Migrated!M008.up /\ Script(b, 8, "down") = Migrated!M008.down
      /\ Script(b, 14, "up") = Migrated!M014.up /\ Script(b, 14, "down") = Migrated!M014.down
      /\ Script(b, 15, "up") = Migrated!M015(b).up /\ Script(b, 15, "down") = Migrated!M015(b).down
      /\ Script(b, 21, "up") = Migrated!M021(b).up /\ Script(b, 21, "down") = Migrated!M021(b).down
      /\ Script(b, 22, "up") = Migrated!M022(b).up /\ Script(b, 22, "down") = Migrated!M022(b).down
  BY HistoryIs DEF Script
<1>1. CASE m \notin Others
  BY <1>1, MostTakeLittle
<1>2. CASE m = 8
  <2>1. Len(Script(b, m, way)) = 2
    BY <1>2, OtherLengths
  <2>2. k \in 1..2 /\ k \in Nat \ {0}
    BY <2>1
  <2>3. Puts(Script(b, 8, way)[k], "tasks") /\ Script(b, 8, way)[k].op = "rename"
    BY <1>b, <1>h, <2>2, OthersArePut
  <2>5. MayPut(8, Script(b, 8, way)[k])
    BY <2>3 DEF MayPut, Puts, Known
  <2>6. Takes(b, 8, way, k)
    BY <2>2, <2>5, WhatIsPutTakesLittle
  <2> QED
    BY <1>2, <2>6
<1>3. CASE m = 14
  <2>1. Len(Script(b, 14, "up")) = 2 /\ Len(Script(b, 14, "down")) = 1
    BY OtherLengths
  <2>2. /\ Age(14, "up", 1) = 22 /\ Age(14, "up", 2) = 23 /\ Age(14, "up", 3) = 23
        /\ Age(14, "down", 1) = 23 /\ Age(14, "down", 2) = 22 /\ Size(14) = 23
    BY DEF Age, Size
  <2>3. 1 + 1 = 2 /\ 2 + 1 = 3
    OBVIOUS
  <2>4. Script(b, 14, "up")[1] = Migrated!Create("workspaces", "id", {}, {})
    BY <1>h DEF Migrated!M014
  <2>5. Script(b, 14, "up")[2] = Migrated!Seed
    BY <1>h DEF Migrated!M014
  <2>6. Script(b, 14, "down")[1] = Migrated!Drop("workspaces")
    BY <1>h DEF Migrated!M014
  <2>7. Takes(b, 14, "up", 1)
    <3>1. PICK s : s = Script(b, 14, "up")[1]
      OBVIOUS
    <3>2. s.op = "create" /\ s.of = "workspaces"
      BY <2>4, <3>1 DEF Migrated!Create
    <3>3. "workspaces" \in TableNames /\ Born("workspaces") = 23
      BY DEF TableNames, Born
    <3>4. \A t \in TableNames : Born(t) > 22 => Born(t) > 23 \/ t = "workspaces"
      <4>1. ASSUME NEW t \in TableNames, Born(t) > 22, ~(Born(t) > 23) PROVE t = "workspaces"
        <5>1. Born(t) \in Int
          BY <4>1, NumbersAreNumbers
        <5>2. Born(t) = 23
          BY <4>1, <5>1
        <5> QED
          BY <3>3, <4>1, <5>2, OneAtATime
      <4> QED
        BY <4>1
    <3> QED
      BY <2>2, <2>3, <3>1, <3>2, <3>4 DEF Takes, Known
  <2>8. Takes(b, 14, "up", 2)
    <3>1. PICK s : s = Script(b, 14, "up")[2]
      OBVIOUS
    <3>2. s.op = "seed"
      BY <2>5, <3>1 DEF Migrated!Seed
    <3> QED
      BY <2>2, <2>3, <3>1, <3>2 DEF Takes, Known
  <2>9. Takes(b, 14, "down", 1)
    <3>1. PICK s : s = Script(b, 14, "down")[1]
      OBVIOUS
    <3>2. s.op = "drop" /\ s.of = "workspaces"
      BY <2>6, <3>1 DEF Migrated!Drop
    <3>3. "workspaces" \in TableNames /\ Born("workspaces") <= Size(14)
      BY <2>2 DEF TableNames, Born
    <3> QED
      BY <3>1, <3>2, <3>3 DEF Takes, Known
  <2>11. (way = "up" /\ (k = 1 \/ k = 2)) \/ (way = "down" /\ k = 1)
    <3>1. CASE way = "up"
      <4>1. Len(Script(b, m, way)) = 2
        BY <1>3, <2>1, <3>1
      <4>2. k \in 1..2
        BY <4>1
      <4> QED
        BY <3>1, <4>2
    <3>2. CASE way = "down"
      <4>1. Len(Script(b, m, way)) = 1
        BY <1>3, <2>1, <3>2
      <4>2. k \in 1..1
        BY <4>1
      <4> QED
        BY <3>2, <4>2
    <3> QED
      BY <3>1, <3>2
  <2> QED
    BY <1>3, <2>7, <2>8, <2>9, <2>11
<1>4. CASE m = 15
  <2>1. Len(Script(b, 15, way)) \in {1, 2, 5, 6}
    BY <1>b, OtherLengths
  <2>2. k \in Nat \ {0} /\ k \in 1..Len(Script(b, 15, way))
    BY <1>4, <2>1
  <2>3. Puts(Script(b, 15, way)[k], "memory_items")
    <3>1. CASE way = "up"
      BY <1>b, <1>h, <2>2, <3>1, ScopesArePut
    <3>2. CASE way = "down"
      BY <1>b, <1>h, <2>2, <3>2, ScopesArePut
    <3> QED
      BY <3>1, <3>2
  <2>5. MayPut(15, Script(b, 15, way)[k])
    BY <2>3 DEF MayPut, Puts, Known
  <2>6. Takes(b, 15, way, k)
    BY <2>2, <2>5, WhatIsPutTakesLittle
  <2> QED
    BY <1>4, <2>6
<1>5. CASE m = 21
  <2>1. Len(Script(b, 21, way)) \in {0, 4}
    BY <1>b, OtherLengths
  <2>2. k \in Nat \ {0} /\ k \in 1..Len(Script(b, 21, way))
    BY <1>5, <2>1
  <2>3. Script(b, 21, way) = Migrated!M021(b).up
    <3>1. Migrated!M021(b).down = Migrated!M021(b).up
      BY DEF Migrated!M021
    <3> QED
      BY <1>h, <3>1
  <2>4. Puts(Script(b, 21, way)[k], "tasks") /\ Script(b, 21, way)[k].op \in {"index", "unindex"}
    BY <1>b, <2>2, <2>3, OthersArePut
  <2>5. MayPut(21, Script(b, 21, way)[k])
    BY <2>4 DEF MayPut, Puts, Known
  <2>6. Takes(b, 21, way, k)
    BY <2>2, <2>5, WhatIsPutTakesLittle
  <2> QED
    BY <1>5, <2>6
<1>6. CASE m = 22
  <2>1. Len(Script(b, 22, way)) \in {5, 7}
    BY <1>b, OtherLengths
  <2>2. k \in Nat \ {0} /\ k \in 1..Len(Script(b, 22, way))
    BY <1>6, <2>1
  <2>3. PICK old, new : Script(b, 22, way) = Migrated!Renamed(b, old, new)
    <3>2. /\ Migrated!M022(b).up = Migrated!Renamed(b, "alethic", "prometheus")
          /\ Migrated!M022(b).down = Migrated!Renamed(b, "prometheus", "alethic")
      BY DEF Migrated!M022
    <3> QED
      BY <1>h, <3>2
  <2>4. Puts(Script(b, 22, way)[k], "audit_log")
    BY <1>b, <2>2, <2>3, NamesArePut
  <2>5. MayPut(22, Script(b, 22, way)[k])
    BY <2>4 DEF MayPut, Puts, Known
  <2>6. Takes(b, 22, way, k)
    BY <2>2, <2>5, WhatIsPutTakesLittle
  <2> QED
    BY <1>6, <2>6
<1> QED
  BY <1>1, <1>2, <1>3, <1>4, <1>5, <1>6 DEF Others

\* The migration that is next on the way.
Coming(d, way) == IF way = "up" THEN d.rev + 1 ELSE d.rev

\* How a copied table is filled and renamed: the copy comes first, and again if it is there.
LEMMA CopiesComeFirst ==
  /\ Migrated!M015("sqlite").up[1].op = "unindex"
  /\ Migrated!M015("sqlite").up[2] = Migrated!Copy("memory_items")
  /\ Migrated!M022("sqlite").up[1] = Migrated!Copy("audit_log")
<1>1. Migrated!M015("sqlite").up[1] = Migrated!DropText("memory_items")
  BY ScopeLists
<1>2. Migrated!M015("sqlite").up[2] = Migrated!Copy("memory_items")
  BY ScopeLists
<1>3. Migrated!M022("sqlite").up = Migrated!Renamed("sqlite", "alethic", "prometheus")
  BY DEF Migrated!M022
<1>4. Migrated!Renamed("sqlite", "alethic", "prometheus")[1] = Migrated!Copy("audit_log")
  BY NameLists
<1> QED
  BY <1>1, <1>2, <1>3, <1>4 DEF Migrated!DropText

\* What is in the way stays there as long as a statement s only makes d into an e like this.
Leaves(d, e, s, m, way, k) ==
  /\ s.op # "drop" => DOMAIN d.tables \subseteq DOMAIN e.tables
  /\ DOMAIN d.tables \subseteq DOMAIN e.tables \cup {s.of}
  /\ s.op # "check" => d.copies \subseteq e.copies
  /\ d.copies \subseteq e.copies \cup {s.of}
  /\ s.op = "drop" => way = "down" /\ s.of \in TableNames /\ Born(s.of) <= Size(m)
  /\ s.op = "check" => (m = 15 /\ s.of = "memory_items") \/ (m = 22 /\ s.of = "audit_log")
  /\ s.op = "create" => s.of \notin DOMAIN d.tables
  /\ s.op = "copy" => s.of \notin d.copies
  /\ way = "up" => \A t \in TableNames :
       Born(t) > Age(m, way, k) => Born(t) > Age(m, way, k + 1) \/ (s.op = "create" /\ s.of = t)
  /\ way = "up" /\ m = 15 => (k = 1 => s.op = "unindex") /\ (k = 2 => s = Migrated!Copy("memory_items"))
  /\ way = "up" /\ m = 22 => (k = 1 => s = Migrated!Copy("audit_log"))

LEMMA WhatLeavesStays ==
  ASSUME NEW d, NEW e, NEW s, NEW m \in 1..22, NEW way \in {"up", "down"}, NEW k \in Nat \ {0},
         m = Coming(d, way), d.rev \in Int, e.rev = d.rev, Leaves(d, e, s, m, way, k),
         StuckOn(d, way, k)
  PROVE  StuckOn(e, way, k + 1)
<1>z. Size(m) \in Int
  BY SizesAround
<1>8. (way = "up" => m = d.rev + 1) /\ (way = "down" => m = d.rev)
  BY DEF Coming
<1>10. CASE TooNew(d, way, k) /\ way = "up"
  <2>1. PICK t \in TableNames : t \in DOMAIN d.tables /\ Born(t) > Age(m, way, k)
    BY <1>8, <1>10 DEF TooNew
  <2>2. Born(t) > Age(m, way, k + 1)
    BY <1>10, <2>1 DEF Leaves
  <2>3. t \in DOMAIN e.tables
    BY <1>10, <2>1 DEF Leaves
  <2>4. TooNew(e, way, k + 1)
    BY <1>8, <1>10, <2>1, <2>2, <2>3 DEF TooNew
  <2> QED
    BY <2>4 DEF StuckOn
<1>11. CASE TooNew(d, way, k) /\ way = "down"
  <2>1. PICK t \in TableNames : t \in DOMAIN d.tables /\ Born(t) > Size(m)
    BY <1>8, <1>11 DEF TooNew
  <2>2. Born(t) \in Int
    BY NumbersAreNumbers
  <2>3. s.op = "drop" => s.of # t
    BY <1>z, <2>1, <2>2 DEF Leaves
  <2>4. t \in DOMAIN e.tables
    BY <2>1, <2>3 DEF Leaves
  <2>5. TooNew(e, way, k + 1)
    BY <1>8, <1>11, <2>1, <2>4 DEF TooNew
  <2> QED
    BY <2>5 DEF StuckOn
<1>12. CASE MemoryCopied(d, way, k)
  <2>1. "memory_items" \in d.copies /\ d.rev < 15 /\ ~(way = "up" /\ d.rev = 14 /\ k > 2)
    BY <1>12 DEF MemoryCopied
  <2>2. CASE way = "up" /\ d.rev = 14
    <3>1. m = 15 /\ k \in {1, 2}
      BY <1>8, <2>1, <2>2
    <3>2. k # 2
      BY <2>1, <2>2, <3>1 DEF Leaves, Migrated!Copy
    <3>3. k = 1 /\ s.op = "unindex"
      BY <2>2, <3>1, <3>2 DEF Leaves
    <3>4. "memory_items" \in e.copies
      BY <2>1, <3>3 DEF Leaves
    <3>5. MemoryCopied(e, way, k + 1)
      BY <2>1, <3>3, <3>4 DEF MemoryCopied
    <3> QED
      BY <3>5 DEF StuckOn
  <2>3. CASE ~(way = "up" /\ d.rev = 14)
    <3>1. m # 15
      BY <1>8, <2>1, <2>3
    <3>2. "memory_items" \in e.copies
      BY <2>1, <3>1 DEF Leaves
    <3>3. MemoryCopied(e, way, k + 1)
      BY <2>1, <2>3, <3>2 DEF MemoryCopied
    <3> QED
      BY <3>3 DEF StuckOn
  <2> QED
    BY <2>2, <2>3
<1>13. CASE LogCopied(d, way, k)
  <2>1. "audit_log" \in d.copies /\ d.rev < 22 /\ ~(way = "up" /\ d.rev = 21 /\ k > 1)
    BY <1>13 DEF LogCopied
  <2>2. ~(way = "up" /\ d.rev = 21)
    <3>1. SUFFICES ASSUME way = "up", d.rev = 21 PROVE FALSE
      OBVIOUS
    <3>2. m = 22 /\ k = 1
      BY <1>8, <2>1, <3>1
    <3>3. s = Migrated!Copy("audit_log")
      BY <3>1, <3>2 DEF Leaves
    <3> QED
      BY <2>1, <3>3 DEF Migrated!Copy, Leaves
  <2>3. m # 22
    BY <1>8, <2>1, <2>2
  <2>4. "audit_log" \in e.copies
    BY <2>1, <2>3 DEF Leaves
  <2>5. LogCopied(e, way, k + 1)
    BY <2>1, <2>2, <2>4 DEF LogCopied
  <2> QED
    BY <2>5 DEF StuckOn
<1> QED
  BY <1>10, <1>11, <1>12, <1>13 DEF StuckOn

\* So a command over a half-made migration never gets past it.
LEMMA StuckStays ==
  ASSUME NEW b \in Backends, b = "sqlite", NEW d, IsDatabase(d), d.rev \in 0..22,
         NEW way \in {"up", "down"}, NEW m \in 1..22, m = Coming(d, way),
         NEW k \in 1..Len(Script(b, m, way)), StuckOn(d, way, k),
         ~Migrated!Refused(d, Script(b, m, way)[k])
  PROVE  StuckOn(Migrated!Done(d, Script(b, m, way)[k]), way, k + 1)
<1> DEFINE list == Script(b, m, way)
           s == list[k]
           e == Migrated!Done(d, s)
<1>1. Takes(b, m, way, k)
  BY StepsTakeLittle
<1>2. Orderly(b, list)
  <2>1. Orderly(b, Migrated!History[b][m].up) /\ Orderly(b, Migrated!History[b][m].down)
    BY HistoryIsOrderly
  <2> QED
    BY <2>1 DEF Script
<1>o. s.op \in Known
  BY <1>1 DEF Takes
<1>3. e.rev = d.rev
  <2>1. PICK st : st = list
    OBVIOUS
  <2>2. Migrated!Done(d, st[k]).rev = d.rev
    BY <1>2, <2>1, RevisionStays
  <2> QED
    BY <2>1, <2>2
<1>k. k \in Nat \ {0}
  <2>1. Len(list) \in Nat
    BY <1>2 DEF Orderly
  <2> QED
    BY <2>1
<1>9. /\ way = "up" /\ m = 15 => list = Migrated!M015("sqlite").up
      /\ way = "up" /\ m = 22 => list = Migrated!M022("sqlite").up
  BY HistoryIs DEF Script
<1>7. /\ s.op = "create" => s.of \notin DOMAIN d.tables
      /\ s.op = "copy" => s.of \notin d.copies
  BY DEF Migrated!Refused
<1>4. /\ DOMAIN d.tables \subseteq DOMAIN e.tables \cup {s.of}
      /\ s.op # "drop" => DOMAIN d.tables \subseteq DOMAIN e.tables
      /\ d.copies \subseteq e.copies \cup {s.of}
      /\ s.op # "check" => d.copies \subseteq e.copies
  BY <1>o, WhatStays
<1>5. /\ s.op = "drop" => way = "down" /\ s.of \in TableNames /\ Born(s.of) <= Size(m)
      /\ s.op = "check" => (m = 15 /\ s.of = "memory_items") \/ (m = 22 /\ s.of = "audit_log")
      /\ way = "up" => \A t \in TableNames :
           Born(t) > Age(m, way, k) => Born(t) > Age(m, way, k + 1) \/ (s.op = "create" /\ s.of = t)
  BY <1>1 DEF Takes
<1> HIDE DEF e
<1>6. /\ way = "up" /\ m = 15 => (k = 1 => s.op = "unindex") /\ (k = 2 => s = Migrated!Copy("memory_items"))
      /\ way = "up" /\ m = 22 => (k = 1 => s = Migrated!Copy("audit_log"))
  <2> HIDE DEF list
  <2> QED
    BY <1>9, CopiesComeFirst
<1> HIDE DEF s
<1>10. Leaves(d, e, s, m, way, k)
  BY <1>4, <1>5, <1>6, <1>7 DEF Leaves
<1>11. StuckOn(e, way, k + 1)
  <2>1. d.rev \in Int
    OBVIOUS
  <2>2. PICK i \in Nat \ {0} : i = k
    BY <1>k
  <2>3. Leaves(d, e, s, m, way, i) /\ StuckOn(d, way, i)
    BY <1>10, <2>2
  <2>4. StuckOn(e, way, i + 1)
    BY <1>3, <2>1, <2>3, WhatLeavesStays
  <2> QED
    BY <2>2, <2>4
<1> QED
  BY <1>11 DEF e, s

\* It is so at the start of a command, and is so still where one ends.
LEMMA StuckStarts ==
  ASSUME NEW d, NEW way \in {"up", "down"}, d.rev \in Int, Coming(d, way) \in 1..22, Stuck(d)
  PROVE  StuckOn(d, way, 1)
<1>1. way = "up" => Age(d.rev + 1, way, 1) = Size(d.rev)
  <2>1. SUFFICES ASSUME way = "up" PROVE Age(d.rev + 1, "up", 1) = Size(d.rev)
    OBVIOUS
  <2>2. PICK m \in 1..22 : m = d.rev + 1 /\ m - 1 = d.rev
    BY <2>1 DEF Coming
  <2>3. Leads("sqlite", m, "up", 1, m - 1)
    BY ListsStartAtRest
  <2> QED
    BY <2>2, <2>3 DEF Leads
<1>2. CASE \E t \in TableNames \cap DOMAIN d.tables : Born(t) > Size(d.rev)
  <2>1. TooNew(d, way, 1)
    BY <1>1, <1>2 DEF TooNew
  <2> QED
    BY <2>1 DEF StuckOn
<1>3. CASE "memory_items" \in d.copies /\ d.rev < 15
  BY <1>3 DEF StuckOn, MemoryCopied
<1>4. CASE "audit_log" \in d.copies /\ d.rev < 22
  BY <1>4 DEF StuckOn, LogCopied
<1> QED
  BY <1>2, <1>3, <1>4 DEF Stuck

LEMMA StuckIsStuck ==
  ASSUME NEW d, NEW way \in {"up", "down"}, d.rev \in Int, Coming(d, way) \in 1..22,
         NEW k \in Nat \ {0}, StuckOn(d, way, k)
  PROVE  Stuck(d)
<1>1. way = "up" => Age(d.rev + 1, way, k) >= Size(d.rev) /\ Age(d.rev + 1, way, k) \in Int /\ Size(d.rev) \in Int
  <2>1. SUFFICES ASSUME way = "up"
                 PROVE  /\ Age(d.rev + 1, "up", k) >= Size(d.rev) /\ Age(d.rev + 1, "up", k) \in Int
                        /\ Size(d.rev) \in Int
    OBVIOUS
  <2>2. PICK m \in 1..22 : m = d.rev + 1 /\ m - 1 = d.rev
    BY <2>1 DEF Coming
  <2>3. Size(m) \in Nat /\ Size(m - 1) \in Nat /\ Size(m - 1) <= Size(m)
    BY SizesAround
  <2>4. Age(m, "up", k) >= Size(m - 1) /\ Age(m, "up", k) \in Int
    BY <2>3 DEF Age
  <2> QED
    BY <2>2, <2>3, <2>4
<1>2. CASE TooNew(d, way, k)
  <2>1. PICK t \in TableNames \cap DOMAIN d.tables :
          Born(t) > (IF way = "up" THEN Age(d.rev + 1, way, k) ELSE Size(d.rev))
    BY <1>2 DEF TooNew
  <2>2. Born(t) \in Int
    BY NumbersAreNumbers
  <2>3. Born(t) > Size(d.rev)
    BY <1>1, <2>1, <2>2
  <2> QED
    BY <2>3 DEF Stuck
<1> QED
  BY <1>2 DEF StuckOn, MemoryCopied, LogCopied, Stuck

LEMMA StuckEnds ==
  ASSUME NEW b \in Backends, b = "sqlite", NEW d, NEW e, NEW way \in {"up", "down"}, d.rev \in Int,
         NEW m \in 1..22, m = Coming(d, way), NEW k, k = Len(Script(b, m, way)) + 1, StuckOn(d, way, k),
         e.tables = d.tables, e.copies = d.copies, e.rev = IF way = "up" THEN m ELSE m - 1
  PROVE  Stuck(e)
<1>s. Size(m) \in Nat /\ Size(m - 1) \in Nat /\ Size(m - 1) <= Size(m)
  BY SizesAround
<1>8. (way = "up" => m = d.rev + 1 /\ e.rev = m) /\ (way = "down" => m = d.rev /\ e.rev = m - 1)
  BY DEF Coming
<1>1. way = "up" => Age(m, way, k) = Size(m)
  BY ListsEndAtRest DEF Leads
<1>2. /\ way = "up" /\ m = 15 => k = 6
      /\ way = "up" /\ m = 22 => k = 8
  <2>1. Len(Script(b, 15, "up")) = 5 /\ Len(Script(b, 22, "up")) = 7
    BY OtherLengths
  <2>2. PICK n : n = Len(Script(b, m, way))
    OBVIOUS
  <2>3. /\ way = "up" /\ m = 15 => n = 5
        /\ way = "up" /\ m = 22 => n = 7
    BY <2>1, <2>2
  <2>4. k = n + 1
    BY <2>2
  <2> QED
    BY <2>3, <2>4
<1>3. CASE TooNew(d, way, k)
  <2>1. PICK t \in TableNames \cap DOMAIN d.tables :
          Born(t) > (IF way = "up" THEN Age(d.rev + 1, way, k) ELSE Size(d.rev))
    BY <1>3 DEF TooNew
  <2>2. Born(t) \in Int
    BY NumbersAreNumbers
  <2>3. Born(t) > Size(e.rev)
    <3>1. CASE way = "up"
      BY <1>1, <1>8, <2>1, <3>1
    <3>2. CASE way = "down"
      BY <1>s, <1>8, <2>1, <2>2, <3>2
    <3> QED
      BY <3>1, <3>2
  <2> QED
    BY <2>1, <2>3 DEF Stuck
<1>4. CASE MemoryCopied(d, way, k)
  <2>1. "memory_items" \in d.copies /\ d.rev < 15 /\ ~(way = "up" /\ d.rev = 14 /\ k > 2)
    BY <1>4 DEF MemoryCopied
  <2>2. ~(way = "up" /\ d.rev = 14)
    BY <1>2, <1>8, <2>1
  <2>3. e.rev < 15
    BY <1>8, <2>1, <2>2
  <2> QED
    BY <2>1, <2>3 DEF Stuck
<1>5. CASE LogCopied(d, way, k)
  <2>1. "audit_log" \in d.copies /\ d.rev < 22 /\ ~(way = "up" /\ d.rev = 21 /\ k > 1)
    BY <1>5 DEF LogCopied
  <2>2. ~(way = "up" /\ d.rev = 21)
    BY <1>2, <1>8, <2>1
  <2>3. e.rev < 22
    BY <1>8, <2>1, <2>2
  <2> QED
    BY <2>1, <2>3 DEF Stuck
<1> QED
  BY <1>3, <1>4, <1>5 DEF StuckOn

-----------------------------------------------------------------------------
(* What a kill leaves *)

\* Between two migrations, strictly or not.
AtRest(d, x) == Fits(d, x, Size(d.rev), Rest(d.rev))

LEMMA FitsLoosely ==
  ASSUME NEW d, NEW x \in BOOLEAN, NEW y \in BOOLEAN, y => x, NEW n, NEW g, Fits(d, x, n, g)
  PROVE  Fits(d, y, n, g)
BY DEF Fits

\* A table too many tells that a migration was cut off.
LEMMA TableTells ==
  ASSUME NEW d, NEW x, NEW n \in Nat, NEW g, Fits(d, x, n, g), NEW t \in TableNames,
         Born(t) > Size(d.rev), Born(t) <= n
  PROVE  Stuck(d)
<1>1. DOMAIN d.tables = Made(n)
  BY DEF Fits
<1>2. t \in DOMAIN d.tables
  BY <1>1 DEF Made
<1> QED
  BY <1>2 DEF Stuck

\* A column too many does no harm to what is there, as long as no one adds it.
LEMMA ColumnIsPassedOver ==
  ASSUME NEW d, NEW x \in BOOLEAN, NEW y \in BOOLEAN, ~y, NEW n \in Nat, NEW g, Fits(d, x, n + 1, g),
         NEW c \in Migrated!DeclaredColumns, ColumnBorn(c) = n + 1
  PROVE  Fits(d, y, n, g)
<1>1. Made(n + 1) = Made(n) /\ Covered(n + 1) = Covered(n) /\ Gained(n + 1) = Gained(n) \cup {c}
  BY OneMore
<1>2. PICK p : p = n + 1
  OBVIOUS
<1>3. Fits(d, x, p, g) /\ Made(p) = Made(n) /\ Covered(p) = Covered(n) /\ Gained(n) \subseteq Gained(p)
  BY <1>1, <1>2
<1> QED
  BY <1>3 DEF Fits

\* Nor does a text index that is gone.
LEMMA IndexIsPassedOver ==
  ASSUME NEW d, NEW x \in BOOLEAN, NEW y \in BOOLEAN, ~y, NEW n, NEW g, Fits(d, x, n, g), NEW h,
         AlikeBut(g, h, "gone"), g.scope = Migrated!OldScopes, g.gone = {"memory_items"}, h.gone = {}
  PROVE  Fits(d, y, n, h)
<1>1. /\ h.scope = g.scope /\ h.rows = g.rows /\ h.kinds = g.kinds /\ h.copies = g.copies
      /\ h.name = g.name /\ h.seeded = g.seeded
  BY DEF AlikeBut
<1>2. d.live = Covered(n) \ {"memory_items"} \/ d.live = (Covered(n) \ {"memory_items"}) \ {"memory_items"}
  BY DEF Fits
<1>3. d.live = (Covered(n) \ h.gone) \ {"memory_items"}
  BY <1>2
<1> QED
  BY <1>1, <1>3 DEF Fits

\* What the other migrations make first.
LEMMA FirstThings ==
  ASSUME NEW m \in 1..22 \ Others
  PROVE  \/ \E t \in TableNames : Born(t) = Size(m - 1) + 1
         \/ /\ \E c \in Migrated!DeclaredColumns : ColumnBorn(c) = Size(m - 1) + 1
            /\ Size(m) = Size(m - 1) + 1 \/ \E t \in TableNames : Born(t) = Size(m - 1) + 2
<1>1. m \in {1, 2, 3, 4, 5, 6, 7, 9, 10, 11, 12, 13, 16, 17, 18, 19, 20}
  BY DEF Others
<1>2. \E t \in {"employees", "llm_calls", "task_assignments", "tool_calls", "objectives", "memory_items",
                "validation_runs", "schedules", "conversations", "integrations", "documents", "secrets",
                "connections", "model_entries"} : m \notin {5, 9, 17} => Born(t) = Size(m - 1) + 1
  <2>1. /\ Born("employees") = 1 /\ Born("llm_calls") = 4 /\ Born("task_assignments") = 5
        /\ Born("tool_calls") = 6 /\ Born("objectives") = 9 /\ Born("memory_items") = 12
        /\ Born("validation_runs") = 17 /\ Born("schedules") = 18 /\ Born("conversations") = 20
        /\ Born("integrations") = 22 /\ Born("documents") = 24 /\ Born("secrets") = 28
        /\ Born("connections") = 29 /\ Born("model_entries") = 30
    BY DEF Born
  <2>2. m \notin {5, 9, 17} => Size(m - 1) + 1 \in {1, 4, 5, 6, 9, 12, 17, 18, 20, 22, 24, 28, 29, 30}
    BY <1>1 DEF Size
  <2> QED
    BY <2>1, <2>2
<1>3. m \in {5, 9, 17} =>
        /\ \E c \in Migrated!DeclaredColumns : ColumnBorn(c) = Size(m - 1) + 1
        /\ Size(m) = Size(m - 1) + 1 \/ \E t \in TableNames : Born(t) = Size(m - 1) + 2
  <2>1. /\ m = 5 => Size(m - 1) = 7 /\ Size(m) = 8
        /\ m = 9 => Size(m - 1) = 13
        /\ m = 17 => Size(m - 1) = 26 /\ Size(m) = 27
    BY DEF Size
  <2>2. Born("audit_log") = 15 /\ "audit_log" \in TableNames
    BY DEF Born, TableNames
  <2>0. /\ ColumnBorn(<<"tool_calls", "interface">>) = 8 /\ ColumnBorn(<<"approvals", "expires_at">>) = 14
        /\ ColumnBorn(<<"approvals", "tool">>) = 27
    BY DEF ColumnBorn
  <2>3. \E c \in Migrated!DeclaredColumns : ColumnBorn(c) = 8
    BY <2>0 DEF Migrated!DeclaredColumns
  <2>4. \E c \in Migrated!DeclaredColumns : ColumnBorn(c) = 14
    BY <2>0 DEF Migrated!DeclaredColumns
  <2>5. \E c \in Migrated!DeclaredColumns : ColumnBorn(c) = 27
    BY <2>0 DEF Migrated!DeclaredColumns
  <2> QED
    BY <2>1, <2>2, <2>3, <2>4, <2>5
<1> QED
  BY <1>2, <1>3 DEF TableNames

\* The statements that open SQLite's transaction in the migrations that change rows.
LEMMA RowsChange ==
  /\ Migrated!ChangesRows(Migrated!M008.up[1]) /\ Migrated!ChangesRows(Migrated!M014.up[2])
  /\ Migrated!ChangesRows(Migrated!M015("sqlite").up[3])
  /\ Migrated!ChangesRows(Migrated!M022("sqlite").up[2])
<1>1. Migrated!M008.up[1].op = "rename"
  BY OthersArePut, BackendsAreTwo
<1>2. Migrated!M014.up[2] = Migrated!Seed
  BY DEF Migrated!M014
<1>3. Migrated!M015("sqlite").up[3] = Migrated!Check("memory_items", "scope", Migrated!Scopes)
  BY ScopeLists
<1>4. Migrated!M022("sqlite").up = Migrated!Renamed("sqlite", "alethic", "prometheus")
  BY DEF Migrated!M022
<1>5. Migrated!Renamed("sqlite", "alethic", "prometheus")[2]
        = Migrated!Check("audit_log", "actor_kind", Migrated!Anything)
  BY NameLists
<1> QED
  BY <1>1, <1>2, <1>3, <1>4, <1>5 DEF Migrated!ChangesRows, Migrated!Seed, Migrated!Check

Unopened(st, k) == \A j \in 1..k - 1 : ~Migrated!ChangesRows(st[j])

LEMMA MostAreSafeUnopened ==
  ASSUME NEW d, NEW x \in BOOLEAN, NEW y \in BOOLEAN, ~y, NEW m \in 1..22 \ Others, d.rev = m - 1,
         NEW k \in Nat \ {0}, Fits(d, x, Age(m, "up", k), Rest(m))
  PROVE  AtRest(d, y) \/ Stuck(d)
<1> DEFINE n == Size(m - 1)
<1>1. PICK g : g = Rest(m) /\ g = Rest(m - 1)
  BY MostKeepTheShape
<1>2. n \in Nat /\ Size(m) \in Nat /\ n <= Size(m)
  BY SizesAround
<1>3. AtRest(d, y) <=> Fits(d, y, n, g)
  BY <1>1 DEF AtRest
<1>4. Age(m, "up", k) = IF n + k - 1 < Size(m) THEN n + k - 1 ELSE Size(m)
  BY DEF Age
<1>5. PICK p \in Nat : p = Age(m, "up", k)
  BY <1>2, <1>4
<1>r. Size(d.rev) = n
  OBVIOUS
<1>6. Fits(d, x, p, g)
  BY <1>1, <1>5
<1> HIDE DEF n
<1>7. CASE p = n
  <2>1. Fits(d, y, n, g)
    BY <1>6, <1>7, FitsLoosely
  <2> QED
    BY <1>3, <2>1
<1>8. CASE p # n
  <2>1. p >= n + 1 /\ (p >= n + 2 \/ p = n + 1)
    BY <1>2, <1>4, <1>5, <1>8
  <2>2. CASE \E t \in TableNames : Born(t) = n + 1
    <3>1. PICK t \in TableNames : Born(t) = n + 1
      BY <2>2
    <3>2. Born(t) > Size(d.rev) /\ Born(t) <= p
      BY <1>2, <1>r, <2>1, <3>1
    <3> QED
      BY <1>6, <3>2, TableTells
  <2>3. CASE /\ \E c \in Migrated!DeclaredColumns : ColumnBorn(c) = n + 1
             /\ Size(m) = n + 1 \/ \E t \in TableNames : Born(t) = n + 2
    <3>1. CASE p = n + 1
      <4>1. PICK c \in Migrated!DeclaredColumns : ColumnBorn(c) = n + 1
        BY <2>3
      <4>2. Fits(d, x, n + 1, g)
        BY <1>6, <3>1
      <4>3. Fits(d, y, n, g)
        BY <1>2, <4>1, <4>2, ColumnIsPassedOver
      <4> QED
        BY <1>3, <4>3
    <3>2. CASE p >= n + 2
      <4>1. Size(m) # n + 1
        BY <1>2, <1>4, <1>5, <3>2
      <4>2. PICK t \in TableNames : Born(t) = n + 2
        BY <2>3, <4>1
      <4>3. Born(t) > Size(d.rev) /\ Born(t) <= p
        BY <1>2, <1>r, <3>2, <4>2
      <4> QED
        BY <1>6, <4>3, TableTells
    <3> QED
      BY <2>1, <3>1, <3>2
  <2> QED
    BY <2>2, <2>3, FirstThings DEF n
<1> QED
  BY <1>7, <1>8

\* Before SQLite's transaction is open a kill leaves the revision as it was, or a table or a
\* copy that tells.
LEMMA UnopenedIsSafe ==
  ASSUME NEW b \in Backends, b = "sqlite", NEW d, NEW x \in BOOLEAN, NEW y \in BOOLEAN, ~y,
         NEW m \in 1..22, d.rev = m - 1,
         NEW k \in Nat \ {0}, Unopened(Script(b, m, "up"), k),
         k <= Len(Script(b, m, "up")) + 1,
         Fits(d, x, Age(m, "up", k), ShapeAt(b, m, "up", k))
  PROVE  AtRest(d, y) \/ Stuck(d)
<1>h. /\ Script(b, 8, "up") = Migrated!M008.up /\ Script(b, 14, "up") = Migrated!M014.up
      /\ Script(b, 15, "up") = Migrated!M015("sqlite").up /\ Script(b, 22, "up") = Migrated!M022("sqlite").up
  BY HistoryIs DEF Script
<1>1. CASE k = 1
  <2>1. Leads(b, m, "up", 1, m - 1)
    BY ListsStartAtRest
  <2>2. Fits(d, x, Size(d.rev), Rest(d.rev))
    BY <1>1, <2>1 DEF Leads
  <2>3. PICK n, g : n = Size(d.rev) /\ g = Rest(d.rev)
    OBVIOUS
  <2>4. Fits(d, y, n, g)
    BY <2>2, <2>3, FitsLoosely
  <2> QED
    BY <2>3, <2>4 DEF AtRest
<1>2. CASE m \notin Others
  <2>1. ShapeAt(b, m, "up", k) = Rest(m)
    BY <1>2, ShapesOfTheOthers
  <2>2. m \in 1..22 \ Others /\ Fits(d, x, Age(m, "up", k), Rest(m))
    BY <1>2, <2>1
  <2> QED
    BY <2>2, MostAreSafeUnopened
<1>3. CASE m = 8
  <2>1. ~(1 \in 1..k - 1)
    BY <1>3, <1>h, RowsChange DEF Unopened
  <2> QED
    BY <1>1, <2>1
<1>4. CASE m = 14
  <2>1. ~(2 \in 1..k - 1)
    BY <1>4, <1>h, RowsChange DEF Unopened
  <2>2. CASE k = 2
    <3>1. Age(14, "up", 2) = 23 /\ Size(13) = 22
      BY DEF Age, Size
    <3>2. PICK g : g = ShapeAt(b, m, "up", k)
      OBVIOUS
    <3>3. Fits(d, x, 23, g) /\ Size(d.rev) = 22
      BY <1>4, <2>2, <3>1, <3>2
    <3>4. "workspaces" \in TableNames /\ Born("workspaces") = 23
      BY DEF TableNames, Born
    <3>5. PICK n \in Nat, t \in TableNames : n = 23 /\ t = "workspaces"
      BY <3>4
    <3>6. Fits(d, x, n, g) /\ Born(t) > Size(d.rev) /\ Born(t) <= n
      BY <3>3, <3>4, <3>5
    <3> QED
      BY <3>6, TableTells
  <2> QED
    BY <1>1, <2>1, <2>2
<1>5. CASE m = 15
  <2>1. ~(3 \in 1..k - 1)
    BY <1>5, <1>h, RowsChange DEF Unopened
  <2>2. CASE k = 2
    <3>1. Age(15, "up", 2) = Size(14)
      BY DEF Age, Size
    <3>2. PICK g : g = Widening("sqlite", 2)
      OBVIOUS
    <3>3. ShapeAt(b, 15, "up", 2) = g
      BY <3>2, ShapesOfTheOthers
    <3>4. Fits(d, x, Size(14), g) /\ d.rev = 14
      BY <1>5, <2>2, <3>1, <3>3
    <3>5. g = Shape(Migrated!OldScopes, Migrated!OldScopes, Migrated!ActorKinds("alethic"),
                    "alethic", "alethic", "alethic", {"memory_items"}, {}, TRUE)
      BY <3>2 DEF Widening, Scoping
    <3>6. PICK h : h = Rest(14)
      OBVIOUS
    <3>7. h = Shape(Migrated!OldScopes, Migrated!OldScopes, Migrated!ActorKinds("alethic"),
                    "alethic", "alethic", "alethic", {}, {}, TRUE)
      BY <3>6, RestsAre
    <3>8. AlikeBut(g, h, "gone") /\ g.scope = Migrated!OldScopes /\ g.gone = {"memory_items"} /\ h.gone = {}
      BY <3>5, <3>7 DEF AlikeBut, Shape
    <3>9. Fits(d, y, Size(14), h)
      BY <3>4, <3>8, IndexIsPassedOver
    <3> QED
      BY <3>4, <3>6, <3>9 DEF AtRest
  <2>3. CASE k = 3
    <3>1. ShapeAt(b, 15, "up", 3) = Widening("sqlite", 3)
      BY ShapesOfTheOthers
    <3>2. Widening("sqlite", 3).copies = {"memory_items"}
      BY DEF Widening, Scoping, Shape
    <3>3. d.copies = {"memory_items"} /\ d.rev = 14
      BY <1>5, <2>3, <3>1, <3>2 DEF Fits
    <3> QED
      BY <3>3 DEF Stuck
  <2> QED
    BY <1>1, <2>1, <2>2, <2>3
<1>6. CASE m = 21
  <2>1. Len(Script(b, 21, "up")) = 0
    BY OtherLengths
  <2>2. k = 1
    BY <1>6, <2>1
  <2> QED
    BY <1>1, <2>2
<1>7. CASE m = 22
  <2>1. ~(2 \in 1..k - 1)
    BY <1>7, <1>h, RowsChange DEF Unopened
  <2>2. CASE k = 2
    <3>1. ShapeAt(b, 22, "up", 2) = Renaming22("sqlite", "alethic", "prometheus", 2)
      BY ShapesOfTheOthers
    <3>2. Renaming22("sqlite", "alethic", "prometheus", 2).copies = {"audit_log"}
      BY DEF Renaming22, Naming, Shape
    <3>3. d.copies = {"audit_log"} /\ d.rev = 21
      BY <1>7, <2>2, <3>1, <3>2 DEF Fits
    <3> QED
      BY <3>3 DEF Stuck
  <2> QED
    BY <1>1, <2>1, <2>2
<1> QED
  BY <1>2, <1>3, <1>4, <1>5, <1>6, <1>7 DEF Others

-----------------------------------------------------------------------------
(* A command from its beginning to its end *)

\* Between two commands a database is at rest at its revision, or a killed upgrade has left
\* something that refuses every later one.
Sound(x, d) == AtRest(d, x) \/ (~x /\ Stuck(d))

\* Before the k-th statement it is as that statement expects it, or the statement that is
\* to be refused is still to come, and what a kill leaves is no better.
Midway(b, x, d, z, way, k) ==
  \/ Fits(d, x, Age(Coming(d, way), way, k), ShapeAt(b, Coming(d, way), way, k))
  \/ ~x /\ StuckOn(d, way, k) /\ Stuck(z)

LEMMA SoundLoosely ==
  ASSUME NEW d, NEW x \in BOOLEAN, NEW y \in BOOLEAN, y => x, Sound(x, d)
  PROVE  Sound(y, d)
<1>1. CASE AtRest(d, x)
  <2>1. PICK n, g : n = Size(d.rev) /\ g = Rest(d.rev)
    OBVIOUS
  <2>2. Fits(d, x, n, g)
    BY <1>1, <2>1 DEF AtRest
  <2>3. Fits(d, y, n, g)
    BY <2>2, FitsLoosely
  <2> QED
    BY <2>1, <2>3 DEF AtRest, Sound
<1>2. CASE ~x /\ Stuck(d)
  BY <1>2 DEF Sound
<1> QED
  BY <1>1, <1>2 DEF Sound

LEMMA MidwayStarts ==
  ASSUME NEW b \in {"sqlite", "postgresql"}, NEW x \in BOOLEAN, NEW d, d.rev \in Int, NEW z, x \/ z = d,
         NEW way \in {"up", "down"}, Coming(d, way) \in 1..22, Sound(x, d)
  PROVE  Midway(b, x, d, z, way, 1)
<1>1. CASE AtRest(d, x)
  <2>1. PICK m \in 1..22 : m = Coming(d, way)
    OBVIOUS
  <2>2. Leads(b, m, "up", 1, m - 1) /\ Leads(b, m, "down", 1, m)
    BY ListsStartAtRest
  <2>3. (way = "up" => d.rev = m - 1) /\ (way = "down" => d.rev = m)
    BY <2>1 DEF Coming
  <2>4. Leads(b, m, way, 1, d.rev)
    BY <2>2, <2>3
  <2>5. Fits(d, x, Age(m, way, 1), ShapeAt(b, m, way, 1))
    BY <1>1, <2>4 DEF Leads, AtRest
  <2> QED
    BY <2>1, <2>5 DEF Midway
<1>2. CASE ~x /\ Stuck(d)
  <2>1. StuckOn(d, way, 1)
    BY <1>2, StuckStarts
  <2> QED
    BY <1>2, <2>1 DEF Midway
<1> QED
  BY <1>1, <1>2 DEF Sound

\* Only where a killed upgrade has left something is a statement refused.
LEMMA MidwayRefuses ==
  ASSUME NEW b \in Backends, b = backend, NEW x \in BOOLEAN, Transactional(b, x), NEW d, IsDatabase(d), NEW z,
         NEW way \in {"up", "down"}, NEW m \in 1..22, m = Coming(d, way),
         NEW k \in 1..Len(Script(b, m, way)), Midway(b, x, d, z, way, k),
         Migrated!Refused(d, Script(b, m, way)[k])
  PROVE  ~x /\ (way = "up" \/ Stuck(z))
<1>1. CASE Fits(d, x, Age(m, way, k), ShapeAt(b, m, way, k))
  <2>1. StepFits(b, d, x, m, way, k)
    BY StepsFit
  <2> QED
    BY <1>1, <2>1 DEF StepFits
<1> QED
  BY <1>1 DEF Midway

LEMMA MidwayGoesOn ==
  ASSUME NEW b \in Backends, b = backend, NEW x \in BOOLEAN, Transactional(b, x), NEW d, IsDatabase(d),
         d.rev \in 0..22, NEW z, NEW way \in {"up", "down"}, NEW m \in 1..22, m = Coming(d, way),
         NEW k \in 1..Len(Script(b, m, way)), Midway(b, x, d, z, way, k),
         ~Migrated!Refused(d, Script(b, m, way)[k]), NEW e, e = Migrated!Done(d, Script(b, m, way)[k]),
         e.rev = d.rev, NEW v, v \in {z, e}
  PROVE  Midway(b, x, e, v, way, k + 1)
<1>1. Coming(e, way) = m
  BY DEF Coming
<1>2. CASE Fits(d, x, Age(m, way, k), ShapeAt(b, m, way, k))
  <2>1. StepFits(b, d, x, m, way, k)
    BY StepsFit
  <2>2. Fits(e, x, Age(m, way, k + 1), ShapeAt(b, m, way, k + 1))
    BY <1>2, <2>1 DEF StepFits
  <2> QED
    BY <1>1, <2>2 DEF Midway
<1>3. CASE ~x /\ StuckOn(d, way, k) /\ Stuck(z)
  <2>1. b = "sqlite"
    BY <1>3, HistoryAssumption DEF Transactional
  <2>2. StuckOn(e, way, k + 1)
    BY <1>3, <2>1, StuckStays
  <2>3. k + 1 \in Nat \ {0}
    <3>1. PICK p : p = Len(Script(b, m, way))
      OBVIOUS
    <3> QED
      BY <3>1
  <2>4. Stuck(e)
    <3>1. PICK j \in Nat \ {0} : j = k + 1
      BY <2>3
    <3>2. StuckOn(e, way, j)
      BY <2>2, <3>1
    <3>3. e.rev \in Int
      OBVIOUS
    <3>4. Coming(e, way) \in 1..22
      BY <1>1
    <3> QED
      BY <3>2, <3>3, <3>4, StuckIsStuck
  <2> QED
    BY <1>3, <2>2, <2>4 DEF Midway
<1> QED
  BY <1>2, <1>3 DEF Midway

\* Of the database d, e has another revision and the same schema and rows.
Restamped(d, e, r) ==
  /\ e.rev = r /\ e.tables = d.tables /\ e.columns = d.columns /\ e.accepts = d.accepts
  /\ e.named = d.named /\ e.memory = d.memory /\ e.live = d.live /\ e.copies = d.copies
  /\ e.seeded = d.seeded

\* The revision that is stamped is the one the statements have led to.
LEMMA MidwayEnds ==
  ASSUME NEW b \in Backends, NEW x \in BOOLEAN, Transactional(b, x), NEW d, d.rev \in Int, NEW z,
         NEW way \in {"up", "down"}, NEW m \in 1..22, m = Coming(d, way),
         NEW k, k = Len(Script(b, m, way)) + 1, Midway(b, x, d, z, way, k),
         NEW e, Restamped(d, e, IF way = "up" THEN m ELSE m - 1)
  PROVE  Sound(x, e)
<1> DEFINE r == IF way = "up" THEN m ELSE m - 1
<1>1. /\ e.rev = r /\ e.tables = d.tables /\ e.columns = d.columns /\ e.accepts = d.accepts
      /\ e.named = d.named /\ e.memory = d.memory /\ e.live = d.live /\ e.copies = d.copies
      /\ e.seeded = d.seeded
  BY DEF Restamped
<1>2. CASE Fits(d, x, Age(m, way, k), ShapeAt(b, m, way, k))
  <2>1. Leads(b, m, way, k, r)
    BY ListsEndAtRest
  <2>2. PICK n, g : n = Size(r) /\ g = Rest(r)
    OBVIOUS
  <2>3. Fits(d, x, n, g)
    BY <1>2, <2>1, <2>2 DEF Leads
  <2>4. Fits(e, x, n, g)
    BY <1>1, <2>3 DEF Fits
  <2> QED
    BY <1>1, <2>2, <2>4 DEF Sound, AtRest
<1>3. CASE ~x /\ StuckOn(d, way, k)
  <2>1. b = "sqlite"
    BY <1>3, HistoryAssumption DEF Transactional
  <2>2. /\ StuckOn(d, way, k) /\ e.tables = d.tables /\ e.copies = d.copies
        /\ e.rev = IF way = "up" THEN m ELSE m - 1
    BY <1>1, <1>3
  <2>3. Stuck(e)
    BY <2>1, <2>2, StuckEnds
  <2> QED
    BY <1>3, <2>3 DEF Sound
<1> QED
  BY <1>2, <1>3 DEF Midway

\* The rows the programs of the day write leave it so.
LEMMA NameIsWritten ==
  ASSUME NEW x \in BOOLEAN, NEW d, IsDatabase(d), d.rev \in 0..22, Sound(x, d), NEW t \in NamedTables,
         t \in DOMAIN d.tables, NEW name,
         name = IF d.rev < 8 THEN "kai" ELSE IF d.rev < 22 THEN "alethic" ELSE "prometheus",
         t = "audit_log" => name \in d.accepts.actor_kind,
         NEW e, e = [d EXCEPT !.named[t] = name]
  PROVE  Sound(x, e)
<1>1. FieldsOf(d)
  BY DatabasesHaveFields
<1>2. /\ e.rev = d.rev /\ e.tables = d.tables /\ e.columns = d.columns /\ e.accepts = d.accepts
      /\ e.named = [d.named EXCEPT ![t] = name] /\ e.memory = d.memory /\ e.live = d.live
      /\ e.copies = d.copies /\ e.seeded = d.seeded
  BY <1>1 DEF FieldsOf
<1>3. CASE AtRest(d, x)
  <2>1. PICK n, g : n = Size(d.rev) /\ g = Rest(d.rev)
    OBVIOUS
  <2>2. Fits(d, x, n, g)
    BY <1>3, <2>1 DEF AtRest
  <2>3. name = NameAt(d.rev)
    BY DEF NameAt
  <2>4. /\ g.kinds = Migrated!ActorKinds(LogAt(d.rev))
        /\ g.name["tasks"] = NameAt(d.rev) /\ g.name["task_assignments"] = NameAt(d.rev)
        /\ g.name["audit_log"] = LogAt(d.rev)
    BY <2>1 DEF Rest, Shape, NamedTables
  <2>5. t \in Made(n)
    BY <2>2 DEF Fits
  <2>6. t = "audit_log" => name = LogAt(d.rev)
    <3>1. SUFFICES ASSUME t = "audit_log" PROVE name = LogAt(d.rev)
      OBVIOUS
    <3>2. d.accepts.actor_kind = g.kinds
      BY <2>2, <2>5, <3>1 DEF Fits
    <3>3. name \in Migrated!ActorKinds(LogAt(d.rev))
      BY <2>4, <3>1, <3>2
    <3> QED
      BY <3>3 DEF LogAt, Migrated!ActorKinds
  <2>7. name = g.name[t]
    BY <2>3, <2>4, <2>6 DEF NamedTables
  <2>8. \A u \in NamedTables : e.named[u] = IF u = t THEN name ELSE d.named[u]
    <3>1. d.named = [u \in NamedTables |-> d.named[u]]
      BY <2>2 DEF Fits
    <3> QED
      BY <1>2, <3>1
  <2>9. e.named = [u \in NamedTables |-> e.named[u]]
    <3>1. d.named = [u \in NamedTables |-> d.named[u]]
      BY <2>2 DEF Fits
    <3> QED
      BY <1>2, <3>1
  <2>10. \A u \in NamedTables : e.named[u] = "none" \/ (e.named[u] = g.name[u] /\ u \in Made(n))
    BY <2>2, <2>5, <2>7, <2>8 DEF Fits
  <2>11. Fits(e, x, n, g)
    BY <1>2, <2>2, <2>9, <2>10 DEF Fits
  <2> QED
    BY <1>2, <2>1, <2>11 DEF Sound, AtRest
<1>4. CASE ~x /\ Stuck(d)
  <2>1. Stuck(e)
    BY <1>2, <1>4 DEF Stuck
  <2> QED
    BY <1>4, <2>1 DEF Sound
<1> QED
  BY <1>3, <1>4 DEF Sound

LEMMA MemoryIsWritten ==
  ASSUME NEW x \in BOOLEAN, NEW d, IsDatabase(d), Sound(x, d), "memory_items" \in DOMAIN d.tables,
         NEW i \in Notes, NEW row, row.scope = "none" \/ row.scope \in d.accepts.scope,
         NEW words, NEW e, e = [d EXCEPT !.memory[i] = row, !.text = words]
  PROVE  Sound(x, e)
<1>1. FieldsOf(d)
  BY DatabasesHaveFields
<1>2. /\ e.rev = d.rev /\ e.tables = d.tables /\ e.columns = d.columns /\ e.accepts = d.accepts
      /\ e.named = d.named /\ e.memory = [d.memory EXCEPT ![i] = row] /\ e.live = d.live
      /\ e.copies = d.copies /\ e.seeded = d.seeded
  BY <1>1 DEF FieldsOf
<1>3. CASE AtRest(d, x)
  <2>1. PICK n, g : n = Size(d.rev) /\ g = Rest(d.rev)
    OBVIOUS
  <2>2. Fits(d, x, n, g)
    BY <1>3, <2>1 DEF AtRest
  <2>3. d.accepts.scope = g.scope
    <3>1. "memory_items" \in Made(n)
      BY <2>2 DEF Fits
    <3> QED
      BY <2>2, <3>1 DEF Fits
  <2>4. g.rows = g.scope
    BY <2>1 DEF Rest, Shape
  <2>5. \A j \in Notes : e.memory[j] = IF j = i THEN row ELSE d.memory[j]
    BY <1>2 DEF IsDatabase
  <2>6. \A j \in Notes : e.memory[j].scope \in {"none"} \cup g.rows
    BY <2>2, <2>3, <2>4, <2>5 DEF Fits
  <2>7. Fits(e, x, n, g)
    BY <1>2, <2>2, <2>6 DEF Fits
  <2> QED
    BY <1>2, <2>1, <2>7 DEF Sound, AtRest
<1>4. CASE ~x /\ Stuck(d)
  <2>1. Stuck(e)
    BY <1>2, <1>4 DEF Stuck
  <2> QED
    BY <1>4, <2>1 DEF Sound
<1> QED
  BY <1>3, <1>4 DEF Sound

LEMMA MidwayUnopened ==
  ASSUME NEW b \in Backends, b = "sqlite", NEW x \in BOOLEAN, NEW y \in BOOLEAN, ~y, NEW d, d.rev \in Int,
         NEW m \in 1..22, m = Coming(d, "up"), NEW k \in Nat \ {0},
         Unopened(Script(b, m, "up"), k), k <= Len(Script(b, m, "up")) + 1, Midway(b, x, d, d, "up", k)
  PROVE  Sound(y, d)
<1>1. d.rev = m - 1
  BY DEF Coming
<1>2. CASE Fits(d, x, Age(m, "up", k), ShapeAt(b, m, "up", k))
  <2>1. AtRest(d, y) \/ Stuck(d)
    BY <1>1, <1>2, UnopenedIsSafe
  <2> QED
    BY <2>1 DEF Sound
<1>3. CASE Stuck(d)
  BY <1>3 DEF Sound
<1> QED
  BY <1>2, <1>3 DEF Midway

\* Which way a command goes, and by which statements.
Heading(to, d) == IF to > d.rev THEN "up" ELSE "down"
ListOf(b, to, d) == Script(b, Coming(d, Heading(to, d)), Heading(to, d))

LEMMA HeadsSomewhere ==
  ASSUME NEW to \in 0..22, NEW d, d.rev \in 0..22, to # d.rev
  PROVE  /\ Heading(to, d) \in {"up", "down"} /\ Coming(d, Heading(to, d)) \in 1..22
         /\ Heading(to, d) = "up" => Coming(d, Heading(to, d)) = d.rev + 1
         /\ Heading(to, d) = "down" => Coming(d, Heading(to, d)) = d.rev
BY DEF Heading, Coming

-----------------------------------------------------------------------------
(* Every revision is reached whole *)

\* No half-made upgrade has been left behind; what is kept is what PostgreSQL keeps.
Whole == cut = 0 \/ backend = "postgresql"
Lasting == backend = "postgresql"

HistoryInv ==
  /\ IndexInv /\ cut \in Nat
  /\ ~cmd.on => safe = db
  /\ failed \/ undone => cut > 0 /\ backend = "sqlite"
  /\ cmd.on /\ ~cmd.open => Unopened(ListOf(backend, cmd.to, db), cmd.at)
  /\ ~undone =>
       /\ ~cmd.on => Sound(Whole, db)
       /\ cmd.on => Midway(backend, Whole, db, safe, Heading(cmd.to, db), cmd.at)
       /\ cmd.on /\ (Heading(cmd.to, db) = "up" \/ Lasting) => Sound(Lasting, safe)

LEMMA EmptyIsAtRest ==
  ASSUME NEW x \in BOOLEAN
  PROVE  Sound(x, Migrated!Empty)
<1> DEFINE d == Migrated!Empty
<1>1. Made(0) = {} /\ Gained(0) = {} /\ Covered(0) = {}
  <2>1. \A t \in TableNames : ~(Born(t) <= 0)
    BY OneAtATime
  <2>2. \A c \in Migrated!DeclaredColumns : ~(ColumnBorn(c) <= 0)
    BY OneAtATime
  <2>3. \A t \in Migrated!DeclaredIndexes : ~(IndexBorn(t) <= 0)
    BY OneAtATime
  <2> QED
    BY <2>1, <2>2, <2>3 DEF Made, Gained, Covered
<1>2. /\ d.rev = 0 /\ d.tables = <<>> /\ d.columns = {} /\ d.accepts = [scope |-> {}, actor_kind |-> {}]
      /\ d.named = [t \in NamedTables |-> "none"] /\ d.memory = [n \in Notes |-> Migrated!Absent]
      /\ d.live = {} /\ d.copies = {} /\ d.seeded = FALSE
  BY DEF Migrated!Empty, NamedTables
<1>3. PICK g : g = Rest(0)
  OBVIOUS
<1>4. g.gone = {} /\ g.copies = {} /\ g.seeded = FALSE
  <2>1. SeededAt(0) = FALSE
    BY DEF SeededAt
  <2> QED
    BY <1>3, <2>1 DEF Rest, Shape
<1> HIDE DEF d
<1>5. d.tables = [t \in Made(0) |-> Migrated!Declared[t]]
  BY <1>1, <1>2
<1>6. d.accepts = [scope |-> IF "memory_items" \in Made(0) THEN g.scope ELSE {},
                   actor_kind |-> IF "audit_log" \in Made(0) THEN g.kinds ELSE {}]
  BY <1>1, <1>2
<1>7. \A n \in Notes : d.memory[n].scope = "none"
  BY <1>2 DEF Migrated!Absent
<1>8. d.named = [t \in NamedTables |-> d.named[t]] /\ \A t \in NamedTables : d.named[t] = "none"
  BY <1>2
<1>9. Fits(d, x, 0, g)
  BY <1>1, <1>2, <1>4, <1>5, <1>6, <1>7, <1>8 DEF Fits
<1>10. Size(0) = 0
  BY DEF Size
<1>11. Sound(x, d)
  BY <1>2, <1>3, <1>9, <1>10 DEF Sound, AtRest
<1> QED
  BY <1>11 DEF d

LEMMA HistoryStarts == Migrated!Init => HistoryInv
<1> SUFFICES ASSUME Migrated!Init PROVE HistoryInv
  OBVIOUS
<1>1. /\ cmd = Migrated!Idle /\ db = Migrated!Empty /\ safe = Migrated!Empty
      /\ cut = 0 /\ failed = FALSE /\ undone = FALSE
  BY DEF Migrated!Init
<1>2. ~cmd.on
  BY <1>1 DEF Migrated!Idle
<1>3. PICK x \in BOOLEAN : x = Whole
  BY DEF Whole
<1>4. Sound(x, db)
  BY <1>1, EmptyIsAtRest
<1> QED
  BY <1>1, <1>2, <1>3, <1>4, IndexStarts DEF HistoryInv

LEMMA HistoryStep == HistoryInv /\ [Migrated!Next]_(Migrated!vars) => HistoryInv'
<1> SUFFICES ASSUME HistoryInv, [Migrated!Next]_(Migrated!vars) PROVE HistoryInv'
  OBVIOUS
<1>n. IndexInv'
  BY IndexStep DEF HistoryInv
<1>t. /\ backend \in Backends /\ DOMAIN cmd = {"to", "at", "open", "on"}
      /\ IsDatabase(db) /\ db.rev \in 0..22 /\ IsDatabase(safe) /\ safe.rev \in 0..22
      /\ cmd.on => cmd.to \in 0..22 /\ cmd.to # db.rev
  BY DEF HistoryInv, IndexInv, Migrated!Idle
<1>b. backend \in {"sqlite", "postgresql"}
  BY <1>t, BackendsAreTwo
<1>h. /\ cut \in Nat /\ (~cmd.on => safe = db) /\ (failed \/ undone => cut > 0 /\ backend = "sqlite")
      /\ cmd.on /\ ~cmd.open => Unopened(ListOf(backend, cmd.to, db), cmd.at)
  BY DEF HistoryInv
<1>x. PICK x \in BOOLEAN, y \in BOOLEAN : x = Whole /\ y = Lasting
  BY DEF Whole, Lasting
<1>u. ~undone =>
        /\ ~cmd.on => Sound(x, db)
        /\ cmd.on => Midway(backend, x, db, safe, Heading(cmd.to, db), cmd.at)
        /\ cmd.on /\ (Heading(cmd.to, db) = "up" \/ y) => Sound(y, safe)
  BY <1>x DEF HistoryInv
<1>y. /\ y <=> backend = "postgresql"
      /\ ~x <=> cut # 0 /\ backend = "sqlite"
      /\ y => x
  BY <1>b, <1>x DEF Whole, Lasting
<1>w. UNCHANGED <<backend, cut>> => x = Whole' /\ y = Lasting'
  BY <1>x DEF Whole, Lasting
<1>p. Transactional(backend, x)
  BY <1>y DEF Transactional
<1>l. Migrated!Statements = ListOf(backend, cmd.to, db)
  BY DEF Migrated!Statements, Migrated!Up, ListOf, Script, Coming, Heading
<1>i. Migrated!Idle.on = FALSE
  BY DEF Migrated!Idle
\* At the beginning of a migration.
<1>c. ASSUME UNCHANGED <<backend, cut, failed, undone>>, cmd'.on, cmd'.at = 1,
             ~undone => Sound(x, db') /\ (x \/ safe' = db') /\ Sound(y, safe')
      PROVE  HistoryInv'
  <2>1. cmd'.to \in 0..22 /\ db'.rev \in 0..22 /\ cmd'.to # db'.rev
    BY <1>c, <1>n DEF IndexInv
  <2>2. PICK d, z, to, way : d = db' /\ z = safe' /\ to = cmd'.to /\ way = Heading(to, d)
    OBVIOUS
  <2>3. way \in {"up", "down"} /\ Coming(d, way) \in 1..22
    BY <2>1, <2>2, HeadsSomewhere
  <2>4. ~undone => Midway(backend, x, d, z, way, 1)
    <3>1. SUFFICES ASSUME ~undone PROVE Midway(backend, x, d, z, way, 1)
      OBVIOUS
    <3>2. Sound(x, d) /\ (x \/ z = d)
      BY <1>c, <2>2, <3>1
    <3>3. d.rev \in Int
      BY <2>1, <2>2
    <3> QED
      BY <1>b, <2>3, <3>2, <3>3, MidwayStarts
  <2>5. Unopened(ListOf(backend', cmd'.to, db'), cmd'.at)
    <3>1. ~ \E j : j \in 1..cmd'.at - 1
      BY <1>c
    <3> QED
      BY <3>1 DEF Unopened
  <2>6. ~undone' => Midway(backend', x, db', safe', Heading(cmd'.to, db'), cmd'.at) /\ Sound(y, safe')
    BY <1>c, <2>2, <2>4
  <2> QED
    BY <1>c, <1>h, <1>n, <1>w, <2>5, <2>6 DEF HistoryInv
<1>1. CASE UNCHANGED Migrated!vars
  <2>1. UNCHANGED <<backend, db, safe, cmd, cut, failed, undone>>
    BY <1>1 DEF Migrated!vars
  <2> QED
    BY <1>n, <2>1 DEF HistoryInv, Whole, Lasting
<1>2. ASSUME NEW to \in Targets, Migrated!Command(to) PROVE HistoryInv'
  <2>1. /\ ~cmd.on /\ UNCHANGED <<backend, db, safe, cut, failed, undone>>
        /\ cmd' = [to |-> to, at |-> 1, open |-> FALSE, on |-> TRUE]
    BY <1>2 DEF Migrated!Command
  <2>2. cmd'.on /\ cmd'.at = 1
    BY <2>1
  <2>3. ~undone => Sound(x, db) /\ safe = db
    BY <1>h, <1>u, <2>1
  <2>4. ~undone => Sound(y, db)
    BY <1>y, <2>3, SoundLoosely
  <2>5. ~undone => Sound(x, db') /\ (x \/ safe' = db') /\ Sound(y, safe')
    BY <2>1, <2>3, <2>4
  <2> QED
    BY <1>c, <2>1, <2>2, <2>5
<1>5. CASE Migrated!Kill
  <2>1. /\ cmd.on /\ db' = safe /\ cmd' = Migrated!Idle /\ cut' = cut + 1
        /\ undone' = (undone \/ (backend = "sqlite" /\ ~Migrated!Up)) /\ UNCHANGED <<backend, safe, failed>>
    BY <1>5 DEF Migrated!Kill
  <2>2. y = Whole'
    BY <1>h, <1>x, <2>1 DEF Whole, Lasting
  <2>3. ~undone' => ~undone /\ (Heading(cmd.to, db) = "up" \/ y)
    BY <1>b, <1>y, <2>1 DEF Migrated!Up, Heading
  <2>4. ~undone' => Sound(y, db')
    BY <1>u, <2>1, <2>3
  <2>5. failed' \/ undone' => cut' > 0 /\ backend' = "sqlite"
    <3>1. cut' > 0
      BY <1>h, <2>1
    <3>2. failed' => backend' = "sqlite"
      BY <1>h, <2>1
    <3>3. undone' => undone \/ backend = "sqlite"
      BY <2>1
    <3> QED
      BY <1>h, <2>1, <3>1, <3>2, <3>3
  <2>6. cut' \in Nat /\ ~cmd'.on /\ safe' = db'
    BY <1>h, <1>i, <2>1
  <2> QED
    BY <1>n, <2>2, <2>4, <2>5, <2>6 DEF HistoryInv
\* What is written between two commands.
<1>s. ASSUME UNCHANGED <<backend, cut, failed, undone, cmd>>, ~cmd.on, safe' = db', ~undone => Sound(x, db')
      PROVE  HistoryInv'
  BY <1>h, <1>n, <1>s, <1>w DEF HistoryInv
<1>6. ASSUME NEW t \in {"tasks", "task_assignments", "audit_log"}, Migrated!WriteName(t) PROVE HistoryInv'
  <2>1. /\ ~cmd.on /\ t \in DOMAIN db.tables /\ safe' = db' /\ UNCHANGED <<backend, cut, failed, undone, cmd>>
        /\ t = "audit_log" => Migrated!Manager \in db.accepts.actor_kind
        /\ db' = [db EXCEPT !.named[t] = Migrated!Manager]
    BY <1>6 DEF Migrated!WriteName
  <2>2. PICK d, e, name : d = db /\ e = db' /\ name = Migrated!Manager
    OBVIOUS
  <2>3. name = IF d.rev < 8 THEN "kai" ELSE IF d.rev < 22 THEN "alethic" ELSE "prometheus"
    BY <2>2 DEF Migrated!Manager, Migrated!Last
  <2>4. /\ IsDatabase(d) /\ d.rev \in 0..22 /\ t \in DOMAIN d.tables /\ e = [d EXCEPT !.named[t] = name]
        /\ t = "audit_log" => name \in d.accepts.actor_kind
    BY <1>t, <2>1, <2>2
  <2>5. ~undone => Sound(x, d)
    BY <1>u, <2>1, <2>2
  <2>6. t \in NamedTables
    BY DEF NamedTables
  <2>7. ~undone => Sound(x, e)
    BY <2>3, <2>4, <2>5, <2>6, NameIsWritten
  <2> QED
    BY <1>s, <2>1, <2>2, <2>7
<1>7. ASSUME NEW n \in Notes, NEW scope, NEW text, Migrated!WriteMemory(n, scope, text) PROVE HistoryInv'
  <2>1. /\ ~cmd.on /\ "memory_items" \in DOMAIN db.tables /\ safe' = db'
        /\ UNCHANGED <<backend, cut, failed, undone, cmd>> /\ (scope = "none" \/ scope \in db.accepts.scope)
        /\ db' = [db EXCEPT !.memory[n] = [scope |-> scope, text |-> text],
                            !.text = IF "memory_items" \in db.live THEN [@ EXCEPT ![n] = text] ELSE @]
    BY <1>7 DEF Migrated!WriteMemory
  <2>2. PICK row : row = [scope |-> scope, text |-> text]
    OBVIOUS
  <2>3. PICK words : words = IF "memory_items" \in db.live THEN [db.text EXCEPT ![n] = text] ELSE db.text
    OBVIOUS
  <2>4. PICK d, e : d = db /\ e = db'
    OBVIOUS
  <2>5. FieldsOf(d)
    BY <1>t, <2>4, DatabasesHaveFields
  <2>6. e = [d EXCEPT !.memory[n] = row, !.text = words]
    BY <2>1, <2>2, <2>3, <2>4, <2>5 DEF FieldsOf
  <2>7. row.scope = "none" \/ row.scope \in d.accepts.scope
    BY <2>1, <2>2, <2>4
  <2>8. IsDatabase(d) /\ "memory_items" \in DOMAIN d.tables
    BY <1>t, <2>1, <2>4
  <2>9. ~undone => Sound(x, d)
    BY <1>u, <2>1, <2>4
  <2>10. ~undone => Sound(x, e)
    BY <2>6, <2>7, <2>8, <2>9, MemoryIsWritten
  <2> QED
    BY <1>s, <2>1, <2>4, <2>10
<1>3. CASE Migrated!Execute
  <2>1. PICK to, way, m, k, list : /\ to = cmd.to /\ way = Heading(to, db) /\ m = Coming(db, way) /\ k = cmd.at
                                   /\ list = Script(backend, m, way)
    OBVIOUS
  <2>2. PICK s : s = list[k]
    OBVIOUS
  <2>3. list = ListOf(backend, cmd.to, db)
    BY <2>1 DEF ListOf
  <2> DEFINE opened == cmd.open \/ Migrated!ChangesRows(s) \/ backend = "postgresql"
             e == Migrated!Done(db, s)
  <2>4. /\ cmd.on /\ k <= Len(list) /\ UNCHANGED <<backend, cut, undone>>
        /\ IF Migrated!Refused(db, s)
           THEN db' = safe /\ cmd' = Migrated!Idle /\ failed' = TRUE /\ UNCHANGED safe
           ELSE /\ db' = e /\ safe' = (IF opened THEN safe ELSE db')
                /\ cmd' = [cmd EXCEPT !.at = @ + 1, !.open = opened] /\ UNCHANGED failed
    BY <1>3, <1>l, <2>1, <2>2, <2>3 DEF Migrated!Execute
  <2>5. way \in {"up", "down"} /\ m \in 1..22 /\ to \in 0..22
    BY <1>t, <2>1, <2>4, HeadsSomewhere
  <2>6. Orderly(backend, list)
    BY <1>l, <1>t, <2>3, <2>4, NextIsOrderly
  <2>7. k \in 1..Len(list) /\ Len(list) \in Nat /\ k \in Nat \ {0}
    BY <1>l, <2>1, <2>3, <2>4, <2>6 DEF HistoryInv, IndexInv, Ready, Orderly
  <2>8. IsDatabase(db) /\ db.rev \in 0..22
    BY <1>t
  <2>9. ~undone => Midway(backend, x, db, safe, way, k)
    BY <1>u, <2>1, <2>4
  <2>10. CASE Migrated!Refused(db, s)
    <3>1. /\ db' = safe /\ ~cmd'.on /\ failed' = TRUE /\ UNCHANGED <<backend, cut, undone, safe>>
      BY <1>i, <2>4, <2>10
    <3>2. ~undone => ~x /\ (way = "up" \/ Stuck(safe))
      BY <1>p, <1>t, <2>1, <2>2, <2>5, <2>7, <2>9, <2>10, MidwayRefuses
    <3>3. ~undone => Sound(x, safe)
      <4>1. SUFFICES ASSUME ~undone PROVE Sound(x, safe)
        OBVIOUS
      <4>2. CASE way = "up"
        <5>1. Sound(y, safe)
          BY <1>u, <2>1, <2>4, <4>1, <4>2
        <5> QED
          BY <3>2, <4>1, <5>1, SoundLoosely
      <4>3. CASE ~x /\ Stuck(safe)
        BY <4>3 DEF Sound
      <4> QED
        BY <3>2, <4>1, <4>2, <4>3
    <3>4. cut > 0 /\ backend = "sqlite"
      BY <1>h, <1>y, <3>2
    <3> QED
      BY <1>h, <1>n, <1>w, <3>1, <3>3, <3>4 DEF HistoryInv
  <2>11. CASE ~Migrated!Refused(db, s)
    <3>1. /\ db' = e /\ safe' = (IF opened THEN safe ELSE db') /\ UNCHANGED <<backend, cut, undone, failed>>
          /\ cmd' = [cmd EXCEPT !.at = @ + 1, !.open = opened]
      BY <2>4, <2>11
    <3>2. e.rev = db.rev
      BY <2>2, <2>6, <2>7, <2>8, RevisionStays
    <3>3. PICK d, v, i : d = db' /\ v = safe' /\ i = k + 1
      OBVIOUS
    <3>4. d = Migrated!Done(db, s) /\ d.rev = db.rev /\ v \in {safe, d}
      BY <3>1, <3>2, <3>3
    <3> HIDE DEF opened, e
    <3>5. cmd'.on /\ cmd'.to = cmd.to /\ cmd'.at = i /\ cmd'.open = opened
      BY <1>t, <2>1, <2>4, <3>1, <3>3
    <3>6. Heading(cmd'.to, db') = way /\ Coming(d, way) = m
      BY <2>1, <3>3, <3>4, <3>5 DEF Heading, Coming
    <3>7. ~undone => Midway(backend, x, d, v, way, i)
      <4>1. SUFFICES ASSUME ~undone PROVE Midway(backend, x, d, v, way, i)
        OBVIOUS
      <4>2. PICK b, c, z, p : b \in Backends /\ b = backend /\ c = db /\ z = safe /\ p = k
        BY <1>t
      <4>3. p \in 1..Len(Script(b, m, way))
        BY <2>1, <2>7, <4>2
      <4>4. Transactional(b, x) /\ IsDatabase(c) /\ c.rev \in 0..22
        BY <1>p, <2>8, <4>2
      <4>5. m = Coming(c, way) /\ Midway(b, x, c, z, way, p)
        BY <2>1, <2>9, <4>1, <4>2
      <4>6. s = Script(b, m, way)[p]
        BY <2>1, <2>2, <4>2
      <4>7. ~Migrated!Refused(c, Script(b, m, way)[p]) /\ d = Migrated!Done(c, Script(b, m, way)[p])
        BY <2>11, <3>4, <4>2, <4>6
      <4>8. d.rev = c.rev /\ v \in {z, d}
        BY <3>4, <4>2
      <4>9. b \in Backends /\ b = backend
        BY <4>2
      <4>10. Midway(b, x, d, v, way, p + 1)
        BY <2>5, <4>3, <4>4, <4>5, <4>7, <4>8, <4>9, MidwayGoesOn
      <4> QED
        BY <3>3, <4>2, <4>10
    <3>8. ~opened => Unopened(list, i)
      <4>1. SUFFICES ASSUME ~opened PROVE Unopened(list, i)
        OBVIOUS
      <4>2. ~cmd.open /\ ~Migrated!ChangesRows(s)
        BY <4>1 DEF opened
      <4>3. \A j \in 1..k - 1 : ~Migrated!ChangesRows(list[j])
        BY <1>h, <2>1, <2>3, <2>4, <4>2 DEF Unopened
      <4>4. \A j \in 1..i - 1 : j \in 1..k - 1 \/ j = k
        BY <2>7, <3>3
      <4> QED
        BY <2>2, <4>2, <4>3, <4>4 DEF Unopened
    <3>9. ListOf(backend', cmd'.to, db') = list
      BY <2>1, <3>1, <3>3, <3>6 DEF ListOf
    <3>10. ~undone /\ (way = "up" \/ y) => Sound(y, v)
      <4>1. SUFFICES ASSUME ~undone, way = "up" \/ y PROVE Sound(y, v)
        OBVIOUS
      <4>2. CASE opened
        BY <1>u, <2>1, <2>4, <3>1, <3>3, <4>1, <4>2
      <4>3. CASE ~opened
        <5>1. backend = "sqlite" /\ ~y /\ way = "up"
          BY <1>b, <1>y, <4>1, <4>3 DEF opened
        <5>2. v = d
          BY <3>1, <3>3, <4>3
        <5>3. Midway(backend, x, d, d, "up", i)
          BY <3>7, <4>1, <5>1, <5>2
        <5>4. i \in Nat \ {0} /\ i <= Len(list) + 1
          BY <2>7, <3>3
        <5>5. m = Coming(d, "up") /\ d.rev \in Int /\ list = Script(backend, m, "up")
          BY <2>1, <2>8, <3>4, <3>6, <5>1
        <5>6. Unopened(Script(backend, m, "up"), i) /\ i <= Len(Script(backend, m, "up")) + 1
          BY <3>8, <4>3, <5>4, <5>5
        <5>7. Sound(y, d)
          BY <1>t, <2>5, <5>1, <5>3, <5>4, <5>5, <5>6, MidwayUnopened
        <5> QED
          BY <5>2, <5>7
      <4> QED
        BY <4>2, <4>3
    <3>11. cmd'.on /\ ~cmd'.open => Unopened(ListOf(backend', cmd'.to, db'), cmd'.at)
      BY <3>5, <3>8, <3>9
    <3>12. ~undone' => /\ Midway(backend', x, db', safe', Heading(cmd'.to, db'), cmd'.at)
                       /\ Heading(cmd'.to, db') = "up" \/ y => Sound(y, safe')
      BY <3>1, <3>3, <3>5, <3>6, <3>7, <3>10
    <3> QED
      BY <1>h, <1>n, <1>w, <3>1, <3>5, <3>11, <3>12 DEF HistoryInv
  <2> QED
    BY <2>10, <2>11
<1>4. CASE Migrated!Stamp
  <2>1. PICK to, way, m, k, list : /\ to = cmd.to /\ way = Heading(to, db) /\ m = Coming(db, way) /\ k = cmd.at
                                   /\ list = Script(backend, m, way)
    OBVIOUS
  <2>2. list = ListOf(backend, cmd.to, db)
    BY <2>1 DEF ListOf
  <2>3. /\ cmd.on /\ k > Len(list) /\ UNCHANGED <<backend, cut, undone, failed>>
        /\ db' = [db EXCEPT !.rev = IF Migrated!Up THEN @ + 1 ELSE @ - 1]
        /\ safe' = IF backend = "sqlite" \/ db'.rev = cmd.to THEN db' ELSE safe
        /\ cmd' = IF db'.rev = cmd.to THEN Migrated!Idle ELSE [cmd EXCEPT !.at = 1, !.open = FALSE]
    BY <1>4, <1>l, <2>1, <2>2 DEF Migrated!Stamp
  <2>4. way \in {"up", "down"} /\ m \in 1..22 /\ to \in 0..22
    BY <1>t, <2>1, <2>3, HeadsSomewhere
  <2>5. Orderly(backend, list)
    BY <1>l, <1>t, <2>2, <2>3, NextIsOrderly
  <2>6. k = Len(list) + 1
    <3>1. k \in 1..Len(list) + 1 /\ Len(list) \in Nat
      BY <1>l, <2>1, <2>2, <2>3, <2>5 DEF HistoryInv, IndexInv, Ready, Orderly
    <3> QED
      BY <2>3, <3>1
  <2>7. ~undone => Midway(backend, x, db, safe, way, k)
    BY <1>u, <2>1, <2>3
  <2>8. IsDatabase(db) /\ db.rev \in 0..22 /\ DOMAIN db = DOMAIN Migrated!Empty
    BY <1>t DEF IsDatabase
  <2>9. db' = [db EXCEPT !.rev = IF way = "up" THEN m ELSE m - 1]
    BY <2>1, <2>3 DEF Migrated!Up, Heading, Coming
  <2>10. ~undone => Sound(x, db')
    <3>1. PICK d, e : d = db /\ e = db'
      OBVIOUS
    <3>2. d.rev \in Int /\ m = Coming(d, way)
      BY <2>1, <2>8, <3>1
    <3>3. Restamped(d, e, IF way = "up" THEN m ELSE m - 1)
      <4>1. FieldsOf(d) /\ e = [d EXCEPT !.rev = IF way = "up" THEN m ELSE m - 1]
        BY <2>8, <2>9, <3>1, DatabasesHaveFields
      <4> QED
        BY <4>1 DEF FieldsOf, Restamped
    <3>4. ~undone => Midway(backend, x, d, safe, way, k)
      BY <2>7, <3>1
    <3>5. ~undone => Sound(x, e)
      <4>1. SUFFICES ASSUME ~undone PROVE Sound(x, e)
        OBVIOUS
      <4>2. PICK b, z, p : b \in Backends /\ b = backend /\ z = safe /\ p = k
        BY <1>t
      <4>3. p = Len(Script(b, m, way)) + 1
        BY <2>1, <2>6, <4>2
      <4>4. Transactional(b, x) /\ Midway(b, x, d, z, way, p)
        BY <1>p, <3>4, <4>1, <4>2
      <4>5. b \in Backends
        BY <4>2
      <4> QED
        BY <2>4, <3>2, <3>3, <4>3, <4>4, <4>5, MidwayEnds
    <3> QED
      BY <3>1, <3>5
  <2>11. CASE db'.rev = cmd.to
    <3>1. safe' = db' /\ ~cmd'.on
      BY <1>i, <2>3, <2>11
    <3> QED
      BY <1>h, <1>n, <1>w, <2>3, <2>10, <3>1 DEF HistoryInv
  <2>12. CASE db'.rev # cmd.to
    <3>1. cmd'.on /\ cmd'.at = 1
      BY <1>t, <2>3, <2>12
    <3>2. ~undone => Sound(x, db') /\ (x \/ safe' = db') /\ Sound(y, safe')
      <4>1. SUFFICES ASSUME ~undone PROVE (x \/ safe' = db') /\ Sound(y, safe')
        BY <2>10
      <4>2. CASE backend = "sqlite"
        <5>1. safe' = db'
          BY <2>3, <4>2
        <5>2. PICK e : e = db'
          OBVIOUS
        <5>3. Sound(y, e)
          BY <1>y, <2>10, <4>1, <5>2, SoundLoosely
        <5> QED
          BY <5>1, <5>2, <5>3
      <4>3. CASE backend = "postgresql"
        <5>1. safe' = safe /\ x /\ y
          BY <1>y, <2>3, <2>12, <4>3
        <5>2. Sound(y, safe)
          BY <1>u, <2>3, <4>1, <5>1
        <5> QED
          BY <5>1, <5>2
      <4> QED
        BY <1>b, <4>2, <4>3
    <3> QED
      BY <1>c, <2>3, <3>1, <3>2
  <2> QED
    BY <2>11, <2>12
<1> QED
  BY <1>1, <1>2, <1>3, <1>4, <1>5, <1>6, <1>7 DEF Migrated!Next

\* Nothing is left to be made at the last revision.
LEMMA AllIsMade ==
  /\ Size(22) = 31
  /\ Made(31) = TableNames /\ Gained(31) = Migrated!DeclaredColumns /\ Covered(31) = Migrated!DeclaredIndexes
<1>1. \A t \in TableNames : Born(t) <= 31
  BY DEF Born, TableNames
<1>2. \A c \in Migrated!DeclaredColumns : ColumnBorn(c) <= 31
  BY DEF ColumnBorn, Migrated!DeclaredColumns
<1>3. \A t \in Migrated!DeclaredIndexes : IndexBorn(t) <= 31
  BY DEF IndexBorn
<1>4. Size(22) = 31
  BY DEF Size
<1> QED
  BY <1>1, <1>2, <1>3, <1>4 DEF Made, Gained, Covered

\* A database at the last revision is not one that a command is refused for, and what it
\* has is what the models declare.
LEMMA LastIsDeclared ==
  ASSUME NEW x \in BOOLEAN, NEW d, d.rev = 22, Sound(x, d)
  PROVE  /\ d.tables = Migrated!Declared /\ d.columns = Migrated!DeclaredColumns
         /\ d.accepts = Migrated!DeclaredValues /\ d.live = Migrated!DeclaredIndexes /\ d.seeded
         /\ \A t \in DOMAIN d.named : d.named[t] \in {"none", "prometheus"}
<1>1. ~Stuck(d)
  <2>1. \A t \in TableNames : ~(Born(t) > Size(d.rev))
    BY AllIsMade DEF Born, TableNames
  <2> QED
    BY <2>1 DEF Stuck
<1>2. PICK g : g = Rest(22)
  OBVIOUS
<1>3. Fits(d, x, 31, g)
  BY <1>1, <1>2, AllIsMade DEF Sound, AtRest
<1>4. /\ g.scope = Migrated!Scopes /\ g.kinds = Migrated!ActorKinds("prometheus")
      /\ g.gone = {} /\ g.seeded
      /\ \A t \in NamedTables : g.name[t] = "prometheus"
  <2>1. g = Shape(Migrated!Scopes, Migrated!Scopes, Migrated!ActorKinds("prometheus"),
                  "prometheus", "prometheus", "prometheus", {}, {}, TRUE)
    BY <1>2, RestsAre
  <2> QED
    BY <2>1 DEF Shape, NamedTables
<1>5. d.tables = Migrated!Declared
  BY <1>3, AllIsMade, DeclaredAre DEF Fits
<1>6. d.columns = Migrated!DeclaredColumns
  BY <1>3, AllIsMade DEF Fits
<1>7. d.live = Migrated!DeclaredIndexes
  <2>1. Migrated!Scopes # Migrated!OldScopes
    BY DEF Migrated!Scopes, Migrated!OldScopes
  <2>2. d.live = Covered(31) \ g.gone
    BY <1>3, <1>4, <2>1 DEF Fits
  <2> QED
    BY <1>4, <2>2, AllIsMade
<1>8. d.accepts = Migrated!DeclaredValues
  <2>1. "memory_items" \in Made(31) /\ "audit_log" \in Made(31)
    BY AllIsMade DEF TableNames
  <2>2. d.accepts = [scope |-> g.scope, actor_kind |-> g.kinds]
    BY <1>3, <2>1 DEF Fits
  <2> QED
    BY <1>4, <2>2 DEF Migrated!DeclaredValues
<1>9. d.seeded
  BY <1>3, <1>4 DEF Fits
<1>10. \A t \in DOMAIN d.named : d.named[t] \in {"none", "prometheus"}
  <2>1. PICK names : names = d.named /\ names = [t \in NamedTables |-> names[t]]
    BY <1>3 DEF Fits
  <2>2. \A t \in NamedTables : names[t] = "none" \/ names[t] = g.name[t]
    BY <1>3, <2>1 DEF Fits
  <2> QED
    BY <1>4, <2>1, <2>2
<1> QED
  BY <1>5, <1>6, <1>7, <1>8, <1>9, <1>10

\* A database that no kill has spoilt has the index of the memories it has a table for.
LEMMA IndexIsThere ==
  ASSUME NEW d, AtRest(d, TRUE), "memory_items" \in DOMAIN d.tables, d.rev \in 0..22
  PROVE  "memory_items" \in d.live
<1>1. PICK n : n = Size(d.rev)
  OBVIOUS
<1>2. PICK g : g = Rest(d.rev)
  OBVIOUS
<1>3. Fits(d, TRUE, n, g)
  BY <1>1, <1>2 DEF AtRest
<1>4. "memory_items" \in Made(n)
  BY <1>3 DEF Fits
<1>5. Born("memory_items") <= n
  BY <1>4 DEF Made
<1>6. Born("memory_items") = 12 /\ IndexBorn("memory_items") = 13
  BY DEF Born, IndexBorn
<1>7. n \in Nat /\ n >= 13
  <2>1. PICK r \in 0..22 : r = d.rev
    OBVIOUS
  <2>2. 12 <= n
    BY <1>5, <1>6
  <2>3. Size(r) \in Nat /\ (Size(r) >= 12 => Size(r) >= 13)
    <3>1. CASE r <= 6
      <4>1. r \in 0..6
        BY <3>1
      <4>2. Size(r) \in 0..11
        BY <4>1 DEF Size
      <4> QED
        BY <4>2
    <3>2. CASE r > 6
      <4>1. r \in 7..22
        BY <3>2
      <4>2. Size(r) \in 13..31
        BY <4>1 DEF Size
      <4> QED
        BY <4>2
    <3> QED
      BY <3>1, <3>2
  <2> QED
    BY <1>1, <2>1, <2>2, <2>3
<1>8. "memory_items" \in Covered(n)
  BY <1>6, <1>7 DEF Covered, Migrated!DeclaredIndexes
<1>9. g.gone = {}
  BY <1>2 DEF Rest, Shape
<1>10. d.live = Covered(n) \ g.gone
  BY <1>3 DEF Fits
<1> QED
  BY <1>8, <1>9, <1>10

LEMMA IndexHolds == HistoryInv => IndexHoldsTheRows
<1> SUFFICES ASSUME HistoryInv, ~cmd.on
             PROVE  /\ "memory_items" \in db.live => db.text = Migrated!Texts(db.memory)
                    /\ "memory_items" \in DOMAIN db.tables \ db.live
                         => backend = "sqlite" /\ cut > 0
  BY DEF IndexHoldsTheRows, Migrated!IndexHoldsTheRows
<1>1. "memory_items" \in db.live => db.text = Migrated!Texts(db.memory)
  BY DEF HistoryInv, IndexInv, HoldsTheRows
<1>2. ASSUME "memory_items" \in DOMAIN db.tables \ db.live
      PROVE  backend = "sqlite" /\ cut > 0
  <2>1. SUFFICES ASSUME backend # "sqlite" \/ ~(cut > 0) PROVE FALSE
    OBVIOUS
  <2>2. backend \in {"sqlite", "postgresql"} /\ cut \in Nat /\ safe = db
    BY HistoryAssumption DEF HistoryInv, IndexInv
  <2>3. Whole /\ ~undone
    BY <2>1, <2>2 DEF Whole, HistoryInv
  <2>4. Sound(TRUE, db)
    BY <2>3 DEF HistoryInv
  <2>5. AtRest(db, TRUE)
    BY <2>4 DEF Sound
  <2>6. db.rev \in 0..22
    BY <2>2 DEF HistoryInv, IndexInv
  <2> QED
    BY <1>2, <2>5, <2>6, IndexIsThere
<1> QED
  BY <1>1, <1>2

LEMMA HistoryHolds == HistoryInv => HeadIsDeclared /\ OnlyAKillSpoils
<1> SUFFICES ASSUME HistoryInv PROVE HeadIsDeclared /\ OnlyAKillSpoils
  OBVIOUS
<1>1. HeadIsDeclared
  <2>1. SUFFICES ASSUME db.rev = 22, ~cmd.on, ~undone
                 PROVE  /\ db.tables = Migrated!Declared /\ db.columns = Migrated!DeclaredColumns
                        /\ db.accepts = Migrated!DeclaredValues /\ db.live = Migrated!DeclaredIndexes
                        /\ db.seeded
                        /\ \A t \in DOMAIN db.named : db.named[t] \in {"none", "prometheus"}
    BY DEF HeadIsDeclared, Migrated!HeadIsDeclared, Migrated!Last
  <2>2. PICK x \in BOOLEAN : x = Whole
    BY DEF Whole
  <2>3. Sound(x, db)
    BY <2>1, <2>2 DEF HistoryInv
  <2> QED
    BY <2>1, <2>3, LastIsDeclared
<1>2. OnlyAKillSpoils
  BY DEF HistoryInv, OnlyAKillSpoils, Migrated!OnlyAKillSpoils
<1> QED
  BY <1>1, <1>2

\* The whole history, for any number of commands to any revisions, of kills and of rows
\* written in between, on either backend: a database that is at the last revision, and
\* that no downgrade was killed on, has the tables, columns, values, indexes and names the
\* models declare (0001..0022 against infrastructure/database/models).
THEOREM LastRevisionIsDeclared == Migrated!Spec => []HeadIsDeclared
<1>1. HistoryInv => HeadIsDeclared
  BY HistoryHolds
<1> QED
  BY <1>1, HistoryStarts, HistoryStep, PTL DEF Migrated!Spec

\* The migrations refuse nothing of their own accord, between any two revisions, in either
\* direction and over any rows: a command that is refused came after one that was killed,
\* and never on PostgreSQL, where a killed command is rolled back (migrations/env.py).
THEOREM NothingElseSpoils == Migrated!Spec => []OnlyAKillSpoils
<1>1. HistoryInv => OnlyAKillSpoils
  BY HistoryHolds
<1> QED
  BY <1>1, HistoryStarts, HistoryStep, PTL DEF Migrated!Spec

\* The migrations of memory_items, its constraint and its text index, whatever memories
\* there are, on either backend, between any revisions, after any number of commands and of
\* kills: where there is an index it holds the words of every memory and of no other, and
\* there is one wherever there is a table, but after a kill on SQLite.
THEOREM IndexIsTheRows == Migrated!Spec => []IndexHoldsTheRows
<1>1. HistoryInv => IndexHoldsTheRows
  BY IndexHolds
<1> QED
  BY <1>1, HistoryStarts, HistoryStep, PTL DEF Migrated!Spec

-----------------------------------------------------------------------------
(* The three together *)

\* Of the three parts one moves, and each moves as it would alone: what is checked of
\* the three together holds of the scheduler, of the migrations and of the move.
THEOREM PartsMoveAlone ==
  AllSpec => /\ Init /\ [][Next]_vars
             /\ Migrated!Init /\ [][Migrated!Next]_(Migrated!vars)
             /\ Moved!Init /\ [][Moved!Next]_move
<1>1. AllInit => Init /\ Migrated!Init /\ Moved!Init
  BY DEF AllInit
<1>2. UNCHANGED schema => UNCHANGED (Migrated!vars)
  BY DEF Migrated!vars, schema
<1>3. [AllNext]_<<part, vars, schema, move>>
      => [Next]_vars /\ [Migrated!Next]_(Migrated!vars) /\ [Moved!Next]_move
  BY <1>2 DEF AllNext
<1> QED BY <1>1, <1>3, PTL DEF AllSpec

\* What storage-migrate erases had arrived, for all rows, tables, batches, writes,
\* failures and repetitions (transfer.copy, verify, erase).
THEOREM TheErasedHadArrived == AllSpec => ErasedOnlyWhatArrived
<1> DEFINE Arrived == \A t \in DOMAIN checked :
             (Moved!Composite(t) => quiet /\ ~problems) => Moved!HadArrived(t)
<1>1. MoveInv => (Moved!Erase => Arrived)
  BY DEF MoveInv, AgreedHadArrived, Moved!Erase, WentThrough
<1>2. MoveInv => [Moved!Erase => Arrived]_(Moved!vars)
  BY <1>1
<1> QED BY <1>2, PartsMoveAlone, MoveStarts, MoveStep, PTL
        DEF ErasedOnlyWhatArrived, Moved!ErasedOnlyWhatArrived

\* The run's composition: an event is acted on once there too, what is erased had
\* arrived, the text index holds the memories there are and is missing only after a kill
\* on SQLite, the last revision is what the models declare, and nothing but a kill has a
\* migration refused.
THEOREM StandingWorkIsSafe ==
  AllSpec => /\ []EventsActOnce /\ ErasedOnlyWhatArrived
             /\ []IndexHoldsTheRows /\ []HeadIsDeclared /\ []OnlyAKillSpoils
<1>1. IndInv => EventsActOnce
  BY DEF IndInv
<1>2. HistoryInv => IndexHoldsTheRows
  BY IndexHolds
<1>3. HistoryInv => HeadIsDeclared /\ OnlyAKillSpoils
  BY HistoryHolds
<1> QED BY <1>1, <1>2, <1>3, InitialState, InvariantStep, HistoryStarts,
           HistoryStep, PartsMoveAlone, TheErasedHadArrived, PTL
=============================================================================
