------------------------------ MODULE Scheduler ------------------------------
(***************************************************************************)
(* The loop that starts work nobody asked for: Scheduler.tick, step by     *)
(* step between its awaits, over the rows of schedules and events; a       *)
(* person who pauses and deletes schedules from another process; kills.    *)
(*                                                                         *)
(* A loop awaits each firing before the next, so its _running never holds  *)
(* the schedule it is about to fire: the guard is implied by pc here.      *)
(* Nothing in the program records an event of another kind than            *)
(* "objective.finished", so every schedule on an event waits for that one. *)
(***************************************************************************)
EXTENDS Naturals, FiniteSets, Sequences

CONSTANTS
  Schedules,
  Loops,      \* processes running `serve` with the scheduler on
  Interval,   \* every_seconds of the schedules that have one
  DailyAt,    \* daily_at of the schedules that have one
  Day,        \* the length of a day on the model's clock
  MaxClock,   \* bound: the clock
  MaxEvents,  \* bound: rows of the event log
  MaxKills,   \* bound: kills
  Edited      \* bound: the schedules a person pauses or deletes

Timed == DOMAIN Interval \cup DOMAIN DailyAt

ASSUME RecurrenceAssumption ==
  /\ Timed \subseteq Schedules
  /\ Day \in Nat \ {0}
  /\ Interval \in [DOMAIN Interval -> Nat \ {0}]
  /\ DailyAt \in [DOMAIN DailyAt -> 0..Day - 1]
ASSUME NobodyAssumption == "nobody" \notin Schedules
ASSUME BoundsAssumption ==
  MaxClock \in Nat /\ MaxEvents \in Nat /\ MaxKills \in Nat /\ Edited \subseteq Schedules

VARIABLES
  clock,
  rows,   \* the schedules table
  log,    \* the events table, oldest first
  desk,   \* the copy `unschedule --pause` has read and not saved yet
  pc,     \* where each loop is
  now,    \* the moment tick() read the clock
  batch,  \* copies of the schedules this pass has still to look at
  claims, \* events pending() returned, not tried yet
  cur,    \* the schedule being fired, and the event that fires it, if any
  kills,
  ran,    \* history: firings of each timed schedule, and the last one's moment
  acted   \* history: objectives each event was turned into

store == <<rows, log, desk>>
local == <<pc, now, batch, claims, cur>>
vars == <<clock, rows, log, desk, pc, now, batch, claims, cur, kills, ran, acted>>

Copy == [s : Schedules, due : Nat]
Row == [state : {"on", "paused", "gone"}, due : Nat]
Places == {"off", "idle", "due", "events", "receive", "mark", "record", "dead"}

TypeOK ==
  /\ clock \in Nat /\ kills \in Nat
  /\ rows \in [Schedules -> Row]
  /\ log \in Seq({"open", "used"})
  /\ desk \in SUBSET Copy
  /\ pc \in [Loops -> Places]
  /\ now \in [Loops -> Nat]
  /\ batch \in [Loops -> SUBSET Copy]
  /\ claims \in [Loops -> SUBSET Nat]
  /\ cur \in [Loops -> [s : Schedules \cup {"nobody"}, due : Nat, event : Nat]]
  /\ ran \in [Timed -> [times : Nat, last : Nat]]
  /\ acted \in [1..MaxEvents -> Nat]

\* Recurrence.next_after: the first firing strictly after a moment.
NextAfter(s, moment) ==
  IF s \in DOMAIN Interval
    THEN moment + Interval[s]
    ELSE LET today == (moment - (moment % Day)) + DailyAt[s]
         IN  IF today > moment THEN today ELSE today + Day

\* An interval is due when it is created, a time of day at its next turn.
FirstDue(s) == IF s \in DOMAIN DailyAt THEN NextAfter(s, 0) ELSE 0

\* The values cur and ran have before there is anything to remember.
Nobody == [s |-> "nobody", due |-> 0, event |-> 0]
Never == [times |-> 0, last |-> 0]

Init ==
  /\ clock = 0 /\ kills = 0
  /\ rows = [s \in Schedules |-> [state |-> "on", due |-> FirstDue(s)]]
  /\ log = << >> /\ desk = {}
  /\ pc = [p \in Loops |-> "idle"]
  /\ now = [p \in Loops |-> 0]
  /\ batch = [p \in Loops |-> {}]
  /\ claims = [p \in Loops |-> {}]
  /\ cur = [p \in Loops |-> Nobody]
  /\ ran = [s \in Timed |-> Never]
  /\ acted = [e \in 1..MaxEvents |-> 0]

Goto(p, place) == pc' = [pc EXCEPT ![p] = place]

\* tick() is over, one way or another, and its locals with it.
Leave(p, place) ==
  /\ Goto(p, place)
  /\ now' = [now EXCEPT ![p] = 0]
  /\ batch' = [batch EXCEPT ![p] = {}]
  /\ claims' = [claims EXCEPT ![p] = {}]
  /\ cur' = [cur EXCEPT ![p] = Nobody]

CopyOf(s) == [s |-> s, due |-> rows[s].due]
On(s) == rows[s].state = "on"
Open == {e \in DOMAIN log : log[e] = "open"}

-----------------------------------------------------------------------------
(* One pass *)

DueBy(moment) == {s \in Timed : On(s) /\ rows[s].due <= moment}

\* Fault: the query returns the most overdue schedule only.
TickOneAtATime(p) ==
  /\ pc[p] = "idle"
  /\ now' = [now EXCEPT ![p] = clock]
  /\ \E found \in SUBSET DueBy(clock) :
       /\ Cardinality(found) = IF DueBy(clock) = {} THEN 0 ELSE 1
       /\ \A s \in found, t \in DueBy(clock) : rows[s].due <= rows[t].due
       /\ batch' = [batch EXCEPT ![p] = {CopyOf(s) : s \in found}]
  /\ Goto(p, "due")
  /\ UNCHANGED <<clock, store, claims, cur, kills, ran, acted>>

\* The clock is read once, then what is due by it.
Tick(p) ==
  /\ pc[p] = "idle"
  /\ now' = [now EXCEPT ![p] = clock]
  /\ batch' = [batch EXCEPT ![p] = {CopyOf(s) : s \in DueBy(clock)}]
  /\ Goto(p, "due")
  /\ UNCHANGED <<clock, store, claims, cur, kills, ran, acted>>

\* The most overdue first.
FireDue(p) ==
  /\ pc[p] = "due"
  /\ \E c \in batch[p] :
       /\ \A d \in batch[p] : c.due <= d.due
       /\ cur' = [cur EXCEPT ![p] = [s |-> c.s, due |-> c.due, event |-> 0]]
       /\ batch' = [batch EXCEPT ![p] = @ \ {c}]
  /\ Goto(p, "receive")
  /\ UNCHANGED <<clock, store, now, claims, kills, ran, acted>>

\* list(), and of those the enabled ones that wait for an event.
List(p) ==
  /\ pc[p] = "due" /\ batch[p] = {}
  /\ batch' = [batch EXCEPT ![p] = {CopyOf(s) : s \in {t \in Schedules \ Timed : On(t)}}]
  /\ cur' = [cur EXCEPT ![p] = Nobody]
  /\ Goto(p, "events")
  /\ UNCHANGED <<clock, store, now, claims, kills, ran, acted>>

\* The next of them, and the events nothing has acted on yet.
Pending(p) ==
  /\ pc[p] = "events" /\ claims[p] = {}
  /\ \E c \in batch[p] :
       /\ cur' = [cur EXCEPT ![p] = [s |-> c.s, due |-> c.due, event |-> 0]]
       /\ batch' = [batch EXCEPT ![p] = @ \ {c}]
  /\ claims' = [claims EXCEPT ![p] = Open]
  /\ UNCHANGED <<clock, store, pc, now, kills, ran, acted>>

PassDone(p) ==
  /\ pc[p] = "events" /\ claims[p] = {} /\ batch[p] = {}
  /\ Leave(p, "idle")
  /\ UNCHANGED <<clock, store, kills, ran, acted>>

Oldest(E) == {e \in E : \A f \in E : e <= f}

\* Fault: whatever was pending when the list was read is stamped and acted on.
ClaimWhatWasPending(p) ==
  /\ pc[p] = "events"
  /\ \E e \in Oldest(claims[p]) :
       /\ claims' = [claims EXCEPT ![p] = @ \ {e}]
       /\ log' = [log EXCEPT ![e] = "used"]
       /\ cur' = [cur EXCEPT ![p].event = e]
  /\ Goto(p, "receive")
  /\ UNCHANGED <<clock, rows, desk, now, batch, kills, ran, acted>>

\* consume() stamps the event in one statement, before the work; an event
\* another pass already took is left alone.
Claim(p) ==
  /\ pc[p] = "events"
  /\ \E e \in Oldest(claims[p]) :
       /\ claims' = [claims EXCEPT ![p] = @ \ {e}]
       /\ \/ /\ log[e] = "open"
             /\ log' = [log EXCEPT ![e] = "used"]
             /\ cur' = [cur EXCEPT ![p].event = e]
             /\ Goto(p, "receive")
          \/ log[e] = "used" /\ UNCHANGED <<log, cur, pc>>
  /\ UNCHANGED <<clock, rows, desk, now, batch, kills, ran, acted>>

\* The queries of a pass are guarded by nothing: a StorageError leaves tick(),
\* and with it run_forever().
QueryFails(p) ==
  /\ \/ pc[p] = "idle"
     \/ pc[p] = "due" /\ batch[p] = {}
     \/ pc[p] = "events" /\ (claims[p] # {} \/ batch[p] # {})
  /\ Leave(p, "dead")
  /\ UNCHANGED <<clock, store, kills, ran, acted>>

-----------------------------------------------------------------------------
(* One firing: _fire *)

\* The manager writes the objective down, or raises.
Receive(p) ==
  /\ pc[p] = "receive"
  /\ \/ Goto(p, "mark") \/ Goto(p, "record")
  /\ acted' = IF cur[p].event = 0 THEN acted
              ELSE [acted EXCEPT ![cur[p].event] = @ + 1]
  /\ UNCHANGED <<clock, store, now, batch, claims, cur, kills, ran>>

\* Schedule.fired of the copy the pass read, which said it was enabled.
Fired(c, moment) ==
  [state |-> "on", due |-> IF c.s \in Timed THEN NextAfter(c.s, moment) ELSE 0]

\* The row moves on before the work starts, or saving it raises.
Mark(p) ==
  /\ pc[p] = "mark"
  /\ LET s == cur[p].s IN
       \/ /\ rows' = [rows EXCEPT ![s] = Fired(cur[p], now[p])]
          /\ ran' = IF s \in Timed
                      THEN [ran EXCEPT ![s] = [times |-> @.times + 1, last |-> now[p]]]
                      ELSE ran
          /\ Goto(p, "record")
       \/ Goto(p, "record") /\ UNCHANGED <<rows, ran>>
  /\ UNCHANGED <<clock, log, desk, now, batch, claims, cur, kills, acted>>

\* handle_objective returns or raises; then what became of the firing is an
\* event like any other.  Not being able to write it down is swallowed, which
\* is also all the model allows once MaxEvents is reached.
Record(p) ==
  /\ pc[p] = "record"
  /\ \/ Len(log) < MaxEvents /\ log' = Append(log, "open")
     \/ UNCHANGED log
  /\ Goto(p, IF cur[p].event = 0 THEN "due" ELSE "events")
  /\ UNCHANGED <<clock, rows, desk, now, batch, claims, cur, kills, ran, acted>>

-----------------------------------------------------------------------------
(* Everything else that moves *)

Advance ==
  /\ clock < MaxClock
  /\ clock' = clock + 1
  /\ UNCHANGED <<store, local, kills, ran, acted>>

\* `unschedule --pause` reads the row and saves its copy of it, disabled.
PauseRead(s) ==
  /\ desk = {} /\ rows[s].state # "gone"
  /\ desk' = {CopyOf(s)}
  /\ UNCHANGED <<clock, rows, log, local, kills, ran, acted>>

PauseSave ==
  /\ \E c \in desk : rows' = [rows EXCEPT ![c.s] = [state |-> "paused", due |-> c.due]]
  /\ desk' = {}
  /\ UNCHANGED <<clock, log, local, kills, ran, acted>>

Delete(s) ==
  /\ rows[s].state # "gone"
  /\ rows' = [rows EXCEPT ![s] = [state |-> "gone", due |-> 0]]
  /\ UNCHANGED <<clock, log, desk, local, kills, ran, acted>>

Kill(p) ==
  /\ kills < MaxKills /\ pc[p] # "off"
  /\ kills' = kills + 1
  /\ Leave(p, "off")
  /\ UNCHANGED <<clock, store, ran, acted>>

Restart(p) ==
  /\ pc[p] = "off"
  /\ Goto(p, "idle")
  /\ UNCHANGED <<clock, store, now, batch, claims, cur, kills, ran, acted>>

Step(p) ==
  \/ Tick(p) \/ FireDue(p) \/ List(p) \/ Pending(p) \/ Claim(p) \/ PassDone(p)
  \/ Receive(p) \/ Mark(p) \/ Record(p)

Next ==
  \/ \E p \in Loops : Step(p) \/ QueryFails(p) \/ Kill(p) \/ Restart(p)
  \/ \E s \in Edited : PauseRead(s) \/ Delete(s)
  \/ PauseSave \/ Advance

\* The event loop keeps running a coroutine that can run, and objectives end:
\* every one of their tasks has a budget.  Nobody has to restart a process.
Fairness == \A p \in Loops : WF_vars(Step(p))

Spec == Init /\ [][Next]_vars
FairSpec == Spec /\ Fairness

-----------------------------------------------------------------------------
(* Properties *)

\* EventRow: "each firing twice for one event is not" legitimate.  However many
\* loops and schedules wait for it, and wherever a process is killed, an event
\* is turned into one objective at most.
EventsActOnce == \A e \in 1..MaxEvents : acted[e] <= 1

InFlight == {cur[p].event : p \in {q \in Loops : pc[q] = "receive"}}
Lost == {e \in DOMAIN log : log[e] = "used" /\ acted[e] = 0} \ InFlight

\* An event that was claimed and became nothing is the price of a kill, one
\* each: nothing else a pass meets loses an event.
LostPerKill == Cardinality(Lost) <= kills

\* One loop is meant below: two may both read a row before either marks it.
OneLoop == \A p, q \in Loops : p = q

\* "A missed run is not made up" and "Crashing mid-objective then costs that one
\* objective": between two firings of a timed schedule lies a whole recurrence,
\* whatever was killed, late, paused or saved from a stale copy in between.
PeriodIsKept ==
  [][\A s \in Timed :
       OneLoop /\ ran'[s] # ran[s] /\ ran[s].times > 0 =>
         ran'[s].last >= NextAfter(s, ran[s].last)]_vars

Attempted(s) == \E p \in Loops : pc[p] = "receive" /\ cur[p].s = s
AllStopped == \A p \in Loops : pc[p] \in {"off", "dead"}

\* "A failure is an event, not a stop": a schedule that is due is picked up,
\* even if every other one fails each time, as long as a loop runs.
DueIsPickedUp ==
  \A s \in Timed :
    s \in DueBy(clock) ~> Attempted(s) \/ s \notin DueBy(clock) \/ AllStopped

-----------------------------------------------------------------------------
(* What the documentation says and the code does not *)

\* unschedule: "Delete a schedule, or pause it and keep what it has done."  A
\* schedule a person paused or deleted is not on again.
PausesHold == [][\A s \in Schedules : ~On(s) => rows'[s].state # "on"]_vars

-----------------------------------------------------------------------------
(* Why events act once: an event is open until the loop that fires it stamped
   it, it is acted on by that loop alone, and only from "receive". *)

Taken(p) == pc[p] = "receive" /\ cur[p].event # 0

ClaimsAreExclusive ==
  /\ Len(log) <= MaxEvents
  /\ \A p \in Loops :
       /\ claims[p] \subseteq DOMAIN log
       /\ Taken(p) => /\ cur[p].event \in DOMAIN log
                      /\ log[cur[p].event] = "used" /\ acted[cur[p].event] = 0
  /\ \A p, q \in Loops : Taken(p) /\ Taken(q) /\ p # q => cur[p].event # cur[q].event
  /\ \A e \in 1..MaxEvents : acted[e] > 0 => e \in DOMAIN log /\ log[e] = "used"

IndInv == TypeOK /\ ClaimsAreExclusive /\ EventsActOnce

-----------------------------------------------------------------------------
(* Why periods are kept: every enabled row, and every copy a pass still holds,
   is due no earlier than a recurrence after the last firing; a pass fires only
   what was due by the moment it read, and holds no second copy of it. *)

Firing(p) == pc[p] \in {"receive", "mark"}
InEvents(p) ==
  \/ pc[p] = "events"
  \/ pc[p] \in {"receive", "mark", "record"} /\ cur[p].event # 0

InPeriod(s, due) == ran[s].times > 0 => due >= NextAfter(s, ran[s].last)

PassIsFresh(p) ==
  /\ \A c \in batch[p] : c.s \in Timed =>
       /\ c.due <= now[p] /\ InPeriod(c.s, c.due)
       /\ Firing(p) => c.s # cur[p].s
       /\ ~InEvents(p)
  /\ \A c, d \in batch[p] : c.s = d.s => c = d
  /\ Firing(p) /\ cur[p].s \in Timed => cur[p].due <= now[p] /\ InPeriod(cur[p].s, cur[p].due)
  /\ InEvents(p) => cur[p].s \notin Timed

PeriodInv ==
  /\ \A s \in Timed : On(s) => InPeriod(s, rows[s].due)
  /\ \A p \in Loops : PassIsFresh(p)
=============================================================================
