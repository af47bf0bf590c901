------------------------------- MODULE Streams -------------------------------
(***************************************************************************)
(* What a person watching is told: the broadcaster with its short history  *)
(* and its bounded queues, and Activity, which replays the one and drains  *)
(* the other for somebody who watches an objective or one of its tasks.    *)
(* The objective, its tasks and everybody who announces progress about     *)
(* them are here only as far as what they save and say, in which order.    *)
(***************************************************************************)
EXTENDS Naturals, Sequences, Functions

CONSTANTS
  Objective, \* the objective
  Tasks,     \* the tasks delegated for it
  Planned,   \* those of them its plans have; the others are further attempts
  Watchers,
  Buffer,    \* DEFAULT_BUFFER: events remembered of each id
  QueueSize, \* DEFAULT_QUEUE: events a watcher may be behind
  MaxEvents  \* bound: events announced

Ids == {Objective} \cup Tasks

VARIABLES
  plan,    \* "none", "saved", "announced"
  given,   \* the tasks announced as delegated
  started, \* those whose run was started, their row with it
  saved,   \* ids whose row is terminal
  said,    \* ids whose RESULT was announced
  events,  \* history: everything announced, in order
  recent,  \* _history: the last events of each id
  queue,   \* the queue of each watcher
  at,      \* where each watcher's generator is
  watched, \* what it watches
  tracked, \* the tasks it follows
  over,    \* it read a terminal row
  left,    \* the ids it has still to replay
  seen,    \* history: the events yielded to it
  between, \* history: the tasks given and not yet started as it counted them
  lost     \* history: watchers an event was dropped or forgotten for

runtime == <<plan, given, started, saved, said>>
stream == <<at, watched, tracked, over, left, seen, between>>
vars == <<runtime, events, recent, queue, stream, lost>>

\* mine: it carries the objective's id; names: the tasks its payload names.
Event == [n : 1..MaxEvents, of : Ids, mine : BOOLEAN, names : SUBSET Tasks, final : BOOLEAN]
Places == {"away", "subscribed", "counted", "replaying", "draining", "ended"}

TypeOK ==
  /\ plan \in {"none", "saved", "announced"}
  /\ given \in SUBSET Tasks /\ started \in SUBSET Tasks /\ saved \in SUBSET Ids /\ said \in SUBSET Ids
  /\ events \in Seq(Event)
  /\ recent \in [Ids -> Seq(Event)]
  /\ queue \in [Watchers -> Seq(Event)]
  /\ at \in [Watchers -> Places]
  /\ watched \in [Watchers -> Ids]
  /\ tracked \in [Watchers -> SUBSET Tasks]
  /\ over \in [Watchers -> BOOLEAN]
  /\ left \in [Watchers -> SUBSET Ids]
  /\ seen \in [Watchers -> SUBSET (1..MaxEvents)]
  /\ between \in [Watchers -> SUBSET Tasks]
  /\ lost \in SUBSET Watchers

Init ==
  /\ plan = "none" /\ given = {} /\ started = {} /\ saved = {} /\ said = {}
  /\ events = << >>
  /\ recent = [x \in Ids |-> << >>]
  /\ queue = [w \in Watchers |-> << >>]
  /\ at = [w \in Watchers |-> "away"]
  /\ watched = [w \in Watchers |-> Objective]
  /\ tracked = [w \in Watchers |-> {}]
  /\ over = [w \in Watchers |-> FALSE]
  /\ left = [w \in Watchers |-> {}]
  /\ seen = [w \in Watchers |-> {}]
  /\ between = [w \in Watchers |-> {}]
  /\ lost = {}

-----------------------------------------------------------------------------
(* InMemoryProgressBroadcaster.emit *)

Subscribed(w) == at[w] \notin {"away", "ended"}
Full(w) == Len(queue[w]) = QueueSize

\* The event is remembered, the oldest of its id forgotten for it, and put into
\* every queue that has room.
Emit(of, mine, names, final) ==
  LET e == [n |-> Len(events) + 1, of |-> of, mine |-> mine, names |-> names, final |-> final]
      forgets == Len(recent[of]) = Buffer
  IN  /\ Len(events) < MaxEvents
      /\ events' = Append(events, e)
      /\ recent' = [recent EXCEPT ![of] = Append(IF forgets THEN Tail(@) ELSE @, e)]
      /\ queue' = [w \in Watchers |->
           IF Subscribed(w) /\ ~Full(w) THEN Append(queue[w], e) ELSE queue[w]]
      /\ lost' = lost \cup {w \in Watchers :
           Subscribed(w) /\ (Full(w) \/ (forgets /\ at[w] # "draining"))}

-----------------------------------------------------------------------------
(* Those who announce *)

SavePlan ==
  /\ plan = "none" /\ Objective \notin saved
  /\ plan' = "saved"
  /\ UNCHANGED <<given, started, saved, said, events, recent, queue, stream, lost>>

\* PLAN carries the ids of its tasks.
AnnouncePlan ==
  /\ plan = "saved" /\ Objective \notin saved
  /\ plan' = "announced"
  /\ Emit(Objective, TRUE, Planned, FALSE)
  /\ UNCHANGED <<given, started, saved, said, stream>>

\* The supervisor says who does a task, under the task's id and the objective's;
\* a further attempt is a new task, delegated once one of the plan's has failed.
Delegate(t) ==
  /\ plan = "announced" /\ t \notin given /\ Objective \notin saved
  /\ t \in Planned \/ Planned \cap saved # {}
  /\ given' = given \cup {t}
  /\ Emit(t, TRUE, {t}, FALSE)
  /\ UNCHANGED <<plan, started, saved, said, stream>>

\* Its run begins with saving the row, the first there is of a further attempt.
Start(t) ==
  /\ t \in given \ started
  /\ started' = started \cup {t}
  /\ UNCHANGED <<plan, given, saved, said, events, recent, queue, stream, lost>>

Rows == started \cup IF plan = "none" THEN {} ELSE Planned

\* A stage, a tool call, an observation, a question: a task's under its id alone.
Work(x) ==
  /\ x = Objective \/ x \in started
  /\ x \notin saved
  /\ Emit(x, x = Objective, {}, FALSE)
  /\ UNCHANGED <<runtime, stream>>

\* A row becomes terminal; a cancel saves one and says nothing.
Save(x) ==
  /\ x \notin saved
  /\ x = Objective \/ x \in started
  /\ saved' = saved \cup {x}
  /\ UNCHANGED <<plan, given, started, said, events, recent, queue, stream, lost>>

SayResult(x) ==
  /\ x \in saved /\ x \notin said
  /\ said' = said \cup {x}
  /\ Emit(x, x = Objective, {}, TRUE)
  /\ UNCHANGED <<plan, given, started, saved, stream>>

-----------------------------------------------------------------------------
(* Activity.for_objective and for_task *)

\* Nothing that was announced has been forgotten for something later.
Remembered == \A e \in Range(events) : e \in Range(recent[e.of])

\* The subscription is taken out first.
Subscribe(w, x) ==
  /\ at[w] = "away"
  /\ at' = [at EXCEPT ![w] = "subscribed"]
  /\ watched' = [watched EXCEPT ![w] = x]
  /\ tracked' = [tracked EXCEPT ![w] = {}]
  /\ over' = [over EXCEPT ![w] = FALSE]
  /\ seen' = [seen EXCEPT ![w] = {}]
  /\ lost' = IF Remembered THEN lost \ {w} ELSE lost \cup {w}
  /\ UNCHANGED <<runtime, events, recent, queue, left, between>>

\* _tasks_of: every task whose row names one of the objective's plans.
CountTasks(w) ==
  /\ at[w] = "subscribed"
  /\ at' = [at EXCEPT ![w] = "counted"]
  /\ tracked' = [tracked EXCEPT ![w] =
       IF watched[w] = Objective THEN Rows ELSE {}]
  /\ between' = [between EXCEPT ![w] = given \ started]
  /\ UNCHANGED <<runtime, events, recent, queue, watched, over, left, seen, lost>>

ReadRow(w) ==
  /\ at[w] = "counted"
  /\ at' = [at EXCEPT ![w] = "replaying"]
  /\ over' = [over EXCEPT ![w] = watched[w] \in saved]
  /\ left' = [left EXCEPT ![w] = {watched[w]}]
  /\ UNCHANGED <<runtime, events, recent, queue, watched, tracked, seen, between, lost>>

\* Fault: a task the manager announces is not followed.
IgnoreNames(tasks, e) == tasks
\* _track: follow a task the manager has just announced it delegated.
Track(tasks, e) == IF e.mine THEN tasks \cup e.names ELSE tasks

\* What is remembered of one id, oldest first; after the objective's own the
\* tasks it named are replayed, in the order of their ids.
Replay(w, x) ==
  LET past == recent[x]
      follows == IF x = Objective
                   THEN tracked[w] \cup UNION {Track({}, e) : e \in Range(past)}
                   ELSE tracked[w]
  IN  /\ at[w] = "replaying" /\ x \in left[w]
      /\ tracked' = [tracked EXCEPT ![w] = follows]
      /\ left' = [left EXCEPT ![w] = IF x = Objective THEN follows ELSE @ \ {x}]
      /\ seen' = [seen EXCEPT ![w] = @ \cup {e.n : e \in Range(past)}]
      /\ UNCHANGED <<runtime, events, recent, queue, at, watched, over, between, lost>>

\* A finished run has nothing further to say.
EndReplay(w) ==
  /\ at[w] = "replaying" /\ left[w] = {}
  /\ at' = [at EXCEPT ![w] = IF over[w] THEN "ended" ELSE "draining"]
  /\ queue' = IF over[w] THEN [queue EXCEPT ![w] = << >>] ELSE queue
  /\ UNCHANGED <<runtime, events, recent, watched, tracked, over, left, seen, between, lost>>

Mine(w, e) ==
  IF watched[w] = Objective THEN e.mine \/ e.of \in tracked[w] ELSE e.of = watched[w]
EndsWith(w, e) == e.final /\ e.of = watched[w]

\* The next event: yielded if it is about what is watched, and the last one is RESULT.
Drain(w) ==
  /\ at[w] = "draining" /\ queue[w] # << >>
  /\ LET e == Head(queue[w])
     IN  /\ tracked' = [tracked EXCEPT ![w] =
              IF watched[w] = Objective THEN Track(@, e) ELSE @]
         /\ seen' = [seen EXCEPT ![w] = IF Mine(w, e) THEN @ \cup {e.n} ELSE @]
         /\ at' = [at EXCEPT ![w] = IF EndsWith(w, e) THEN "ended" ELSE @]
         /\ queue' = [queue EXCEPT ![w] = IF EndsWith(w, e) THEN << >> ELSE Tail(@)]
  /\ UNCHANGED <<runtime, events, recent, watched, over, left, between, lost>>

\* The client went away, or comes back to a stream that ended.
Leave(w) ==
  /\ at[w] # "away"
  /\ at' = [at EXCEPT ![w] = "away"]
  /\ queue' = [queue EXCEPT ![w] = << >>]
  /\ left' = [left EXCEPT ![w] = {}]
  /\ UNCHANGED <<runtime, events, recent, watched, tracked, over, seen, between, lost>>

Read(w) == CountTasks(w) \/ ReadRow(w) \/ (\E x \in Ids : Replay(w, x)) \/ EndReplay(w) \/ Drain(w)

Next ==
  \/ SavePlan \/ AnnouncePlan
  \/ \E t \in Tasks : Delegate(t) \/ Start(t)
  \/ \E x \in Ids : Work(x) \/ Save(x) \/ SayResult(x)
  \/ \E w \in Watchers : Read(w) \/ Leave(w) \/ \E x \in Ids : Subscribe(w, x)

Spec == Init /\ [][Next]_vars

-----------------------------------------------------------------------------
(* What a stream promises *)

\* What was announced about what w watches: an objective with its tasks, or a task.
About(w) == {e \in Range(events) : e.of = watched[w] \/ watched[w] = Objective}
Shown(w) == seen[w] \cup {e.n : e \in About(w) \cap Range(queue[w])}

\* Once the replay is done a watcher has been shown, or has waiting in its queue,
\* every event about what it watches, whether it was announced before it came,
\* while it read or since, and nothing else; as long as nothing was dropped for
\* it, and but for the tasks it came too late and too early to hear of.
NothingMissed == \A w \in Watchers :
  at[w] = "draining" /\ w \notin lost =>
    /\ {e.n : e \in {f \in About(w) : f.of \notin between[w]}} \subseteq Shown(w)
    /\ Shown(w) \subseteq {e.n : e \in About(w)}

\* A stream ends only when the row of what it watches says that it is over, so
\* whoever reads the row next finds the answer there.
EndMeansOver == \A w \in Watchers : at[w] = "ended" => watched[w] \in saved

-----------------------------------------------------------------------------
(* What the documentation says and the code does not *)

\* activity.py:136, "One objective's progress, and that of every task it starts":
\* a further attempt is announced under its own id before its row is there, and
\* whoever comes between the two never hears of it.
EveryTaskItStarts == \A w \in Watchers :
  at[w] = "draining" /\ w \notin lost => {e.n : e \in About(w)} \subseteq Shown(w)

\* activity.py:107, "A stream watching one task ends when that task does": its
\* RESULT may be the event its full queue had no room for.
SaidEndsTheStream == \A w \in Watchers :
  at[w] = "draining" /\ queue[w] = << >> => watched[w] \notin said
=============================================================================
