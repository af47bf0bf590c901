------------------------------ MODULE ChatPage ------------------------------
(***************************************************************************)
(* The conversation page of the window (useChat): the thread on screen, the *)
(* turns in it, the re-reads and requests on their way, and the stream of   *)
(* the run being waited for. The engine behind it keeps threads of          *)
(* objectives; the frame around it says which thread is open. Whatever the  *)
(* engine answers may arrive in any order, late, or not at all.             *)
(***************************************************************************)
EXTENDS Naturals, Sequences, FiniteSets, SequencesExt

CONSTANTS
  Threads,  \* conversations
  Requests, \* things said; each becomes an objective
  None,
  MaxReads, \* bound: re-reads on their way at once
  MaxOpens  \* bound: threads the person opens

VARIABLES
  said,     \* the engine: the objectives of each thread, oldest first
  opened,   \* the threads it knows
  answered, \* the objectives with a result
  dead,     \* those stopped or killed without one
  open,     \* the frame: the thread it names
  screen,   \* the page: the thread on screen, shown and thread
  loading,  \* what was read of the thread the frame names, not yet adopted
  failed,   \* that read failed
  reads,    \* re-reads on their way back
  send,     \* where each request is, and the thread it goes to
  stream,   \* the subscription to the running turn: "off", "on"
  opens     \* history: how often a thread was opened by the person

engine == <<said, opened, answered, dead>>
frame == <<open, loading, failed, opens>>
vars == <<engine, frame, screen, reads, send, stream>>

Turn == [r : Requests, answered : BOOLEAN]
Thread == [id : Threads \cup {None}, turns : Seq(Turn)]
Nothing == [id |-> None, turns |-> << >>]
Places == {"unsent", "opening", "posting", "stored", "shown"}

TypeOK ==
  /\ said \in [Threads -> Seq(Requests)] /\ opened \in SUBSET Threads
  /\ answered \in SUBSET Requests /\ dead \in SUBSET Requests
  /\ open \in Threads \cup {None} /\ screen \in Thread /\ loading \in Thread
  /\ failed \in BOOLEAN /\ \A t \in reads : t \in Thread
  /\ send \in [Requests -> [at : Places, into : Threads \cup {None}]]
  /\ stream \in {"on", "off"} /\ opens \in 0..MaxOpens

Init ==
  /\ said = [t \in Threads |-> << >>] /\ opened = {} /\ answered = {} /\ dead = {}
  /\ open = None /\ screen = Nothing /\ loading = Nothing /\ failed = FALSE
  /\ reads = {} /\ send = [r \in Requests |-> [at |-> "unsent", into |-> None]]
  /\ stream = "off" /\ opens = 0

-----------------------------------------------------------------------------
(* The engine *)

\* get_conversation: the thread and what each turn of it has come to.
Read(t) == [id |-> t,
            turns |-> [i \in DOMAIN said[t] |-> [r |-> said[t][i], answered |-> said[t][i] \in answered]]]

Stored(r) == send[r].at \in {"stored", "shown"}

Answer(r) ==
  /\ Stored(r) /\ r \notin answered \cup dead
  /\ answered' = answered \cup {r}
  /\ UNCHANGED <<said, opened, dead, frame, screen, reads, send, stream>>

\* The process running it ends.
Die(r) ==
  /\ Stored(r) /\ r \notin answered \cup dead
  /\ dead' = dead \cup {r}
  /\ UNCHANGED <<said, opened, answered, frame, screen, reads, send, stream>>

-----------------------------------------------------------------------------
(* What is on screen *)

\* The first turn without an answer.
Running(thread) ==
  LET waiting == SelectSeq(thread.turns, LAMBDA turn : ~turn.answered)
  IN  IF waiting = << >> THEN None ELSE Head(waiting).r
Busy == Running(screen) # None

\* Whatever replaces what is on screen also changes which run is followed.
Show(thread) ==
  /\ screen' = thread
  /\ stream' = IF Running(thread) = None THEN "off"
               ELSE IF <<thread.id, Running(thread)>> = <<screen.id, Running(screen)>> THEN stream
               ELSE "on"

-----------------------------------------------------------------------------
(* The thread the frame names *)

\* The person opens a thread from the list, or begins a new task.
Open(t) ==
  /\ t \in opened \cup {None} /\ t # open /\ opens < MaxOpens
  /\ open' = t /\ opens' = opens + 1
  /\ failed' = FALSE
  /\ loading' = IF t \in {screen.id, None} THEN Nothing ELSE Read(t)
  /\ IF t = None THEN Show(Nothing) ELSE UNCHANGED <<screen, stream>>
  /\ UNCHANGED <<engine, reads, send>>

Adopt ==
  /\ loading # Nothing
  /\ loading' = Nothing
  /\ Show(loading)
  /\ UNCHANGED <<engine, open, failed, opens, reads, send>>

\* It could not be read: the person is told, and what was on screen stays.
LoadFails ==
  /\ loading # Nothing
  /\ loading' = Nothing /\ failed' = TRUE
  /\ UNCHANGED <<engine, open, opens, screen, reads, send, stream>>

-----------------------------------------------------------------------------
(* Re-reads *)

Reread ==
  /\ screen.id # None
  /\ Cardinality(reads) < MaxReads
  /\ reads' = reads \cup {Read(screen.id)}

\* Fault: the timer waits for the stream to be gone.
PollsOnceDropped == Busy /\ stream = "off"
\* While something in it is running a thread is re-read every two seconds.
Polls == Busy

Poll ==
  /\ Polls /\ Reread
  /\ UNCHANGED <<engine, frame, screen, send, stream>>

\* RESULT came: the answer is in the store.
Hear ==
  /\ stream = "on" /\ Running(screen) \in answered
  /\ stream' = "off"
  /\ Reread
  /\ UNCHANGED <<engine, frame, screen, send>>

\* The connection ends, with or without anything having been said.
Drop ==
  /\ stream = "on"
  /\ stream' = "off"
  /\ UNCHANGED <<engine, frame, screen, reads, send>>

Shows(thread) == thread.id = screen.id

Arrive(thread) ==
  /\ thread \in reads
  /\ reads' = reads \ {thread}
  /\ IF Shows(thread) THEN Show(thread) ELSE UNCHANGED <<screen, stream>>
  /\ UNCHANGED <<engine, frame, send>>

Lose(thread) ==
  /\ thread \in reads
  /\ reads' = reads \ {thread}
  /\ UNCHANGED <<engine, frame, screen, send, stream>>

-----------------------------------------------------------------------------
(* Saying something *)

\* Into the thread on screen, or into a new one opened for it.
Send(r) ==
  /\ send[r].at = "unsent"
  /\ send' = [send EXCEPT ![r] =
       [at |-> IF screen.id = None THEN "opening" ELSE "posting", into |-> screen.id]]
  /\ UNCHANGED <<engine, frame, screen, reads, stream>>

\* The new thread takes the screen, and the frame is told of it.
Opened(r, t) ==
  /\ send[r].at = "opening" /\ t \notin opened
  /\ opened' = opened \cup {t}
  /\ Show([id |-> t, turns |-> << >>])
  /\ open' = t /\ loading' = Nothing /\ failed' = FALSE
  /\ send' = [send EXCEPT ![r] = [at |-> "posting", into |-> t]]
  /\ UNCHANGED <<said, answered, dead, opens, reads>>

\* The engine records the objective before it answers.
Store(r) ==
  /\ send[r].at = "posting"
  /\ said' = [said EXCEPT ![send[r].into] = Append(@, r)]
  /\ send' = [send EXCEPT ![r].at = "stored"]
  /\ UNCHANGED <<opened, answered, dead, frame, screen, reads, stream>>

\* The turn is appended if its thread is still on screen.
Posted(r) ==
  /\ send[r].at = "stored"
  /\ send' = [send EXCEPT ![r].at = "shown"]
  /\ IF screen.id = send[r].into
       THEN Show([screen EXCEPT !.turns = Append(@, [r |-> r, answered |-> FALSE])])
       ELSE UNCHANGED <<screen, stream>>
  /\ UNCHANGED <<engine, frame, reads>>

\* Stop asks the engine, and the thread is read again.
Stop ==
  /\ Busy
  /\ dead' = dead \cup ({Running(screen)} \ answered)
  /\ Reread
  /\ UNCHANGED <<said, opened, answered, frame, screen, send, stream>>

-----------------------------------------------------------------------------

Next ==
  \/ \E r \in Requests : Answer(r) \/ Die(r) \/ Send(r) \/ Store(r) \/ Posted(r)
  \/ \E r \in Requests, t \in Threads : Opened(r, t)
  \/ \E t \in Threads \cup {None} : Open(t)
  \/ \E thread \in reads : Arrive(thread) \/ Lose(thread)
  \/ Adopt \/ LoadFails \/ Poll \/ Hear \/ Drop \/ Stop

\* The timer fires, and an engine asked again and again answers at last.
Fairness ==
  /\ WF_vars(Poll)
  /\ SF_vars(\E thread \in reads : Arrive(thread))

Spec == Init /\ [][Next]_vars /\ Fairness

-----------------------------------------------------------------------------
(* What the page promises *)

\* A re-read that arrives after the person opened another thread does not put the
\* old one back: once nothing is being loaded the thread on screen is the frame's.
ScreenIsTheFrames == loading = Nothing /\ ~failed => screen.id = open

On(r, thread) == \E turn \in Range(thread.turns) : turn.r = r
Waiting(r) == [r |-> r, answered |-> FALSE] \in Range(screen.turns)

\* A turn that has its answer does not stay unanswered on screen, whatever becomes
\* of the stream: the re-reads bring it, unless the person looks elsewhere.
AnswersReachTheScreen == \A r \in Requests : Waiting(r) /\ r \in answered ~> ~Waiting(r)

-----------------------------------------------------------------------------
(* What the documentation says and the code does not *)

\* useChat.ts:10, "Which thread is on screen is the frame's to say": when it cannot
\* be read the old one stays, and takes what is said next.
FrameSays == loading = Nothing => screen.id = open

\* useChat.ts:8, "The runtime says; this remembers what it last said": a re-read
\* that left before a request was stored takes its turn off the screen again.
TurnsStay == [][screen'.id = screen.id =>
  \A r \in Requests : On(r, screen) => On(r, screen')]_vars

\* useChat.ts:151, "the trace shown is the trace of the request the person is
\* waiting on": a turn nothing will answer stays the first without an answer.
TraceOfTheWaiting == ~\E r \in Requests : Running(screen) \in dead /\ Waiting(r) /\ r \notin dead

=============================================================================
