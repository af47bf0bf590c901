------------------------------- MODULE MCRuns -------------------------------
(* What the window holds on to: the register of live runs (a task a person
   started beside an objective with one task of its own), the stream of a run's
   events, and the page that re-reads a conversation.  The three share no state:
   a behaviour is of one of them, and the others stand still. *)
EXTENDS Runs, Naturals, TLC

CONSTANTS
  d1, p1, o1,
  Objective, Given, Planned, Watchers, Buffer, QueueSize, MaxEvents, t1, t2, w1,
  Threads, Requests, None, MaxReads, MaxOpens, a, b, r1, r2

\* The tasks of the plan are among those that may be given, and none is the objective.
ASSUME StreamsAssumption ==
  /\ Objective \notin Given /\ Planned \subseteq Given
  /\ MaxEvents \in Nat /\ Buffer \in Nat \ {0}

VARIABLES
  part, \* the one of the three that moves
  plan, given, started, saved, announced, events, recent, queue, at, watched, tracked, over,
  left, seen, between, lost,
  said, opened, answered, dead, open, screen, loading, failed, reads, send, following, opens

runs == <<row, loop, running, objective, signal, cancelling, closing, asked>>
stream == <<plan, given, started, saved, announced, events, recent, queue, at, watched, tracked,
            over, left, seen, between, lost>>
page == <<said, opened, answered, dead, open, screen, loading, failed, reads, send, following,
          opens>>

Watch == INSTANCE Streams WITH said <- announced, Tasks <- Given
Chat == INSTANCE ChatPage WITH stream <- following

OneEach == (p1 :> o1)

AllInit == part \in {"runs", "stream", "page"} /\ Init /\ Watch!Init /\ Chat!Init

AllNext ==
  \/ part = "runs" /\ Next /\ UNCHANGED <<part, stream, page>>
  \/ part = "stream" /\ Watch!Next /\ UNCHANGED <<part, runs, page>>
  \/ part = "page" /\ Chat!Next /\ UNCHANGED <<part, runs, stream>>

\* The fairness of Runs, and of ChatPage.
AllSpec ==
  /\ AllInit /\ [][AllNext]_<<part, runs, stream, page>>
  /\ Fairness
  /\ WF_page(part = "page" /\ Chat!Poll)
  /\ SF_page(part = "page" /\ \E thread \in reads : Chat!Arrive(thread))

\* Streams.NothingMissed: once the replay is done a watcher was shown, or has
\* waiting, every event about what it watches, as long as nothing was dropped.
NothingMissed == Watch!NothingMissed

\* Streams.EndMeansOver: a stream ends only when the row says that it is over.
EndMeansOver == Watch!EndMeansOver

\* ChatPage.AnswersReachTheScreen: an answer does not stay off the screen.
AnswersReachTheScreen == Chat!AnswersReachTheScreen
=============================================================================
