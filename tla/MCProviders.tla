----------------------------- MODULE MCProviders -----------------------------
(* What a person sets up on a machine, and what the machine keeps: the
   connections and models, the workspaces, the memory of what was done, and the
   documents the person brought.
   The parts share no state: a behaviour is of one of them. *)
EXTENDS Providers, Sequences, TLC

CONSTANTS c1, c2, c3, m1, m2, k1, r1, r2,
  Spaces, Default, Roots, Processes, Servers, Host, Runs,
  d, w, ra, p1, p2, x1,
  Tasks, SpaceOf, EmployeeOf, PlanOf, NoPlan, MainSpace, Threshold, Batch, MaxAnswers, MaxFaults,
  t1, t2, e1, e2, pl, none,
  Ids, Clients, Shelves, Editions, Wording, Size, Overlap, Embedders, NoModel, MaxCalls, d1, d2, q1, q2, q3, s1, em,
  Parts

VARIABLES
  part, \* the one that moves
  rows, active, declared, running, asked, run, edits, deaths, named, touched, moved, overlapped,
  items, pc, sent, oldest, read, answers, faults, written, expired,
  docs, chunks, file, model, op, begun, gone, torn

spaces == <<rows, active, declared, running, asked, run, edits, deaths, named, touched, moved,
            overlapped>>
kept == <<items, pc, sent, oldest, read, answers, faults, written, expired>>
shelf == <<docs, chunks, file, model, op, begun, gone, torn>>

Places == INSTANCE Workspaces
  WITH up <- running, req <- asked, changes <- edits, kills <- deaths, crossed <- overlapped

Kept == INSTANCE Memory

ASSUME PlacesAssumption ==
  /\ Default \in Spaces /\ {"absent", "derived"} \cap Roots = {}
  /\ Roots \cap Spaces = {}
  /\ Servers \subseteq Processes /\ \A r \in Requests : Host[r] \in Processes
  /\ "none" \notin Processes

\* Three names: the last two differ only in case, and give one credential.
Named == c1 :> "c1_api_key" @@ c2 :> "c2_api_key" @@ c3 :> "c2_api_key"
SentFirst == k1 :> m1

\* The first request is made of the server, the second of a command beside it.
HostOf == r1 :> p1 @@ r2 :> p2

\* Two employees, in the workspace beside the main one; one task is of a plan.
WorkIn == t1 :> w @@ t2 :> w
WorkBy == t1 :> e1 @@ t2 :> e2
WorkFor == t1 :> pl @@ t2 :> none

\* A file of two paragraphs: one of two short sentences, and one longer than a
\* passage, whose sentences are longer than the overlap, longer than a passage, and
\* short.  Then it is corrected.
Word(u) == [unit |-> u, ends |-> "word"]
Stop(u) == [unit |-> u, ends |-> "sentence"]
Blank(u) == [unit |-> u, ends |-> "paragraph"]

Edits == <<"first", "corrected">>
Paragraphs ==
  [first |-> <<Stop(1), Blank(2), Word(3), Stop(4), Stop(5), Word(6), Word(7), Word(8), Stop(9),
               Blank(10)>>,
   corrected |-> <<Stop(1), Blank(2), Word(3), Stop(4), Word(11), Blank(12)>>]

Shelf == INSTANCE Knowledge
  WITH Spaces <- Shelves, Models <- Embedders, Versions <- Editions, Text <- Wording

\* The file says something.
ASSUME TextAssumption ==
  /\ Editions # << >> /\ Editions \in Seq({Editions[i] : i \in DOMAIN Editions})
  /\ \A i \in DOMAIN Editions :
       LET text == Wording[Editions[i]]
       IN  text # << >> /\ text \in Seq({text[k] : k \in DOMAIN text})

ASSUME LengthsAssumption == Size \in Nat \ {0} /\ Overlap \in Nat /\ 2 * Overlap <= Size

AllInit ==
  /\ part \in Parts
  /\ Init /\ Places!Init /\ Kept!Init /\ Shelf!Init
  /\ part # "knowledge" => model = NoModel

settings == <<conns, entries, defaults, vault, directory, catalog, built, req, up,
              last, changes, kills, crossed, raced>>

AllNext ==
  \/ part = "providers" /\ Next /\ UNCHANGED <<part, spaces, kept, shelf>>
  \/ part = "workspaces" /\ Places!Next /\ UNCHANGED <<part, settings, kept, shelf>>
  \/ part = "memory" /\ Kept!Next /\ UNCHANGED <<part, settings, spaces, shelf>>
  \/ part = "knowledge" /\ Shelf!Next /\ UNCHANGED <<part, settings, spaces, kept>>

AllSpec == AllInit /\ [][AllNext]_<<part, settings, spaces, kept, shelf>>

\* Which of the two connections of one credential is which makes no difference, nor
\* which of two documents, and no part has another's: a state is the one with both
\* exchanged.
Other == c2 :> c3 @@ c3 :> c2 @@ d1 :> d2 @@ d2 :> d1
Exchanged ==
  {[e \in DOMAIN Other |-> IF turned THEN Other[e] ELSE e] : turned \in BOOLEAN}

\* Workspaces.OwnFiles: a run's file tools touch its workspace's own directory or
\* one it was given, never another workspace's.
OwnFiles == Places!OwnFiles

\* Workspaces.SwitchesSettle: once no change is under way the machine is in a
\* workspace that is there, and was told of it.
SwitchesSettle == Places!SwitchesSettle

\* Memory.NothingForgottenUntold: an outcome that was stored is told by some item
\* of its workspace until its time to live passes, whatever consolidations do.
NothingForgottenUntold == Kept!NothingForgottenUntold

\* Memory.OwnMemoriesOnly: what a task or the manager may be told of is inside the
\* boundary its scope draws.
OwnMemoriesOnly == Kept!OwnMemoriesOnly

\* Knowledge.DeletedTextIsSilent: a document that was taken away answers nothing
\* until it is added again, even if it was being indexed when it went, unless by
\* two and one of them had only its row to write.
DeletedTextIsSilent == Shelf!DeletedTextIsSilent

\* Knowledge.NothingCutOut: any stretch of the text of a document that is as long as
\* the overlap is whole in one of its passages, however often it was cut again.
NothingCutOut == Shelf!NothingCutOut
=============================================================================
