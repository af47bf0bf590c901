----------------------------- MODULE MCSurfaces -----------------------------
(* What an employee's work reaches outside of the process, and the gate before it: the
   line to a connected service, the record of that service, the screen, the chat of
   the bot that asks a person, and the calls of tools.  The five share no state: a
   behaviour is of one of them, and the others stand still. *)
EXTENDS Transport, FiniteSets, TLC

CONSTANTS
  c1, c2, tool, r1, r2, k1, k2, t1, t2, a1, a2, p1,
  Tools, Requests, Conns, MaxChanges,
  Tasks, Apps, Allowed, Pages, Sizes, MaxActions, MaxLaunches,
  q1, q2, Questions, MaxPresses,
  f, g, Files, Declarations, ServiceEffects, MaxCalls, MaxKills

\* A connection is not the absence of one; the screen has a size and tasks enough; so
\* many presses are made.
ASSUME ServiceAssumption == "none" \notin Conns
ASSUME ScreenAssumption ==
  /\ Sizes \subseteq Nat /\ \E s \in Sizes : \A u \in Sizes : u <= s
  /\ MaxActions \in Nat
  /\ IsFiniteSet(Tasks)
ASSUME PressesAssumption == MaxPresses \in Nat

VARIABLES
  part, \* the one of the five that moves
  row, offer, registry, live, servers, cached, grants, req, up, changes, overlap, shrunk,
  surface, configured, stop, front, size, region, clipped, actions, tab, tabs, open,
  task, seen, landings, last, moves,
  posted, poll, verdict, offset, asked, reply, shown, updates, confirmed, looked, overruled,
  files, employee, effect, approver, registered, at, call, refused, saved, calls, kills, ran, lost

life == <<row, offer, registry, live, servers, cached, grants, req, up, changes, overlap, shrunk>>
screen == <<surface, configured, stop, front, size, region, clipped, actions, tab, tabs, open,
            task, seen, landings, last, moves>>
chat == <<posted, poll, verdict, offset, asked, reply, shown, updates, confirmed, looked,
          overruled>>
gate == <<files, employee, effect, approver, registered, at, call, refused, saved, calls, kills,
          ran, lost>>

Life == INSTANCE Integrations
Use == INSTANCE ScreenUse WITH alive <- open, changes <- moves
Bot == INSTANCE Telegram WITH row <- posted, call <- poll, heard <- looked
Gate == INSTANCE ToolCalls

\* Nobody is forbidden anything; whoever writes asks; whoever may take nothing
\* back that cannot be taken back, and sends nothing.
Staff ==
  LET All == {"fs.read", "fs.write", "fs.move", "code.run", "service"}
  IN  {[allowed |-> All, policies |-> {}],
       [allowed |-> {"fs.write", "service"}, policies |-> {"approve_every_write"}],
       [allowed |-> {"fs.read", "fs.move", "service"},
        policies |-> {"no_sending", "no_irreversible_actions"}]}

\* A part that stands still stands anywhere: the screen and the gate at one of
\* their beginnings.
AllInit ==
  /\ part \in {"pipe", "life", "screen", "chat", "gate"}
  /\ Init /\ Life!Init /\ Use!Init /\ Bot!Init /\ Gate!Init
  /\ part # "screen" =>
       /\ surface = "DESKTOP" /\ configured = Use!Everywhere
       /\ front = a1 /\ size = 1
  /\ part # "gate" =>
       /\ files = {} /\ effect = "READ" /\ approver
       /\ employee = [t \in Tasks |-> CHOOSE e \in Staff : e.policies = {}]

pipe == <<pc, server, alive, started, connected, holder, number, mine, on, inbox, outbox,
          heard, notes, dirty>>

AllNext ==
  \/ part = "pipe" /\ Next /\ UNCHANGED <<part, life, screen, chat, gate>>
  \/ part = "life" /\ Life!Next /\ UNCHANGED <<part, pipe, screen, chat, gate>>
  \/ part = "screen" /\ Use!Next /\ UNCHANGED <<part, pipe, life, chat, gate>>
  \/ part = "chat" /\ Bot!Next /\ UNCHANGED <<part, pipe, life, screen, gate>>
  \/ part = "gate" /\ Gate!Next /\ UNCHANGED <<part, pipe, life, screen, chat>>

AllSpec == AllInit /\ [][AllNext]_<<part, vars, life, screen, chat, gate>>

\* Which of two calls, requests, tasks or questions is which makes no difference, and
\* no part has another's: a state is the one with all of them exchanged.
Other ==
  c1 :> c2 @@ c2 :> c1 @@ r1 :> r2 @@ r2 :> r1 @@ t1 :> t2 @@ t2 :> t1 @@ q1 :> q2 @@ q2 :> q1
Exchanged ==
  {[e \in DOMAIN Other |-> IF turned THEN Other[e] ELSE e] : turned \in BOOLEAN}

\* Integrations.RegistryFollowsRow: what is registered, at which effect, and what
\* is granted is what the record says.
RegistryFollowsRow == Life!RegistryFollowsRow

\* ScreenUse.WithinBudget: no more actions reach the surface than the task may take.
WithinBudget == Use!WithinBudget

\* ScreenUse.LandsInside: a click lands where the task may click.
LandsInside == Use!LandsInside

\* Telegram.NothingForgottenUnheard: the bot API forgets no press that no call has
\* looked at.
NothingForgottenUnheard == Bot!NothingForgottenUnheard

\* ToolCalls.LossesWereAnswered: a file written over was asked about, of an
\* employee that asks.
LossesWereAnswered == Gate!LossesWereAnswered

\* ToolCalls.DeclarationsHold: no call runs that its employee's rules forbid.
DeclarationsHold == Gate!DeclarationsHold
=============================================================================
