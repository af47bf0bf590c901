--------------------------- MODULE SurfacesProofs ---------------------------
(***************************************************************************)
(* What an employee reaches, proved part by part: the line to a connected  *)
(* service, the record of the service, the screen, the chat of the bot,    *)
(* and the gate before every tool.  The five share no state, so that each  *)
(* has an invariant of its own, which speaks of its own Init and Next.     *)
(***************************************************************************)
EXTENDS MCSurfaces, FiniteSetTheorems, TLAPS

-----------------------------------------------------------------------------
(* The line: its lock is enough, for any number of calls, servers and requests.
   While nobody left a request behind and the server wrote nothing unasked, the one
   line a reader finds is the answer to it. *)

Readers == {"reading greeting", "reading"}
Reading(c) == pc[c] \in Readers
Places == [Calls -> {"asked", "starting", "greet", "reading greeting", "telling",
                     "call", "reading"} \cup Ended]

\* Who reads holds the lock, and who holds it reads.
LockIsTheReaders ==
  /\ \A c \in Calls : Reading(c) => holder = c
  /\ holder # "nobody" => Reading(holder)

\* A server is started once and not started again.
ServersAreNumbered ==
  /\ server <= started
  /\ \A s \in alive : s <= started
  /\ \A c \in Calls : Reading(c) => on[c] \in 1..started /\ mine[c] # 0
  /\ \A s \in Servers : s > started => inbox[s] = << >> /\ outbox[s] = << >> /\ s \notin dirty

\* The lines of server s, when c waits for its answer there, and when nobody does:
\* of a server that is gone a request may be left that nobody will read.
OneLine(c, s) ==
  \/ inbox[s] = <<mine[c]>> /\ outbox[s] = << >>
  \/ inbox[s] = << >> /\ outbox[s] = <<mine[c]>>
Quiet(s) == outbox[s] = << >> /\ (s \in alive => inbox[s] = << >>)

PipesHoldTheRequest == \A s \in Servers \ dirty :
  /\ \A c \in Calls : Reading(c) /\ on[c] = s => OneLine(c, s)
  /\ (\A c \in Calls : ~(Reading(c) /\ on[c] = s)) => Quiet(s)

\* The inductive invariant: the lock, the servers and the pipes, and the answers.
IndInv ==
  /\ TypeOK
  /\ LockIsTheReaders
  /\ ServersAreNumbered
  /\ PipesHoldTheRequest
  /\ OwnAnswers

USE DEF Readers, Ended

\* Arithmetic and lists, apart from the specification.
LEMMA Arithmetic ==
  /\ \A n \in Nat : n + 1 \in Nat /\ n + 1 # 0 /\ n + 1 > n
  /\ \A n, m \in Nat : n > m + 1 => n > m
  /\ \A n, m \in Nat : n >= 1 /\ n <= m => n \in 1..m /\ ~(n > m)
OBVIOUS

LEMMA Lists ==
  ASSUME NEW q \in Seq(Nat), NEW n \in Nat
  PROVE  /\ Append(q, n) \in Seq(Nat)
         /\ q = << >> => Append(q, n) = <<n>>
         /\ q # << >> => Head(q) \in Nat /\ Tail(q) \in Seq(Nat)
         /\ Head(<<n>>) = n /\ Tail(<<n>>) = << >> /\ <<n>> # << >>
<1>1. Append(q, n) \in Seq(Nat)
  OBVIOUS
<1>2. q = << >> => Append(q, n) = <<n>>
  OBVIOUS
<1>3. q # << >> => Head(q) \in Nat /\ Tail(q) \in Seq(Nat)
  OBVIOUS
<1>4. Head(<<n>>) = n /\ <<n>> # << >>
  OBVIOUS
<1>5. Tail(<<n>>) = << >>
  OBVIOUS
<1> QED BY <1>1, <1>2, <1>3, <1>4, <1>5

\* What the types say of numbers, apart from the rest of them.
LEMMA Numbers ==
  ASSUME IndInv
  PROVE  /\ MaxServers \in Nat /\ server \in Nat /\ started \in Nat /\ number \in Nat
         /\ server <= started /\ started <= MaxServers
         /\ \A s \in alive : s \in Nat /\ s >= 1 /\ s <= started /\ s \in Servers
         /\ \A c \in Calls : on[c] \in Nat /\ mine[c] \in Nat
         /\ \A c \in Calls : Reading(c) =>
              on[c] >= 1 /\ on[c] <= started /\ on[c] \in Servers /\ mine[c] # 0
<1>1. /\ server \in 0..MaxServers /\ started \in 0..MaxServers /\ number \in Nat
      /\ alive \in SUBSET Servers /\ on \in [Calls -> 0..MaxServers] /\ mine \in [Calls -> Nat]
  BY DEF IndInv, TypeOK
<1>2. /\ server <= started
      /\ \A s \in alive : s <= started
      /\ \A c \in Calls : Reading(c) => on[c] \in 1..started /\ mine[c] # 0
  BY DEF IndInv, ServersAreNumbered
<1>3. MaxServers \in Nat
  BY TransportAssumption DEF TransportAssumption
<1>4. server \in Nat /\ started \in Nat /\ started <= MaxServers
  BY <1>3, <1>1
<1>5. \A s \in alive : s \in Nat /\ s >= 1 /\ s \in Servers
  BY <1>3, <1>1 DEF Servers
<1>6. \A c \in Calls : on[c] \in Nat /\ mine[c] \in Nat
  BY <1>3, <1>1
<1>7. \A c \in Calls : Reading(c) => on[c] >= 1 /\ on[c] <= started /\ on[c] \in Servers
  BY <1>3, <1>2, <1>4, <1>6 DEF Servers
<1> QED BY <1>3, <1>1, <1>2, <1>4, <1>5, <1>6, <1>7

LEMMA InitIndInv == Init => IndInv
<1> SUFFICES ASSUME Init PROVE IndInv
  OBVIOUS
<1> USE DEF Init
<1>1. MaxServers \in Nat /\ "nobody" \notin Calls
  BY TransportAssumption DEF TransportAssumption
<1>2. TypeOK
  <2>1. << >> \in Seq(Nat)
    OBVIOUS
  <2>2. inbox \in [Servers -> Seq(Nat)] /\ outbox \in [Servers -> Seq(Nat)]
    BY <2>1
  <2>3. pc \in Places
    BY DEF Places
  <2>4. mine \in [Calls -> Nat] /\ heard \in [Calls -> Nat] /\ on \in [Calls -> 0..MaxServers]
    BY <1>1
  <2>5. /\ server \in 0..MaxServers /\ started \in 0..MaxServers
        /\ number \in Nat /\ notes \in Nat
    BY <1>1
  <2>6. /\ alive \in SUBSET Servers /\ connected \in BOOLEAN /\ dirty \in SUBSET Servers
        /\ holder \in Calls \cup {"nobody"}
    OBVIOUS
  <2> QED BY <2>2, <2>3, <2>4, <2>5, <2>6 DEF TypeOK, Places
<1>3. LockIsTheReaders /\ ServersAreNumbered
  BY DEF LockIsTheReaders, ServersAreNumbered, Reading
<1>4. PipesHoldTheRequest /\ OwnAnswers
  BY DEF PipesHoldTheRequest, Quiet, OwnAnswers, Reading
<1> QED BY <1>2, <1>3, <1>4 DEF IndInv

-----------------------------------------------------------------------------
(* A call moves where nobody reads *)

\* Connecting, telling, giving up before the request, and beginning again.
LEMMA IdleKeeps ==
  ASSUME IndInv, NEW c \in Calls,
         ~Reading(c), pc'[c] \notin Readers, \E p \in {"asked", "starting", "greet", "call", "failed"} : Goto(c, p),
         heard' = heard \/ heard' = [heard EXCEPT ![c] = 0],
         mine' = mine \/ (mine' = [mine EXCEPT ![c] = 0] /\ heard'[c] = 0),
         connected' \in BOOLEAN,
         UNCHANGED <<server, alive, started, holder, number, on, pipes, dirty>>
  PROVE  IndInv'
<1> USE DEF IndInv
<1>1. /\ inbox' = inbox /\ outbox' = outbox /\ notes' = notes
      /\ server' = server /\ alive' = alive /\ started' = started
      /\ holder' = holder /\ number' = number /\ on' = on /\ dirty' = dirty
  BY DEF pipes
<1>2. /\ pc' \in Places
      /\ \A d \in Calls \ {c} : pc'[d] = pc[d]
  BY DEF TypeOK, Places, Goto
<1>3. /\ heard' \in [Calls -> Nat] /\ mine' \in [Calls -> Nat]
      /\ \A d \in Calls : heard'[d] = 0 \/ (heard'[d] = heard[d] /\ mine'[d] = mine[d])
      /\ \A d \in Calls \ {c} : mine'[d] = mine[d]
  <2>1. heard \in [Calls -> Nat] /\ mine \in [Calls -> Nat]
    BY DEF TypeOK
  <2>2. /\ heard' \in [Calls -> Nat]
        /\ \A d \in Calls : heard'[d] = 0 \/ heard'[d] = heard[d]
    <3>1. CASE heard' = heard
      BY <2>1, <3>1
    <3>2. CASE heard' = [heard EXCEPT ![c] = 0]
      BY <2>1, <3>2
    <3> QED BY <3>1, <3>2
  <2>3. CASE mine' = mine
    BY <2>1, <2>2, <2>3
  <2>4. CASE mine' = [mine EXCEPT ![c] = 0] /\ heard'[c] = 0
    BY <2>1, <2>2, <2>4
  <2> QED BY <2>3, <2>4
<1>4. \A d \in Calls : /\ Reading(d)' <=> Reading(d)
                       /\ Reading(d) => mine'[d] = mine[d]
  BY <1>2, <1>3 DEF Reading
<1>5. TypeOK'
  BY <1>1, <1>2, <1>3 DEF TypeOK, Places
<1>6. LockIsTheReaders'
  BY <1>1, <1>4 DEF LockIsTheReaders, TypeOK
<1>7. ServersAreNumbered'
  BY <1>1, <1>4 DEF ServersAreNumbered, TypeOK
<1>8. PipesHoldTheRequest'
  <2> SUFFICES ASSUME NEW s \in Servers \ dirty
               PROVE  /\ \A d \in Calls : Reading(d)' /\ on'[d] = s => OneLine(d, s)'
                      /\ (\A d \in Calls : ~(Reading(d)' /\ on'[d] = s)) => Quiet(s)'
    BY <1>1 DEF PipesHoldTheRequest
  <2>1. \A d \in Calls : Reading(d)' /\ on'[d] = s => OneLine(d, s)'
    <3> SUFFICES ASSUME NEW e \in Calls, Reading(e)', on'[e] = s PROVE OneLine(e, s)'
      OBVIOUS
    <3>1. Reading(e) /\ on[e] = s /\ mine'[e] = mine[e]
      BY <1>1, <1>4
    <3>2. OneLine(e, s)
      BY <3>1 DEF PipesHoldTheRequest
    <3> QED BY <1>1, <3>1, <3>2 DEF OneLine
  <2>2. (\A d \in Calls : ~(Reading(d)' /\ on'[d] = s)) => Quiet(s)'
    BY <1>1, <1>4 DEF PipesHoldTheRequest, Quiet
  <2> QED BY <2>1, <2>2
<1>9. OwnAnswers'
  BY <1>1, <1>3 DEF OwnAnswers
<1> QED BY <1>5, <1>6, <1>7, <1>8, <1>9

LEMMA StartKeeps ==
  ASSUME IndInv, NEW c \in Calls, Start(c)
  PROVE  IndInv'
<1>1. CASE Goto(c, "failed") /\ UNCHANGED <<server, alive, started>>
  <2>1. ~Reading(c) /\ pc'[c] \notin Readers /\ connected' \in BOOLEAN
    BY <1>1 DEF Start, Goto, IndInv, TypeOK, Reading
  <2> QED BY <1>1, <2>1, IdleKeeps DEF Start, pipes
<1>2. CASE /\ started < MaxServers
           /\ started' = started + 1 /\ server' = started + 1
           /\ alive' = alive \cup {started + 1}
           /\ Goto(c, "greet")
  <2>1. /\ inbox' = inbox /\ outbox' = outbox /\ notes' = notes /\ dirty' = dirty
        /\ holder' = holder /\ number' = number /\ on' = on /\ mine' = mine /\ heard' = heard
        /\ connected' = connected
    BY DEF Start, pipes
  <2>2. pc' \in Places /\ \A d \in Calls : Reading(d)' <=> Reading(d)
    BY <1>2 DEF IndInv, TypeOK, Places, Goto, Start, Reading
  <2>3. started \in Nat /\ started + 1 \in Nat /\ started + 1 \in Servers
    BY <1>2, Numbers DEF Servers
  <2>4. TypeOK'
    <3>1. /\ server' \in 0..MaxServers /\ started' \in 0..MaxServers
          /\ alive' \subseteq Servers
      BY <1>2, <2>3, Numbers DEF Servers
    <3> QED BY <2>1, <2>2, <3>1 DEF IndInv, TypeOK, Places
  <2>5. LockIsTheReaders'
    BY <2>1, <2>2 DEF IndInv, LockIsTheReaders, TypeOK
  <2>6. ServersAreNumbered'
    <3>1. server' <= started' /\ \A s \in alive' : s <= started'
      BY <1>2, <2>3, Numbers
    <3>2. \A d \in Calls : Reading(d)' => on'[d] \in 1..started' /\ mine'[d] # 0
      BY <1>2, <2>1, <2>2, <2>3, Numbers
    <3>3. \A s \in Servers : s > started' =>
            inbox'[s] = << >> /\ outbox'[s] = << >> /\ s \notin dirty'
      <4>1. \A s \in Servers : s > started + 1 => s > started
        <5>1. \A s \in Servers : s \in Nat
          BY Numbers DEF Servers
        <5> QED BY <2>3, <5>1, Arithmetic
      <4> QED BY <1>2, <2>1, <4>1 DEF IndInv, ServersAreNumbered
    <3> QED BY <3>1, <3>2, <3>3 DEF ServersAreNumbered
  <2>7. inbox[started + 1] = << >>
    <3>1. started + 1 > started
      BY <2>3
    <3> QED BY <2>3, <3>1 DEF IndInv, ServersAreNumbered
  <2>8. PipesHoldTheRequest'
    <3> SUFFICES ASSUME NEW s \in Servers \ dirty
                 PROVE  /\ \A d \in Calls : Reading(d)' /\ on'[d] = s => OneLine(d, s)'
                        /\ (\A d \in Calls : ~(Reading(d)' /\ on'[d] = s)) => Quiet(s)'
      BY <2>1 DEF PipesHoldTheRequest
    <3>1. ASSUME NEW d \in Calls, Reading(d)', on'[d] = s PROVE OneLine(d, s)'
      <4>1. OneLine(d, s)
        BY <2>1, <2>2, <3>1 DEF IndInv, PipesHoldTheRequest
      <4> QED BY <2>1, <4>1 DEF OneLine
    <3>2. ASSUME \A d \in Calls : ~(Reading(d)' /\ on'[d] = s) PROVE Quiet(s)'
      <4>1. Quiet(s)
        BY <2>1, <2>2, <3>2 DEF IndInv, PipesHoldTheRequest
      <4> QED BY <1>2, <2>1, <2>7, <4>1 DEF Quiet
    <3> QED BY <3>1, <3>2
  <2>9. OwnAnswers'
    BY <2>1 DEF IndInv, OwnAnswers
  <2> QED BY <2>4, <2>5, <2>6, <2>8, <2>9 DEF IndInv
<1> QED BY <1>1, <1>2 DEF Start

-----------------------------------------------------------------------------
(* A request, from its line to its answer *)

LEMMA WriteKeeps ==
  ASSUME IndInv, NEW c \in Calls, NEW from \in {"greet", "call"}, NEW to \in Readers,
         Write(c, from, to)
  PROVE  IndInv'
<1>1. /\ outbox' = outbox /\ notes' = notes /\ dirty' = dirty /\ server' = server
      /\ alive' = alive /\ started' = started /\ connected' = connected
      /\ holder = "nobody" /\ holder' = c /\ number' = number + 1
      /\ server \in alive
  BY DEF Write, Running, pipes
<1>2. \A d \in Calls : ~Reading(d)
  <2>1. "nobody" \notin Calls
    BY TransportAssumption DEF TransportAssumption
  <2> QED BY <1>1, <2>1 DEF IndInv, LockIsTheReaders
<1>3. /\ server \in Servers /\ server \in Nat /\ server >= 1 /\ server <= started
      /\ started \in Nat
      /\ number \in Nat /\ number + 1 \in Nat /\ number + 1 # 0
  BY <1>1, Numbers, Arithmetic
<1>4. pc' \in Places /\ \A d \in Calls : Reading(d)' <=> d = c
  BY <1>2 DEF Write, Goto, IndInv, TypeOK, Places, Reading
<1>5. /\ mine' \in [Calls -> Nat] /\ mine'[c] = number + 1
      /\ heard' \in [Calls -> Nat] /\ heard'[c] = 0
      /\ on' \in [Calls -> 0..MaxServers] /\ on'[c] = server
      /\ \A d \in Calls \ {c} : mine'[d] = mine[d] /\ on'[d] = on[d] /\ heard'[d] = heard[d]
  <2>1. /\ mine \in [Calls -> Nat] /\ heard \in [Calls -> Nat] /\ on \in [Calls -> 0..MaxServers]
        /\ server \in 0..MaxServers
    BY DEF IndInv, TypeOK
  <2> QED BY <1>3, <2>1 DEF Write
<1>6. /\ inbox' \in [Servers -> Seq(Nat)]
      /\ inbox'[server] = Append(inbox[server], number + 1)
      /\ \A s \in Servers \ {server} : inbox'[s] = inbox[s]
  <2>1. inbox \in [Servers -> Seq(Nat)]
    BY DEF IndInv, TypeOK
  <2>2. Append(inbox[server], number + 1) \in Seq(Nat)
    BY <1>3, <2>1, Lists
  <2> QED BY <1>3, <2>1, <2>2 DEF Write
<1>7. TypeOK'
  BY <1>1, <1>3, <1>4, <1>5, <1>6 DEF IndInv, TypeOK, Places
<1>8. LockIsTheReaders'
  BY <1>1, <1>4 DEF LockIsTheReaders
<1>9. ServersAreNumbered'
  <2>1. server' <= started' /\ \A s \in alive' : s <= started'
    BY <1>1, Numbers
  <2>2. \A d \in Calls : Reading(d)' => on'[d] \in 1..started' /\ mine'[d] # 0
    <3>1. server \in 1..started
      BY <1>3, Arithmetic
    <3> QED BY <1>1, <1>3, <1>4, <1>5, <3>1
  <2>3. \A s \in Servers : s > started => s # server
    BY <1>3, Arithmetic
  <2>4. \A s \in Servers : s > started' =>
          inbox'[s] = << >> /\ outbox'[s] = << >> /\ s \notin dirty'
    BY <1>1, <1>6, <2>3 DEF IndInv, ServersAreNumbered
  <2> QED BY <2>1, <2>2, <2>4 DEF ServersAreNumbered
<1>10. PipesHoldTheRequest'
  <2> SUFFICES ASSUME NEW s \in Servers \ dirty
               PROVE  /\ \A d \in Calls : Reading(d)' /\ on'[d] = s => OneLine(d, s)'
                      /\ (\A d \in Calls : ~(Reading(d)' /\ on'[d] = s)) => Quiet(s)'
    BY <1>1 DEF PipesHoldTheRequest
  <2>1. Quiet(s)
    BY <1>2 DEF IndInv, PipesHoldTheRequest
  <2>2. CASE s = server
    <3>1. inbox[s] = << >> /\ outbox[s] = << >>
      BY <1>1, <2>1, <2>2 DEF Quiet
    <3>2. Append(inbox[s], number + 1) = <<number + 1>>
      BY <1>3, <3>1, Lists DEF IndInv, TypeOK
    <3>3. inbox'[s] = <<mine'[c]>> /\ outbox'[s] = << >>
      BY <1>1, <1>5, <1>6, <2>2, <3>1, <3>2
    <3>4. OneLine(c, s)'
      BY <3>3 DEF OneLine
    <3> QED BY <1>4, <1>5, <2>2, <3>4
  <2>3. CASE s # server
    <3>1. Quiet(s)'
      BY <1>1, <1>6, <2>1, <2>3 DEF Quiet
    <3> QED BY <1>4, <1>5, <2>3, <3>1
  <2> QED BY <2>2, <2>3
<1>11. OwnAnswers'
  BY <1>1, <1>5 DEF IndInv, OwnAnswers
<1> QED BY <1>7, <1>8, <1>9, <1>10, <1>11 DEF IndInv

\* The reader, and nobody else, stops reading and lets go of the lock.
LEMMA ReaderLeaves ==
  ASSUME IndInv, NEW c \in Calls, Reading(c), Release,
         \E p \in {"telling"} \cup Ended : Goto(c, p)
  PROVE  /\ LockIsTheReaders'
         /\ pc' \in Places
         /\ \A d \in Calls : ~Reading(d)'
         /\ \A d \in Calls \ {c} : ~Reading(d)
<1>1. \A d \in Calls \ {c} : ~Reading(d)
  BY DEF IndInv, LockIsTheReaders
<1>2. pc' \in Places /\ \A d \in Calls : ~Reading(d)'
  BY <1>1 DEF Goto, IndInv, TypeOK, Places, Reading
<1> QED BY <1>1, <1>2 DEF LockIsTheReaders, Release

LEMMA ReadKeeps ==
  ASSUME IndInv, NEW c \in Calls, Read(c)
  PROVE  IndInv'
<1> DEFINE s == on[c]
<1>1. /\ inbox' = inbox /\ notes' = notes /\ dirty' = dirty /\ server' = server
      /\ alive' = alive /\ started' = started /\ connected' = connected
      /\ number' = number /\ mine' = mine /\ on' = on
      /\ Release /\ Reading(c) /\ outbox[s] # << >>
      /\ \E p \in {"telling"} \cup Ended : Goto(c, p)
  BY DEF Read, Reading
<1>2. /\ LockIsTheReaders' /\ pc' \in Places
      /\ \A d \in Calls : ~Reading(d)'
      /\ \A d \in Calls \ {c} : ~Reading(d)
  BY <1>1, ReaderLeaves
<1>3. s \in Servers /\ s >= 1 /\ s <= started /\ s \in Nat /\ started \in Nat /\ mine[c] \in Nat
  BY <1>1, Numbers
<1>4. /\ outbox \in [Servers -> Seq(Nat)] /\ heard \in [Calls -> Nat]
      /\ Head(outbox[s]) \in Nat /\ Tail(outbox[s]) \in Seq(Nat)
  <2>1. outbox \in [Servers -> Seq(Nat)] /\ heard \in [Calls -> Nat]
    BY DEF IndInv, TypeOK
  <2>2. outbox[s] \in Seq(Nat)
    BY <1>3, <2>1
  <2> QED BY <1>1, <1>3, <2>1, <2>2, Lists
<1>5. /\ outbox' \in [Servers -> Seq(Nat)] /\ outbox'[s] = Tail(outbox[s])
      /\ \A t \in Servers \ {s} : outbox'[t] = outbox[t]
      /\ heard' \in [Calls -> Nat] /\ heard'[c] = Head(outbox[s])
      /\ \A d \in Calls \ {c} : heard'[d] = heard[d]
  BY <1>3, <1>4 DEF Read
<1>6. s \notin dirty => inbox[s] = << >> /\ outbox[s] = <<mine[c]>>
  <2> SUFFICES ASSUME s \notin dirty PROVE inbox[s] = << >> /\ outbox[s] = <<mine[c]>>
    OBVIOUS
  <2>1. OneLine(c, s)
    BY <1>1, <1>3 DEF IndInv, PipesHoldTheRequest
  <2> QED BY <1>1, <2>1 DEF OneLine
<1>7. s \notin dirty => outbox'[s] = << >> /\ heard'[c] = mine[c]
  BY <1>3, <1>5, <1>6, Lists
<1>8. TypeOK'
  <2>1. holder' \in Calls \cup {"nobody"}
    BY <1>1 DEF Release
  <2> QED BY <1>1, <1>2, <1>5, <2>1 DEF IndInv, TypeOK, Places
<1>9. ServersAreNumbered'
  <2>1. server' <= started' /\ \A t \in alive' : t <= started'
    BY <1>1 DEF IndInv, ServersAreNumbered
  <2>2. \A t \in Servers : t > started => t # s
    BY <1>3, Arithmetic
  <2>3. \A t \in Servers : t > started' =>
          inbox'[t] = << >> /\ outbox'[t] = << >> /\ t \notin dirty'
    BY <1>1, <1>5, <2>2 DEF IndInv, ServersAreNumbered
  <2> QED BY <1>2, <2>1, <2>3 DEF ServersAreNumbered
<1>10. PipesHoldTheRequest'
  <2> SUFFICES ASSUME NEW t \in Servers \ dirty PROVE Quiet(t)'
    BY <1>1, <1>2 DEF PipesHoldTheRequest
  <2>1. CASE t = s
    BY <1>1, <1>6, <1>7, <2>1 DEF Quiet
  <2>2. CASE t # s
    <3>1. Quiet(t)
      BY <1>2, <2>2 DEF IndInv, PipesHoldTheRequest
    <3> QED BY <1>1, <1>5, <2>2, <3>1 DEF Quiet
  <2> QED BY <2>1, <2>2
<1>11. OwnAnswers'
  BY <1>1, <1>5, <1>7 DEF IndInv, OwnAnswers
<1> QED BY <1>2, <1>8, <1>9, <1>10, <1>11 DEF IndInv

\* A line too long leaves nothing of itself, or a server that is no longer told of.
LEMMA ReadTooLongKeeps ==
  ASSUME IndInv, NEW c \in Calls, ReadTooLong(c)
  PROVE  IndInv'
<1> DEFINE s == on[c]
<1>1. /\ inbox' = inbox /\ notes' = notes /\ server' = server
      /\ alive' = alive /\ started' = started /\ connected' = connected
      /\ number' = number /\ mine' = mine /\ on' = on /\ heard' = heard
      /\ Release /\ Reading(c) /\ outbox[s] # << >>
      /\ Goto(c, "failed")
  BY DEF ReadTooLong, Reading
<1>2. /\ LockIsTheReaders' /\ pc' \in Places
      /\ \A d \in Calls : ~Reading(d)'
      /\ \A d \in Calls \ {c} : ~Reading(d)
  BY <1>1, ReaderLeaves
<1>3. s \in Servers /\ s >= 1 /\ s <= started /\ s \in Nat /\ started \in Nat /\ mine[c] \in Nat
  BY <1>1, Numbers
<1>4. outbox \in [Servers -> Seq(Nat)] /\ Tail(outbox[s]) \in Seq(Nat) /\ <<Note>> \o Tail(outbox[s]) \in Seq(Nat)
  <2>1. outbox \in [Servers -> Seq(Nat)]
    BY DEF IndInv, TypeOK
  <2>2. outbox[s] \in Seq(Nat)
    BY <1>3, <2>1
  <2>3. Tail(outbox[s]) \in Seq(Nat) /\ <<Note>> \in Seq(Nat)
    BY <1>1, <2>2, Lists DEF Note
  <2> QED BY <2>1, <2>3
<1>5. PICK rest \in Seq(Nat) :
        /\ outbox' = [outbox EXCEPT ![s] = rest]
        /\ dirty' = dirty \cup {s} \/ (dirty' = dirty /\ rest = Tail(outbox[s]))
  BY <1>4 DEF ReadTooLong
<1>6. /\ outbox' \in [Servers -> Seq(Nat)] /\ outbox'[s] = rest
      /\ \A t \in Servers \ {s} : outbox'[t] = outbox[t]
      /\ dirty \subseteq dirty' /\ dirty' \subseteq dirty \cup {s}
  BY <1>3, <1>4, <1>5
<1>7. s \notin dirty' => inbox[s] = << >> /\ outbox'[s] = << >>
  <2> SUFFICES ASSUME s \notin dirty' PROVE inbox[s] = << >> /\ outbox'[s] = << >>
    OBVIOUS
  <2>1. OneLine(c, s)
    BY <1>1, <1>3, <1>6 DEF IndInv, PipesHoldTheRequest
  <2>2. inbox[s] = << >> /\ outbox[s] = <<mine[c]>>
    BY <1>1, <2>1 DEF OneLine
  <2> QED BY <1>3, <1>5, <1>6, <2>2, Lists
<1>8. TypeOK'
  <2>1. holder' \in Calls \cup {"nobody"} /\ dirty' \in SUBSET Servers
    BY <1>1, <1>3, <1>6 DEF Release, IndInv, TypeOK
  <2> QED BY <1>1, <1>2, <1>6, <2>1 DEF IndInv, TypeOK, Places
<1>9. ServersAreNumbered'
  <2>1. server' <= started' /\ \A t \in alive' : t <= started'
    BY <1>1 DEF IndInv, ServersAreNumbered
  <2>2. \A t \in Servers : t > started => t # s
    BY <1>3, Arithmetic
  <2>3. \A t \in Servers : t > started' =>
          inbox'[t] = << >> /\ outbox'[t] = << >> /\ t \notin dirty'
    BY <1>1, <1>6, <2>2 DEF IndInv, ServersAreNumbered
  <2> QED BY <1>2, <2>1, <2>3 DEF ServersAreNumbered
<1>10. PipesHoldTheRequest'
  <2> SUFFICES ASSUME NEW t \in Servers, t \notin dirty' PROVE Quiet(t)'
    BY <1>2 DEF PipesHoldTheRequest
  <2>1. CASE t = s
    BY <1>1, <1>7, <2>1 DEF Quiet
  <2>2. CASE t # s
    <3>1. Quiet(t)
      BY <1>2, <1>6, <2>2 DEF IndInv, PipesHoldTheRequest
    <3> QED BY <1>1, <1>6, <2>2, <3>1 DEF Quiet
  <2> QED BY <2>1, <2>2
<1>11. OwnAnswers'
  BY <1>1, <1>6 DEF IndInv, OwnAnswers
<1> QED BY <1>2, <1>8, <1>9, <1>10, <1>11 DEF IndInv

\* The reader gives up: its server is gone, or what it was sent is left behind.
LEMMA GivingUpKeeps ==
  ASSUME IndInv, NEW c \in Calls, Reading(c), Release, Goto(c, "failed"),
         UNCHANGED <<server, alive, started, connected, number, mine, on, pipes, heard>>,
         \/ on[c] \notin alive /\ outbox[on[c]] = << >> /\ dirty' = dirty
         \/ dirty' = dirty \cup {on[c]}
  PROVE  IndInv'
<1>1. inbox' = inbox /\ outbox' = outbox /\ notes' = notes
  BY DEF pipes
<1>2. /\ LockIsTheReaders' /\ pc' \in Places
      /\ \A d \in Calls : ~Reading(d)'
      /\ \A d \in Calls \ {c} : ~Reading(d)
  BY ReaderLeaves
<1>3. /\ on[c] \in Servers /\ on[c] \in Nat /\ started \in Nat /\ on[c] >= 1 /\ on[c] <= started
  BY Numbers
<1>4. TypeOK'
  <2>1. holder' \in Calls \cup {"nobody"}
    BY DEF Release
  <2>2. dirty' \in SUBSET Servers
    BY <1>3 DEF IndInv, TypeOK
  <2> QED BY <1>1, <1>2, <2>1, <2>2 DEF IndInv, TypeOK, Places
<1>5. ServersAreNumbered'
  <2>1. server' <= started' /\ \A t \in alive' : t <= started'
    BY DEF IndInv, ServersAreNumbered
  <2>2. \A t \in Servers : t > started => t # on[c]
    BY <1>3, Arithmetic
  <2>3. \A t \in Servers : t > started' =>
          inbox'[t] = << >> /\ outbox'[t] = << >> /\ t \notin dirty'
    BY <1>1, <2>2 DEF IndInv, ServersAreNumbered
  <2> QED BY <1>2, <2>1, <2>3 DEF ServersAreNumbered
<1>6. PipesHoldTheRequest'
  <2> SUFFICES ASSUME NEW t \in Servers, t \notin dirty' PROVE Quiet(t)'
    BY <1>2 DEF PipesHoldTheRequest
  <2>1. CASE t = on[c]
    BY <1>1, <2>1 DEF Quiet
  <2>2. CASE t # on[c]
    <3>1. Quiet(t)
      BY <1>2, <2>2 DEF IndInv, PipesHoldTheRequest
    <3> QED BY <1>1, <3>1 DEF Quiet
  <2> QED BY <2>1, <2>2
<1>7. OwnAnswers'
  BY DEF IndInv, OwnAnswers
<1> QED BY <1>2, <1>4, <1>5, <1>6, <1>7 DEF IndInv

-----------------------------------------------------------------------------
(* The server *)

LEMMA ServeKeeps ==
  ASSUME IndInv, NEW s \in Servers, Serve(s)
  PROVE  IndInv'
<1>1. /\ pc' = pc /\ server' = server /\ alive' = alive /\ started' = started
      /\ connected' = connected /\ holder' = holder /\ number' = number /\ mine' = mine
      /\ on' = on /\ heard' = heard /\ notes' = notes /\ dirty' = dirty
      /\ s \in alive /\ inbox[s] # << >>
  BY DEF Serve
<1>2. \A d \in Calls : Reading(d)' <=> Reading(d)
  BY <1>1 DEF Reading
<1>3. /\ inbox \in [Servers -> Seq(Nat)] /\ outbox \in [Servers -> Seq(Nat)]
      /\ Tail(inbox[s]) \in Seq(Nat) /\ Append(outbox[s], Head(inbox[s])) \in Seq(Nat)
  <2>1. inbox \in [Servers -> Seq(Nat)] /\ outbox \in [Servers -> Seq(Nat)]
    BY DEF IndInv, TypeOK
  <2>2. inbox[s] \in Seq(Nat) /\ outbox[s] \in Seq(Nat)
    BY <2>1
  <2>3. Head(inbox[s]) \in Nat /\ Tail(inbox[s]) \in Seq(Nat)
    BY <1>1, <2>2, Lists
  <2> QED BY <2>1, <2>2, <2>3, Lists
<1>4. /\ inbox' \in [Servers -> Seq(Nat)] /\ inbox'[s] = Tail(inbox[s])
      /\ outbox' \in [Servers -> Seq(Nat)] /\ outbox'[s] = Append(outbox[s], Head(inbox[s]))
      /\ \A t \in Servers \ {s} : inbox'[t] = inbox[t] /\ outbox'[t] = outbox[t]
  BY <1>3 DEF Serve
<1>5. TypeOK'
  BY <1>1, <1>4 DEF IndInv, TypeOK
<1>6. LockIsTheReaders'
  BY <1>1, <1>2 DEF IndInv, LockIsTheReaders, TypeOK
<1>7. ServersAreNumbered'
  <2>1. s <= started /\ s \in Nat /\ s >= 1 /\ started \in Nat
    BY <1>1, Numbers
  <2>2. \A t \in Servers : t > started => t # s
    BY <2>1, Arithmetic
  <2>3. \A t \in Servers : t > started' =>
          inbox'[t] = << >> /\ outbox'[t] = << >> /\ t \notin dirty'
    BY <1>1, <1>4, <2>2 DEF IndInv, ServersAreNumbered
  <2> QED BY <1>1, <1>2, <2>3 DEF IndInv, ServersAreNumbered
<1>8. PipesHoldTheRequest'
  <2> SUFFICES ASSUME NEW t \in Servers \ dirty
               PROVE  /\ \A d \in Calls : Reading(d)' /\ on'[d] = t => OneLine(d, t)'
                      /\ (\A d \in Calls : ~(Reading(d)' /\ on'[d] = t)) => Quiet(t)'
    BY <1>1 DEF PipesHoldTheRequest
  <2>1. ASSUME NEW d \in Calls, Reading(d)', on'[d] = t PROVE OneLine(d, t)'
    <3>1. OneLine(d, t)
      BY <1>1, <1>2, <2>1 DEF IndInv, PipesHoldTheRequest
    <3>2. CASE t = s
      <4>1. inbox[s] = <<mine[d]>> /\ outbox[s] = << >> /\ mine[d] \in Nat
        BY <1>1, <3>1, <3>2, Numbers DEF OneLine
      <4>2. outbox[s] \in Seq(Nat)
        BY <1>3
      <4>3. inbox'[s] = << >> /\ outbox'[s] = <<mine[d]>>
        BY <1>4, <4>1, <4>2, Lists
      <4> QED BY <1>1, <3>2, <4>3 DEF OneLine
    <3>3. CASE t # s
      BY <1>1, <1>4, <3>1, <3>3 DEF OneLine
    <3> QED BY <3>2, <3>3
  <2>2. ASSUME \A d \in Calls : ~(Reading(d)' /\ on'[d] = t) PROVE Quiet(t)'
    <3>1. Quiet(t)
      BY <1>1, <1>2, <2>2 DEF IndInv, PipesHoldTheRequest
    <3>2. t # s
      BY <1>1, <3>1 DEF Quiet
    <3> QED BY <1>1, <1>4, <3>1, <3>2 DEF Quiet
  <2> QED BY <2>1, <2>2
<1>9. OwnAnswers'
  BY <1>1 DEF IndInv, OwnAnswers
<1> QED BY <1>5, <1>6, <1>7, <1>8, <1>9 DEF IndInv

LEMMA MutterKeeps ==
  ASSUME IndInv, NEW s \in Servers, Mutter(s)
  PROVE  IndInv'
<1>1. /\ pc' = pc /\ server' = server /\ alive' = alive /\ started' = started
      /\ connected' = connected /\ holder' = holder /\ number' = number /\ mine' = mine
      /\ on' = on /\ heard' = heard /\ inbox' = inbox
      /\ notes' = notes + 1 /\ dirty' = dirty \cup {s} /\ s \in alive
  BY DEF Mutter
<1>2. \A d \in Calls : Reading(d)' <=> Reading(d)
  BY <1>1 DEF Reading
<1>3. /\ outbox' \in [Servers -> Seq(Nat)]
      /\ \A t \in Servers \ {s} : outbox'[t] = outbox[t]
  <2>1. outbox \in [Servers -> Seq(Nat)] /\ Note \in Nat
    BY DEF IndInv, TypeOK, Note
  <2>2. Append(outbox[s], Note) \in Seq(Nat)
    BY <2>1, Lists
  <2> QED BY <2>1, <2>2 DEF Mutter
<1>4. TypeOK'
  <2>1. notes' \in Nat
    BY <1>1, Arithmetic DEF IndInv, TypeOK
  <2> QED BY <1>1, <1>3, <2>1 DEF IndInv, TypeOK
<1>5. LockIsTheReaders'
  BY <1>1, <1>2 DEF IndInv, LockIsTheReaders, TypeOK
<1>6. ServersAreNumbered'
  <2>1. s <= started /\ s \in Nat /\ s >= 1 /\ started \in Nat
    BY <1>1, Numbers
  <2>2. \A t \in Servers : t > started => t # s
    BY <2>1, Arithmetic
  <2>3. \A t \in Servers : t > started' =>
          inbox'[t] = << >> /\ outbox'[t] = << >> /\ t \notin dirty'
    BY <1>1, <1>3, <2>2 DEF IndInv, ServersAreNumbered
  <2> QED BY <1>1, <1>2, <2>3 DEF IndInv, ServersAreNumbered
<1>7. PipesHoldTheRequest'
  <2> SUFFICES ASSUME NEW t \in Servers, t \notin dirty'
               PROVE  /\ \A d \in Calls : Reading(d)' /\ on'[d] = t => OneLine(d, t)'
                      /\ (\A d \in Calls : ~(Reading(d)' /\ on'[d] = t)) => Quiet(t)'
    BY DEF PipesHoldTheRequest
  <2>1. t # s /\ t \notin dirty /\ outbox'[t] = outbox[t] /\ inbox'[t] = inbox[t]
    BY <1>1, <1>3
  <2>2. ASSUME NEW d \in Calls, Reading(d)', on'[d] = t PROVE OneLine(d, t)'
    <3>1. OneLine(d, t)
      BY <1>1, <1>2, <2>1, <2>2 DEF IndInv, PipesHoldTheRequest
    <3> QED BY <1>1, <2>1, <3>1 DEF OneLine
  <2>3. ASSUME \A d \in Calls : ~(Reading(d)' /\ on'[d] = t) PROVE Quiet(t)'
    <3>1. Quiet(t)
      BY <1>1, <1>2, <2>1, <2>3 DEF IndInv, PipesHoldTheRequest
    <3> QED BY <1>1, <2>1, <3>1 DEF Quiet
  <2> QED BY <2>2, <2>3
<1>8. OwnAnswers'
  BY <1>1 DEF IndInv, OwnAnswers
<1> QED BY <1>4, <1>5, <1>6, <1>7, <1>8 DEF IndInv

\* A server exits, of itself or because the connection was closed.
LEMMA EndKeeps ==
  ASSUME IndInv, NEW s \in Servers, alive' = alive \ {s}, server' \in {server, 0},
         connected' \in BOOLEAN,
         UNCHANGED <<pc, started, holder, number, mine, on, pipes, heard, dirty>>
  PROVE  IndInv'
<1>1. inbox' = inbox /\ outbox' = outbox /\ notes' = notes
  BY DEF pipes
<1>2. \A d \in Calls : Reading(d)' <=> Reading(d)
  BY DEF Reading
<1>3. server' \in 0..MaxServers /\ server' <= started
  <2>1. CASE server' = server
    BY <2>1 DEF IndInv, TypeOK, ServersAreNumbered
  <2>2. CASE server' = 0
    BY <2>2, Numbers
  <2> QED BY <2>1, <2>2
<1>4. TypeOK'
  BY <1>1, <1>3 DEF IndInv, TypeOK
<1>5. LockIsTheReaders'
  BY <1>2 DEF IndInv, LockIsTheReaders, TypeOK
<1>6. ServersAreNumbered'
  BY <1>1, <1>2, <1>3 DEF IndInv, ServersAreNumbered
<1>7. PipesHoldTheRequest'
  <2> SUFFICES ASSUME NEW t \in Servers \ dirty
               PROVE  /\ \A d \in Calls : Reading(d)' /\ on'[d] = t => OneLine(d, t)'
                      /\ (\A d \in Calls : ~(Reading(d)' /\ on'[d] = t)) => Quiet(t)'
    BY DEF PipesHoldTheRequest
  <2>1. ASSUME NEW d \in Calls, Reading(d)', on'[d] = t PROVE OneLine(d, t)'
    <3>1. OneLine(d, t)
      BY <1>2, <2>1 DEF IndInv, PipesHoldTheRequest
    <3> QED BY <1>1, <3>1 DEF OneLine
  <2>2. ASSUME \A d \in Calls : ~(Reading(d)' /\ on'[d] = t) PROVE Quiet(t)'
    <3>1. Quiet(t)
      BY <1>2, <2>2 DEF IndInv, PipesHoldTheRequest
    <3> QED BY <1>1, <3>1 DEF Quiet
  <2> QED BY <2>1, <2>2
<1>8. OwnAnswers'
  BY DEF IndInv, OwnAnswers
<1> QED BY <1>4, <1>5, <1>6, <1>7, <1>8 DEF IndInv

-----------------------------------------------------------------------------
(* Every step *)

LEMMA StepKeeps == IndInv /\ [Next]_vars => IndInv'
<1> SUFFICES ASSUME IndInv, [Next]_vars PROVE IndInv'
  OBVIOUS
<1>1. ASSUME NEW c \in Calls, Connect(c) \/ NotRunning(c) \/ Leave(c) \/ Tell(c)
      PROVE  IndInv'
  <2>1. /\ ~Reading(c) /\ pc'[c] \notin Readers
        /\ \E p \in {"asked", "starting", "greet", "call", "failed"} : Goto(c, p)
    <3>1. pc \in Places
      BY DEF IndInv, TypeOK, Places
    <3> QED BY <1>1, <3>1 DEF Connect, NotRunning, Leave, Tell, Goto, Reading, Places
  <2>2. /\ connected' \in BOOLEAN /\ heard' = heard /\ mine' = mine
        /\ UNCHANGED <<server, alive, started, holder, number, on, pipes, dirty>>
    BY <1>1 DEF Connect, NotRunning, Leave, Tell, IndInv, TypeOK
  <2> QED BY <2>1, <2>2, IdleKeeps
<1>2. ASSUME NEW c \in Calls, Again(c) PROVE IndInv'
  <2>1. /\ ~Reading(c) /\ pc'[c] \notin Readers
        /\ \E p \in {"asked", "starting", "greet", "call", "failed"} : Goto(c, p)
    <3>1. pc \in Places
      BY DEF IndInv, TypeOK, Places
    <3> QED BY <1>2, <3>1 DEF Again, Goto, Reading, Places
  <2>2. /\ connected' \in BOOLEAN /\ heard' = [heard EXCEPT ![c] = 0]
        /\ mine' = [mine EXCEPT ![c] = 0] /\ heard'[c] = 0
        /\ UNCHANGED <<server, alive, started, holder, number, on, pipes, dirty>>
    BY <1>2 DEF Again, IndInv, TypeOK
  <2> QED BY <2>1, <2>2, IdleKeeps
<1>3. ASSUME NEW c \in Calls, Start(c) PROVE IndInv'
  BY <1>3, StartKeeps
<1>4. ASSUME NEW c \in Calls, Greet(c) \/ CallTool(c) PROVE IndInv'
  BY <1>4, WriteKeeps DEF Greet, CallTool
<1>5. ASSUME NEW c \in Calls, Read(c) \/ ReadTooLong(c) PROVE IndInv'
  BY <1>5, ReadKeeps, ReadTooLongKeeps
<1>6. ASSUME NEW c \in Calls, ReadEnd(c) \/ Abandon(c) PROVE IndInv'
  BY <1>6, GivingUpKeeps DEF ReadEnd, Abandon, Reading
<1>7. ASSUME NEW s \in Servers, Serve(s) \/ Mutter(s) PROVE IndInv'
  BY <1>7, ServeKeeps, MutterKeeps
<1>8. ASSUME NEW s \in Servers, Exit(s) PROVE IndInv'
  <2>1. connected' \in BOOLEAN
    BY <1>8 DEF Exit, IndInv, TypeOK
  <2> QED BY <1>8, <2>1, EndKeeps DEF Exit
<1>9. CASE Close
  <2>1. server \in Servers
    <3>1. server \in Nat /\ MaxServers \in Nat /\ server # 0 /\ server <= MaxServers
      <4>1. server \in 0..MaxServers
        BY DEF IndInv, TypeOK
      <4> QED BY <1>9, <4>1, Numbers DEF Close
    <3> QED BY <3>1 DEF Servers
  <2> QED BY <1>9, <2>1, EndKeeps DEF Close
<1>10. CASE UNCHANGED vars
  <2>1. /\ pc' = pc /\ inbox' = inbox /\ outbox' = outbox /\ notes' = notes /\ server' = server
        /\ alive' = alive /\ started' = started /\ connected' = connected /\ holder' = holder
        /\ number' = number /\ mine' = mine /\ on' = on /\ heard' = heard /\ dirty' = dirty
    BY <1>10 DEF vars, pipes
  <2>2. TypeOK' /\ LockIsTheReaders' /\ OwnAnswers'
    BY <2>1 DEF IndInv, TypeOK, LockIsTheReaders, OwnAnswers, Reading
  <2>3. ServersAreNumbered'
    BY <2>1 DEF IndInv, ServersAreNumbered, Reading
  <2>4. PipesHoldTheRequest'
    BY <2>1 DEF IndInv, PipesHoldTheRequest, Reading, OneLine, Quiet
  <2> QED BY <2>2, <2>3, <2>4 DEF IndInv
<1> QED BY <1>1, <1>2, <1>3, <1>4, <1>5, <1>6, <1>7, <1>8, <1>9, <1>10 DEF Next, Step

-----------------------------------------------------------------------------
(* Theorems *)

\* The lock, the servers and the pipes stay as IndInv says, whatever the calls
\* and the servers do (transport.py, client.py).
THEOREM ConnectionInvariant == Spec => []IndInv
<1>1. Init => IndInv
  BY InitIndInv
<1>2. IndInv /\ [Next]_vars => IndInv'
  BY StepKeeps
<1> QED BY <1>1, <1>2, PTL DEF Spec

\* For any number of calls and servers: a call that is given an answer is given
\* the answer to its own request, unless a request was left behind, the server wrote
\* something nobody asked for, or a line of its was cut off in the middle
\* (transport.py's lock, which is never released between a request and its line).
THEOREM AnswersAreOwn == Spec => []OwnAnswers
<1>1. IndInv => OwnAnswers
  BY DEF IndInv
<1> QED BY <1>1, ConnectionInvariant, PTL

-----------------------------------------------------------------------------
(* The record of a service *)

\* What is registered is on the record, at the effect it gives, and is there only
\* while a connection to a usable integration is held.
Settled ==
  /\ \A e \in registry : e.tool \in row.offers /\ e.eased = (e.tool \in row.eased)
  /\ registry # {} => live # "none"
  /\ live # "none" => Life!Usable(row)

\* What a request has established where it is, when it is the only one under way.
Reached(q) ==
  LET r == req[q]
  IN  /\ r.at = "read" => Settled /\ (grants = Life!Granted(row) \/ Life!Usable(row))
      /\ r.at = "mark" => Settled /\ r.kind = "connect" /\ r.copy = row /\ row.there /\ row.enabled
      /\ r.at = "open" => /\ Settled /\ r.kind = "connect" /\ r.copy.enabled /\ r.copy.there
                          /\ row = [r.copy EXCEPT !.status = "PENDING"]
      /\ r.at = "keep" =>
           /\ r.kind = "connect" /\ r.copy.enabled /\ r.copy.there /\ live # "none"
           /\ \A e \in registry : e.tool \in r.seen /\ e.eased = (e.tool \in r.copy.eased)
      /\ r.at = "withdraw" =>
           /\ r.kind \in {"disable", "remove", "classify"} /\ r.copy = row
           /\ \A e \in registry : e.tool \in row.offers
           /\ r.kind = "classify" => Life!Usable(row)
      /\ r.at = "save" =>
           CASE r.kind = "connect" -> /\ Settled /\ r.copy.enabled /\ r.copy.there
                                      /\ r.copy = [row EXCEPT !.status = "FAILED"]
             [] r.kind \in {"disable", "remove"} -> registry = {} /\ live = "none"
             [] OTHER -> Settled /\ r.copy = row /\ row.there
      /\ r.at = "list" => Settled
      /\ r.at = "refresh" => Settled /\ r.seen = Life!Granted(row)

OneAtATime == ~overlap => \A p, q \in Requests : Life!Busy(p) /\ Life!Busy(q) => p = q

DownIsEmpty ==
  ~up => /\ registry = {} /\ live = "none" /\ grants = {}
         /\ \A q \in Requests : ~Life!Busy(q)

LifeInv ==
  /\ Life!TypeOK
  /\ OneAtATime /\ DownIsEmpty
  /\ up /\ ~overlap /\ ~shrunk =>
       /\ \A q \in Requests : Life!Busy(q) => Reached(q)
       /\ (\A q \in Requests : ~Life!Busy(q)) => Settled /\ grants = Life!Granted(row)

LEMMA LifeStart == Life!Init => LifeInv
<1> SUFFICES ASSUME Life!Init PROVE LifeInv
  OBVIOUS
<1> USE DEF Life!Init
<1>1. Life!TypeOK
  BY DEF Life!TypeOK, Life!Row, Life!Statuses, Life!Idle
<1>2. \A q \in Requests : ~Life!Busy(q)
  BY DEF Life!Busy, Life!Idle
<1>3. Settled /\ grants = Life!Granted(row)
  BY DEF Settled, Life!Granted, Life!Usable
<1> QED
  BY <1>1, <1>2, <1>3 DEF LifeInv, OneAtATime, DownIsEmpty

LEMMA BusyIsARequest ==
  ASSUME Life!TypeOK, NEW q \in Requests, Life!Busy(q)
  PROVE  /\ req[q] \in Life!Request /\ req[q].copy \in Life!Row
         /\ req[q].kind \in Life!Kinds /\ req[q].at \in Life!Places /\ req[q].seen \subseteq Tools
<1>1. req[q] \in Life!Request
  BY DEF Life!TypeOK, Life!Busy, Life!Idle
<1> QED
  BY <1>1 DEF Life!Request

LEMMA RowsAreTyped ==
  ASSUME NEW r \in Life!Row
  PROVE  /\ r.there \in BOOLEAN /\ r.status \in Life!Statuses /\ r.enabled \in BOOLEAN
         /\ r.offers \subseteq Tools /\ r.eased \subseteq Tools
         /\ Life!Granted(r) \subseteq Tools
BY DEF Life!Row, Life!Granted

\* What is started from scratch is a request.
LEMMA DoingIsARequest ==
  ASSUME NEW k \in Life!Kinds, NEW a \in Life!Places, NEW r \in Life!Row
  PROVE  /\ Life!Doing(k, a, r) \in Life!Request /\ Life!Doing(k, a, Life!Nothing) \in Life!Request
         /\ Life!Doing(k, a, r) # Life!Idle
<1>1. Life!Nothing \in Life!Row
  BY DEF Life!Nothing, Life!Row, Life!Statuses
<1>2. /\ Life!Doing(k, a, r) \in Life!Request /\ Life!Doing(k, a, Life!Nothing) \in Life!Request
  BY <1>1 DEF Life!Doing, Life!Request
<1> QED
  BY <1>2 DEF Life!Request, Life!Idle, Life!Kinds

LEMMA EntriesAreTyped ==
  ASSUME NEW r, NEW N \in SUBSET Tools, NEW c \in Conns
  PROVE  Life!Entries(r, N, c) \subseteq Life!Entry
<1> SUFFICES ASSUME NEW t \in N
             PROVE  [tool |-> t, eased |-> t \in r.eased, conn |-> c] \in Life!Entry
  BY DEF Life!Entries
<1>1. \A b \in BOOLEAN : [tool |-> t, eased |-> b, conn |-> c] \in Life!Entry
  BY DEF Life!Entry
<1>2. (t \in r.eased) \in BOOLEAN
  OBVIOUS
<1> QED
  BY <1>1, <1>2

\* It is enough to look at the request that moves, and that it moved alone.
LEMMA AloneIsEnough ==
  ASSUME LifeInv, NEW q \in Requests, Life!Busy(q), NEW n, req' = [req EXCEPT ![q] = n],
         up' = up, overlap' = overlap, shrunk => shrunk', Life!TypeOK',
         up /\ ~overlap /\ ~shrunk' /\ Reached(q) =>
           IF n.kind # "idle" THEN Reached(q)' ELSE Settled' /\ grants' = Life!Granted(row)'
  PROVE  LifeInv'
<1>1. DOMAIN req = Requests /\ req'[q] = n /\ \A p \in Requests : p # q => req'[p] = req[p]
  BY DEF LifeInv, Life!TypeOK
<1>2. up
  BY DEF LifeInv, DownIsEmpty
<1>3. ~overlap => \A p \in Requests : Life!Busy(p) => p = q
  BY DEF LifeInv, OneAtATime
<1>4. OneAtATime'
  BY <1>1, <1>3 DEF OneAtATime, Life!Busy
<1>5. ASSUME ~overlap', ~shrunk', up'
      PROVE  /\ (\A p \in Requests : Life!Busy(p) => Reached(p))'
             /\ ((\A p \in Requests : ~Life!Busy(p)) => Settled /\ grants = Life!Granted(row))'
  <2>1. Reached(q)
    BY <1>2, <1>5 DEF LifeInv
  <2>2. IF n.kind # "idle" THEN Reached(q)' ELSE Settled' /\ grants' = Life!Granted(row)'
    BY <1>2, <1>5, <2>1
  <2>3. \A p \in Requests : Life!Busy(p)' => p = q
    BY <1>1, <1>3, <1>5 DEF Life!Busy
  <2>4. Life!Busy(q)' <=> n.kind # "idle"
    BY <1>1 DEF Life!Busy
  <2> QED
    BY <2>2, <2>3, <2>4
<1> QED
  BY <1>2, <1>4, <1>5 DEF LifeInv, DownIsEmpty

\* What a step of a request leaves for its successor to be typed.
LEMMA RequestTyped ==
  ASSUME Life!TypeOK, NEW q \in Requests, NEW n \in Life!Request \cup {Life!Idle},
         req' = [req EXCEPT ![q] = n]
  PROVE  req' \in [Requests -> Life!Request \cup {Life!Idle}] /\ req'[q] = n
BY DEF Life!TypeOK

LEMMA ReadRowKeeps == ASSUME LifeInv, NEW q \in Requests, Life!Read(q) PROVE LifeInv'
<1> USE DEF Life!held
<1>1. /\ Life!Busy(q) /\ req[q].at = "read" /\ Life!TypeOK
      /\ UNCHANGED <<row, offer, registry, live, servers, cached, grants, up, changes, overlap, shrunk>>
  BY DEF LifeInv, Life!Read, Life!At
<1>2. /\ req[q] \in Life!Request /\ row \in Life!Row
      /\ req[q].kind \in Life!Kinds /\ req[q].at \in Life!Places
  BY <1>1, BusyIsARequest DEF Life!TypeOK
<1> DEFINE place == Life!After(req[q].kind, row)
           n == IF ~row.there \/ place = "none" THEN Life!Idle
                ELSE [req[q] EXCEPT !.copy = row, !.at = place]
<1>3. req' = [req EXCEPT ![q] = n]
  BY <1>1 DEF Life!Read, Life!Done, Life!TypeOK
<1>4. /\ place \in Life!Places \cup {"none"}
      /\ req[q].kind = "connect" => place = IF row.enabled THEN "mark" ELSE "none"
      /\ req[q].kind \in {"disable", "remove"} => place = "withdraw"
      /\ req[q].kind \in {"enable", "classify"} => place = "save"
  BY <1>2 DEF Life!After, Life!Kinds, Life!Places
<1>5. n \in Life!Request \cup {Life!Idle}
  BY <1>2, <1>4 DEF Life!Request
<1>6. Life!TypeOK'
  BY <1>1, <1>3, <1>5, RequestTyped DEF Life!TypeOK
<1>7. req'[q] = n
  BY <1>1, <1>3, <1>5, RequestTyped
<1>8. ASSUME up, ~overlap, ~shrunk', Reached(q)
      PROVE  IF n.kind # "idle" THEN Reached(q)' ELSE Settled' /\ grants' = Life!Granted(row)'
  <2>1. Settled /\ (grants = Life!Granted(row) \/ Life!Usable(row))
    BY <1>1, <1>8 DEF Reached
  <2>2. Settled' /\ grants' = grants /\ Life!Granted(row)' = Life!Granted(row)
    BY <1>1, <2>1 DEF Settled, Life!Usable, Life!Granted
  <2>3. CASE ~row.there \/ place = "none"
    <3>1. ~Life!Usable(row)
      BY <1>2, <1>4, <2>3 DEF Life!Usable, Life!Kinds
    <3>2. n.kind = "idle"
      BY <2>3 DEF Life!Idle
    <3> QED
      BY <2>1, <2>2, <3>1, <3>2
  <2>4. CASE ~(~row.there \/ place = "none")
    <3>1. /\ n.kind = req[q].kind /\ n.copy = row /\ n.at = place /\ n.kind # "idle"
      BY <1>1, <1>2, <2>4 DEF Life!Request, Life!Busy
    <3>2. Reached(q)'
      BY <1>1, <1>2, <1>4, <1>7, <2>1, <2>2, <2>4, <3>1 DEF Reached, Settled, Life!Usable, Life!Kinds
    <3> QED
      BY <3>1, <3>2
  <2> QED
    BY <2>3, <2>4
<1> QED
  BY <1>1, <1>3, <1>6, <1>8, AloneIsEnough

LEMMA MarkRowKeeps == ASSUME LifeInv, NEW q \in Requests, Life!Mark(q) PROVE LifeInv'
<1> USE DEF Life!held
<1>1. /\ Life!Busy(q) /\ req[q].at = "mark" /\ Life!TypeOK
      /\ row' = [req[q].copy EXCEPT !.status = "PENDING", !.there = TRUE]
      /\ UNCHANGED <<offer, registry, live, servers, cached, grants, up, changes, overlap, shrunk>>
  BY DEF LifeInv, Life!Mark, Life!At, Life!Upsert
<1>2. /\ req[q] \in Life!Request /\ row \in Life!Row /\ req[q].copy \in Life!Row
      /\ req[q].kind \in Life!Kinds /\ req[q].at \in Life!Places
  BY <1>1, BusyIsARequest DEF Life!TypeOK
<1> DEFINE n == [req[q] EXCEPT !.at = "open"]
<1>3. req' = [req EXCEPT ![q] = n]
  BY <1>1 DEF Life!Mark, Life!Go, Life!TypeOK
<1>4. n \in Life!Request /\ row' \in Life!Row
  BY <1>1, <1>2 DEF Life!Request, Life!Places, Life!Row, Life!Statuses
<1>5. Life!TypeOK' /\ req'[q] = n
  BY <1>1, <1>3, <1>4, RequestTyped DEF Life!TypeOK
<1>6. /\ n.kind = req[q].kind /\ n.copy = req[q].copy /\ n.at = "open" /\ n.kind # "idle"
  BY <1>1, <1>2 DEF Life!Request, Life!Busy
<1>7. ASSUME up, ~overlap, ~shrunk', Reached(q) PROVE Reached(q)'
  <2>1. Settled /\ n.kind = "connect" /\ req[q].copy = row /\ row.there /\ row.enabled
    BY <1>1, <1>6, <1>7 DEF Reached
  <2>2. row' = [n.copy EXCEPT !.status = "PENDING"]
    BY <1>1, <1>2, <1>6, <2>1 DEF Life!Row
  <2>3. Settled'
    BY <1>1, <1>2, <1>6, <2>1, <2>2 DEF Settled, Life!Usable, Life!Row
  <2> QED
    BY <1>5, <1>6, <2>1, <2>2, <2>3 DEF Reached
<1> QED
  BY <1>1, <1>3, <1>5, <1>6, <1>7, AloneIsEnough

LEMMA OpenServiceKeeps == ASSUME LifeInv, NEW q \in Requests, Life!Open(q) PROVE LifeInv'
<1> USE DEF Life!held
<1> DEFINE n == [req[q] EXCEPT !.at = "keep", !.seen = offer]
<1>1. /\ Life!Busy(q) /\ req[q].at = "open" /\ Life!TypeOK
      /\ req' = [req EXCEPT ![q] = n]
      /\ shrunk' = (shrunk \/ ~(Life!NamesOf(registry) \subseteq offer))
      /\ UNCHANGED <<row, offer, grants, up, changes, overlap>>
  BY DEF LifeInv, Life!Open, Life!At, Life!TypeOK
<1>2. PICK c \in Conns \ (servers \cup {live}) :
        /\ servers' = servers \cup {c} /\ live' = c
        /\ registry' = Life!Register(Life!Entries(req[q].copy, offer, c))
        /\ cached' = IF c = cached THEN "none" ELSE cached
  BY DEF Life!Open
<1>3. /\ req[q] \in Life!Request /\ req[q].copy \in Life!Row
      /\ req[q].kind \in Life!Kinds /\ req[q].at \in Life!Places /\ offer \in SUBSET Tools
  BY <1>1, BusyIsARequest DEF Life!TypeOK
<1>4. n \in Life!Request
  BY <1>3 DEF Life!Request, Life!Places
<1>5. Life!Entries(req[q].copy, offer, c) \subseteq Life!Entry
  BY <1>3, EntriesAreTyped
<1>6. registry' \subseteq Life!Entry /\ shrunk' \in BOOLEAN
  BY <1>1, <1>2, <1>5 DEF Life!Register, Life!TypeOK
<1>7. Life!TypeOK' /\ req'[q] = n
  BY <1>1, <1>2, <1>3, <1>4, <1>6, RequestTyped DEF Life!TypeOK
<1>8. /\ n.kind = req[q].kind /\ n.copy = req[q].copy /\ n.at = "keep" /\ n.seen = offer
      /\ n.kind # "idle"
  BY <1>1, <1>3 DEF Life!Request, Life!Busy
<1>9. ASSUME up, ~overlap, ~shrunk', Reached(q) PROVE Reached(q)'
  <2>1. n.kind = "connect" /\ n.copy.enabled /\ n.copy.there
    BY <1>1, <1>8, <1>9 DEF Reached
  <2>2. live' # "none"
    BY <1>2, ServiceAssumption
  <2>3. \A e \in registry' : e \in Life!Entries(req[q].copy, offer, c)
    <3>1. \A e \in registry : e.tool \in offer
      BY <1>1, <1>9 DEF Life!NamesOf
    <3>2. \A t \in offer : \E d \in Life!Entries(req[q].copy, offer, c) : d.tool = t
      <4> SUFFICES ASSUME NEW t \in offer
                   PROVE  \E d \in Life!Entries(req[q].copy, offer, c) : d.tool = t
        OBVIOUS
      <4> DEFINE d == [tool |-> t, eased |-> t \in req[q].copy.eased, conn |-> c]
      <4>1. d \in Life!Entries(req[q].copy, offer, c)
        BY Zenon DEF Life!Entries
      <4>2. d.tool = t
        BY Zenon
      <4> QED
        BY <4>1, <4>2, Zenon
    <3> QED
      BY <1>2, <3>1, <3>2 DEF Life!Register
  <2>4. \A e \in registry' : e.tool \in offer /\ e.eased = (e.tool \in req[q].copy.eased)
    BY <2>3 DEF Life!Entries
  <2> QED
    BY <1>7, <1>8, <2>1, <2>2, <2>4 DEF Reached
<1> QED
  BY <1>1, <1>7, <1>8, <1>9, AloneIsEnough

LEMMA OpenFailsKeeps == ASSUME LifeInv, NEW q \in Requests, Life!OpenFails(q) PROVE LifeInv'
<1> USE DEF Life!held
<1> DEFINE n == [req[q] EXCEPT !.at = "save", !.copy.status = "FAILED"]
<1>0. /\ Life!Busy(q) /\ req[q].at = "open" /\ Life!TypeOK
      /\ req' = [req EXCEPT ![q].at = "save", ![q].copy.status = "FAILED"]
      /\ UNCHANGED <<row, offer, registry, live, cached, grants, up, changes, overlap, shrunk>>
  BY DEF LifeInv, Life!OpenFails, Life!At
<1>2. /\ req[q] \in Life!Request /\ req[q].copy \in Life!Row
      /\ req[q].kind \in Life!Kinds /\ req[q].at \in Life!Places
  BY <1>0, BusyIsARequest
<1>1. /\ Life!Busy(q) /\ req[q].at = "open" /\ Life!TypeOK
      /\ req' = [req EXCEPT ![q] = n]
      /\ UNCHANGED <<row, offer, registry, live, cached, grants, up, changes, overlap, shrunk>>
  <2>1. DOMAIN req = Requests
    BY <1>0 DEF Life!TypeOK
  <2>2. req' = [req EXCEPT ![q] = n]
    BY <1>0, <1>2, <2>1 DEF Life!Request
  <2> QED
    BY <1>0, <2>2
<1>3. /\ n.kind = req[q].kind /\ n.copy = [req[q].copy EXCEPT !.status = "FAILED"]
      /\ n.at = "save" /\ n.kind # "idle"
  BY <1>1, <1>2 DEF Life!Request, Life!Busy
<1>4. n \in Life!Request
  BY <1>2 DEF Life!Request, Life!Places, Life!Row, Life!Statuses
<1>5. servers' \subseteq Conns
  BY <1>1 DEF Life!OpenFails, Life!TypeOK
<1>6. Life!TypeOK' /\ req'[q] = n
  BY <1>1, <1>4, <1>5, RequestTyped DEF Life!TypeOK
<1>7. ASSUME up, ~overlap, ~shrunk', Reached(q) PROVE Reached(q)'
  <2>1. /\ Settled /\ n.kind = "connect" /\ req[q].copy.enabled /\ req[q].copy.there
        /\ row = [req[q].copy EXCEPT !.status = "PENDING"]
    BY <1>1, <1>3, <1>7 DEF Reached
  <2>2. /\ n.copy.enabled /\ n.copy.there /\ n.copy = [row EXCEPT !.status = "FAILED"]
    BY <1>2, <1>3, <2>1 DEF Life!Row
  <2>3. Settled' /\ row' = row
    BY <1>1, <2>1 DEF Settled, Life!Usable
  <2> QED
    BY <1>3, <1>6, <2>1, <2>2, <2>3 DEF Reached
<1> QED
  BY <1>1, <1>3, <1>6, <1>7, AloneIsEnough

LEMMA KeepRowKeeps == ASSUME LifeInv, NEW q \in Requests, Life!Keep(q) PROVE LifeInv'
<1> USE DEF Life!held
<1> DEFINE n == Life!Doing("connect", "list", Life!Nothing)
<1>1. /\ Life!Busy(q) /\ req[q].at = "keep" /\ Life!TypeOK
      /\ req' = [req EXCEPT ![q] = n]
      /\ row' = [req[q].copy EXCEPT !.status = "READY", !.offers = req[q].seen, !.there = TRUE]
      /\ UNCHANGED <<offer, registry, live, servers, cached, grants, up, changes, overlap, shrunk>>
  BY DEF LifeInv, Life!Keep, Life!At, Life!Upsert, Life!Announce
<1>2. /\ req[q].copy \in Life!Row /\ req[q].seen \subseteq Tools
  BY <1>1, BusyIsARequest
<1>3. row' \in Life!Row
  BY <1>1, <1>2 DEF Life!Row, Life!Statuses
<1>4. n \in Life!Request
  BY <1>3, DoingIsARequest DEF Life!Kinds, Life!Places
<1>5. Life!TypeOK' /\ req'[q] = n
  BY <1>1, <1>3, <1>4, RequestTyped DEF Life!TypeOK
<1>6. n.at = "list" /\ n.kind # "idle"
  BY DEF Life!Doing
<1> HIDE DEF n
<1>7. ASSUME up, ~overlap, ~shrunk', Reached(q) PROVE Reached(q)'
  <2>1. /\ req[q].copy.enabled /\ live # "none"
        /\ \A e \in registry : e.tool \in req[q].seen /\ e.eased = (e.tool \in req[q].copy.eased)
    BY <1>1, <1>7 DEF Reached
  <2>2. /\ row'.offers = req[q].seen /\ row'.eased = req[q].copy.eased
        /\ row'.there /\ row'.enabled /\ row'.status = "READY"
    BY <1>1, <1>2, <2>1 DEF Life!Row
  <2>3. Settled'
    BY <1>1, <2>1, <2>2 DEF Settled, Life!Usable
  <2> QED
    BY <1>5, <1>6, <2>3 DEF Reached
<1> QED
  BY <1>1, <1>5, <1>6, <1>7, AloneIsEnough

LEMMA WithdrawToolsKeeps == ASSUME LifeInv, NEW q \in Requests, Life!Withdraw(q) PROVE LifeInv'
<1> USE DEF Life!held
<1> DEFINE n == IF req[q].kind = "classify" THEN Life!Doing("connect", "read", Life!Nothing)
                ELSE Life!Doing(req[q].kind, "save", req[q].copy)
<1>1. /\ Life!Busy(q) /\ req[q].at = "withdraw" /\ Life!TypeOK
      /\ req' = [req EXCEPT ![q] = n]
      /\ registry' = {e \in registry : e.tool \notin req[q].copy.offers}
      /\ live' = "none" /\ servers' = servers \ {live}
      /\ UNCHANGED <<row, offer, cached, grants, up, changes, overlap, shrunk>>
  BY DEF LifeInv, Life!Withdraw, Life!At, Life!TypeOK
<1>2. /\ req[q].copy \in Life!Row /\ req[q].kind \in Life!Kinds
  BY <1>1, BusyIsARequest
<1>3. /\ n \in Life!Request
      /\ n.kind # "idle"
      /\ req[q].kind = "classify" => n.at = "read"
      /\ req[q].kind # "classify" => n.at = "save" /\ n.kind = req[q].kind
  <2>1. /\ Life!Doing("connect", "read", Life!Nothing) \in Life!Request
        /\ Life!Doing(req[q].kind, "save", req[q].copy) \in Life!Request
    BY <1>2, DoingIsARequest DEF Life!Kinds, Life!Places
  <2> QED
    BY <1>1, <1>2, <2>1 DEF Life!Doing, Life!Kinds
<1>4. registry' \subseteq Life!Entry /\ servers' \subseteq Conns
  BY <1>1 DEF Life!TypeOK
<1>5. Life!TypeOK' /\ req'[q] = n
  BY <1>1, <1>3, <1>4, RequestTyped DEF Life!TypeOK
<1> HIDE DEF n
<1>6. ASSUME up, ~overlap, ~shrunk', Reached(q) PROVE Reached(q)'
  <2>1. /\ req[q].kind \in {"disable", "remove", "classify"} /\ req[q].copy = row
        /\ \A e \in registry : e.tool \in row.offers
        /\ req[q].kind = "classify" => Life!Usable(row)
    BY <1>1, <1>6 DEF Reached
  <2>2. registry' = {}
    BY <1>1, <2>1
  <2>3. Settled' /\ row' = row
    BY <1>1, <2>2 DEF Settled
  <2> QED
    BY <1>1, <1>3, <1>5, <2>1, <2>2, <2>3 DEF Reached, Life!Usable
<1> QED
  BY <1>1, <1>3, <1>5, <1>6, AloneIsEnough

LEMMA SaveRowKeeps == ASSUME LifeInv, NEW q \in Requests, Life!Save(q) PROVE LifeInv'
<1> USE DEF Life!held
<1> DEFINE r == req[q].copy
           k == req[q].kind
<1>1. /\ Life!Busy(q) /\ req[q].at = "save" /\ Life!TypeOK
      /\ UNCHANGED <<offer, registry, live, servers, cached, grants, up, changes, overlap, shrunk>>
  BY DEF LifeInv, Life!Save, Life!At
<1>2. r \in Life!Row /\ k \in Life!Kinds /\ row \in Life!Row
  BY <1>1, BusyIsARequest DEF Life!TypeOK
<1>3. \A n : n \in Life!Request /\ req' = [req EXCEPT ![q] = n] /\ row' \in Life!Row
             => Life!TypeOK' /\ req'[q] = n
  BY <1>1, RequestTyped DEF Life!TypeOK
<1> DEFINE list == Life!Doing("connect", "list", Life!Nothing)
           read == Life!Doing("connect", "read", Life!Nothing)
<1>4. /\ list \in Life!Request /\ list.at = "list" /\ list.kind # "idle"
      /\ read \in Life!Request /\ read.at = "read" /\ read.kind # "idle"
  BY <1>2, DoingIsARequest DEF Life!Doing, Life!Kinds, Life!Places
<1> HIDE DEF r, k, list, read
<1>5. ASSUME req' = [req EXCEPT ![q] = list], row' \in Life!Row,
             up /\ ~overlap /\ ~shrunk' /\ Reached(q) => Settled'
      PROVE  LifeInv'
  <2>1. Life!TypeOK' /\ req'[q] = list
    BY <1>3, <1>4, <1>5
  <2>2. Settled' => Reached(q)'
    BY <1>4, <2>1 DEF Reached
  <2> QED
    BY <1>1, <1>4, <1>5, <2>1, <2>2, AloneIsEnough
<1>6. CASE k = "connect" /\ Life!Upsert(r) /\ Life!Announce(q)
  <2>1. req' = [req EXCEPT ![q] = list] /\ row' = [r EXCEPT !.there = TRUE]
    BY <1>6 DEF Life!Announce, Life!Upsert, list
  <2>2. row' \in Life!Row
    BY <1>2, <2>1 DEF Life!Row
  <2>3. ASSUME Reached(q) PROVE Settled'
    <3>1. Settled /\ r.enabled /\ r.there /\ r = [row EXCEPT !.status = "FAILED"]
      BY <1>1, <1>6, <2>3 DEF Reached, r, k
    <3>2. /\ row'.offers = row.offers /\ row'.eased = row.eased
          /\ row'.there /\ row'.enabled /\ row'.status = "FAILED"
      BY <1>2, <2>1, <3>1 DEF Life!Row
    <3> QED
      BY <1>1, <3>1, <3>2 DEF Settled, Life!Usable
  <2> QED
    BY <1>5, <2>1, <2>2, <2>3
<1>7. CASE k = "disable" /\ Life!Upsert([r EXCEPT !.enabled = FALSE, !.status = "DISABLED"])
           /\ Life!Announce(q)
  <2>1. /\ req' = [req EXCEPT ![q] = list]
        /\ row' = [r EXCEPT !.enabled = FALSE, !.status = "DISABLED", !.there = TRUE]
    BY <1>7 DEF Life!Announce, Life!Upsert, list
  <2>2. row' \in Life!Row
    BY <1>2, <2>1 DEF Life!Row, Life!Statuses
  <2>3. ASSUME Reached(q) PROVE Settled'
    BY <1>1, <1>7, <2>3 DEF Reached, Settled, k
  <2> QED
    BY <1>5, <2>1, <2>2, <2>3
<1>8. CASE k = "remove" /\ row' = [row EXCEPT !.there = FALSE, !.offers = {}, !.eased = {}]
           /\ Life!Announce(q)
  <2>1. req' = [req EXCEPT ![q] = list]
    BY <1>8 DEF Life!Announce, list
  <2>2. row' \in Life!Row
    BY <1>2, <1>8 DEF Life!Row
  <2>3. ASSUME Reached(q) PROVE Settled'
    BY <1>1, <1>8, <2>3 DEF Reached, Settled, k
  <2> QED
    BY <1>5, <2>1, <2>2, <2>3
<1>9. CASE k = "enable" /\ Life!Upsert([r EXCEPT !.enabled = TRUE, !.status = "PENDING"])
           /\ req' = [req EXCEPT ![q] = read]
  <2>1. row' = [r EXCEPT !.enabled = TRUE, !.status = "PENDING", !.there = TRUE]
    BY <1>9 DEF Life!Upsert
  <2>2. row' \in Life!Row
    BY <1>2, <2>1 DEF Life!Row, Life!Statuses
  <2>3. Life!TypeOK' /\ req'[q] = read
    BY <1>3, <1>4, <1>9, <2>2
  <2>4. ASSUME Reached(q) PROVE Reached(q)'
    <3>1. Settled /\ r = row
      BY <1>1, <1>9, <2>4 DEF Reached, r, k
    <3>2. /\ row'.offers = row.offers /\ row'.eased = row.eased
          /\ row'.there /\ row'.enabled /\ row'.status = "PENDING"
      BY <1>2, <2>1, <3>1 DEF Life!Row
    <3>3. Settled' /\ Life!Usable(row)'
      BY <1>1, <3>1, <3>2 DEF Settled, Life!Usable
    <3> QED
      BY <1>4, <2>3, <3>3 DEF Reached
  <2> QED
    BY <1>1, <1>4, <1>9, <2>3, <2>4, AloneIsEnough
<1>10. ASSUME k = "classify", NEW eased \in SUBSET Tools, Life!Upsert([r EXCEPT !.eased = eased]),
              req' = [req EXCEPT ![q] = Life!AfterClassifying([r EXCEPT !.eased = eased])]
       PROVE  LifeInv'
  <2> DEFINE new == [r EXCEPT !.eased = eased]
             n == Life!Doing("classify", "withdraw", new)
  <2>1. new \in Life!Row /\ row' = [new EXCEPT !.there = TRUE]
    BY <1>2, <1>10 DEF Life!Row, Life!Upsert
  <2>2. row' \in Life!Row
    BY <2>1 DEF Life!Row
  <2>3. ASSUME Reached(q)
        PROVE  /\ Settled /\ r = row /\ row.there /\ new = row' /\ row'.offers = row.offers
               /\ Life!Usable(row) => Life!Usable(row')
    <3>1. Settled /\ r = row /\ row.there
      BY <1>1, <1>10, <2>3 DEF Reached, r, k
    <3>2. new = row' /\ row'.offers = row.offers
      BY <1>2, <2>1, <3>1 DEF Life!Row
    <3>3. Life!Usable(row) => Life!Usable(row')
      BY <1>2, <2>1, <3>1 DEF Life!Row, Life!Usable
    <3> QED
      BY <3>1, <3>2, <3>3
  <2>4. CASE live = "none"
    <3>1. req' = [req EXCEPT ![q] = list]
      BY <1>10, <2>4 DEF Life!AfterClassifying, list
    <3>2. ASSUME Reached(q) PROVE Settled'
      BY <1>1, <2>3, <2>4, <3>2 DEF Settled
    <3> QED
      BY <1>5, <2>2, <3>1, <3>2
  <2>5. CASE live # "none"
    <3>1. req' = [req EXCEPT ![q] = n]
      BY <1>10, <2>5 DEF Life!AfterClassifying
    <3>2. n \in Life!Request
      BY <2>1, DoingIsARequest DEF Life!Kinds, Life!Places
    <3>3. n.at = "withdraw" /\ n.kind = "classify" /\ n.copy = new
      BY DEF Life!Doing
    <3> HIDE DEF n, new
    <3>4. Life!TypeOK' /\ req'[q] = n
      BY <1>3, <2>2, <3>1, <3>2
    <3>5. ASSUME Reached(q) PROVE Reached(q)'
      <4>1. /\ \A e \in registry' : e.tool \in row'.offers
            /\ Life!Usable(row')
        BY <1>1, <2>3, <2>5, <3>5 DEF Settled
      <4> QED
        BY <2>3, <3>3, <3>4, <3>5, <4>1 DEF Reached, Life!Usable
    <3> QED
      BY <1>1, <3>1, <3>3, <3>4, <3>5, AloneIsEnough
  <2> QED
    BY <2>4, <2>5
<1> QED
  BY <1>6, <1>7, <1>8, <1>9, <1>10 DEF Life!Save, r, k, read

LEMMA ListRowsKeeps == ASSUME LifeInv, NEW q \in Requests, Life!List(q) PROVE LifeInv'
<1> USE DEF Life!held
<1> DEFINE n == [req[q] EXCEPT !.seen = Life!Granted(row), !.at = "refresh"]
<1>1. /\ Life!Busy(q) /\ req[q].at = "list" /\ Life!TypeOK /\ req' = [req EXCEPT ![q] = n]
      /\ UNCHANGED <<row, offer, registry, live, servers, cached, grants, up, changes, overlap, shrunk>>
  BY DEF LifeInv, Life!List, Life!At, Life!TypeOK
<1>2. /\ req[q] \in Life!Request /\ row \in Life!Row
      /\ req[q].kind \in Life!Kinds /\ req[q].at \in Life!Places
  BY <1>1, BusyIsARequest DEF Life!TypeOK
<1>3. Life!Granted(row) \subseteq Tools
  BY <1>2, RowsAreTyped
<1>4. /\ n \in Life!Request /\ n.at = "refresh" /\ n.seen = Life!Granted(row) /\ n.kind # "idle"
  BY <1>1, <1>2, <1>3 DEF Life!Request, Life!Places, Life!Busy
<1>5. Life!TypeOK' /\ req'[q] = n
  BY <1>1, <1>4, RequestTyped DEF Life!TypeOK
<1>6. ASSUME Reached(q) PROVE Reached(q)'
  <2>1. Settled' /\ Life!Granted(row)' = Life!Granted(row)
    BY <1>1, <1>6 DEF Reached, Settled, Life!Usable, Life!Granted
  <2> QED
    BY <1>4, <1>5, <2>1 DEF Reached
<1> QED
  BY <1>1, <1>4, <1>5, <1>6, AloneIsEnough

LEMMA RefreshGrantsKeeps == ASSUME LifeInv, NEW q \in Requests, Life!Refresh(q) PROVE LifeInv'
<1> USE DEF Life!held
<1>1. /\ Life!Busy(q) /\ req[q].at = "refresh" /\ Life!TypeOK
      /\ req' = [req EXCEPT ![q] = Life!Idle] /\ grants' = req[q].seen
      /\ UNCHANGED <<row, offer, registry, live, servers, cached, up, changes, overlap, shrunk>>
  BY DEF LifeInv, Life!Refresh, Life!At, Life!Done
<1>2. req[q].seen \subseteq Tools
  BY <1>1, BusyIsARequest
<1>3. Life!TypeOK'
  BY <1>1, <1>2, RequestTyped DEF Life!TypeOK
<1>4. Life!Idle.kind = "idle"
  BY DEF Life!Idle
<1>5. ASSUME Reached(q) PROVE Settled' /\ grants' = Life!Granted(row)'
  BY <1>1, <1>5 DEF Reached, Settled, Life!Usable, Life!Granted
<1> QED
  BY <1>1, <1>3, <1>4, <1>5, AloneIsEnough

LEMMA AskPageKeeps ==
  ASSUME LifeInv, NEW q \in Requests, NEW kind \in Life!Kinds, Life!Ask(q, kind) PROVE LifeInv'
<1> USE DEF Life!held
<1> DEFINE n == Life!Doing(kind, "read", Life!Nothing)
<1>1. /\ up /\ ~Life!Busy(q) /\ ~overlap /\ Life!TypeOK /\ req' = [req EXCEPT ![q] = n]
      /\ overlap' = (overlap \/ \E p \in Requests : Life!Busy(p))
      /\ UNCHANGED <<row, offer, registry, live, servers, cached, grants, up, changes, shrunk>>
  BY DEF LifeInv, Life!Ask
<1>2. n \in Life!Request /\ n.at = "read"
  <2>1. Life!Nothing \in Life!Row
    BY DEF Life!Nothing, Life!Row, Life!Statuses
  <2> QED
    BY <2>1, DoingIsARequest DEF Life!Doing, Life!Places
<1> HIDE DEF n
<1>3. overlap' \in BOOLEAN
  BY <1>1
<1>4. Life!TypeOK' /\ req'[q] = n
  BY <1>1, <1>2, <1>3, RequestTyped DEF Life!TypeOK
<1>5. ~overlap' => \A p \in Requests : Life!Busy(p)' => p = q
  BY <1>1 DEF Life!TypeOK, Life!Busy
<1>6. ASSUME ~overlap', ~shrunk' PROVE \A p \in Requests : Life!Busy(p)' => Reached(p)'
  <2>1. Settled /\ grants = Life!Granted(row)
    BY <1>1, <1>6 DEF LifeInv
  <2>2. Settled' /\ grants' = Life!Granted(row)'
    BY <1>1, <2>1 DEF Settled, Life!Usable, Life!Granted
  <2>3. Reached(q)'
    BY <1>2, <1>4, <2>2 DEF Reached
  <2> QED
    BY <1>5, <1>6, <2>3
<1>7. ASSUME \A p \in Requests : ~Life!Busy(p)' PROVE FALSE
  BY <1>2, <1>4, <1>7 DEF Life!Busy, Life!Request, Life!Kinds
<1> QED
  BY <1>1, <1>4, <1>5, <1>6, <1>7 DEF LifeInv, OneAtATime, DownIsEmpty

LEMMA LifeStep == LifeInv /\ [Life!Next]_Life!vars => LifeInv'
<1> SUFFICES ASSUME LifeInv, [Life!Next]_Life!vars PROVE LifeInv'
  OBVIOUS
<1> USE DEF Life!held
<1>1. ASSUME NEW q \in Requests, Life!Step(q) PROVE LifeInv'
  BY <1>1, ReadRowKeeps, MarkRowKeeps, OpenServiceKeeps, OpenFailsKeeps, KeepRowKeeps, WithdrawToolsKeeps, SaveRowKeeps,
     ListRowsKeeps, RefreshGrantsKeeps DEF Life!Step
<1>2. ASSUME NEW q \in Requests, NEW kind \in Life!Kinds, Life!Ask(q, kind) PROVE LifeInv'
  BY <1>2, AskPageKeeps
<1>3. CASE Life!Stop
  BY <1>3 DEF Life!Stop, LifeInv, Life!TypeOK, OneAtATime, DownIsEmpty, Life!Busy, Life!Idle
<1>4. CASE Life!Restore
  <2>1. /\ ~up /\ Life!TypeOK /\ registry = {} /\ live = "none" /\ grants' = Life!Granted(row)
        /\ up' = TRUE /\ overlap' = FALSE /\ shrunk' = FALSE
        /\ UNCHANGED <<row, offer, servers, req, changes>>
        /\ \A q \in Requests : ~Life!Busy(q)
    BY <1>4 DEF LifeInv, DownIsEmpty, Life!Restore
  <2>2. row \in Life!Row /\ row.offers \subseteq Tools /\ Life!Granted(row) \subseteq Tools
    BY <2>1, RowsAreTyped DEF Life!TypeOK
  <2>3. /\ registry' \subseteq Life!Entry /\ live' \in Conns \cup {"none"}
        /\ cached' \in Conns \cup {"none"} /\ Settled'
    <3>1. CASE Life!Usable(row) /\ row.offers # {}
      <4>1. PICK c \in Conns : /\ registry' = Life!Entries(row, row.offers, c)
                               /\ live' = c /\ cached' = c
        BY <1>4, <3>1 DEF Life!Restore
      <4>2. \A e \in registry' : e.tool \in row.offers /\ e.eased = (e.tool \in row.eased)
        BY <4>1 DEF Life!Entries
      <4> QED
        BY <2>1, <2>2, <3>1, <4>1, <4>2, ServiceAssumption, EntriesAreTyped DEF Settled, Life!Usable
    <3>2. CASE ~(Life!Usable(row) /\ row.offers # {})
      BY <1>4, <2>1, <3>2 DEF Life!Restore, Settled, Life!TypeOK
    <3> QED
      BY <3>1, <3>2
  <2>4. Life!TypeOK'
    BY <2>1, <2>2, <2>3 DEF Life!TypeOK
  <2> QED
    BY <2>1, <2>3, <2>4 DEF LifeInv, OneAtATime, DownIsEmpty, Life!Busy, Life!Granted, Life!Usable
<1>5. CASE Life!CallTool
  <2>1. servers' \subseteq Conns
    BY <1>5 DEF LifeInv, Life!TypeOK, Life!CallTool, Life!Entry
  <2> QED
    BY <1>5, <2>1 DEF LifeInv, Life!TypeOK, OneAtATime, DownIsEmpty, Life!Busy, Life!CallTool,
       Reached, Settled, Life!Granted, Life!Usable
<1>6. CASE Life!Change
  BY <1>6 DEF LifeInv, Life!TypeOK, OneAtATime, DownIsEmpty, Life!Busy, Life!Change,
     Reached, Settled, Life!Granted, Life!Usable
<1>7. CASE UNCHANGED Life!vars
  BY <1>7 DEF LifeInv, Life!TypeOK, OneAtATime, DownIsEmpty, Life!Busy, Life!vars,
     Reached, Settled, Life!Granted, Life!Usable
<1> QED
  BY <1>1, <1>2, <1>3, <1>4, <1>5, <1>6, <1>7 DEF Life!Next

\* The inductive invariant of the service: what the one request under way has established.
THEOREM ServiceInvariant == Life!Spec => []LifeInv
BY LifeStart, LifeStep, PTL DEF Life!Spec

\* IntegrationService: whichever requests came one after the other, wherever the process
\* was ended and restored, what is registered and granted is what the record says.
THEOREM RegistryIsTheRow == Life!Spec => []RegistryFollowsRow
<1>1. LifeInv => RegistryFollowsRow
  BY DEF LifeInv, RegistryFollowsRow, Life!RegistryFollowsRow, Life!Quiet, Settled
<1> QED
  BY ServiceInvariant, <1>1, PTL

-----------------------------------------------------------------------------
(* The screen *)

Acting(t) == task[t].verb = "click" /\ task[t].at # "idle"

UseTypes ==
  /\ configured.x \in Nat /\ configured.right \in Nat
  /\ region.x \in Nat /\ region.right \in Nat /\ size \in Nat
  /\ actions \in Nat /\ landings \in Nat
  /\ DOMAIN task = Tasks
  /\ \A t \in Tasks : /\ DOMAIN task[t] = DOMAIN Use!Idle
                      /\ task[t].at \in Use!Steps /\ task[t].verb \in Use!Verbs
                      /\ task[t].x \in Nat

\* What is left of the region lies in what was configured.
RegionShrinks ==
  /\ configured.x < configured.right
  /\ region.x = configured.x /\ region.right <= configured.right

PointsAreInside == \A t \in Tasks : Acting(t) => Use!Contains(configured, task[t].x)

\* One task at most is between the two halves of _allow, and there is an action left
\* for it; the others were counted before they went on.
BudgetIsClaimed ==
  /\ \A t, u \in Tasks : task[t].at = "focus" /\ task[u].at = "focus" => t = u
  /\ \A t \in Tasks : task[t].at = "focus" => task[t].verb \in Use!Hands /\ actions < MaxActions
  /\ landings + Cardinality(Use!UnderWay) <= actions
  /\ actions <= MaxActions

UseInv == UseTypes /\ RegionShrinks /\ PointsAreInside /\ BudgetIsClaimed /\ LandsInside

USE DEF LandsInside, Use!LandsInside

LEMMA PointsAreNumbers == Use!Points \subseteq Nat /\ Sizes \subseteq Nat
<1>1. (CHOOSE s \in Sizes : \A u \in Sizes : u <= s) \in Nat
  BY ScreenAssumption
<1> QED
  BY <1>1, ScreenAssumption DEF Use!Points

LEMMA ScreenStart == Use!Init => UseInv
<1> SUFFICES ASSUME Use!Init PROVE UseInv
  OBVIOUS
<1> USE DEF Use!Init
<1>1. UseTypes
  BY PointsAreNumbers DEF UseTypes, Use!Idle, Use!Steps, Use!Verbs, Use!Hands, Use!Region
<1>2. RegionShrinks
  BY <1>1 DEF UseTypes, RegionShrinks
<1>3. PointsAreInside
  BY DEF PointsAreInside, Acting, Use!Idle
<1>4. Use!UnderWay = {}
  BY DEF Use!UnderWay, Use!Idle
<1>5. BudgetIsClaimed
  BY <1>4, FS_EmptySet, ScreenAssumption DEF BudgetIsClaimed, Use!Idle
<1> QED
  BY <1>1, <1>2, <1>3, <1>5 DEF UseInv, Use!NoLanding

Counted(c) == c.verb \in Use!Hands /\ c.at \notin {"idle", "focus"}

\* What one task's move does to the number of actions under way.
LEMMA MoveIsCounted ==
  ASSUME NEW t \in Tasks, NEW c, DOMAIN task = Tasks, Use!Begin(t, c)
  PROVE  /\ IsFiniteSet(Use!UnderWay) /\ Cardinality(Use!UnderWay) \in Nat
         /\ Counted(c) /\ ~Counted(task[t]) =>
              Cardinality(Use!UnderWay') = Cardinality(Use!UnderWay) + 1
         /\ ~Counted(c) /\ Counted(task[t]) =>
              Cardinality(Use!UnderWay') + 1 = Cardinality(Use!UnderWay)
         /\ (Counted(c) <=> Counted(task[t])) => Use!UnderWay' = Use!UnderWay
<1>1. IsFiniteSet(Use!UnderWay) /\ Cardinality(Use!UnderWay) \in Nat
  <2>1. Use!UnderWay \subseteq Tasks
    BY DEF Use!UnderWay
  <2>2. IsFiniteSet(Use!UnderWay)
    BY <2>1, ScreenAssumption, FS_Subset
  <2> QED
    BY <2>2, FS_CardinalityType
<1>2. ASSUME Counted(c), ~Counted(task[t])
      PROVE  Cardinality(Use!UnderWay') = Cardinality(Use!UnderWay) + 1
  <2>1. Use!UnderWay' = Use!UnderWay \cup {t} /\ t \notin Use!UnderWay
    BY <1>2 DEF Counted, Use!UnderWay, Use!Begin
  <2> QED
    BY <1>1, <2>1, FS_AddElement
<1>3. ASSUME ~Counted(c), Counted(task[t])
      PROVE  Cardinality(Use!UnderWay') + 1 = Cardinality(Use!UnderWay)
  <2>1. Use!UnderWay' = Use!UnderWay \ {t} /\ t \in Use!UnderWay
    BY <1>3 DEF Counted, Use!UnderWay, Use!Begin
  <2>2. Cardinality(Use!UnderWay') = Cardinality(Use!UnderWay) - 1
    BY <1>1, <2>1, FS_RemoveElement
  <2> QED
    BY <1>1, <2>2
<1>4. ASSUME Counted(c) <=> Counted(task[t]) PROVE Use!UnderWay' = Use!UnderWay
  BY <1>4 DEF Counted, Use!UnderWay, Use!Begin
<1> QED
  BY <1>1, <1>2, <1>3, <1>4

\* Nothing in the desktop or the browser bears on the invariant.
LEMMA NothingOfTheGuard ==
  ASSUME UseInv, UNCHANGED <<configured, region, actions, landings, last, task>>, size' \in Nat
  PROVE  UseInv'
BY DEF UseInv, UseTypes, RegionShrinks, PointsAreInside, Acting, BudgetIsClaimed, Use!UnderWay,
   Use!Contains

\* A move of one task that claims no action and takes none further than it was.
LEMMA MoveIsHarmless ==
  ASSUME UseInv, NEW t \in Tasks, NEW c, Use!Begin(t, c),
         DOMAIN c = DOMAIN Use!Idle, c.at \in Use!Steps, c.verb \in Use!Verbs, c.x \in Nat,
         c.at # "focus", Counted(c) => Counted(task[t]) /\ c.x = task[t].x /\ c.verb = task[t].verb,
         UNCHANGED <<configured, size, actions, landings>>,
         region'.x \in Nat /\ region'.right \in Nat, RegionShrinks', LandsInside'
  PROVE  UseInv'
<1> USE DEF UseInv, UseTypes
<1>1. UseTypes'
  BY DEF Use!Begin
<1>2. PointsAreInside'
  BY DEF PointsAreInside, Acting, Counted, Use!Begin, Use!Contains, RegionShrinks, Use!Steps, Use!Hands
<1>3. landings' + Cardinality(Use!UnderWay') <= actions'
  <2>1. /\ Cardinality(Use!UnderWay) \in Nat /\ Cardinality(Use!UnderWay') \in Nat
        /\ Cardinality(Use!UnderWay') <= Cardinality(Use!UnderWay)
    <3>1. /\ Cardinality(Use!UnderWay) \in Nat
          /\ Counted(c) => Use!UnderWay' = Use!UnderWay
          /\ ~Counted(c) /\ Counted(task[t]) =>
              Cardinality(Use!UnderWay') + 1 = Cardinality(Use!UnderWay)
          /\ ~Counted(c) /\ ~Counted(task[t]) => Use!UnderWay' = Use!UnderWay
      BY MoveIsCounted
    <3>2. Cardinality(Use!UnderWay') \in Nat
      <4>1. DOMAIN task' = Tasks
        BY DEF Use!Begin
      <4>2. Use!UnderWay' \subseteq Tasks
        BY DEF Use!UnderWay
      <4> QED
        BY <4>2, ScreenAssumption, FS_Subset, FS_CardinalityType
    <3> QED
      BY <3>1, <3>2
  <2> QED
    BY <2>1 DEF BudgetIsClaimed
<1>4. BudgetIsClaimed'
  BY <1>3 DEF BudgetIsClaimed, Use!Begin
<1> QED
  BY <1>1, <1>2, <1>4

LEMMA ScreenStep == UseInv /\ [Use!Next]_Use!vars => UseInv'
<1> SUFFICES ASSUME UseInv, [Use!Next]_Use!vars PROVE UseInv'
  OBVIOUS
<1> USE DEF Use!desk, Use!guard, Use!browser, Use!history
<1>t. /\ UseTypes /\ RegionShrinks /\ LandsInside
      /\ Use!Idle = [at |-> "idle", verb |-> "screenshot", x |-> 0, page |-> "about:blank", tab |-> 0]
  BY DEF UseInv, Use!Idle, Use!Blank
<1>u. UNCHANGED <<configured, region>> =>
        RegionShrinks' /\ region'.x \in Nat /\ region'.right \in Nat
  BY <1>t DEF RegionShrinks, UseTypes
<1>1. CASE UNCHANGED Use!vars
  BY <1>t, <1>1, NothingOfTheGuard DEF Use!vars, UseTypes
<1>2. CASE Use!Brake
  BY <1>t, <1>2, NothingOfTheGuard DEF Use!Brake, UseTypes
<1>3. CASE Use!Touch
  <2>1. size' \in Nat
    BY <1>t, <1>3, PointsAreNumbers DEF Use!Touch, UseTypes
  <2> QED
    BY <1>3, <2>1, NothingOfTheGuard DEF Use!Touch
<1>4. ASSUME NEW t \in Tasks, NEW x \in Nat, NEW verb \in Use!Hands, Use!Act(t, verb, x),
             verb = "click" => Use!Contains(region, x)
      PROVE  UseInv'
  <2> DEFINE c == [Use!Idle EXCEPT !.at = "focus", !.verb = verb, !.x = x]
  <2>1. /\ Use!Begin(t, c) /\ UNCHANGED <<configured, region, size, actions, landings, last>>
        /\ actions < MaxActions /\ task[t] = Use!Idle
        /\ \A u \in Tasks : task[u].at # "focus"
    BY <1>4 DEF Use!Act, Use!LoopFree
  <2>3. c.at = "focus" /\ c.verb = verb /\ c.x = x /\ DOMAIN c = DOMAIN Use!Idle
    BY <1>t
  <2> HIDE DEF c
  <2>4. UseTypes'
    BY <1>4, <1>t, <2>1, <2>3 DEF UseTypes, Use!Begin, Use!Steps, Use!Verbs
  <2>5. RegionShrinks'
    BY <1>t, <2>1 DEF RegionShrinks
  <2>6. PointsAreInside'
    <3>1. verb = "click" => Use!Contains(configured, x)
      BY <1>4, <1>t, <2>1 DEF RegionShrinks, UseTypes, Use!Contains
    <3> QED
      BY <1>t, <2>1, <2>3, <3>1 DEF UseInv, PointsAreInside, Acting, Use!Begin, UseTypes, Use!Contains
  <2>7. Use!UnderWay' = Use!UnderWay
    <3>1. ~Counted(c) /\ ~Counted(task[t])
      BY <1>t, <2>1, <2>3 DEF Counted
    <3> QED
      BY <1>t, <2>1, <3>1, MoveIsCounted DEF UseTypes
  <2>8. BudgetIsClaimed'
    BY <1>4, <1>t, <2>1, <2>3, <2>7 DEF UseInv, BudgetIsClaimed, Use!Begin, UseTypes
  <2> QED
    BY <1>t, <2>1, <2>4, <2>5, <2>6, <2>8 DEF UseInv
<1>5. ASSUME NEW t \in Tasks, Use!Allow(t) PROVE UseInv'
  <2>1. CASE surface = "DESKTOP" /\ front \notin Allowed
    <3>1. /\ Use!Begin(t, Use!Idle)
          /\ UNCHANGED <<configured, size, region, actions, landings, last>>
      BY <1>5, <2>1 DEF Use!Allow, Use!End, Use!Begin
    <3> QED
      BY <1>t, <1>u, <3>1, MoveIsHarmless DEF Counted, Use!Steps, Use!Verbs, Use!Hands
  <2>2. CASE ~(surface = "DESKTOP" /\ front \notin Allowed)
    <3> DEFINE c == [task[t] EXCEPT !.at = Use!Onward]
    <3>1. /\ Use!Begin(t, c) /\ actions' = actions + 1 /\ task[t].at = "focus"
          /\ UNCHANGED <<configured, region, size, landings, last>>
      BY <1>5, <2>2 DEF Use!Allow
    <3>2. /\ c.at \in {"ensuring", "doing"} /\ c.verb = task[t].verb /\ c.x = task[t].x
          /\ DOMAIN c = DOMAIN task[t]
      BY <1>t DEF Use!Onward, UseTypes
    <3>3. task[t].verb \in Use!Hands /\ actions < MaxActions
      BY <3>1 DEF UseInv, BudgetIsClaimed
    <3> HIDE DEF c
    <3>4. UseTypes'
      BY <1>t, <3>1, <3>2 DEF UseTypes, Use!Begin, Use!Steps
    <3>5. PointsAreInside'
      BY <1>t, <3>1, <3>2, <3>3 DEF UseInv, PointsAreInside, Acting, Use!Begin, UseTypes, Use!Contains
    <3>6. /\ Cardinality(Use!UnderWay') = Cardinality(Use!UnderWay) + 1
          /\ Cardinality(Use!UnderWay) \in Nat
      <4>1. Counted(c) /\ ~Counted(task[t])
        BY <3>1, <3>2, <3>3 DEF Counted
      <4> QED
        BY <1>t, <3>1, <4>1, MoveIsCounted DEF UseTypes
    <3>7. BudgetIsClaimed'
      BY <1>t, <3>1, <3>2, <3>3, <3>6, ScreenAssumption DEF UseInv, BudgetIsClaimed, Use!Begin, UseTypes
    <3> QED
      BY <1>t, <1>u, <3>1, <3>4, <3>5, <3>7 DEF UseInv
  <2> QED
    BY <2>1, <2>2
<1>6. ASSUME NEW t \in Tasks, Use!Look(t) PROVE UseInv'
  <2> DEFINE c == [Use!Idle EXCEPT !.at = Use!Onward]
  <2>1. Use!Begin(t, c) /\ UNCHANGED <<configured, region, size, actions, landings, last>>
    BY <1>6 DEF Use!Look
  <2>2. c.at \in {"ensuring", "doing"} /\ c.verb = "screenshot" /\ c.x = 0 /\ DOMAIN c = DOMAIN Use!Idle
    BY <1>t DEF Use!Onward
  <2> HIDE DEF c
  <2> QED
    BY <1>t, <1>u, <2>1, <2>2, MoveIsHarmless DEF Counted, Use!Steps, Use!Verbs, Use!Hands
<1>7. ASSUME NEW t \in Tasks, NEW p \in Pages, Use!Open(t, p) PROVE UseInv'
  <2> DEFINE c == [Use!Idle EXCEPT !.at = "ensuring", !.verb = "open", !.page = p]
  <2>1. Use!Begin(t, c) /\ UNCHANGED <<configured, region, size, actions, landings, last>>
    BY <1>7 DEF Use!Open
  <2>2. c.at = "ensuring" /\ c.verb = "open" /\ c.x = 0 /\ DOMAIN c = DOMAIN Use!Idle
    BY <1>t
  <2> HIDE DEF c
  <2> QED
    BY <1>t, <1>u, <2>1, <2>2, MoveIsHarmless DEF Counted, Use!Steps, Use!Verbs, Use!Hands
<1>8. ASSUME NEW t \in Tasks, Use!Ensure(t) PROVE UseInv'
  <2> DEFINE c == [task[t] EXCEPT !.at = IF tab # 0 THEN "doing" ELSE "launching", !.tab = tab]
  <2>1. /\ Use!Begin(t, c) /\ task[t].at = "ensuring"
        /\ UNCHANGED <<configured, region, size, actions, landings, last>>
    BY <1>8 DEF Use!Ensure
  <2>2. /\ c.at \in {"doing", "launching"} /\ c.verb = task[t].verb /\ c.x = task[t].x
        /\ DOMAIN c = DOMAIN task[t]
    BY <1>t, <2>1 DEF UseTypes
  <2> HIDE DEF c
  <2> QED
    BY <1>t, <1>u, <2>1, <2>2, MoveIsHarmless DEF Counted, Use!Steps, Use!Verbs, Use!Hands, UseTypes
<1>9. ASSUME NEW t \in Tasks, Use!Launched(t) PROVE UseInv'
  <2>1. PICK n : /\ Use!Begin(t, [task[t] EXCEPT !.at = "doing", !.tab = n])
                 /\ task[t].at = "launching"
                 /\ UNCHANGED <<configured, region, size, actions, landings, last>>
    BY <1>9 DEF Use!Launched
  <2> DEFINE c == [task[t] EXCEPT !.at = "doing", !.tab = n]
  <2>2. /\ c.at = "doing" /\ c.verb = task[t].verb /\ c.x = task[t].x
        /\ DOMAIN c = DOMAIN task[t]
    BY <1>t, <2>1 DEF UseTypes
  <2>3. Use!Begin(t, c)
    BY <2>1
  <2> HIDE DEF c
  <2> QED
    BY <1>t, <1>u, <2>1, <2>2, <2>3, MoveIsHarmless DEF Counted, Use!Steps, Use!Verbs, Use!Hands, UseTypes
<1>10. ASSUME NEW t \in Tasks, Use!LaunchFails(t) \/ Use!Fail(t) \/ Use!Goto(t) PROVE UseInv'
  <2>1. Use!Begin(t, Use!Idle) /\ UNCHANGED <<configured, region, size, actions, landings, last>>
    BY <1>10 DEF Use!LaunchFails, Use!Fail, Use!Goto, Use!End, Use!Begin
  <2> QED
    BY <1>t, <1>u, <2>1, MoveIsHarmless DEF Counted, Use!Steps, Use!Verbs, Use!Hands
<1>11. ASSUME NEW t \in Tasks, Use!Screenshot(t) PROVE UseInv'
  <2>1. /\ Use!Begin(t, Use!Idle) /\ UNCHANGED <<configured, size, actions, landings, last>>
        /\ region' = IF clipped THEN region ELSE Use!WithinTheScreen(region, size)
    BY <1>11 DEF Use!Screenshot, Use!End, Use!Begin
  <2>2. RegionShrinks' /\ region'.x \in Nat /\ region'.right \in Nat
    BY <1>t, <2>1 DEF Use!WithinTheScreen, Use!Smaller, Use!Larger, RegionShrinks, UseTypes
  <2> QED
    BY <1>t, <2>1, <2>2, MoveIsHarmless DEF Counted, Use!Steps, Use!Verbs, Use!Hands
<1>12. ASSUME NEW t \in Tasks, Use!Land(t) PROVE UseInv'
  <2>1. /\ Use!Begin(t, Use!Idle) /\ UNCHANGED <<configured, region, size, actions>>
        /\ task[t].at = "doing" /\ task[t].verb \in Use!Hands /\ landings' = landings + 1
        /\ last'.verb = "click" => task[t].verb = "click" /\ last'.inside = Use!Contains(configured, task[t].x)
    BY <1>12 DEF Use!Land, Use!End, Use!Begin
  <2>2. LandsInside'
    BY <2>1 DEF UseInv, PointsAreInside, Acting
  <2>3. UseTypes'
    BY <1>t, <2>1 DEF UseTypes, Use!Begin, Use!Steps, Use!Verbs, Use!Hands
  <2>4. PointsAreInside'
    BY <1>t, <2>1 DEF UseInv, PointsAreInside, Acting, Use!Begin, UseTypes, Use!Contains
  <2>5. /\ Cardinality(Use!UnderWay') + 1 = Cardinality(Use!UnderWay)
        /\ Cardinality(Use!UnderWay) \in Nat
    <3>1. ~Counted(Use!Idle) /\ Counted(task[t])
      BY <1>t, <2>1 DEF Counted
    <3> QED
      BY <1>t, <2>1, <3>1, MoveIsCounted DEF UseTypes
  <2>6. Cardinality(Use!UnderWay') \in Nat
    <3>1. Use!UnderWay' \subseteq Tasks
      BY DEF Use!UnderWay
    <3> QED
      BY <3>1, ScreenAssumption, FS_Subset, FS_CardinalityType
  <2>7. BudgetIsClaimed'
    <3>1. landings' + Cardinality(Use!UnderWay') <= actions'
      BY <1>t, <2>1, <2>5, <2>6 DEF UseInv, BudgetIsClaimed, UseTypes
    <3> QED
      BY <1>t, <2>1, <3>1 DEF UseInv, BudgetIsClaimed, Use!Begin, UseTypes
  <2> QED
    BY <1>t, <1>u, <2>1, <2>2, <2>3, <2>4, <2>7 DEF UseInv
<1> QED
  <2>1. ASSUME NEW t \in Tasks, NEW x \in Use!Points, Use!Click(t, x) PROVE UseInv'
    <3>1. x \in Nat /\ "click" \in Use!Hands
      BY PointsAreNumbers DEF Use!Hands
    <3> QED
      BY <1>4, <2>1, <3>1 DEF Use!Click
  <2>2. ASSUME NEW t \in Tasks, Use!Keys(t) PROVE UseInv'
    <3>1. "keys" \in Use!Hands /\ "keys" # "click"
      BY DEF Use!Hands
    <3> QED
      BY <1>4, <2>2, <3>1 DEF Use!Keys
  <2> QED
    BY <1>1, <1>2, <1>3, <1>5, <1>6, <1>7, <1>8, <1>9, <1>10, <1>11, <1>12, <2>1, <2>2 DEF Use!Next

\* The inductive invariant of the guard, the surface and the tasks between them.
THEOREM GuardInvariant == Use!Spec => []UseInv
BY ScreenStart, ScreenStep, PTL DEF Use!Spec

\* GuardedComputer._allow and within_the_screen: whatever the size of the screen, whenever
\* the first look at it is taken and however many tasks act at once, a click lands in
\* the region the settings name.
THEOREM ClicksLandInside == Use!Spec => []LandsInside
<1>1. UseInv => LandsInside
  BY DEF UseInv
<1> QED
  BY GuardInvariant, <1>1, PTL

\* GuardedComputer._allow: what reached the surface and what is on its way to it stay
\* within max_actions, since _actions is counted before the call goes on.
THEOREM ActionsAreCounted == Use!Spec => []WithinBudget
<1>1. UseInv => WithinBudget
  <2> SUFFICES ASSUME UseInv PROVE WithinBudget
    OBVIOUS
  <2>1. Cardinality(Use!UnderWay) \in Nat
    <3>1. Use!UnderWay \subseteq Tasks
      BY DEF Use!UnderWay
    <3> QED
      BY <3>1, ScreenAssumption, FS_Subset, FS_CardinalityType
  <2>2. /\ landings + Cardinality(Use!UnderWay) <= actions /\ actions <= MaxActions
        /\ landings \in Nat /\ actions \in Nat /\ MaxActions \in Nat
    BY ScreenAssumption DEF UseInv, UseTypes, BudgetIsClaimed
  <2>3. landings + Cardinality(Use!UnderWay) <= MaxActions
    BY <2>1, <2>2
  <2>4. Use!Cardinality(Use!UnderWay) = Cardinality(Use!UnderWay)
    BY DEF Use!Cardinality, Cardinality
  <2> QED
    BY <2>3, <2>4 DEF WithinBudget, Use!WithinBudget
<1> QED
  BY GuardInvariant, <1>1, PTL

-----------------------------------------------------------------------------
(* The gate *)

\* A call that may run without a person's word for it.
Harmless(c) == Gate!EffectOf(c.tool) \notin Gate!Irreversible \cup {"EXECUTE"}

\* What the declaration of the employee lets t do, apart from asking.
Declared(t, name) ==
  /\ name \in employee[t].allowed
  /\ \A p \in employee[t].policies : Gate!EffectOf(name) \notin Gate!Forbids(p)

CallsAreDeclared == \A t \in Tasks :
  at[t] \in {"asking", "approved"} => Declared(t, call[t].what.tool)

GateInv ==
  /\ at \in [Tasks -> {"model", "calls", "asking", "approved"}]
  /\ DOMAIN call = Tasks
  /\ CallsAreDeclared
  /\ LossesWereAnswered
  /\ DeclarationsHold

USE DEF LossesWereAnswered, Gate!LossesWereAnswered, DeclarationsHold, Gate!DeclarationsHold

LEMMA NotDenied ==
  ASSUME NEW t \in Tasks, NEW c \in Gate!PossibleCalls,
         Gate!Gate(t, c) # "DENY", c.tool \in Gate!Granted(t)
  PROVE  Declared(t, c.tool)
BY DEF Gate!Gate, Gate!Evaluate, Gate!Granted, Declared

LEMMA RunsUnasked ==
  ASSUME NEW t \in Tasks, NEW c \in Gate!PossibleCalls, Gate!Gate(t, c) = "ALLOW"
  PROVE  /\ Harmless(c)
         /\ "file" \in DOMAIN c => c.file \notin files
<1>1. ~(Gate!Risk(c) >= Gate!High)
  BY DEF Gate!Gate, Gate!Evaluate
<1>2. CASE "file" \in DOMAIN c
  <2>1. c.tool \in {"fs.write", "fs.move"}
    BY <1>2 DEF Gate!PossibleCalls
  <2> QED
    BY <1>1, <1>2, <2>1 DEF Gate!Risk, Gate!Assessed, Gate!High, Gate!Low, Harmless,
       Gate!EffectOf, Gate!Irreversible
<1>3. CASE "file" \notin DOMAIN c
  <2>1. c.tool \in {"fs.read", "code.run", "service"}
    BY <1>3 DEF Gate!PossibleCalls
  <2> QED
    BY <1>1, <1>3, <2>1 DEF Gate!Risk, Gate!RiskOf, Gate!Highest, Gate!Reversible, Gate!High,
       Gate!Medium, Gate!Low, Harmless, Gate!EffectOf, Gate!Irreversible
<1>4. "file" \in DOMAIN c \/ "file" \notin DOMAIN c
  OBVIOUS
<1> QED
  BY <1>2, <1>3, <1>4

LEMMA GateInit == Gate!Init => GateInv
BY DEF Gate!Init, GateInv, CallsAreDeclared

\* What runs was declared, and somebody said yes to it or nobody had to.
LEMMA GateRun ==
  ASSUME GateInv, NEW t \in Tasks, NEW c, NEW answered \in BOOLEAN, NEW told,
         Gate!Run(t, c, answered, told), UNCHANGED <<employee, effect>>,
         Declared(t, c.tool),
         \/ answered
         \/ /\ Harmless(c)
            /\ "file" \in DOMAIN c => c.file \notin files
            /\ c.tool = "fs.move" => "file" \in DOMAIN c
  PROVE  LossesWereAnswered' /\ DeclarationsHold'
<1>1. LossesWereAnswered'
  BY DEF GateInv, Gate!Run
<1>2. DeclarationsHold'
  <2> SUFFICES ASSUME NEW r \in ran'
               PROVE  /\ r.tool \in employee[r.task].allowed
                      /\ \A p \in employee[r.task].policies :
                           Gate!EffectOf(r.tool) \notin Gate!Forbids(p)
                      /\ Gate!EffectOf(r.tool) \in Gate!Irreversible \cup {"EXECUTE"} => r.answered
    BY DEF Gate!EffectOf
  <2>1. CASE r \in ran
    BY <2>1 DEF GateInv
  <2>2. CASE r \notin ran
    <3>1. r.task = t /\ r.tool = c.tool /\ r.answered = answered
      BY <2>2 DEF Gate!Run
    <3> QED
      BY <3>1 DEF Declared, Harmless
  <2> QED
    BY <2>1, <2>2
<1> QED
  BY <1>1, <1>2

LEMMA GateNext == GateInv /\ [Gate!Next]_Gate!vars => GateInv'
<1> SUFFICES ASSUME GateInv, [Gate!Next]_Gate!vars PROVE GateInv'
  OBVIOUS
<1> USE DEF GateInv
<1>1. CASE UNCHANGED Gate!vars
  BY <1>1 DEF Gate!vars, CallsAreDeclared, Declared, Gate!EffectOf
<1>2. ASSUME NEW t \in Tasks, Gate!AskModel(t) PROVE GateInv'
  BY <1>2 DEF Gate!AskModel, CallsAreDeclared, Declared, Gate!EffectOf
<1>3. ASSUME NEW t \in Tasks, Gate!Invoke(t) PROVE GateInv'
  <2> USE DEF Gate!EffectOf
  <2>0. UNCHANGED <<employee, effect>>
    BY <1>3 DEF Gate!Invoke
  <2>1. PICK c \in Gate!PossibleCalls :
          \/ UNCHANGED <<files, at, call, ran, lost>>
          \/ /\ c.tool \in Gate!Granted(t) /\ Gate!Gate(t, c) = "ALLOW"
             /\ Gate!Run(t, c, FALSE, FALSE)
             /\ UNCHANGED <<at, call>>
          \/ /\ c.tool \in Gate!Granted(t) /\ Gate!Gate(t, c) = "REQUIRE_APPROVAL"
             /\ call' = [call EXCEPT ![t] = [what |-> c, told |-> Gate!Risk(c) >= Gate!High]]
             /\ at' = [at EXCEPT ![t] = "asking"]
             /\ UNCHANGED <<files, ran, lost>>
    BY <1>3 DEF Gate!Invoke
  <2>2. CASE UNCHANGED <<files, at, call, ran, lost>>
    BY <2>0, <2>2 DEF CallsAreDeclared, Declared
  <2>3. CASE /\ c.tool \in Gate!Granted(t) /\ Gate!Gate(t, c) = "ALLOW"
             /\ Gate!Run(t, c, FALSE, FALSE)
             /\ UNCHANGED <<at, call>>
    <3>1. Declared(t, c.tool)
      BY <2>3, NotDenied
    <3>2. Harmless(c) /\ ("file" \in DOMAIN c => c.file \notin files)
      BY <2>3, RunsUnasked
    <3>3. c.tool = "fs.move" => "file" \in DOMAIN c
      BY DEF Gate!PossibleCalls
    <3>4. LossesWereAnswered' /\ DeclarationsHold'
      BY <2>0, <2>3, <3>1, <3>2, <3>3, GateRun
    <3> QED
      BY <2>0, <2>3, <3>4 DEF CallsAreDeclared, Declared
  <2>4. CASE /\ c.tool \in Gate!Granted(t) /\ Gate!Gate(t, c) = "REQUIRE_APPROVAL"
             /\ call' = [call EXCEPT ![t] = [what |-> c, told |-> Gate!Risk(c) >= Gate!High]]
             /\ at' = [at EXCEPT ![t] = "asking"]
             /\ UNCHANGED <<files, ran, lost>>
    <3>1. Declared(t, c.tool)
      BY <2>4, NotDenied
    <3>2. CallsAreDeclared'
      BY <2>0, <2>4, <3>1 DEF CallsAreDeclared, Declared
    <3> QED
      BY <2>0, <2>4, <3>2
  <2> QED
    BY <2>1, <2>2, <2>3, <2>4
<1>4. ASSUME NEW t \in Tasks, Gate!Approve(t) PROVE GateInv'
  BY <1>4 DEF Gate!Approve, CallsAreDeclared, Declared, Gate!EffectOf
<1>5. ASSUME NEW t \in Tasks, Gate!Decline(t) PROVE GateInv'
  BY <1>5 DEF Gate!Decline, CallsAreDeclared, Declared, Gate!EffectOf
<1>6. ASSUME NEW t \in Tasks, Gate!RunApproved(t) PROVE GateInv'
  <2> USE DEF Gate!EffectOf
  <2>1. Declared(t, call[t].what.tool)
    BY <1>6 DEF Gate!RunApproved, CallsAreDeclared
  <2>2. LossesWereAnswered' /\ DeclarationsHold'
    BY <1>6, <2>1, GateRun DEF Gate!RunApproved
  <2> QED
    BY <1>6, <2>2 DEF Gate!RunApproved, CallsAreDeclared, Declared
<1>7. ASSUME NEW t \in Tasks, Gate!EndStep(t) PROVE GateInv'
  BY <1>7 DEF Gate!EndStep, CallsAreDeclared, Declared, Gate!EffectOf
<1>8. CASE Gate!Restart
  BY <1>8 DEF Gate!Restart, CallsAreDeclared, Declared, Gate!EffectOf
<1>9. CASE Gate!Reconnect
  BY <1>9 DEF Gate!Reconnect, CallsAreDeclared, Declared, Gate!EffectOf
<1> QED
  BY <1>1, <1>2, <1>3, <1>4, <1>5, <1>6, <1>7, <1>8, <1>9 DEF Gate!Next

\* The inductive invariant of the calls: what waits for an answer was declared.
THEOREM GateInvariant == Gate!Spec => []GateInv
BY GateInit, GateNext, PTL DEF Gate!Spec

\* FileWriteTool.assess, FileMoveTool.assess and the gate: whichever tasks share the
\* directory, a file that is there is written over only by a call a person said yes to.
THEOREM LossesAreAgreedTo == Gate!Spec => []LossesWereAnswered
<1>1. GateInv => LossesWereAnswered
  BY DEF GateInv
<1> QED
  BY GateInvariant, <1>1, PTL

\* ToolRegistry.get and the policies: no call runs that the tools or the policies of its
\* employee forbid, and none that cannot be taken back without a yes, also where the
\* call waited for the answer while the service went and came back.
THEOREM DeclarationsAreKept == Gate!Spec => []DeclarationsHold
<1>1. GateInv => DeclarationsHold
  BY DEF GateInv
<1> QED
  BY GateInvariant, <1>1, PTL

-----------------------------------------------------------------------------
(* The chat: asking through the bot keeps the promise of every approval service, the
   row says what the call was told, and no press is forgotten unheard, for any number
   of questions and presses.  The shared offset, the offsets of polls under way and
   what the bot API forgot never pass what some call has looked at. *)

LEMMA BotStarts == Bot!Init => Bot!IndInv
<1> SUFFICES ASSUME Bot!Init PROVE Bot!IndInv
  OBVIOUS
<1> USE DEF Bot!Init
<1>1. Bot!TypeOK
  BY DEF Bot!TypeOK, Bot!States, Bot!Places, Bot!Empty
<1>2. Bot!OffsetsAreHeard /\ Bot!VerdictsArePressed /\ Bot!ToldIsRecorded
  BY DEF Bot!OffsetsAreHeard, Bot!NothingForgottenUnheard, Bot!VerdictsArePressed,
         Bot!ToldIsRecorded, Bot!Empty
<1> QED BY <1>1, <1>2 DEF Bot!IndInv

\* A press adds to what was agreed to, by the question it is for at most.
LEMMA PressAgrees ==
  ASSUME Bot!TypeOK, NEW q \in Questions, NEW d \in Bot!Decisions, Bot!Press(q, d)
  PROVE  /\ updates' \in Seq(Bot!Presses) /\ Len(updates') = Len(updates) + 1
         /\ Bot!Agreed' = Bot!Agreed \/ Bot!Agreed' = Bot!Agreed \cup {q}
<1> DEFINE new == [to |-> q, decision |-> d]
<1>1. /\ updates \in Seq(Bot!Presses) /\ new \in Bot!Presses
      /\ updates' = Append(updates, new)
  BY DEF Bot!TypeOK, Bot!Press, Bot!Presses
<1>2. /\ updates' \in Seq(Bot!Presses) /\ Len(updates') = Len(updates) + 1
      /\ \A n \in 1..Len(updates) : updates'[n] = updates[n]
      /\ updates'[Len(updates) + 1] = new
  BY <1>1
<1>3. Bot!Agreed \subseteq Bot!Agreed'
  BY <1>1, <1>2 DEF Bot!Agreed
<1>4. Bot!Agreed' \subseteq Bot!Agreed \cup {q}
  <2>1. SUFFICES ASSUME NEW n \in 1..Len(updates'), updates'[n].decision = "APPROVED"
                 PROVE  updates'[n].to \in Bot!Agreed \cup {q}
    BY DEF Bot!Agreed
  <2>2. CASE n \in 1..Len(updates)
    BY <1>2, <2>1, <2>2 DEF Bot!Agreed
  <2>3. CASE n = Len(updates) + 1
    BY <1>2, <2>1, <2>3
  <2>4. n \in 1..Len(updates) \/ n = Len(updates) + 1
    BY <1>1, <1>2
  <2> QED BY <2>2, <2>3, <2>4
<1> QED BY <1>2, <1>3, <1>4

-----------------------------------------------------------------------------
(* The chat: its steps, one lemma per kind *)

\* A call that reaches its verdict, from wherever it waited, keeps the
\* invariant when the yes was pressed and the offset moved past what was heard.
LEMMA ConcludeKeeps ==
  ASSUME Bot!IndInv, NEW q \in Questions, poll[q] \in {"saved"} \cup Bot!Awaiting,
         NEW d \in Bot!Decisions \cup {"EXPIRED"}, Bot!Conclude(q, d),
         d = "APPROVED" => q \in Bot!Agreed,
         offset' \in Nat \ {0}, looked' \in Nat, UNCHANGED confirmed,
         looked <= looked', looked' <= Len(updates), offset' <= looked' + 1
  PROVE  Bot!IndInv'
<1> USE DEF Bot!IndInv, Bot!TypeOK, Bot!Conclude
<1>1. Bot!TypeOK'
  BY DEF Bot!Places, Bot!Decisions, Bot!Empty
<1>2. Bot!OffsetsAreHeard'
  <2>1. Len(updates) \in Nat /\ updates' = updates
    OBVIOUS
  <2>2. \A r \in Questions :
          /\ asked'[r] <= looked' + 1
          /\ reply'[r].first <= looked' + 1 /\ reply'[r].first >= 1
          /\ reply'[r].last <= Len(updates)
    <3>1. ASSUME NEW r \in Questions
          PROVE  /\ asked[r] <= looked + 1 /\ asked[r] \in Nat
                 /\ reply[r].first <= looked + 1 /\ reply[r].first >= 1
                 /\ reply[r].last <= Len(updates)
                 /\ reply[r].first \in Nat /\ reply[r].last \in Nat
      BY DEF Bot!OffsetsAreHeard
    <3> QED BY <2>1, <3>1 DEF Bot!Empty
  <2>3. confirmed' <= looked'
    BY DEF Bot!OffsetsAreHeard, Bot!NothingForgottenUnheard
  <2> QED BY <2>1, <2>2, <2>3 DEF Bot!OffsetsAreHeard, Bot!NothingForgottenUnheard
<1>3. Bot!Agreed' = Bot!Agreed
  BY DEF Bot!Agreed
<1>4. Bot!VerdictsArePressed'
  BY <1>3 DEF Bot!VerdictsArePressed, Bot!Awaiting, Bot!Decisions
<1>5. Bot!ToldIsRecorded'
  BY DEF Bot!ToldIsRecorded
<1> QED BY <1>1, <1>2, <1>4, <1>5

\* So does a call that goes on to ask for the presses from a heard offset on.
LEMMA RepollKeeps ==
  ASSUME Bot!IndInv, NEW q \in Questions, poll[q] \in {"saved"} \cup Bot!Awaiting,
         Bot!Repoll(q, offset'), offset' \in Nat \ {0}, looked' \in Nat, UNCHANGED confirmed,
         looked <= looked', looked' <= Len(updates), offset' <= looked' + 1
  PROVE  Bot!IndInv'
<1> USE DEF Bot!IndInv, Bot!TypeOK, Bot!Repoll
<1>1. Bot!TypeOK'
  BY DEF Bot!Places, Bot!Awaiting, Bot!Empty
<1>2. Bot!OffsetsAreHeard'
  <2>1. Len(updates) \in Nat /\ updates' = updates
    OBVIOUS
  <2>2. \A r \in Questions :
          /\ asked'[r] <= looked' + 1
          /\ reply'[r].first <= looked' + 1 /\ reply'[r].first >= 1
          /\ reply'[r].last <= Len(updates)
    <3>1. ASSUME NEW r \in Questions
          PROVE  /\ asked[r] <= looked + 1 /\ asked[r] \in Nat
                 /\ reply[r].first <= looked + 1 /\ reply[r].first >= 1
                 /\ reply[r].last <= Len(updates)
                 /\ reply[r].first \in Nat /\ reply[r].last \in Nat
      BY DEF Bot!OffsetsAreHeard
    <3>2. ASSUME NEW r \in Questions
          PROVE  asked'[r] = (IF r = q THEN offset' ELSE asked[r])
                 /\ reply'[r] = (IF r = q THEN Bot!Empty ELSE reply[r])
      OBVIOUS
    <3>3. looked \in Nat /\ looked' \in Nat /\ looked <= looked' /\ offset' <= looked' + 1
      OBVIOUS
    <3>4. SUFFICES ASSUME NEW r \in Questions
                   PROVE  /\ asked'[r] <= looked' + 1
                          /\ reply'[r].first <= looked' + 1 /\ reply'[r].first >= 1
                          /\ reply'[r].last <= Len(updates)
      OBVIOUS
    <3>5. CASE r = q
      <4>1. asked'[r] = offset' /\ reply'[r] = Bot!Empty
        BY <3>2, <3>5
      <4>2. reply'[r].first = 1 /\ reply'[r].last = 0
        BY <4>1 DEF Bot!Empty
      <4>3. 1 <= looked' + 1
        <5>1. \A n \in Nat : 1 <= n + 1
          OBVIOUS
        <5> QED BY <3>3, <5>1, Zenon
      <4>4. 0 <= Len(updates)
        BY <2>1
      <4>5. asked'[r] <= looked' + 1
        BY <3>3, <4>1
      <4> QED BY <4>2, <4>3, <4>4, <4>5
    <3>6. CASE r # q
      BY <3>1, <3>2, <3>3, <3>6
    <3> QED BY <3>5, <3>6
  <2>3. confirmed' <= looked'
    BY DEF Bot!OffsetsAreHeard, Bot!NothingForgottenUnheard
  <2> QED BY <2>1, <2>2, <2>3 DEF Bot!OffsetsAreHeard, Bot!NothingForgottenUnheard
<1>3. Bot!Agreed' = Bot!Agreed
  BY DEF Bot!Agreed
<1>4. Bot!VerdictsArePressed'
  BY <1>3 DEF Bot!VerdictsArePressed, Bot!Awaiting
<1>5. Bot!ToldIsRecorded'
  BY DEF Bot!ToldIsRecorded
<1> QED BY <1>1, <1>2, <1>4, <1>5

LEMMA ServePollKeeps == ASSUME Bot!IndInv, NEW q \in Questions, Bot!Serve(q) PROVE Bot!IndInv'
<1> USE DEF Bot!IndInv, Bot!TypeOK, Bot!Serve
<1>1. /\ confirmed' \in Nat /\ confirmed' <= looked
      /\ confirmed' = Bot!Larger(confirmed, asked[q] - 1)
  BY DEF Bot!Larger, Bot!OffsetsAreHeard, Bot!NothingForgottenUnheard
<1>2. Len(updates) \in Nat
  OBVIOUS
<1>3. Bot!TypeOK'
  BY <1>1, <1>2 DEF Bot!Places, Bot!Awaiting
<1>4. Bot!OffsetsAreHeard'
  BY <1>1, <1>2 DEF Bot!OffsetsAreHeard, Bot!NothingForgottenUnheard
<1>5. Bot!Agreed' = Bot!Agreed
  BY DEF Bot!Agreed
<1>6. Bot!VerdictsArePressed' /\ Bot!ToldIsRecorded'
  BY <1>5 DEF Bot!VerdictsArePressed, Bot!ToldIsRecorded, Bot!Awaiting
<1> QED BY <1>3, <1>4, <1>6

LEMMA HearAnswerKeeps == ASSUME Bot!IndInv, NEW q \in Questions, Bot!HearAnswer(q) PROVE Bot!IndInv'
<1>1. PICK n \in 1..Len(updates) :
        /\ Bot!AnswersIn(q, n) /\ offset' = n + 1 /\ looked' = Bot!Larger(looked, n)
        /\ Bot!Conclude(q, updates[n].decision)
  BY DEF Bot!HearAnswer
<1>2. updates \in Seq(Bot!Presses) /\ looked \in Nat /\ n \in Nat \ {0} /\ n <= Len(updates)
      /\ Len(updates) \in Nat
  BY DEF Bot!IndInv, Bot!TypeOK
<1>3. updates[n] \in Bot!Presses
  BY <1>2
<1>4. updates[n].decision \in Bot!Decisions /\ updates[n].to = q
  BY <1>1, <1>3 DEF Bot!Presses, Bot!AnswersIn
<1>5. updates[n].decision = "APPROVED" => q \in Bot!Agreed
  BY <1>2, <1>4 DEF Bot!Agreed
<1>6. /\ offset' \in Nat \ {0} /\ looked' \in Nat
      /\ looked <= looked' /\ looked' <= Len(updates) /\ offset' <= looked' + 1
  BY <1>1, <1>2 DEF Bot!Larger, Bot!IndInv, Bot!OffsetsAreHeard
<1>7. poll[q] \in {"saved"} \cup Bot!Awaiting /\ UNCHANGED confirmed
  BY DEF Bot!HearAnswer, Bot!Awaiting
<1> QED BY <1>1, <1>4, <1>5, <1>6, <1>7, ConcludeKeeps

LEMMA HearOthersKeeps == ASSUME Bot!IndInv, NEW q \in Questions, Bot!HearOthers(q) PROVE Bot!IndInv'
<1>1. /\ reply[q].first \in Nat /\ reply[q].last \in Nat /\ looked \in Nat
      /\ Len(updates) \in Nat
  BY DEF Bot!IndInv, Bot!TypeOK
<1>2. /\ offset' = reply[q].last + 1 /\ looked' = Bot!Larger(looked, reply[q].last)
      /\ reply[q].last <= Len(updates) /\ looked <= Len(updates)
  BY DEF Bot!HearOthers, Bot!IndInv, Bot!OffsetsAreHeard
<1>3. /\ offset' \in Nat \ {0} /\ looked' \in Nat
      /\ looked <= looked' /\ looked' <= Len(updates) /\ offset' <= looked' + 1
  BY <1>1, <1>2 DEF Bot!Larger
<1>4. poll[q] \in {"saved"} \cup Bot!Awaiting /\ Bot!Repoll(q, offset') /\ UNCHANGED confirmed
  BY DEF Bot!HearOthers, Bot!Awaiting
<1> QED BY <1>3, <1>4, RepollKeeps

\* Writing the row, the chat and the history of other people's decisions.
LEMMA PostedKeeps ==
  ASSUME Bot!IndInv, NEW q \in Questions,
         \/ Bot!Ask(q) \/ Bot!Deliver(q) \/ Bot!HearNothing(q) \/ Bot!Store(q) \/ Bot!Sweep(q)
         \/ \E d \in Bot!Decisions : Bot!Resolve(q, d)
  PROVE  Bot!IndInv'
<1> USE DEF Bot!IndInv, Bot!TypeOK, Bot!asking
<1>1. updates' = updates /\ Bot!Agreed' = Bot!Agreed
  BY DEF Bot!Agreed, Bot!Ask, Bot!Deliver, Bot!HearNothing, Bot!Store, Bot!Sweep, Bot!Resolve
<1>2. CASE Bot!Ask(q)
  <2>1. Bot!TypeOK'
    BY <1>2 DEF Bot!Ask, Bot!States, Bot!Places
  <2>2. Bot!OffsetsAreHeard'
    BY <1>2 DEF Bot!Ask, Bot!OffsetsAreHeard, Bot!NothingForgottenUnheard
  <2>3. Bot!VerdictsArePressed' /\ Bot!ToldIsRecorded'
    BY <1>1, <1>2 DEF Bot!Ask, Bot!VerdictsArePressed, Bot!ToldIsRecorded
  <2> QED BY <2>1, <2>2, <2>3
<1>3. CASE Bot!Deliver(q)
  <2>1. Bot!TypeOK'
    BY <1>3 DEF Bot!Deliver
  <2>2. Bot!OffsetsAreHeard' /\ Bot!VerdictsArePressed' /\ Bot!ToldIsRecorded'
    BY <1>1, <1>3 DEF Bot!Deliver, Bot!OffsetsAreHeard, Bot!NothingForgottenUnheard,
                      Bot!VerdictsArePressed, Bot!ToldIsRecorded
  <2> QED BY <2>1, <2>2
<1>4. CASE Bot!HearNothing(q)
  <2>1. Bot!TypeOK'
    BY <1>4 DEF Bot!HearNothing, Bot!Places, Bot!Awaiting, Bot!Empty
  <2>2. Bot!OffsetsAreHeard'
    BY <1>4 DEF Bot!HearNothing, Bot!OffsetsAreHeard, Bot!NothingForgottenUnheard, Bot!Empty
  <2>3. Bot!VerdictsArePressed' /\ Bot!ToldIsRecorded'
    BY <1>1, <1>4 DEF Bot!HearNothing, Bot!VerdictsArePressed, Bot!ToldIsRecorded, Bot!Awaiting
  <2> QED BY <2>1, <2>2, <2>3
<1>5. CASE Bot!Store(q)
  <2>1. Bot!TypeOK'
    BY <1>5 DEF Bot!Store, Bot!Places, Bot!States, Bot!VerdictsArePressed
  <2>2. Bot!OffsetsAreHeard'
    BY <1>5 DEF Bot!Store, Bot!OffsetsAreHeard, Bot!NothingForgottenUnheard
  <2>3. Bot!VerdictsArePressed' /\ Bot!ToldIsRecorded'
    BY <1>1, <1>5 DEF Bot!Store, Bot!VerdictsArePressed, Bot!ToldIsRecorded, Bot!Awaiting
  <2> QED BY <2>1, <2>2, <2>3
<1>6. CASE Bot!Sweep(q)
  <2>1. Bot!TypeOK'
    BY <1>6 DEF Bot!Sweep, Bot!States
  <2>2. Bot!OffsetsAreHeard' /\ Bot!VerdictsArePressed'
    BY <1>1, <1>6 DEF Bot!Sweep, Bot!OffsetsAreHeard, Bot!NothingForgottenUnheard, Bot!VerdictsArePressed
  <2>3. Bot!ToldIsRecorded'
    BY <1>6 DEF Bot!Sweep, Bot!ToldIsRecorded, Bot!Decisions
  <2> QED BY <2>1, <2>2, <2>3
<1>7. ASSUME NEW d \in Bot!Decisions, Bot!Resolve(q, d) PROVE Bot!IndInv'
  <2>1. Bot!TypeOK'
    BY <1>7 DEF Bot!Resolve, Bot!States
  <2>2. Bot!OffsetsAreHeard' /\ Bot!VerdictsArePressed'
    BY <1>1, <1>7 DEF Bot!Resolve, Bot!OffsetsAreHeard, Bot!NothingForgottenUnheard, Bot!VerdictsArePressed
  <2>3. Bot!ToldIsRecorded'
    BY <1>7 DEF Bot!Resolve, Bot!ToldIsRecorded
  <2> QED BY <2>1, <2>2, <2>3
<1> QED BY <1>2, <1>3, <1>4, <1>5, <1>6, <1>7

LEMMA PressKeeps ==
  ASSUME Bot!IndInv, NEW q \in Questions, NEW d \in Bot!Decisions, Bot!Press(q, d) PROVE Bot!IndInv'
<1>1. /\ updates' \in Seq(Bot!Presses) /\ Len(updates') = Len(updates) + 1
      /\ Bot!Agreed \subseteq Bot!Agreed' /\ Len(updates) \in Nat
  <2>1. Bot!TypeOK
    BY DEF Bot!IndInv
  <2>2. Len(updates) \in Nat
    BY <2>1 DEF Bot!TypeOK
  <2> QED BY <2>1, <2>2, PressAgrees
<1> USE DEF Bot!IndInv, Bot!Press, Bot!asking
<1>2. Bot!TypeOK'
  BY <1>1 DEF Bot!TypeOK
<1>3. Bot!OffsetsAreHeard'
  BY <1>1 DEF Bot!TypeOK, Bot!OffsetsAreHeard, Bot!NothingForgottenUnheard
<1>4. Bot!VerdictsArePressed' /\ Bot!ToldIsRecorded'
  BY <1>1 DEF Bot!VerdictsArePressed, Bot!ToldIsRecorded
<1> QED BY <1>2, <1>3, <1>4

LEMMA CrashKeeps == ASSUME Bot!IndInv, Bot!Crash PROVE Bot!IndInv'
<1> USE DEF Bot!IndInv, Bot!TypeOK, Bot!Crash
<1>1. Bot!TypeOK'
  BY DEF Bot!Places, Bot!Empty
<1>2. Bot!OffsetsAreHeard'
  BY DEF Bot!OffsetsAreHeard, Bot!NothingForgottenUnheard, Bot!Empty
<1>3. Bot!Agreed' = Bot!Agreed
  BY DEF Bot!Agreed
<1>4. Bot!VerdictsArePressed' /\ Bot!ToldIsRecorded'
  BY <1>3 DEF Bot!VerdictsArePressed, Bot!ToldIsRecorded, Bot!Awaiting
<1> QED BY <1>1, <1>2, <1>4

LEMMA BotStep == Bot!IndInv /\ [Bot!Next]_(Bot!vars) => Bot!IndInv'
<1> SUFFICES ASSUME Bot!IndInv, [Bot!Next]_(Bot!vars) PROVE Bot!IndInv'
  OBVIOUS
<1>1. /\ offset \in Nat \ {0} /\ looked \in Nat /\ looked <= Len(updates) /\ offset <= looked + 1
  BY DEF Bot!IndInv, Bot!TypeOK, Bot!OffsetsAreHeard
<1>2. ASSUME NEW q \in Questions, Bot!Sent(q) \/ Bot!Rested(q) PROVE Bot!IndInv'
  <2>1. /\ Bot!Repoll(q, offset') /\ UNCHANGED <<offset, confirmed, looked>>
        /\ poll[q] \in {"saved"} \cup Bot!Awaiting
    BY <1>2 DEF Bot!Sent, Bot!Rested, Bot!Awaiting
  <2> QED BY <1>1, <2>1, RepollKeeps
<1>3. ASSUME NEW q \in Questions, Bot!Fails(q) \/ Bot!TimeOut(q) PROVE Bot!IndInv'
  <2>1. /\ Bot!Conclude(q, "REJECTED") \/ Bot!Conclude(q, "EXPIRED")
        /\ UNCHANGED <<offset, confirmed, looked>> /\ poll[q] \in {"saved"} \cup Bot!Awaiting
    BY <1>3 DEF Bot!Fails, Bot!TimeOut, Bot!Awaiting
  <2> QED BY <1>1, <2>1, ConcludeKeeps DEF Bot!Decisions
<1>4. CASE UNCHANGED Bot!vars
  <2>1. Bot!Agreed' = Bot!Agreed
    BY <1>4 DEF Bot!vars, Bot!Agreed
  <2> QED BY <1>4, <2>1 DEF Bot!vars, Bot!asking, Bot!IndInv, Bot!TypeOK, Bot!OffsetsAreHeard,
                          Bot!NothingForgottenUnheard, Bot!VerdictsArePressed, Bot!ToldIsRecorded
<1> QED BY <1>2, <1>3, <1>4, PostedKeeps, ServePollKeeps, HearAnswerKeeps, HearOthersKeeps,
           PressKeeps, CrashKeeps DEF Bot!Next, Bot!Proceed

-----------------------------------------------------------------------------
(* The chat: what follows *)

\* The inductive invariant of asking through the bot.
THEOREM BotInvariant == Bot!Spec => []Bot!IndInv
<1> QED BY BotStarts, BotStep, PTL DEF Bot!Spec

\* The row says what the call was told (TelegramApprovalService.request).
THEOREM RowSaysWhatWasTold == Bot!Spec => []Bot!ToldIsRecorded
<1>1. Bot!IndInv => Bot!ToldIsRecorded
  BY DEF Bot!IndInv
<1> QED BY BotInvariant, <1>1, PTL

\* The shared offset never makes the bot API forget a press that no call has
\* looked at (_await_answer).
THEOREM PressesAreLookedAt == Bot!Spec => []NothingForgottenUnheard
<1>1. Bot!IndInv => NothingForgottenUnheard
  BY DEF Bot!IndInv, Bot!OffsetsAreHeard, NothingForgottenUnheard
<1> QED BY BotInvariant, <1>1, PTL

\* A call that reaches its verdict is told it once, and a yes was pressed.
LEMMA ConcludeTells ==
  ASSUME Bot!IndInv, Bot!IndInv', NEW q \in Questions, poll[q] \in {"saved"} \cup Bot!Awaiting,
         NEW d \in Bot!Decisions \cup {"EXPIRED"}, Bot!Conclude(q, d)
  PROVE  Bot!TelegramConsent!Next
<1>1. verdict[q] = "none" /\ verdict' = [verdict EXCEPT ![q] = d] /\ verdict'[q] = d
  BY DEF Bot!IndInv, Bot!TypeOK, Bot!VerdictsArePressed, Bot!Conclude
<1>2. d = "APPROVED" => q \in Bot!Agreed'
  BY <1>1 DEF Bot!IndInv, Bot!VerdictsArePressed
<1>3. Bot!Agreed' = Bot!Agreed
  BY DEF Bot!Conclude, Bot!Agreed
<1>4. d \in Bot!TelegramConsent!Answers
  BY DEF Bot!TelegramConsent!Answers, Bot!Decisions
<1> QED BY <1>1, <1>2, <1>3, <1>4 DEF Bot!TelegramConsent!Next, Bot!TelegramConsent!Tell

\* Asking through the bot keeps the promise every approval service makes: each
\* call is told one answer, once, and yes only if Approve was pressed for it
\* (TelegramApprovalService implements domain.approvals.protocols).
THEOREM BotKeepsConsent == Bot!Spec => Bot!OnlyAPressApproves
<1>1. Bot!Init => Bot!TelegramConsent!Init
  BY DEF Bot!Init, Bot!TelegramConsent!Init, Bot!Agreed
<1>2. Bot!IndInv /\ Bot!IndInv' /\ [Bot!Next]_(Bot!vars)
        => [Bot!TelegramConsent!Next]_<<Bot!Agreed, verdict>>
  <2> SUFFICES ASSUME Bot!IndInv, Bot!IndInv', [Bot!Next]_(Bot!vars)
               PROVE  [Bot!TelegramConsent!Next]_<<Bot!Agreed, verdict>>
    OBVIOUS
  <2>1. ASSUME NEW q \in Questions, Bot!HearAnswer(q) PROVE Bot!TelegramConsent!Next
    <3>1. PICK n \in 1..Len(updates) : Bot!Conclude(q, updates[n].decision)
      BY <2>1 DEF Bot!HearAnswer
    <3>2. updates[n] \in Bot!Presses
      BY DEF Bot!IndInv, Bot!TypeOK
    <3>3. updates[n].decision \in Bot!Decisions
      BY <3>2 DEF Bot!Presses
    <3> QED BY <2>1, <3>1, <3>3, ConcludeTells DEF Bot!HearAnswer, Bot!Awaiting
  <2>2. ASSUME NEW q \in Questions, Bot!Fails(q) \/ Bot!TimeOut(q) PROVE Bot!TelegramConsent!Next
    BY <2>2, ConcludeTells DEF Bot!Fails, Bot!TimeOut, Bot!Awaiting, Bot!Decisions
  <2>3. ASSUME NEW q \in Questions, NEW d \in Bot!Decisions, Bot!Press(q, d)
        PROVE  [Bot!TelegramConsent!Next]_<<Bot!Agreed, verdict>>
    <3>1. (Bot!Agreed' = Bot!Agreed \/ Bot!Agreed' = Bot!Agreed \cup {q}) /\ UNCHANGED verdict
      BY <2>3, PressAgrees DEF Bot!IndInv, Bot!Press, Bot!asking
    <3> QED BY <3>1 DEF Bot!TelegramConsent!Next, Bot!TelegramConsent!Agree
  <2>4. ASSUME NEW q \in Questions,
               \/ Bot!Ask(q) \/ Bot!Deliver(q) \/ Bot!Sent(q) \/ Bot!Serve(q) \/ Bot!HearOthers(q)
               \/ Bot!HearNothing(q) \/ Bot!Rested(q) \/ Bot!Store(q) \/ Bot!Sweep(q)
               \/ \E d \in Bot!Decisions : Bot!Resolve(q, d)
        PROVE  UNCHANGED <<updates, verdict>>
    BY <2>4 DEF Bot!Ask, Bot!Deliver, Bot!Sent, Bot!Serve, Bot!HearOthers, Bot!HearNothing,
                Bot!Rested, Bot!Repoll, Bot!Store,
                Bot!Sweep, Bot!Resolve, Bot!asking
  <2>5. Bot!Crash \/ UNCHANGED Bot!vars => UNCHANGED <<updates, verdict>>
    BY DEF Bot!Crash, Bot!vars, Bot!asking
  <2>6. UNCHANGED <<updates, verdict>> => UNCHANGED <<Bot!Agreed, verdict>>
    BY DEF Bot!Agreed
  <2> QED BY <2>1, <2>2, <2>3, <2>4, <2>5, <2>6 DEF Bot!Next, Bot!Proceed
<1> QED BY <1>1, <1>2, BotInvariant, PTL
        DEF Bot!Spec, Bot!OnlyAPressApproves, Bot!TelegramConsent!Spec

-----------------------------------------------------------------------------
(* The five side by side *)

\* The parts do not disturb each other: what the five of them do together is, of each, a
\* behaviour of it alone.
THEOREM PartsMoveAlone == AllSpec => Spec /\ Life!Spec /\ Use!Spec /\ Bot!Spec /\ Gate!Spec
<1> DEFINE all == <<part, vars, life, screen, chat, gate>>
<1>1. AllInit => Init /\ Life!Init /\ Use!Init /\ Bot!Init /\ Gate!Init
  BY DEF AllInit
<1>2. [AllNext]_all => [Next]_vars
  BY DEF AllNext, pipe, vars, pipes
<1>3. [AllNext]_all => [Life!Next]_(Life!vars)
  BY DEF AllNext, life, Life!vars, Life!held
<1>4. [AllNext]_all => [Use!Next]_(Use!vars)
  BY DEF AllNext, screen, Use!vars, Use!desk, Use!guard, Use!browser, Use!history
<1>5. [AllNext]_all => [Bot!Next]_(Bot!vars)
  BY DEF AllNext, chat, Bot!vars, Bot!asking
<1>6. [AllNext]_all => [Gate!Next]_(Gate!vars)
  BY DEF AllNext, gate, Gate!vars
<1> QED
  BY <1>1, <1>2, <1>3, <1>4, <1>5, <1>6, PTL
     DEF AllSpec, Spec, Life!Spec, Use!Spec, Bot!Spec, Gate!Spec

\* What a run checks of the five together holds for all values of the constants, and
\* a question asked through the bot is answered as every question is.
THEOREM SurfacesAreSafe ==
  AllSpec => /\ [](RegistryFollowsRow /\ OwnAnswers /\ LandsInside /\ NothingForgottenUnheard
                   /\ LossesWereAnswered /\ DeclarationsHold)
             /\ Bot!OnlyAPressApproves
BY PartsMoveAlone, RegistryIsTheRow, AnswersAreOwn, ClicksLandInside, PressesAreLookedAt,
   LossesAreAgreedTo, DeclarationsAreKept, BotKeepsConsent, PTL
=============================================================================
