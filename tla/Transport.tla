------------------------------ MODULE Transport ------------------------------
(***************************************************************************)
(* One MCP server spoken to over its stdin and stdout: StdioTransport and  *)
(* the MCPClient above it, used by several tool calls at once.  The server *)
(* is external: it answers what it reads in the order it reads it, after   *)
(* any time, may write lines nobody asked for, and may exit.               *)
(*                                                                         *)
(* A request is numbered and the number is sent, but _read takes the next  *)
(* line of the pipe whatever number it carries.                            *)
(***************************************************************************)
EXTENDS Naturals, Sequences

CONSTANTS
  Calls,       \* tool calls of this integration's tools
  MaxServers,  \* bound: servers the transport starts
  MaxRequests, \* bound: no call is begun again after this many requests
  MaxNotes     \* bound: lines the server writes unasked

ASSUME TransportAssumption ==
  /\ MaxServers \in Nat /\ MaxRequests \in Nat /\ MaxNotes \in Nat
  /\ "nobody" \notin Calls

VARIABLES
  pc,        \* where each call is
  server,    \* the process the transport holds, 0 for none
  alive,     \* servers whose process runs
  started,   \* servers started so far
  connected, \* MCPClient._connected
  holder,    \* the call inside `async with self._lock`
  number,    \* _next_id
  mine,      \* the number each call sent last
  on,        \* the server it sent it to
  inbox,     \* lines each server has still to read
  outbox,    \* lines each server wrote and nobody has read
  heard,     \* the line each call was given as its answer
  notes,     \* history: lines written unasked
  dirty      \* history: servers with a line unasked for or cut off, or a request
             \* whose answer nobody waited for

pipes == <<inbox, outbox, notes>>
vars == <<pc, server, alive, started, connected, holder, number, mine, on,
          inbox, outbox, heard, notes, dirty>>

Servers == 1..MaxServers

\* A line that answers nobody: a notification, a log line, the rest of one cut off.
Note == 0
Ended == {"answered", "failed"}

TypeOK ==
  /\ pc \in [Calls -> {"asked", "starting", "greet", "reading greeting", "telling",
                       "call", "reading"} \cup Ended]
  /\ server \in 0..MaxServers /\ started \in 0..MaxServers
  /\ alive \in SUBSET Servers
  /\ connected \in BOOLEAN
  /\ dirty \in SUBSET Servers
  /\ holder \in Calls \cup {"nobody"}
  /\ number \in Nat /\ notes \in Nat
  /\ mine \in [Calls -> Nat]
  /\ on \in [Calls -> 0..MaxServers]
  /\ inbox \in [Servers -> Seq(Nat)] /\ outbox \in [Servers -> Seq(Nat)]
  /\ heard \in [Calls -> Nat]

Init ==
  /\ pc = [c \in Calls |-> "asked"]
  /\ server = 0 /\ alive = {} /\ started = 0
  /\ connected = FALSE
  /\ holder = "nobody" /\ number = 0
  /\ mine = [c \in Calls |-> 0]
  /\ on = [c \in Calls |-> 0]
  /\ inbox = [s \in Servers |-> << >>]
  /\ outbox = [s \in Servers |-> << >>]
  /\ heard = [c \in Calls |-> 0]
  /\ notes = 0 /\ dirty = {}

Goto(c, place) == pc' = [pc EXCEPT ![c] = place]
Running == server \in alive

-----------------------------------------------------------------------------
(* MCPClient.connect *)

\* A tool connects before each call; a connected client goes straight on, also
\* when its server has exited since.  start() does nothing beside a live server.
Connect(c) ==
  /\ pc[c] = "asked"
  /\ Goto(c, IF connected THEN "call" ELSE IF Running THEN "greet" ELSE "starting")
  /\ UNCHANGED <<server, alive, started, connected, holder, number, mine, on, pipes, heard, dirty>>

\* create_subprocess_exec was awaited: the transport holds the process that came
\* last, whoever else was starting one.
Start(c) ==
  /\ pc[c] = "starting"
  /\ \/ /\ started < MaxServers
        /\ started' = started + 1
        /\ server' = started + 1
        /\ alive' = alive \cup {started + 1}
        /\ Goto(c, "greet")
     \/ Goto(c, "failed") /\ UNCHANGED <<server, alive, started>>
  /\ UNCHANGED <<connected, holder, number, mine, on, pipes, heard, dirty>>

-----------------------------------------------------------------------------
(* StdioTransport.request *)

Release == holder' = "nobody"

\* Fault: the lock is released once the request is written.
WriteUnlocked(c, from, to) ==
  /\ pc[c] = from /\ holder = "nobody" /\ Running
  /\ number' = number + 1
  /\ mine' = [mine EXCEPT ![c] = number + 1]
  /\ on' = [on EXCEPT ![c] = server]
  /\ heard' = [heard EXCEPT ![c] = 0]
  /\ inbox' = [inbox EXCEPT ![server] = Append(@, number + 1)]
  /\ Goto(c, to)
  /\ UNCHANGED <<server, alive, started, connected, holder, outbox, notes, dirty>>

\* The lock is free and the server runs: number the request and write it.
Write(c, from, to) ==
  /\ pc[c] = from /\ holder = "nobody" /\ Running
  /\ holder' = c
  /\ number' = number + 1
  /\ mine' = [mine EXCEPT ![c] = number + 1]
  /\ on' = [on EXCEPT ![c] = server]
  /\ heard' = [heard EXCEPT ![c] = 0]
  /\ inbox' = [inbox EXCEPT ![server] = Append(@, number + 1)]
  /\ Goto(c, to)
  /\ UNCHANGED <<server, alive, started, connected, outbox, notes, dirty>>

Greet(c) == Write(c, "greet", "reading greeting")
CallTool(c) == Write(c, "call", "reading")

\* _require_running: not running.
NotRunning(c) ==
  /\ pc[c] \in {"greet", "telling", "call"} /\ holder = "nobody" /\ ~Running
  /\ Goto(c, "failed")
  /\ UNCHANGED <<server, alive, started, connected, holder, number, mine, on, pipes, heard, dirty>>

\* _read: the next line is the answer.  A line that answers nobody is none of a tool;
\* a greeting is not looked at.
Read(c) ==
  /\ pc[c] \in {"reading greeting", "reading"}
  /\ outbox[on[c]] # << >>
  /\ outbox' = [outbox EXCEPT ![on[c]] = Tail(@)]
  /\ heard' = [heard EXCEPT ![c] = Head(outbox[on[c]])]
  /\ Release
  /\ \/ pc[c] = "reading greeting" /\ Goto(c, "telling")
     \/ pc[c] = "reading" /\ Head(outbox[on[c]]) # Note /\ Goto(c, "answered")
     \/ Goto(c, "failed") \* an error, or a line that is not an answer
  /\ UNCHANGED <<server, alive, started, connected, number, mine, on, inbox, notes, dirty>>

\* The line is longer than readline takes (64 KiB).  One that has come whole is dropped;
\* of another what has come is, and the rest of it is the next line.
ReadTooLong(c) ==
  /\ pc[c] \in {"reading greeting", "reading"}
  /\ outbox[on[c]] # << >>
  /\ \/ /\ outbox' = [outbox EXCEPT ![on[c]] = Tail(@)]
        /\ UNCHANGED dirty
     \/ /\ outbox' = [outbox EXCEPT ![on[c]] = <<Note>> \o Tail(@)]
        /\ dirty' = dirty \cup {on[c]}
  /\ Release
  /\ Goto(c, "failed")
  /\ UNCHANGED <<server, alive, started, connected, number, mine, on, inbox, notes, heard>>

\* The server closed its output and everything it wrote has been read.
ReadEnd(c) ==
  /\ pc[c] \in {"reading greeting", "reading"}
  /\ on[c] \notin alive /\ outbox[on[c]] = << >>
  /\ Release
  /\ Goto(c, "failed")
  /\ UNCHANGED <<server, alive, started, connected, number, mine, on, pipes, heard, dirty>>

\* No answer in time, or the call's task was cancelled while it waited: the
\* request has been sent and its answer may still come.
Abandon(c) ==
  /\ pc[c] \in {"reading greeting", "reading"}
  /\ Release
  /\ dirty' = dirty \cup {on[c]}
  /\ Goto(c, "failed")
  /\ UNCHANGED <<server, alive, started, connected, number, mine, on, pipes, heard>>

\* The call's task is cancelled while it waits for the lock.
Leave(c) ==
  /\ pc[c] \in {"greet", "telling", "call"}
  /\ Goto(c, "failed")
  /\ UNCHANGED <<server, alive, started, connected, holder, number, mine, on, pipes, heard, dirty>>

\* The handshake ends with a notification, which has no answer.
Tell(c) ==
  /\ pc[c] = "telling" /\ holder = "nobody" /\ Running
  /\ connected' = TRUE
  /\ Goto(c, "call")
  /\ UNCHANGED <<server, alive, started, holder, number, mine, on, pipes, heard, dirty>>

-----------------------------------------------------------------------------
(* The server, and the end of it *)

Serve(s) ==
  /\ s \in alive /\ inbox[s] # << >>
  /\ inbox' = [inbox EXCEPT ![s] = Tail(@)]
  /\ outbox' = [outbox EXCEPT ![s] = Append(@, Head(inbox[s]))]
  /\ UNCHANGED <<pc, server, alive, started, connected, holder, number, mine, on, heard, notes, dirty>>

\* A line nobody asked for: a notification, a log line.
Mutter(s) ==
  /\ s \in alive /\ notes < MaxNotes
  /\ notes' = notes + 1
  /\ outbox' = [outbox EXCEPT ![s] = Append(@, Note)]
  /\ dirty' = dirty \cup {s}
  /\ UNCHANGED <<pc, server, alive, started, connected, holder, number, mine, on, inbox, heard>>

Exit(s) ==
  /\ s \in alive
  /\ alive' = alive \ {s}
  /\ UNCHANGED <<pc, server, started, connected, holder, number, mine, on, pipes, heard, dirty>>

\* MCPClient.aclose: the server held is terminated, or killed if it does not go.
Close ==
  /\ server # 0
  /\ connected' = FALSE
  /\ alive' = alive \ {server}
  /\ server' = 0
  /\ UNCHANGED <<pc, started, holder, number, mine, on, pipes, heard, dirty>>

\* The employee calls a tool again.
Again(c) ==
  /\ pc[c] \in Ended
  /\ number < MaxRequests
  /\ Goto(c, "asked")
  /\ heard' = [heard EXCEPT ![c] = 0] /\ mine' = [mine EXCEPT ![c] = 0]
  /\ UNCHANGED <<server, alive, started, connected, holder, number, on, pipes, dirty>>

Step(c) == Connect(c) \/ Start(c) \/ Greet(c) \/ CallTool(c) \/ NotRunning(c)
           \/ Read(c) \/ ReadTooLong(c) \/ ReadEnd(c) \/ Abandon(c) \/ Tell(c)

Next ==
  \/ \E c \in Calls : Step(c) \/ Leave(c) \/ Again(c)
  \/ \E s \in Servers : Serve(s) \/ Mutter(s) \/ Exit(s)
  \/ Close

Spec == Init /\ [][Next]_vars

-----------------------------------------------------------------------------
(* What a connection promises *)

\* A call is answered by the answer to its own request, as long as nobody left a
\* request of that server behind, the server wrote nothing unasked, and no answer of
\* its was so long that it was cut off.  The lock alone sees to it, because the
\* numbers are never compared.
OwnAnswers == \A c \in Calls :
  heard[c] # 0 /\ on[c] \notin dirty => heard[c] = mine[c]

-----------------------------------------------------------------------------
(* What the documentation says and the code does not *)

\* transport.py:82, answers are not matched "by id across concurrent readers"
\* because there is one request at a time: after a timeout the answer that comes
\* late is given to the next request, and every later one is behind by one; after an
\* answer that was cut off the next request reads the rest of it, and its own answer
\* goes to the one after.
AnswersAreMatched == \A c \in Calls : heard[c] # 0 => heard[c] = mine[c]

\* client.py:34, "Start the server and complete the handshake. Idempotent.": two
\* calls that connect at once start two servers, and close() stops one of them.
OneServer == alive \subseteq {server}

\* errors.py:234, "The server is not answering. It may be on the next call.": a
\* client whose server exited believes it is connected and starts none.
DeadServersAreReplaced == [][\A c \in Calls :
  pc[c] = "asked" /\ pc'[c] # "asked" /\ ~Running => pc'[c] = "starting"]_vars
=============================================================================
