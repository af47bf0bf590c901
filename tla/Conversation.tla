----------------------------- MODULE Conversation -----------------------------
(***************************************************************************)
(* What an employee's model is sent.  The transcript of a task grows by    *)
(* answers and results of tools; each request is the whole of it, put on   *)
(* the wire of the provider, with the tools that are still offered under   *)
(* names the provider accepts.  The transcript is saved at the end of each *)
(* step: a kill, a cancellation, a refusal, a provider that fails or a     *)
(* second attempt may come anywhere in between.                            *)
(***************************************************************************)
EXTENDS Naturals, Sequences, SequencesExt

CONSTANTS
  Registry,   \* the employee's tools, in the order the registry lists them
  Sanitised,  \* the name of each with every other character made an underscore
  Refusable,  \* tools the gate refuses each time
  Wires,      \* of "messages", "chat": the formats of the providers
  MaxAttempts,\* RetryPolicy.attempts
  MaxSteps,   \* ExecutionLimits.max_steps
  MaxCalls,   \* bound: calls of tools in one answer
  MaxRequests,\* bound: requests
  MaxFaults,  \* bound: failures of the provider or of the call log
  MaxKills    \* bound: kills

VARIABLES
  wire,       \* the format the provider speaks
  phase,      \* "plan", "loop", "sent", "tools", "verify", "over", "down"
  transcript, \* messages, what they cost and the steps taken
  saved,      \* the transcript in the row of the task
  request,    \* the last request: its turns, its tools, and the transcript it was made of
  attempt,    \* of with_retry, and of the task
  todo,       \* calls of the answer still to be made
  cancelled,
  ids,        \* how many calls the provider has named
  requests, faults, kills,
  charged,    \* history: answers the provider made
  logged,     \* the rows of llm_calls that succeeded
  asked       \* history: what each call of the answer was asked by, and what it reached

vars == <<wire, phase, transcript, saved, request, attempt, todo, cancelled, ids, requests,
          faults, kills, charged, logged, asked>>

RefusalLimit == 2

System == [role |-> "system", text |-> TRUE]
User == [role |-> "user", text |-> TRUE]
Assistant(text, calls) == [role |-> "assistant", text |-> text, calls |-> calls]
Result(call, refused) ==
  [role |-> "tool", text |-> TRUE, of |-> call.id, tool |-> call.tool, refused |-> refused]

Opening(cost) == [messages |-> <<System, User>>, cost |-> cost, steps |-> 0]

-----------------------------------------------------------------------------
(* Names. *)

\* Fault: names that come out the same are the same name.
WireNamesMerged(tools) == [t \in tools |-> Sanitised[t]]

\* A name that is taken gets the first suffix that is not.
Free(w, taken) ==
  IF w \notin taken THEN w
  ELSE Append(w, CHOOSE k \in 2..Len(Registry) + 1 :
                   /\ Append(w, k) \notin taken
                   /\ \A j \in 2..k - 1 : Append(w, j) \in taken)

\* wire_names, over the tools in their order.
WireNames(tools) ==
  LET upTo[i \in 0..Len(Registry)] ==
        IF i = 0 THEN <<>>
        ELSE IF Registry[i] \notin tools THEN upTo[i - 1]
        ELSE [t \in DOMAIN upTo[i - 1] \cup {Registry[i]} |->
                IF t = Registry[i] THEN Free(Sanitised[t], Range(upTo[i - 1]))
                ELSE upTo[i - 1][t]]
  IN  upTo[Len(Registry)]

\* What the provider calls each tool; chat completions take the names as they are.
Names(tools) ==
  IF wire = "messages" THEN WireNames(tools) ELSE [t \in tools |-> <<t>>]

\* A tool that is not among those offered, as the history names it.
Unoffered(t) == IF wire = "messages" THEN Sanitised[t] ELSE <<t>>

\* names.get(wire, wire): a name nobody was offered is taken at its word.
Meant(names, w) ==
  IF \E t \in DOMAIN names : names[t] = w THEN CHOOSE t \in DOMAIN names : names[t] = w
  ELSE IF \E t \in ToSet(Registry) : <<t>> = w THEN CHOOSE t \in ToSet(Registry) : <<t>> = w
  ELSE "unknown"

-----------------------------------------------------------------------------
(* Requests. *)

Refusals(messages, t) ==
  Len(SelectSeq(messages, LAMBDA m : m.role = "tool" /\ m.tool = t /\ m.refused))

\* refusals.withheld, from the transcript of the moment.
Offered(messages) ==
  {t \in ToSet(Registry) : Refusals(messages, t) < RefusalLimit}

Called(names, t) ==
  IF t \in DOMAIN names THEN names[t]
  ELSE IF t = "unknown" THEN <<t>> ELSE Unoffered(t)

Blocks(m, names) ==
  IF m.role = "tool" THEN <<[kind |-> "result", of |-> m.of]>>
  ELSE (IF m.text THEN <<[kind |-> "text"]>> ELSE <<>>)
       \o (IF m.role # "assistant" THEN <<>>
           ELSE [i \in DOMAIN m.calls |->
                   [kind |-> "use", id |-> m.calls[i].id, name |-> Called(names, m.calls[i].tool)]])

Speaker(m) == IF m.role \in {"user", "tool"} THEN "user" ELSE "assistant"

\* A message that says nothing is none; others join a turn of the same speaker.
Joined(turns, m, names) ==
  LET blocks == Blocks(m, names) IN
  IF m.role = "system" \/ blocks = <<>> THEN turns
  ELSE IF turns # <<>> /\ turns[Len(turns)].role = Speaker(m)
  THEN [turns EXCEPT ![Len(turns)].blocks = @ \o blocks]
  ELSE Append(turns, [role |-> Speaker(m), blocks |-> blocks])

\* _split_system: no two neighbours are of one speaker.
MergedTurns(messages, names) ==
  LET upTo[n \in 0..Len(messages)] ==
        IF n = 0 THEN <<>> ELSE Joined(upTo[n - 1], messages[n], names)
  IN  upTo[Len(messages)]

Turns(messages, names) ==
  IF wire = "messages" THEN MergedTurns(messages, names)
  ELSE [i \in DOMAIN messages |->
          [role |-> messages[i].role, blocks |-> Blocks(messages[i], names)]]

NoRequest == [turns |-> <<>>, names |-> <<>>, of |-> <<>>]

\* The top of the loop.
Send ==
  LET names == Names(Offered(transcript.messages)) IN
  /\ phase = "loop" /\ ~cancelled /\ transcript.steps < MaxSteps /\ requests < MaxRequests
  /\ request' = [turns |-> Turns(transcript.messages, names), names |-> names,
                 of |-> transcript.messages]
  /\ phase' = "sent" /\ requests' = requests + 1
  /\ attempt' = [attempt EXCEPT !.call = 1] /\ asked' = <<>>
  /\ UNCHANGED <<wire, transcript, saved, todo, cancelled, ids, faults, kills, charged, logged>>

\* Out of steps, or told to stop: what was said so far is the answer.
Stop ==
  /\ phase = "loop" /\ (cancelled \/ transcript.steps = MaxSteps)
  /\ phase' = IF cancelled THEN "over" ELSE "verify"
  /\ UNCHANGED <<wire, transcript, saved, request, attempt, todo, cancelled, ids, requests,
                 faults, kills, charged, logged, asked>>

\* A request that failed on its way there, or on its way back.
Posted == charged' \in {charged, charged + 1}

\* with_retry: only what declares itself transient, and not for ever.  A provider
\* that timed out may have answered.
TryAgain ==
  /\ phase = "sent" /\ faults < MaxFaults /\ attempt.call < MaxAttempts
  /\ attempt' = [attempt EXCEPT !.call = @ + 1] /\ faults' = faults + 1
  /\ Posted
  /\ UNCHANGED <<wire, phase, transcript, saved, request, todo, cancelled, ids, requests, kills,
                 logged, asked>>

\* MeteredLLM writes the failure down and raises: the task fails.  So it does when
\* the row of an answer cannot be written, and the answer is lost with it.
GiveUp ==
  /\ phase = "sent" /\ faults < MaxFaults
  /\ Posted
  /\ phase' = "over" /\ faults' = faults + 1
  /\ UNCHANGED <<wire, transcript, saved, request, attempt, todo, cancelled, ids, requests, kills,
                 logged, asked>>

\* What a model may name: what it is offered, and what its history shows.
Nameable ==
  LET shown == UNION {ToSet(request.turns[i].blocks) : i \in DOMAIN request.turns} IN
  {request.names[t] : t \in DOMAIN request.names}
  \cup {b.name : b \in {b \in shown : b.kind = "use"}}

\* A row of llm_calls, in a transaction of its own.
Log == logged' = logged + 1

\* An answer is priced, logged and put into the transcript.
Answered(message) ==
  /\ charged' = charged + 1 /\ Log
  /\ transcript' = [messages |-> Append(transcript.messages, message),
                    cost |-> transcript.cost + 1, steps |-> transcript.steps + 1]

\* No calls: the answer is final, and saved before it is verified.
Finish(text) ==
  /\ phase = "sent"
  /\ Answered(Assistant(text, <<>>))
  /\ saved' = transcript' /\ phase' = "verify"
  /\ UNCHANGED <<wire, request, attempt, todo, cancelled, ids, requests, faults, kills, asked>>

\* _tool_call_from_wire: arguments that are no JSON are handed on as they are.
CallsOf(wanted) ==
  [i \in DOMAIN wanted |-> [id |-> ids + i, tool |-> Meant(request.names, wanted[i])]]

\* It may say something besides, which changes nothing here.
Ask(wanted) ==
  /\ phase = "sent"
  /\ todo' = CallsOf(wanted)
  /\ ids' = ids + Len(wanted)
  /\ asked' = [i \in DOMAIN wanted |-> [by |-> wanted[i], reached |-> todo'[i].tool]]
  /\ Answered(Assistant(FALSE, todo'))
  /\ phase' = "tools"
  /\ UNCHANGED <<wire, saved, request, attempt, cancelled, requests, faults, kills>>

\* Fault: each result is saved as it arrives.
SavedEachTime == saved' = transcript'

\* on_step, after the last of the calls.
SavedAtTheEnd == saved' = IF Len(todo) = 1 THEN transcript' ELSE saved

CallTool ==
  LET call == Head(todo) IN
  /\ phase = "tools" /\ todo # <<>> /\ ~cancelled
  /\ transcript' = [transcript EXCEPT
       !.messages = Append(@, Result(call, call.tool \in Refusable \cup {"unknown"}))]
  /\ todo' = Tail(todo)
  /\ SavedAtTheEnd
  /\ phase' = IF Len(todo) = 1 THEN "loop" ELSE "tools"
  /\ UNCHANGED <<wire, request, attempt, cancelled, ids, requests, faults, kills, charged, logged, asked>>

\* Between two calls of a step: the rest are not made.
StopBetween ==
  /\ phase = "tools" /\ cancelled
  /\ phase' = "over"
  /\ UNCHANGED <<wire, transcript, saved, request, attempt, todo, cancelled, ids, requests,
                 faults, kills, charged, logged, asked>>

-----------------------------------------------------------------------------
(* The stages around the loop. *)

\* _plan: a transcript of its own, at the cost of those before it.
FinishPlan ==
  /\ phase = "plan"
  /\ transcript' = Opening(transcript.cost) /\ saved' = transcript'
  /\ phase' = "loop"
  /\ UNCHANGED <<wire, request, attempt, todo, cancelled, ids, requests, faults, kills, charged,
                 logged, asked>>

\* Sent back, once, unless a limit stopped it.
SendBack ==
  /\ phase = "verify" /\ attempt.task = 1 /\ transcript.steps < MaxSteps
  /\ attempt' = [attempt EXCEPT !.task = 2] /\ phase' = "plan"
  /\ UNCHANGED <<wire, transcript, saved, request, todo, cancelled, ids, requests, faults, kills,
                 charged, logged, asked>>

\* Accepted, rejected, or refused by the lifecycle of the task (EmployeeRuntime).
Settle ==
  /\ phase = "verify"
  /\ phase' = "over"
  /\ UNCHANGED <<wire, transcript, saved, request, attempt, todo, cancelled, ids, requests,
                 faults, kills, charged, logged, asked>>

Cancel ==
  /\ phase \notin {"over", "down"} /\ ~cancelled
  /\ cancelled' = TRUE
  /\ UNCHANGED <<wire, phase, transcript, saved, request, attempt, todo, ids, requests,
                 faults, kills, charged, logged, asked>>

\* The signal of a cancellation is in the memory of the process.
Kill ==
  /\ phase \notin {"over", "down"} /\ kills < MaxKills
  /\ phase' = "down" /\ kills' = kills + 1
  /\ cancelled' = FALSE /\ todo' = <<>>
  /\ IF phase = "sent" THEN Posted ELSE UNCHANGED charged
  /\ UNCHANGED <<wire, transcript, saved, request, attempt, ids, requests, faults, logged, asked>>

\* From the row: an empty transcript is still to be planned.
Resume ==
  /\ phase = "down"
  /\ transcript' = saved
  /\ phase' = IF saved.messages = <<>> THEN "plan" ELSE "loop"
  /\ UNCHANGED <<wire, saved, request, attempt, todo, cancelled, ids, requests, faults, kills,
                 charged, logged, asked>>

Init ==
  /\ wire \in Wires
  /\ phase = "plan"
  /\ transcript = [messages |-> <<>>, cost |-> 0, steps |-> 0] /\ saved = transcript
  /\ request = NoRequest /\ attempt = [call |-> 1, task |-> 1]
  /\ todo = <<>> /\ cancelled = FALSE
  /\ ids = 0 /\ requests = 0 /\ faults = 0 /\ kills = 0 /\ charged = 0 /\ logged = 0
  /\ asked = <<>>

Next ==
  \/ Send \/ Stop \/ TryAgain \/ GiveUp
  \/ \E text \in BOOLEAN : Finish(text)
  \/ \E wanted \in SeqOf(Nameable, MaxCalls) \ {<<>>} : Ask(wanted)
  \/ CallTool \/ StopBetween \/ FinishPlan \/ SendBack \/ Settle \/ Cancel \/ Kill \/ Resume

Spec == Init /\ [][Next]_vars

-----------------------------------------------------------------------------
(* Properties. *)

TypeOK ==
  /\ wire \in Wires
  /\ phase \in {"plan", "loop", "sent", "tools", "verify", "over", "down"}
  /\ requests \in 0..MaxRequests /\ faults \in 0..MaxFaults /\ kills \in 0..MaxKills
  /\ transcript.steps \in 0..MaxSteps /\ cancelled \in BOOLEAN

Uses(turn) == {b.id : b \in {b \in ToSet(turn.blocks) : b.kind = "use"}}
Results(turn) == {b.of : b \in {b \in ToSet(turn.blocks) : b.kind = "result"}}

\* The turns after the i-th up to the next time the assistant speaks.
Replies(turns, i) ==
  {j \in i + 1..Len(turns) : \A k \in i + 1..j : turns[k].role # "assistant"}

\* However often the task was killed and resumed, sent back or refused a tool, each
\* request is one a provider accepts: a person begins, every call in it is answered
\* before the assistant speaks again, nothing is answered that was not asked just
\* before, and on the messages wire the speakers alternate.
RequestsAreWhole ==
  phase = "sent" =>
    LET turns == request.turns IN
    /\ turns # <<>> /\ turns[1].role # "assistant"
    /\ \A i \in DOMAIN turns :
         turns[i].role = "assistant" =>
           Uses(turns[i]) = UNION {Results(turns[j]) : j \in Replies(turns, i)}
    /\ UNION {Results(turns[i]) : i \in DOMAIN turns}
         \subseteq UNION {Uses(turns[i]) : i \in DOMAIN turns}
    /\ wire = "messages" =>
         \A i \in 2..Len(turns) : turns[i].role # turns[i - 1].role

\* A call reaches the tool its name stood for in the request: two tools whose names
\* come out the same on the wire are not taken for one another, whichever of the
\* others was withdrawn since.
CallsReachWhatWasShown ==
  \A i \in DOMAIN asked : \A t \in DOMAIN request.names :
    request.names[t] = asked[i].by => asked[i].reached = t

\* What the transcript says was spent stands in the call log, over all attempts and
\* processes; what the provider charged beyond it was lost to a failure or a kill.
TheLogHasTheSpend ==
  /\ transcript.cost <= logged /\ saved.cost <= logged
  /\ charged <= logged + faults + kills

\* Not so: with one of two tools of one wire name withheld, the other takes its name,
\* and the history shows the refused calls and the others under one name.
HistoryIsPossible ==
  \A i, j \in DOMAIN request.of :
    LET a == request.of[i]
        b == request.of[j] IN
    a.role = "assistant" /\ b.role = "assistant" =>
      \A k \in DOMAIN a.calls, l \in DOMAIN b.calls :
        a.calls[k].tool # b.calls[l].tool =>
          Called(request.names, a.calls[k].tool) # Called(request.names, b.calls[l].tool)

\* Not so: a task killed between its final answer and the verdict asks the model to
\* go on from that answer.
TheModelIsNotAskedTwice ==
  phase = "sent" => Last(request.turns).role # "assistant"

\* Not so: an answer that arrived too late is asked for again and charged twice.
ChargedIsLogged == kills = 0 /\ phase # "over" => charged = logged
=============================================================================
