# Prometheus, specified

TLA+ modules about Prometheus, the local-first platform under `src/` in which a
manager plans an objective, hands its tasks to employees, asks a person before
a tool does something that matters, and starts work by itself on a schedule.
The modules model what its parts do between one `await` and the next, what is
in the database when a process dies, and what the services, screens and servers
outside it may do meanwhile. TLC checks them on small instances; TLAPS proves
every safety property of the runs that pass for every value of the constants.

Run everything from this directory:

    tlc -workers 2 -config EmployeeRuntime.cfg EmployeeRuntime
    tlc -workers 2 -config Approvals.cfg       MCApprovals
    tlc -workers 2 -config Runs.cfg            MCRuns
    tlc -workers 2 -config Supervision.cfg     MCSupervision
    tlc -workers 2 -config Scheduler.cfg       MCScheduler
    tlc -workers 2 -config SchedulerEvents.cfg MCScheduler
    tlc -workers 2 -config Workflow.cfg        MCWorkflow
    tlc -workers 2 -config Surfaces.cfg        MCSurfaces
    tlc -workers 2 -config Providers.cfg       MCProviders

and, each of which ends in a counterexample,

    tlc -workers 2 -config ProvidersRouted.cfg      MCProviders
    tlc -workers 2 -config SupervisionEscalated.cfg MCSupervision
    tlc -workers 2 -config SchedulerErased.cfg      MCScheduler

and the proofs:

    tlapm EmployeeRuntimeProofs.tla        # and the other *Proofs.tla

`PROJECT.json` is the index: components and what of each is modelled, the runs,
the lines of code each definition stands for, the hazards with the properties
that cover them, the theorems, and for each property a change of the code that
breaks it.

## The system

One process holds an asyncio loop; `prometheus ui`, `serve`, `ask`, `resume`,
`validate`, `storage-migrate` and the scheduler are commands of the same program
over the same database, so two processes may share rows. Nothing is preempted:
between two awaits a coroutine is atomic, and at each of them everything else
may happen, a kill included. What is saved is a row upserted whole, almost
always from a copy held in memory.

| Component | State it keeps | Operations | Talks to | Module |
|---|---|---|---|---|
| Task lifecycle (`domain/tasks/task.py`) | a status, a table of moves | `transition`, `list_resumable` | everyone who writes a task row | `TaskLifecycle` |
| Employee runtime (`application/employee_runtime`, `task_runner.py`, `orchestrator.py`) | the task row with its execution cursor and transcript, the assignment row, a cancel signal | submit, plan, step, tool call, verify, send back, fail, resume | model, tools, approvals, repositories | `EmployeeRuntime`, `Conversation` |
| Approvals (`infrastructure/approvals`) | an approval row, a future per waiting call | `request`, `resolve`, `release`, time out, sweep | the runtime (waits), a page or a terminal (answers) | `Approvals` |
| Approvals by Telegram (`telegram.py`) | an approval row, one `_offset` for all waiting calls | `request`, a long poll per call, `resolve` | the bot API, the runtime (waits) | `Telegram` |
| Register of live runs (`application/interface/runs.py`) | dictionaries of tasks and objectives, the signals | `start`, `ask`, `cancel`, `cancel_objective`, `aclose`, done callbacks | runner, manager, approvals | `Runs` |
| Progress broadcaster (`infrastructure/progress`, `Activity`) | a short history per id, a bounded queue per watcher | publish, subscribe, replay, drain | runtime, manager (publish); pages, terminals (watch) | `Streams` |
| Manager and supervisor (`application/prometheus`) | objective and plan rows; the wave, attempts and results of one coroutine | plan, run waves, reassign, retry, judge, replan, deliver, escalate | coordinator, runner, reconciler, verifier | `Supervision`, `Planning` |
| Scheduler (`application/scheduling`) | schedule and event rows | `tick`: due schedules, claims, firings | manager; a person at the command line | `Scheduler` |
| Workflow engine (`application/workflows`) | a run row, the outcome of each step | order, attempt, save, conclude | task runner | `Workflow` |
| Policies, tools (`domain/policies`, `application/tools`, `infrastructure/tools`) | a registry, a directory, refusals counted | offer, decide, ask, run | approvals, file system | `ToolCalls` |
| Computer use (`infrastructure/computer`) | a guard, one browser with one tab, a brake file | act, open, screenshot, brake | the desktop, the browser | `ScreenUse` |
| Integrations (`application/integrations`, `infrastructure/mcp`) | the row of a service, tools registered, the connection held, grants | connect, disconnect, classify, enable, restore | servers started as processes, the registry | `Integrations`, `Transport` |
| Providers (`application/providers`, `infrastructure/llm`) | connections, credentials, a catalog, defaults, a router kept per process | add, remove, point, seed, call, retry | keyring, model providers | `Providers`, `Conversation` |
| Workspaces (`application/workspaces`) | rows, the active one, what each process was told | create, switch, point, remove | every store, file tools | `Workspaces` |
| Memory (`application/memory`) | memory rows with scope and expiry | record, consolidate, prune, recall | runtime, manager, a summarising model | `Memory` |
| Knowledge (`application/knowledge`) | documents and their passages | add, reindex, delete, search | embedding models, file parsers | `Knowledge` |
| Persistence (`infrastructure/persistence`, `migrations`) | the schema, its revision, a text index | upgrade, downgrade, copy, verify, erase | SQLite, PostgreSQL | `Schema`, `Migrations`, `Transfer` |
| Validation (`application/validation`) | scenario runs kept, declared answers | choose, prepare, ask, judge, record | the whole platform | `Validation` |
| Desktop conversation page (`desktop/src`, `useChat`) | the thread on screen, re-reads, requests, a stream | open, send, poll, follow | the interface service | `ChatPage` |
| Secrets and audit, wiring, CLI, HTTP server, other pages | see `PROJECT.json` | | | parts, in the modules above |

What is hard in them, and what has to be true anyway:

- **A kill at any await.** Every row is saved separately. What was paid for must
  be in a row before the next model call; rows of an objective and its plans
  must agree; an event may be lost but never acted on twice; a key must be there for the
  connection that names it; half a migration must not spoil a database silently.
- **Stale copies.** A row read before an await is written whole after it
  (`cancel`, `resolve`, `_fire`, `classify`, `note`): which of the writes in between are lost?
- **Races at a deadline.** A click and a timeout in the same turn of the loop
  must not turn silence into consent, and the row must say what the call heard.
- **One stream, several readers.** The questions asked through a bot share one offset into
  one list of presses; tool calls of one service share one line to its server; tasks share
  one tab: whose answer, press or click is it?
- **What is checked and what is used.** A file that was not there when its writing was
  judged, a region read before the display changed, tools offered before a service withdrew them,
  a workspace switched under a run.
- **Failures of one of several.** One coroutine of a wave raises while the
  others work; a schedule fails each time; a batch of rows is refused.
- **Retries at several layers.** A transient failure re-enters a task, a verdict
  sends it back, the supervisor reassigns it, the manager plans again, a provider is asked
  again, a person resumes it: all of them bounded together.
- **Bounded places.** A watcher's queue, the history kept of an id, the records of an
  audit read back, a budget of actions, the overlap of two passages.
- **Something must end.** A question nobody answers, a run told to stop, a cyclic
  plan, a due schedule behind one that always fails, a page that waits for an answer it missed.

Every one of these, at its line, is a row of `hazards` in `PROJECT.json`, with the
properties that cover it.

## The modules

Each component has a module that keeps its state as variables and has one action per
operation, cut where the code awaits: what a coroutine does between two awaits is one
action, and its program counter (`pc`, `stage`, `phase`, `call`, `req`) names the await
it is at. `*Proofs` holds the theorems about the module or the sum of that name. `TaskStates` (the statuses,
`CanTransition`, `ResumableStatuses`) and `TaskLifecycle` (a row moves only along the table) are
the promise `EmployeeRuntime` implements; `Consent` (one answer, told once, yes only if somebody
agreed, from `domain/approvals/protocols.py`) the promise `Approvals` and `Telegram` implement, each
under its own mapping of "agreed". Definitions named "Fault" in a comment are what the code might
have been and is not: each shows that one property would notice.

`MC*` modules give constants their values, and those that are about several components
are sums: `part` is chosen at the beginning, a behaviour is one of that part alone, and the variables of
the others stay at one of their beginnings.

| Sum | Parts |
|---|---|
| `MCApprovals` | `Approvals`, `Validation` |
| `MCRuns` | `Runs`, `Streams`, `ChatPage` |
| `MCScheduler` | `Scheduler`, `Migrations`, `Transfer` |
| `MCWorkflow` | `Workflow`, `Planning`, `Conversation` |
| `MCSurfaces` | `Transport`, `Integrations`, `ScreenUse`, `Telegram`, `ToolCalls` |
| `MCProviders` | `Providers`, `Workspaces`, `Memory`, `Knowledge` |

### EmployeeRuntime

`row` is the saved task and survives a kill; `task` is the coroutine's copy. `pc`
names the await the coroutine is at: `assigning`, `starting` are `TaskRunner.submit`
and `run`, `plan`, `planning` are `_plan`, the loop of `Executor.run` is `loop` (the signal,
the limits), `model`, `calls`, `tool`, `asking` (the approval gate, which parks the
status and restores it in its `finally`), `_verify` is `verify` and `verifying`,
then `failing`, `closing` (the assignment row) and `ended`. `Crash` and `ShutDown` lose
the copy; `Resume` is `prometheus resume`, which starts from the row whatever its
status is. A verdict, an answer, a failure and a tool call's outcome are
choices. Costs are counted in model calls.

### Conversation

The transcript of a task and every request made of it. `transcript` is a sequence of turns
of the person, the assistant and tools, `saved` the one in the row. `Send` puts the whole of it on
the wire of the provider: `messages` joins turns of one speaker and needs them to alternate, `chat` keeps
each. Names of tools are made acceptable to the provider and told apart by suffixes in the order
of the tools still offered, so a withdrawn tool shifts those behind it. `TryAgain` and `GiveUp` are
`with_retry`; the call log is written once per answered request and may fail. Kills, cancels,
a step's refusals and a second attempt come between any two steps.

### Approvals

A question goes `saved` (the row), `parked` (the future), `decided`, `told`. The
`mode` chosen once is the configuration: allow, deny, a page with or without a
deadline (`approval_ttl_seconds = 0`), a terminal. `Click` is a decision
recorded while a call waits, `ClickLate` and `RecordLate` a `resolve` that loaded the
row and saves its decision over whatever the row says by then. `TimeOut` may
come in the turn of the click. `List` is the page reading pending rows, which
closes the overdue ones. A kill leaves rows and no calls.

### Telegram

Each question is a call that goes `saved` (the row), `polling`, `replied`, perhaps
`resting` (the pause after an empty poll), `decided`, `told`. `offset` is the service's `_offset`;
`asked` is the one a poll was sent with, which others may have passed by the time it
returns. `Serve` is the bot API, external: it numbers the presses (`updates`),
forgets what lies below the offset it is sent (`confirmed`) and returns the rest. `HearAnswer`,
`HearOthers` and `HearNothing` are the three ways through the loop of `_await_answer`. `Fails` is an
exception anywhere in it, `TimeOut` the `wait_for` around it. `Press` may come at any time after
`Deliver` put the message in the chat, also for a call that ended or died with its process;
`Crash` forgets the offset.

### Runs, Streams, ChatPage

`Runs` is the register. `cancel` is split where it awaits: `CancelRead`, then `CancelSignal` or `CancelIdle`,
then `CancelSave`. `Begin` registers a direct run only: tasks of an objective are
run inside the objective's coroutine and the register knows nothing of them.
`Interrupt` is what cancelling a coroutine does to the rows: nothing, but for the
`finally` of the approval gate. `Close` and `GiveUp` are `aclose` before and after its
grace.

`Streams` is the broadcaster with `Activity` over it. The manager saves and announces a plan, delegates and starts
tasks; whoever works publishes, saves its end and says its result. A watcher subscribes to an id,
is replayed the history that was kept (`Buffer` events), then drains a queue of `QueueSize`, which when it is
full has no room for the newest event, and for an objective subscribes to the tasks it hears of or finds in the plan.

`ChatPage` is `useChat`: `Open` is the person going to a thread, `Arrive` and `Lose` are the answers to re-reads under way
in any order, `Adopt` puts what was loaded on screen, `Send`, `Store`, `Opened`, `Posted` a
request and the threads it opens, `Hear`, `Drop` and `Stop` the stream and the button. `Poll` is the re-read every
two seconds while something waits.

### Supervision and Planning

In `Supervision` `stage` follows `handle_objective`; `wave`, `carry`, `attempt`, `avoid`, `by` and `outcome` are the
coroutines of one `asyncio.gather`. A finished task is reduced to what the supervisor can
tell from it (`Kinds`), including the error type it matches by name. A plan is a
dependency relation of `Shapes`, cycles included, because the planner does not
exclude them. `Offering` and `Holding` say who can do a task; `staff` is whom the objective's workspace lists, everybody or,
in a workspace other than the first, nobody. There a task that needs a capability finds somebody all the same, and one that
needs none finds nobody (`Candidates`), which is a `DelegationError` (`NobodyWasFound`). It and every other exception leave the
wave at once, with the other coroutines still running, as `gather` does; after a `DelegationError` the objective is handed back.

`Planning` is what `Supervision` takes as given: how the entries of a model's answer become tasks and edges
(`Plan`: unusable entries left out, ids made, edges read from the first entries), who is asked to do a
task (`Choose`: capabilities are looked for in the first workspace, whichever the task's is, services among those the
task's workspace lists; those who failed it are avoided) and which results a task is told of (`ContextFor`).

### Scheduler

`pc` is the await of one pass: `Tick` reads the clock and what is due,
`FireDue` takes the most overdue, `List` and `Pending` turn to events, `Claim` is the
conditional update of `consume`, and `Receive`, `Mark`, `Record` are `_fire`: the manager
writes the objective down, the schedule moves on, the outcome is recorded as an
event. `QueryFails` is a `StorageError` in one of the queries, which nothing in the loop
catches. `PauseRead`, `PauseSave` and `Delete` are `unschedule` in another process. The
clock only advances by `Advance`, which nothing forces.

### Workflow

`WorkflowEngine.run` over one declaration of `Declarations`: an unknown need, a repeated name or a cycle is
refused by `order_steps`, layer by layer (`ready`, `ordered`). `row` is the run, `steps` what it recorded,
`tasks` the rows the attempts left. An attempt may raise before its task row is written, after the task ended or
between; a step that fails stops the run, or is passed over as declared and those that need it start all the same, without its result.
`SaveFails` is a save of the engine that raises, `Kill` the process.

### ToolCalls, ScreenUse, Integrations, Transport

What an employee's tools reach. In `ToolCalls` several tasks share one directory. `AskModel` offers what is granted and
registered, `Invoke` decides by grant, policies, effect and assessed risk whether the call runs, is refused or
is asked about; only a question lets other tasks in before the tool runs (`RunApproved`). A tool
refused twice in the transcript is withheld from the task.

`ScreenUse` has one guard (brake, budget, region, application in front), one browser and one tab for every task, and a
desktop that is the user's. Only a click has a point, and is refused if that lies outside the region (`Click`); what is typed,
pressed or scrolled goes where the cursor is, which nobody looks at (`Keys`). `Act` looks at the brake and the budget, `Allow` asks
what is in front and counts the action, `Land` is the action after the awaits in between; the first `Look` at the screen cuts the
region down to it. Space is one axis.

`Integrations` is `IntegrationService`: each request is a coroutine split at its awaits over the row, the registry,
the connection held, the server processes and the snapshot of grants. `Change` is the service offering
something else, `CallTool` a call that starts a server lazily after `Restore`.

`Transport` is `StdioTransport` and the `MCPClient` above it. A call takes the lock, starts a server if there is none,
handshakes, writes a numbered request and reads the next line, whatever number it carries. The server is external: it
answers in order after any time, may write lines unasked and may exit. A line too long for `readline` fails the call
(`ReadTooLong`): one that has come whole is dropped, of another what has come, and the rest is the next line, which the
next call reads. `Leave` is the call cut off by its timeout, `Close` the integration taken down.

### Providers, Workspaces, Memory, Knowledge

`Providers` is `ProviderService` and the stores behind it: a connection's key is stored before its row and
forgotten after it, under a name made from the connection's (`Secret`), which two connections may share; a model removed is unrouted row by row, `seed` runs at every start, and a call of a
model is resolved by what this process read when it built its router.

`Workspaces` has several processes over the same rows and the same active file: `declared` is what each was told at its
start and by its own requests. The server creates, updates, removes, lists and switches (`Handlers`), a command does all but
update. A run begins with a request that lists first, in the active workspace (`Declare`), or in one that the request, or
the schedule, names and nobody looks up (`Enter`). Each workspace has a directory of its own beside the ones it was pointed at (`Directory`).
A run's file tools ask for a root on every call (`Touch`).

`Memory` is the recorder beside each task (outcome, plan, lesson, notes), `Consolidator` after it (prune, read, summarise,
fold, forget, each an await) and the rule of who may read what. Which readable item a search ranks first is open.

`Knowledge` cuts one file's text into passages, embeds and replaces them, in transactions of their own. A text is a sequence
of units, each marked with what it ends: nothing (a word), a sentence, a paragraph. A paragraph longer than a passage (`Size`) is cut on its
sentences, a sentence longer than one wherever a passage is full (`Ends`); the last `Overlap` units of a passage begin the next, in
whichever sentence they lie (`Carried`); blank lines between pieces have no length. `torn` remembers the documents deleted while one
client had only the row left to write and another the passages.

### Schema, Migrations, Transfer

`Schema` is the tables as `models.py` declares them. `Migrations` are the twenty-two migrations both ways as the statements
they issue, one action `Execute` for each, with a `Kill` between any two; `db` is what the connection sees, `safe` what a kill
leaves. On PostgreSQL a command is one transaction; on SQLite a migration is, and the driver opens it at the
first statement that changes rows, which is the driver's behaviour and external. Programs of the revision's day write rows between commands, not
during one. A `CREATE INDEX` belongs to the statement of its table.

`Transfer` is `storage-migrate`: `CopyBatch` table by table in the order of foreign keys, `Verify` by the first column of each
key, `Erase` of what was verified. Programs write to whichever store they are pointed at, a backend may fail, and
the command may be killed and given again.

### Validation

`prometheus validate`: a list of scenarios, each prepared (its file put there, removed or left, as declared), begun with its declared answers installed, asked,
judged by the audit and the file it left, and recorded. Its tasks are the calls they make. A call is two steps, since the code awaits between
them: `Ask` is the gate, with the answers declared at that moment, `Run` the tool, whatever was withdrawn meanwhile. An exception
of the door (`Raise`) leaves the other tasks of its wave at work, into the scenarios that follow, until the process ends.
Phrases and ceilings of the answer are checks like the ones kept and are left out.

## What the runs check

A run asks one question of each of its parts. The bounds are in the `.cfg` files.

| Run | Instance | Distinct states |
|---|---|---|
| `EmployeeRuntime` | 2 attempts, 2 entries into the runner, 2 steps, cost 3, 2 calls a response, 2 kills | 32,348 |
| `Approvals` | 2 questions of 2 tasks, 1 late click, all five modes; validation: 4 scenarios, 2 runs, 2 commands, 2 tasks each, 1 call a task, 1 kind of exception | 530,395 |
| `Runs` | a direct task beside an objective with one task; stream: 2 tasks, one outside the plan, 1 watcher, history 3, queue 2, 5 events; page: 2 threads, 2 requests, 2 re-reads | 424,816 |
| `Supervision` | 3 tasks in five shapes, of which one needs nothing anybody offers, 2 employees, both workspaces, 2 at a time, 2 attempts, 2 plans | 1,111,190 |
| `Scheduler` | an interval of 2, a time of day, a follower, clock to 4, 2 events, 1 kill, one edited; migrations: four revisions to ask for, 3 commands, both backends; transfer: 10 rows, batches of 2, 2 writes, 2 failures, 2 moves | 1,052,443 |
| `SchedulerEvents` | 2 loops, 2 schedules of one event beside an interval, clock to 1, 2 events, 1 kill, one edited | 1,330,056 |
| `Workflow` | every relation of needs over three steps and the refused ones; plans of up to 3 entries, 3 employees; transcripts of 3 steps with 2 calls, 4 requests, 3 tries, 1 fault, 1 kill, both wires | 1,199,813 |
| `Surfaces` | 2 calls, 2 servers, 3 requests, 1 unasked line; 2 requests, 2 connections, 1 change; 2 tasks, 2 applications, 2 sizes, 1 action, 2 launches; 2 questions through the bot, 2 presses, any number of kills and polls; 2 files, 2 calls, 3 declarations | 1,873,167 |
| `Providers` | 3 connections of which two share a credential, 1 model, 2 requests, 3 changes, 1 kill; 2 workspaces, a server and a command, 1 run; 2 tasks, threshold 2, batch 1; 2 documents, 3 clients, passages of 3 with an overlap of 1, 3 calls | 1,722,459 |

What the properties say, and what would break them:

| Property | Says | Broken by, for one |
|---|---|---|
| `LossBounded` (EmployeeRuntime) | a kill loses one paid response at most | only the final answer is saved |
| `SpendingCeiling` (EmployeeRuntime) | what a task costs over all its restarts stays below its limit and one call a kill | a second attempt forgets what the first cost |
| `EventuallySettled` (EmployeeRuntime) | every task ends, or stays parked with its process gone | a status is not picked up again |
| `ToldOnceWithConsent` (Approvals) | `Approvals` implements `Consent`: one answer, told once, a yes only after a yes | the timer is not taken down once the answer is in |
| `EveryQuestionEnds` (Approvals) | a question is answered or runs out | only the row's deadline ends the wait |
| `RowsAreClosed` (Approvals) | a row a page shows does not stay pending, also when the process that asked is gone | what is overdue is left out of the list and left as it is |
| `PassesAreEarned` (Approvals) | the file of a scenario that passed was written while it was asked, by it or by a task an earlier run left at work | what is there counts as produced |
| `ConsentIsDeclared` (Approvals) | the yes a guarded tool runs on was given while a scenario that declares it was being asked | answers are withdrawn only when the door returns |
| `NothingForgottenUnheard` (Surfaces) | what the bot API forgot, some call has looked at | the offset passes the whole batch at once |
| `SignalsAreObeyed` (Runs) | a run told to stop stops | the signal is looked at before the first step only |
| `NothingMissed` (Runs) | a watcher is shown, or has waiting, every event about what it watches until its queue overflows, and nothing else | a task the manager announces is not followed |
| `AnswersReachTheScreen` (Runs) | a turn that has its answer does not stay unanswered on screen | the timer waits for the stream to be gone |
| `WorksFromAcceptedResults` (Supervision) | nobody works from a result that is missing or was not accepted | whatever ended COMPLETED succeeded |
| `AnswerEndsTheWork` (Supervision) | after the result nothing of the objective works; after it was handed back only beside a task nobody was found for | the first failure ends the wave |
| `RecordsAgree` (Supervision) | the rows of an objective and its plans tell one story | a plan that fell short keeps its row |
| `ManagerFinishes` (Supervision) | `handle_objective` ends, whatever the shape of the plan | the loop waits until every task has run |
| `EventsActOnce` (SchedulerEvents) | an event is acted on once, by two loops and for two schedules | what was pending when the list was read is claimed without looking again |
| `SchedulesArePickedUp` (Scheduler) | what is due is picked up while its loop lives | a pass looks at the most overdue schedule only |
| `HeadIsDeclared` (Scheduler) | however a database came to the last revision, it has the declared schema and readable names | a renaming passes over one table |
| `IndexHoldsTheRows` (Scheduler) | the text index finds every memory under its present words and none that is gone, and is missing only on SQLite after a kill | a rebuilt index is left to its triggers |
| `OnlyAKillSpoils` (Scheduler) | a migration is refused only after a kill, and on SQLite | the way back narrows a constraint over any rows |
| `ErasedOnlyWhatArrived` (Scheduler) | a row that was verified and erased here had arrived there, of a table with a key of several columns after a copy that went through | equal counts are agreement |
| `StepsFollowTheirNeeds` (Workflow) | no step starts before those it needs are in the saved row, nor behind a failure that stops the run | one finished need makes a step ready |
| `VerdictTellsTheSteps` (Workflow) | the verdict of a run agrees with its steps and its tasks | only the last step's failure ends the run |
| `RedoneOnlyWhenLost` (Workflow) | a step whose task was completed is tried again only if a save that followed raised | a success does not end the attempts |
| `RunsReachAVerdict` (Workflow) | a run ends unless its process or its storage does | an exception is not counted as an attempt |
| `ContextFollowsTheEdges` (Workflow) | a task is told the results of tasks its own entry named | everything known so far is passed on |
| `RequestsAreWhole` (Workflow) | every request is one the provider accepts, after kills, refusals and second attempts | each tool's result is saved as it arrives |
| `CallsReachWhatWasShown` (Workflow) | a call reaches the tool its name stood for in the request | names that come out the same are one name |
| `OwnAnswers` (Surfaces) | a call hears the answer to its own request, while nobody left one behind, nothing unasked was written and no line was too long | the lock is released once the request is written |
| `RegistryFollowsRow` (Surfaces) | tools registered, granted and connected are those of the row, unless requests overlapped | a classification is stored and the registered tool keeps the old one |
| `LandsInside` (Surfaces) | a click lands in the configured region, whenever the screen was first looked at | the real screen takes the region's place |
| `LossesWereAnswered` (Surfaces) | a file is written over only by a call somebody said yes to | the effect alone sets the risk |
| `DeclarationsHold` (Surfaces) | no call outside its grant or policies ran, nor what cannot be taken back without a yes | what asks is looked at before what forbids |
| `RowsHaveTheirKeys` (Providers) | a connection that names a credential of its own finds it, wherever a kill fell | a refused removal forgets the key all the same |
| `OwnFiles` (Providers) | a run's file tools open its workspace's own directory or one that workspace was given, and no other's | the root is the active workspace's |
| `NothingForgottenUntold` (Providers) | a stored outcome is told by some item until it expires | all that was read goes, also what was not summarised |
| `OwnMemoriesOnly` (Providers) | a task is told what its scope allows and nothing else | a query that names no plan is not compared with one |
| `DeletedTextIsSilent` (Providers) | a document taken away answers nothing until it is added again, unless it went between two that wrote it | nothing refuses a passage whose document is gone |
| `NothingCutOut` (Providers) | a stretch of text as long as the overlap and one unit is whole in one passage, after any number of cuts | nothing is carried into the next passage |

Where a module has a `TypeOK` it is its type invariant, and opens the `IndInv` of its proofs.
Further properties are stated in the modules and hold on the same instances without a run of
their own: `SavedBeforeModelCall`, `RejectionsBounded`, `ParkedOnlyWhileAsking`,
`IllegalOnlyAfterInterruption`, `StatusMovesAreDeclared`, `AssignmentFollowsTask` (`EmployeeRuntime`), `TheLogHasTheSpend` (`Conversation`), `OnlyAYesApproves`, `ToldIsRecorded`
(`Approvals`), `OnlyAPressApproves`, `ToldIsRecorded` (`Telegram`), `SignalsHaveRuns`, `ClosedRowsResume` (`Runs`),
`TakenByTheAble` (`Planning`), `WithinBudget` (`ScreenUse`) and `PeriodIsKept` (`Scheduler`), which are all theorems; and `EveryQuestionEnds` (`Telegram`),
`RunsAreBounded` (`Supervision`), `LostPerKill` (`Scheduler`), `EndMeansOver` (`Streams`),
`RefusedIfImpossible` (`Workflow`), `SwitchesSettle`
(`Workspaces`), `CatalogIsTheStore`, `EntriesHaveTheirConnections` (`Providers`) and `NumbersAreFresh` (`Transfer`), which
TLC checked.

### Bounds

The bounds that are the code's own constants keep their values where a small instance allows
(`MAX_ATTEMPTS` 2, `MAX_TASK_ATTEMPTS` 2, `MAX_PLAN_REVISIONS` 2, three tries of a provider, two refusals of a tool); `MaxParallel` is 2 where the
code has 3, so that three tasks still have to wait for a place, and the history, the queue and the audit
are as short as makes them overflow. The cost and step limits
are the smallest with a call left over when a kill, a rejection and a re-entry have each cost
one. `MaxCrashes` 2 allows a kill of a resumed run. Two questions of two tasks show
everything one question does to another (`Release` picks by task, the sweep takes all); two presses are the least that put one question's behind another's, in
one batch or in two; two tasks of a scenario are the least of which one is left at work by the other's exception, and two
runs the least in which what it does then meets a scenario that asks for the file;
`MaxLate` 1 is a click in flight over a row; a second adds nothing but its order. The
register looks at one task at a time, so one registered and one unregistered task are
all its cases. Three tasks are the least that join, fork and chain, and three steps the least that have a layer behind
a layer beside another. Two loops and two schedules of one kind of event are the least that race for one, and no clock beyond a tick is needed for it. The scheduler's clock
to 4 with an interval of 2 and a day of 3 gives three firings of the interval, two of the day,
and a pass that ends late. Revisions 0, 7, 14 and 22 are asked for because the tables that are copied and
renamed lie between them; three commands are a way up, a way back and a second way up, or a killed one and its
repetition. Ten rows are the least with a table of each kind of key, a batch that is full and one that
is not, and rows that refer to others; two failures are one of a copy and one of a verification. Three clients of two
documents are the least of whom one deletes while two others write. The text has sentences as long as the overlap, longer, and
longer than a passage, in paragraphs that fit a passage and in one that does not. A third connection with a name of its own stands beside
two that share a credential. Two calls on one line are the least that may answer one another,
and a third request meets a server with an answer left over. The theorems hold without any of these bounds.

`Surfaces` and `Providers` check invariants alone, up to `Exchanged`: two calls, requests, tasks and questions of the one, the
two connections of one credential and the two documents of the other are named by nothing but themselves, and as no part has
another's they may all be exchanged at once. The second model of a catalog is in `ProvidersRouted`.

### Fairness

Weak fairness of a coroutine's steps: the asyncio loop schedules what can run, and
every await in the modelled code has a deadline (model calls, tools, questions).
`Resume` is weakly fair in `EmployeeRuntime`: the person who saw the process die runs
`prometheus resume`. In `Approvals` a deadline passes, and the page keeps reading its list;
nobody has to click, except at a terminal, where the read has no deadline. In `Telegram` the sending
of the message ends by httpx's timeout and the wait for an answer by `wait_for`'s; nobody has to press. `Runs` needs
strong fairness of `Obey`: the loop looks at the signal once a turn, and a run that parks and
returns for ever is stopped at one of those looks. `ChatPage` has weak fairness of `Poll`, the page's timer, and strong
fairness of `Arrive`: re-reads may be lost, but not all of them for ever. `Workflow` has it of the engine alone, `Scheduler` of each loop. Nothing is
assumed of kills, restarts, the clock, the servers and services outside, or anyone's clicks. In a sum, a part's fairness is of
the part's own actions.

## What is proved

A module of proofs is about one component or about all the parts of a sum; where it is about a sum it ends with the
composition the run checks (`PartsMoveAlone`: each part moves there as it would alone; `...AreSafe`: so its properties hold).

| Module | Theorems | Rest on |
|---|---|---|
| `EmployeeRuntimeProofs` | `RunInvariant`, and from it `TypeCorrect`, `SavedBeforeCalling`, `KillLosesOneResponse`, `BudgetSurvivesRestarts`, `SentBackOnce`, `UninterruptedIsLegal`, `QuestionGivesStatusBack`, `AssignmentClosedWithTask`; `Refinement` of `TaskLifecycle` | `ConstantsAssumption` |
| `ApprovalsProofs` | `QuestionInvariant`, `NothingElseApproves`, `RowSaysWhatWasTold`, `LocalKeepsConsent` (refinement of `Consent`); of `Validation` `OnlyDeclaredAnswers`, `PassedRunsWrote`; `ApprovalsAreSafe` | `TaskOfAssumption`, `MaxLateAssumption`, `ErrorsAreKinds` |
| `RunsProofs` | `RegisterInvariant`, `SignalsEndWithTheirRun`, `ShutdownIsResumable`; of `Streams` `WatchersAreTold`; `RunsAreSafe` | `RunsAssumption`, `StreamsAssumption` |
| `SupervisionProofs` | `SupervisionInvariant`, `NobodyWorksFromNothing`, `TheAnswerIsTheEnd`, `RowsTellOneStory` | `SupervisionAssumption` |
| `SchedulerProofs` | `SchedulerInvariant`, `EventsAreActedOnOnce` for any number of loops; `PeriodsAreTracked`, `PeriodsAreKept` for one loop; of `Transfer` `TheErasedHadArrived`; of `Migrations` `IndexIsTheRows`, `LastRevisionIsDeclared`, `NothingElseSpoils`; `StandingWorkIsSafe` | `RecurrenceAssumption`, `NobodyAssumption`, `BoundsAssumption`, `ItemsAssumption`, `HistoryAssumption` |
| `WorkflowProofs` | `EngineInvariant`, `NothingStartsOnAGap`, `VerdictsAreTrue`, `DoneOnce`; of `Planning` `ContextIsDeclared`, `TheAbleAreChosen`; of `Conversation` `RequestsAreAccepted`, `CallsReachTheirTools`, `SpendingIsOnRecord`; `WorkflowsAreSafe` | `DeclarationsAssumption`, `AnswersAssumption`, `ToolsAssumption` |
| `SurfacesProofs` | of `Transport` `AnswersAreOwn`; of `Integrations` `RegistryIsTheRow`; of `ScreenUse` `ClicksLandInside`, `ActionsAreCounted`; of `Telegram` `BotKeepsConsent` (refinement of `Consent`), `PressesAreLookedAt`, `RowSaysWhatWasTold`; of `ToolCalls` `LossesAreAgreedTo`, `DeclarationsAreKept`; `SurfacesAreSafe` | `TransportAssumption`, `ServiceAssumption`, `ScreenAssumption`, `PressesAssumption` |
| `ProvidersProofs` | of `Providers` `RowsFindTheirKeys`; of `Workspaces` `FilesAreOwn`; of `Memory` `OutcomesStayTold`, `MemoriesAreOwn`; of `Knowledge` `DeletedStaysSilent`, `NothingIsCutOut`; `ProvidersAreSafe` | `ProvidersAssumption`, `PlacesAssumption`, `TextAssumption`, `LengthsAssumption` |

The assumptions say what kind of value a constant is (a bound is a number, a table of owners has an owner for each, a
placeholder is not one of the things) and, where it matters, what the code takes for granted: `DeclarationsAssumption` that a
step has the fields the loader gives it, `RecurrenceAssumption` that an interval is not zero, `ItemsAssumption` that a key of
one column is a key, `ToolsAssumption` that names on the wire are sequences, which a suffix makes longer,
`TextAssumption` that a file has text, which the service sees to, `LengthsAssumption` that two overlaps fit in a passage
(`chunking.py`: 160 and 1200), `ErrorsAreKinds` that every exception is some kind of failure, `HistoryAssumption` that alembic
is run on one of two backends and asked for a revision it knows.

Each theorem rests on an inductive strengthening of the property, because the property alone
says too little of what the next step reads. The arguments, in a sentence or two each:

- **EmployeeRuntime.** The copy is never ahead of the row but inside a step
  (`CopyAheadOfRow`); so a kill loses one call, `paid` exceeds the saved cost by one per
  kill at most (`SpendingKept`), and a rejection is uncounted once per interruption
  (`RejectionsCounted`). The two copies of the status never differ (`StatusInSync`), which
  makes each save a declared move; until something interrupts the run the status is a
  function of the place (`StatusTellsPlace`).
- **Approvals.** A future says yes only after a click and a call has a verdict exactly when
  it no longer waits (`AnswersAccountedFor`).
- **Validation.** Answers stand in front of the gate only while their scenario is being asked
  (`AnswersStandWhileAsking`), so a call that is let through was declared, whenever its tool runs; and the mark taken of a file before it
  asks is one that nothing written since has, so a file with another was written meanwhile, by a task of the run or by one that an
  earlier run left (`MarksTellApart`).
- **Runs.** Who is registered works, and who works unregistered is inside an
  objective's live coroutine (`LoopsAccountedFor`); a parked row has a parked
  loop (`ParkedRowsHaveLoops`); closing leaves neither (`ClosingStopsAll`).
- **Streams.** What a watcher must be told lies in three places: what it follows and has replayed was seen or is
  queued (`FollowedAreTold`), what it has still to replay is remembered, and of a task it has not heard of every event waits
  behind the one that names it (`LaterOnesWait`).
- **Supervision.** What the loop believes of its wave is true of it (`LoopKnowsItsWave`), and rows
  and coroutines are where the stage says (`StagesAreKept`): after the end nobody works, or the objective was handed back for
  a task nobody was found for.
- **Scheduler.** An event is open until one loop stamps it, that loop alone is about to
  act on it, and acting leaves it stamped (`ClaimsAreExclusive`). Every enabled
  row and every copy a pass still holds is due a whole recurrence after the last
  firing, and a pass fires only what was due by the moment it read (`PeriodInv`). With two loops
  `PeriodIsKept` is false: both may read a due row before either marks it. The program
  starts one.
- **Transfer.** A row found by its whole key is compared itself. Of a table with a key of several columns a copy that went
  through leaves no row there that is not here (`CopyReplaces`, `CopiesAreSettled`), so that equal counts are equal rows;
  and what agreed goes on agreeing until the answer, because a row there changes only when a program writes it
  there (`AgreedHadArrived`).
- **Migrations.** Only statements about `memory_items` touch its rows or its index. Each list of statements, of all
  twenty-two both ways, has them in an order (`Orderly`) in which a table is rebuilt without its index, and a new index is
  filled next; in between SQLite's transaction is open, or there are no rows (`Ready`). So what a kill leaves (`safe`) is
  as whole as what a command began with, or, between the two statements and on SQLite, without the index (`IndexInv`). The rest of the schema is the work of
  all twenty-two: together they make thirty-one tables, later columns and text indexes, one after the other, and going back
  unmakes the last first (`Makes`, `Unmakes`). So a database is told by a number, how many of them it has, and by a shape,
  what its two constraints accept and what names, scopes and copies its rows may have (`Fits`). Number and shape are given
  for every revision (`Size`, `Rest`) and for every place in every list (`Age`, `ShapeAt`), and a statement takes each to the
  next (`StepsFit`), so that an unkilled command is never refused and the last revision has all thirty-one. After
  a kill on SQLite the database fits, loosely, or has a table or a copy that its revision should not have (`Stuck`);
  then the statement that is refused for it is still ahead (`StuckOn`), and no command gets past it (`HistoryInv`).
- **Workflow.** The properties relate rows, and rows say nothing of the order or of the await the engine is
  at. The order holds steps once and each behind its needs (`Order`); from its first save the row is the engine's
  copy (`RowIsRun`); the recorded steps are the first of the order, and one that failed and stops the run
  is the last of them (`StepsInOrder`); every task belongs to a recorded step or to the one under
  way, and a success about to be recorded is in the task's row (`TasksBelong`). While a step is tried, a task of it that was
  completed is one whose save was followed by one that raised (`TriedInTurn`).
- **Planning.** Edges lead where an entry named, and results travel along edges (`PlanAsRead`).
- **Conversation.** What a transcript leaves unanswered is what the step under way has still to call, and nothing at every
  other await and in every row (`TalkIsWhole`). The turns made of a transcript leave open what it leaves unanswered
  (`TurnsTold`), shown turn by turn along the joining; so a request, which is made when nothing is unanswered, alternates
  and answers every call. There are more suffixes than tools before this one, so one is free, names on the
  wire are apart, and a call is taken for its own tool (`CallsAreTakenAtTheirNames`). An answer is logged before it is in the
  transcript (`SpendIsLogged`).
- **Transport.** Whoever reads holds the lock, alone (`LockIsTheReaders`); the pipes of a server nobody
  left a request behind at, and of which no line was too long, hold exactly the one line the reader waits for, or are quiet when nobody
  reads (`PipesHoldTheRequest`); and a server is never started again (`ServersAreNumbered`). So the next
  line is the reader's, although its number is not looked at.
- **Integrations.** A request that is alone has established, at each of its awaits, what it relies on behind the
  next (`Reached`), and the last of them leaves registry, row and grants agreeing (`Settled`).
- **ScreenUse.** What is left of the region lies in the configured one (`RegionShrinks`), a click was in it before its
  awaits (`PointsAreInside`), and one task at most is between looking at the budget and claiming it (`BudgetIsClaimed`).
- **Telegram.** The shared offset, the offsets of polls under way and what the bot API forgot
  never pass what some call has looked at (`OffsetsAreHeard`); a verdict of yes was pressed
  (`VerdictsArePressed`). A step that gives a call its verdict is therefore a step of `Consent`, and
  so is a press; every other step is a stutter.
- **ToolCalls.** A call that waits for a person, or has its yes, was declared when it was asked about
  (`CallsAreDeclared`), and what nobody was asked about cannot lose anything (`Harmless`).
- **Providers.** A key that no other connection shares is there before the row that names it and goes after it (`RowsComeLast`), and
  a removal is the only request that takes one (`RemovedAlone`).
- **Workspaces.** Whatever rows a process was told of, in whatever order the answers came, name directories the
  workspace was given at some time, or its own (`ViewsWereGiven`).
- **Memory.** A summary is stored before what it folds is forgotten (`SummariesComeFirst`), and does not grow old;
  an item of narrow scope was written by one inside it (`ItemsAreScoped`).
- **Knowledge.** A deleted document has its row again only when nobody is left to write passages (`GoneIsEmpty`).
  Everybody who writes a document agrees with its row and with the others which text it is of (`OneText`), and has it whole
  when it is cut, whatever joined and cut it before (`PassagesAreWhole`). That a cut keeps every stretch of an overlap and one unit is an
  induction over its pieces: what begins in the passages so far stands in one of them or reaches beyond the last, and what
  reaches beyond the last is carried into the next (`IsCutting`).

Four of these proofs go by induction over a list, of names, messages, pieces or passages. The recursive functions
of the model are defined by well-founded recursion, and an induction is a search for the least number that breaks the claim
(`Least`, `UpTo`): it needs no theorem with an operator for a parameter.

Two proofs failed for a reason and changed what is stated: `ErasedOnlyWhatArrived` held of tables with a key of several
columns only while nothing went wrong (run `SchedulerErased`), and `DeletedTextIsSilent` was false of three
clients, one more than the run had (`SilentForEverybody`).

Only model-checked:

- everything under fairness (`EventuallySettled`, both `EveryQuestionEnds`, `RowsAreClosed`, `SignalsAreObeyed`, `AnswersReachTheScreen`,
  `ManagerFinishes`, `SchedulesArePickedUp`, `RunsReachAVerdict`): the prover reasons neither about weak fairness through
  `ENABLED` nor by induction over data;
- `RunsAreBounded` and `LostPerKill`, which count the elements of sets, and the properties listed above as stated
  without a run of their own;
- `ChatPage`, whose property is one of liveness.

## Promises the code does not keep

Three runs end in a counterexample, one property each:

- `ProvidersRouted` (`RoutedByConnection`). `factory.py` says that "a catalog entry names a connection,
  the connection names a credential and an address, and the value is resolved here". `router.py` builds its choice
  without the connection, so every model is called with the machine's own key and address.
- `SchedulerErased` (`KeyOfSeveralColumnsArrived`). "Counts first because a missing table is worth saying plainly, then
  the rows themselves by primary key", says `transfer.py`; the rows are looked up by the first column of the key. Of the
  dependencies of one plan one is compared, and after a copy whose problems were printed the others are erased unseen. The
  proof of `ErasedOnlyWhatArrived` found it: what it needed of those tables is not so.
- `SupervisionEscalated` (`NeighboursAreFinished`). "Its neighbours in this wave are already finished and their results
  stand", says `supervisor.py` of a task that stops the plan. Declarations belong to the first workspace, and in another a task
  that needs no capability finds nobody; the objective is handed back at once, and a neighbour somebody was found for works on
  under it, for a result nobody reads.

More promises are stated in the modules under "What the documentation says and the code
does not", each with the line it quotes; TLC refutes each on the instances above, and no run repeats it. Two need another
bound: `WithheldToolsStay` three calls, and `OldestGoFirst` a threshold of 1 with the manager in the workspace of the tasks:

| Module | Property | What happens instead |
|---|---|---|
| `EmployeeRuntime` | `PickedUpLegally` | a run killed while its result is verified is resumed, asks for VERIFYING -> VERIFYING, which the table forbids, and is marked FAILED |
| | `EventuallyTerminal` | a task killed while it waits for approval keeps WAITING_FOR_APPROVAL, which `list_resumable` does not select |
| `Conversation` | `HistoryIsPossible` | with one of two tools of one wire name withheld, the other takes its name and the history shows both under it |
| | `TheModelIsNotAskedTwice` | a task killed between its final answer and the verdict asks the model to go on from that answer |
| | `ChargedIsLogged` | an answer that came too late is asked for again, charged twice and logged once |
| `Approvals` | `DecisionStands` | `resolve` reads PENDING, the call times out and the row is concluded, and the decision is saved over it |
| | `StoppedTasksWaitForNobody` | a question asked after `cancel` released the task's questions, before the run sees the signal, waits for its timeout |
| `Telegram` | `PressesFindTheirCall` | one question's poll consumes the press that answers another, which then waits until it expires |
| `Runs` | `OnlyItsOwnTasksStop` | `cancel_objective` signals everything in the register: the tasks no objective started |
| | `OutcomesStand` | `cancel` saves CANCELLED over a row read before an await; a run that completed in between is reported as cancelled |
| | `IdleHasNoLoop` | `cancel` writes CANCELLED underneath a task an objective runs; its next save puts RUNNING back |
| | `StoppedObjectivesKeepWork` | the tasks of a stopped objective are interrupted where they await and keep the status they had |
| `Streams` | `EveryTaskItStarts` | a further attempt is announced before its row is there, and who comes between never hears of it |
| | `SaidEndsTheStream` | the RESULT is the event a full queue had no room for |
| `ChatPage` | `FrameSays` | a thread that cannot be read leaves the old one on screen, and what is said next goes there |
| | `TurnsStay` | a re-read that left before a request was stored takes its turn off the screen |
| | `TraceOfTheWaiting` | the trace shown is of a turn nothing will answer |
| `Supervision` | `TimeoutsAreRetried` | `_TRANSIENT_ERRORS` names `ProviderTimeoutError`, adapters raise `TimeoutError`: planned around, never retried |
| | `ObjectivesEnd` | an exception other than `DelegationError` leaves the objective open, and `resume` never looks at objectives |
| | `WaveResultsAreKept` | when it does, the results of the rest of the wave are lost with it |
| | `RetriedBySameEmployee` | a transient failure goes to whomever the coordinator picks next |
| | `StopsAreNotReplanned` | only the first failure in plan order decides; a task a person stopped behind it is planned around |
| `Planning` | `SomebodyTakesIt` | an objective of a second workspace is escalated for want of an employee on a machine that has some |
| | `StartsAfterWhatItNamed` | an unusable entry cuts off the edges of the last tasks, which start before what they need |
| `Scheduler` | `PausesHold` | `_fire` upserts the copy the pass read: a schedule paused or deleted meanwhile is enabled or inserted again |
| `Workflow` | `TasksAreAttributed` | after a kill, earlier attempts and the task under way are in no row |
| | `LastTaskIsNamed` | when the last attempt raises, the index keeps the task of an earlier one |
| | `StoppedStaysStopped` | a step a person stopped is started again as a new task |
| `Transport` | `AnswersAreMatched` | after a timeout the late answer goes to the next request, and every later one is behind by one |
| | `OneServer` | two calls that connect at once start two servers, and one is never stopped |
| | `DeadServersAreReplaced` | a client whose server exited believes it is connected |
| `Integrations` | `NothingLeftBehind` | connecting again unregisters nothing the service no longer offers |
| | `ServersAreHeld` | a connection made again, or whose discovery failed, leaves a server nobody holds |
| | `CredentialsReachServers` | a restored connection starts its server lazily, and without credentials |
| | `OnlyAPersonClassifies` | a connect that read the record earlier saves the old classification over a person's |
| `ScreenUse` | `EverythingLandsInside` | what is typed, pressed or scrolled goes where the cursor is |
| | `FrontIsAllowed` | the user brings another window to the front after it was asked |
| | `NothingLandsStopped` | what was let through before the brake lands after it |
| | `ClicksLandOnWhatWasShown` | another task opened a page in the same tab |
| | `OneEngine` | two first calls launch two browsers |
| `ToolCalls` | `LossesWereTold` | a person said yes to a new file, which another task created meanwhile |
| | `WithheldToolsStay` | a withheld tool is not offered, and carried out when called |
| | `RemovedToolsStay` | a call parked on a person runs on the tool it looked up before the removal |
| `Providers` | `ChangesTakeEffect` | the running process keeps what its router was built from |
| | `OneCredentialEach` | two names that differ in case, a dash or a space share a credential, and removing either forgets it |
| | `SeededOnce` | an entry a person removed is seeded again at the next start |
| | `KeysAreForgotten` | a kill between the row and the key leaves the key |
| `Workspaces` | `RunsKeepTheirRoot` | the root moves when the workspace is pointed elsewhere or removed |
| | `ToldOfTheRows` | of two lists that overlap the older is declared last |
| | `ActiveExists` | a switch that looked the workspace up before it was removed names it afterwards |
| `Memory` | `FoldedOnce` | two consolidations that read before either forgot fold the same batch |
| | `OldestGoFirst` | beyond twice the threshold the ranking drops the oldest before they are sorted |
| | `EveryOutcomeIsWritten` | a kill between the last save and the recorder leaves nothing that would record it |
| `Knowledge` | `OneVersionOfAFile` | a file corrected and added again is another document, beside the old one |
| | `SentencesStayTogether` | 160 characters are carried into the next passage, of a longer sentence its end |
| | `SilentForEverybody` | a document goes while one request has its row left to write and another its passages: the row comes back, then they do |
| | `OneDocumentPerText` | two that look before either saves are two |
| | `IndexedMeansEmbedded` | of two that index one document, one replaces the passages last and the other the row |
| | `ExtractedMeansStored` | a process that ends while it embeds leaves a row with no text |
| | `CutTheSame` | a reindex joins the overlaps as if they were text, and there are more each time |
| `Migrations` | `UpgradesCanBeRepeated` | on SQLite a migration killed after its first CREATE TABLE is refused for ever |
| | `IndexSurvives` | on SQLite a rebuild killed between its statements leaves the memories in their table and no index to find them by |
| | `HeadIsWhole` | on SQLite a downgrade killed after a DROP TABLE, and undone, leaves the last revision without the table |
| `Transfer` | `NothingErasedUncopied` | a program writes here between the verification and the answer to the question |
| | `CopyEndsWithTheSource` | a second copy may not replace rows others refer to; a second batch of a composite key deletes the first |
| | `WorkIsKept` | the command run again with the old setting replaces what was written at the new store |
| `Validation` | `CreditedWhereDue` | times of modification do not tell a run's tasks from one that an earlier scenario left at work |
| | `ConsentEndsWithTheRun` | a yes is given some awaits before the tool runs, and the run may end in between |
| | `ForbiddenNeverRan` | a task that was tried again is not among those the evidence is read of |
| | `RegressionIsKept` | a scenario falls out of the regression set once as many runs of others follow as are read |
| | `RefusalsAreSeen` | of a request made in another workspace the audit is not asked there |

Met while reading, and stated by no property: notes are repeated after a resume (`note_step` counts from 0
again); `memory --prune` prunes the default workspace while it lists the active one; the text search of memories ranks
across workspaces before it filters by one; an embedding client is kept for the life of a process; the CLI
concludes that a move is verified although problems of the copy were printed; an index on
integrations is in migration 013 and not in `models.py`; an exception in preparing, evidence or recording ends the
whole of `validate`, where `harness.py` says a failure never stops the rest; a call log that cannot be written fails the run.

## What is not modelled

- The wall clock of an execution (`max_seconds`): a resume starts it again (`executor.py:165`), so a task may take longer
  than its limit by any number of restarts.
- Two carriers of one row: `resume` beside a running server picks up what it is running, because nothing claims a row
  (`task_runner.py:212`). `EmployeeRuntime` has one carrier at a time, and its properties are of one.
- Read models (`views.py`), reports, prompts, intents and wording; validation of arguments against schemas; parsers of file
  formats and declarations.
- The numbers of an embedding and the ranking of a search (what it may choose from is modelled), prices, streaming of tokens.
- Encryption and the keyring, pixels and key codes, HTTP and command-line plumbing, other pages
  of the desktop application and the Rust shell that starts a process: I/O and layout.
- Tests, docs and data, which are quoted where a property states what they say.
