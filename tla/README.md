# A TLA+ model of deltachat-assistantbot

The bot is a Go program: it reads Delta Chat messages through an RPC server,
decides with a language model whether and what to answer, keeps a memory of each
chat in SQLite (messages, topics, participants' profiles, lists, reminders) and
delivers reminders. This directory specifies the parts of it whose correctness
rests on concurrency, failure, timing or arithmetic, checks them with TLC on
small instances and proves the most important properties with TLAPS for every
value of the constants. Paths below are relative to
`src/lib/assistantbot-core/` unless they begin with `src/` or `README`.

## 1. Inventory

| Part | Source | State | Operations | Interacts with |
|---|---|---|---|---|
| Transport | `src/internal/deltachat/rpc.go` | RPC connection, account | event loop: new, updated, deleted message, location; `SendText` | calls App's handlers one at a time |
| App | `app/app.go` | none but the parts below | `startMessageProcessing`, `handleMessageUpdated`, `handleMessageDeleted`, `handleMessageProcessing`, `finishMessageMemory`, `handleLocationUpdated` | a goroutine per message, another for its background update, another per deletion |
| messageProcessor | `app/processor.go` | `sync.Map` message -> `messageState` (revision, deleted, three cancel functions, token) | `begin`, `release`, `onUpdated`, `onDeleted`, `memoryContext`, `replyContext` | shared by the event loop and the goroutines of App |
| Lanes | `app/chat_memory_lock.go` | `sync.Map` chat -> two workers; a bounded channel and a loop goroutine each | `runPrepare`, `runBackground` | serialize the memory work of a chat |
| Memory pipeline | `memory/pipeline.go` | none | `PrepareForReply`, `ProcessMessageUpdate`, `ProcessMessageDelete`, `ProcessOutboundMessage`, `DeliverDueReminders` | topics, profiles, tools, store, model |
| Topics | `memory/topic_manager.go` | the topics table | assign, update, patch after an edit or deletion | read-modify-write around a model call, on both lanes |
| Profiles, locations | `memory/profile_manager.go`, `memory/location_resolver.go` | the profiles table | patch from a message; a participant's location and time zone | profiles are shared by all chats |
| Tools | `memory/tools.go`, `list_tools.go`, `reminder_update.go`, `reminder_recurrence.go` | lists and reminders tables | notes and lists, set/update/cancel a reminder | called by the model, inside any reply, on no lane |
| Recurrence | `reminders/recurrence.go` | pure | `NextDue` | scheduler and tools |
| Scheduler | `scheduler/reminders.go` | a ticker | `RunReminders` | calls `DeliverDueReminders` |
| Store | `storage/` | SQLite, one connection | upserts, deletes, trimming, vector search, reminders | everything above |
| Reply service | `reply/` | none | `Decide`: classify, generate | model, tools |
| LLM client | `llm/` | options | chat, chat with tools, retries, embeddings | tools, MCP |
| MCP client | `mcpclient/` | the valid entries of a file; sessions, tool routes, listed tools | `Validate`, `Connect`, `ExecuteTool`, `Close` | LLM client |
| Wiring | `src/cmd/bot`, `src/internal/runner` | the store, the registry, the metrics server, the program's context | `NewFromConfig`, cleanup, `runBot` | starts and ends all of the above |
| Metrics, prompts | `metrics/`, `llm/prompts/` | counters, templates | count, render | - |

What is hard in it, and where it bites, is listed line by line under `hazards` in
`PROJECT.json`, each with the properties that would catch it going wrong. Where the code simply
loses a race - an edit between the last check and the send, an update of a reminder while it is
delivered, two writers of one topic or profile, two calls on one list - and nothing in
the repository promises otherwise, the models do it too, the properties name it as
their exception, and the hazard has a note instead. In short:

* a message may be edited, deleted or announced again while three goroutines work
  on it, and reaches them only through contexts and a revision number, in a map
  from which the state is removed before the work is done;
* two lanes per chat, created by whoever comes first, with callers that give up;
* reminders are read, worked on for as long as a model call takes, and written
  back, by a scheduler and by tools that know nothing of each other; the program
  may crash in between;
* calendar arithmetic: short months, the fifth Friday, changes of clocks;
* the tools of two replies work on one list at once, with a remote embedding
  between reading it and storing its vector, while the replies are retried and
  cancelled;
* topics and profiles are read, given to the model and written back whole by both
  lanes of a chat, by the lanes of other chats and by the event loop;
* a message and its vector share a rowid that SQLite gives out again, and nothing
  but three statements of the store keeps the two tables together;
* tool servers fail half way through listing their tools, and are taken out by a
  prefix of names that another server's names may have too;
* the program goes down while its workers still call tools: `Run` waits for none of them.

## 2. Modules

`MC*` modules only give TLC its instances; `*_proofs` hold theorems.

| Module | Models | Extends / uses |
|---|---|---|
| `SerialLanes` | abstract: FIFO lanes that execute one job at a time | - |
| `ChatMemoryLanes` | `app/chat_memory_lock.go`, shown to implement `SerialLanes` | `INSTANCE SerialLanes` |
| `MessageProcessing` | `app/app.go`, `app/processor.go`, and the stored message as `memory/pipeline.go` and the store leave it | `INSTANCE SerialLanes` for the lanes |
| `Recurrence` | `reminders/recurrence.go` as pure operators | - |
| `RecurrenceSeries` | the life of one series that nobody touches | `Recurrence` |
| `Reminders` | the reminders table, the scheduler and the reminder tools | `Recurrence` |
| `Lists` | `memory/list_tools.go`, `list_indexer.go`, `addNote`, and lists in the store | - |
| `ReplyTools` | `ChatWithTools` (`llm/client.go`) and `llm/retry.go`, whose tool calls are those of `Lists` | `Lists` |
| `MessageTable` | the tables `messages` and `vec_messages` of `storage/store.go`: upsert with trimming, deletion, search | - |
| `ChatMemory` | `memory/pipeline.go`, `topic_manager.go`, `profile_manager.go`, `location_resolver.go` statement by statement, for all lanes and the event loop | `MessageTable` |
| `ToolConfig` | `Validate` of `mcpclient/config.go` as pure operators | - |
| `ToolServers` | `mcpclient/registry.go`: `Connect`, removal by prefix, `Close` | `ToolConfig` |
| `Program` | `src/cmd/bot/main.go`, `src/internal/runner`, `Run` of `src/internal/deltachat/rpc.go`, `ExecuteTool` | `ToolServers` |

Three modules look at one part from two distances. `MessageProcessing` follows the
contexts and revisions of a message and takes what a lane's function does to the
store as one write; `ChatMemory` opens that write up into its statements and takes
when it starts as given. `Lists` is what tools do, `ReplyTools` the loop that calls
them. `ToolServers` is the registry's state and transitions, `Program` says which
goroutine makes them and when.

Where a definition is preceded by a variant that no action uses (`SharedWorkerFor`
before `WorkerFor`, `FromItsDueTime` before `FollowingDue`), the variant is a plausible bug:
put in place of the definition it violates the property `PROJECT.json` pairs it
with under `mutants`.

### ChatMemoryLanes

A *call* is one goroutine inside `chatMemoryWorker.run` together with its task.
Each channel operation, each `sync.Map` operation and each `sync.Once` is a step
of its own: `Call` is `runPrepare`/`runBackground` with the `Load` of `lanesFor`,
`Create` its `LoadOrStore`, `Offer` and `Leave` the two branches of the first
`select` of `run`, `Receive`
and `Leave` those of the second, `Take`, `Drop` and `Finish` the loop, `Cancel`
the end of a caller's context at any time. A call without a chat runs its
function directly, as the code does. The refinement mapping (end of the module)
sends a lane to the channel and the loops of the *registered* worker of its chat.

### MessageProcessing

A *run* is a new-message event with the goroutine it starts. The event loop's
handlers (`NewMessage`, `MessageUpdated`, `MessageDeleted`) are one step each, as
the loop handles one event at a time; a run's goroutine interleaves with them
between any two accesses to shared state: `BeginLoad` and `BeginLock` are
`begin` before and under the state's mutex (the gap between `LoadOrStore` and
`Lock` matters), `ReleaseLock` and `ReleaseForget` are `release` under the mutex
and its `Delete` from the map. The background goroutine of a run has the program
counter `fpc`, a deletion's goroutine `dpc`. A text is the number of edits it has
seen. Contexts are the sets of runs whose run, reply or memory context is
cancelled. The lanes are those of `SerialLanes`; every prepare attempt is a job.
The store holds the version of each message and which replies are recorded; a
write under a cancelled context fails, as `database/sql` fails it.
A deletion's job removes the row (`DeleteRemove`) or fails before that
(`DeleteFail`: `dpc` is then `failed`, the message stays stored, and nobody asks for its
deletion again); whether the patches after the removal succeed changes nothing here.
`handleMessageProcessing` is followed on the transport's path, where the run ends
before its background update does.

### Recurrence and RecurrenceSeries

Times are wall-clock hours in the rule's zone from Monday, January 1st, 2024; a
zone is one interval of summer time, and what Go compares are instants. The
searches of the code (a loop over candidates, first match after `after`) become a
set of candidates and its least element; the loops' limits are constants.
`RecurrenceSeries` delivers a series, in time or late, and compares every
`NextDue` with a definition of what the rule means that makes no search:
membership of a time in the schedule (`Intended`), and no such time in between.
Leap years follow the four-year rule, which is right from 1901 to 2099.

### Reminders

`Pass`, with `tick` and `ticker`, is time and the ticker's channel of capacity
one; `Fetch` is `DueReminders`; `TakeNext`, `Render`, `Send`, `Advance` are the
steps of the loop in `DeliverDueReminders`, between which the tools may run;
`Set`, `Read`/`Write` (an update reads a row and writes it back whole) and
`CancelReminder` are the tools; `Crash` loses everything but the table.
Four history variables record what properties speak of: texts sent, deliveries
whose advance was lost, the tick that delivered last, and rows that were written
from an outdated copy (`stale`). No action reads them. Rules are of any frequency; the
`reminders` run takes a fixed one, since what calendar rules add is in `RecurrenceSeries` and
in the proofs.

### Lists and ReplyTools

A tool call is a program counter per reply (`tpc`) with the locals of the Go
functions: `Find` is `FindListByTitle`, `Create` the rest of `findOrCreateList`
(and of `addNote`), `Add` one `AddListItem`, `Resolve` `resolveListItemIDs`,
`Mutate` the one statement of `DeleteListItems` or `SetListItemsDone` with the
comparison of counts after it, `Scan` and `Index` what `Reindex` does before and after the
embedding, `Fail` an error in any of them. Between two statements any other call
may run. A vector is modelled by what it was made from: every entry of
the list with its mark, as often as it is there. `ReplyTools` is the caller: `phase`
says where a reply is in `withModelRetry` and `chatWithToolsForModel`;
`RequestFails`, `Empty`, `Text` and `ToolCalls` are the outcomes of a request,
`CallTool` and `ToolReturns` the loop over the calls of a turn, `RetryTimer` and
`RetryCancelled` the branches of the `select` between two attempts. `alone` and
`disturbed` record whether a list's last change met another one or failed;
`late` counts requests begun after the context was cancelled. No action's guard
reads them.

### MessageTable and ChatMemory

`rows` and `vecs` are the two tables by rowid. `UpsertMessage` and `DeleteMessage`
are one transaction each and are the store's: an upsert keeps the rowid of a message
that is there, else takes one more than the greatest in use; a vector is replaced only
if the call has an embedding; then all but the last `Limit` messages of the chat go,
with their vectors, in the order of `sent_at` as a text (`TextBefore`).
`NearestMessages` is the join by rowid (`Nearest`).

A worker is a lane of a chat or the event loop, with one `job` at a time; its label
`at` is the next access to the database: `AssignByReply`, `AssignByModel`,
`NewTopic`, `AssignNone` are the ways through `AssignTopic`; `WriteTopic`,
`WriteMessage`, `WriteProfile` the upserts; `FindForUpdate` and `FindForDelete` what
`ProcessMessageUpdate` and `ProcessMessageDelete` look up before they choose a path;
`Patch` and `ReadProfile` a document's read before the model is asked. `Stop` ends a
job at any of these. A document (`docs`) is the set of facts that are only ever added
to it. In `since` a worker keeps who has written its document after it was read: a
history, read by no guard. `StartPrepare`, `StartUpdate`, `StartDelete` start jobs as
`MessageProcessing` does with one run per message.

### ToolConfig, ToolServers and Program

A field of a file's entry is not given, blank, bad or good; `Validate` is the
conjunction of the code's checks per type. Of a valid entry `Connect` uses the type, the
tool and the filter. `Dial` opens a session; `ListTools` and `ListFails` are the
listing that succeeds, or fails after any of the tools, when
`removeToolsForServer` takes out whatever begins with the prefix. A name is what the
constant `NameOf` makes of an id and a tool: that ids may hold `__`
(`mcpclient/config.go:16`) makes `a` with the tool `b__t` and `a__b` with `t` one name.

In `Program`, `main` is where the main goroutine is: the steps of `NewFromConfig` in
their order, `Run`'s start (`StartTransport`), its `select` (`ReturnFromRun`), the
cleanup (`StartCleanup`, and `Exit` once `closers` is empty). `runner` is the goroutine in
`bot.Run`. Cleanup's goroutines are `closers`; `Registry.Close` closes the sessions
one at a time and then clears the map (`StartClear`, `EndClear`: the reads of
`GetSession` in between are a data race, and what it may come to is a choice). A
worker's call goes from its route (`LookUp`) to the session (`GetSession`) to the
tool (`CallTool`), and the registry may be closed at any moment of it.

## 3. What TLC checks

| Run | Instance | Shows |
|---|---|---|
| `lanes` | 2 background calls and one for any queue of the chat or of none, channel of 1, a background function that may never end | types and bounded channels; a queue executes one function at a time whoever created it; answers tell the truth; `SerialLanes` is implemented; prepare calls and cancelled callers return even behind a stuck function; if functions end, every call returns and no task stays in a lane |
| `processing_single` | one message, two edits, deletion; preparing, replying, sending, remembering and deleting may fail at any of their steps | an answer is to the text of its revision; a deletion that found the state and removed the row sticks; stored text never goes back; every run, background update and deletion ends; no state is left over |
| `processing_duplicate` | a message announced twice and edited once | one live run, what was announced is remembered, no state left over |
| `recurrence` | 32 rules of every frequency and mode, 3 anchors, deliveries up to 9 days late | on schedule, nothing skipped or repeated, the end is kept |
| `reminders` | 2 reminders (a text, and one whose action may fail for ever), 3 tool calls, 1 rule, a crash, every call of a delivery may fail | at most `after_count` deliveries, none closed early, none twice, closed rows stay closed - each with the exceptions it names; what is due is served unless sending fails |
| `reply_tools` | 2 replies, 1 list of at most 2 items, 3 steps per attempt; one of 2 attempts that ticks and may be cancelled, one of 1 attempt that adds and strikes out | a list is found by what it holds; no request without all results; one late request at most; every reply ends |
| `memory` | 2 chats that share a person; 4 messages, one of them the bot's; one edit, one deletion, one location; 1 message kept per chat, 3 rowids, 2 topics; jobs of one message may stop anywhere | a vector is of the message in its row; a topic is of its chat; a document loses facts only to a writer that overtook another; the latest messages are kept |
| `runtime` | 3 tool servers whose ids prefix each other, every file with at most one field of one entry changed; 2 workers; every step of the start may fail, the signal and the end of the RPC server at any moment | what is listed to the model leads to a session the registry has not closed; nothing stays open; a stopped program ends |
| `test_forgotten`, `test_reply_stored`, `doc_every_n_weeks`, `doc_cancel` | | what a test or a doc says and the code does not do (section 6) |

**Bounds.** Every bound is a constant (`DestsOf`, `Edits`, `Deletable`,
`MaxTime`, `DueTimes`, `MaxCrashes`, `Deliveries`, `Horizon`, `MaxRow`, `MaxTopics`,
`Answered`, `MaxLocations`, and what may fail: `Faults`, `ModelFaults`, `Failing`,
`StartFaults`), and each is named
in its module. Three calls and a channel of one are the least with which a lane is
executing, full and refusing at once, and two callers race to create it while a third
is cancelled. Two edits let a run start over twice, so that an outdated
attempt, its repetition and the background update all meet. Two runs of one
message give every order of two `begin`s and two `release`s. Three tool calls
meet the scheduler between any two of its steps with a set, an
update and a cancellation; rows do not interact except through the batch, for
which there are two reminders. `recurrence` covers January to the end of
leap-year February as anchors, because only there clamping and its recovery
differ, and zones that change clocks inside the watched time. `Limit` is one or
two instead of 100; the batch in `Fetch` is any oldest `Limit` rows. In
`reply_tools` three steps (12 in the code) leave a first request, one after tools
and one after a nudge, and two attempts (5) a repetition; two items let a call
resolve more than it then finds, and two replies are what a vector takes to be
overtaken. Retries of tool calls, failures half way and a reply that meets a
cancelled context at each of its statements all occur; `store` faults are left
out of the instance because the cancelled context makes the same statements fail.
In `memory` a chat that keeps one message trims at every second write, so that
rowids are given out again across chats; two topics are what it takes for
one to be another chat's, and a person who writes in both chats and sends a location gives a
profile its three writers. In `runtime` the ids `a` and `a__b` with a tool in common are what removal by
prefix can go wrong with, a third server is `openrouter`'s, and two workers are in
different stages of a call when the registry is closed.

**Fairness.** Goroutines that can run do run (Go's scheduler is preemptive), so
program steps are weakly fair. Functions given to lanes end in `MessageProcessing`
because their model calls do: the HTTP clients have a timeout
(`llm/client.go:52`, `llm/embeddings.go:62`), and the database is local.
`ChatMemoryLanes` does not assume it for background functions: the two
properties that need it (`EveryCallReturns`, `LanesKeepGoing`) name it as a
premise. Events, edits, deletions, cancellations, tool calls, faults and
crashes are never fair. `ReplyTools` assumes that a statement, a request and an
embedding end, the last two by their timeouts, and nothing about how. `Reminders` assumes that time passes and the scheduler's
goroutine runs. `Program` assumes that the main goroutine and cleanup's goroutines run: connecting to
a server has a timeout, or ends with the signal, the metrics server's shutdown has
one of five seconds, and closing a session or the database waits for nobody. It
assumes nothing of the workers, the RPC server or the signal. `ChatMemory` has safety properties only, and
no fairness.

Deadlock is checked where a system goes on for ever; where it may rest the module
has a step that says when (`Idle`, `Over`), or time goes on (`Pass`). It is not checked in `memory` (all messages were
handled) and `runtime` (the program has ended), where the system does stop;
`EndsOnceStopped` is what replaces it in `runtime`.

## 4. What is proved

All theorems are about `Spec` for every value of the constants that satisfies
the module's named assumption (`LanesAssumption`, `ProcessingAssumption`,
`RecurrenceAssumption` with `RemindersAssumption` or `SeriesAssumption`, `ListsAssumption` with
`ReplyToolsAssumption`, `TableAssumption`, `NoRowAssumption`, `MemoryAssumption` and `NoneAssumption` of `ChatMemory`,
`ServersAssumption` with `ProgramAssumption`). They say: the capacity is
positive and ids are not `None`; edits are counted by naturals and runs belong to
messages; a rule is one that `Validate` accepts, anchors and delays are natural numbers (of hours), and the
zones of `Reminders` do not change their clocks; items are finitely many, a call that adds has a text, and limits of attempts and steps are positive;
an answer is in the chat of what it answers, the bot's own messages are those it
sends, and people are not topics; ids of servers are ordered, and a name determines the tool of a given server -
but not the server.

**ChatMemoryLanes_proofs**: `TypeOK`, `Exclusive`, `HonestOutcome`. `Exclusive`
is not inductive: two running functions of one queue must be traced to one loop.
The invariant says where a call is implies which lanes object it holds
(`PlaceInv`: it is the registered one, hence two calls for a queue meet at
one worker), that channels hold queued calls of their own worker, each once
(`QueueInv`), that a worker has at most one loop (`LoopInv`), and that a running
function is what a loop of its own worker executes, and no other (`RunInv`,
`CurrentInv`). `HonestOutcome` needs the same truth of the done channel
(`ResultInv`).

The refinement `Spec => ImplementsSerialLanes` is proved with it. `LinkInv` adds that a
lanes object in the map is that of one chat, that a loop goroutine belongs to the worker of
the call that started it, and that only such goroutines execute anything. So two lanes never
map to the same worker (`OwnWorker`), an object that is stored brings idle workers with it
(`Fresh`: storing it is a stutter), and a loop's step moves its own lane and no other
(`LoopMoves`). What is left to TLC is the fairness of the lanes (`LanesKeepGoing`).

**MessageProcessing_proofs**: `TypeOK` with the bound on repetitions,
`OneLiveRun`, `AnswersCurrentText`. A state's run-cancel function is of the run
that began last (`OwnerInv`), so whoever else works is cancelled; revisions
count edits and attempts follow revisions (`RevisionInv`); and a live run whose
revision is the state's has the state's text at *every* step from taking it to
sending it (`TextInv`), of which the property is the last step.

What becomes of a message comes on top of it:
`StatesForgotten`, `Remembered`, `DeletionSticks`, `StoredMovesForward`. `LaneInv` traces a prepare job that is
in the lane to a run that waits for it or is cancelled: only a live, waiting run's text is ever written by it.
`BackgroundInv` says the same of the background update: about to write, it is cancelled or the one its state
would cancel; and a deleted state has cancelled both kinds (`DeletedInv`). The four then go different ways:

* `StatesForgotten`: every state in the map has a run that will begin with it or whose token it
  has, and that one takes it out (`MapInv`). No condition.
* `Remembered`: a run is cancelled only by a deletion, or by one that begins later and stores the message
  itself; a prepare job fails only with its run (`RememberInv`). Condition: `"prepare" \notin Faults`, as in
  the run - a prepare job that fails for a reason of its own is not repeated, and the message is then not in the store.
* `DeletionSticks` and `StoredMovesForward`: with one start per message (`OneStart`), as in
  the run. A second start takes the state over, with an older text or after the deletion, which is what it is for.
  A deletion sticks once its job has removed the row; one that fails before that (`DeleteFail`) is `failed`, never `patch` or
  `done`, and promises nothing. The texts on their way are in order: stored, then what is about to be written, then what the state says (`ForwardInv`).

**Recurrence_proofs**: lemmas about the operators of `Recurrence`, for any rule that
`Validate` accepts, any zone and any bounds of the loops. The calendar's: `FirstDay` in closed
form grows with the month, every day is in one month, `MonthOf`'s guess (48 months are 1461
days) is at most one month off, a month's *n*-th weekday exists for *n* up to four and in one of
four consecutive months for five. The search's: a non-empty set of integers that is bounded below has
a least element (`EarliestExists`, by well-foundedness of the naturals, not by
induction), so each loop finds something as soon as one candidate is after `after`. Two facts come of
them. `NextDueIsLater`: what `NextDue` returns is later than `after`, below the count and
not past the last day; what it does not return is for one of these reasons, or a loop gave up.
`ComputedIsFound`: no loop gives up in reach of its bounds (`InReach`).

**RecurrenceSeries_proofs**: `EndIsKept`, `OnSchedule`, `EveryNthWeek`, `NothingSkipped`. The invariant says
that `due` is what `NextDue` makes of `now` and `count`, and `count` is within the
limit; the work is in showing that every loop enumerates exactly the times of `Intended`, which
is defined without loops (`DailyIsFirst`, `WeeklyIsFirst`, `ByMonthsIsFirst`, and `CalendarDaysFacts` for
the three ways to name a day of a month). What they need beyond the assumption, and why:

* `WholeWeeks`, for the last three: a rule of every *n*-th week, *n* > 1, is in
  a zone that does not change its clocks. Without it `EveryNthWeek` is false: that is
  `doc_every_n_weeks`, and the theorem says that nothing else moves the weeks.
* `NoHourSkipped`, for `NothingSkipped`: no occurrence falls into the hour that the clocks
  skip, which `Recurrence` leaves out.
* `InReach`, as a premise about each state: the loops have candidates left. The code's bounds are 273, 100
  and 500 years, but `nextWeekly` looks three years ahead, so that a longer interval is not in reach;
  nor is the fifth Friday of every second month, or of one month of every year, of which the
  proof does not know when it comes next.

`EndIsKept` needs none of them. The rules of `recurrence` satisfy the first two; TLC has
checked the invariant and the third on the same instance.

**Reminders_proofs**: `TypeOK`, `AtMostMax`, `ClosedWhenDone`, `NoneTwice`,
`FinalUnlessStale`, for rules of every frequency. The invariant is an account (`Account`): texts sent = the
row's count + advances lost + one for the last delivery or for the one in hand,
for every row not written from an outdated copy. With it go: held copies are of
pending rows (`Copies`), an undisturbed row in a batch is not delivered
(`Open`), a limited series has room for one more (`Room`), and what is held or
pending is due after the last delivering tick (`Later`). `Room` and `Later` rest
on `NextDueFacts`: a next time is later than the time asked from, exists only
below the count, and is missing only when the count is reached or an end date is set.
The last of these is only true as far as the loops reach (`LoopsReach`, that is `InReach` for
every rule and time), and only `ClosedWhenDone` depends on it: a weekly series with an
interval of three years is closed after one delivery.

**ReplyTools_proofs**: `FoundByContent` for `ListsSpec`, in which anybody calls
any tool at any time; that the reply loop is one such caller (`LoopCallsLists`,
from which `FoundByContent` follows for `Spec`); `TypeOK`, `EveryCallAnswered`,
`OneRequestAfterCancel`. `FoundByContent` rests on what a call knows that is still
alone on its list (`Undisturbed`): nobody else works on it, and what it has read
is what the list holds, to the moment it stores the vector. `SameText` says that
changes to other lists' items cannot matter; `QuietInv`, `WorkInv` and `LeaveInv`
treat the three kinds of steps (nothing changes, a list is changed and worked on,
a call leaves). For the loop, debts are exactly the calls of the turn in hand
(`Conversed`), and a late request is only ever followed by giving up (`Cancelled`).

**ChatMemory_proofs**: `TypeOK` with the limit of a chat, `TopicOfItsChat`,
`VectorOfItsMessage`, `LostOnlyToARace`, `KeepsLatest`. Three invariants carry them.
`ControlInv` says for every kind of job where it may be and what it may hold
there: a document in hand is a topic of the message's chat, or its sender's profile. That
a topic stays in its chat is part of it, for a search could only return another chat's topic through a row
that has one already. `TableInv` keeps the two tables in step by rowid; one row per
message is what makes an upsert find *its* row. `OrderInv` follows the texts of one
message through its prepare attempts and its update, which are in the order of the edits
because only one of them is under way at a time: with it a vector is never of a later text than its row.
`FreshInv` says of every copy in hand that nobody wrote the document since, or
that `since` names who, and that these are others of its writers. For `KeepsLatest` the trimmed rows
are a set whose complement has the limit's size, on finite sets of rowids.

**Program_proofs**: `TypeOK`, `NothingLeftOpen`, `ListedWorks`. `Phases` follows main:
nothing is connected before its time, and the registry is decided before `Run`.
`Sessions` says that an open session is in the map until the map is cleared, when
none is open: an aborted program leaves none either. `Cleaned` is what each finished
goroutine of the cleanup has closed. `ListedWorks` is strengthened to say of every
entry *which* server and tool its name is routed to (`EntriesWork`); after a failed
listing, what is left has another prefix, hence the failed server is in no route
(`FailedStep`); names that belong to one server alone survive the removal of any other
(`OwnNamesKept`).

**Only model-checked**: liveness (`ENABLED` and fairness are beyond the prover).
Every invariant and action property of the passing runs is also a theorem.

## 5. What is not modelled

Texts, prompts, JSON and SQL; logging and metrics. In `MessageProcessing`: the program's own shutdown
(every context ends at once and nothing is owed any more; the
crash in `Reminders` covers it for the table) and `HandleMessage`, the
synchronous path only tests use. In `Reminders`: a failing `DueReminders` query (like a tick that
finds nothing), rows without an anchor, from before the column existed,
zones that change their clocks (they are in `RecurrenceSeries`), and how a tool call's
arguments and the recurrence object are parsed into a rule and merged with the old one
(`memory/reminder_recurrence.go`). In `Recurrence`: wall-clock times inside a skipped or repeated hour, and intervals so
large that a `time.Duration` overflows (292 years). In `Lists` and `ReplyTools`: items without a text,
two ids made in one nanosecond, a timer of a retry that
is ready before the `select` is reached, and `CompleteJSON`, which makes one request
per attempt. In `ChatMemory`: the wording of documents beyond the facts in
them, the lists and notes a prompt is given, the chats' names, how the model finds a
city, rows written before vectors were, and a model that names a topic it was not shown:
`AssignByModel` takes the id from those in the prompt (`Shown`), the code reads any id
(`memory/topic_manager.go:63`), and `TopicOfItsChat` rests on that. In `Program` and its parts: tools for certain tasks
only and the prompts of servers (constant texts appended to a prompt), the search of
a tool by a part of its name, HTTP headers, the conversion of arguments and results;
the commands that set an account up; the reading of the environment; and a server that
ends its session by itself - a call to it fails like any other call of a tool, and the registry
neither notices nor takes its tools out.

No module has the reply service's classification (its outcomes are those of
`MessageProcessing`), prompts, the debug logs, metrics counters and trace ids: they
are wording and output, and no state in them is read back. The components are
listed one by one in `PROJECT.json`, with what is left out of each.

## 6. Where code and text disagree

* **A deleted message may stay** (`test_forgotten`; `app/app_test.go:242`).
  `begin` runs in the spawned goroutine and `release` forgets the state before the
  background update runs: a deletion before the one or after the other cancels
  nothing, and the message is stored after its delete job.
* **A sent reply may not be stored** (`test_reply_stored`; `app/app_test.go:109`).
  `release` cancels the background update of its own run if it has begun.
* **A cancelled series may go on** (`doc_cancel`; `memory/tools.go:126`).
  `AdvanceReminder` makes the row pending by id alone.
* **Every second week moves** (`doc_every_n_weeks`; `memory/reminder_update.go:19`).
  `weeksBetween` divides hours, and a change of clocks takes one away.

Without a run, because a model of them would only restate one line:

* a deletion whose job fails before the row is gone (`memory/pipeline.go:158` to `:168`) is
  logged and not repeated: the message stays (`DeleteFail`), and no text promises otherwise;
* the numbers of attempts in `README.md:131` are not those of `llm/retry.go`;
* a weekly series may be due before its new `due_at` (`reminders/recurrence.go:153`,
  `memory/tools.go:126`);
* the "last 20 messages" (`README.md:5`) are the last by a text in which a fraction
  of a second sorts before the whole one (`storage/store.go:388`): `KeepsLatest`
  holds for whole seconds, and `TextBefore` says what happens within one;
* `Registry.Close` clears a map that workers read (`mcpclient/registry.go:432`): Go's
  runtime may abort the program during its shutdown (`GetSession`);
* the tools of a server that failed are taken out by a prefix (`mcpclient/registry.go:168`)
  that tools of a working server may have: `ListedWorks` is about `OwnNames` for
  this reason.

## 7. Plan

Done, in this order: lanes and their abstract specification; message processing;
recurrence; reminders; lists and replies with tools; messages, topics and profiles
under all lanes at once; the tool servers and the life of the program; a proof module for each
state machine, and one for the operators of `Recurrence`.

What is left, by what it would add:

1. The rules of `memory/reminder_recurrence.go`: an update merges the object it is given with
   the rule of the row, and the merged rule is validated again. As operators beside `Recurrence`, checked
   against a definition of what an update means.
2. `ChatMemory` started by `MessageProcessing` itself, by which the one write of the latter
   would be shown to be the statements of the former.
3. The reply service's classification, if a property is found that is not about wording.
