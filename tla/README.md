# Minerva orchestrator: a TLA+ development

The orchestrator (`services/orchestrator`, TypeScript on Node.js) accepts agent
runs over HTTP, keeps one queue per user, executes one run per user at a time in a
sandbox, and tells clients about it over server-sent events. This directory holds
TLA+ modules translated from its source, the TLC configurations that check them on
small instances, and proofs of the most important invariants for every instance.

## 1. The system

Paths are relative to `src/services/orchestrator/src`.

| Component | State | Operations | Talks to |
|---|---|---|---|
| Run state machine `types/run.ts` | none | transition table, terminal and active states | everything |
| Run queue `services/queue.ts` | `queues` (user to array of run ids), `runToUser` | enqueue, dequeue, peek, remove | run manager |
| Lease manager `services/lease.ts` | `leases` (user to lease), `tokenToUser` | acquire, release, extend, isActive, getActiveRun, cleanupExpired | run manager |
| Cancellation registry `services/cancellation.ts` | one `AbortController` per run | create, cancel, remove | run manager; abort listeners run inside `cancel` |
| Timeout manager `services/timeout.ts` | one timer per run | schedule, clear, the callback | run manager |
| Run manager `services/run-manager.ts` | the repository of runs | createRun, acquireNextRun, startRun, cancelRun, timeoutRun, completeRun, failRun | the four stores above |
| Execution service `runtime/run-execution.service.ts` | `processingUsers`, `terminalEvents`, the lane of each user | createRun, cancelRun, processUserQueue, executeRun, the abort listener | run manager, event stream, sandbox, packs, agent |
| Event stream `sse/` | sequence counters, bounded buffers, open connections | broadcast, closeRun, subscribe with replay | execution service, clients |
| Workspaces `sandbox/workspace-manager.ts`, `strategy.ts`, `adapter.ts` | `workspaces` (what the manager knows), `workspaces` of PerUserStrategy, the adapter's cached handles | getOrCreateWorkspace, getSandbox, destroyWorkspace, destroyAllWorkspaces | Daytona (external) |
| Sandbox services `sandbox/execution.ts`, `filesystem.ts`, `security.ts`, `errors.ts` | the Daytona session of a command | executeStreaming, readFile, writeFile, validatePath | Daytona |
| Tools `tools/` | none | bash, read, write; ToolRegistry; the event emitter | sandbox, agent loop |
| Scripted stream `runtime/scripted-stream.ts` | none | createScriptedRequest, the events of an answer | agent loop |
| Packs `packs/` | none (a cached loader) | load, validate, assemble the prompt | execution service, the file system |
| Model provider `model-provider/`, config, auth | none of consequence | resolve; check | execution service |

**How it runs.** Everything is one Node.js process. Code runs without
interruption from one `await` to the next; what interleaves is whole segments.
Requests, timers and answers from outside (provider health, sandbox, pack files,
the agent) arrive as callbacks of the event loop. The stores are in memory and
return promises that are already resolved, so a chain of awaits over them runs out
in microtasks before the next callback begins. The interfaces are asynchronous
because a database is planned behind them (`docs/plans/minerva-qqaa`), and the
code checks little of what it read before an await. Sandbox and pack files are
different: each of their awaits really takes time, and the models of them put an
action between the question and the code that reads the answer.

**What is hard.** Cancel, timeout and completion race for the end of one run; a
lease may expire under a running run; a queue processor may be about to leave when
a run arrives; the abort listener is installed late; the service starts promises
nobody awaits, whose rejection ends the process; tokens, signals and copies of
runs are used awaits after they were read; a workspace that was looked up may be gone,
replaced or destroyed when the code goes on, and the lookup itself calls every error
"not found"; a tool call is aborted between chunks, or its session fails to open or
to close; and a pack may be edited between the stat of a file and its read. `PROJECT.json` lists each of these
hazards at its line with the properties that cover it.

**What makes it correct.** The queue is FIFO and holds a run once; the lease index
is exact and nobody gives up another run's lease; a user has at most one active
run; states change only along the table and terminal states are final; a queued
run is in its queue, is served, and ends; clients are told the end that happened,
once; nothing rejects unobserved. A run works in its own user's sandbox, and the manager
loses track of no running sandbox that Daytona lets it know of; a tool call stays inside the workspace, says its
beginning and end once and does not call a failure a success; and the prompt is the
pack's.

## 2. The modules

Each entry says what the module stands for and how it corresponds to the code.
`PROJECT.json` maps every definition to its lines.

- **RunStates** - `types/run.ts`: the states, the table, the predicates, and the
  shared constants `Users` (the owner lanes), `Runs` and `None`.
- **RunQueue** - the queue. An empty sequence is a missing Map entry, since the
  code deletes empty arrays. `QueueSpec` lets any caller enqueue an id that is in
  no queue (createRun enqueues ids it has just generated), dequeue and remove.
- **LeaseManager** - the leases. Time is reduced to the one comparison the code
  makes: a lease is `live` until `Expire`. Tokens are numbers, never generated
  twice. `extend` adds to `expiresAt` without looking at the clock, so it may or
  may not revive an expired lease.
- **RunSignals** - the cancellation contexts and timers, synchronous operators.
- **RunManager** - the manager over those three. Its methods are asynchronous: a
  method in progress is a *frame* in `call`, held by the thread that called it
  (`Tasks`, and one thread per run for its timeout callback). An action is one
  segment, from a resumption up to the store call whose promise is awaited next,
  so a value read in one action is used, perhaps stale, in the next: `seen` is
  the copy of the run that `getById` returned. `cancelRun`, `timeoutRun`,
  `completeRun` and `failRun` share their steps (`SettleFrame`, `RemoveQueued`,
  `ReleaseLease`, `SignalStep`, `WriteTransition`, `RereadRun`); what differs is in
  `AfterRead`, `SignalStep` and `Target`. A rejection is the step `threw`.
- **RunExecution** - the service over the manager. The queue processor of user `u`
  is thread `u`; its place in `processUserQueue` and `executeRun` is `lane[u].at`;
  a request being served is a thread of `Requests`. `Provisioned`, `PackLoaded` and
  `AgentSettles` are the callbacks in which the outside answers or fails. `Signal`
  refines the manager's `SignalStep` with the abort listener, which runs inside
  `abort()`. `events[r]` is what was broadcast about run `r`, with `closed` for
  `closeRun`; `cancels[r]` is the reasons its cancel requests gave, in order.
- **EventStream** - the event stream. A connection is a member of `Clients`, made
  by one request; a client that reconnects is another member. A JavaScript `Set` of
  connections has an identity, which matters because a cleanup holds on to the Set
  it was made for: a Set is named by the connection it was made for, `streams[r]`
  says which Set the map holds for run `r`, `members` what is in each Set. Every
  operation is one step: none of them awaits anything but `getRun`, which the
  in-memory repository answers at once. `sent` and `received` are histories. The
  environment is the execution service, reduced to what the stream can tell apart
  (`RunCreated` to `CancelledAgain`): it broadcasts in the orders RunExecution allows
  when stores settle at once, so that a state and its announcement are one step. It
  includes ends without `closeRun` (a run cancelled in the queue, a stopped run
  whose agent fails), timeouts lost before the listener exists, agents that go on
  after the end, and a second cancel.
- **Workspaces** - the manager, both strategies, the adapter's handle cache, and
  Daytona. A user's runs are served one after the other, so a user has one call at a
  time, `lane[u]`: `at` is what the call waits for, `answer` what Daytona said, and
  the continuation (`Verified`, `Created`, `Cached`, `Fetched`) reads that answer
  later, when other calls may have destroyed the sandbox. `destroying[d][id]` is the
  same for the calls of `destroyWorkspace`, of which several may be under way for one
  workspace (`Destroyers`), by the adapter or by `destroyAllWorkspaces`, which
  leaves the adapter's handles alone. Daytona is not trusted: a lookup may answer null
  while the sandbox exists, as `DaytonaClient.getWorkspace` does for any error, and a
  creation may fail with the sandbox made, which then runs unknown. `denied` is the
  history of the sandboxes whose existence Daytona denied in one of these two ways;
  `lane[u].dead` and `handed` are histories too.
- **ToolCalls** - one prompt: the model (scripted or any), the tool call it asks
  for, the sandbox service behind it and the result. Every await is a step of
  Daytona's; `bash` consumes the command's chunks one turn of its loop at a time and
  looks at the abort signal in each. A file is its size, a path a sequence of names,
  an error a code and the words of its message that `mapErrorToToolError` looks for.
  `log` is what the call told its `ToolEventEmitter`. The events of a scripted answer
  are the function `scriptedStream`.
- **AgentPack** - `PackLoader.load` await by await, `PackValidator`, and
  `SystemPromptAssembler`. AGENTS.md is a sequence of blocks (headings, text, bullet
  lists) and its sections are sets of block numbers, which is what the regular
  expressions of the loader select; a skill is its name, the size its stat saw and
  what its read got, and a SKILL.md may be empty. `Edit` is somebody working on the pack
  meanwhile; the history `touched` is the skills edited between their stat and their
  read.
- **RunLifecycle** - the abstract promise: a line per user, one active run per
  user, every run once. It knows no index, lease, store or event loop.
- **MC\*** - instances. **\*Proofs** - proofs.

Operators commented "Mutant" are plausible mistakes in the code they precede. No
specification uses them: substituted for the definition they follow in name, they
make the property they are listed with fail, which shows that it can. Type
invariants are stated in every module; those of the queue, the leases, the manager,
the execution service, the event stream and the workspaces are proved, and the
manager's is run as well.

`StoresSettleAtOnce` chooses the schedule. `TRUE` is the wired build: a callback
begins only when no chain of awaits is under way. It assumes that two requests do
not enter the same pass of the microtask queue, which Node's HTTP server
guarantees for requests it parses from different reads. `FALSE` allows any store
latency, the behaviour the asynchronous interfaces admit.

## 3. The runs

| Run | Question | Instance and bounds |
|---|---|---|
| Stores | Do the queue's arrays and index agree, is the order kept; is the token index exact? | 2 users, 3 runs, 4 leases, any callers |
| ManagerLifecycle | Transition table, queue against state, timers against state, no rejecting timeout | any caller, 3 runs, 2 users, 4 leases that may expire |
| ServiceLanes | Lanes, leases and states of the whole service; does anything reject unobserved, is a wake-up lost? | 2 users, 3 runs, one cancel per run, expiring leases |
| ServiceEndings | Are clients told the end that happens, in order, however a run ends, and does every accepted run end? | 1 user, 2 runs, two cancels per run, any reason, "timeout" included, expiring leases |
| ServiceOrder | Does the service implement RunLifecycle? | 1 user, 3 runs (two can wait behind one), one cancel per run, expiring leases |
| ServiceAnySchedule | Is a run ever executed twice, or another run's lease released, with any store latency? | 1 user, 2 runs, 1 request slot, 2 chains at once, 2 leases that may expire |
| Workspaces | Is a run ever given another user's sandbox, or one already gone; is a sandbox forgotten, or doubled? | 2 users, 2 sandboxes, two destructions at a time, of one sandbox or of both, both strategies, lookups and creations that fail |
| ToolCalls | Are a call's events, result, session and paths right whatever fails or is aborted; does the prompt end? | 3 calls, 5 paths, files of up to 2 bytes with a limit of 1, texts of up to 5 letters in slices of 2 |
| AgentPack | What is loaded, refused and put in the prompt, while the pack is edited? | 3 skills, sizes up to 3 with a limit of 2, 3 versions of AGENTS.md, 1 edit |
| Streams | Do registry, replay and live events join without loss, and do connections end? | 1 run, 2 connections, buffer of 3, agent silent at number 5, replay from 2 or none |

Bounds: `MaxTokens` limits how many leases are granted (each run needs one, the
others let expired leases be replaced); `MaxCancels` limits cancel requests per
run, each with a reason of `ClientReasons` (`PlainReason` where no property depends on
the reason, else `AbortReasons`, with "timeout"): a second request finds the run ending,
or ended and forgotten, and a third finds nothing else; `MaxInFlight` limits chains of
awaits under way when stores may be slow. Two runs in one lane are what every race here
needs, a third run in another lane shows that lanes do not touch, and a third one in the
same lane lets two runs wait, so that their order matters. `ServiceAnySchedule` has two
chains at once, enough for every race between a pair of operations. In
`ServiceAnySchedule` deadlock is not checked: with slow stores a completion may
reject twice and the process exits, which is the end of the behaviour.

`Streams` has one run: nothing but the replay looks at two runs, and that is the
subject of `StreamIsolation`, which has two. Two connections suffice for a Set that
is shared and for one that outlives its map entry. `MaxSeq` 5 lets the agent emit
past the size of the buffer, so that events are evicted before a replay.

`Workspaces` has a sandbox for each user, or a second one for a user whose first is
gone: what is created, lost, replaced and destroyed meets itself with two, and the
proofs cover any number. `TwoUnderWay` keeps to two destructions at once, which may
overlap on one sandbox; the proofs cover any number of these too. Users, sandboxes and
destroyers are symmetric: nothing in the module tells them apart.

`ToolCalls` lets a model make three calls, of which each may leave files or sessions for
the next; the paths are a plain one, a detour, two ways out and an absolute one. `AgentPack` needs three skills for an order with a tie, and
one edit falls into every window between two awaits, for the skill in that window and
for another; a second edit would only repeat that, and the proofs allow any number.

Some properties need the in-memory schedule and fail without it: with slow stores
`cancelRun` can run between the segments of `acquireNextRun`, whose LEASED update
does not look at the state it overwrites. Those are stated under
`StoresSettleAtOnce = TRUE` and are the list of what must be re-examined when a
database arrives: `SingleActiveRun`, `LeaseFollowsRun`, `QueuedIffWaiting`,
`TransitionsFollowTable`, `StoppableIffRunning`, `EndsAsAnnounced`, `EventsInOrder`,
`NoUnhandledRejection`, `QueuedRunIsServed` and the refinement.

**Fairness** (`FairSpec`). Node runs every ready continuation, so the steps of
each thread inside the process are weakly fair; and what is awaited from outside
is assumed to answer or fail in the end, which for the agent the run's own timeout
or the client's cancel usually forces, but nothing in the code guarantees for the
health check and the sandbox. Clients, timers and the clock are under no
obligation: a run need not be cancelled, nor time out, nor a lease expire, for
every run to end. A thread's step stays enabled until taken when stores settle at
once, so weak fairness is enough. For the event stream, `FairSpec` asks only that the
interval of a connection ticks until it is cleared (`WF` of `Poll`). For a tool call,
Daytona answers what it asks and the continuation runs; nothing in `src/` bounds how long
that takes, so `PromptEnds` says that a prompt waits for Daytona alone and for nothing of
its own. Models that are not scripted owe nothing. For workspaces no liveness is
stated: a call goes on with any answer, and nothing makes Daytona give one.

### Disagreements found

Two runs each check one statement of a document and violate it.

- **AbortLost**: "the system aborts the agent loop"
  (`docs/specs/run-orchestration.md:28`). An abort during `packLoader.load` is
  lost: the listener is installed afterwards and `signal.aborted` is not tested. (A timeout lost
  there is not announced either: only the listener emits `run_timed_out`.)
- **StreamIsolation**: "Events from different runs are not interleaved in a single
  stream" (`docs/api/sse-schema.md:462`). `getFrom` takes no run: a replay hands out
  the buffered events of all runs, whoever owns them.

Others, met while modelling and not given runs:

- "`seq` always increases by 1 (no gaps, no duplicates)"
  (`docs/api/sse-schema.md:459`). The `stream_connected` of every connection takes a
  number the other connections never see, and so does an agent event of unknown type.
  `SeqHasNoGaps` states it and does not hold; what holds is `SeqIncreases`: the numbers
  of a run go up.
- "Client connects → stream_connected event emitted" comes first in
  `docs/api/sse-schema.md:467`, and before the replay in line 483. The endpoint writes
  the replay first (`sse.controller.ts:95-107`): `GreetedFirst` does not hold.
- `run_timed_out` is the "Terminal event emitted when run exceeds
  maxDurationMs" (`docs/api/sse-schema.md:159`). The abort listener tells a timeout by the
  text of the abort reason, which a cancel request may supply
  (`run-execution.service.ts:104`, `:215`), so it is announced for a CANCELLED run.
  `TimeoutMeansTimeout` states the claim and does not hold; `EndsAsAnnounced` excepts just
  this.
- `services/lease.ts:4` promises one active run per user, but the lease lasts 30
  seconds and nobody extends it; only `processingUsers` keeps the service to one run.
- Cancelling a run again after its clean-up emits a second terminal event, past
  `emitTerminalOnce`. `EventsInOrder` allows just this, and checks that it is
  `run_cancelled` and that the run was cancelled before.
- For a run that has ended, a connection's `cleanup` is called by the poll and again
  by the close event; the second call drops the map entry of a connection made in
  between. While a run is under way this cannot happen (`SubscribedWhileLive`).
- A replay repeats the event of the number asked for, where
  `docs/api/sse-schema.md:484` starts after it.
- `is_error` of `tool_execution_end` (`docs/api/sse-schema.md:430`, "Whether the tool
  returned an error") is false for every call: the wrapper
  (`run-execution.service.ts:344`) turns failures into content. `IsErrorTellsErrors`
  states it.
- `append` of a write call is offered to the model (`tools/write.ts:30`) and dropped by
  `ToolRegistry` (`tools/index.ts:36`): the file is replaced.
- The description of an agent is the last block of AGENTS.md, since the expression of
  `loader.ts:106` is greedy; an empty section takes the next heading for its text; and
  headings other than Stance and Rules never reach the prompt.
- The limits of the configuration (`PACKS_MAX_SKILL_SIZE`) do not reach the shared
  loader, which uses its own defaults.
- A lookup that fails for any other reason counts as "gone": under `per_user` the
  sandbox is replaced and the old one keeps running, and a destroy forgets a sandbox
  it did not remove. A creation that fails after Daytona made the sandbox
  (`daytona-client.ts:25`) leaves one nobody knows of, and the user's next run makes
  another. `NothingForgotten` and `OneLivePerUser` speak of all sandboxes but these.

## 4. The proofs

TLAPS checks these for every value of the constants, from the named assumptions on
constants only (`NoneAssumption`: `None` is no user and no run; `MaxTokensAssumption`;
`NoLeaseAssumption`: `None` is no lease; `ReasonsAssumption`, `ManagerAssumption`: types;
`PackAssumption`: names are a finite set of numbers, documents are sequences of blocks;
`ReplyAssumption`: a reply is a finite sequence, a slice is not empty).

**StoresProofs.** Of the queue, `QueueInv` (types, `NoDuplicateRuns`, `IndexAgrees`) is
inductive as it stands: without the index agreement, `remove` could take a run out
of the wrong array, and without distinctness `indexOf` could find another place
than the index means. `dequeue` and `remove` are both shown to take one place out
of one array (`DequeueTakesOut`, `RemoveTakesOut`), and one lemma, `TakesOutInv`,
carries the invariant over both. `Fifo` uses the same lemmas: taking a place out
shifts the later ones together, and an enqueued run comes last.

Of the leases, `LeaseInv` (types, `TokenIndexExact`, `TokensFromIssued`)
is inductive: a generated token must not be in the index yet, which is what
`TokensFromIssued` is for. `NoTheft` is an action property that follows step by step.

**RunManagerProofs.** For every number of users, runs and callers, any store latency
and leases that may expire at any time. The invariant `ManagerInv` adds to the two
stores' invariants:

- `FramesOK`: a method in progress is at a step of its own, about a run;
- `RunsOK` and the tokens in `FramesOK`: every token kept, in the repository or in a
  frame, forms with its run a pair of `Own`, the pairs of an issued token and a run
  for which it can only ever name that run's lease. `Own` only grows (`OwnGrows`),
  because a lease granted later has a token nobody has seen (`LeaseOrigin`); so a
  token read an await ago is as good as one read now. This is the strengthening
  that `TokensAreOwn` and `ReleasesOnlyOwnLease` need;
- `FreshRuns`: a run about to be enqueued is in no queue, and in no other frame
  about to enqueue it;
- `LeasesInLane`: a lease is in the lane of its run.

Each action has a lemma that it keeps the invariant and is, or is not, a call of
each store (`Kept`); `ManagerNextKept` puts them together. From it follow the types, the
implementation of `QueueSpec` and `LeaseSpec` (`StoresContracts`), hence the order of
the lanes and the safety of live leases for the whole manager, and the ownership of
tokens and leases.

Its second part is about the manager on the in-memory stores, whose promises
resolve at once (`StoresSettleAtOnce`): a callback that starts a method runs all its
awaits before the next callback starts. The theorems assume that constant and
nothing else of the schedule. `SettledInv` says at every await, not only between
callbacks, how things stand:

- `OneChain`: one thread at most is under way;
- `Hand`, one conjunct per await: what the frame under way knows of its run. It is
  where the code's correctness sits: `acquireNextRun` overwrites the state of a run
  without looking, and `Hand` is why it finds it QUEUED and in no queue;
- `AtRest`: every other run is in its queue, in the timers and in the contexts
  exactly as its state says;
- `QueuedRuns`: records of ids never created, and of queued runs.

Each step changes its frame to one that `Hand` describes and leaves the other runs
`Untouched` (`SegmentKept`); when it ends the run is `AtRest` again. `QueuedIffWaiting`,
`StoppableIffRunning` and `TimeoutsNeverReject` are read off it, and
`TransitionsFollowTable` goes step by step. For the leases a second invariant,
`LeasesTrue`, says that a run is active exactly while it holds the lease of its lane
under its record's token, with the awaits between `acquire` and the write, and between
`release` and the write, spelled out (`LeaseHand`). The manager alone does not keep it:
any caller may ask for a run while one is active, and with an expired lease that makes
a second run active. So the lemmas assume that a lane whose run is asked for is free,
which the service sees to; the theorems that follow from it are those of the service.

**RunExecutionProofs.** The service over the manager, under any schedule of stores,
requests and answers, with leases that may expire. `ServiceInv` is `ManagerInv` and

- `CallersOK`: the service calls the manager the way RunManager expects of its
  callers; a processor is in the method of its stage (`StageOp`), about its own run;
- `QueuesInLane`: what waits in a user's queue is that user's;
- `Served` and `StartedGone`: the run a processor serves, and every run ever started,
  has left its queue and no frame is about to put it back.

`CallersOK` is what makes the manager's lemmas apply to the service: they speak of
frames, not of the manager's own next-state relation, so `ServiceKept` carries
`ManagerInv` over unchanged. `StartedOnce` needs `StartedGone`: the processor starts
whatever `dequeue` shifted out, so a run is started twice only if it is twice in a
queue. `ServiceContracts` says that the whole service implements `QueueSpec` and
`LeaseSpec`.

**SettledExecutionProofs.** The service on the in-memory stores. The invariant is
`SettledServiceInv`: `ServiceInv`, `SettledInv`, `LeasesTrue` and `LanesInv`, whose parts
are

- `LaneOK`: at each stage of `processUserQueue` and `executeRun`, the states its run may
  be in (`Allowed`), and that the transition `completeRun` and `failRun` are about to
  write is valid: this is why their promises cannot reject;
- `ActiveInLane`: an active run is the one its user's processor serves;
- `QueuedServed`: a QUEUED run has a processor at work, or its request is still about
  to start one; and a processor that found the queue empty is right until it stops;
- `KnownRuns`: what was announced as queued exists.

`ActiveInLane` replaces the assumption on leases: a processor asks for a run only
between runs, so the lane is free when it does (`LaneIsFree`), expired lease or not. From
`SettledServiceInv` follow `SingleActiveRun`, `LeaseFollowsRun`, `QueuedRunIsServed`,
`NoUnhandledRejection`, `QueuedIffWaiting`, `StoppableIffRunning` and, step by step,
`TransitionsFollowTable`.

What clients are told needs two more invariants, for any reasons and any number of
cancels. `TruthInv`: an announced end is the run's state or, since the abort listener
speaks inside `abort()`, the state the same chain is about to write (`Sealed`); or it is
`run_timed_out` and the run's cancel is sealed, which only a request that gave the reason
"timeout" brings about (`Justified`, and `ReasonsTold` for the frames on their way to
`abort()`). `StoryInv`: a story begins with `run_queued`, `run_started` comes second if
at all, and after a terminal event only `run_cancelled` can come, for a run cancelled
more than once (`Story`). `terminalEvents` forgets the run when its processor is done, so
the strengthening (`Unconcluded`) says that the only cancel request a run has had so far
finds what it announced remembered. With these, `EndsAsAnnounced` and `EventsInOrder`.

`ServesLines` is the refinement: under the mapping of RunExecution every step is a step
of RunLifecycle or a stutter. The mapping takes a run from "waiting" to "active" when
it leaves its queue, an await before LEASED is written, and from "active" to its end
at the write; `PhaseOf`, `OneInHand` and `OtherPhases` say what that means at each
await, and `Submits`, `Grants`, `Withdraws`, `Marks` and `Finishes` are one lemma for
each action of RunLifecycle, `Aside` and `Calling` the stutters.

**EventStreamProofs.** For any number of runs and connections, buffers of any size and
any replay positions. `SubscribedWhileLive` is not inductive: `RegistryInv` adds
`ConnectionsOK` (the server ends a connection only when its run has ended) and `SetsOK`
(a Set serves one run, holds only connections made for it, and the Set named after a
connection that was never made is fresh). With them the cleanup of a connection that is
the last of its Set can only drop the entry of that Set or of a run that is over. A
broadcast then drops nobody (`AllListen`), so the service's steps leave the registry
alone or close a run (`ServiceMoves`). `NumbersInv` says of the numbers that buffers
and what a *registered* connection was sent are below the sequencer (`Within`) and
upwards (`Upwards`): `closeRun` may restart the count because nobody is registered
afterwards. A replay is a permutation of the buffered events that is sorted by number;
that its events of one run are strictly upwards (`ReplayOfRun`) needs each number once
in the buffer and finitely many events, so the four theorems about what is sent
assume `IsFiniteSet(Runs)`. `EndsKnown`, for `EndIsTold`: COMPLETED, FAILED and
CANCELLED are announced in the step that sets them, to every open connection, and so is
a timeout if its listener was installed (`TimeoutSent`).
`JoinInv`, for `NoGapAfterReplay`: a buffer is the end of what was broadcast of its run
(`Tails`), and what a connection has of its run is a `Window` of all those broadcasts,
which reaches the last while the connection is registered. A replay is the end of the
buffer from the number asked for (`EndWindow`), so the broadcast after it is the next
of the window; that the positions in the window are those `NoGapAfterReplay` counts is a
bijection (`WindowCounts`).

**WorkspacesProofs.** For any number of users and sandboxes, both strategies, lookups
and creations that fail, and any number of destructions of a workspace at once. `Core` (types, `OwnWorkspace`, `CallsOwn`,
`Existing`) is inductive: `OwnWorkspace` alone is not, because what a call was
answered an await ago becomes a record later, so `CallsOwn` says whose the sandbox in
every pending call is, and `Existing` that an id the code has heard of is never
created again. On it rest four strengthenings, each kept by every step:
`GoneForGood` (a sandbox that was gone is not what a lookup finds, nor what a creation
makes) for `NotDeadOnArrival`; `Remembered` (of the sandboxes Daytona did not deny, the strategy's
entry, or the creation under way, is the only one of its user) for
`OneLivePerUser`; `NothingForgotten` itself, which needs `Existing`'s last part, that
what is forgotten after a removal is gone; and `Unused` (what is about to be handed
over under `per_run` is new) for the action property `CleanPerRun`.

**ToolCallsProofs.** For any paths, texts, sizes and numbers of calls, any answers of
Daytona, and an abort at any await. `CallInv` says at every await of `execute` what the
call has done so far:

- `StepsOK`: each tool has steps of its own, and the tool has the turn just while it is
  at one;
- `OutcomeOK`: the chunks of a command still end in its exit code (`Exits`), and the
  result it is about to return is `Honest`;
- `LogOK`: what was told is a start, then updates, then one end (`Bracketed`), and the
  end agrees with the result. A call may be past its end and not over: the end of a
  cancelled call is told before its session is deleted, every other end after;
- `SessionOK`: a session is open only between its creation and the cleaning;
- `FilesOK`: a file is read or written only at a place inside the workspace.

Every await has a lemma that its answers keep `CallInv`. `Confined` rests on the check
`validatePath` makes at its end, for nothing is assumed of `normalize`. From `CallInv`
follow `EventsBracketed`, `SessionsReleased`, `Confined`, `ZeroMeansRan` and `AbortHeeded`.

`StreamTellsText` is about a scripted answer as a whole, and holds of every text and
every width: all slices but the last are full and the last ends the text (`SliceEnds`),
so the first ones together are a start of the text (`SlicesJoin`). `FlattenSeq` is a
recursive function; that it has the partial texts as its values (`Flattened`) is an
argument by the least position where it would differ, no induction theorem is needed.

**AgentPackProofs.** For any names, documents, sizes and number of edits. Four
invariants over the types (`Typed`: a skill that is being read has been measured):

- `LimitInv`, for `LimitHolds`: a skill read that is too large is one of `touched`, the
  skills edited between their own stat and read, and so is the skill about to be read if
  it is too large by now. Without the latter the invariant is not inductive: the edit
  comes before the read;
- `Unedited`, for `UneditedOutcome`: while there are no edits, what was read and what is
  still to do are together the skills of the disk, none of those read is too large, and
  an error has its reason on the disk (`FailsExplained`);
- `IdentityOK`, for `SectionsRead`: the identity is what `parseIdentity` makes of one of the
  documents; the rest (`SectionIsUnder`) is about sequences: the first heading and the
  last one before a block, which exist because the naturals are well founded;
- `PromptInv`, for `CanonicalPrompt`: no name is read twice, and the prompt is built of
  what was read. `Ordered` says that `orderSkills` is a permutation: a skill's place is the
  number of those that come before it, places are different (`Places`), and as many
  as there are skills.

Proved without a run of their own: `QueueTypeOK`, `NoDuplicateRuns`, `LeaseTypeOK`,
`TokensFromIssued`, `LiveLeaseNotStolen`, `TokensAreOwn`, `ExecutionTypeOK`,
`StreamTypeOK`, `WorkspaceTypeOK` and `PackTypeOK`.

Only model-checked:

- liveness (`EveryRunEnds`, `StreamsClose`, `PromptEnds`), which is out of
  the prover's reach.

## 5. Not modelled, and the plan

Not modelled:

- `model-provider/`, `config/` and `auth/`: settings read once at start, and a check of
  headers per request; no state, no await, nothing another component can disturb.
  What they decide enters the models as a choice: whether the provider is healthy
  (one way for `Provisioned` to fail), and which user asks.
- `sandbox/network.ts`: its checks are called by nobody.
- The persistence contracts and the Prisma client, unused at run time.
- Wiring, health, logging, error texts, HTTP formatting, encodings, durations.
- Operations only tests call (`clear`, `cancelAll`, `clearAll`), and the interface
  hooks that are only declared.

Order of work, most important behaviour first:

1. *(done)* RunStates, RunQueue, LeaseManager, RunSignals; RunManager; RunLifecycle
   and RunExecution; the proofs of the two stores and of RunManager for any schedule.
2. *(done)* EventStream: sequencer, bounded buffer, connections, broadcast, replay,
   closeRun, polling.
3. *(done)* Workspaces, with its safety properties proved.
4. *(done)* ToolCalls: the three tools, with abort, timeouts and failures.
5. *(done)* AgentPack: loading, validation, prompt.
6. *(done)* The proofs of RunExecution, its refinement of RunLifecycle, EventStream,
   ToolCalls and AgentPack.
7. Left: nothing that a run checks and the prover reaches. What a later version could
   add: `cancelAll` and `clearAll`, once something outside the tests calls them.
