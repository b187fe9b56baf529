# LittleSheep durable runs, specified

TLA+ modules, TLC configurations and TLAPS proofs for the stateful core of the
LittleSheep agent: how one run of the agent is recorded as a stream of events,
how its final reply is published across several stores, how a run whose process
died is recovered, and the components around it: file lock, inbox, leases, tool
calls, runtime events, checkpoints, compaction, usage index, and of the desktop
application the life of its runners and the migration of its data root. Paths
below are relative to `packages/`.

Run a configuration with `tlc -config MCRun.cfg MCRun`, check the proofs of a
component with `tlapm DurableRun_proofs.tla`.

## 1. The system

LittleSheep is a desktop agent. A user message becomes a *run*: the Runner
prepares a context, lets the harness stages call a model and tools, and
publishes one final reply. Everything that must survive a crash is an event in
the run's stream; a projection (status, reply, requests, effects, outcome) is
reduced from the stream whenever somebody needs it.

| component | state it keeps | operations | interacts with | module |
|---|---|---|---|---|
| Durable kernel (`harness/src/durable-kernel*.ts`, codecs) | none; projection reduced from events | `append`, `replay`, `recoverRun` | event store, inbox, reply registry | DurableKernel, DurableAppend |
| Event store (`runner/src/durable-event-store.ts`) | one file per event, partition cache, trusted runs | `append`, `read`, `listRuns` | file lock, usage marks | DurableAppend, UsageIndex |
| Run recorder and Runner (`runner/src/durable-run-recorder.ts`, `runner.ts`, `runner-*.ts`) | control point, result, conversation turns | `executeRun`, `recordDurableRunOutcome`, retry | all of them | DurableRun, RunLease, RunCheckpoint |
| Run lease (`runner/src/durable-run-lease-*.ts`, `durable-run-ownership.ts`) | lease file: owner, process, expiry | acquire, renew, release, list | Runner, recovery, effects | RunLease |
| FINALIZE (`harness/src/stages/finalize.ts`, `failure-state.ts`) | pending settlement, uncertainty flags | reserve, propose, persist, settle | kernel, registry, transcript | DurableRun |
| Model request lifecycle (`harness/src/model-observability.ts`) | promise per request | start, answer, settle, flush | kernel | DurableRun |
| Side-effect ledger (`harness/src/stages/execute/side-effect-*.ts`), effect leases (`runner/src/durable-effect-*.ts`) | bounded list of the run's effects, lease per effect | begin, finish; acquire, confirm, release | kernel, tools | ToolBatch, DurableRun |
| Tool execution (`tools/src/tool-execution-*.ts`) | waves of a batch, repeat counts | prepare, schedule, invoke, time out | ledger | ToolBatch |
| Recovery (`app/src/main/run-recovery.ts`, `runner/src/durable-run-recovery.ts`, `conversation-turn-recovery.ts`) | wake-up timer, discovered runs | queue pass, events pass, retry of a turn, checkpoint resumes | lease, kernel, registry | RunLease, DurableRun, RunCheckpoint |
| Reply registry and transcript (`session/src/reply-fingerprint-store.ts`, `manager.ts`) | reserved and settled replies, session file | reserve, settle, append, promote | file lock | DurableAppend, DurableRun |
| Durable inbox (`runner/src/durable-inbox-*.ts`, `harness/src/durable-inbox-processor.ts`) | commands with claims, per-process cache | enqueue, claim, complete, fail, batch | kernel, file lock | DurableInbox |
| Runtime event queue (`runner/src/runtime-event-queue.ts`, `active-run-registry.ts`) | bounded queue, batch leases, control state | append, lease batch, decide, snapshot | stage loop, user interface | EventQueue, RuntimeQueue, RunEvents |
| Stage loop (`harness/src/durable-harness.ts`, `runtime-control-boundary.ts`) | stage, deferred and delivered events | boundary, transition, capture | queue, checkpoint | RunEvents |
| Run checkpoints (`runner/src/run-checkpoint-*.ts`) | disposition of each checkpoint | claim, complete, interrupt, abandon, reconcile | Runner, recovery, routes | RunCheckpoint |
| Session compaction (`runner/src/session-compaction-scheduler.ts`, `compaction-operation-store.ts`, `session/src/compaction*.ts`) | flights, history, summaries, transactions | request, cancel, drain; commit, recover, sweep | model, session | CompactionScheduler, SessionSummary |
| Usage accounting (`runner/src/durable-usage-pending.ts`, `provider-usage-daily-*.ts`) | marks, index | mark, synchronize, backfill, acknowledge | event store | UsageIndex |
| File lock (`session/src/lock.ts`) | lock file with owner process and token | acquire, steal, release | every store | FileLock |
| Runners of the desktop application (`app/src/main/runner-lifecycle.ts`, `runtime-config-change.ts`, `index.ts`), plugin host (`plugins/src/host.ts`) | current and retired runners, build queue, accepted configuration | start, save, rebuild, retire, move the plugin tools | routes, Runner, configuration | RunnerLifecycle |
| Data root (`app/src/main/data-root-*.ts`, `branding/src/index.ts`) | locator file, staging directory | request, cancel, roll back; carry out at the next start | every store below the root | DataRoot |
| Others: safety, llm, channels, memory, context, prompt, web, documents, snapshot, the rest of app and plugins, cli, config | | | no part of a run's durable state | |

What is hard here, and what must hold in spite of it:

- **Two writers.** The Runner, three recovery paths and other processes append
  to one stream by optimistic cursors. Each event must be legal where it lands,
  be stored once and be acknowledged to one writer.
- **Four stores, one reply.** Event stream, registry, transcript and execution
  log are written one after the other. No answer may be published that is not
  persisted; no published answer may be contradicted by a failure.
- **Crashes and uncertain failures.** Any step may be the last one; an append
  may throw after its event was stored. A tool must not run without a durable
  intent, nor twice; a dead run must be closed with its work accounted for.
- **Background work.** Model responses are recorded by promises nobody awaits
  until a flush; calls of one wave, boundaries and incoming messages interleave
  at every await.
- **Check, then act.** Leases, projections, lock files, caches, dispositions and
  summaries are read and used across awaits and across processes.
- **Replacing what is in use.** A runner is rebuilt while its runs go on and while
  further saves arrive; a data root is moved by the start that follows the request,
  over crashes in every step.
- **Bounded memory.** Ledger, queue, deferred list and histories forget; what
  they forget must still be recognized, or must not matter.

`PROJECT.json` lists under `hazards` where the code is exposed to this, with the
properties that would catch it, or the reason none does.

## 2. The modules

```
DurableKernel  one run's stream and rules      Mutex      Ownership    SummaryChain
   ^ implements      ^ implements                ^            ^             ^
DurableAppend     DurableRun                  FileLock    RunLease    SessionSummary

DurableInbox  ToolBatch  EventQueue <- RuntimeQueue, RunEvents
RunCheckpoint  CompactionScheduler  UsageIndex  RunnerLifecycle  DataRoot
```

DurableKernel, Mutex, Ownership and SummaryChain are the abstract
specifications; the arrows are refinements, checked by TLC and proved. A module that uses another component at a coarser grain
says so: the stores are one step per operation because FileLock shows what the
lock gives them, the appends of DurableRun, ToolBatch and DurableInbox are one
step because DurableAppend implements DurableKernel, an effect's lease is the
lease of RunLease under another key.

**DurableKernel** is the kernel's state machine. `run` is the projection,
`ValidTransition` is `validateTransition`, `Reducible` the checks only the
reducer makes, `Apply` the reducer. `AppendEvent` accepts an event;
`AppendUnreplayable` accepts one that every later replay throws on: the stream
is then unreadable, `refused` says why. Payloads are abstracted to the fields
the rules compare: identities, owners, epochs, attempts, statuses. `succeeded`,
`failed` and `cancelled` effects are `known`: no rule tells them apart.

**DurableAppend** is `DurableHarnessKernel.append` over
`DurableEventStore.append`: read the stream and validate, reserve the reply,
store under the partition lock with the expected cursor, retry a moved cursor at
most `MaxAttempts` times. Several kernels do this at once, crash, and are asked
again for the same identity. `KernelSpec` says that it implements DurableKernel
(the variables `run` and `refused` are shared, so the refinement mapping is the
identity).

**DurableRun** is one run from `run_accepted` to the release of its lease. The
Runner's control points are `live.pc`; the actions follow `executeRun`, FINALIZE,
the publication gate, the catch blocks and `recordDurableRunOutcome` in the order
of the code:

| actions | code |
|---|---|
| `Accept`, `AcquireRunLease`, `RecordUserInput` | `runner.ts` 741-794, lease store `acquire` |
| `StartRequest`, `Answer`, `AppendResponse`, `AppendSettlement`, `SettleUnanswered`, `FlushFails`, `FlushReturns` | `model-observability.ts` |
| `BeginSideEffect`, `InvokeTool`, `CancelTool`, `FinishSideEffect` | `side-effect-ledger.ts`, `side-effect-lifecycle.ts` |
| `LeaveStages`, `ReserveReply`, `ProposeReply`, `AppendTranscript`, `SettleReply`, `SettleRegistry`, `PromoteTranscript` | `finalize.ts`, `session/src/manager.ts` |
| `SettleOutcome`, `Persist`, `ReportRuntimeFailure`, `DecideOutcome`, `RecordOutcome`, `ReleaseRun` | `runner.ts` 1220-1384, `durable-run-recorder.ts` |
| `DiscoverQueue`, `DiscoverEvents`, `CheckLease`, `DiscoverRetry` | `run-recovery.ts`, lease store listing, `conversation-turn-recovery.ts` |
| `AcquireForRecovery`, `ReadPending`, `ClaimEffect`, `ReleaseAfterRecovery` | `durable-run-recovery.ts`: run lease, pending effects, their leases; the finally block |
| `Begin`, `Replay`, `CloseModel`, `CloseEffect`, `WorkClosed`, `RecoverOutcome`, `RecoverReply`, `RecoverRegistry`, `RecoverPromotion`, `CloseRun` | `recoverRun` |

Every append may be refused by the rules, or fail in the store with or without
having stored its event (`Append`); every store operation may fail (`Fault`); the
process may crash between any two steps (`Crash`). A recovery pass works on the
projection of its last replay (`view`), never on the current stream. One effect
is asked for once here; retries and eviction are in ToolBatch. Besides the lease of
the run there is one of each effect (`effectLease`): the Runner takes it before the
intent and releases it after the settlement, or keeps it to the end of the run. A
dead process leaves both behind, and they expire in any order (`Expire`,
`ExpireEffect`), because each has its own heartbeat. A pass that owns the run claims
every pending effect before `recoverRun`; when one is still leased it gives up
(`refused`) and releases what it holds, the run's lease with it. A live process
renews its leases in time here; failing heartbeats are in RunLease and ToolBatch. Ingress is the append the inbox ends in; the inbox is DurableInbox.
`DiscoverRetry` may happen whenever the run is over and not terminal, which is
more than the code allows. A rejected lifecycle promise stays rejected, so every
later flush fails (`broken`).

**FileLock** is one action per file operation of `acquireLock`,
`tryAcquireLock` and the release: exclusive create, write, read-back, and for
somebody else's file read, stat and unlink. `late` are the callers past their
deadline. A file is old when its last write is longer ago than the creation
grace; the steps of one attempt take less than the grace, so an empty file does
not grow old under a creator about to write it. Faults: an owner dies, a write,
a read-back, an unlink fails. `MutexSpec` maps the callers that hold an
abandon-free lock to Mutex.

**DurableInbox** is the command store with its lock and its per-process cache:
`Enter` takes the lock or joins the batch that is open in the process (an async
context of the code), then each operation reads through the cache, decides and
writes. `claims` number the claims of a command; a lease that ends is an element
of `expired`. `Materialise` is the append of the processor, with its refusal
(`Illegal` commands) and its failure. `WarmNext` are the behaviours in which a
process has scanned the directory before its calls. A set of deferred records that
has become empty counts as none, as in the code until the next write
(`inbox-cache.ts` 250); no instance empties one.

**RunLease** is a set of processes, their worker on each run, their heartbeat
and the two recovery passes of a start. All leases have one length, so deadlines
are the numbers of the grants and time is the last deadline that has passed.
`Recover` of a run that had an owner before may end in `refused`, because an effect
of that owner is still leased (whether one is, DurableRun says). `Abs` gives the
owner of a run; `LeaseOwnership` is that the leases implement Ownership.

**ToolBatch** is `executeBatch`: preparation and repeat limit, the waves of the
scheduler, and around each invocation `beginSideEffect` and `finishSideEffect`
with their awaits as separate steps. The code sorts the admitted calls into waves
before it runs the first; here each wave is taken when it begins, as the longest
prefix of the waiting calls of which no two conflict (`Together`), which gives the
same waves. The ledger is replaced as a whole, from a
copy read earlier (`snap`). `shared` are the calls that have had company in their
wave; no action reads it, properties do. Effects are identified by their operation and the
attempt; `intents` and `settled` are the events of the stream, `leases` the
effect leases, `running` what really executes, a tool that ignored its abort
included.

**EventQueue** is `RuntimeEventQueue` as a value: records by sequence number, the
next number and the cursor, with append, decide, prune, snapshot and restore as
operators. **RuntimeQueue** is a machine of clients, decision batches with a
lease, and expiry on it. **RunEvents** puts it into the stage loop: the boundary
before each stage, the captures of the tool loop, control requests through the
registry (`Request`, which looks at what is shown) and as plain events (`Post`, which
does not), the routes by EXECUTE or REPLY, recovery attempts, and the continuation
of a run from its checkpoint. The checkpoint of a run that asks the user
(`clarificationRequest`, `run-checkpoint.ts` 41) is left out: that run is continued by
the user's answer alone.

**RunCheckpoint** is the disposition of one checkpoint and everybody who writes
it: turns through the chat or the resume route, the abandon route, the recovery
pass of a starting application in its steps (list, lease, interrupt, reconcile
with the execution logs, complete, seal), crashes and rebuilds of the runner.

**CompactionScheduler** is the scheduler with its flights, its soft limit,
joining, waiting and cancellation, and the history store with its temporary
file; **SessionSummary** what one operation does to the session: read, ask a
model, and the journalled commit in its steps under the session's lock, the
recovery of transactions, the sweep of proposals of older builds, the deletion.
`ChainSpec` maps the active summary to SummaryChain.

**UsageIndex** is the mark before a usage event, the event, and the service:
synchronization of marked runs, bounded backfill, persistence and the
acknowledgement that removes a mark. A run is a count of events, its revision
that count.

**RunnerLifecycle** is the build queue and who asks for a build: the start of the
application with its retries, the route that saves the configuration and the
route that saves a key. A build is split where it awaits: `Release` (idle retired
runners are shut down), `Begins`, `Publish` (the router), `Attach` (the plugin
host), `Retire`. Configurations are compared by identity in the code and by a
`token` here. Promise continuations run before the next input or output, so the
head of the queue decides whether it has anything to do before any other step
(`Deciding`), in the order of the calls (`builds`). Requests take the runner, prepare
(`OpenStream`), start their run on it (`Run`) and end; `LoadHost` may come at any time
after the first build, since `loadPluginHost` is not awaited.

**DataRoot** is the locator file, the directories and the staging directory of each
migration, with a start of the application as a sequence of steps that may each
fail or be the last: `Prepare` (rollback), `Begin`, `Mirror`, `Rebind`, `Verify`,
`Seal`, `Clear`, `Rename`, `Commit`, `Record` (the failure), `Open`. A directory's files
are the number of the last write and the root their metadata is bound to; a copy
that was cut off is `Partial`. A manifest is the content it was made of.
A locator that cannot be read is taken for the default one, by a start and by the
requests of the user (`Forget`, `ForgetUnread`, which write it back). `faults` lists the kinds of the failures so far, so that a property can say which of
them it needs to be absent: a read of the locator, a write of it, a copy, the two
renamings, the switch, a foreign file that appears in the target.

### Instances

TLC runs several components side by side in MCStores, MCSessions, MCDesktop,
MCAgent, MCDurableLive and MCAgentLive: a variable `instance` says which one
works, the others rest in their initial state. Their behaviours are exactly
those of the instances, and a property of such a module is a conjunction of the
components' properties, each in the instances it is stated for.

A composite EXTENDS the modules of its components, so that the constants of its
configuration are theirs and its properties are the definitions the theorems of
section 5 are about: MCStores DurableInbox, FileLock and UsageIndex, MCSessions
RunCheckpoint, CompactionScheduler and SessionSummary, MCDesktop DataRoot and
RunnerLifecycle (RuntimeQueue and RunEvents are instantiated), MCAgent RunLease and
ToolBatch, MCDurableLive FileLock (the lock without faults). A further instance of a
component either has other constants (`Failing`, `Dying`, `Again`, `Parallel`, `Shared`, `Deleted`) or
takes the component's steps under one more condition (`OneNext`, `TwoSessions`,
`OneSession`, `Two`, `SaveStep`, `KeyStep`), which leaves behaviours of the component
and nothing else.
## 3. What the runs show

| run | instances | question | expected |
|---|---|---|---|
| `kernel` | two requests, two effects | what do completed, published and terminal runs promise, over every legal event sequence? | holds |
| `kernel_replay` | the same | is an accepted completion always readable? | violated (finding 1) |
| `append` | two kernels, five events | do concurrent appends implement the kernel, store and acknowledge an identity once, reserve before they settle? | holds |
| `run` | two requests, one effect, two faults, one crash | is a run safe against crashes, failing stores and recovery at any step? | holds |
| `stores` | lock with faults; inbox of two processes, cold and warm, inbox of one process; usage in one and in two processes | who may hold a lock, how and by whom is a command settled, is a usage event forgotten? | holds |
| `lock_steal` | lock | is the lock exclusive when a dead owner's file is stolen? | violated (finding 2) |
| `sessions` | checkpoint resumed through the route, checkpoint answered in the chat; scheduler of one and of two sessions; summaries with three attempts, with crashes, with an older build's proposals, with a deletion | is a checkpoint resumed twice or again, what does the summary chain of a session promise? | holds |
| `desktop` | queue of one and of two places; run with a continuation, run with room; runners under saves, runners under saved keys; data root with failures and a crash | is an event lost, heard twice or decided twice; is a save in effect and every runner accounted for; is the active root whole? | holds |
| `key_save` | runners under saved keys | is a saved key in use once the request is answered? | violated (finding 3) |
| `agent` | lease of three processes with two deaths, lease of two processes with failures and a death; tool batches in parallel, one by one, with a file that is rewritten, of opaque operations, of shell commands | who owns a run, does the lease implement an exclusive ownership and every path out release it, is an effect repeated? | holds |
| `durable_live` | append, run, lock, lease, inbox; lock without faults | does what was begun end, and what was abandoned get taken up; is a lock without faults a mutual exclusion? | holds |
| `agent_live` | tool batch, run, usage, checkpoint, scheduler, summaries, runners | the same of the components around the run | holds |

A property a run lists is a conjunction of the properties of its components, which
are stated in words above their definitions:

| property | of | parts |
|---|---|---|
| `PastIsKept` | DurableKernel | `CompletedIsForever`, `TerminalIsFinal`, `HistoryIsKept` |
| `PublicationIsOrdered` | DurableRun | `CompletedRunPublished`, `SettledReplyIsPersisted`, `StoresFollowEvent` |
| `ReportIsTrue` | DurableRun | `OkIsPublished`, `EndedRunIsClosed` |
| `OneHolder` | FileLock | `FileLockTypeOK`, `ExclusiveUntilAbandoned` |
| `MutexSpec` | FileLock | refinement of Mutex |
| `RunIsOwned` | RunLease | `LeaseTypeOK`, `OneOwner`, `OwnerIsAtWork` |
| `CommandsAreTrue` | DurableInbox | `InboxTypeOK`, `CompletedHasEvent`, `SettledByClaimant` (`ClaimantSettles`); without failures `AcknowledgedNotFailed`, `FailedHasNoEvent` |
| `CommandsAreFinal` | DurableInbox | `ClaimsAreFenced` of warm processes, `CompletedStays` |
| `LeaseOwnership` | RunLease | refinement of Ownership |
| `CompactionIsOrderly` | CompactionScheduler | `SchedulerTypeOK`, `SingleFlight`, `HardRuns`, `CancelledIsReported`, `DrainedIsQuiet` |
| `SummariesAreKept` | SessionSummary | `SummaryTypeOK`, `ActiveIsStored`, `CompactedIsActive`, `OpenIsNotIsolated` |
| `ChainSpec` | SessionSummary | refinement of SummaryChain |
| `MessagesAreHeard` | RuntimeQueue, RunEvents | `QueueTypeOK`, `UndecidedAreKept`, `RetriesAreOne`, `NumbersAreForever`; `EventsTypeOK`, `HeardOnce`, `EarlyIsHeard` |
| `DecisionsAreObeyed` | RuntimeQueue, RunEvents | `DecisionsAreFinal`; `KeptUntilHeard`, `ControlIsObeyed` (`ObeyControl`) |
| `RunnersAreKept` | RunnerLifecycle | `LifecycleTypeOK`, `NoRunnerIsLost`, `RunsAreWatched`, `HostFollows` |
| `SavedIsInEffect` | RunnerLifecycle | the property of that name |
| `ActiveIsWhole` | DataRoot | `DataRootTypeOK`, `ActiveIsWhole` |
| `DataIsKept` | DataRoot | `TakesOver`, `KeepsPrevious` |
| `EffectsAreMadeOnce` | ToolBatch | `BatchTypeOK`, `EffectsAreLeased`, `EffectsDiffer`, `SettledOnce`, `RunsAreSerialized` |
| `NoReplay` | ToolBatch | `NotReplayed` of every operation that declares a write or runs alone |
| `LedgerIsTrue` | ToolBatch | `OkIsSettled`, `LedgerIsBacked` |
| `UsageIsCounted` | UsageIndex | `UsageTypeOK`, `NoReceiptIsHidden`, `RecordsAreComplete` |
| `OneResumer` | RunCheckpoint | the property of that name |
| `ResumesAreFinal` | RunCheckpoint | `CheckpointTypeOK`, `ResumedHasEnded`, `AnsweredOnce`, `FinishedStays` (`ClaimUnfinished`) |
| `CallsReturn` | three | `AppendReturns`, `AcquireReturns`, `CallReturns` |
| `DeadWorkIsTakenUp` | three | `DeadRunIsClosed`, `SettledReplyCompletes`, `AbandonedIsReclaimed`, `ListedOrphanIsRecovered` |
| `WorkEnds` | five | `BatchesReturn` (`BatchAnswered`), `RunEnds`, `RequestsAreAnswered`, `AttemptsEnd`, `SavesReturn` |
| `RecordsAreSettled` | two | `EventsAreCounted`, `ResumeIsDecided` |

The parts that carry the most:

- `CompletedRunAccounted`, `PublishedRunNeverFails`, `TerminalIsFinal`,
  `HistoryIsKept`: what a reader of a projection may rely on whatever events
  follow, including the audit closures that are accepted after the end.
- `KernelSpec`: a check made on a stale read never lets an illegal event land.
- `CompletedRunPublished`, `SettledReplyIsPersisted`, `StoresFollowEvent`: the
  order of the stores survives every crash and every failing step.
- `OneDriver` (`OneLeaseHolder`, `EffectsAreHeld`), `OneOwner`, `LeaseOwnership`: listing, second look, `acquire` and
  renewal together keep everybody else off a run that is driven, as long as its
  process lives, however late its heartbeat is; and whoever makes or settles an effect
  holds its lease, although recovery reads the open effects twice.
- `ToolRunsOnce`, `NoReplay`, `EffectsDiffer`, `SettledOnce`, `EffectsAreLeased`: an
  effect is made once and an operation that may have had one is not repeated,
  whatever was evicted, timed out, stored uncertainly or asked for again in the same
  wave.
- `MutexSpec`, `ExclusiveUntilAbandoned`: the lock is a mutual exclusion, and an
  abandoned file the only thing that lets two callers in.
- `CompletedHasEvent`, `AcknowledgedNotFailed`, `SettledByClaimant`,
  `ClaimsAreFenced`, `CompletedStays`: a command is settled by its claimant, as
  what happened to its event, for good.
- `KeptUntilHeard`, `HeardOnce`, `EarlyIsHeard`: a message crosses queue, deferred
  list, checkpoint and continuation without being lost or doubled.
- `OneResumer`, `ResumedHasEnded`, `FinishedStays`, `AnsweredOnce`: one resume of a checkpoint at a
  time, none after it has finished, and a
  record that says resumed names a run that has ended.
- `ChainSpec`, `CompactedIsActive`, `ActiveIsStored`: every summary is made from
  the one it follows, and one that was reported is in the chain and can be read.
- `SavedIsInEffect`, `NoRunnerIsLost`, `RunsAreWatched`, `HostFollows`: what was reported
  as saved configures the next run; every runner that is up is current, retired or
  being replaced, with its runs and the plugins where they belong.
- `ActiveIsWhole`, `TakesOver`, `KeepsPrevious`: whatever start died where, the
  locator names a whole directory bound to itself, which took over the last write,
  and the previous one is as it was left.
- `NoReceiptIsHidden`, `RecordsAreComplete`: every usage event is counted or
  marked, and a record is never poorer than its revision says.

### Scope of the properties

Some parts hold on a part of the behaviours only; what lies outside is a
divergence of section 4 or documented so in the code. `OkIsSettled` and
`LedgerIsBacked` are stated for calls that had their wave to themselves (calls of one
wave may lose each other's ledger entries, divergence 8), `EarlyIsHeard` and
`ControlIsObeyed` for one run with room for its messages that works with its
tools, `ClaimsAreFenced` for warm processes, `CompletedStays` for warm processes
and for one process across its crashes, `SettledByClaimant` for processes with one
caller, `NoReceiptIsHidden` for writers that own their run in the service's
process or take the lock, `OneResumer` for answers in the chat to a
waiting checkpoint, rebuilds of the runner included, and for any turns without a
rebuild, `FinishedStays` for answers in the chat and for checkpoints that wait for
none, `ListedOrphanIsRecovered` for the runs a starting pass has listed or
armed its timer for, and like `DeadRunIsClosed` up to a pass that finds an effect of
the run leased and gives it up (divergence 30), `ActiveIsStored` for sessions that are not deleted,
`AcknowledgedNotFailed` and `FailedHasNoEvent` without failing appends and writes, `SavedIsInEffect` until a key is saved,
`RunsAreWatched` but for the runs of the runner just published and of the one it
replaces until that replacement ends (`run-activity-monitor.ts` 19 says of current and
draining runners that they are aggregated: the new one is no source until it is
attached, and an inspection of a retired runner in between drops the one that is
being replaced), `NoReplay` for operations of which two calls cannot overlap, those
that declare a write or run alone; of the others, which the repository's own tools
are not, four or more identical calls at once may lose each other's ledger entries,
`KeepsPrevious` until a read of the locator has failed, `TakesOver` until a read or a
switch of it has (divergence 27). The definition in each composite names
the instances.

### Bounds

`MCKernel.cfg` needs none: identities are finite and each is used up, so
the state space is complete for two requests, two effects, one worker (an owned
and an unowned effect), one reply, outcome, epoch and attempt; two of a kind are
enough to have one settled and one pending. `MCAppend.cfg` has two kernels, eight
inputs over seven identities (two contents for one identity), two attempts and
five events: short enough to fill the stream, long enough for conflicts at every
position. `MCRun.cfg` has two requests and one effect, two outcomes (the one only
recovery writes among them), two faults and one crash: two faults are a fault in
the Runner and one in the recovery that follows, or an uncertain append and the
failure of its handling; one crash puts a dead Runner before a recovery pass, and
a second crash is in `durable_live`, which has no faults.

Locks have three callers, for the interesting thefts need an owner, a thief and
one more; leases three processes, for the third must find the lease of the
second, or two of them with two failures and a death (`MaxGrants` leaves everybody
a grant, `LastRenewal` where there are failures one renewal); an inbox two callers with one legal and one illegal command, and claims
enough for a requeue of a requeue. Tool batches have one to three rounds of up to
five calls, so that an operation is repeated in its wave, after its wave and in the
next round, with ledgers of two entries where eviction is the question; a repeat
limit of three and five writes of one file reach the third repetition and its
refusal (`Capacity`, `MaxRepeat`, `MaxParallel`, `MaxBatchFaults`). Queues
hold one or two events where pruning is the question, and all messages where it
is not. Usage has two runs (one may stop the other) of two events, one of which
has an event from before (`History`); a checkpoint
two turns, one of which is a retry or a rival of the other; a session three
compaction requests (one at work, two behind) and two or three attempts at its
summary over three or four messages. Three saves are enough
to have one that lands during the build of the other after one has failed, a key to
have a rebuild without a new configuration, four runners to replace, retire and fail
in between, with a bound of two retired runners that two streams reach; a data root moves among three directories, twice, which includes moving
back, with two failures of any kind and a crash. `MaxFaults`, `MaxCrashes` (`MaxLockFaults`,
`MaxUsageFaults`, `MaxSummaryFaults`, `MaxSummaryCrashes`, `MaxBuildFaults`,
`MaxBatchFaults`), `MaxRebuilds`, `MaxDeletes`, `MaxAbandons` bound how often the environment interferes, `MaxCalls`,
`MaxLockCalls`, `MaxUsageRequests`, `MaxSaves`, `MaxKeys`, `MaxMessages`, `MaxSends`, `MaxRequests`, `MaxClaims`, `MaxGrants`, `MaxTime`, `MaxSeq`,
`MaxRestores` how long a behaviour goes on: one or two of each, since every
operation starts again from the stores alone.

`agent` uses the symmetry of the processes of the leases; no property names one.

Deadlock is on in `append` and `run`. It is off where the system may stop: a
completed run accepts nothing but stage audit events, a stream that no longer
replays accepts nothing, and in the other runs everybody has made their bounded
calls at the end; that nobody waits for ever is what the two live runs check.

### Fairness

Submissions, user requests, faults, crashes and deletions are never fair. Fair
are steps of running code and time:

- `AppendFairness`, `InboxFairness`, `FileLockFairness`: an operation in flight is
  a promise chain over local files, its next step is taken; a file grows old.
- `RunFairness`: the Runner's process is scheduled; time passes (the leases of the run
  and of its effects expire, in any order); the queue's task finds an expired lease
  (it runs at every start and at the wake-up) and goes on with its recovery
  (`QueueTask`), and so does that of the events, which runs at each start, with a dead
  run without a lease record (`EventsTask`). The retry of a turn is the user's choice and not fair.
- `LeaseFairness`: the workers and passes of a live process go on, timers fire.
- `BatchFairness`: the service goes on with its rounds and waves, the calls with
  their steps; a tool may hang, but its call is cut short by the timeout and the
  grace period.
- `EventsFairness`: the stage loop goes on; it holds for the model's answers,
  because a request has a deadline.
- `UsageFairness`: writers finish an append they began, the service its operation,
  and a query synchronizes again.
- `LifecycleFairness`: builds end one way or another, a file is written; saves,
  requests and the ends of runs are not fair.
- `CheckpointFairness`, `SchedulerFairness`, `SummaryFairness`: turns, recovery
  passes, operations and drains that began go on.

Weak fairness is enough everywhere: each of these steps stays enabled until it is
taken or its actor is gone. The liveness properties are written `[]<>` or `<>[]`
instead of with `~>` where both say the same because what was begun stays begun
until it has ended (an operation is idle again, or it was never started); TLC
decides these forms without a tableau, which the composed runs need.

`durable_live` has no store faults: with a store that fails, completion is not
guaranteed (section 4, divergence 3), and with a stale lock file that cannot be
removed an acquisition does not return (divergence 4).

## 4. Findings and divergences

Three findings have a run that shows them:

1. **An accepted completion may be unreadable** (`kernel_replay`). `append` does
   not check pending model requests on `run_completed` (`durable-kernel.ts`
   851-854), the reducer does (811). After such an append every replay throws.
   The Runner and recovery never get there (`StreamReplays` holds in `run`), since
   they close every lifecycle first and prepare no request after the reply; the
   kernel relies on them.
2. **The read-back does not make a theft exclusive** (`lock_steal`). The comment at
   `session/src/lock.ts` 49-51 relies on it, but a second thief that judged the
   same dead content unlinks the lock the first one has meanwhile confirmed.

3. **A saved key is not used** (`key_save`). `index.ts` 91 says that a rebuild is
   triggered by a key change. The route puts the key into the environment and
   calls `rebuild` (`runtime-routes.ts` 297), which compares configuration objects
   (`runner-lifecycle.ts` 123) and returns the runner whose client resolved the old
   key when it was built (`runner/src/infra.ts` 192).

The following divergences between code and text were met while modelling. Each
is in the model: the property named is defined in its module, and the
behaviour is what the listed runs exclude from the scope of their properties.

| | property | code | text it contradicts |
|---|---|---|---|
| 1 | `RuntimeStatusIsTerminal` (DurableRun) | `durable-run-recorder.ts` 193-205: replay, then append; a recovery pass in the window between `run_accepted` and the lease settles `waiting_user`, and `run_failed` follows | `durable-run-recorder.ts` 189-191: a settled Runtime status is terminal |
| 2 | `LiveRunsNotRedriven` (RunLease) | `run-recovery.ts` 209: the events pass takes a run that is accepted and not yet leased | `run-recovery.ts` 134-136: the lease check keeps it off live runs |
| 3 | `SettledReplyCompletes` with one fault (DurableRun) | `runner.ts` 1295, 1368: the run releases its lease after a failed registry or transcript step, and neither pass takes a run with a released lease | `runner.ts` 1295-1297: recovery retries the missing step |
| 4 | `AcquireReturns` with failing unlinks (FileLock) | `lock.ts` 143: a failed theft loops past the deadline | `lock.ts` 108: throws on timeout |
| 5 | `OrphansAreRecovered` (RunLease) | `run-recovery.ts` 262: a lease that expires between the listing and the search for the next expiry is in neither | `run-routes.test.ts` 93-94: the pass records the live claim's expiry |
| 6 | `CompletedStays` of two callers in one process (DurableInbox) | `durable-inbox-lock.ts` 18: an enqueue inside somebody else's batch writes back what it read before it | `durable-inbox-cache.ts` 7-9: completed commands are terminal |
| 7 | `CompletedStays` of cold processes (DurableInbox) | `durable-inbox-cache.ts` 137: with deferred records a full read is not compared with the directory | `durable-inbox-cache.ts` 117-120: no caller observes a list that lost a record |
| 8 | `OkIsSettled` (ToolBatch) | `side-effect-ledger.ts` 349-372: the ledger is read, awaited over and replaced; a concurrent entry is lost, its call answered ok and never settled | `side-effect-lifecycle.ts` 107: settlement precedes the projection |
| 9 | `NoReceiptIsHidden` of another process's owner (UsageIndex) | `durable-event-store.ts` 158: appended without the lock the acknowledgement holds | `durable-event-store.ts` 74: a later append wins |
| 10 | `ReadableAreCounted` (UsageIndex) | `provider-usage-daily-service.ts` 83: one unreadable run ends every synchronization | 77: indexes pending calls before serving a query |
| 11 | `CompleteIsCovered` (UsageIndex) | `provider-usage-daily-service.ts` 167: the failure of a step is forgotten by the next | 177: steps until the history is covered |
| 12 | `EarlyIsHeard` on the REPLY route (RunEvents) | `durable-harness.ts` 130: marked delivered before there is a route | 134: delivered even if the turn would have taken REPLY |
| 13 | `EarlyIsHeard` of a continuation (RunEvents) | `runner.ts` 2521: queued ids are restored as deferred ones and then taken for duplicates | `types/src/agent.ts` 160: retained instead of silently lost |
| 14 | `EarlyIsHeard` with a full deferred list (RunEvents) | `runtime-control-boundary.ts` 328: dropped as a conflict | `runtime-task-events.ts` 155: handled at a safe boundary |
| 15 | `LateIsHeard` (RunEvents) | `active-run-registry.ts` 205: accepted after the last boundary, disposed with the queue | the same |
| 16 | `ControlIsObeyed` of a continuation (RunEvents) | `runner.ts` 2591: a queued pause is restored and obeyed while the registry shows running | `runner.ts` 2588: must not stop the continuation |
| 17 | `OneResumer` after a rebuild (RunCheckpoint) | `run-router-publisher.ts` 40: a new router does not know the runs of the retired one | `run-recovery.ts` 55-56: an active run is left alone |
| 18 | `ResumeIsDecided` through the resume route (RunCheckpoint) | `run-recovery.ts` 185: a repeated turn makes the dead claim look live | `run-routes.ts` 113-117: every stale lease is released |
| 19 | `FinishedStays` of an early resume (RunCheckpoint) | `run-recovery.ts` 185: the routes wait without a session, which waits for nothing | `run-routes.ts` 165-168: they observe the recovery pass |
| 20 | `AbandonedIsIdle` (RunCheckpoint) | `run-checkpoint-routes.ts` 176: looks, reads the body, writes | 173: a resuming checkpoint is not abandoned |
| 21 | `DrainedIsSaved` (CompactionScheduler) | `session-compaction-scheduler.ts` 230: the flight is gone before its history is saved | 170: drain waits for owned operations |
| 22 | `HistoryHolds` (CompactionScheduler) | `compaction-operation-store.ts` 20: one temporary path, no lock | 1-4: durable, append-only |
| 23 | `CancelledBySelf` (CompactionScheduler) | `session-compaction-scheduler.ts` 124: a joined hard request gets another's cancellation | 56: hard pressure must run |
| 24 | `AbortReaches` (CompactionScheduler) | `session-compaction-scheduler.ts` 121: the signal of a joined request reaches nothing | 58: aborts the operation started or joined |
| 25 | `TransientStaysPending` (SessionSummary) | `compaction-store.ts` 126: a transient failure of the recovery isolates | 79: transient failures stay pending |
| 26 | `DeletedIsGone` (SessionSummary) | `manager.ts` 517: summaries removed after the lock, an attempt goes on | `deletion-impact.ts` 3-4, 29 |
| 27 | `TakesOver` with a failing commit (DataRoot) | `data-root-migration.ts` 253-255: a failure after the renaming leaves the operation committing, the application runs and writes on the source, and the next start switches to the target without those writes; meanwhile it cannot be cancelled (150) | `index.ts` 270-272: must finish before any writer starts |
| 28 | `SavedIsInEffect` beside saved keys (RunnerLifecycle) | `runner-lifecycle.ts` 166-176: a rebuild for a key, after a save whose rebuild failed, reads the configuration, awaits the release of idle runners and makes what it read the accepted one again, over a save that landed in between; that save is then reported as done | `runtime-config-change.ts` 79-85: no success for a setting no run is using |
| 29 | `NotReplayed` without the last case of `MayRepeat` (ToolBatch) | `side-effect-ledger.ts` 64-83, 238-250: once one attempt has succeeded, the outcome of later attempts is not looked at; a write that succeeded, was overwritten, repeated and cut short, and overwritten again is made a third time | `side-effect-ledger.ts` 54-56: an unknown or in-progress settlement keeps the refusal |
| 30 | `DeadRunIsClosed` without its second part (DurableRun) | `durable-run-recovery.ts` 33-37: a pending effect of the dead process is still leased, since its heartbeat is not that of the run; the pass throws, and its finally block releases the run's lease. Neither pass takes a run with a released lease (`durable-run-lease-store.ts` 241-245, `run-recovery.ts` 209), so it stays open with its effect after one crash and no fault | `run-recovery.ts` 220-221: a concurrently owned run must remain visible for a later operator decision (`durable-run-recovery.test.ts` 41-57 expects the released lease) |
## 5. What is proved

TLAPS checks, for every value of the constants:

- **DurableKernel_proofs.** `TypeCorrect`; `KernelInvariant`, the inductive
  invariant: the conjunction of type, `CompletedRunAccounted` and
  `PublishedRunNeverFails`. They are inductive together: that nothing happens to a
  completed run, audit closures included, follows from its having nothing open,
  and that it stays published from its being completed. From it `CompletedAccounted`,
  `PublishedNeverFails`, and the action properties `CompletedForever`,
  `HistoryKept`, `TerminalFinal`, together `PastKept`.
- **DurableAppend_proofs.** The invariant `AppendInv` adds what an append in
  flight knows: either its own event is stored, or what it checked still holds for
  as long as the stream has the length it read; and no settlement is about to be
  stored without its reservation. From it `AppendImplementsKernel`,
  `SettledReserved`, `StoredOnce`, through the kernel's theorems `AppendedRunSafe`,
  and `AcknowledgedTrue`: an acknowledged event is in the stream, and one kernel at
  most reports to have been the one to append it.
- **DurableRun_proofs.** The invariant `RunInv` adds that a proposed reply has a
  name, in the stream and in every pass's view, that the effect in the Runner's
  hand is in its ledger with a durable intent, and that the ledger knows every
  tool that ran. From it `ToolsRunOnce`, `RunImplementsKernel` (each step of the Runner
  and of recovery is a step of the kernel or leaves the stream alone) and `RunSafe`. A second invariant,
  `PublicationInv`, is inductive given the first: what a proposed and a settled reply
  leave no room for in the stores (`StoresInv`), what is settled at each control point
  of the Runner and that it holds its lease there (`LiveInv`), that it knows the
  requests that are open in the stream unless one of its appends has failed
  (`ModelsOpen`), what a pass has read and settled on its way (`PassInv`), and that
  without a fault no effect is open but the one in hand (`FaultFree`). From it
  `PublicationOrdered`, `StreamAlwaysReplays` and `ReportTrue`: who acts is what
  `OneLeaseHolder` says, so nobody else changes what a pass has read. Third,
  `EffectInv`, that whoever works on an effect holds its lease. Recovery reads the
  pending effects, claims them, and reads them again in `recoverRun`; so it needs that
  an effect pending in the stream while a pass claims is one that the pass read or
  already holds (`ClaimsPending`): only the Runner makes one pending, and it does not
  act while a pass owns the run. From it and the first invariant `RunTypeCorrect` and
  `RunHasOneDriver`.
- **Agent_proofs**, of RunLease and ToolBatch. `LeaseInv`: every part of a process that acts on a run, its
  worker or one of its passes, is named by the run's lease (`RoleHolds`), no two
  parts act on one run (`OneRole`), and a token is a grant that was made (`Tokens`). It
  holds whatever fails and gives `LeaseTypeCorrect`, `RunHasOneOwner` and
  `LeaseImplementsOwnership`, for any number of processes, runs, deaths and grants.
  `Unfailing` is what holds while nothing has failed: no heartbeat has given up, who
  acts knows its token, an active lease of a live process has somebody who acts;
  hence `OwnersWork` and `RunOwned`. `BatchInv` has four parts: the types; `ScheduleInv`, each call
  waits in one place and the calls of a wave are pairwise apart; `MakerInv`, an effect
  has one maker at a time, who holds or has lost its lease, and an effect that is
  being made has its intent and no settlement yet; `BegunInv`, what has begun has its
  intent, so that whoever stores an intent makes an effect nobody has begun. Hence
  `EffectsMadeOnce`, for any batches, declared resources, limits and failures.

  Two more arguments are about the ledger, which loses entries and is written back
  from copies older than it (`Ledgers`: the current one and every copy in a call's
  hand). `LedgerInv`: each of them has an effect once, with the call that made it; an
  effect it calls ended has its intent (`FinalIsIntended`) and, for a call without
  company, its settlement, unless that call is about to settle it (`LedgerBacked`); an entry that
  one has and another lacks has its intent or is of the wave (`LostIsIntended`). Hence
  `LedgerTrue`. What a new call is told depends on the entries that are left and on their order,
  so `NothingReplayed` needs more. `OrderInv`: an effect that is being made is ended in
  none of them (`MadeIsOpen`), what they say of an effect became of it
  (`StatusIsVerdict`), entries of the wave are last, entries that write the same are
  in the order in which they began (`LedgerOrder`), two of them differ only about
  operations that are at work (`StatusesAgree`). `NumberInv`, until the run is aborted,
  after which nothing begins: the attempts of an operation are numbered; an entry is
  lost only when it is at rest, and the older attempt before the newer
  (`LostAreRested`, `EvictsInOrder`, `NumbersRise`); an effect about to begin has
  the highest number of its operation (`Newest`), the numbers below it were used (`Covered`), and what began
  under them may be repeated (`EarlierMayRepeat`); a shell command is open in all of them
  until its end is known (`ShellIsBlocked`, `ShellSettles`). So whatever begins may repeat what began before.
- **RunCheckpoint_proofs.** `EndedInv` relates the place of a request to the log and
  the reply of its run; it gives `EndedInvariant` and, with the routes, `ResumesFinal`.
  `SingleResumer` has two arguments: `Spared`, that whoever works from the checkpoint
  holds its record unless the record is final, rests on the active streams of one
  router and ends with a rebuild; `Loyal`, that whoever worked from the checkpoint is
  the one its record names, rests on the key of an answer and survives rebuilds. So
  `SingleResumer` assumes no rebuild or a waiting checkpoint without the resume
  route, and `ResumesFinal` that a waiting checkpoint is not resumed through the
  route. Outside these hypotheses divergences 17 and 19 are counterexamples.
- **Stores_proofs**, of DurableInbox and UsageIndex. `CommandsInv`: a completed command has its event, which the
  kernel accepted, and so has one about to be completed (`Stocked`); without
  failures, whoever gives a command up has seen its event refused or has lost its
  claim (`Blameless`); and for callers in processes of their own, a read and its
  write are under the lock (`Locked`). It gives `CommandsTrue` without hypotheses. `WarmInv` adds that no cache
  is behind the files where that does harm (`Coherent`) and that a claim whose lease
  runs is the stored one (`Fenced`); it gives `WarmClaimsFenced` and
  `WarmCompletedFinal`, for callers in processes of their own, because those who join
  a batch of their process may outlive it without the lock (divergence 6).
  `UsageInv`: what the service has read is stored (`ReadIsStored`), its memory is ahead
  of the file except where the mark stays (`MemoryIsNewer`), a mark precedes its event
  (`MarkComesFirst`), and a mark is removed when the saved index is the one in memory
  and no event can come in between (`RemovalIsSafe`). It gives `UsageCounted` under the
  hypothesis that the writers live in the service's process or take the lock of the
  directory; divergence 9 is the counterexample outside it.
- **Session_proofs**, of FileLock, CompactionScheduler and SessionSummary. `LockInv` adds to the types whose file is at
  the path while no file was abandoned: it belongs to the one caller that is about
  to write it or that holds the lock, and nobody is about to steal it. From it
  `LockTypeCorrect`, `LockExclusive`, `LockHasOneHolder` and `LockImplementsMutex`, for any number of
  callers, calls and faults. `OrderlyInv`: a flight is the operation that works
  (`FlightsWork`), the count of soft slots is the number of soft operations at work
  (`SlotsCounted`), who waits waits for an operation of its session, a hard request for
  a hard one (`WaitsForFlight`), and a shutdown awaits whoever works (`ClosingWaits`);
  hence `CompactionsOrderly`. `SummaryInv` says who holds the session's lock in each
  step and what the steps of an attempt and of a recovery have left on disk
  (`AttemptsOrdered`, `RecoveriesOrdered`); hence `SummariesKept`, and
  `SummariesChain`, that the active summary implements SummaryChain.
- **Desktop_proofs**, of DataRoot and RunnerLifecycle. What the locator names is whole and bound to itself
  (`Pendings`, `Directories`) and what is staged is what the phase says (`Staged`),
  whatever fails. The application runs on the active directory until a read of the
  locator has failed (`RunsWhere`); the stage and later the target have the data of
  the source until a read or a switch has (`Taken`). Hence `RootInvariant`,
  `ActiveWhole` and `DataKept`, for any directories, failures and bounds.
  `LifecycleInv`: the build queue holds whoever waits once and only its head builds
  (`QueueOrdered`, `OneIsBuilt`), the runner being replaced is neither current nor
  retired (`ReplacedIsApart`), the monitor has the sources it was last given
  (`SourcesFollow`), and the plugin host is on its way or with the current runner
  (`HostIsPlaced`); hence `RunnersKept`. `SavesInv` relates the configuration on disk,
  the one a build has read, and the one the published runner was built from, while no
  key was saved; hence `SavedConfigurationInEffect`.

The assumptions are those the modules declare on their constants: `None` is no
other value, inputs are events, bounds are numbers, the unknown outcome is an
outcome. The hypotheses beyond them are those named above.

Only model-checked:

- all liveness: fairness and ENABLED are out of the prover's reach;
- what a composite adds to a component: `CommandsAreFinal` speaks of instances, and
  its parts are the subject of `WarmClaimsFenced` and `WarmCompletedFinal`. That one
  process keeps a completed command across its crashes, cold reads included, is TLC's
  alone;
- RuntimeQueue and RunEvents, whose queue is a sequence that is filtered and numbered:
  what such a definition computes for every input is an induction over data.

## 6. Plan

What is left, in the order of its worth:

1. Proofs of what is only model-checked: `HeardOnce` of RunEvents, for which the
   queue needs lemmas about its operators.
2. Composition of RunLease with DurableRun over several runs, so that the lease of
   a run and its stream are in one module; of FileLock with the stores whose
   operations it makes atomic.
3. Channels and the life of single plugins, memory consolidation, the linked
   continuations of a checkpoint, the shutdown of the application.

## 7. Not modelled

Contents: prompts, replies, fingerprints, usage figures, cache observation. User
interface, HTTP API, the contents of the configuration, single plugins and skills,
channels, memory and retrieval: they hold no part of a run's durable state, and
most of the repository's lines are theirs: renderer, scripts that verify the user
interface, text assembly, parsers.
The legacy branch of FINALIZE that settles the reply without deferral, and
pre-lease streams without a lease store. The execution log beyond what
RunCheckpoint reads of it. Corruption of stored files, except of usage partitions:
readers refuse such a file, and nothing above writes to it. Leases of other hosts,
which nobody takes. Retention and pruning of checkpoints and dispositions.

Of RunnerLifecycle: a save that lands during a build may overwrite the server's
configuration with an older one, streams opened on the router of a retired runner
cannot be approved through the new one, and a request that took its runner before
it prepared may start on one that was shut down (`late`); no property says
otherwise. Of DataRoot: command line tools that write without the single-instance
lock, a locator that cannot be parsed and is read as the default, and the content
of a directory that was checked empty before the copy and is replaced after it.
