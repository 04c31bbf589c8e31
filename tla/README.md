# kaeAgent in TLA+

A verification project for the agent runtime of kaeAgent: TLA+ modules
translated from the Go source, TLC configurations that check them on small
instances, and theorems checked by TLAPS for every value of the constants.
Paths below are relative to the root of the repository.

## 1. The system

kaeAgent runs LLM agents. An application builds an `agent.Runtime` for one
session and calls `Run` or `Stream` once per user message. Each call is a
*turn*: the engine asks the provider for a response, executes the tool calls in
it, appends the results and asks again, until the model gives a final answer,
hands the session over to another agent, or a limit is reached.

### Components

| Component | State | Operations | Talks to |
|---|---|---|---|
| Turn engine (`agent/internal/engine`, `agent/runtime_engine_*.go`, `runtime_executor.go`, `runtime_run.go`, `runtime_checkpoint.go`, `runtime_output.go`) | run-local `runState`: conversation, budget, config, metadata, active agent, tools; step index | `ExecuteTurn`, the final, tool and transfer command plans, checkpoint, save, publish | provider, dispatcher, compactor, stores, the stream's consumer |
| Runtime shared state (`runtime_state.go`, parts of `subagents.go`) | `generation`, `agent`, `tools`, pointers to `Session` and `Conversation` | capture and publish of a run, `ApplyTransfer`, `TransferStream`, `LoadState`, the mutators | every caller of one runtime, concurrently |
| Subagents (`subagents.go`, `runtime_subagent.go`, `active_agent.go`, `transfer_input.go`) | `active_agent` in the metadata | transfer, consult, resolution of the owner of a session | turn engine, resolver |
| Budget (`streaming/budget.go`) | tokens and cost used, limits | `Check`, `Add`, `Snapshot`, `Restore` | engine loop, transfer |
| Compaction (`compaction`, `runtime_compaction.go`) | none | `Compact` behind a trigger, `ForceCompact`, four strategies | turn engine |
| Tool dispatch (`tools`, `runtime_tools.go`) | results, semaphore | `Dispatch`, `DispatchAllWith` | handlers, consult |
| Streaming (`streaming`, `agent/internal/streaming`) and middleware | bounded channels, handlers, attempts | `Run`, `Collect`, assembly of streamed calls, retried steps | consumer |
| Providers and wrappers (`llm`, `internal`) | semaphore, attempts | `Complete`, `Stream`, retry, rate and concurrency limits | the network |
| Stores (`store/inmem`, `store/file`, `store/sql`) | conversations and sessions by id; locks, transactions, the schema | `Save`, `Append`, `Load`, `Delete`, `SaveSession`, `DeleteSession`, migration | turn engine, application |
| Orchestrator and router (`multiagent`), `JoinAll` (`workflow`) | routes, tags, tasks | route, consult, transfer, fan-out | runtimes |
| Schema, observability, examples | - | pure validation, spans, programs that use the library | - |

### What is hard

* **Failure at every command.** A turn appends, compacts, checkpoints the
  conversation, saves the session, publishes and emits, each of which may fail
  or be cut short by a crash. The two saves go to two stores.
* **Concurrency.** Runs, transfer streams, `ApplyTransfer` and the mutators of
  one runtime overlap. They hold the lock only to read pointers and to commit;
  the copies are made without it, and a generation counter decides who may
  publish.
* **Ownership.** A transfer moves agent, tools, config, budget limit, owner and
  system prompt in one turn, on run-local state that may be dropped.
* **Limits.** Budgets, steps and the context window are checked at certain
  points, on certain objects; compaction must leave well-formed requests.
* **Parallel batches.** Tool calls run in goroutines behind a semaphore, finish
  in any order, are refused, fail, panic, or are cancelled before they start.
* **Streams.** An event passes three or four goroutines and as many bounded
  channels; the consumer, the context, the provider and a retry may each end its
  way at any point, and the slot of the concurrency limit hangs on the outcome.
* **Shared stores.** Callers of several goroutines or processes write one
  conversation; calls are cancelled, databases busy, processes crash between two
  statements or two file operations.
* **Cut-up responses.** A server may cut tool calls into fragments and interleave
  them; each provider has its own numbering and its own end.

### What makes each component correct

* Turn engine: a request is well formed; a turn takes effect at most once,
  whole, and only if stored; success means stored; every recorded token counts;
  every turn ends.
* Shared state: what the application wrote is not lost to a run that read
  earlier; a session's messages stay with it; the owner serves the session.
* Subagents: the parts of ownership move together and come back after a restart.
* Budget: usage is cumulative, the limit is overshot by one response at most.
* Compaction: calls stay with their results, the system message stays, and so do
  the latest turns, whole (where the code does otherwise, section 3 says so).
* Dispatch: one result per call in the order of the calls, at most *n* at once.
* Streams: nothing is reordered, repeated or lost, `Done` means done, and turns,
  calls and slots come to an end.
* Providers: a streamed response gives the same tool calls as one that is not.
* Stores: an operation is atomic; an interrupted one leaves the old value; no
  append is lost; a half-made schema can be completed.
* Joined tasks: every task answers, and the error names a cause.
* Router: an agent is found by the tags it has now.

## 2. Modules

| Module | Role |
|---|---|
| `TurnContract` | what a turn promises its caller, without saying how |
| `TurnEngine` | the runtime serving one session turn after turn, with failures, crashes and restarts |
| `MCTurnEngine` | its instance for TLC |
| `TurnEngine_proofs` | its inductive invariants, ten theorems, one of them the refinement of `TurnContract` |
| `RuntimeState` | the shared state of one runtime under concurrent callers |
| `MCRuntimeState` | its instance for TLC |
| `RuntimeState_proofs` | its inductive invariants and four theorems |
| `ToolBatch` | what a batch of tool calls promises the turn |
| `ToolDispatch` | `DispatchAllWith`: one batch, sequential or in goroutines |
| `StoreCalls` | the calls of the interface `store.ConversationStore`, shared by the next four |
| `ConversationStore` | what a store promises: every operation atomic |
| `FileStore`, `InMemStore`, `SqlStore` | the three stores, each shown to implement `ConversationStore` |
| `SqlMigration` | `NewStore` of the SQL store: the schema made statement by statement |
| `MCStores` | the four for TLC |
| `Stores_proofs` | the refinements of `FileStore` and `InMemStore`, the schema |
| `SqlStore_proofs` | the invariant of `SqlStore` under its locks, five theorems, one of them its refinement |
| `StreamPipe` | the goroutines and channels of streamed turns, limits and retries |
| `SseEvents` | what a response cut into lines becomes, for four providers |
| `JoinAll` | `workflow.JoinAllDetailed` |
| `Router` | names and tags of the orchestrator, and `RunByTag` |
| `ContextWindow` | compaction strategies, triggers, limits and transfer filters over a session |
| `MCFlows` | these five and `ToolDispatch` for TLC |
| `Streaming_proofs` | the three-layer invariant of `StreamPipe` and four theorems, the invariant of `SseEvents` and two |
| `ContextWindow_proofs` | the invariant of `ContextWindow`, by strategy, and two theorems |
| `Dispatch_proofs` | the invariants of `ToolDispatch`, `JoinAll` and `Router` and twelve theorems, one of them the refinement of `ToolBatch` |
| `Selections` | the elements of a list at a set of places: a loop that goes through a list and takes some |
| `Selections_proofs` | lemmas on selections, induction over the naturals without an operator parameter |

`TurnEngine` and `RuntimeState` split the runtime along the one seam the code has:
`captureRunState` and `publishRunState`. `TurnEngine` shows what happens on the
run-local state between the two, for one caller; `RuntimeState` shows what
callers see and do to each other around them, and reduces a turn to what it
reads, persists and publishes.

### TurnEngine

`mem` is what the next run captures (`Runtime.agent`, `tools`, `session`,
`conv`), `run` is the `runState` of the turn in progress or `None`, `store` is
the content of the two stores. `pc` says which command the executor is about to
take:

```
idle -> gate -> await -> saveFinal -> saveSession -> publish -> emit -> idle
          ^       |
          |       +-> saveCalls -> results -> saveResults --+-> gate   (tools)
          |                                                 +-> apply -> gate   (transfer)
          +------------------- step + 1 -------------------+
any label of a turn -> idle   (an error: the run state is dropped)
any label -> down -> idle     (crash, then a new process)
```

| Actions | Code |
|---|---|
| `StartRefused`, `StartTurn` | `Engine.ExecuteTurn` up to the loop, after `captureRunState` |
| `EnterStep`, `GateFails`, `GateCancelled` | head of the step loop, `prepareMessagesForRequest` |
| `FinalReply`, `ToolReply`, `TransferReply`, `TransferRejected`, `StepFails`, `CompactionFails` | the step handler, `extractTransfer`, `AddUsage`, `PlanStepCommands`, `compactConversation` |
| `Checkpoint`, `CheckpointFails` | `checkpoint`, wherever a plan has it |
| `AppendToolResults`, `EmitFails` | `applyEngineCommand`, `sendStreamingEvent` |
| `ApplyTransfer`, `ApplyTransferFails` | `applyTransfer`, `resolveTransferStateFrom`, `rebaseBudgetSnapshot`, `withAgentSystemPrompt` |
| `SaveSession`, `SaveSessionFails`, `Publish`, `Finish` | `executeFinalCommandPlan` |
| `Crash`, `RestartFresh`, `Resume` | the process; `SessionFromStoreData`, `LoadConversationFromStore`, `NewRuntime` |

Data is abstracted to what the properties tell apart: a message is its role and
the ids of the calls it makes or answers; a conversation has one system message,
named by the agent whose prompt it is (the code refuses a second one in
`ensureSingleSystemMessage`); tokens stand for tokens and cost; the context
limit counts messages. A save that reports an error may have taken effect.
A transfer may or may not carry a message for its target, since the input falls
back to the text of the response.

A session has one transfer filter for its life (`mem.filter`, the runtime's
`transferInputFilter`), and `ApplyTransfer` hands over what it makes of the run's
messages (`Filtered`): all of them, none that calls or answers a tool, the last
`Recent`, or one message of the assistant that tells the conversation so far. The
window of the last ones cuts anywhere, also between a call and its result.

### RuntimeState

`heap` holds the session and conversation objects in order of allocation and
`cur` the pair the runtime points to; each caller of `procs` runs one operation
in the steps between which the code does not hold the lock: `Begin` (the read
lock), `SnapshotSession`, `SnapshotConversation` (two copies, without it),
`Work`, `SaveConversation`, `Publish` or, for `ApplyTransfer`, `CommitTransfer`.
The last two restore the session object and leave the operation with the lock
(`Locked`); `RestoreConversation` restores the conversation and the agent and gives
it back. What takes the lock waits in between, but a run makes its two copies without
it and may see the one object restored and the other not; a transfer takes it for
each of its copies (`MayCopy`).
Messages and metadata entries are tokens that say who wrote them and for which
session. `torn` is a history variable: it is set when an operation copied the
session of one id and the conversation of another.

`TurnEngine` takes a batch of tool calls as one step that answers every call in
order (`AppendToolResults`). `ToolDispatch` is what happens inside that step, and
its refinement of `ToolBatch` and `ResultsComplete` are what the step relies on.

### ToolDispatch

`limit` is `MaxToolConcurrency`, `pc` and `pos` are the caller's place in its
loop, `sem` the number of elements in the channel, `worker` how far the dispatch
of each call is, `results` the slice that is returned. `runs` counts how often a
handler was entered and `trace` follows the events of a dispatch.

| Actions | Code |
|---|---|
| `CallInline` | the sequential loop, when the limit is at most one |
| `Launch`, `StopLaunch` | the two cases of the `select`; `StopLaunch` is also the sequential loop's check of the context |
| `EndOfCalls`, `Join` | the end of the loops, `wg.Wait` |
| `RejectTool`, `InvokeTool`, `FinishTool`, `PanicTool` | `Dispatch` and `dispatchConsult`, traced by `dispatchOneWithTracing` and guarded by `dispatchSafely` |
| `Release`, `DoneWaiting` | the two deferred calls of a goroutine |
| `EndContext` | the caller's context ends |

When the context has ended and a slot is free, Go takes either case of the
`select`: both actions are enabled. A call is its position; its name, input and
schema only decide whether it is rejected, which is left open, and so is whether
a handler minds its context.

### The stores

`TurnEngine` saves into a store that does or does not take effect. `ConversationStore`
is that contract as a specification: a call takes effect at one moment between
its invocation and its return, or not at all, and at most once; a failure is
clean, or, where the store cannot know, may hide a success. The three stores map
their state to its `contents` and their calls to its calls.

`FileStore` has one step per file operation. `file` and `temp` are the
conversation's file and its temporary neighbour, each absent, torn (opened for
writing and not complete) or whole; by the type invariant the former is never torn,
so that a `Load` finds nothing half-written.

| Actions | Code |
|---|---|
| `CheckContext`, `LockWriter`, `LockReader`, `RefuseUnderLock` | the checks and the `RWMutex` around every method |
| `ReadFile`, `RemoveFile`, `FileRefuse` | `load`, `Delete`, an operation that fails |
| `TruncateTemp`, `WriteTemp`, `WriteTempFails`, `Rename`, `RemoveTemp` | `writeFileAtomic` |
| `ContextEnds`, `FileCrash` | the caller's context, the process |

`InMemStore` has one step per method, since nothing in one waits; it models the
heap, because what can go wrong is that a caller and the store share a message.

`SqlStore` has one step per SQL statement and one variable for the dialect.
`session` and `rows` are what is committed; `tx` is what the open transaction of
a caller has done so far and nobody else sees. Under `sqlite` there are the mutex
of the conversation (`convLock`), the one writer of the database (`rowLock`), a
snapshot that may be `overtaken`, and the busy retry (`attempt`); under `postgres`
there are the row of the session as the lock, and the waits on rows others have
deleted or inserted.

| Actions | Code |
|---|---|
| `LockConversation` | `lockConversation`, which does nothing for postgres |
| `SessionExists`, `EnsureStub`, `LockSession`, `ClearMessages`, `MaxSeq`, `InsertChunk`, `Commit` | the transaction of `Save` and `Append` |
| `InsertCollides`, `Unanswered`, `SqlFails`, `Busy` | the unique index, a lost answer to any operation that writes, any error, `withBusyRetry` |
| `SelectMessages`, `DeleteMessages`, `UpsertSession`, `DeleteSession` | the operations of one statement or one upsert |

`lockSession` does not look at how many rows its `UPDATE` matched. With postgres a
session deleted between `sessionExists` and `lockSession` leaves the writer without
a lock; two such writers may number their messages alike, and the unique index
then refuses one of them. The history variable `missed` marks such behaviours, and
the two properties that need the lock say so; with sqlite it cannot happen
(`SqliteLocksItsSession`).

`SqlMigration` has the twelve statements of the migration by what each creates and
what it needs, openers that run it side by side, and failures between any two.

### StreamPipe

```
 server -> readSSE -> source -> limiter's goroutine -> limited
        -> the turn (retry around one step) -> out [-> adopting goroutine ->] consumer
```

A *pipe* is one attempt of one stream, `<<s, n>>`; `reader`, `source`, `slot` and
`limited` are indexed by it, because the goroutines of a failed attempt may still
run when the next one has begun. `turn` is where the runtime's goroutine stands,
`relay` the extra goroutine of a transfer stream, `call` a `Provider.Complete`
that competes for the same slots.

| Actions | Code |
|---|---|
| `ReadEvent`, `AbandonRead` | `sendEvent` in `readSSE` |
| `Forward`, `ReleaseSlot`, `CloseLimited` | the goroutine of `concurrencyLimitedProvider.Stream` |
| `CallAcquire`, `CallRequest`, `CallBackoff`, `CallCancelled` | `Complete` through the retry policy, the limit and `DoJSONWithRetry` |
| `Acquire`, `AcquireCancelled`, `Open`, `OpenFails`, `Receive`, `ReceiveClosed`, `ReceiveCancelled`, `Retry`, `Publish`, `Emit`, `EmitFails` | `executeStreamingStep` under `RetryStreamingMiddleware`, `Stream`, `sendStreamingEvent` |
| `RelayTake`, `Adopt`, `RelayClose` | `adoptTransferStreamOnDone`, `adoptRuntimeState` |
| `Wait`, `Consume`, `ConsumeClosed`, `ConsumeCancelled` | `Runner.Run`, `Collect`; `nextEvent` looks for a ready event first, then waits for one or for its context |
| `Cancel`, `MutateParent` | the caller's context; the application |

What was found while translating it, and is part of the properties: a reader that
stops with more events under way than the channels hold leaves the limiter's
goroutine, and its slot, behind for good (`Stuck`), since its write watches no
context; a retried step repeats events the consumer has already handled; the
adopting goroutine of a consumer that left stays blocked, though the turn behind
it ends.

### SseEvents

A response is a sequence of texts and tool calls, a call's arguments a sequence of
pieces. `SendChunk` sends the next line of the provider's protocol (fragments of
several calls at once for OpenAI and Qwen, one block after the other for Claude,
whole parts numbered within their chunk for Gemini) and hands its fragments to
`ToolCallAssembler`, one after the other (`HandleEvents`); a Gemini call without
arguments carries the JSON `null` (`Marshalled`, `Null`); `SendEnd`, `EndOfResponse`
and `BadLine` end the stream. The result is compared with what `parseResponse` makes
of the same response. Gemini's stream has no end mark, so that one cut off between
two chunks passes for complete; two of its calls at one position of two chunks fall
together and fail the stream; and `parseResponse` of OpenAI and Qwen refuses a call
without arguments that the stream accepts.

### JoinAll, Router

`JoinAll` has the goroutines of the tasks, the channel they answer into, the
goroutine that closes it and the caller that collects and cancels. A task may
succeed or fail by itself, fail because its context has ended, or ignore it.
`Router` has `Register`, with the removal of the tags the name had before, `Route`,
and `RunByTag` as two steps with registrations in between.

### ContextWindow

`TurnEngine` has one strategy and one system message. `ContextWindow` has all four
strategies, the three triggers, forced compaction before a request, tool calls of
different sizes, turns that fail, and transfers through each of the input filters.
`conv` is the conversation the turn works on, `saved` the runtime's, and `log` all
that was ever said since the last transfer: properties compare what is kept with
what was said. A message has a role, its turn and place, and a size; a summary
covers a set of turns.

## 3. Runs

| Run | Expected | What it shows |
|---|---|---|
| `turn_engine` | pass | the properties of `TurnEngine` below, and that it implements `TurnContract` |
| `turn_budget_transfer` | violation | after a transfer within a turn, steps start over the budget: the check is bound to the object the turn started with |
| `turn_budget_failed` | violation | tokens recorded by a turn that then fails vanish from the session's budget |
| `turn_resume` | violation | a crash between the two saves of a turn that transferred makes the resumed root run under the specialist's prompt |
| `runtime_state` | pass | the properties of `RuntimeState` below |
| `runtime_isolation` | violation | `LoadState` between the two snapshots of a transfer mixes two sessions |
| `runtime_owner` | violation | after `LoadState` the runs of a session another agent owns are served by the previous agent |
| `tool_panic_trace` | violation | a tool that panics leaves its dispatch without `agent.tool.completed`, and its span open |
| `stores` | pass | the three stores implement `ConversationStore`; the other properties of the stores below |
| `flows` | pass | the properties of streams, responses, tool calls, joins, routes and context windows below, and that `ToolDispatch` implements `ToolBatch` |
| `tokenlimit_turn` | violation | a turn with no room for itself loses its query to the compaction of its own request, and what it says next stays without it |
| `summary_session` | violation | after the first compaction by summary, an agent with a system prompt is refused every further request |

`MCStores` and `MCFlows` put independent modules into one run: the variable `part`
says which of them a behaviour belongs to, and the others rest. Every property of
such a run is one of a single module, but for the type invariants and the
liveness properties, which are conjunctions.

Properties of the passing runs:

* `RequestWellFormed`: every request answers each tool call right
  after it, in order, and has no orphan result, however often the conversation was
  compacted, handed over through the filters, or left by failed turns. The
  exception is the code's: once a session was handed over through
  `RecentWindowTransferInput`, a request may begin with results whose calls the
  window cut off, until compaction drops them.
* `OwnerCoherent`, `PromptCoherent`: agent, tools, config, owner and prompt
  name one agent, in the runtime and in the run.
* `UsageConserved`: the usage a run carries is the session's plus all that
  `AddUsage` recorded for it, across transfers.
* `OvershootBounded`: a session that was never transferred exceeds its limit by
  at most one response, over all turns and restarts. (After a transfer it does
  not hold: `turn_budget_transfer`.)
* `SessionHasConversation`, `SuccessIsDurable`: what is saved can be resumed, and
  what was reported as done is saved.
* `ContractSpec`: the refinement. The runtime's memory of the session changes at
  most once per turn, at once, only to what the stores hold; a new process
  continues from there. `Fail` may follow `Commit`: the final text is emitted
  after the state was published, so a stream can end in an error for a turn that
  took effect. And `Persist` may change what is durable in a turn that fails
  later: the stores can be ahead of the memory.
* `TurnFinishes`: a turn ends, even when the model never stops calling tools.
* `CopiesUpToDate`, `RetainsMutations`: a run or a transfer stream that read
  before a mutation of the application, wholly or in part, never publishes over
  it; at an unchanged generation nothing the application wrote changes.
  `ApplyTransfer` checks no generation and is exempt: it may overwrite.
* `IsolatedUnlessTorn`: messages and metadata stay with the session they were
  written for, in the runtime and in the store, unless an operation's two copies
  straddled a change of session (which `runtime_isolation` shows can happen).

* `LimitHeld`: at most `MaxToolConcurrency` handlers of a batch run at once, one
  if it is one or less.
* `ResultsComplete`: a returned batch has the result of call *i* at place *i*; a
  handler was entered at most once; cancelled means that nothing of it ran.
* `StartsInOrder`: the calls that start are a prefix, wherever the context ends.
* `ResultsSettled`: nothing of a batch happens once it has returned, so the
  caller may read the results without a lock.
* `BatchSpec`: the refinement of `ToolBatch`, where a call is open from its launch
  to its answer, and there are neither slots nor goroutines.
* `BatchReturns`: a slot is given back on every path, and the batch ends.

* `FileImplementsStore`: operations on files are atomic; an interrupted `Save` or
  `Append` leaves the previous messages, also after a crash, and an old temporary
  file never comes back as a conversation; what failed has changed nothing.
* `MemImplementsStore`: what callers do to messages they passed or received does
  not change the stored ones.
* `SqlImplementsStore`: the same atomicity through transactions, chunks of rows,
  busy retries and concurrent writers, for both dialects. With postgres a failed
  call may have taken effect (`Unanswered`), and nothing is said of behaviours
  in which a lock was `missed`.
* `AppendsNeverCollide`, `SqliteLocksItsSession`: the numbering of appends, and the
  lock it rests on.
* `SavedSessionStays`: the stub row a `Save` or `Append` creates for an unknown
  session never replaces one that was saved meanwhile.
* `CallsReturn`: no path keeps a lock that another call of the store waits for.
* `MigrationResumes`: whoever opens the database next, or at the same time, can
  complete the schema.
* `StreamInOrder`: a consumer handles the events of each attempt in order, from
  the first and without a gap; `Done` comes last and only after the provider's.
* `ConcurrencyHeld`: the limit counts streams until their response has been read
  or their reader is gone, and calls until they return.
* `AdoptedBeforeDone`: `Done` of a transfer stream is seen after the parent has
  taken over the child's published turn, or has refused it because the application
  changed it. (That a changed parent is not overwritten is `RetainsMutations`, where
  the adoption competes with mutators.)
* `FlowsSettle`: turns close their channels, calls return, consumers are served,
  slots come back, with the exception of `Stuck`; and `JoinAllDetailed` returns.
* `CallsAssembled`: a stream that succeeds gives the calls of the response that is
  not streamed, however it was cut up, with the exceptions named above.
* `JoinComplete`: no task runs any more, every task has its own result, and the
  error is a task that failed by itself, unless the caller's context ended.
* `RoutesCurrent`: the index agrees with the configurations after any sequence of
  registrations, and what `RunByTag` has found is still found.
* `WindowKeepsTurns`: the prompt stays, first and once. Besides it `turnwindow`,
  `slidingwindow` and `summary` keep the end of what was said since the last transfer:
  the first and the last in whole turns, where summaries cover the turns that are
  missing, while `slidingwindow` cuts anywhere, and counts system messages in its
  window. `tokenlimit` keeps what precedes the first query, which it never drops, and
  the latest turns, whole if it keeps their query. A turn it keeps without its query,
  and a last turn it does not keep, had no room even alone (`Oversized`): the
  compaction of their own request has dropped what they had said by then. That the
  documentation rules this out is `QueriesKept`, which `tokenlimit_turn` shows violated.

### Bounds

`turn_engine`: two agents (a root that may hand over to a specialist, which may
hand back), two turns, three steps each, up to two calls in a response, zero or
two tokens per response against limits of two and one, a compactor that keeps
one turn, a context limit of six messages, one crash, and transfers without a filter
or through the filter that removes tool messages, or through a window of the last
message, which leaves nothing of a call but its last result. Three steps are enough
for a transfer, its return and an answer; two turns for a session that was
compacted, handed over or failed to be used again; six messages for preflight
compaction to be needed, to succeed and to fail; the budget is reached, met
exactly and overshot. (The filter that nests the history is left to the proof of
`RequestWellFormed`, which has all four, for every window and limit; three filters
are close to what a run of a few minutes takes.)
`turn_resume` keeps two turns and takes three. `runtime_state`:
two callers, two operations, two changes of the generation, two sessions: an
operation overtaken between any two of its steps by another operation, and by
two mutators. Callers are interchangeable, so they are a symmetry set (no
liveness is checked there).

`stores`: two callers and one conversation, with lists of none, one and two
messages. The file store makes two calls and may crash once, in any state. The
in-memory store allocates four message cells, enough for a list to be passed,
stored, loaded and overwritten. The SQL store makes three calls, one row per
`INSERT` (100 in the code) so that a list of two takes two statements, and two
attempts under contention (20 in the code) so that a retry succeeds, is repeated
and gives up; three calls let a session be deleted under an `Append` that runs
against another. Three openings of the schema by two processes: one left
half-made by a failure, completed by two at once. Every id is one the file store
accepts (`InvalidConvs` is empty): a refused id is the same path as a context that
has ended.

`flows`: one slot, channels of one event (64, 64 and 128 in the code), two requests
per attempt. Three scenarios: a transfer stream beside a call of `Complete`, with
one change of the parent; a stream of two attempts; a stream of three events, one
more than the channels between provider and turn hold, which is what fills them.
Responses of up to three parts and two pieces, so that calls are interleaved, empty
or apart. Three tool calls under the limits 0, 1, 2 and 3, so that both loops run,
slots are exhausted, given back and taken again, and with a context that ends before
the batch or at any point of it. Three tasks: one that fails, one it cancels, one
that has succeeded. Two agents, lists of up to three tags (one with a repetition)
and three registrations. Three turns with one tool call each, messages of one or
three tokens, a window of one turn, three messages or five tokens, and one transfer
anywhere between the turns: enough to compact what was compacted before, also after
a transfer, by trigger and by force. `summary_session` is the same instance with the
summary strategy as it is by default, `tokenlimit_turn` with `tokenlimit` alone and
no transfer, `tool_panic_trace` its tool calls alone.

Deadlock is not checked: the instances stop when their turns or operations are
used up, a process that finds a session without a conversation cannot resume, and
a batch that has returned is over.

### Fairness

`FairSpec` adds `WF_vars(Progress)`: the goroutine of a turn keeps running. The
provider, the stores and the tools are called with the turn's context and are
assumed to return, with a result or an error. Nothing is assumed of the
application: it need not start turns, nor restart after a crash. What the model
answers is not constrained either, and `TurnFinishes` does not rely on a final
reply but on the step limit.

`MCStores` has weak fairness of a caller's step in the file store and strong
fairness of its lock, since `sync.RWMutex` lets neither readers nor writers starve;
strong fairness of a caller of the SQL store, whose mutexes and databases grant
locks that become free again and again. File operations and statements return.

`MCFlows` has weak fairness of *some* goroutine, consumer or timer going on, which
the fairness of each of them implies; behaviours are finite, so that this is
enough. A reader of a response gets a line, an error or the end, at the latest
when the HTTP client gives up; joined tasks return. Tool handlers return, too, which
is an assumption about the application: one that does not, and ignores its context,
holds the batch for ever, since `wg.Wait` has no way out; the code offers nothing
against it. Nothing is assumed of
contexts: `FlowsSettle` holds when nobody cancels anything.

## 4. Proofs

Every safety property of the passing runs is proved, action properties and
refinements included; the type invariants of two runs that check several
specifications at once are proved part by part. The theorems hold for every value of
the constants that satisfies the named assumptions: any number of callers, agents,
tasks, streams, conversations, any limits, buffers and bounds, where the runs take
two or three of each.

**The turn.** `TurnEngine_proofs`: the invariant `IInv` strengthens the type
invariant and the coherence of ownership by

* `RunInv`: what the run has at each label. The run's owner and the target of a
  pending transfer are known to the resolver, which is what makes `Resume` find
  the owner a stored session names; the last message before `results` has the
  calls to answer; the step is below the limit wherever another one may follow;
* `StoreInv`: a stored session has its conversation, and its config is its
  owner's;
* `CommitInv`: what the stores hold when the executor is about to save the
  session, publish, or emit, and after a success;
* `CrashInv`: a process is down only after a crash, since `PromptCoherent` is
  about a process that never died.

None of the listed invariants is inductive without these: `SuccessIsDurable`, for
one, needs the chain from the conversation checkpoint over the session save to the
publication. There is one lemma per action, one for all the failures, and two about
how steps end (`FailedTurn`, `MovedOn`). The refinement
(`RuntimeImplementsContract`) maps every step to a step of `TurnContract` or a
stutter. `OvershootIsBounded` has an invariant of its own, `OvershootInv`: until the
first hand-over the hook is bound to the budget that grows. So has
`RequestsAreWellFormed`: by `FormInv` memory holds a well-formed conversation, and
so does the run, except that between a response with calls and its results it ends
in the calls (`Asks`). Each filter has a lemma that it keeps this, that of
`RecentWindowTransferInput` only in the weaker form in which a list may begin with
results; the invariant is in that form for the sessions that have gone through it,
and in the strict one for all others (`Applied`). What it rests on is
`KeepsWholeTurns`, that the turn window cuts at a message of the user: the messages
with fewer than `MaxHistory` turns after them are the last ones, by counting, and
the first of them starts a turn; and `SuffixWellFormed`, that nothing is cut from
its call there.

**Shared state.** `RuntimeState_proofs` proves type correctness, `CopiesUpToDate`
and, from it, the action property `RetainsMutations`. The argument is that a
publication writes back what the application sees already, in each of its two
steps, and that every other change of the objects changes the generation; `ApplyAlone`
says that nobody else changes it while a commit is half done. `SessionsStayIsolated`
adds the invariant `Isolation`: as long as no copy was torn, the objects of the heap
and the store (`ObjectsIsolated`) and what operations have copied (`CopiesIsolated`)
hold tokens of their own session; a session object and its conversation belong
together except in the pair that is being restored.

**Tool calls.** `Dispatch_proofs`: `SlotInv` says that the channel holds exactly
one element per dispatch between its launch and its release (by the library's
theorems on cardinalities), `LaunchInv` that the launched calls are those before
the loop variable, `InlineInv` that the sequential loop is in the only open
dispatch, `ResultInv` what is stored at each stage, and `ReturnInv` that a returned
batch has no goroutine left. `LimitHeld` follows since running handlers hold slots,
and a `Start` of the abstract batch is allowed since its open calls do.

**Stores.** `Stores_proofs` maps the steps of `FileStore` and `InMemStore` to those
of `ConversationStore`. For files the rename is the step of the operation; the
invariant `FileInv` says who has the lock, that what its holder is going to write is
what its operation makes of the file as it is, and that what it renames is whole.
For the memory store `NothingShared` says that the cells of what is stored, and
those each caller has passed or received, are disjoint, which is what the copies are
for. `MigrationAlwaysResumes`: an opener that is past a statement has what the
statement makes, and nobody drops anything. `SqlStore_proofs` has one invariant per
caller (`SqlCallerOK`: where it stands, what it has locked, what sqlite adds, what
it has inserted), and one of all, `GaplessUnlessMissed`: unless a lock was `missed`,
the committed numbers of a conversation have no gap. A transaction that inserts has
the lock and the first of its messages, numbered on from the last committed row
(`Inserting`). From this come `NumbersNeverCollide` and the refinement
`SqlStoreImplements`, in which a commit is the step of the operation, whether or not
its answer arrives; `SqliteNeverMisses` and `SavedSessionsStay` need the locks only.

**Streams.** The invariant of `StreamPipe` in `Streaming_proofs` has three layers.
`PipeInv`: a pipe that is read holds its slot, a slot is given back when all that
was read has been forwarded, no pipe is ahead of its stream's attempt. `FlowInv`,
over what a turn has written (`Flow`: handled, with the adopting goroutine, in the
channel): a terminal event is the last, the turn has closed by then, and the
adopting goroutine has adopted when it passes `Done` on. `OrderInv`: what the pipe
of the present attempt still carries (`Carries`) continues what has been told of the
attempt (`Told`), and no other attempt adds to it, though its goroutines may still
run.

**Tool calls of streams.** `StreamedCallsAreParsed` rests on `SseInv`, also in
`Streaming_proofs`, which says what the assembler holds at any time: for OpenAI, Qwen
and Claude, of each call opened its name, its id and the pieces sent so far, and of no
other call anything (`Assembling`), however the fragments of several calls are mixed;
for Gemini, whose calls come whole but under their position in the chunk, the calls
of the parts sent (`SentWhole`, `Gathering`) or, once two have fallen together, the
arguments of one with more behind them, which is never the JSON of anything
(`UnreadableIsInvalid`), so that the stream fails. `CallsAssembled` alone is about the
end of a stream and says nothing of what is being assembled. The loops of the code
over fragments and calls (`HandleEvents`, `Assemble`) are followed step by step:
`HandleEventsLoop` gives the states between the fragments.

**What compaction keeps.** `CompactionKeepsTurns` in `ContextWindow_proofs` rests on
`WindowInv`: the runtime's conversation, and the one a turn works on, are the prompt,
at most one summary and a part of the log (`Win`). `WindowKeepsTurns` is not inductive:
it compares sets of turns, where a strategy cuts a list. `Win` says where the list was
cut:

* with every strategy but tokenlimit what is kept is the end of the log; but for
  slidingwindow all before it is of earlier turns, while a turn runs its query is in
  it, and with summary the summary covers the turns before it (`KeptByWindow`);
* with tokenlimit the log is what precedes the first query, a middle, and an end that
  begins with a query; the first and the last are kept, and between them what turns
  have left behind their query: of each the end, and each without room for itself
  (`KeptByLimit`, `LeftOver`). If no query is kept, the last turn had none (`LastOver`);
* a log is in the order of its turns, and the query of a turn is later than all before
  it (`Ordered`), so that a turn is cut only from behind its query.

Each strategy, each filter of a transfer, each message added and each failure has a
lemma that it keeps `Win`. Under them are lemmas on lists that have nothing to do with
agents: what a selection of a concatenation is (`ThoseCat`), that a list which was put
together in two ways has three parts (`CutTwice`), what dropping the oldest turns and
keeping the last ones leave (by counting the queries, `Selections_proofs`), and that
estimates add up (`InductiveSet`, since an estimate is a recursive function).

**Joined tasks and routes.** `Dispatch_proofs`: a result is in the channel or
collected, once, from the moment its task has sent it (`ResultsOnce`), and the first
failure is the cause of every cancellation (`FailureTrue`). `SendsNeverBlock`: what is
in the channel is an injection of its places into the other tasks, so that the buffer
of one place per task is never full. For the router, `IndexCurrent` says that a list of
the index has the names whose last configuration has the tag, once each, the newest
last.

The assumptions are on the constants only: `AgentsAssumption`, `BoundsAssumption`,
`NoneAssumption` (`None` is not a value of the types it is joined with),
`StateAssumption`, `BatchAssumption`, `StoreCallsAssumption` (there is a conversation,
and an empty list), `FileStoreAssumption`, `InMemAssumption`, `SqlAssumption` (batches
are lists, chunks have a row), `MigrationAssumption`, `StreamsAssumption`,
`PipeAssumption` (limits and buffers are at least one), `ResponsesAssumption` (a
response is a list of texts and calls, `NoId` is no name), `TasksAssumption`,
`RouterAssumption` and `WindowAssumption` (policies are records of a strategy and its
numbers, a message has a size). TLC evaluates them in every run.

Only model-checked:

* the liveness properties `TurnFinishes`, `BatchReturns`, `CallsReturn` and
  `FlowsSettle`: liveness under fairness is out of the prover's reach;
* `StoresTypeOK` and `FlowsTypeOK` as such, conjunctions over the specifications
  that their runs check side by side. Their parts are proved each for its own
  specification (`FileTypeCorrect`, `SqlTypeCorrect`, `StreamTypeCorrect`,
  `SseTypeCorrect`, `TypeCorrect` of `Dispatch_proofs`, `JoinTypeCorrect`,
  `RouterTypeCorrect`, `WindowTypeCorrect`).

## 5. What is not modelled

`PROJECT.json` lists every component with its status. In the modelled parts:

* Consult, which runs a runtime of its own and leaves its parent alone; the
  payload of synthetic tools; the cost in dollars; `Remaining` and `Reset` of the
  budget; the non-streaming retry middleware, which is the same loop.
* Stores: the columns of a row, other databases than the two dialects, two store
  instances on one directory (their locks do not know of each other), and a power
  failure: `WriteFile` and `Rename` are not followed by a sync, so that what a crash
  of the machine leaves is up to the file system, while `FileCrash` is one of the process.
  `cloneValue` copies maps and slices and shares any other value; tool inputs
  decoded from JSON have no others.
* SQL statements are atomic once the locks they need are free. A busy commit of
  sqlite is a rolled-back one; only postgres loses the answer to a statement or a
  commit. The store's table prefix (`store/sql/sql.go:163`) is taken to be empty: the
  migration creates unprefixed tables only.
* Transfers within a turn: a composition of filters (`ComposeTransferInput`),
  filters an application writes, and the filter and context of a single request
  (`TransferRequest`), which a caller of `ApplyTransfer` and `TransferStream` may
  set; the model's tool call that transfers carries neither
  (`parseTransferRequest`).
* Streams: the content of events, usage, the rate limiter (an interface an
  application implements), and requests.
* Compaction: the estimate of tokens (given sizes here), the text of a summary and
  its truncation, strategies an application writes. A summarizer may fail, and
  what it returns is not empty.
* The deprecated wrappers of the orchestrator, and the JSON of transfer contexts.

Left out for good: requests and bodies of vendor clients and HTTP tools (input and
output of one call), schema validation (a pure function of one value), tracing (but
for the two events of a tool dispatch), the registries (maps under a lock, filled at
start-up), `WorkflowAgentTool` (a handler that calls `Run`), examples.

Hazards no property covers, with the reason at each in `PROJECT.json`: what
`ApplyTransfer` and a second run overwrite by design, a crash between a checkpoint
of tool calls and one of their results (nothing repairs a loaded conversation, and
no document says so), an event that becomes ready between the two selects of
`nextEvent`, a batch whose results are appended only in part (the model
appends them in one step), an owner in the metadata that nobody resolves (no state of
the model has one), metadata that is a nil map, and `Runtime.Transfer`, which keeps
the new owner when its run fails.

## 6. Plan

1. *Done:* `TurnContract`, `TurnEngine`, `RuntimeState`, their runs and proofs.
2. *Done:* `ToolBatch`, `ToolDispatch`, their runs and proofs.
3. *Done:* `StreamPipe`, `SseEvents`, `JoinAll`, `Router`, `ContextWindow`, and their run.
4. *Done:* `ConversationStore` and the stores that implement it, `SqlMigration`, and
   their run.
5. *Done:* the proofs of the stores, `StreamPipe`, `JoinAll` and `Router`, of
   `IsolatedUnlessTorn` and of `RequestWellFormed`.
6. *Done:* the proofs of `CallsAssembled` and `WindowKeepsTurns`, for which the loops
   over lists were written as recursive functions and selections by place.
