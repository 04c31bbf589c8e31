----------------------------- MODULE ToolDispatch -----------------------------
(***************************************************************************)
(* One batch of tool calls, as tools.Dispatcher.DispatchAllWith runs it    *)
(* for the turn engine (agent/runtime_tools.go): one call after the other  *)
(* when the limit is at most one, else one goroutine per call with a       *)
(* buffered channel as semaphore; the caller's context may end at any      *)
(* moment, a tool may be refused, fail or panic.                           *)
(*                                                                         *)
(* A call is its position in the batch.  Tracing is kept as far as it says *)
(* when a dispatch starts and completes.                                   *)
(***************************************************************************)
EXTENDS Integers, FiniteSets

CONSTANTS
  N,       \* the number of calls in the batch
  Limits   \* the values of MaxToolConcurrency considered

ASSUME BatchAssumption == N \in Nat /\ Limits \subseteq Int

Calls == 1..N

VARIABLES
  limit,     \* maxConcurrent; fixed for a batch
  ctx,       \* "live" or "cancelled"
  pc,        \* the caller: "launch", "inline", "wait" or "returned"
  pos,       \* its loop variable i
  sem,       \* the number of slots taken in the channel
  worker,    \* how far the dispatch of each call is
  results,   \* the slice that is returned
  runs,      \* history: how often the handler of each call was entered
  trace      \* the events agent.tool.started and agent.tool.completed

caller == <<limit, pc, pos, sem>>
dispatchVars == <<limit, ctx, pc, pos, sem, worker, results, runs, trace>>

-------------------------------------------------------------------------------

Sequential == limit <= 1

\* "ready" is a dispatch that has not reached its tool; "answered" has written
\* its result and holds its slot; "freed" has yet to call wg.Done.
WorkerStates == {"none", "ready", "running", "answered", "freed", "done"}

Outcomes == {"ok", "error", "panic", "cancelled"}

\* The zero ToolResult carries no call id; ids are positions, so 0 stands for none.
Unset == [id |-> 0, outcome |-> "none"]
ResultOf(c, outcome) == [id |-> c, outcome |-> outcome]

DispatchInit ==
  /\ limit \in Limits
  /\ ctx \in {"live", "cancelled"}
  /\ pc = "launch"
  /\ pos = 1
  /\ sem = 0
  /\ worker = [c \in Calls |-> "none"]
  /\ results = [c \in Calls |-> Unset]
  /\ runs = [c \in Calls |-> 0]
  /\ trace = [c \in Calls |-> "none"]

-------------------------------------------------------------------------------
\* The caller.

\* Mutant: the select refuses one call and the loop goes on with the next.
MutantRefuseOne ==
  /\ pc = "launch"
  /\ pos <= N
  /\ ctx = "cancelled"
  /\ results' = [results EXCEPT ![pos] = ResultOf(pos, "cancelled")]
  /\ pos' = pos + 1
  /\ UNCHANGED <<limit, ctx, pc, sem, worker, runs, trace>>

\* Mutant: the refusals begin after the call the loop stands at.
MutantRefuseLater ==
  /\ pc = "launch"
  /\ pos <= N
  /\ ctx = "cancelled"
  /\ results' = [c \in Calls |-> IF c > pos THEN ResultOf(c, "cancelled") ELSE results[c]]
  /\ pc' = IF Sequential THEN "returned" ELSE "wait"
  /\ UNCHANGED <<limit, ctx, pos, sem, worker, runs, trace>>

\* Both loops refuse every call from pos on once they see the context ended.
\* In the parallel loop this is the ctx.Done case of the select.
StopLaunch ==
  /\ pc = "launch"
  /\ pos <= N
  /\ ctx = "cancelled"
  /\ results' = [c \in Calls |-> IF c >= pos THEN ResultOf(c, "cancelled") ELSE results[c]]
  /\ pc' = IF Sequential THEN "returned" ELSE "wait"
  /\ UNCHANGED <<limit, ctx, pos, sem, worker, runs, trace>>

\* Mutant: one slot too many.
MutantLaunch ==
  /\ pc = "launch"
  /\ ~Sequential
  /\ pos <= N
  /\ sem <= limit
  /\ sem' = sem + 1
  /\ worker' = [worker EXCEPT ![pos] = "ready"]
  /\ pos' = pos + 1
  /\ UNCHANGED <<limit, ctx, pc, results, runs, trace>>

\* The other case of the select.  Go picks any case that is ready, so a call may
\* start although the context has ended.
Launch ==
  /\ pc = "launch"
  /\ ~Sequential
  /\ pos <= N
  /\ sem < limit
  /\ sem' = sem + 1
  /\ worker' = [worker EXCEPT ![pos] = "ready"]
  /\ pos' = pos + 1
  /\ UNCHANGED <<limit, ctx, pc, results, runs, trace>>

CallInline ==
  /\ pc = "launch"
  /\ Sequential
  /\ pos <= N
  /\ ctx = "live"
  /\ worker' = [worker EXCEPT ![pos] = "ready"]
  /\ pc' = "inline"
  /\ UNCHANGED <<limit, ctx, pos, sem, results, runs, trace>>

EndOfCalls ==
  /\ pc = "launch"
  /\ pos > N
  /\ pc' = IF Sequential THEN "returned" ELSE "wait"
  /\ UNCHANGED <<limit, ctx, pos, sem, worker, results, runs, trace>>

\* Mutant: wg.Add stands in the goroutine, so one that has not begun is not awaited.
MutantJoin ==
  /\ pc = "wait"
  /\ \A c \in Calls : worker[c] \in {"none", "ready", "done"}
  /\ pc' = "returned"
  /\ UNCHANGED <<limit, ctx, pos, sem, worker, results, runs, trace>>

\* wg.Wait: every goroutine that was added is done.
Join ==
  /\ pc = "wait"
  /\ \A c \in Calls : worker[c] \in {"none", "done"}
  /\ pc' = "returned"
  /\ UNCHANGED <<limit, ctx, pos, sem, worker, results, runs, trace>>

-------------------------------------------------------------------------------
\* The dispatch of call c, in its goroutine or inline.

\* Mutant: the goroutine reads the loop variable when it is done.
MutantStore(c, outcome) ==
  /\ results' = [results EXCEPT ![IF Sequential THEN pos ELSE pos - 1] = ResultOf(c, outcome)]
  /\ worker' = [worker EXCEPT ![c] = IF Sequential THEN "done" ELSE "answered"]
  /\ pc' = IF Sequential THEN "launch" ELSE pc
  /\ pos' = IF Sequential THEN pos + 1 ELSE pos
  /\ UNCHANGED <<limit, ctx, sem>>

\* dispatchSafely returns: the result is stored; inline the loop goes on.
Store(c, outcome) ==
  /\ results' = [results EXCEPT ![c] = ResultOf(c, outcome)]
  /\ worker' = [worker EXCEPT ![c] = IF Sequential THEN "done" ELSE "answered"]
  /\ pc' = IF Sequential THEN "launch" ELSE pc
  /\ pos' = IF Sequential THEN pos + 1 ELSE pos
  /\ UNCHANGED <<limit, ctx, sem>>

\* No such tool, no handler, input that its schema refuses; for a consult, a
\* target the agent does not have or input that cannot be read.
RejectTool(c) ==
  /\ worker[c] = "ready"
  /\ Store(c, "error")
  /\ trace' = [trace EXCEPT ![c] = "completed"]
  /\ UNCHANGED runs

InvokeTool(c) ==
  /\ worker[c] = "ready"
  /\ worker' = [worker EXCEPT ![c] = "running"]
  /\ runs' = [runs EXCEPT ![c] = @ + 1]
  /\ trace' = [trace EXCEPT ![c] = "started"]
  /\ UNCHANGED <<caller, ctx, results>>

\* The handler returns.  Whether it watches the context is up to it.
FinishTool(c) ==
  /\ worker[c] = "running"
  /\ \E outcome \in {"ok", "error"} : Store(c, outcome)
  /\ trace' = [trace EXCEPT ![c] = "completed"]
  /\ UNCHANGED runs

\* Mutant: the slot is given back after dispatchSafely, not deferred, and a panic
\* is recovered by the goroutine.
MutantPanicTool(c) ==
  /\ worker[c] = "running"
  /\ results' = [results EXCEPT ![c] = ResultOf(c, "panic")]
  /\ worker' = [worker EXCEPT ![c] = IF Sequential THEN "done" ELSE "freed"]
  /\ pc' = IF Sequential THEN "launch" ELSE pc
  /\ pos' = IF Sequential THEN pos + 1 ELSE pos
  /\ UNCHANGED <<limit, ctx, sem, runs, trace>>

\* dispatchSafely recovers outside dispatchOneWithTracing, whose last events are
\* skipped.
PanicTool(c) ==
  /\ worker[c] = "running"
  /\ Store(c, "panic")
  /\ UNCHANGED <<runs, trace>>

\* The two deferred calls of the goroutine, last deferred first.
Release(c) ==
  /\ worker[c] = "answered"
  /\ worker' = [worker EXCEPT ![c] = "freed"]
  /\ sem' = sem - 1
  /\ UNCHANGED <<limit, ctx, pc, pos, results, runs, trace>>

DoneWaiting(c) ==
  /\ worker[c] = "freed"
  /\ worker' = [worker EXCEPT ![c] = "done"]
  /\ UNCHANGED <<caller, ctx, results, runs, trace>>

-------------------------------------------------------------------------------

\* The caller's context ends, by a timeout or a cancellation.
EndContext ==
  /\ ctx = "live"
  /\ pc # "returned"
  /\ ctx' = "cancelled"
  /\ UNCHANGED <<caller, worker, results, runs, trace>>

Caller == StopLaunch \/ Launch \/ CallInline \/ EndOfCalls \/ Join

Dispatch(c) ==
  \/ RejectTool(c) \/ InvokeTool(c) \/ FinishTool(c) \/ PanicTool(c)
  \/ Release(c) \/ DoneWaiting(c)

\* Goroutines that go on, and handlers that return.
Dispatching == Caller \/ \E c \in Calls : Dispatch(c)

DispatchNext == Dispatching \/ EndContext

DispatchSpec == DispatchInit /\ [][DispatchNext]_dispatchVars

-------------------------------------------------------------------------------

\* Types of the state; a result is unset or carries the id of a call.
DispatchTypeOK ==
  /\ limit \in Limits
  /\ ctx \in {"live", "cancelled"}
  /\ pc \in {"launch", "inline", "wait", "returned"}
  /\ pos \in 1..N + 1
  /\ sem \in Nat
  /\ worker \in [Calls -> WorkerStates]
  /\ results \in [Calls -> {Unset} \cup [id : Calls, outcome : Outcomes]]
  /\ runs \in [Calls -> Nat]
  /\ trace \in [Calls -> {"none", "started", "completed"}]

Width == IF Sequential THEN 1 ELSE limit
InHandler == {c \in Calls : worker[c] = "running"}

\* "maxConcurrent is a per-batch limit; values <= 1 execute sequentially"
\* (tools/dispatcher.go:78): no interleaving of launches, panics and releases
\* has more handlers running.
LimitHeld == Cardinality(InHandler) <= Width

\* When the batch returns, result i belongs to call i whatever order the tools
\* finished in, a handler was entered at most once, and a call is reported as
\* cancelled before it started exactly if nothing of it ever ran.
ResultsComplete ==
  pc = "returned" =>
    \A c \in Calls :
      /\ results[c].id = c
      /\ runs[c] <= 1
      /\ results[c].outcome = "cancelled" <=> worker[c] = "none"
      /\ results[c].outcome \in {"ok", "panic"} => runs[c] = 1
      /\ results[c].outcome = "cancelled" => runs[c] = 0

\* The calls that start are a prefix of the batch, even when the context ends in
\* the middle of it, and without concurrency a tool sees every earlier one done.
StartsInOrder ==
  \A c, d \in Calls :
    c < d /\ worker[d] # "none" =>
      /\ worker[c] # "none"
      /\ Sequential => worker[c] = "done"

\* The caller reads the results without a lock: after the batch has returned no
\* goroutine of it touches them, enters a tool or reports an event.
ResultsSettled == [][pc = "returned" => UNCHANGED <<results, runs, trace>>]_dispatchVars

\* The dispatcher implements the abstract batch.
Batch == INSTANCE ToolBatch WITH
  width <- Width,
  started <- IF pc = "inline" THEN pos ELSE pos - 1,
  answers <- [c \in Calls |-> IF results[c].id = c THEN results[c].outcome ELSE "none"],
  over <- pc = "returned"
BatchSpec == Batch!Spec

\* The batch has returned.
DispatchSettled == pc = "returned"

\* observability/README.md:235 says "agent.tool.completed - after a normal tool
\* dispatch returns or fails": no dispatch of a finished batch lacks the event.
DispatchesCompleted ==
  pc = "returned" => \A c \in Calls : trace[c] # "started"
===============================================================================
