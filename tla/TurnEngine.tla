------------------------------ MODULE TurnEngine ------------------------------
(***************************************************************************)
(* One agent.Runtime serving the turns (Run or Stream) of one session, one *)
(* after the other: the step loop of agent/internal/engine.ExecuteTurn and *)
(* the command plans by which agent.runExecutor carries its steps out on a *)
(* run-local copy of the session, the conversation and session stores it   *)
(* checkpoints to, and the publication of the run-local state.  Overlapping*)
(* runs and API mutations are the subject of RuntimeState.                 *)
(*                                                                         *)
(* A conversation is its one system message, named by the agent whose      *)
(* prompt it is, and the other messages; a message is its role and the ids *)
(* of the tool calls it makes or answers.  Ids are unique per response.    *)
(***************************************************************************)
EXTENDS Integers, Selections

CONSTANTS
  Agents,        \* agent definitions
  Root,          \* Runtime.rootAgent
  Subagents,     \* [Agents -> SUBSET Agents], Agent.Subagents()
  Resolvable,    \* agents the SubagentResolver finds
  MaxTokens,     \* [Agents -> Nat], BudgetConfig.MaxTokens, 0 for no limit
  MaxSteps,      \* Runtime.maxSteps
  MaxHistory,    \* turns the turn-window compactor keeps, 0 for no compactor
  ContextLimit,  \* modelContextLimit less the reserve, in messages, 0 for none
  Filters,       \* transfer input filters the application may configure
  Recent,        \* the window of RecentWindowTransferInput
  Usages,        \* tokens one provider call may use
  MaxCalls,      \* tool calls in one response
  MaxTurns,      \* bound: turns started
  MaxCrashes,    \* bound: process crashes
  None           \* a missing value

ASSUME AgentsAssumption ==
  /\ Root \in Agents
  /\ Resolvable \subseteq Agents
  /\ Subagents \in [Agents -> SUBSET Agents]
  /\ MaxTokens \in [Agents -> Nat]
  /\ None \notin Agents
ASSUME BoundsAssumption ==
  /\ MaxSteps \in Nat \ {0}
  /\ MaxHistory \in Nat
  /\ ContextLimit \in Nat
  /\ Filters \subseteq {"none", "tools", "recent", "nest"} /\ Recent \in Nat
  /\ Usages \subseteq Nat
  /\ MaxCalls \in Nat
  /\ MaxTurns \in Nat
  /\ MaxCrashes \in Nat

VARIABLES
  mem,      \* Runtime.agent, tools, session and conv: what the next run captures,
            \* and Runtime.transferInputFilter
  run,      \* runState of the run in progress
  pc,       \* where the executor stands in the turn
  step,     \* stepIndex of the engine loop
  store,    \* what the conversation and session stores hold
  outcome,  \* what the last finished turn returned
  turns,    \* turns started so far
  crashes,  \* crashes so far
  billed    \* tokens AddUsage has recorded for the session, over all its runs

vars == <<mem, run, pc, step, store, outcome, turns, crashes, billed>>

-------------------------------------------------------------------------------
(* Messages, conversations, budgets *)

User == [role |-> "user", calls |-> <<>>]
Assistant(calls) == [role |-> "assistant", calls |-> calls]
ToolResult(id) == [role |-> "tool", calls |-> <<id>>]

CallIds == 1 .. MaxCalls
Messages == {User} \cup [role : {"assistant", "tool"}, calls : Seq(CallIds)]
Conversations == [prompt : Agents, msgs : Seq(Messages)]
Budgets == [max : Nat, used : Nat]

Extend(conv, msgs) == [conv EXCEPT !.msgs = @ \o msgs]

\* Budget.Check: a limit of zero is no limit, reaching the limit does not exceed it.
Exceeded(budget) == budget.max > 0 /\ budget.used > budget.max

\* splitTurns: a turn starts at a user message, or at the very first message.
TurnStarts(msgs) == {i \in DOMAIN msgs : i = 1 \/ msgs[i].role = "user"}

\* turnwindow Compact: the messages of the last MaxHistory turns.  Message i is
\* one of them when fewer than MaxHistory turns start after it.
LastTurns(conv) ==
  LET starts == TurnStarts(conv.msgs)
      kept == {i \in DOMAIN conv.msgs : Cardinality({j \in starts : j > i}) < MaxHistory}
      len == Len(conv.msgs)
  IN  IF MaxHistory = 0 THEN conv
      ELSE [conv EXCEPT !.msgs = SubSeq(@, len - Cardinality(kept) + 1, len)]

\* Engine.Compact behind MaxTurnsTrigger, which counts user messages.
Compacted(conv) ==
  IF Cardinality({i \in DOMAIN conv.msgs : conv.msgs[i].role = "user"}) > MaxHistory
  THEN LastTurns(conv)
  ELSE conv

\* shouldForcePreflightCompaction, with messages for tokens; 1 is the system message.
OverContext(conv) == ContextLimit > 0 /\ 1 + Len(conv.msgs) > ContextLimit

-------------------------------------------------------------------------------
(* Agents *)

\* isTransferAllowedFor, then resolveTransferAgent.
TransferAllowed(caller, target) ==
  \/ target \in Subagents[caller]
  \/ caller # Root /\ (target \in Subagents[Root] \/ target = Root)
TransferAvailable(caller, target) ==
  TransferAllowed(caller, target) /\ (target = Root \/ target \in Resolvable)

\* ResolveSessionAgent: a missing or unknown active_agent falls back to the root.
ResolveSessionAgent(owner) == IF owner \in Resolvable THEN owner ELSE Root

\* Runtime.ActiveAgent, for an owner that can be resolved.
ActiveAgent(owner) == IF owner = None THEN Root ELSE owner

-------------------------------------------------------------------------------
(* Runtime memory, run state and stores *)

Owners == Agents \cup {None}
Sessions == [owner : Owners, config : Agents, budget : Budgets]
Memories ==
  [agent : Agents, tools : Agents, owner : Owners, config : Agents,
   budget : Budgets, conv : Conversations, filter : Filters]
Runs ==
  [agent : Agents, tools : Agents, owner : Owners, config : Agents,
   budget : Budgets, conv : Conversations,
   mode : {"run", "stream"},
   bound : Budgets \cup {None},  \* the budget object the CheckBudget hook is bound
                                 \* to, once that is no longer the run's own
   target : Owners,              \* agent of the transfer being applied, or None
   input : BOOLEAN,              \* that transfer carries a message for its target
   billed : Nat]                 \* tokens AddUsage has recorded for this run
Stores == [conv : Conversations \cup {None}, session : Sessions \cup {None}]

ASSUME NoneAssumption ==
  None \notin Sessions \cup Conversations \cup Budgets \cup Stores

\* NewRuntime with a new session for the root agent.
FreshMemory(filter) ==
  [agent |-> Root, tools |-> Root, owner |-> None, config |-> Root,
   budget |-> [max |-> MaxTokens[Root], used |-> 0],
   conv |-> [prompt |-> Root, msgs |-> <<>>], filter |-> filter]

SessionOf(s) == [owner |-> s.owner, config |-> s.config, budget |-> s.budget]

\* captureRunState
Capture(mode) ==
  [agent |-> mem.agent, tools |-> mem.tools, owner |-> mem.owner,
   config |-> mem.config, budget |-> mem.budget, conv |-> mem.conv,
   mode |-> mode, bound |-> None, target |-> None, input |-> FALSE, billed |-> 0]

\* Mutant: the hook looks at the session's budget, not at the run's.
MutantCheckedBudget == mem.budget

\* The budget Hooks.CheckBudget looks at.
CheckedBudget == IF run.bound = None THEN run.budget ELSE run.bound

Init ==
  /\ \E filter \in Filters : mem = FreshMemory(filter)
  /\ run = None
  /\ pc = "idle"
  /\ step = 0
  /\ store = [conv |-> None, session |-> None]
  /\ outcome = "none"
  /\ turns = 0
  /\ crashes = 0
  /\ billed = 0

-------------------------------------------------------------------------------
(* The ends of a turn *)

\* Mutant: a failed turn leaves its run state behind.
MutantTurnFails ==
  /\ pc' = "idle"
  /\ run' = run
  /\ step' = 0
  /\ outcome' = "error"
  /\ UNCHANGED <<mem, turns, crashes>>

\* Every error path returns to Run or Stream, which drop the run state.
TurnFails ==
  /\ pc' = "idle"
  /\ run' = None
  /\ step' = 0
  /\ outcome' = "error"
  /\ UNCHANGED <<mem, turns, crashes>>

\* The executor moves on within the turn.
Goto(label) ==
  /\ pc' = label
  /\ UNCHANGED <<mem, outcome, turns, crashes>>

-------------------------------------------------------------------------------
(* Starting a turn *)

\* ExecuteTurn's first budget check refuses the turn before the user message
\* is appended.
StartRefused ==
  /\ pc = "idle"
  /\ turns < MaxTurns
  /\ Exceeded(mem.budget)
  /\ turns' = turns + 1
  /\ outcome' = "error"
  /\ UNCHANGED <<mem, run, pc, step, store, crashes, billed>>

StartTurn(mode) ==
  /\ pc = "idle"
  /\ turns < MaxTurns
  /\ ~Exceeded(mem.budget)
  /\ run' = [Capture(mode) EXCEPT !.conv = Extend(@, <<User>>)]
  /\ pc' = "gate"
  /\ step' = 0
  /\ turns' = turns + 1
  /\ outcome' = "none"
  /\ UNCHANGED <<mem, store, crashes, billed>>

\* The head of the step loop and the preflight context guard.
EnterStep ==
  /\ pc = "gate"
  /\ step < MaxSteps
  /\ ~Exceeded(CheckedBudget)
  /\ \/ ~OverContext(run.conv) /\ run' = run
     \/ /\ OverContext(run.conv)
        /\ ~OverContext(LastTurns(run.conv))
        /\ run' = [run EXCEPT !.conv = LastTurns(@)]
  /\ Goto("await")
  /\ UNCHANGED <<step, store, billed>>

\* Max steps, an exceeded budget or a request too large even when compacted.
GateFails ==
  /\ pc = "gate"
  /\ \/ step >= MaxSteps
     \/ Exceeded(CheckedBudget)
     \/ OverContext(run.conv) /\ OverContext(LastTurns(run.conv))
  /\ TurnFails
  /\ UNCHANGED <<store, billed>>

\* The context is cancelled between steps, or the summarizing compactor fails.
GateCancelled ==
  /\ pc = "gate"
  /\ TurnFails
  /\ UNCHANGED <<store, billed>>

-------------------------------------------------------------------------------
(* One step: the provider answers *)

\* The calls of one response, in order: a transfer names its target, any other
\* tool (a consult included) is None.
Replies == UNION {[1 .. n -> Owners] : n \in 0 .. MaxCalls}
IsTransfer(reply) == \E i \in DOMAIN reply : reply[i] # None
CallsOf(reply) == [i \in 1 .. Len(reply) |-> i]

\* extractTransfer: a transfer stands alone and its target is available.
TransferValid(reply) ==
  Len(reply) = 1 /\ TransferAvailable(run.agent, reply[1])

\* AddUsage, on the budget the run has now.
AddUsage(r, usage) == [r EXCEPT !.budget.used = @ + usage, !.billed = @ + usage]

\* The provider fails, the context is cancelled, the stream's consumer does not
\* drain, or the payload of a transfer does not parse.
StepFails ==
  /\ pc = "await"
  /\ TurnFails
  /\ UNCHANGED <<store, billed>>

\* The turn fails before AddUsage: what this response cost is not recorded.
TransferRejected(reply) ==
  /\ pc = "await"
  /\ IsTransfer(reply) /\ ~TransferValid(reply)
  /\ TurnFails
  /\ UNCHANGED <<store, billed>>

\* planFinalCommands: append, then compactConversation.
FinalReply(usage) ==
  /\ pc = "await"
  /\ run' = [AddUsage(run, usage) EXCEPT
               !.conv = Compacted(Extend(@, <<Assistant(<<>>)>>))]
  /\ billed' = billed + usage
  /\ Goto("saveFinal")
  /\ UNCHANGED <<step, store>>

\* A summarizing compactor fails after the final message was appended.
CompactionFails(usage) ==
  /\ pc = "await"
  /\ MaxHistory > 0
  /\ billed' = billed + usage
  /\ TurnFails
  /\ UNCHANGED store

\* planToolCommands
ToolReply(reply, usage) ==
  /\ pc = "await"
  /\ Len(reply) > 0 /\ ~IsTransfer(reply)
  /\ run' = [AddUsage(run, usage) EXCEPT
               !.conv = Extend(@, <<Assistant(CallsOf(reply))>>)]
  /\ billed' = billed + usage
  /\ Goto("saveCalls")
  /\ UNCHANGED <<step, store>>

\* planTransferCommands
TransferReply(reply, usage, input) ==
  /\ pc = "await"
  /\ IsTransfer(reply) /\ TransferValid(reply)
  /\ run' = [AddUsage(run, usage) EXCEPT
               !.conv = Extend(@, <<Assistant(CallsOf(reply))>>),
               !.target = reply[1],
               !.input = input]
  /\ billed' = billed + usage
  /\ Goto("saveCalls")
  /\ UNCHANGED <<step, store>>

-------------------------------------------------------------------------------
(* Checkpoints: the executor saves the conversation it has *)

\* Mutant: a final reply is published without saving the session.
MutantAfterCheckpoint ==
  CASE pc = "saveFinal" -> "publish"
    [] pc = "saveCalls" -> "results"
    [] pc = "saveResults" /\ run.target = None -> "gate"
    [] pc = "saveResults" /\ run.target # None -> "apply"

\* Where the command plans go on after each checkpoint.
AfterCheckpoint ==
  CASE pc = "saveFinal" -> "saveSession"
    [] pc = "saveCalls" -> "results"
    [] pc = "saveResults" /\ run.target = None -> "gate"
    [] pc = "saveResults" /\ run.target # None -> "apply"

\* checkpoint; after the results of ordinary tools the next step begins.
Checkpoint ==
  /\ pc \in {"saveFinal", "saveCalls", "saveResults"}
  /\ store' = [store EXCEPT !.conv = run.conv]
  /\ step' = IF AfterCheckpoint = "gate" THEN step + 1 ELSE step
  /\ Goto(AfterCheckpoint)
  /\ UNCHANGED <<run, billed>>

\* Mutant: a checkpoint that fails is logged and passed over.
MutantCheckpointFails ==
  /\ pc \in {"saveFinal", "saveCalls", "saveResults"}
  /\ step' = IF AfterCheckpoint = "gate" THEN step + 1 ELSE step
  /\ Goto(AfterCheckpoint)
  /\ UNCHANGED <<run, store, billed>>

\* Save reports an error, whether or not the store took the messages.
CheckpointFails ==
  /\ pc \in {"saveFinal", "saveCalls", "saveResults"}
  /\ store' \in {store, [store EXCEPT !.conv = run.conv]}
  /\ TurnFails
  /\ UNCHANGED billed

-------------------------------------------------------------------------------
(* Tool results and transfers *)

PendingCalls == run.conv.msgs[Len(run.conv.msgs)].calls
Results == [i \in 1 .. Len(PendingCalls) |-> ToolResult(PendingCalls[i])]

\* AppendToolResults: what dispatchWithTracing returns for ordinary tools, the
\* acknowledgment for a transfer.
AppendToolResults ==
  /\ pc = "results"
  /\ run' = [run EXCEPT !.conv = Extend(@, Results)]
  /\ Goto("saveResults")
  /\ UNCHANGED <<step, store, billed>>

\* Mutant: the target starts with a budget of its own.
MutantRebasedBudget(r) == [max |-> MaxTokens[r.target], used |-> 0]

\* rebaseBudgetSnapshot: the target's limit, the session's usage.
RebasedBudget(r) == [max |-> MaxTokens[r.target], used |-> r.budget.used]

\* Mutant: RemoveToolTransferInput leaves the calls.
MutantFiltered(msgs) ==
  CASE mem.filter = "none" -> msgs
    [] mem.filter = "tools" -> Select(msgs, {i \in DOMAIN msgs : msgs[i].role # "tool"})
    [] mem.filter = "recent" ->
         IF Len(msgs) <= Recent THEN msgs ELSE SubSeq(msgs, Len(msgs) - Recent + 1, Len(msgs))
    [] mem.filter = "nest" -> IF msgs = <<>> THEN <<>> ELSE <<Assistant(<<>>)>>

\* The filters of transfer_input.go: without tool calls and results; the last Recent
\* messages; one assistant message that tells the conversation so far.
Filtered(msgs) ==
  CASE mem.filter = "none" -> msgs
    [] mem.filter = "tools" ->
         Select(msgs, {i \in DOMAIN msgs : msgs[i].role # "tool" /\ msgs[i].calls = <<>>})
    [] mem.filter = "recent" ->
         IF Len(msgs) <= Recent THEN msgs ELSE SubSeq(msgs, Len(msgs) - Recent + 1, Len(msgs))
    [] mem.filter = "nest" -> IF msgs = <<>> THEN <<>> ELSE <<Assistant(<<>>)>>

\* Mutant: the prompt is only replaced when the transfer carries a message.
MutantTransferredConv(r) ==
  [prompt |-> IF r.input THEN r.target ELSE r.conv.prompt,
   msgs |-> Filtered(r.conv.msgs) \o IF r.input THEN <<User>> ELSE <<>>]

\* The runtime's filter, then withAgentSystemPrompt, then the transfer's message, if any,
\* for the target.  The filters keep the system message, which the target's replaces.
TransferredConv(r) ==
  [prompt |-> r.target,
   msgs |-> Filtered(r.conv.msgs) \o IF r.input THEN <<User>> ELSE <<>>]

\* resolveTransferStateFrom and the assignments after it.  The budget is a new
\* object; CheckBudget stays bound to the one the turn started with.
HandOver(r) ==
  [r EXCEPT !.agent = r.target, !.tools = r.target, !.owner = r.target,
            !.config = r.target, !.bound = CheckedBudget,
            !.budget = RebasedBudget(r), !.conv = TransferredConv(r),
            !.target = None, !.input = FALSE]

\* Mutant: a transfer does not count as a step.
MutantApplyTransfer ==
  /\ pc = "apply"
  /\ run' = HandOver(run)
  /\ Goto("gate")
  /\ UNCHANGED <<step, store, billed>>

\* applyTransfer, the last command of the step.
ApplyTransfer ==
  /\ pc = "apply"
  /\ run' = HandOver(run)
  /\ step' = step + 1
  /\ Goto("gate")
  /\ UNCHANGED <<store, billed>>

\* The resolver or the transfer input filter fails.
ApplyTransferFails ==
  /\ pc = "apply"
  /\ TurnFails
  /\ UNCHANGED <<store, billed>>

-------------------------------------------------------------------------------
(* The end of executeFinalCommandPlan *)

SaveSession ==
  /\ pc = "saveSession"
  /\ store' = [store EXCEPT !.session = SessionOf(run)]
  /\ Goto("publish")
  /\ UNCHANGED <<run, step, billed>>

\* Mutant: a session save that fails is logged and passed over.
MutantSaveSessionFails ==
  /\ pc = "saveSession"
  /\ Goto("publish")
  /\ UNCHANGED <<run, step, store, billed>>

\* SaveSession reports an error, whether or not the store took the session.
SaveSessionFails ==
  /\ pc = "saveSession"
  /\ store' \in {store, [store EXCEPT !.session = SessionOf(run)]}
  /\ TurnFails
  /\ UNCHANGED billed

\* Mutant: the runtime keeps the tools it had.
MutantPublish ==
  /\ pc = "publish"
  /\ mem' = [agent |-> run.agent, tools |-> mem.tools, owner |-> run.owner,
             config |-> run.config, budget |-> run.budget, conv |-> run.conv,
             filter |-> mem.filter]
  /\ pc' = "emit"
  /\ UNCHANGED <<run, step, store, outcome, turns, crashes, billed>>

\* publishRunState, at an unchanged generation.
Publish ==
  /\ pc = "publish"
  /\ mem' = [agent |-> run.agent, tools |-> run.tools, owner |-> run.owner,
             config |-> run.config, budget |-> run.budget, conv |-> run.conv,
             filter |-> mem.filter]
  /\ pc' = "emit"
  /\ UNCHANGED <<run, step, store, outcome, turns, crashes, billed>>

\* EmitFinalText and EmitDone, then Run or Stream return.
Finish ==
  /\ pc = "emit"
  /\ pc' = "idle"
  /\ run' = None
  /\ step' = 0
  /\ outcome' = "ok"
  /\ UNCHANGED <<mem, store, turns, crashes, billed>>

\* sendStreamingEvent gives up: the consumer does not drain or has cancelled.
\* The adapter of Run never fails.
EmitFails ==
  /\ pc \in {"results", "emit"}
  /\ run.mode = "stream"
  /\ TurnFails
  /\ UNCHANGED <<store, billed>>

-------------------------------------------------------------------------------
(* The process dies; the application resumes the session *)

Crash ==
  /\ pc # "down"
  /\ crashes < MaxCrashes
  /\ pc' = "down"
  /\ run' = None
  /\ step' = 0
  /\ outcome' = "none"
  /\ crashes' = crashes + 1
  /\ UNCHANGED <<mem, store, turns, billed>>

\* No session was saved: the application opens a new one.
RestartFresh ==
  /\ pc = "down"
  /\ store.session = None
  /\ \E filter \in Filters : mem' = FreshMemory(filter)
  /\ store' = [conv |-> None, session |-> None]
  /\ billed' = 0
  /\ pc' = "idle"
  /\ UNCHANGED <<run, step, outcome, turns, crashes>>

\* SessionFromStoreData, LoadConversationFromStore, then NewRuntime, which binds
\* the session to its active agent when that is not the root.
Resume ==
  /\ pc = "down"
  /\ store.session # None /\ store.conv # None
  /\ LET agent == ResolveSessionAgent(store.session.owner)
     IN  \E filter \in Filters :
         mem' = [agent |-> agent,
                 tools |-> agent,
                 owner |-> store.session.owner,
                 config |-> IF agent = Root THEN store.session.config ELSE agent,
                 budget |-> store.session.budget,
                 conv |-> store.conv,
                 filter |-> filter]
  /\ pc' = "idle"
  /\ UNCHANGED <<run, step, store, outcome, turns, crashes, billed>>

-------------------------------------------------------------------------------
Reply ==
  \/ StepFails
  \/ \E reply \in Replies : TransferRejected(reply)
  \/ \E usage \in Usages :
       \/ FinalReply(usage) \/ CompactionFails(usage)
       \/ \E reply \in Replies :
            \/ ToolReply(reply, usage)
            \/ \E input \in BOOLEAN : TransferReply(reply, usage, input)

\* What the executor of a running turn does, the provider's answer included.
Progress ==
  \/ EnterStep \/ GateFails \/ GateCancelled
  \/ Reply
  \/ Checkpoint \/ CheckpointFails
  \/ AppendToolResults \/ ApplyTransfer \/ ApplyTransferFails
  \/ SaveSession \/ SaveSessionFails \/ Publish
  \/ Finish \/ EmitFails

Next ==
  \/ StartRefused
  \/ \E mode \in {"run", "stream"} : StartTurn(mode)
  \/ Progress
  \/ Crash \/ RestartFresh \/ Resume

Spec == Init /\ [][Next]_vars

\* The goroutine of a turn keeps running and the provider, the stores and the
\* tools return: every one of them is called with the context of the turn.
FairSpec == Spec /\ WF_vars(Progress)

-------------------------------------------------------------------------------
(* Properties *)

Running == pc \notin {"idle", "down"}
Labels ==
  {"idle", "gate", "await", "saveFinal", "saveCalls", "results", "saveResults",
   "apply", "saveSession", "publish", "emit", "down"}

\* Type invariant: a run state exists exactly while a turn is in progress.
TypeOK ==
  /\ mem \in Memories
  /\ IF Running THEN run \in Runs ELSE run = None
  /\ pc \in Labels
  /\ step \in 0 .. MaxSteps
  /\ store \in Stores
  /\ outcome \in {"none", "ok", "error"}
  /\ turns \in Nat /\ crashes \in Nat /\ billed \in Nat

\* What the session's transfers, if there were any, have filtered the conversation by.
Applied(s) == IF s.owner = None THEN "none" ELSE mem.filter

\* Each call of message i is answered right after it, in the order of the calls.
Answered(msgs, i) ==
  msgs[i].role = "assistant" =>
    \A k \in DOMAIN msgs[i].calls :
      i + k \in DOMAIN msgs /\ msgs[i + k] = ToolResult(msgs[i].calls[k])

\* Message i is among the results that follow a message with calls.
CalledFor(msgs, i) ==
  \E j \in 1 .. i - 1 : msgs[j].role = "assistant" /\ i - j \in DOMAIN msgs[j].calls

\* There is no other tool message than the results of calls, but for those at the front
\* that the window of "recent" cut from their calls.  The first message is the user's
\* unless "recent" or "nest" has dropped it.
WellFormed(msgs, filter) ==
  \A i \in DOMAIN msgs :
    /\ i = 1 /\ filter \notin {"recent", "nest"} => msgs[i].role = "user"
    /\ Answered(msgs, i)
    /\ msgs[i].role = "tool" =>
         \/ CalledFor(msgs, i)
         \/ filter = "recent" /\ \A j \in 1 .. i : msgs[j].role = "tool"

\* Every request the provider gets answers each tool call right after it and carries no
\* orphan result, however the conversation was compacted, handed over through the
\* filters or left by failed turns, as long as the process never died.  The exception is
\* the code's: in a session handed over through RecentWindowTransferInput, requests may
\* begin with results whose calls the window cut off, until compaction drops them.
RequestWellFormed ==
  pc = "await" /\ crashes = 0 => WellFormed(run.conv.msgs, Applied(run))

\* The active agent, its tools, the session's config and the persisted owner
\* always name one agent: applyTransfer, publishRunState and NewRuntime move
\* them together, whatever fails in between.
Coherent(s) ==
  /\ s.tools = s.agent
  /\ s.config = s.agent
  /\ s.agent = ActiveAgent(s.owner)
OwnerCoherent == Coherent(mem) /\ (Running => Coherent(run))

\* While the process lives, the one system message is the active agent's.
PromptCoherent ==
  crashes = 0 =>
    /\ mem.conv.prompt = mem.agent
    /\ Running => run.conv.prompt = run.agent

\* The cumulative usage a run carries is the session's plus every token that
\* AddUsage recorded for the run: transfers change the limit, not the usage.
UsageConserved ==
  Running /\ pc # "emit" => run.budget.used = mem.budget.used + run.billed

\* A session that was never transferred overshoots its limit by at most one
\* response, over all its turns and restarts.
OvershootBounded ==
  mem.owner = None /\ mem.budget.max > 0 =>
    mem.budget.used = 0 \/ \E u \in Usages : mem.budget.used <= mem.budget.max + u

\* A session in the session store has its conversation in the other store:
\* executeFinalCommandPlan checkpoints before it saves the session.
SessionHasConversation == store.session # None => store.conv # None

Memory == [session |-> SessionOf(mem), conv |-> mem.conv]
Durable ==
  IF store.session = None THEN None
  ELSE [session |-> store.session, conv |-> store.conv]
Phase ==
  CASE pc \in {"idle", "down"} -> pc
    [] pc = "emit" -> "committed"
    [] OTHER -> "running"

\* A turn that reported success is already in both stores, to the last message.
SuccessIsDurable == outcome = "ok" => Durable = Memory

Contract ==
  INSTANCE TurnContract WITH
    memory <- Memory, durable <- Durable, phase <- Phase,
    Fresh <- [session |-> SessionOf(FreshMemory("none")), conv |-> FreshMemory("none").conv]

\* The runtime implements the turn contract.
ContractSpec == Contract!Spec

\* A turn in progress ends, even when the model never stops calling tools or
\* handing the session over.
TurnFinishes == Running ~> ~Running

-------------------------------------------------------------------------------
(* What documents and comments say, checked by runs of their own *)

\* budget.go: "Check returns an error if the budget has been exceeded", and the
\* engine checks before every step.
StepWithinBudget == pc = "await" => ~Exceeded(run.budget)

\* budget.go: "cumulative token usage ... across an agent session".
UsageCumulative == pc = "idle" => mem.budget.used = billed

\* multiagent-implementation-plan.md: the agent's own prompt is authoritative.
OwnPromptInRequest == pc = "await" => run.conv.prompt = run.agent
===============================================================================
