--------------------------- MODULE TurnEngine_proofs ---------------------------
(***************************************************************************)
(* For every set of agents, limit and bound: a turn keeps the types, keeps *)
(* ownership in one piece, counts every recorded token, reports success    *)
(* only for what both stores hold, and sends only well-formed requests.    *)
(***************************************************************************)
EXTENDS TurnEngine, Selections_proofs

-------------------------------------------------------------------------------
(* Conversations *)

LEMMA MessageTypes ==
  /\ User \in Messages
  /\ \A calls \in Seq(CallIds) : Assistant(calls) \in Messages
  /\ \A id \in CallIds : ToolResult(id) \in Messages
<1>1. User \in Messages
  BY DEF User, Messages
<1>2. ASSUME NEW calls \in Seq(CallIds) PROVE Assistant(calls) \in Messages
  BY DEF Assistant, Messages
<1>3. ASSUME NEW id \in CallIds PROVE ToolResult(id) \in Messages
  <2>1. <<id>> \in Seq(CallIds)
    OBVIOUS
  <2> QED
    BY <2>1 DEF ToolResult, Messages
<1> QED
  BY <1>1, <1>2, <1>3

LEMMA MessageCalls ==
  ASSUME NEW m \in Messages
  PROVE  m.calls \in Seq(CallIds)
<1>1. <<>> \in Seq(CallIds)
  OBVIOUS
<1>2. CASE m = User
  BY <1>1, <1>2 DEF User
<1>3. CASE m \in [role : {"assistant", "tool"}, calls : Seq(CallIds)]
  BY <1>3
<1> QED
  BY <1>2, <1>3 DEF Messages

LEMMA ExtendType ==
  ASSUME NEW conv \in Conversations, NEW msgs \in Seq(Messages)
  PROVE  /\ Extend(conv, msgs) \in Conversations
         /\ Extend(conv, msgs).prompt = conv.prompt
         /\ Extend(conv, msgs).msgs = conv.msgs \o msgs
<1>1. conv.msgs \o msgs \in Seq(Messages)
  BY DEF Conversations
<1> QED
  BY <1>1 DEF Extend, Conversations

(* A compacted conversation is a suffix under the same prompt.             *)
LEMMA LastTurnsType ==
  ASSUME NEW conv \in Conversations
  PROVE  LastTurns(conv) \in Conversations /\ LastTurns(conv).prompt = conv.prompt
<1> DEFINE len == Len(conv.msgs)
           starts == TurnStarts(conv.msgs)
           kept == {i \in DOMAIN conv.msgs : Cardinality({j \in starts : j > i}) < MaxHistory}
           suffix == SubSeq(conv.msgs, len - Cardinality(kept) + 1, len)
<1>1. conv.msgs \in Seq(Messages) /\ len \in Nat /\ DOMAIN conv.msgs = 1 .. len
  BY DEF Conversations
<1>2. Cardinality(kept) \in 0 .. len
  <2>1. IsFiniteSet(1 .. len) /\ Cardinality(1 .. len) = len
    BY <1>1, FS_Interval
  <2>2. kept \subseteq 1 .. len
    BY <1>1
  <2>3. IsFiniteSet(kept) /\ Cardinality(kept) <= len
    <3> HIDE DEF kept, len
    <3> QED
      BY <2>1, <2>2, FS_Subset
  <2>4. Cardinality(kept) \in Nat
    BY <2>3, FS_CardinalityType
  <2> QED
    BY <1>1, <2>3, <2>4
<1>3. suffix \in Seq(Messages)
  <2> HIDE DEF kept
  <2> QED
    BY <1>1, <1>2, SubSeqProperties
<1>4. LastTurns(conv) \in {conv, [conv EXCEPT !.msgs = suffix]}
  BY DEF LastTurns
<1>5. [conv EXCEPT !.msgs = suffix] \in Conversations
      /\ [conv EXCEPT !.msgs = suffix].prompt = conv.prompt
  <2> HIDE DEF suffix
  <2> QED
    BY <1>3 DEF Conversations
<1> QED
  BY <1>4, <1>5

LEMMA CompactedType ==
  ASSUME NEW conv \in Conversations
  PROVE  Compacted(conv) \in Conversations /\ Compacted(conv).prompt = conv.prompt
BY LastTurnsType DEF Compacted

(* The calls of a response, and the results that answer them.              *)
LEMMA RepliesType ==
  ASSUME NEW reply \in Replies
  PROVE  /\ Len(reply) \in Nat /\ DOMAIN reply = 1 .. Len(reply)
         /\ \A i \in DOMAIN reply : reply[i] \in Owners
         /\ CallsOf(reply) \in Seq(CallIds)
<1>1. PICK n \in 0 .. MaxCalls : reply \in [1 .. n -> Owners]
  BY DEF Replies
<1>2. MaxCalls \in Nat /\ n \in Nat /\ n <= MaxCalls
  BY BoundsAssumption
<1>3. reply \in Seq(Owners) /\ Len(reply) = n
  BY <1>1, <1>2
<1>4. CallsOf(reply) \in Seq(CallIds)
  BY <1>2, <1>3 DEF CallsOf, CallIds
<1> QED
  BY <1>1, <1>3, <1>4

-------------------------------------------------------------------------------
(* The inductive invariant *)

OwnerKnown(owner) == owner = None \/ owner = Root \/ owner \in Resolvable

(* What the run in progress has, by where the executor stands.  The second *)
(* conjunct is why a Resume finds the agent a session names: only targets  *)
(* that were available ever become owners.                                 *)
RunInv ==
  /\ Coherent(run)
  /\ OwnerKnown(run.owner) /\ OwnerKnown(run.target)
  /\ pc = "apply" => run.target # None
  /\ pc \in {"saveCalls", "results"} => Len(run.conv.msgs) > 0
  /\ pc # "gate" => step < MaxSteps
  /\ pc # "emit" => run.budget.used = mem.budget.used + run.billed

(* A stored session can be resumed by its owner, with its conversation.    *)
StoreInv ==
  store.session # None =>
    /\ store.conv # None
    /\ store.session.config = ActiveAgent(store.session.owner)
    /\ OwnerKnown(store.session.owner)

(* What is in the stores before the executor takes the next command.       *)
CommitInv ==
  /\ pc \in {"saveSession", "publish"} => store.conv = run.conv
  /\ pc = "publish" => store.session = SessionOf(run)
  /\ pc = "emit" => Durable = Memory
  /\ outcome = "ok" => pc = "idle" /\ Durable = Memory

CrashInv == pc = "down" => crashes > 0

IInv ==
  /\ TypeOK
  /\ Coherent(mem) /\ OwnerKnown(mem.owner)
  /\ Running => RunInv
  /\ StoreInv
  /\ CommitInv
  /\ PromptCoherent
  /\ CrashInv

-------------------------------------------------------------------------------
(* The fields of runs                                                      *)

Fields == {"agent", "tools", "owner", "config", "budget", "conv", "mode",
           "bound", "target", "input", "billed"}

(* A run whose conversation is replaced is a run, otherwise the same.      *)
LEMMA WithConv ==
  ASSUME NEW r \in Runs, NEW conv \in Conversations
  PROVE  LET s == [r EXCEPT !.conv = conv]
         IN  /\ s \in Runs
             /\ s.conv = conv
             /\ \A f \in Fields \ {"conv"} : s[f] = r[f]
BY DEF Runs, Fields

(* AddUsage adds to the usage and to the record of it alike.               *)
LEMMA AddUsageType ==
  ASSUME NEW r \in Runs, NEW usage \in Usages
  PROVE  LET s == AddUsage(r, usage)
         IN  /\ s \in Runs
             /\ s.budget.used = r.budget.used + usage
             /\ s.billed = r.billed + usage
             /\ \A f \in Fields \ {"budget", "billed"} : s[f] = r[f]
<1>1. usage \in Nat
  BY BoundsAssumption
<1>2. r.budget \in Budgets /\ r.billed \in Nat
  BY DEF Runs
<1> DEFINE budget == [r.budget EXCEPT !.used = @ + usage]
<1>3. budget \in Budgets /\ budget.used = r.budget.used + usage
  BY <1>1, <1>2 DEF Budgets
<1>4. AddUsage(r, usage) = [r EXCEPT !.budget = budget, !.billed = r.billed + usage]
  BY DEF AddUsage, Runs
<1> HIDE DEF budget
<1>5. r.billed + usage \in Nat
  BY <1>1, <1>2
<1> QED
  BY <1>3, <1>4, <1>5 DEF Runs, Fields

(* What captureRunState takes is coherent when the runtime is.             *)
LEMMA CaptureType ==
  ASSUME mem \in Memories, NEW mode \in {"run", "stream"}
  PROVE  LET r == Capture(mode)
         IN  /\ r \in Runs
             /\ r.agent = mem.agent /\ r.tools = mem.tools /\ r.owner = mem.owner
             /\ r.config = mem.config /\ r.budget = mem.budget /\ r.conv = mem.conv
             /\ r.target = None /\ r.billed = 0
BY DEF Capture, Memories, Runs, Owners

LEMMA OwnerTypes ==
  /\ \A owner \in Owners : ActiveAgent(owner) \in Agents
  /\ \A owner \in Owners : OwnerKnown(owner) =>
       ResolveSessionAgent(owner) = ActiveAgent(owner)
BY AgentsAssumption DEF Owners, ActiveAgent, OwnerKnown, ResolveSessionAgent

LEMMA FreshTypes ==
  ASSUME NEW filter \in Filters
  PROVE  LET fresh == FreshMemory(filter)
         IN  /\ fresh \in Memories
             /\ Coherent(fresh) /\ OwnerKnown(fresh.owner)
             /\ fresh.conv.prompt = fresh.agent
<1>1. Root \in Agents /\ MaxTokens[Root] \in Nat
  BY AgentsAssumption
<1>2. [prompt |-> Root, msgs |-> <<>>] \in Conversations
  BY <1>1 DEF Conversations
<1>3. [max |-> MaxTokens[Root], used |-> 0] \in Budgets
  BY <1>1 DEF Budgets
<1> QED
  BY <1>1, <1>2, <1>3
     DEF FreshMemory, Memories, Owners, Coherent, ActiveAgent, OwnerKnown

LEMMA InitIInv == Init => IInv
<1> SUFFICES ASSUME Init PROVE IInv
  OBVIOUS
<1> USE DEF Init
<1>0. PICK filter \in Filters : mem = FreshMemory(filter)
  OBVIOUS
<1>1. TypeOK
  <2>1. step \in 0 .. MaxSteps
    BY BoundsAssumption
  <2>2. store \in Stores
    BY DEF Stores
  <2> QED
    BY <1>0, <2>1, <2>2, FreshTypes DEF TypeOK, Running, Labels
<1>2. Coherent(mem) /\ OwnerKnown(mem.owner) /\ PromptCoherent
  BY <1>0, FreshTypes DEF PromptCoherent, Running
<1>3. StoreInv /\ CommitInv /\ CrashInv /\ ~Running
  BY DEF StoreInv, CommitInv, CrashInv, Running
<1> QED
  BY <1>1, <1>2, <1>3 DEF IInv

-------------------------------------------------------------------------------
(* How steps end: the turn fails, or the executor moves on                 *)

(* The conversation checkpoint and the session save keep the stores        *)
(* resumable.                                                              *)
LEMMA SavesConv ==
  ASSUME IInv, Running, store' \in {store, [store EXCEPT !.conv = run.conv]}
  PROVE  store' \in Stores /\ StoreInv'
<1>1. store \in Stores /\ StoreInv /\ run \in Runs
  BY DEF IInv, TypeOK
<1>2. run.conv \in Conversations /\ run.conv # None
  BY <1>1, NoneAssumption DEF Runs
<1> QED
  BY <1>1, <1>2 DEF Stores, StoreInv

LEMMA SessionOfType ==
  ASSUME NEW r \in Runs
  PROVE  /\ SessionOf(r) \in Sessions /\ SessionOf(r) # None
         /\ SessionOf(r).owner = r.owner /\ SessionOf(r).config = r.config
<1>1. SessionOf(r) \in Sessions
  BY DEF SessionOf, Sessions, Runs
<1> QED
  BY <1>1, NoneAssumption DEF SessionOf

LEMMA SavesSession ==
  ASSUME IInv, pc = "saveSession", 
         store' \in {store, [store EXCEPT !.session = SessionOf(run)]}
  PROVE  store' \in Stores /\ StoreInv'
<1>1. /\ store \in Stores /\ StoreInv /\ run \in Runs /\ RunInv
      /\ store.conv = run.conv
  BY DEF IInv, TypeOK, Running, CommitInv
<1>2. store.conv # None
  BY <1>1, NoneAssumption DEF Runs
<1>3. /\ SessionOf(run) \in Sessions
      /\ SessionOf(run).config = ActiveAgent(SessionOf(run).owner)
      /\ OwnerKnown(SessionOf(run).owner)
  BY <1>1, SessionOfType DEF RunInv, Coherent
<1> HIDE DEF SessionOf
<1> QED
  BY <1>1, <1>2, <1>3 DEF Stores, StoreInv

(* A failed turn leaves the memory and what the stores took.               *)
LEMMA FailedTurn ==
  ASSUME IInv, Running, TurnFails, store' \in Stores, StoreInv', billed' \in Nat
  PROVE  IInv'
<1> USE DEF TurnFails
<1>1. TypeOK'
  <2>1. step' \in 0 .. MaxSteps
    BY BoundsAssumption
  <2> QED
    BY <2>1 DEF IInv, TypeOK, Running, Labels
<1>2. (Coherent(mem) /\ OwnerKnown(mem.owner))'
  BY DEF IInv, Coherent
<1>3. ~Running' /\ CommitInv' /\ CrashInv'
  BY DEF Running, CommitInv, CrashInv
<1>4. PromptCoherent'
  BY DEF IInv, PromptCoherent, Running
<1> QED
  BY <1>1, <1>2, <1>3, <1>4 DEF IInv

(* Within the turn, the invariant is about the run and the stores.         *)
LEMMA MovedOn ==
  ASSUME IInv, Running,
         NEW label \in Labels \ {"idle", "down", "emit"}, Goto(label),
         run' \in Runs, step' \in 0 .. MaxSteps, store' \in Stores, billed' \in Nat,
         RunInv', StoreInv',
         label \in {"saveSession", "publish"} => store'.conv = run'.conv,
         label = "publish" => store'.session = SessionOf(run'),
         crashes = 0 => run'.conv.prompt = run'.agent
  PROVE  IInv'
<1> USE DEF Goto
<1>1. TypeOK' /\ Running'
  BY DEF IInv, TypeOK, Running, Labels
<1>2. (Coherent(mem) /\ OwnerKnown(mem.owner))'
  BY DEF IInv, Coherent
<1>3. CommitInv' /\ CrashInv'
  BY DEF IInv, Running, CommitInv, CrashInv
<1>4. PromptCoherent'
  BY DEF IInv, PromptCoherent, Running
<1> QED
  BY <1>1, <1>2, <1>3, <1>4 DEF IInv

-------------------------------------------------------------------------------
(* One lemma per action that moves on within the turn                      *)

LEMMA StartTurnStep ==
  ASSUME IInv, NEW mode \in {"run", "stream"}, StartTurn(mode)
  PROVE  IInv'
<1> DEFINE r == Capture(mode)
           conv == Extend(r.conv, <<User>>)
<1>1. mem \in Memories /\ mem.conv \in Conversations /\ mem.budget.used \in Nat
  BY DEF IInv, TypeOK, Memories, Budgets
<1>2. /\ r \in Runs
      /\ r.agent = mem.agent /\ r.tools = mem.tools /\ r.owner = mem.owner
      /\ r.config = mem.config /\ r.budget = mem.budget /\ r.conv = mem.conv
      /\ r.target = None /\ r.billed = 0
  BY <1>1, CaptureType
<1>3. conv \in Conversations /\ conv.prompt = mem.conv.prompt
  <2>1. <<User>> \in Seq(Messages)
    BY MessageTypes
  <2> HIDE DEF r
  <2> QED
    BY <1>1, <1>2, <2>1, ExtendType
<1>4. run' = [r EXCEPT !.conv = conv]
  BY DEF StartTurn
<1> HIDE DEF r, conv
<1>5. /\ run' \in Runs /\ run'.conv = conv
      /\ \A f \in Fields \ {"conv"} : run'[f] = r[f]
  BY <1>2, <1>3, <1>4, WithConv
<1>6. /\ pc' = "gate" /\ pc = "idle" /\ step' = 0 /\ outcome' = "none" /\ turns' = turns + 1
      /\ UNCHANGED <<mem, store, crashes, billed>>
  BY DEF StartTurn
<1>7. /\ run'.agent = mem.agent /\ run'.tools = mem.tools /\ run'.owner = mem.owner
      /\ run'.config = mem.config /\ run'.budget = mem.budget
      /\ run'.target = None /\ run'.billed = 0
  BY <1>2, <1>5 DEF Fields
<1>8. TypeOK' /\ Running'
  <2>1. step' \in 0 .. MaxSteps
    BY <1>6, BoundsAssumption
  <2> QED
    BY <1>5, <1>6, <2>1 DEF IInv, TypeOK, Running, Labels
<1>9. RunInv'
  BY <1>1, <1>6, <1>7 DEF IInv, RunInv, Coherent, OwnerKnown
<1>10. (Coherent(mem) /\ OwnerKnown(mem.owner))' /\ StoreInv' /\ CommitInv' /\ CrashInv'
  BY <1>6 DEF IInv, Coherent, StoreInv, CommitInv, CrashInv
<1>11. PromptCoherent'
  BY <1>3, <1>5, <1>6, <1>7 DEF IInv, PromptCoherent
<1> QED
  BY <1>8, <1>9, <1>10, <1>11 DEF IInv

LEMMA RunningFacts ==
  ASSUME IInv, Running
  PROVE  /\ run \in Runs /\ run.conv \in Conversations /\ RunInv
         /\ mem \in Memories /\ mem.budget.used \in Nat
         /\ run.budget.used \in Nat /\ run.billed \in Nat
         /\ step \in 0 .. MaxSteps /\ store \in Stores /\ StoreInv /\ billed \in Nat
         /\ crashes = 0 => run.conv.prompt = run.agent
BY DEF IInv, TypeOK, Runs, Memories, Budgets, PromptCoherent

LEMMA EnterStepStep ==
  ASSUME IInv, EnterStep
  PROVE  IInv'
<1>1. /\ pc = "gate" /\ step < MaxSteps /\ Goto("await")
      /\ UNCHANGED <<step, store, billed>>
  BY DEF EnterStep
<1>2. Running
  BY <1>1 DEF Running
<1>3. PICK conv \in Conversations :
        conv.prompt = run.conv.prompt /\ run' = [run EXCEPT !.conv = conv]
  <2>1. run = [run EXCEPT !.conv = run.conv]
    BY <1>2, RunningFacts DEF Runs
  <2>2. LastTurns(run.conv) \in Conversations /\ LastTurns(run.conv).prompt = run.conv.prompt
    BY <1>2, RunningFacts, LastTurnsType
  <2>3. run' = run \/ run' = [run EXCEPT !.conv = LastTurns(run.conv)]
    BY DEF EnterStep
  <2> QED
    BY <1>2, <2>1, <2>2, <2>3, RunningFacts
<1>4. /\ run' \in Runs /\ run'.conv = conv
      /\ \A f \in Fields \ {"conv"} : run'[f] = run[f]
  BY <1>2, <1>3, RunningFacts, WithConv
<1>5. /\ run'.agent = run.agent /\ run'.tools = run.tools /\ run'.owner = run.owner
      /\ run'.config = run.config /\ run'.budget = run.budget
      /\ run'.target = run.target /\ run'.billed = run.billed
  BY <1>4 DEF Fields
<1>6. RunInv' /\ StoreInv'
  BY <1>1, <1>2, <1>5, RunningFacts DEF RunInv, StoreInv, Coherent, Goto
<1> QED
  BY <1>1, <1>2, <1>3, <1>4, <1>5, <1>6, RunningFacts, MovedOn DEF Labels

(* The run after a response: AddUsage, then the message it appends.        *)
LEMMA ReplyRun ==
  ASSUME IInv, pc = "await", NEW usage \in Usages, NEW calls \in Seq(CallIds)
  PROVE  LET s == AddUsage(run, usage)
             conv == Extend(s.conv, <<Assistant(calls)>>)
         IN  /\ s \in Runs /\ conv \in Conversations
             /\ conv.prompt = run.conv.prompt
             /\ Len(conv.msgs) > 0
             /\ s.agent = run.agent /\ s.tools = run.tools /\ s.owner = run.owner
             /\ s.config = run.config /\ s.target = run.target
             /\ s.budget.used = run.budget.used + usage
             /\ s.billed = run.billed + usage
             /\ s.budget.used = mem.budget.used + s.billed
<1> DEFINE s == AddUsage(run, usage)
           conv == Extend(s.conv, <<Assistant(calls)>>)
<1>1. Running /\ pc # "emit"
  BY DEF Running
<1>2. /\ run \in Runs /\ run.conv \in Conversations /\ RunInv
      /\ mem.budget.used \in Nat /\ run.budget.used \in Nat /\ run.billed \in Nat
  BY <1>1, RunningFacts
<1>3. usage \in Nat
  BY BoundsAssumption
<1>4. /\ s \in Runs
      /\ s.budget.used = run.budget.used + usage /\ s.billed = run.billed + usage
      /\ \A f \in Fields \ {"budget", "billed"} : s[f] = run[f]
  BY <1>2, AddUsageType
<1> HIDE DEF s
<1>5. /\ s.agent = run.agent /\ s.tools = run.tools /\ s.owner = run.owner
      /\ s.config = run.config /\ s.target = run.target /\ s.conv = run.conv
  BY <1>4 DEF Fields
<1>6. s.budget.used = mem.budget.used + s.billed
  BY <1>1, <1>2, <1>3, <1>4 DEF RunInv
<1>7. <<Assistant(calls)>> \in Seq(Messages) /\ Len(<<Assistant(calls)>>) = 1
  <2>1. Assistant(calls) \in Messages
    BY MessageTypes
  <2> QED
    BY <2>1
<1>8. /\ conv \in Conversations /\ conv.prompt = run.conv.prompt
      /\ conv.msgs = run.conv.msgs \o <<Assistant(calls)>>
  BY <1>2, <1>5, <1>7, ExtendType
<1>9. Len(conv.msgs) > 0
  <2>1. run.conv.msgs \in Seq(Messages)
    BY <1>2 DEF Conversations
  <2> QED
    BY <1>7, <1>8, <2>1, ConcatProperties, LenProperties
<1> HIDE DEF conv
<1> QED
  BY <1>4, <1>5, <1>6, <1>8, <1>9 DEF conv, s

LEMMA FinalReplyStep ==
  ASSUME IInv, NEW usage \in Usages, FinalReply(usage)
  PROVE  IInv'
<1> DEFINE s == AddUsage(run, usage)
           final == Extend(s.conv, <<Assistant(<<>>)>>)
           conv == Compacted(final)
<1>1. /\ pc = "await" /\ Goto("saveFinal") /\ billed' = billed + usage
      /\ UNCHANGED <<step, store>> /\ run' = [s EXCEPT !.conv = conv]
  BY DEF FinalReply
<1>2. Running
  BY <1>1 DEF Running
<1>3. <<>> \in Seq(CallIds)
  OBVIOUS
<1>4. /\ s \in Runs /\ final \in Conversations /\ final.prompt = run.conv.prompt
      /\ s.agent = run.agent /\ s.tools = run.tools /\ s.owner = run.owner
      /\ s.config = run.config /\ s.target = run.target
      /\ s.budget.used = mem.budget.used + s.billed
  BY <1>1, <1>3, ReplyRun
<1>5. conv \in Conversations /\ conv.prompt = run.conv.prompt
  <2> HIDE DEF final
  <2> QED
    BY <1>4, CompactedType
<1> HIDE DEF s, final, conv
<1>6. /\ run' \in Runs /\ run'.conv = conv
      /\ \A f \in Fields \ {"conv"} : run'[f] = s[f]
  BY <1>1, <1>4, <1>5, WithConv
<1>7. /\ run'.agent = run.agent /\ run'.tools = run.tools /\ run'.owner = run.owner
      /\ run'.config = run.config /\ run'.target = run.target
      /\ run'.budget.used = mem.budget.used + run'.billed
  BY <1>4, <1>6 DEF Fields
<1>8. RunInv' /\ StoreInv'
  BY <1>1, <1>2, <1>7, RunningFacts DEF RunInv, StoreInv, Coherent, Goto
<1>9. billed' \in Nat
  BY <1>1, <1>2, RunningFacts, BoundsAssumption
<1> QED
  BY <1>1, <1>2, <1>5, <1>6, <1>7, <1>8, <1>9, RunningFacts, MovedOn DEF Labels

LEMMA ToolReplyStep ==
  ASSUME IInv, NEW reply \in Replies, NEW usage \in Usages, ToolReply(reply, usage)
  PROVE  IInv'
<1> DEFINE s == AddUsage(run, usage)
           conv == Extend(s.conv, <<Assistant(CallsOf(reply))>>)
<1>1. /\ pc = "await" /\ Goto("saveCalls") /\ billed' = billed + usage
      /\ UNCHANGED <<step, store>> /\ run' = [s EXCEPT !.conv = conv]
  BY DEF ToolReply
<1>2. Running
  BY <1>1 DEF Running
<1>3. CallsOf(reply) \in Seq(CallIds)
  BY RepliesType
<1>4. /\ s \in Runs /\ conv \in Conversations /\ conv.prompt = run.conv.prompt
      /\ Len(conv.msgs) > 0
      /\ s.agent = run.agent /\ s.tools = run.tools /\ s.owner = run.owner
      /\ s.config = run.config /\ s.target = run.target
      /\ s.budget.used = mem.budget.used + s.billed
  BY <1>1, <1>3, ReplyRun
<1> HIDE DEF s, conv
<1>5. /\ run' \in Runs /\ run'.conv = conv
      /\ \A f \in Fields \ {"conv"} : run'[f] = s[f]
  BY <1>1, <1>4, WithConv
<1>6. /\ run'.agent = run.agent /\ run'.tools = run.tools /\ run'.owner = run.owner
      /\ run'.config = run.config /\ run'.target = run.target
      /\ run'.budget.used = mem.budget.used + run'.billed
  BY <1>4, <1>5 DEF Fields
<1>7. RunInv' /\ StoreInv'
  BY <1>1, <1>2, <1>4, <1>5, <1>6, RunningFacts DEF RunInv, StoreInv, Coherent, Goto
<1>8. billed' \in Nat
  BY <1>1, <1>2, RunningFacts, BoundsAssumption
<1> QED
  BY <1>1, <1>2, <1>4, <1>5, <1>6, <1>7, <1>8, RunningFacts, MovedOn DEF Labels

(* An available target can be resolved when the session is resumed.        *)
LEMMA TargetKnown ==
  ASSUME NEW reply \in Replies, IsTransfer(reply), TransferValid(reply)
  PROVE  reply[1] \in Owners /\ reply[1] # None /\ OwnerKnown(reply[1])
<1>1. Len(reply) = 1 /\ TransferAvailable(run.agent, reply[1])
  BY DEF TransferValid
<1>2. DOMAIN reply = 1 .. 1 /\ reply[1] \in Owners
  BY <1>1, RepliesType
<1>3. PICK i \in DOMAIN reply : reply[i] # None
  BY DEF IsTransfer
<1>4. i = 1
  BY <1>2, <1>3
<1> QED
  BY <1>1, <1>2, <1>3, <1>4 DEF TransferAvailable, OwnerKnown

LEMMA TransferReplyStep ==
  ASSUME IInv, NEW reply \in Replies, NEW usage \in Usages, NEW input \in BOOLEAN,
         TransferReply(reply, usage, input)
  PROVE  IInv'
<1> DEFINE s == AddUsage(run, usage)
           conv == Extend(s.conv, <<Assistant(CallsOf(reply))>>)
           target == reply[1]
<1>1. /\ pc = "await" /\ Goto("saveCalls") /\ billed' = billed + usage
      /\ UNCHANGED <<step, store>>
      /\ run' = [s EXCEPT !.conv = conv, !.target = target, !.input = input]
      /\ IsTransfer(reply) /\ TransferValid(reply)
  BY DEF TransferReply
<1>2. Running
  BY <1>1 DEF Running
<1>3. CallsOf(reply) \in Seq(CallIds)
  BY RepliesType
<1>4. /\ s \in Runs /\ conv \in Conversations /\ conv.prompt = run.conv.prompt
      /\ Len(conv.msgs) > 0
      /\ s.agent = run.agent /\ s.tools = run.tools /\ s.owner = run.owner
      /\ s.config = run.config
      /\ s.budget.used = mem.budget.used + s.billed
  BY <1>1, <1>3, ReplyRun
<1>5. target \in Owners /\ OwnerKnown(target)
  BY <1>1, TargetKnown
<1> HIDE DEF s, conv, target
<1>6. /\ run' \in Runs /\ run'.conv = conv /\ run'.target = target
      /\ run'.agent = s.agent /\ run'.tools = s.tools /\ run'.owner = s.owner
      /\ run'.config = s.config /\ run'.budget = s.budget /\ run'.billed = s.billed
  BY <1>1, <1>4, <1>5 DEF Runs
<1>7. RunInv' /\ StoreInv'
  BY <1>1, <1>2, <1>4, <1>5, <1>6, RunningFacts DEF RunInv, StoreInv, Coherent, Goto
<1>8. billed' \in Nat
  BY <1>1, <1>2, RunningFacts, BoundsAssumption
<1> QED
  BY <1>1, <1>2, <1>4, <1>6, <1>7, <1>8, RunningFacts, MovedOn DEF Labels

LEMMA CheckpointStep ==
  ASSUME IInv, Checkpoint
  PROVE  IInv'
<1>1. /\ pc \in {"saveFinal", "saveCalls", "saveResults"}
      /\ store' = [store EXCEPT !.conv = run.conv]
      /\ step' = IF AfterCheckpoint = "gate" THEN step + 1 ELSE step
      /\ Goto(AfterCheckpoint) /\ UNCHANGED <<run, billed>>
  BY DEF Checkpoint
<1>2. Running
  BY <1>1 DEF Running
<1>3. /\ AfterCheckpoint \in {"saveSession", "results", "gate", "apply"}
      /\ AfterCheckpoint = "apply" => run.target # None
      /\ AfterCheckpoint = "results" => pc = "saveCalls"
  BY <1>1 DEF AfterCheckpoint
<1> HIDE DEF AfterCheckpoint
<1>4. store' \in Stores /\ StoreInv' /\ store'.conv = run.conv
  <2>1. store' \in Stores /\ StoreInv'
    BY <1>1, <1>2, SavesConv
  <2> QED
    BY <1>1, <1>2, <2>1, RunningFacts DEF Stores
<1>5. step' \in 0 .. MaxSteps /\ (AfterCheckpoint # "gate" => step' < MaxSteps)
  <2>1. step \in 0 .. MaxSteps /\ step < MaxSteps
    BY <1>1, <1>2, RunningFacts DEF RunInv
  <2> QED
    BY <1>1, <2>1, BoundsAssumption
<1>6. RunInv'
  BY <1>1, <1>2, <1>3, <1>5, RunningFacts DEF RunInv, Coherent, Goto
<1> QED
  BY <1>1, <1>2, <1>3, <1>4, <1>5, <1>6, RunningFacts, MovedOn DEF Labels

(* A results message answers calls that the last message made.             *)
LEMMA ResultsType ==
  ASSUME run \in Runs, Len(run.conv.msgs) > 0
  PROVE  Results \in Seq(Messages)
<1>1. run.conv.msgs \in Seq(Messages)
  BY DEF Runs, Conversations
<1>2. run.conv.msgs[Len(run.conv.msgs)] \in Messages
  BY <1>1, LenProperties, ElementOfSeq
<1>3. PendingCalls \in Seq(CallIds)
  BY <1>2, MessageCalls DEF PendingCalls
<1>4. Len(PendingCalls) \in Nat
      /\ \A i \in 1 .. Len(PendingCalls) : ToolResult(PendingCalls[i]) \in Messages
  BY <1>3, MessageTypes, ElementOfSeq
<1> HIDE DEF PendingCalls
<1>5. \E n \in Nat : Results \in [1 .. n -> Messages]
  BY <1>4 DEF Results
<1> QED
  BY <1>5, SeqDef

LEMMA AppendToolResultsStep ==
  ASSUME IInv, AppendToolResults
  PROVE  IInv'
<1> DEFINE conv == Extend(run.conv, Results)
<1>1. /\ pc = "results" /\ Goto("saveResults") /\ UNCHANGED <<step, store, billed>>
      /\ run' = [run EXCEPT !.conv = conv]
  BY DEF AppendToolResults
<1>2. Running
  BY <1>1 DEF Running
<1>3. conv \in Conversations /\ conv.prompt = run.conv.prompt
  <2>1. run \in Runs /\ run.conv \in Conversations /\ Len(run.conv.msgs) > 0
    BY <1>1, <1>2, RunningFacts DEF RunInv
  <2>2. Results \in Seq(Messages)
    BY <2>1, ResultsType
  <2> HIDE DEF Results
  <2> QED
    BY <2>1, <2>2, ExtendType
<1> HIDE DEF conv
<1>4. /\ run' \in Runs /\ run'.conv = conv
      /\ \A f \in Fields \ {"conv"} : run'[f] = run[f]
  BY <1>1, <1>2, <1>3, RunningFacts, WithConv
<1>5. /\ run'.agent = run.agent /\ run'.tools = run.tools /\ run'.owner = run.owner
      /\ run'.config = run.config /\ run'.target = run.target
      /\ run'.budget = run.budget /\ run'.billed = run.billed
  BY <1>4 DEF Fields
<1>6. RunInv' /\ StoreInv'
  BY <1>1, <1>2, <1>5, RunningFacts DEF RunInv, StoreInv, Coherent, Goto
<1> QED
  BY <1>1, <1>2, <1>3, <1>4, <1>5, <1>6, RunningFacts, MovedOn DEF Labels

(* What a filter makes of messages are messages.                           *)
LEMMA FilteredType ==
  ASSUME NEW msgs \in Seq(Messages), mem.filter \in Filters
  PROVE  Filtered(msgs) \in Seq(Messages)
<1>1. CASE mem.filter = "none"
  BY <1>1 DEF Filtered
<1>2. CASE mem.filter = "tools"
  <2> DEFINE I == {i \in DOMAIN msgs : msgs[i].role # "tool" /\ msgs[i].calls = <<>>}
  <2>1. I \in SUBSET (1 .. Len(msgs))
    OBVIOUS
  <2>2. Filtered(msgs) = Select(msgs, I)
    BY <1>2 DEF Filtered
  <2> HIDE DEF I
  <2> QED
    BY <2>1, <2>2, SelectFacts
<1>3. CASE mem.filter = "recent"
  <2>1. Filtered(msgs) \in {msgs, SubSeq(msgs, Len(msgs) - Recent + 1, Len(msgs))}
        /\ (Filtered(msgs) # msgs => Len(msgs) > Recent)
    BY <1>3, BoundsAssumption DEF Filtered
  <2>2. ASSUME Len(msgs) > Recent
        PROVE  SubSeq(msgs, Len(msgs) - Recent + 1, Len(msgs)) \in Seq(Messages)
    BY <2>2, BoundsAssumption, SubSeqProperties
  <2> QED
    BY <2>1, <2>2
<1>4. CASE mem.filter = "nest"
  <2>1. <<>> \in Seq(CallIds)
    OBVIOUS
  <2>2. Assistant(<<>>) \in Messages
    BY <2>1, MessageTypes
  <2> QED
    BY <1>4, <2>2 DEF Filtered
<1> QED
  BY <1>1, <1>2, <1>3, <1>4, BoundsAssumption

LEMMA TransferredType ==
  ASSUME NEW r, r.conv.msgs \in Seq(Messages), mem.filter \in Filters
  PROVE  /\ TransferredConv(r).msgs \in Seq(Messages)
         /\ TransferredConv(r).msgs \in {Filtered(r.conv.msgs), Filtered(r.conv.msgs) \o <<User>>}
<1>1. Filtered(r.conv.msgs) \in Seq(Messages) /\ User \in Messages
  BY FilteredType, MessageTypes
<1>2. TransferredConv(r).msgs = Filtered(r.conv.msgs) \o (IF r.input THEN <<User>> ELSE <<>>)
  BY DEF TransferredConv
<1> HIDE DEF Filtered
<1>3. Filtered(r.conv.msgs) \o <<>> = Filtered(r.conv.msgs)
  BY <1>1
<1>4. Filtered(r.conv.msgs) \o <<User>> \in Seq(Messages)
  BY <1>1
<1> QED
  BY <1>1, <1>2, <1>3, <1>4

(* The hand-over moves agent, tools, config, owner and prompt at once.     *)
LEMMA ApplyTransferStep ==
  ASSUME IInv, ApplyTransfer
  PROVE  IInv'
<1>1. /\ pc = "apply" /\ Goto("gate") /\ UNCHANGED <<store, billed>>
      /\ step' = step + 1 /\ run' = HandOver(run)
  BY DEF ApplyTransfer
<1>2. Running
  BY <1>1 DEF Running
<1>3. /\ run \in Runs /\ run.target \in Agents /\ OwnerKnown(run.target)
      /\ step < MaxSteps
  BY <1>1, <1>2, RunningFacts DEF RunInv, Runs, Owners
<1> DEFINE budget == RebasedBudget(run)
           conv == TransferredConv(run)
           bound == CheckedBudget
<1>4. budget \in Budgets /\ budget.used = run.budget.used
  <2>1. MaxTokens[run.target] \in Nat /\ run.budget.used \in Nat
    BY <1>2, <1>3, AgentsAssumption, RunningFacts
  <2> QED
    BY <2>1 DEF RebasedBudget, Budgets
<1>5. conv \in Conversations /\ conv.prompt = run.target
  <2>1. run.conv.msgs \in Seq(Messages) /\ mem.filter \in Filters
    BY <1>2, RunningFacts DEF Conversations, Memories
  <2>2. conv.msgs \in Seq(Messages)
    BY <2>1, TransferredType
  <2> QED
    BY <1>3, <2>2 DEF TransferredConv, Conversations
<1>6. bound \in Budgets
  BY <1>3 DEF CheckedBudget, Runs
<1>7. run' = [run EXCEPT !.agent = run.target, !.tools = run.target,
                !.owner = run.target, !.config = run.target, !.bound = bound,
                !.budget = budget, !.conv = conv, !.target = None, !.input = FALSE]
  BY <1>1 DEF HandOver
<1> HIDE DEF budget, conv, bound
<1>8. /\ run' \in Runs
      /\ run'.agent = run.target /\ run'.tools = run.target /\ run'.owner = run.target
      /\ run'.config = run.target /\ run'.budget = budget /\ run'.conv = conv
      /\ run'.target = None /\ run'.billed = run.billed
  BY <1>3, <1>4, <1>5, <1>6, <1>7 DEF Runs, Owners
<1>9. RunInv'
  <2>1. Coherent(run)' /\ OwnerKnown(run'.owner) /\ OwnerKnown(run'.target)
    BY <1>3, <1>8, AgentsAssumption DEF Coherent, ActiveAgent, OwnerKnown
  <2>2. run.budget.used = mem.budget.used + run.billed
    BY <1>1, <1>2, RunningFacts DEF RunInv
  <2> QED
    BY <1>1, <1>4, <1>8, <2>1, <2>2 DEF RunInv, Goto
<1>10. StoreInv' /\ step' \in 0 .. MaxSteps
  BY <1>1, <1>2, <1>3, RunningFacts, BoundsAssumption DEF StoreInv
<1> QED
  BY <1>1, <1>2, <1>5, <1>8, <1>9, <1>10, RunningFacts, MovedOn DEF Labels

LEMMA SaveSessionStep ==
  ASSUME IInv, SaveSession
  PROVE  IInv'
<1>1. /\ pc = "saveSession" /\ Goto("publish") /\ UNCHANGED <<run, step, billed>>
      /\ store' = [store EXCEPT !.session = SessionOf(run)]
  BY DEF SaveSession
<1>2. Running
  BY <1>1 DEF Running
<1>3. store' \in Stores /\ StoreInv'
  BY <1>1, SavesSession
<1>4. store'.conv = run'.conv /\ store'.session = SessionOf(run')
  <2>1. store.conv = run.conv
    BY <1>1 DEF IInv, CommitInv
  <2> HIDE DEF SessionOf
  <2> QED
    BY <1>1, <1>2, <2>1, RunningFacts DEF Stores
<1>5. RunInv'
  BY <1>1, <1>2, RunningFacts DEF RunInv, Coherent, Goto
<1> QED
  BY <1>1, <1>2, <1>3, <1>4, <1>5, RunningFacts, MovedOn DEF Labels

(* What is published is what both stores have just taken.                  *)
LEMMA PublishStep ==
  ASSUME IInv, Publish
  PROVE  IInv'
<1>1. /\ pc = "publish" /\ pc' = "emit"
      /\ mem' = [agent |-> run.agent, tools |-> run.tools, owner |-> run.owner,
                 config |-> run.config, budget |-> run.budget, conv |-> run.conv,
                 filter |-> mem.filter]
      /\ UNCHANGED <<run, step, store, outcome, turns, crashes, billed>>
  BY DEF Publish
<1>2. Running /\ Running'
  BY <1>1 DEF Running
<1>3. run \in Runs /\ RunInv /\ store \in Stores /\ StoreInv /\ mem.filter \in Filters
  BY <1>2, RunningFacts DEF Memories
<1>4. mem' \in Memories
  BY <1>1, <1>3 DEF Runs, Memories
<1>5. TypeOK'
  BY <1>1, <1>2, <1>4 DEF IInv, TypeOK, Labels
<1>6. (Coherent(mem) /\ OwnerKnown(mem.owner))'
  BY <1>1, <1>3 DEF RunInv, Coherent
<1>7. RunInv' /\ StoreInv'
  BY <1>1, <1>3 DEF RunInv, StoreInv, Coherent
<1>8. CommitInv' /\ CrashInv'
  <2>1. store.conv = run.conv /\ store.session = SessionOf(run) /\ outcome # "ok"
    BY <1>1 DEF IInv, CommitInv
  <2>2. store.session # None
    BY <1>3, <2>1, SessionOfType
  <2>3. SessionOf(mem') = SessionOf(run)
    BY <1>1 DEF SessionOf
  <2> HIDE DEF SessionOf
  <2>4. (Durable = Memory)'
    BY <1>1, <2>1, <2>2, <2>3 DEF Durable, Memory
  <2> QED
    BY <1>1, <2>1, <2>4 DEF CommitInv, CrashInv
<1>9. PromptCoherent'
  BY <1>1, <1>2 DEF IInv, PromptCoherent
<1> QED
  BY <1>5, <1>6, <1>7, <1>8, <1>9 DEF IInv

-------------------------------------------------------------------------------
(* The steps that fail a turn                                              *)

Failures ==
  \/ GateFails \/ GateCancelled \/ StepFails \/ CheckpointFails
  \/ ApplyTransferFails \/ SaveSessionFails \/ EmitFails
  \/ \E reply \in Replies : TransferRejected(reply)
  \/ \E usage \in Usages : CompactionFails(usage)

LEMMA FailuresStep ==
  ASSUME IInv, Failures
  PROVE  IInv'
<1>1. store \in Stores /\ StoreInv /\ billed \in Nat
  BY DEF IInv, TypeOK
<1>2. ASSUME pc \in Labels \ {"idle", "down"}, TurnFails, UNCHANGED <<store, billed>>
      PROVE  IInv'
  <2>1. Running /\ store' \in Stores /\ StoreInv' /\ billed' \in Nat
    BY <1>1, <1>2 DEF Running, StoreInv
  <2> QED
    BY <1>2, <2>1, FailedTurn
<1>3. CASE GateFails \/ GateCancelled
  BY <1>2, <1>3 DEF GateFails, GateCancelled, Labels
<1>4. CASE StepFails \/ ApplyTransferFails \/ EmitFails
  BY <1>2, <1>4 DEF StepFails, ApplyTransferFails, EmitFails, Labels
<1>5. CASE \E reply \in Replies : TransferRejected(reply)
  BY <1>2, <1>5 DEF TransferRejected, Labels
<1>6. CASE CheckpointFails
  <2>1. /\ pc \in {"saveFinal", "saveCalls", "saveResults"} /\ TurnFails /\ UNCHANGED billed
        /\ store' \in {store, [store EXCEPT !.conv = run.conv]}
    BY <1>6 DEF CheckpointFails
  <2>2. Running
    BY <2>1 DEF Running
  <2>3. store' \in Stores /\ StoreInv'
    BY <2>1, <2>2, SavesConv
  <2> QED
    BY <1>1, <2>1, <2>2, <2>3, FailedTurn
<1>7. CASE SaveSessionFails
  <2>1. /\ pc = "saveSession" /\ TurnFails /\ UNCHANGED billed
        /\ store' \in {store, [store EXCEPT !.session = SessionOf(run)]}
    BY <1>7 DEF SaveSessionFails
  <2>2. Running
    BY <2>1 DEF Running
  <2>3. store' \in Stores /\ StoreInv'
    BY <2>1, SavesSession
  <2> QED
    BY <1>1, <2>1, <2>2, <2>3, FailedTurn
<1>8. CASE \E usage \in Usages : CompactionFails(usage)
  <2>1. PICK usage \in Usages : CompactionFails(usage)
    BY <1>8
  <2>2. /\ pc = "await" /\ TurnFails /\ UNCHANGED store
        /\ billed' = billed + usage
    BY <2>1 DEF CompactionFails
  <2>3. Running /\ store' \in Stores /\ StoreInv' /\ billed' \in Nat
    BY <1>1, <2>2, BoundsAssumption DEF Running, StoreInv
  <2> QED
    BY <2>2, <2>3, FailedTurn
<1> QED
  BY <1>3, <1>4, <1>5, <1>6, <1>7, <1>8 DEF Failures

-------------------------------------------------------------------------------
(* Steps outside a turn's progress                                         *)

LEMMA StartRefusedStep ==
  ASSUME IInv, StartRefused
  PROVE  IInv'
<1>1. /\ pc = "idle" /\ turns' = turns + 1 /\ outcome' = "error"
      /\ UNCHANGED <<mem, run, pc, step, store, crashes, billed>>
  BY DEF StartRefused
<1>2. TypeOK' /\ ~Running'
  BY <1>1 DEF IInv, TypeOK, Running
<1>3. (Coherent(mem) /\ OwnerKnown(mem.owner))' /\ StoreInv' /\ CommitInv' /\ CrashInv'
  BY <1>1 DEF IInv, Coherent, StoreInv, CommitInv, CrashInv
<1>4. PromptCoherent'
  BY <1>1, <1>2 DEF IInv, PromptCoherent
<1> QED
  BY <1>2, <1>3, <1>4 DEF IInv

LEMMA FinishStep ==
  ASSUME IInv, Finish
  PROVE  IInv'
<1>1. /\ pc = "emit" /\ pc' = "idle" /\ run' = None /\ step' = 0 /\ outcome' = "ok"
      /\ UNCHANGED <<mem, store, turns, crashes, billed>>
  BY DEF Finish
<1>2. TypeOK' /\ ~Running'
  <2>1. step' \in 0 .. MaxSteps
    BY <1>1, BoundsAssumption
  <2> QED
    BY <1>1, <2>1 DEF IInv, TypeOK, Running, Labels
<1>3. (Coherent(mem) /\ OwnerKnown(mem.owner))' /\ StoreInv' /\ CrashInv'
  BY <1>1 DEF IInv, Coherent, StoreInv, CrashInv
<1>4. CommitInv'
  BY <1>1 DEF IInv, CommitInv, Durable, Memory
<1>5. PromptCoherent'
  BY <1>1, <1>2 DEF IInv, PromptCoherent
<1> QED
  BY <1>2, <1>3, <1>4, <1>5 DEF IInv

LEMMA CrashStep ==
  ASSUME IInv, Crash
  PROVE  IInv'
<1>1. /\ pc' = "down" /\ run' = None /\ step' = 0 /\ outcome' = "none"
      /\ crashes' = crashes + 1 /\ UNCHANGED <<mem, store, turns, billed>>
  BY DEF Crash
<1>2. crashes \in Nat
  BY DEF IInv, TypeOK
<1>3. TypeOK' /\ ~Running'
  <2>1. step' \in 0 .. MaxSteps
    BY <1>1, BoundsAssumption
  <2> QED
    BY <1>1, <2>1 DEF IInv, TypeOK, Running, Labels
<1>4. (Coherent(mem) /\ OwnerKnown(mem.owner))' /\ StoreInv' /\ CommitInv'
  BY <1>1 DEF IInv, Coherent, StoreInv, CommitInv
<1>5. CrashInv' /\ PromptCoherent'
  BY <1>1, <1>2 DEF CrashInv, PromptCoherent
<1> QED
  BY <1>3, <1>4, <1>5 DEF IInv

LEMMA RestartFreshStep ==
  ASSUME IInv, RestartFresh
  PROVE  IInv'
<1>0. PICK filter \in Filters : mem' = FreshMemory(filter)
  BY DEF RestartFresh
<1>1. /\ pc = "down" /\ pc' = "idle"
      /\ store' = [conv |-> None, session |-> None] /\ billed' = 0
      /\ UNCHANGED <<run, step, outcome, turns, crashes>>
  BY DEF RestartFresh
<1>2. crashes > 0 /\ outcome # "ok"
  BY <1>1 DEF IInv, CrashInv, CommitInv
<1>3. TypeOK' /\ ~Running'
  <2>1. store' \in Stores
    BY <1>1 DEF Stores
  <2> QED
    BY <1>0, <1>1, <2>1, FreshTypes DEF IInv, TypeOK, Running, Labels
<1>4. (Coherent(mem) /\ OwnerKnown(mem.owner))'
  BY <1>0, FreshTypes DEF Coherent
<1>5. StoreInv' /\ CommitInv' /\ CrashInv' /\ PromptCoherent'
  BY <1>1, <1>2 DEF StoreInv, CommitInv, CrashInv, PromptCoherent
<1> QED
  BY <1>3, <1>4, <1>5 DEF IInv

(* The resumed runtime serves the agent that owns the stored session.      *)
LEMMA ResumeStep ==
  ASSUME IInv, Resume
  PROVE  IInv'
<1> DEFINE agent == ResolveSessionAgent(store.session.owner)
           config == IF agent = Root THEN store.session.config ELSE agent
<1>0. PICK filter \in Filters :
        mem' = [agent |-> agent, tools |-> agent, owner |-> store.session.owner,
                config |-> config, budget |-> store.session.budget,
                conv |-> store.conv, filter |-> filter]
  BY DEF Resume
<1>1. /\ pc = "down" /\ pc' = "idle"
      /\ store.session # None /\ store.conv # None
      /\ UNCHANGED <<run, step, store, outcome, turns, crashes, billed>>
  BY DEF Resume
<1>2. store.session \in Sessions /\ store.conv \in Conversations
  BY <1>1 DEF IInv, TypeOK, Stores
<1>3. /\ store.session.owner \in Owners /\ OwnerKnown(store.session.owner)
      /\ store.session.config = ActiveAgent(store.session.owner)
      /\ store.session.budget \in Budgets
  BY <1>1, <1>2 DEF IInv, StoreInv, Sessions
<1>4. agent = ActiveAgent(store.session.owner) /\ agent \in Agents
  BY <1>3, OwnerTypes
<1>5. config = agent
  BY <1>3, <1>4
<1> HIDE DEF agent, config
<1>6. mem' \in Memories
  BY <1>0, <1>1, <1>2, <1>3, <1>4, <1>5 DEF Memories
<1>7. TypeOK' /\ ~Running'
  BY <1>1, <1>6 DEF IInv, TypeOK, Running, Labels
<1>8. (Coherent(mem) /\ OwnerKnown(mem.owner))'
  BY <1>0, <1>3, <1>4, <1>5 DEF Coherent
<1>9. crashes > 0 /\ outcome # "ok"
  BY <1>1 DEF IInv, CrashInv, CommitInv
<1>10. StoreInv' /\ CommitInv' /\ CrashInv' /\ PromptCoherent'
  BY <1>1, <1>9 DEF IInv, StoreInv, CommitInv, CrashInv, PromptCoherent
<1> QED
  BY <1>7, <1>8, <1>10 DEF IInv

LEMMA StutterStep ==
  ASSUME IInv, UNCHANGED vars
  PROVE  IInv'
BY DEF vars, IInv, TypeOK, Running, Coherent, RunInv, StoreInv, CommitInv,
       PromptCoherent, CrashInv, Durable, Memory

LEMMA NextIInv == IInv /\ [Next]_vars => IInv'
<1> SUFFICES ASSUME IInv, [Next]_vars PROVE IInv'
  OBVIOUS
<1>1. CASE StartRefused
  BY <1>1, StartRefusedStep
<1>2. CASE \E mode \in {"run", "stream"} : StartTurn(mode)
  BY <1>2, StartTurnStep
<1>3. CASE Progress
  <2>1. CASE EnterStep
    BY <2>1, EnterStepStep
  <2>2. CASE Checkpoint
    BY <2>2, CheckpointStep
  <2>3. CASE AppendToolResults
    BY <2>3, AppendToolResultsStep
  <2>4. CASE ApplyTransfer
    BY <2>4, ApplyTransferStep
  <2>5. CASE SaveSession
    BY <2>5, SaveSessionStep
  <2>6. CASE Publish
    BY <2>6, PublishStep
  <2>7. CASE Finish
    BY <2>7, FinishStep
  <2>8. CASE Reply
    <3>1. CASE \E usage \in Usages : FinalReply(usage)
      BY <3>1, FinalReplyStep
    <3>2. CASE \E usage \in Usages : \E reply \in Replies : ToolReply(reply, usage)
      BY <3>2, ToolReplyStep
    <3>3. CASE \E usage \in Usages : \E reply \in Replies :
                 \E input \in BOOLEAN : TransferReply(reply, usage, input)
      BY <3>3, TransferReplyStep
    <3>4. CASE Failures
      BY <3>4, FailuresStep
    <3> QED
      BY <2>8, <3>1, <3>2, <3>3, <3>4 DEF Reply, Failures
  <2>9. CASE Failures
    BY <2>9, FailuresStep
  <2> QED
    BY <1>3, <2>1, <2>2, <2>3, <2>4, <2>5, <2>6, <2>7, <2>8, <2>9 DEF Progress, Failures
<1>4. CASE Crash
  BY <1>4, CrashStep
<1>5. CASE RestartFresh
  BY <1>5, RestartFreshStep
<1>6. CASE Resume
  BY <1>6, ResumeStep
<1>7. CASE UNCHANGED vars
  BY <1>7, StutterStep
<1> QED
  BY <1>1, <1>2, <1>3, <1>4, <1>5, <1>6, <1>7 DEF Next

-------------------------------------------------------------------------------
(* The invariants of every runtime                                         *)

(* The inductive invariant holds in every reachable state.                 *)
THEOREM Invariant == Spec => []IInv
BY InitIInv, NextIInv, PTL DEF Spec

(* Types: in particular, a run state exists exactly while a turn runs, so  *)
(* every error path of the executor drops it.                              *)
THEOREM TypeCorrect == Spec => []TypeOK
<1>1. IInv => TypeOK
  BY DEF IInv
<1> QED
  BY <1>1, Invariant, PTL

(* Agent, tools, config and owner name one agent, in memory and in the run,*)
(* whatever fails between the parts of applyTransfer and publishRunState.  *)
THEOREM OwnershipMovesWhole == Spec => []OwnerCoherent
<1>1. IInv => OwnerCoherent
  BY DEF IInv, RunInv, OwnerCoherent
<1> QED
  BY <1>1, Invariant, PTL

(* Until the process dies, the one system message is the active agent's.   *)
THEOREM PromptFollowsAgent == Spec => []PromptCoherent
<1>1. IInv => PromptCoherent
  BY DEF IInv
<1> QED
  BY <1>1, Invariant, PTL

(* A run carries the session's usage plus all that AddUsage recorded.      *)
THEOREM UsageIsConserved == Spec => []UsageConserved
<1>1. IInv => UsageConserved
  BY DEF IInv, RunInv, UsageConserved
<1> QED
  BY <1>1, Invariant, PTL

(* The session store never holds a session without its conversation.       *)
THEOREM StoredSessionHasConversation == Spec => []SessionHasConversation
<1>1. IInv => SessionHasConversation
  BY DEF IInv, StoreInv, SessionHasConversation
<1> QED
  BY <1>1, Invariant, PTL

(* A turn that returned success is in both stores.                         *)
THEOREM SuccessIsInStores == Spec => []SuccessIsDurable
<1>1. IInv => SuccessIsDurable
  BY DEF IInv, CommitInv, SuccessIsDurable
<1> QED
  BY <1>1, Invariant, PTL

-------------------------------------------------------------------------------
(* The runtime implements the turn contract                                *)

LEMMA PhaseValues ==
  /\ pc \in {"idle", "down"} => Phase = pc
  /\ pc = "emit" => Phase = "committed"
  /\ pc \notin {"idle", "down", "emit"} => Phase = "running"
BY DEF Phase

(* The memory is a function of mem, what is durable a function of store.   *)
LEMMA SameMemory == mem' = mem => Memory' = Memory
BY DEF Memory, SessionOf

LEMMA SameDurable == store' = store => Durable' = Durable
BY DEF Durable

LEMMA InitRefines == Init => Contract!Init
<1> SUFFICES ASSUME Init PROVE Contract!Init
  OBVIOUS
<1>1. pc = "idle" /\ store.session = None /\ outcome = "none"
  BY DEF Init
<1>2. Memory = [session |-> SessionOf(FreshMemory("none")), conv |-> FreshMemory("none").conv]
  BY DEF Init, Memory, FreshMemory, SessionOf
<1>3. Durable = None /\ Phase = "idle"
  BY <1>1, PhaseValues DEF Durable
<1> QED
  BY <1>1, <1>2, <1>3 DEF Contract!Init

(* Whatever moves on within the turn persists, or does nothing.            *)
LEMMA GotoRefines ==
  ASSUME Running, pc # "emit", NEW label \in Labels \ {"idle", "down", "emit"}, Goto(label)
  PROVE  Contract!Persist
<1>1. Phase = "running" /\ Phase' = "running"
  BY PhaseValues DEF Running, Goto, Phase
<1>2. Memory' = Memory /\ outcome' = outcome
  BY SameMemory DEF Goto
<1> QED
  BY <1>1, <1>2 DEF Contract!Persist

LEMMA FailuresRefine ==
  ASSUME IInv, Failures
  PROVE  Contract!Fail
<1>1. TurnFails /\ pc \in Labels \ {"idle", "down"} /\ (pc = "emit" => store' = store)
  BY DEF Failures, GateFails, GateCancelled, StepFails, CheckpointFails,
         ApplyTransferFails, SaveSessionFails, EmitFails, TransferRejected,
         CompactionFails, Labels
<1>2. Phase # "down" /\ (Phase # "running" => pc = "emit")
  BY <1>1, PhaseValues
<1>3. Phase' = "idle" /\ outcome' = "error" /\ Memory' = Memory
  BY <1>1, SameMemory DEF TurnFails, Phase
<1>4. Phase # "running" => Durable' = Durable
  BY <1>1, <1>2, SameDurable
<1> QED
  BY <1>2, <1>3, <1>4 DEF Contract!Fail

LEMMA PublishRefines ==
  ASSUME IInv, Publish
  PROVE  Contract!Commit
<1>1. /\ pc = "publish" /\ pc' = "emit" /\ store' = store /\ outcome' = outcome
      /\ mem' = [agent |-> run.agent, tools |-> run.tools, owner |-> run.owner,
                 config |-> run.config, budget |-> run.budget, conv |-> run.conv,
                 filter |-> mem.filter]
  BY DEF Publish
<1>2. /\ run \in Runs /\ store \in Stores
      /\ store.conv = run.conv /\ store.session = SessionOf(run)
  BY <1>1 DEF IInv, TypeOK, Running, CommitInv
<1>3. store.session # None
  BY <1>2, SessionOfType
<1>4. Durable = [session |-> store.session, conv |-> store.conv] /\ Durable # None
  <2>1. Durable = [session |-> store.session, conv |-> store.conv]
    BY <1>3 DEF Durable
  <2>2. Durable \in Stores
    BY <1>2, <2>1 DEF Stores
  <2> QED
    BY <2>1, <2>2, NoneAssumption
<1>5. Memory' = Durable
  <2>1. SessionOf(mem') = SessionOf(run) /\ mem'.conv = run.conv
    BY <1>1 DEF SessionOf
  <2> HIDE DEF SessionOf
  <2> QED
    BY <1>2, <1>4, <2>1 DEF Memory
<1>6. Phase = "running" /\ Phase' = "committed"
  BY <1>1, PhaseValues DEF Phase
<1>7. Durable' = Durable
  BY <1>1, SameDurable
<1> QED
  BY <1>1, <1>4, <1>5, <1>6, <1>7 DEF Contract!Commit

(* A resumed runtime has the session that was stored, to the field.        *)
LEMMA ResumeRefines ==
  ASSUME IInv, Resume
  PROVE  Contract!Recover
<1> DEFINE agent == ResolveSessionAgent(store.session.owner)
           config == IF agent = Root THEN store.session.config ELSE agent
<1>0. PICK filter \in Filters :
        mem' = [agent |-> agent, tools |-> agent, owner |-> store.session.owner,
                config |-> config, budget |-> store.session.budget,
                conv |-> store.conv, filter |-> filter]
  BY DEF Resume
<1>1. /\ pc = "down" /\ pc' = "idle" /\ store' = store /\ outcome' = outcome
      /\ store.session # None /\ store.conv # None
  BY DEF Resume
<1>2. /\ store \in Stores /\ store.session \in Sessions
      /\ store.session.config = ActiveAgent(store.session.owner)
      /\ OwnerKnown(store.session.owner)
  BY <1>1 DEF IInv, TypeOK, Stores, StoreInv
<1>3. config = store.session.config
  BY <1>2, OwnerTypes DEF Sessions
<1> HIDE DEF agent, config
<1>4. SessionOf(mem') = store.session
  BY <1>0, <1>2, <1>3 DEF SessionOf, Sessions
<1>5. Durable = [session |-> store.session, conv |-> store.conv] /\ Durable # None
  <2>1. Durable = [session |-> store.session, conv |-> store.conv]
    BY <1>1 DEF Durable
  <2>2. Durable \in Stores
    BY <1>2, <2>1 DEF Stores
  <2> QED
    BY <2>1, <2>2, NoneAssumption
<1>6. Memory' = Durable
  BY <1>0, <1>4, <1>5 DEF Memory
<1>7. Phase = "down" /\ Phase' = "idle" /\ Durable' = Durable
  BY <1>1, PhaseValues, SameDurable DEF Phase
<1> QED
  BY <1>1, <1>5, <1>6, <1>7 DEF Contract!Recover

LEMMA RestartFreshRefines ==
  ASSUME RestartFresh
  PROVE  Contract!Recover
<1>1. /\ pc = "down" /\ pc' = "idle" /\ store.session = None /\ outcome' = outcome
      /\ store' = [conv |-> None, session |-> None]
  BY DEF RestartFresh
<1>2. Durable = None /\ Durable' = None
  BY <1>1 DEF Durable
<1>3. Memory' = [session |-> SessionOf(FreshMemory("none")), conv |-> FreshMemory("none").conv]
  BY DEF RestartFresh, Memory, FreshMemory, SessionOf
<1>4. Phase = "down" /\ Phase' = "idle"
  BY <1>1 DEF Phase
<1> QED
  BY <1>1, <1>2, <1>3, <1>4 DEF Contract!Recover

LEMMA NextRefines == IInv /\ [Next]_vars => [Contract!Next]_(Contract!vars)
<1> SUFFICES ASSUME IInv, [Next]_vars PROVE Contract!Next \/ UNCHANGED Contract!vars
  OBVIOUS
<1> USE DEF Contract!Next
<1>1. CASE StartRefused
  <2>1. Phase = "idle" /\ Phase' = "idle" /\ outcome' = "error"
    BY <1>1 DEF StartRefused, Phase
  <2>2. Memory' = Memory /\ Durable' = Durable
    BY <1>1, SameMemory, SameDurable DEF StartRefused
  <2> QED
    BY <2>1, <2>2 DEF Contract!Fail
<1>2. CASE \E mode \in {"run", "stream"} : StartTurn(mode)
  <2>1. Phase = "idle" /\ Phase' = "running" /\ outcome' = "none"
    BY <1>2 DEF StartTurn, Phase
  <2>2. Memory' = Memory /\ Durable' = Durable
    BY <1>2, SameMemory, SameDurable DEF StartTurn
  <2> QED
    BY <2>1, <2>2 DEF Contract!Begin
<1>3. CASE Failures
  BY <1>3, FailuresRefine
<1>4. CASE Publish
  BY <1>4, PublishRefines
<1>5. CASE Finish
  <2>1. Phase = "committed" /\ Phase' = "idle" /\ outcome' = "ok"
    BY <1>5 DEF Finish, Phase
  <2>2. Memory' = Memory /\ Durable' = Durable
    BY <1>5, SameMemory, SameDurable DEF Finish
  <2> QED
    BY <2>1, <2>2 DEF Contract!Succeed
<1>6. CASE EnterStep \/ AppendToolResults \/ ApplyTransfer \/ SaveSession
  <2>1. /\ Running /\ pc # "emit"
        /\ \E label \in Labels \ {"idle", "down", "emit"} : Goto(label)
    BY <1>6 DEF EnterStep, AppendToolResults, ApplyTransfer, SaveSession, Running, Labels
  <2> QED
    BY <2>1, GotoRefines
<1>7. CASE \E usage \in Usages : \/ FinalReply(usage)
           \/ \E reply \in Replies :
                \/ ToolReply(reply, usage)
                \/ \E input \in BOOLEAN : TransferReply(reply, usage, input)
  <2>1. /\ Running /\ pc # "emit"
        /\ \E label \in Labels \ {"idle", "down", "emit"} : Goto(label)
    BY <1>7 DEF FinalReply, ToolReply, TransferReply, Running, Labels
  <2> QED
    BY <2>1, GotoRefines
<1>8. CASE Checkpoint
  <2>1. /\ Running /\ pc # "emit"
        /\ AfterCheckpoint \in Labels \ {"idle", "down", "emit"} /\ Goto(AfterCheckpoint)
    BY <1>8 DEF Checkpoint, AfterCheckpoint, Running, Labels
  <2> QED
    BY <2>1, GotoRefines
<1>9. CASE Crash
  <2>1. Phase # "down" /\ Phase' = "down" /\ outcome' = "none"
    BY <1>9 DEF Crash, Phase
  <2>2. Memory' = Memory /\ Durable' = Durable
    BY <1>9, SameMemory, SameDurable DEF Crash
  <2> QED
    BY <2>1, <2>2 DEF Contract!Crash
<1>10. CASE RestartFresh
  BY <1>10, RestartFreshRefines
<1>11. CASE Resume
  BY <1>11, ResumeRefines
<1>12. CASE UNCHANGED vars
  BY <1>12, SameMemory, SameDurable DEF vars, Contract!vars, Phase
<1> QED
  BY <1>1, <1>2, <1>3, <1>4, <1>5, <1>6, <1>7, <1>8, <1>9, <1>10, <1>11, <1>12
     DEF Next, Progress, Reply, Failures

(* Refinement: the memory of the session changes at most once per turn, at *)
(* once and only to what the stores already hold, success is reported only *)
(* after that, and a new process continues from what the stores hold.      *)
THEOREM RuntimeImplementsContract == Spec => ContractSpec
BY InitRefines, NextRefines, Invariant, PTL DEF Spec, ContractSpec, Contract!Spec

-------------------------------------------------------------------------------
(* The limit of a session that never changed hands                         *)

Within(budget) ==
  budget.max > 0 =>
    budget.used = 0 \/ \E u \in Usages : budget.used <= budget.max + u

(* Until the first hand-over CheckBudget is bound to the budget AddUsage   *)
(* adds to, so the step loop stops at the first response over the limit.   *)
RunWithin ==
  run.owner = None =>
    /\ run.bound = None
    /\ Within(run.budget)
    /\ pc = "await" => ~Exceeded(run.budget)

OvershootInv ==
  /\ mem.owner = None => Within(mem.budget)
  /\ Running => RunWithin
  /\ store.session # None /\ store.session.owner = None => Within(store.session.budget)

LEMMA WithinAfterReply ==
  ASSUME NEW budget \in Budgets, NEW usage \in Usages, NEW after,
         after.max = budget.max, after.used = budget.used + usage, ~Exceeded(budget)
  PROVE  Within(after)
<1>1. usage \in Nat /\ budget.max \in Nat /\ budget.used \in Nat
  BY BoundsAssumption DEF Budgets
<1>2. budget.max > 0 => after.used <= after.max + usage
  BY <1>1 DEF Exceeded
<1> QED
  BY <1>1, <1>2 DEF Within

(* A step that leaves memory and stores, and the run's owner and budget.   *)
LEMMA SameBudgets ==
  ASSUME OvershootInv, mem' = mem, store'.session = store.session, Running, 
         run'.owner = run.owner, run'.bound = run.bound, run'.budget = run.budget,
         pc' # "await"
  PROVE  OvershootInv'
BY DEF OvershootInv, RunWithin, Within

LEMMA ReplyWithin ==
  ASSUME IInv, OvershootInv, NEW usage \in Usages, pc = "await", pc' # "await",
         mem' = mem, store' = store,
         LET s == AddUsage(run, usage)
         IN  run'.owner = s.owner /\ run'.bound = s.bound /\ run'.budget = s.budget
  PROVE  OvershootInv'
<1>1. Running /\ run \in Runs /\ run.budget \in Budgets
  BY DEF IInv, TypeOK, Running, Runs
<1>2. /\ run'.owner = run.owner /\ run'.bound = run.bound
      /\ run'.budget.max = run.budget.max /\ run'.budget.used = run.budget.used + usage
  BY <1>1 DEF AddUsage, Runs, Budgets
<1>3. RunWithin
  BY <1>1 DEF OvershootInv
<1>4. run.owner = None => Within(run'.budget)
  <2>1. HAVE run.owner = None
  <2>2. ~Exceeded(run.budget)
    BY <1>3, <2>1 DEF RunWithin
  <2> QED
    BY <1>1, <1>2, <2>2, WithinAfterReply
<1>5. RunWithin'
  BY <1>2, <1>3, <1>4 DEF RunWithin, Within
<1> QED
  BY <1>5 DEF OvershootInv, Within

LEMMA InitOvershoot == Init => OvershootInv
BY DEF Init, OvershootInv, Running, Within, FreshMemory

LEMMA NextOvershoot == IInv /\ IInv' /\ OvershootInv /\ [Next]_vars => OvershootInv'
<1> SUFFICES ASSUME IInv, IInv', OvershootInv, [Next]_vars PROVE OvershootInv'
  OBVIOUS
<1>1. CASE StartRefused
  BY <1>1 DEF StartRefused, OvershootInv, Running, Within
<1>2. CASE \E mode \in {"run", "stream"} : StartTurn(mode)
  <2>1. PICK mode \in {"run", "stream"} : StartTurn(mode)
    BY <1>2
  <2>2. /\ pc' = "gate" /\ mem' = mem /\ store' = store
        /\ run' = [Capture(mode) EXCEPT !.conv = Extend(@, <<User>>)]
    BY <2>1 DEF StartTurn
  <2>3. run'.owner = mem.owner /\ run'.budget = mem.budget /\ run'.bound = None
    BY <2>2 DEF Capture
  <2> QED
    BY <2>2, <2>3 DEF OvershootInv, RunWithin, Within
<1>3. CASE Failures
  <2>1. /\ TurnFails /\ Running
        /\ store' \in {store, [store EXCEPT !.conv = run.conv],
                       [store EXCEPT !.session = SessionOf(run)]}
    BY <1>3 DEF Failures, GateFails, GateCancelled, StepFails, CheckpointFails,
         ApplyTransferFails, SaveSessionFails, EmitFails, TransferRejected,
         CompactionFails, Running
  <2>2. store \in Stores /\ RunWithin
    BY <2>1 DEF IInv, TypeOK, OvershootInv
  <2>3. store'.session = store.session \/ store'.session = SessionOf(run)
    <3> HIDE DEF SessionOf
    <3> QED
      BY <2>1, <2>2 DEF Stores
  <2>4. mem' = mem /\ ~Running'
    BY <2>1 DEF TurnFails, Running
  <2> QED
    BY <2>2, <2>3, <2>4 DEF OvershootInv, RunWithin, Within, SessionOf
<1>4. CASE EnterStep
  <2>1. /\ pc = "gate" /\ pc' = "await" /\ mem' = mem /\ store' = store
        /\ ~Exceeded(CheckedBudget)
        /\ run' = run \/ run' = [run EXCEPT !.conv = LastTurns(@)]
    BY <1>4 DEF EnterStep, Goto
  <2>2. Running /\ run \in Runs /\ RunWithin
    BY <2>1 DEF IInv, TypeOK, Running, OvershootInv
  <2>3. run'.owner = run.owner /\ run'.bound = run.bound /\ run'.budget = run.budget
    BY <2>1, <2>2 DEF Runs
  <2>4. run.owner = None => ~Exceeded(run.budget)
    BY <2>1, <2>2 DEF RunWithin, CheckedBudget
  <2>5. RunWithin'
    BY <2>2, <2>3, <2>4 DEF RunWithin, Within, Exceeded
  <2> QED
    BY <2>1, <2>5 DEF OvershootInv, Within
<1>5. CASE \E usage \in Usages : FinalReply(usage)
  <2>1. PICK usage \in Usages : FinalReply(usage)
    BY <1>5
  <2>2. /\ pc = "await" /\ pc' # "await" /\ mem' = mem /\ store' = store
        /\ run' = [AddUsage(run, usage) EXCEPT
                     !.conv = Compacted(Extend(@, <<Assistant(<<>>)>>))]
    BY <2>1 DEF FinalReply, Goto
  <2>3. run \in Runs
    BY <2>2 DEF IInv, TypeOK, Running
  <2>4. AddUsage(run, usage) \in Runs
    BY <2>3, AddUsageType
  <2> QED
    BY <2>2, <2>4, ReplyWithin DEF Runs
<1>6. CASE \E usage \in Usages, reply \in Replies :
             ToolReply(reply, usage) \/ \E input \in BOOLEAN : TransferReply(reply, usage, input)
  <2>1. PICK usage \in Usages, reply \in Replies :
          ToolReply(reply, usage) \/ \E input \in BOOLEAN : TransferReply(reply, usage, input)
    BY <1>6
  <2> DEFINE s == AddUsage(run, usage)
             conv == Extend(s.conv, <<Assistant(CallsOf(reply))>>)
             target == reply[1]
  <2>2. pc = "await" /\ pc' # "await" /\ mem' = mem /\ store' = store
    BY <2>1 DEF ToolReply, TransferReply, Goto
  <2>3. \/ run' = [s EXCEPT !.conv = conv]
        \/ \E input \in BOOLEAN :
             run' = [s EXCEPT !.conv = conv, !.target = target, !.input = input]
    BY <2>1 DEF ToolReply, TransferReply
  <2>4. s \in Runs
    <3>1. run \in Runs
      BY <2>2 DEF IInv, TypeOK, Running
    <3> QED
      BY <3>1, AddUsageType
  <2>5. run'.owner = s.owner /\ run'.bound = s.bound /\ run'.budget = s.budget
    <3> HIDE DEF s, conv, target
    <3> QED
      BY <2>3, <2>4 DEF Runs
  <2> QED
    BY <2>2, <2>5, ReplyWithin
<1>7. CASE Checkpoint \/ AppendToolResults
  <2>1. /\ Running /\ pc' # "await" /\ mem' = mem
        /\ store' = store \/ store' = [store EXCEPT !.conv = run.conv]
        /\ run' = run \/ run' = [run EXCEPT !.conv = Extend(@, Results)]
    BY <1>7 DEF Checkpoint, AfterCheckpoint, AppendToolResults, Goto, Running
  <2>2. run \in Runs /\ store \in Stores
    BY <2>1 DEF IInv, TypeOK
  <2>3. /\ store'.session = store.session
        /\ run'.owner = run.owner /\ run'.bound = run.bound /\ run'.budget = run.budget
    BY <2>1, <2>2 DEF Runs, Stores
  <2> QED
    BY <2>1, <2>3, SameBudgets
<1>8. CASE ApplyTransfer
  <2>1. pc = "apply" /\ pc' = "gate" /\ mem' = mem /\ store' = store /\ run' = HandOver(run)
    BY <1>8 DEF ApplyTransfer, Goto
  <2>2. run \in Runs /\ run.target # None
    BY <2>1 DEF IInv, TypeOK, Running, RunInv
  <2>3. run'.owner = run.target
    BY <2>1, <2>2 DEF HandOver, Runs
  <2> QED
    BY <2>1, <2>2, <2>3 DEF OvershootInv, RunWithin, Within
<1>9. CASE SaveSession
  <2>1. /\ pc = "saveSession" /\ pc' = "publish" /\ mem' = mem /\ run' = run
        /\ store' = [store EXCEPT !.session = SessionOf(run)]
    BY <1>9 DEF SaveSession, Goto
  <2>2. store \in Stores /\ RunWithin
    BY <2>1 DEF IInv, TypeOK, OvershootInv, Running
  <2>3. store'.session = SessionOf(run)
    <3> HIDE DEF SessionOf
    <3> QED
      BY <2>1, <2>2 DEF Stores
  <2>4. store'.session.owner = run.owner /\ store'.session.budget = run.budget
    BY <2>3 DEF SessionOf
  <2> QED
    BY <2>1, <2>2, <2>4 DEF OvershootInv, RunWithin, Within
<1>10. CASE Publish
  <2>1. /\ pc = "publish" /\ pc' = "emit" /\ store' = store /\ run' = run
        /\ mem'.owner = run.owner /\ mem'.budget = run.budget
    BY <1>10 DEF Publish
  <2>2. RunWithin
    BY <2>1 DEF OvershootInv, Running
  <2> QED
    BY <2>1, <2>2 DEF OvershootInv, RunWithin, Within
<1>11. CASE Finish \/ Crash
  <2>1. mem' = mem /\ store' = store /\ ~Running'
    BY <1>11 DEF Finish, Crash, Running
  <2> QED
    BY <2>1 DEF OvershootInv, Within
<1>12. CASE RestartFresh
  BY <1>12 DEF RestartFresh, OvershootInv, Running, Within, FreshMemory
<1>13. CASE Resume
  <2>1. /\ ~Running' /\ store' = store /\ store.session # None
        /\ mem'.owner = store.session.owner /\ mem'.budget = store.session.budget
    BY <1>13 DEF Resume, Running
  <2> QED
    BY <2>1 DEF OvershootInv, Within
<1>14. CASE UNCHANGED vars
  BY <1>14 DEF vars, OvershootInv, Running, RunWithin, Within, Exceeded
<1> QED
  BY <1>1, <1>2, <1>3, <1>4, <1>5, <1>6, <1>7, <1>8, <1>9, <1>10, <1>11, <1>12, <1>13, <1>14
     DEF Next, Progress, Reply, Failures

(* A session never transferred overshoots its limit by at most one         *)
(* response, over all its turns, failures and restarts.                    *)
THEOREM OvershootIsBounded == Spec => []OvershootBounded
<1>1. OvershootInv => OvershootBounded
  BY DEF OvershootInv, OvershootBounded, Within
<1> QED
  BY <1>1, InitOvershoot, NextOvershoot, Invariant, PTL DEF Spec


-------------------------------------------------------------------------------
(* Requests are well formed *)

\* A message starts a turn, makes calls, or answers one.
LEMMA Roles ==
  /\ User.role = "user"
  /\ \A calls : Assistant(calls).role = "assistant" /\ Assistant(calls).calls = calls
  /\ \A id : ToolResult(id).role = "tool"
BY DEF User, Assistant, ToolResult

\* From a user message on, a well-formed conversation is one: no result is cut from
\* its call, since nothing but results stands between the two, and no orphan is kept,
\* since the message of the user comes after it.
LEMMA SuffixWellFormed ==
  ASSUME NEW msgs \in Seq(Messages), NEW filter, WellFormed(msgs, filter),
         NEW m \in 1 .. Len(msgs), msgs[m].role = "user"
  PROVE  WellFormed(SubSeq(msgs, m, Len(msgs)), filter)
<1> DEFINE len == Len(msgs)
           rest == SubSeq(msgs, m, len)
<1>1. len \in Nat /\ DOMAIN msgs = 1 .. len /\ m \in Nat /\ m >= 1 /\ m <= len
  OBVIOUS
<1>2. rest \in Seq(Messages) /\ Len(rest) = len - m + 1 /\ DOMAIN rest = 1 .. len - m + 1
  BY <1>1, SubSeqProperties
<1>3. \A i \in 1 .. len - m + 1 : rest[i] = msgs[m + i - 1]
  BY <1>1
<1>4. \A i \in 1 .. len : DOMAIN msgs[i].calls = 1 .. Len(msgs[i].calls)
                          /\ Len(msgs[i].calls) \in Nat
  BY <1>1, MessageCalls
<1> HIDE DEF rest, len
<1> SUFFICES ASSUME NEW i \in 1 .. len - m + 1
    PROVE  /\ i = 1 /\ filter \notin {"recent", "nest"} => rest[i].role = "user"
           /\ rest[i].role = "assistant" =>
                \A k \in DOMAIN rest[i].calls :
                  i + k \in DOMAIN rest /\ rest[i + k] = ToolResult(rest[i].calls[k])
           /\ rest[i].role = "tool" =>
                \/ \E j \in 1 .. i - 1 :
                     rest[j].role = "assistant" /\ i - j \in DOMAIN rest[j].calls
                \/ filter = "recent" /\ \A j \in 1 .. i : rest[j].role = "tool"
  BY <1>2 DEF WellFormed, Answered, CalledFor, rest, len
<1> DEFINE p == m + i - 1
<1>5. p \in 1 .. len /\ p >= m /\ rest[i] = msgs[p]
  BY <1>1, <1>3
<1>6. i = 1 => rest[i].role = "user"
  BY <1>1, <1>5
<1>7. ASSUME rest[i].role = "assistant", NEW k \in DOMAIN rest[i].calls
      PROVE  i + k \in DOMAIN rest /\ rest[i + k] = ToolResult(rest[i].calls[k])
  <2>1. k \in Nat /\ p + k \in 1 .. len /\ msgs[p + k] = ToolResult(msgs[p].calls[k])
    BY <1>1, <1>4, <1>5, <1>7 DEF WellFormed, Answered, CalledFor
  <2>2. i + k \in 1 .. len - m + 1 /\ m + (i + k) - 1 = p + k
    BY <1>1, <2>1
  <2> QED
    BY <1>2, <1>3, <1>5, <2>1, <2>2
<1>8. ASSUME rest[i].role = "tool"
      PROVE  \E j \in 1 .. i - 1 :
               rest[j].role = "assistant" /\ i - j \in DOMAIN rest[j].calls
  <2>0. ~\A j \in 1 .. p : msgs[j].role = "tool"
    BY <1>1, <1>5
  <2>1. PICK h \in 1 .. p - 1 : msgs[h].role = "assistant" /\ p - h \in DOMAIN msgs[h].calls
    BY <1>1, <1>5, <1>8, <2>0 DEF WellFormed, Answered, CalledFor
  <2>2. h \in 1 .. len /\ h # m
    BY <1>1, <1>5, <2>1
  <2>3. ~(h < m)
    <3> SUFFICES ASSUME h < m PROVE FALSE
      OBVIOUS
    <3>1. m - h \in DOMAIN msgs[h].calls
      BY <1>1, <1>4, <1>5, <2>1, <2>2, SMTT(30)
    <3>2. m = h + (m - h)
      BY <1>1, <2>2
    <3>3. msgs[h + (m - h)] = ToolResult(msgs[h].calls[m - h])
      BY <1>1, <2>1, <2>2, <3>1 DEF WellFormed, Answered, CalledFor
    <3> QED
      BY <3>2, <3>3, Roles
  <2>4. h - m + 1 \in 1 .. i - 1 /\ rest[h - m + 1] = msgs[h] /\ i - (h - m + 1) = p - h
    <3>1. h \in Nat /\ h > m /\ h < p /\ p = m + i - 1 /\ h <= len
      BY <1>1, <1>5, <2>1, <2>2, <2>3
    <3>2. h - m + 1 \in 1 .. i - 1 /\ h - m + 1 \in 1 .. len - m + 1
          /\ i - (h - m + 1) = p - h /\ m + (h - m + 1) - 1 = h
      BY <1>1, <3>1
    <3>3. rest[h - m + 1] = msgs[m + (h - m + 1) - 1]
      BY <1>3, <3>2
    <3> QED
      BY <3>2, <3>3
  <2> QED
    BY <2>1, <2>4
<1> QED
  BY <1>6, <1>7, <1>8

\* A conversation the executor may send: well formed, and not empty unless a filter has
\* dropped the user's message.
Headed(filter) == filter \notin {"recent", "nest"}
Form(msgs, filter) == WellFormed(msgs, filter) /\ (Headed(filter) => msgs # <<>>)

\* What the turn window keeps of a conversation is all of it, or what follows from a user
\* message on (splitTurns).
LEMMA KeepsWholeTurns ==
  ASSUME NEW conv \in Conversations, conv.msgs # <<>>
  PROVE  \E m \in 1 .. Len(conv.msgs) :
           /\ m = 1 \/ conv.msgs[m].role = "user"
           /\ LastTurns(conv).msgs = SubSeq(conv.msgs, m, Len(conv.msgs))
<1> DEFINE msgs == conv.msgs
           len == Len(msgs)
           starts == TurnStarts(msgs)
           After(i) == {j \in starts : j > i}
           kept == {i \in DOMAIN msgs : Cardinality(After(i)) < MaxHistory}
           c == Cardinality(kept)
           m == len - c + 1
<1>1. msgs \in Seq(Messages) /\ len \in Nat /\ len >= 1 /\ DOMAIN msgs = 1 .. len
  BY DEF Conversations
<1>2. starts \subseteq 1 .. len /\ \A j \in starts : j = 1 \/ msgs[j].role = "user"
  BY <1>1 DEF TurnStarts
<1>3. MaxHistory \in Nat
  BY BoundsAssumption
<1>4. CASE MaxHistory = 0
  <2>1. LastTurns(conv) = conv
    BY <1>4 DEF LastTurns
  <2>2. SubSeq(msgs, 1, len) = msgs
    BY <1>1
  <2> QED
    BY <1>1, <2>1, <2>2
<1>5. CASE MaxHistory > 0
  <2> HIDE DEF starts
  <2>1. ASSUME NEW i \in 0 .. len
        PROVE  IsFiniteSet(After(i)) /\ Cardinality(After(i)) \in Nat
    <3>1. IsFiniteSet(1 .. len)
      BY <1>1, FS_Interval
    <3>2. After(i) \subseteq 1 .. len
      BY <1>2
    <3> HIDE DEF After
    <3> QED
      BY <3>1, <3>2, FS_Subset, FS_CardinalityType
  <2>2. ASSUME NEW i \in kept, NEW k \in i .. len PROVE k \in kept
    <3>1. After(k) \subseteq After(i) /\ i \in 0 .. len /\ k \in 0 .. len
      BY <1>1, <1>2
    <3>2. Cardinality(After(k)) <= Cardinality(After(i))
      <4> HIDE DEF After
      <4> QED
        BY <2>1, <3>1, FS_Subset
    <3>3. Cardinality(After(i)) < MaxHistory /\ i \in 1 .. len
      BY <1>1
    <3> HIDE DEF After
    <3>4. Cardinality(After(k)) < MaxHistory
      BY <1>3, <2>1, <3>1, <3>2, <3>3
    <3> QED
      BY <1>1, <3>3, <3>4
  <2>3. len \in kept
    <3>1. After(len) = {}
      <4>1. ASSUME NEW j \in starts PROVE ~(j > len)
        <5>1. j \in 1 .. len
          BY <1>2
        <5> HIDE DEF len
        <5> QED
          BY <1>1, <5>1
      <4> QED
        BY <4>1
    <3> HIDE DEF After
    <3>2. Cardinality(After(len)) < MaxHistory
      BY <1>3, <1>5, <3>1, FS_EmptySet
    <3> HIDE DEF len
    <3>3. len \in DOMAIN msgs
      BY <1>1
    <3> QED
      BY <3>2, <3>3
  <2>4. kept \subseteq 1 .. len /\ IsFiniteSet(kept) /\ c \in Nat
    <3>1. kept \subseteq 1 .. len
      BY <1>1
    <3> HIDE DEF kept, len
    <3>2. IsFiniteSet(1 .. len)
      BY <1>1, FS_Interval
    <3>3. IsFiniteSet(kept)
      BY <3>1, <3>2, FS_Subset
    <3> QED
      BY <3>1, <3>3, FS_CardinalityType
  <2> HIDE DEF kept
  <2>5. ASSUME NEW i \in 1 .. len PROVE i \in kept <=> i >= m
    <3>1. /\ IsFiniteSet(i .. len) /\ Cardinality(i .. len) = len - i + 1
          /\ IsFiniteSet(i + 1 .. len) /\ Cardinality(i + 1 .. len) = len - i
      <4>1. i \in Int /\ i + 1 \in Int /\ len \in Int /\ i <= len
        BY <1>1
      <4> HIDE DEF len
      <4>2. ~(i > len) /\ (i + 1 > len <=> i = len)
        BY <4>1
      <4>3. IsFiniteSet(i .. len) /\ Cardinality(i .. len) = len - i + 1
        BY <4>1, <4>2, FS_Interval
      <4>4. IsFiniteSet(i + 1 .. len)
            /\ Cardinality(i + 1 .. len) = IF i + 1 > len THEN 0 ELSE len - (i + 1) + 1
        BY <4>1, FS_Interval
      <4> QED
        BY <4>1, <4>2, <4>3, <4>4
    <3>2. CASE i \in kept
      <4>1. i .. len \subseteq kept
        BY <2>2, <3>2
      <4>2. Cardinality(i .. len) <= Cardinality(kept)
        BY <2>4, <4>1, FS_Subset, Zenon
      <4>3. len - i + 1 <= c
        BY <3>1, <4>2
      <4> QED
        BY <1>1, <2>4, <3>2, <4>3
    <3>3. CASE i \notin kept
      <4>1. kept \subseteq i + 1 .. len
        <5> SUFFICES ASSUME NEW k \in kept PROVE k > i
          BY <1>1, <2>4
        <5> QED
          BY <1>1, <2>2, <2>4, <3>3
      <4>2. Cardinality(kept) <= Cardinality(i + 1 .. len)
        BY <3>1, <4>1, FS_Subset, Zenon
      <4>3. c <= len - i
        BY <3>1, <4>2
      <4> QED
        BY <1>1, <2>4, <3>3, <4>3
    <3> QED
      BY <3>2, <3>3
  <2>6. c >= 1 /\ m \in 1 .. len
    <3>1. len \in 1 .. len
      BY <1>1
    <3>2. len >= m
      BY <2>3, <2>5, <3>1
    <3>3. c <= len
      <4>1. IsFiniteSet(1 .. len) /\ Cardinality(1 .. len) = len
        BY <1>1, FS_Interval
      <4> QED
        BY <2>4, <4>1, FS_Subset
    <3> QED
      BY <1>1, <2>4, <3>2, <3>3
  <2>7. m = 1 \/ msgs[m].role = "user"
    <3>1. CASE m = 1
      BY <1>1, <3>1
    <3>2. CASE m # 1
      <4>1. m - 1 \in 1 .. len /\ m - 1 \notin kept /\ m \in kept
        BY <1>1, <2>4, <2>5, <2>6, <3>2
      <4>2. After(m - 1) # After(m)
        <5> HIDE DEF After
        <5>1. Cardinality(After(m)) < MaxHistory
          BY <4>1 DEF kept
        <5>2. ~(Cardinality(After(m - 1)) < MaxHistory)
          BY <1>1, <4>1 DEF kept
        <5> QED
          BY <5>1, <5>2
      <4>3. m \in starts
        <5> SUFFICES ASSUME m \notin starts PROVE After(m - 1) = After(m)
          BY <4>2
        <5>1. m \in Nat /\ \A j \in starts : j \in Nat /\ j # m
          BY <1>2, <2>6
        <5> HIDE DEF m
        <5>2. \A j \in starts : j > m - 1 <=> j > m
          BY <5>1
        <5> QED
          BY <5>2
      <4> QED
        BY <1>2, <4>3
    <3> QED
      BY <3>1, <3>2
  <2>8. LastTurns(conv).msgs = SubSeq(msgs, m, len)
    <3>1. LastTurns(conv) = [conv EXCEPT !.msgs = SubSeq(msgs, m, len)]
      BY <1>5 DEF LastTurns, kept, starts
    <3> HIDE DEF m
    <3> QED
      BY <3>1 DEF Conversations
  <2> QED
    BY <2>6, <2>7, <2>8
<1>6. MaxHistory = 0 \/ MaxHistory > 0
  BY <1>3
<1> QED
  BY <1>4, <1>5, <1>6

LEMMA CompactionKeepsForm ==
  ASSUME NEW conv \in Conversations, NEW filter, Form(conv.msgs, filter)
  PROVE  Form(LastTurns(conv).msgs, filter) /\ Form(Compacted(conv).msgs, filter)
<1>1. conv.msgs \in Seq(Messages)
  BY DEF Conversations
<1>2. CASE conv.msgs = <<>>
  <2>1. LastTurns(conv).msgs \in {conv.msgs, SubSeq(conv.msgs, 1, 0)}
    <3> DEFINE kept == {i \in DOMAIN conv.msgs :
                          Cardinality({j \in TurnStarts(conv.msgs) : j > i}) < MaxHistory}
    <3>1. kept = {} /\ Len(conv.msgs) = 0
      BY <1>2
    <3>2. Cardinality(kept) = 0
      BY <3>1, FS_EmptySet
    <3>3. LastTurns(conv) \in {conv, [conv EXCEPT !.msgs = SubSeq(conv.msgs,
            Len(conv.msgs) - Cardinality(kept) + 1, Len(conv.msgs))]}
      BY DEF LastTurns
    <3> HIDE DEF kept
    <3>4. Len(conv.msgs) - Cardinality(kept) + 1 = 1 /\ Len(conv.msgs) = 0
      BY <3>1, <3>2
    <3> QED
      BY <3>3, <3>4 DEF Conversations
  <2>2. SubSeq(conv.msgs, 1, 0) = conv.msgs
    BY <1>2
  <2> HIDE DEF LastTurns
  <2> QED
    BY <2>1, <2>2 DEF Compacted
<1>3. CASE conv.msgs # <<>>
  <2>1. PICK m \in 1 .. Len(conv.msgs) :
          /\ m = 1 \/ conv.msgs[m].role = "user"
          /\ LastTurns(conv).msgs = SubSeq(conv.msgs, m, Len(conv.msgs))
    BY <1>3, KeepsWholeTurns
  <2>2. WellFormed(LastTurns(conv).msgs, filter)
    <3>1. CASE m = 1
      <4>1. SubSeq(conv.msgs, 1, Len(conv.msgs)) = conv.msgs
        BY <1>1
      <4> QED
        BY <2>1, <3>1, <4>1 DEF Form
    <3>2. CASE m # 1
      BY <1>1, <2>1, <3>2, SuffixWellFormed DEF Form
    <3> QED
      BY <3>1, <3>2
  <2>3. LastTurns(conv).msgs # <<>>
    <3>1. Len(SubSeq(conv.msgs, m, Len(conv.msgs))) = Len(conv.msgs) - m + 1
      BY <1>1, SubSeqProperties
    <3>2. Len(conv.msgs) - m + 1 > 0
      BY <1>1
    <3>3. Len(LastTurns(conv).msgs) > 0
      BY <2>1, <3>1, <3>2
    <3> HIDE DEF LastTurns
    <3> QED
      BY <3>3
  <2> HIDE DEF LastTurns
  <2> QED
    BY <2>2, <2>3 DEF Compacted, Form
<1> QED
  BY <1>2, <1>3


\* A user message, or an assistant message without calls, may follow any well-formed
\* conversation, the latter unless it would be the first where the user's is.
LEMMA PlainMessageFollows ==
  ASSUME NEW msgs \in Seq(Messages), NEW filter, WellFormed(msgs, filter), NEW m \in Messages,
         m = User \/ (m = Assistant(<<>>) /\ (msgs # <<>> \/ ~Headed(filter)))
  PROVE  Form(msgs \o <<m>>, filter)
<1> DEFINE len == Len(msgs)
           more == msgs \o <<m>>
<1>1. len \in Nat /\ DOMAIN msgs = 1 .. len /\ (msgs # <<>> => len >= 1)
  OBVIOUS
<1>2. /\ DOMAIN more = 1 .. len + 1 /\ more[len + 1] = m
      /\ \A i \in 1 .. len : more[i] = msgs[i]
  OBVIOUS
<1> HIDE DEF more, len
<1>0. more # <<>>
  BY <1>1, <1>2
<1> SUFFICES ASSUME NEW i \in 1 .. len + 1
    PROVE  /\ i = 1 /\ filter \notin {"recent", "nest"} => more[i].role = "user"
           /\ more[i].role = "assistant" =>
                \A k \in DOMAIN more[i].calls :
                  i + k \in DOMAIN more /\ more[i + k] = ToolResult(more[i].calls[k])
           /\ more[i].role = "tool" =>
                \/ \E j \in 1 .. i - 1 :
                     more[j].role = "assistant" /\ i - j \in DOMAIN more[j].calls
                \/ filter = "recent" /\ \A j \in 1 .. i : more[j].role = "tool"
  BY <1>0, <1>2 DEF Form, WellFormed, Answered, CalledFor, more
<1>3. CASE i = len + 1
  <2>1. m.role # "tool" /\ (m.role = "assistant" => DOMAIN m.calls = {})
        /\ (m.role = "assistant" => len >= 1 \/ ~Headed(filter))
    BY <1>1, Roles
  <2>2. m.role = "user" \/ m.role = "assistant"
    BY Roles
  <2> QED
    BY <1>1, <1>2, <1>3, <2>1, <2>2 DEF Headed
<1>4. CASE i # len + 1
  <2>1. i \in 1 .. len /\ more[i] = msgs[i]
    BY <1>1, <1>2, <1>4
  <2>2. ASSUME msgs[i].role = "assistant", NEW k \in DOMAIN msgs[i].calls
        PROVE  i + k \in DOMAIN more /\ more[i + k] = ToolResult(msgs[i].calls[k])
    <3>1. i + k \in 1 .. len /\ msgs[i + k] = ToolResult(msgs[i].calls[k])
      BY <1>1, <2>1, <2>2 DEF WellFormed, Answered, CalledFor
    <3> QED
      BY <1>1, <1>2, <3>1
  <2>3. ASSUME msgs[i].role = "tool"
        PROVE  \/ \E j \in 1 .. i - 1 :
                    more[j].role = "assistant" /\ i - j \in DOMAIN more[j].calls
               \/ filter = "recent" /\ \A j \in 1 .. i : more[j].role = "tool"
    <3>1. \A j \in 1 .. i : more[j] = msgs[j]
      BY <1>1, <1>2, <2>1
    <3>2. \/ \E j \in 1 .. i - 1 : msgs[j].role = "assistant" /\ i - j \in DOMAIN msgs[j].calls
          \/ filter = "recent" /\ \A j \in 1 .. i : msgs[j].role = "tool"
      BY <1>1, <2>1, <2>3 DEF WellFormed, CalledFor
    <3>3. \A j \in 1 .. i - 1 : j \in 1 .. i
      BY <2>1
    <3> QED
      BY <3>1, <3>2, <3>3
  <2>4. i = 1 /\ filter \notin {"recent", "nest"} => msgs[i].role = "user"
    BY <1>1, <2>1 DEF WellFormed, Answered, CalledFor
  <2> QED
    BY <2>1, <2>2, <2>3, <2>4
<1> QED
  BY <1>3, <1>4

\* Between a response with calls and its results, a conversation is well formed but for
\* its last message, which makes the calls.
Asks(msgs, filter) ==
  \E front \in Seq(Messages), calls \in Seq(CallIds) :
    Form(front, filter) /\ msgs = front \o <<Assistant(calls)>>

\* With one result per call, in their order, it is well formed again.
LEMMA ResultsAnswer ==
  ASSUME NEW front \in Seq(Messages), NEW calls \in Seq(CallIds), NEW filter,
         Form(front, filter)
  PROVE  Form((front \o <<Assistant(calls)>>)
                \o [i \in 1 .. Len(calls) |-> ToolResult(calls[i])], filter)
<1> DEFINE len == Len(front)
           n == Len(calls)
           answers == [i \in 1 .. n |-> ToolResult(calls[i])]
           asked == front \o <<Assistant(calls)>>
           msgs == asked \o answers
<1>1. len \in Nat /\ n \in Nat /\ DOMAIN front = 1 .. len /\ DOMAIN calls = 1 .. n
      /\ WellFormed(front, filter) /\ (len = 0 => ~Headed(filter))
  BY DEF Form
<1>2. asked \in Seq(Messages) /\ Len(asked) = len + 1 /\ asked[len + 1] = Assistant(calls)
      /\ \A i \in 1 .. len : asked[i] = front[i]
  <2>1. Assistant(calls) \in Messages
    BY MessageTypes
  <2> QED
    BY <2>1
<1>3. answers \in Seq(Messages) /\ Len(answers) = n
      /\ \A i \in 1 .. n : answers[i] = ToolResult(calls[i])
  <2>1. \A i \in 1 .. n : ToolResult(calls[i]) \in Messages
    BY MessageTypes, ElementOfSeq
  <2> QED
    BY <1>1, <2>1
<1> HIDE DEF answers, asked, n, len
<1>4. /\ msgs \in Seq(Messages) /\ Len(msgs) = len + 1 + n
      /\ \A i \in 1 .. len + 1 + n :
           msgs[i] = IF i <= len + 1 THEN asked[i] ELSE answers[i - (len + 1)]
  <2>1. /\ msgs \in Seq(Messages) /\ Len(msgs) = Len(asked) + Len(answers)
        /\ \A i \in 1 .. Len(asked) + Len(answers) :
             msgs[i] = IF i <= Len(asked) THEN asked[i] ELSE answers[i - Len(asked)]
    BY <1>2, <1>3, ConcatProperties, Zenon
  <2> HIDE DEF msgs
  <2> QED
    BY <1>2, <1>3, <2>1
<1> HIDE DEF msgs
<1>5. /\ DOMAIN msgs = 1 .. len + 1 + n
      /\ \A i \in 1 .. len : msgs[i] = front[i]
      /\ msgs[len + 1] = Assistant(calls)
      /\ \A k \in 1 .. n : msgs[len + 1 + k] = ToolResult(calls[k])
  <2>1. ASSUME NEW k \in 1 .. n PROVE msgs[len + 1 + k] = ToolResult(calls[k])
    <3>1. len + 1 + k \in 1 .. len + 1 + n /\ ~(len + 1 + k <= len + 1)
          /\ (len + 1 + k) - (len + 1) = k
      BY <1>1
    <3> QED
      BY <1>3, <1>4, <3>1
  <2>2. DOMAIN msgs = 1 .. len + 1 + n
    BY <1>4
  <2>3. \A i \in 1 .. len + 1 : i \in 1 .. len + 1 + n /\ i <= len + 1
    BY <1>1
  <2>4. \A i \in 1 .. len + 1 : msgs[i] = asked[i]
    BY <1>4, <2>3
  <2>5. \A i \in 1 .. len : i \in 1 .. len + 1
    BY <1>1
  <2>6. len + 1 \in 1 .. len + 1
    BY <1>1
  <2> QED
    BY <1>2, <2>1, <2>2, <2>4, <2>5, <2>6
<1>0. msgs # <<>>
  BY <1>1, <1>5
<1> SUFFICES ASSUME NEW i \in 1 .. len + 1 + n
    PROVE  /\ i = 1 /\ filter \notin {"recent", "nest"} => msgs[i].role = "user"
           /\ msgs[i].role = "assistant" =>
                \A k \in DOMAIN msgs[i].calls :
                  i + k \in DOMAIN msgs /\ msgs[i + k] = ToolResult(msgs[i].calls[k])
           /\ msgs[i].role = "tool" =>
                \/ \E j \in 1 .. i - 1 :
                     msgs[j].role = "assistant" /\ i - j \in DOMAIN msgs[j].calls
                \/ filter = "recent" /\ \A j \in 1 .. i : msgs[j].role = "tool"
  BY <1>0, <1>5 DEF Form, WellFormed, Answered, CalledFor, msgs, asked, answers, n
<1>6. CASE i \in 1 .. len
  <2>1. msgs[i] = front[i]
    BY <1>5, <1>6
  <2>2. ASSUME front[i].role = "assistant", NEW k \in DOMAIN front[i].calls
        PROVE  i + k \in DOMAIN msgs /\ msgs[i + k] = ToolResult(front[i].calls[k])
    <3>1. i + k \in 1 .. len /\ front[i + k] = ToolResult(front[i].calls[k])
      BY <1>1, <1>6, <2>2 DEF WellFormed, Answered, CalledFor
    <3> QED
      BY <1>1, <1>5, <3>1
  <2>3. ASSUME front[i].role = "tool"
        PROVE  \/ \E j \in 1 .. i - 1 :
                    msgs[j].role = "assistant" /\ i - j \in DOMAIN msgs[j].calls
               \/ filter = "recent" /\ \A j \in 1 .. i : msgs[j].role = "tool"
    <3>1. \A j \in 1 .. i : msgs[j] = front[j]
      BY <1>1, <1>5, <1>6
    <3>2. \/ \E j \in 1 .. i - 1 : front[j].role = "assistant" /\ i - j \in DOMAIN front[j].calls
          \/ filter = "recent" /\ \A j \in 1 .. i : front[j].role = "tool"
      BY <1>1, <1>6, <2>3 DEF WellFormed, CalledFor
    <3>3. \A j \in 1 .. i - 1 : j \in 1 .. i
      BY <1>1, <1>6
    <3> QED
      BY <3>1, <3>2, <3>3
  <2>4. i = 1 /\ filter \notin {"recent", "nest"} => front[i].role = "user"
    BY <1>1, <1>6 DEF WellFormed, Answered, CalledFor
  <2> QED
    BY <2>1, <2>2, <2>3, <2>4
<1>7. CASE i = len + 1
  <2>1. msgs[i].role = "assistant" /\ msgs[i].calls = calls
    BY <1>1, <1>5, <1>7, Roles
  <2>0. i = 1 => ~Headed(filter)
    BY <1>1, <1>7
  <2>2. ASSUME NEW k \in 1 .. n
        PROVE  i + k \in DOMAIN msgs /\ msgs[i + k] = ToolResult(calls[k])
    BY <1>1, <1>5, <1>7
  <2> QED
    BY <1>1, <2>0, <2>1, <2>2 DEF Headed
<1>8. CASE i > len + 1
  <2>1. i - (len + 1) \in 1 .. n /\ i = len + 1 + (i - (len + 1)) /\ i # 1
    BY <1>1, <1>8
  <2>2. msgs[i].role = "tool"
    BY <1>5, <2>1, Roles
  <2>3. len + 1 \in 1 .. i - 1
    BY <1>1, <1>8
  <2>4. msgs[len + 1].role = "assistant" /\ msgs[len + 1].calls = calls
    BY <1>5, Roles, Zenon
  <2>5. i - (len + 1) \in DOMAIN msgs[len + 1].calls
    BY <1>1, <2>1, <2>4
  <2> QED
    BY <2>1, <2>2, <2>3, <2>4, <2>5
<1>9. i \in 1 .. len \/ i = len + 1 \/ i > len + 1
  BY <1>1
<1> QED
  BY <1>6, <1>7, <1>8, <1>9


\* What memory and the run hold while the process lives: a well-formed conversation,
\* but for the calls that are being answered.
FormInv ==
  crashes = 0 =>
    /\ WellFormed(mem.conv.msgs, Applied(mem))
    /\ Running =>
         IF pc \in {"saveCalls", "results"} THEN Asks(run.conv.msgs, Applied(run))
         ELSE Form(run.conv.msgs, Applied(run))

LEMMA InitForm == Init => FormInv
BY DEF Init, FormInv, Running, FreshMemory, WellFormed

\* The conversations of memory and run, and their messages.
LEMMA ConvTypes ==
  ASSUME IInv
  PROVE  /\ mem.conv \in Conversations /\ mem.conv.msgs \in Seq(Messages)
         /\ Running => /\ run \in Runs /\ run.conv \in Conversations
                       /\ run.conv.msgs \in Seq(Messages)
         /\ crashes \in Nat
BY DEF IInv, TypeOK, Memories, Runs, Conversations

\* What is well formed where no filter was applied is so with any filter.
LEMMA Loosens ==
  ASSUME NEW msgs, NEW filter, Form(msgs, "none")
  PROVE  Form(msgs, filter)
BY DEF Form, Headed, WellFormed

\* A window over a well-formed conversation may begin with results cut from their calls,
\* and nothing else is out of place in it.
LEMMA WindowForm ==
  ASSUME NEW msgs \in Seq(Messages), WellFormed(msgs, "recent"), NEW m \in 1 .. Len(msgs) + 1
  PROVE  WellFormed(SubSeq(msgs, m, Len(msgs)), "recent")
<1> DEFINE len == Len(msgs)
           rest == SubSeq(msgs, m, len)
<1>1. len \in Nat /\ DOMAIN msgs = 1 .. len /\ m \in Nat /\ m >= 1 /\ m <= len + 1
  OBVIOUS
<1>2. rest \in Seq(Messages) /\ Len(rest) = len - m + 1 /\ DOMAIN rest = 1 .. len - m + 1
  BY <1>1, SubSeqProperties
<1>3. \A i \in 1 .. len - m + 1 : rest[i] = msgs[m + i - 1]
  BY <1>1
<1>4. \A i \in 1 .. len : DOMAIN msgs[i].calls = 1 .. Len(msgs[i].calls)
                          /\ Len(msgs[i].calls) \in Nat
  BY <1>1, MessageCalls
<1> HIDE DEF rest, len
<1> SUFFICES ASSUME NEW i \in 1 .. len - m + 1
    PROVE  /\ rest[i].role = "assistant" =>
                \A k \in DOMAIN rest[i].calls :
                  i + k \in DOMAIN rest /\ rest[i + k] = ToolResult(rest[i].calls[k])
           /\ rest[i].role = "tool" =>
                \/ \E j \in 1 .. i - 1 :
                     rest[j].role = "assistant" /\ i - j \in DOMAIN rest[j].calls
                \/ \A j \in 1 .. i : rest[j].role = "tool"
  BY <1>2 DEF WellFormed, Answered, CalledFor, rest, len
<1> DEFINE p == m + i - 1
<1>5. p \in 1 .. len /\ p >= m /\ rest[i] = msgs[p]
  BY <1>1, <1>3
<1>6. ASSUME rest[i].role = "assistant", NEW k \in DOMAIN rest[i].calls
      PROVE  i + k \in DOMAIN rest /\ rest[i + k] = ToolResult(rest[i].calls[k])
  <2>1. k \in Nat /\ p + k \in 1 .. len /\ msgs[p + k] = ToolResult(msgs[p].calls[k])
    BY <1>1, <1>4, <1>5, <1>6 DEF WellFormed, Answered
  <2>2. i + k \in 1 .. len - m + 1 /\ m + (i + k) - 1 = p + k
    BY <1>1, <2>1
  <2> QED
    BY <1>2, <1>3, <1>5, <2>1, <2>2
<1>7. ASSUME rest[i].role = "tool"
      PROVE  \/ \E j \in 1 .. i - 1 :
                  rest[j].role = "assistant" /\ i - j \in DOMAIN rest[j].calls
             \/ \A j \in 1 .. i : rest[j].role = "tool"
  <2>1. \/ \E h \in 1 .. p - 1 : msgs[h].role = "assistant" /\ p - h \in DOMAIN msgs[h].calls
        \/ \A h \in 1 .. p : msgs[h].role = "tool"
    BY <1>1, <1>5, <1>7 DEF WellFormed, CalledFor
  <2>2. CASE \A h \in 1 .. p : msgs[h].role = "tool"
    <3>1. ASSUME NEW j \in 1 .. i PROVE rest[j].role = "tool"
      <4>1. m + j - 1 \in 1 .. p /\ j \in 1 .. len - m + 1
        BY <1>1
      <4> QED
        BY <1>3, <2>2, <4>1
    <3> QED
      BY <3>1
  <2>3. ASSUME NEW h \in 1 .. p - 1, msgs[h].role = "assistant", p - h \in DOMAIN msgs[h].calls
        PROVE  \/ \E j \in 1 .. i - 1 :
                    rest[j].role = "assistant" /\ i - j \in DOMAIN rest[j].calls
               \/ \A j \in 1 .. i : rest[j].role = "tool"
    <3>1. h \in 1 .. len /\ h < p
      BY <1>1, <1>5
    <3>2. CASE h >= m
      <4>1. h - m + 1 \in 1 .. i - 1 /\ rest[h - m + 1] = msgs[h] /\ i - (h - m + 1) = p - h
        BY <1>1, <1>3, <3>1, <3>2
      <4> QED
        BY <2>3, <4>1
    <3>3. CASE h < m
      <4>1. ASSUME NEW j \in 1 .. i PROVE rest[j].role = "tool"
        <5>1. rest[j] = msgs[m + j - 1] /\ m + j - 1 \in 1 .. p
          BY <1>1, <1>3
        <5>2. (m + j - 1) - h \in 1 .. p - h
          BY <1>1, <3>1, <3>3
        <5>3. (m + j - 1) - h \in DOMAIN msgs[h].calls
          BY <1>4, <2>3, <3>1, <5>2
        <5>4. h + ((m + j - 1) - h) = m + j - 1
          BY <1>1, <3>1
        <5>5. msgs[h + ((m + j - 1) - h)] = ToolResult(msgs[h].calls[(m + j - 1) - h])
          BY <1>1, <2>3, <3>1, <5>3 DEF WellFormed, Answered
        <5>6. msgs[m + j - 1].role = "tool"
          BY <5>4, <5>5, Roles, Zenon
        <5> QED
          BY <5>1, <5>6
      <4> QED
        BY <4>1
    <3> QED
      BY <1>1, <3>1, <3>2, <3>3
  <2> QED
    BY <2>1, <2>2, <2>3
<1> QED
  BY <1>6, <1>7

\* Without calls and results, a conversation that begins with the user's message does so.
LEMMA WithoutToolsForm ==
  ASSUME NEW msgs \in Seq(Messages), Form(msgs, "tools")
  PROVE  LET I == {i \in DOMAIN msgs : msgs[i].role # "tool" /\ msgs[i].calls = <<>>}
         IN  Form(Select(msgs, I), "tools")
<1> DEFINE I == {i \in DOMAIN msgs : msgs[i].role # "tool" /\ msgs[i].calls = <<>>}
           kept == Select(msgs, I)
<1>1. msgs # <<>> /\ Len(msgs) \in Nat /\ Len(msgs) >= 1 /\ DOMAIN msgs = 1 .. Len(msgs)
  BY DEF Form, Headed
<1>2. msgs[1].role = "user" /\ msgs[1] \in Messages
  BY <1>1 DEF Form, WellFormed
<1>3. 1 \in I
  BY <1>1, <1>2 DEF Messages, User
<1>4. I \in SUBSET (1 .. Len(msgs))
  BY <1>1
<1>5. \A i \in I : msgs[i].role # "tool" /\ msgs[i].calls = <<>>
  OBVIOUS
<1> HIDE DEF I
<1>6. /\ kept \in Seq(Messages) /\ Len(kept) = Cardinality(I) /\ DOMAIN kept = 1 .. Cardinality(I)
      /\ \A k \in 1 .. Cardinality(I) : Nth(I, k) \in I /\ kept[k] = msgs[Nth(I, k)]
      /\ \A k, l \in 1 .. Cardinality(I) : k < l => Nth(I, k) < Nth(I, l)
      /\ \A i \in I : \E k \in 1 .. Cardinality(I) : Nth(I, k) = i
      /\ Cardinality(I) \in Nat
  <2>1. kept \in Seq(Messages) /\ Len(kept) = Cardinality(I)
    BY <1>4, SelectFacts
  <2>2. DOMAIN kept = 1 .. Cardinality(I) /\ Cardinality(I) \in Nat
    <3> HIDE DEF kept
    <3> QED
      BY <2>1
  <2> QED
    BY <1>4, <2>1, <2>2, SelectFacts
<1> HIDE DEF kept
<1>7. PICK k \in 1 .. Cardinality(I) : Nth(I, k) = 1
  BY <1>3, <1>6
<1>8. k = 1
  <2> SUFFICES ASSUME k # 1 PROVE FALSE
    OBVIOUS
  <2>1. 1 \in 1 .. Cardinality(I) /\ 1 < k
    BY <1>6, <1>7
  <2>2. Nth(I, 1) < 1 /\ Nth(I, 1) \in 1 .. Len(msgs)
    BY <1>4, <1>6, <1>7, <2>1
  <2> QED
    BY <1>1, <2>2
<1>9. kept # <<>> /\ kept[1].role = "user"
  BY <1>2, <1>6, <1>7, <1>8
<1>10. ASSUME NEW j \in DOMAIN kept PROVE kept[j].role # "tool" /\ DOMAIN kept[j].calls = {}
  BY <1>5, <1>6
<1>11. WellFormed(kept, "tools")
  BY <1>9, <1>10 DEF WellFormed, Answered
<1> QED
  BY <1>9, <1>11 DEF Form, kept, I

\* Every filter of transfer_input.go keeps the form that it allows.
LEMMA FilteredForm ==
  ASSUME NEW msgs \in Seq(Messages), mem.filter \in Filters, Form(msgs, mem.filter)
  PROVE  Form(Filtered(msgs), mem.filter)
<1>1. CASE mem.filter = "none"
  BY <1>1 DEF Filtered
<1>2. CASE mem.filter = "tools"
  BY <1>2, WithoutToolsForm DEF Filtered
<1>3. CASE mem.filter = "recent"
  <2>1. WellFormed(msgs, "recent") /\ Recent \in Nat /\ Len(msgs) \in Nat
    BY <1>3, BoundsAssumption DEF Form
  <2>2. CASE Len(msgs) <= Recent
    BY <1>3, <2>2 DEF Filtered
  <2>3. CASE Len(msgs) > Recent
    <3>1. Len(msgs) - Recent + 1 \in 1 .. Len(msgs) + 1
      BY <2>1, <2>3
    <3>2. WellFormed(SubSeq(msgs, Len(msgs) - Recent + 1, Len(msgs)), "recent")
      BY <2>1, <3>1, WindowForm
    <3>3. Filtered(msgs) = SubSeq(msgs, Len(msgs) - Recent + 1, Len(msgs))
      BY <1>3, <2>1, <2>3 DEF Filtered
    <3> QED
      BY <1>3, <3>2, <3>3 DEF Form, Headed
  <2> QED
    BY <2>1, <2>2, <2>3
<1>4. CASE mem.filter = "nest"
  <2>1. Filtered(msgs) \in {<<>>, <<Assistant(<<>>)>>}
    BY <1>4 DEF Filtered
  <2>2. WellFormed(<<>>, "nest")
    BY DEF WellFormed
  <2>3. WellFormed(<<Assistant(<<>>)>>, "nest")
    <3> DEFINE one == <<Assistant(<<>>)>>
    <3>1. DOMAIN one = {1} /\ one[1] = Assistant(<<>>)
      OBVIOUS
    <3> HIDE DEF one
    <3>2. one[1].role = "assistant" /\ DOMAIN one[1].calls = {}
      BY <3>1, Roles
    <3>3. WellFormed(one, "nest")
      BY <3>1, <3>2 DEF WellFormed, Answered
    <3> QED
      BY <3>3 DEF one
  <2> QED
    BY <1>4, <2>1, <2>2, <2>3 DEF Form, Headed
<1> QED
  BY <1>1, <1>2, <1>3, <1>4, BoundsAssumption

\* A step within the turn, after which the run's conversation is well formed.
LEMMA FormMoves ==
  ASSUME IInv, FormInv, mem' = mem, crashes' = crashes,
         crashes = 0 => Form(run'.conv.msgs, Applied(run)'),
         pc' \notin {"saveCalls", "results"}
  PROVE  FormInv'
BY DEF FormInv, Applied

LEMMA ReplyForm ==
  ASSUME IInv, FormInv, pc = "await", mem' = mem, crashes' = crashes,
         NEW usage \in Usages, NEW calls \in Seq(CallIds),
         run'.conv = Extend(AddUsage(run, usage).conv, <<Assistant(calls)>>),
         run'.owner = run.owner, pc' = "saveCalls"
  PROVE  FormInv'
<1>1. /\ Running /\ run \in Runs /\ run.conv \in Conversations
      /\ run.conv.msgs \in Seq(Messages)
      /\ crashes = 0 => Form(run.conv.msgs, Applied(run))
  BY ConvTypes DEF Running, FormInv
<1>2. AddUsage(run, usage).conv = run.conv
  BY <1>1 DEF AddUsage, Runs
<1>3. <<Assistant(calls)>> \in Seq(Messages)
  BY MessageTypes
<1>4. run'.conv.msgs = run.conv.msgs \o <<Assistant(calls)>>
  <2>1. run'.conv = Extend(run.conv, <<Assistant(calls)>>)
    BY <1>2
  <2>2. Extend(run.conv, <<Assistant(calls)>>).msgs = run.conv.msgs \o <<Assistant(calls)>>
    BY <1>1, <1>3, ExtendType
  <2> QED
    BY <2>1, <2>2
<1>5. Applied(run)' = Applied(run)
  BY DEF Applied
<1>6. crashes = 0 => Asks(run'.conv.msgs, Applied(run))
  BY <1>1, <1>4 DEF Asks
<1> QED
  BY <1>1, <1>5, <1>6 DEF FormInv, Applied

LEMMA NextForm == IInv /\ FormInv /\ [Next]_vars => FormInv'
<1> SUFFICES ASSUME IInv, FormInv, [Next]_vars PROVE FormInv'
  OBVIOUS
<1>1. CASE StartRefused
  BY <1>1 DEF StartRefused, FormInv, Running, Applied
<1>2. CASE \E mode \in {"run", "stream"} : StartTurn(mode)
  <2>1. PICK mode \in {"run", "stream"} : StartTurn(mode)
    BY <1>2
  <2>2. /\ pc' = "gate" /\ mem' = mem /\ crashes' = crashes
        /\ run' = [Capture(mode) EXCEPT !.conv = Extend(@, <<User>>)]
    BY <2>1 DEF StartTurn
  <2>3. run'.conv = Extend(mem.conv, <<User>>)
    BY <2>2 DEF Capture
  <2>4. User \in Messages /\ <<User>> \in Seq(Messages)
    BY MessageTypes
  <2>5. run'.conv.msgs = mem.conv.msgs \o <<User>>
    BY <2>3, <2>4, ConvTypes, ExtendType
  <2>6. crashes = 0 => Form(run'.conv.msgs, Applied(mem))
    BY <2>4, <2>5, ConvTypes, PlainMessageFollows DEF FormInv
  <2>7. Applied(run)' = Applied(mem)
    BY <2>2 DEF Applied, Capture
  <2> QED
    BY <2>2, <2>6, <2>7, FormMoves
<1>3. CASE Failures
  <2>1. TurnFails
    BY <1>3 DEF Failures, GateFails, GateCancelled, StepFails, CheckpointFails,
         ApplyTransferFails, SaveSessionFails, EmitFails, TransferRejected,
         CompactionFails
  <2> QED
    BY <2>1 DEF TurnFails, FormInv, Running, Applied
<1>4. CASE EnterStep
  <2>1. /\ pc = "gate" /\ pc' = "await" /\ mem' = mem /\ crashes' = crashes
        /\ run' = run \/ run' = [run EXCEPT !.conv = LastTurns(@)]
    BY <1>4 DEF EnterStep, Goto
  <2>2. /\ run \in Runs /\ run.conv \in Conversations
        /\ crashes = 0 => Form(run.conv.msgs, Applied(run))
    BY <2>1, ConvTypes DEF Running, FormInv
  <2>3. (run'.conv = run.conv \/ run'.conv = LastTurns(run.conv)) /\ run'.owner = run.owner
    BY <2>1, <2>2 DEF Runs
  <2>4. crashes = 0 => Form(run'.conv.msgs, Applied(run))
    BY <2>2, <2>3, CompactionKeepsForm
  <2>5. Applied(run)' = Applied(run)
    BY <2>1, <2>3 DEF Applied
  <2> QED
    BY <2>1, <2>4, <2>5, FormMoves
<1>5. CASE \E usage \in Usages : FinalReply(usage)
  <2>1. PICK usage \in Usages : FinalReply(usage)
    BY <1>5
  <2> DEFINE s == AddUsage(run, usage)
             final == Extend(run.conv, <<Assistant(<<>>)>>)
  <2>2. /\ pc = "await" /\ pc' = "saveFinal" /\ mem' = mem /\ crashes' = crashes
        /\ run' = [s EXCEPT !.conv = Compacted(Extend(@, <<Assistant(<<>>)>>))]
    BY <2>1 DEF FinalReply, Goto
  <2>3. /\ run \in Runs /\ run.conv \in Conversations /\ run.conv.msgs \in Seq(Messages)
        /\ crashes = 0 => Form(run.conv.msgs, Applied(run))
    BY <2>2, ConvTypes DEF Running, FormInv
  <2>4. s \in Runs /\ s.conv = run.conv /\ s.owner = run.owner
    BY <2>3, AddUsageType DEF Fields
  <2>5. run'.conv = Compacted(final) /\ run'.owner = run.owner
    <3> HIDE DEF s
    <3> QED
      BY <2>2, <2>4 DEF Runs
  <2>6. Assistant(<<>>) \in Messages /\ <<Assistant(<<>>)>> \in Seq(Messages)
    <3>1. <<>> \in Seq(CallIds)
      OBVIOUS
    <3>2. Assistant(<<>>) \in Messages
      BY <3>1, MessageTypes
    <3> QED
      BY <3>2
  <2>7. final \in Conversations /\ final.msgs = run.conv.msgs \o <<Assistant(<<>>)>>
    BY <2>3, <2>6, ExtendType
  <2>8. crashes = 0 => Form(final.msgs, Applied(run))
    <3> HIDE DEF final
    <3>1. ASSUME crashes = 0
          PROVE  Form(run.conv.msgs \o <<Assistant(<<>>)>>, Applied(run))
      <4>1. /\ WellFormed(run.conv.msgs, Applied(run))
            /\ run.conv.msgs # <<>> \/ ~Headed(Applied(run))
        BY <2>3, <3>1 DEF Form
      <4> QED
        BY <2>3, <2>6, <4>1, PlainMessageFollows
    <3> QED
      BY <2>7, <3>1
  <2> HIDE DEF final, s
  <2>9. crashes = 0 => Form(run'.conv.msgs, Applied(run))
    BY <2>5, <2>7, <2>8, CompactionKeepsForm
  <2>10. Applied(run)' = Applied(run)
    BY <2>2, <2>5 DEF Applied
  <2> QED
    BY <2>2, <2>9, <2>10, FormMoves
<1>6. CASE \E usage \in Usages, reply \in Replies :
             ToolReply(reply, usage) \/ \E input \in BOOLEAN : TransferReply(reply, usage, input)
  <2>1. PICK usage \in Usages, reply \in Replies :
          ToolReply(reply, usage) \/ \E input \in BOOLEAN : TransferReply(reply, usage, input)
    BY <1>6
  <2> DEFINE s == AddUsage(run, usage)
             conv == Extend(s.conv, <<Assistant(CallsOf(reply))>>)
             target == reply[1]
  <2>2. pc = "await" /\ pc' = "saveCalls" /\ mem' = mem /\ crashes' = crashes
    BY <2>1 DEF ToolReply, TransferReply, Goto
  <2>3. \/ run' = [s EXCEPT !.conv = conv]
        \/ \E input \in BOOLEAN :
             run' = [s EXCEPT !.conv = conv, !.target = target, !.input = input]
    BY <2>1 DEF ToolReply, TransferReply
  <2>4. s \in Runs /\ s.owner = run.owner
    BY <2>2, ConvTypes, AddUsageType DEF Running, Fields
  <2>5. run'.conv = conv /\ run'.owner = run.owner
    <3> HIDE DEF s, conv, target
    <3> QED
      BY <2>3, <2>4 DEF Runs
  <2>6. CallsOf(reply) \in Seq(CallIds)
    BY RepliesType
  <2> QED
    BY <2>2, <2>5, <2>6, ReplyForm
<1>7. CASE Checkpoint
  <2>1. /\ pc \in {"saveFinal", "saveCalls", "saveResults"} /\ pc' = AfterCheckpoint
        /\ mem' = mem /\ crashes' = crashes /\ run' = run
    BY <1>7 DEF Checkpoint, Goto
  <2>2. /\ pc = "saveCalls" => pc' = "results"
        /\ pc # "saveCalls" => pc' \in {"saveSession", "gate", "apply"}
    BY <2>1 DEF AfterCheckpoint
  <2> QED
    BY <2>1, <2>2 DEF FormInv, Running, Applied
<1>8. CASE AppendToolResults
  <2>1. /\ pc = "results" /\ pc' = "saveResults" /\ mem' = mem /\ crashes' = crashes
        /\ run' = [run EXCEPT !.conv = Extend(@, Results)]
    BY <1>8 DEF AppendToolResults, Goto
  <2>2. /\ run \in Runs /\ run.conv \in Conversations /\ run.conv.msgs \in Seq(Messages)
        /\ Len(run.conv.msgs) > 0
        /\ crashes = 0 => Asks(run.conv.msgs, Applied(run))
    BY <2>1, ConvTypes DEF Running, FormInv, IInv, RunInv
  <2>3. Results \in Seq(Messages)
    BY <2>2, ResultsType
  <2>4. run'.conv.msgs = run.conv.msgs \o Results /\ run'.owner = run.owner
    <3> HIDE DEF Results
    <3>1. run'.conv = Extend(run.conv, Results) /\ run'.owner = run.owner
      BY <2>1, <2>2 DEF Runs
    <3> QED
      BY <2>2, <2>3, <3>1, ExtendType
  <2>5. ASSUME crashes = 0 PROVE Form(run.conv.msgs \o Results, Applied(run))
    <3>1. PICK front \in Seq(Messages), calls \in Seq(CallIds) :
            Form(front, Applied(run)) /\ run.conv.msgs = front \o <<Assistant(calls)>>
      BY <2>2, <2>5 DEF Asks
    <3>2. run.conv.msgs[Len(run.conv.msgs)] = Assistant(calls)
      <4>1. Assistant(calls) \in Messages
        BY MessageTypes
      <4> QED
        BY <3>1, <4>1
    <3>3. PendingCalls = calls
      BY <3>2, Roles DEF PendingCalls
    <3>4. Results = [i \in 1 .. Len(calls) |-> ToolResult(calls[i])]
      BY <3>3 DEF Results
    <3> QED
      BY <3>1, <3>4, ResultsAnswer
  <2>6. Applied(run)' = Applied(run)
    BY <2>1, <2>4 DEF Applied
  <2> QED
    BY <2>1, <2>4, <2>5, <2>6, FormMoves
<1>9. CASE ApplyTransfer
  <2>1. /\ pc = "apply" /\ pc' = "gate" /\ mem' = mem /\ crashes' = crashes
        /\ run' = HandOver(run)
    BY <1>9 DEF ApplyTransfer, Goto
  <2>2. /\ run \in Runs /\ run.conv.msgs \in Seq(Messages) /\ mem.filter \in Filters
        /\ run.target \in Agents
        /\ crashes = 0 => Form(run.conv.msgs, Applied(run))
    BY <2>1, ConvTypes DEF Running, FormInv, IInv, RunInv, TypeOK, Memories, Runs, Owners
  <2>3. run'.conv = TransferredConv(run) /\ run'.owner = run.target
    BY <2>1, <2>2 DEF HandOver, Runs
  <2>4. Applied(run)' = mem.filter
    BY <2>1, <2>2, <2>3, AgentsAssumption DEF Applied
  <2>5. ASSUME crashes = 0 PROVE Form(Filtered(run.conv.msgs), mem.filter)
    <3>1. Form(run.conv.msgs, mem.filter) \/ Form(run.conv.msgs, "none")
      BY <2>2, <2>5 DEF Applied
    <3>2. Form(run.conv.msgs, mem.filter)
      BY <3>1, Loosens
    <3> QED
      BY <2>2, <3>2, FilteredForm
  <2>6. ASSUME crashes = 0 PROVE Form(run'.conv.msgs, mem.filter)
    <3>1. /\ Filtered(run.conv.msgs) \in Seq(Messages)
          /\ run'.conv.msgs \in {Filtered(run.conv.msgs), Filtered(run.conv.msgs) \o <<User>>}
      BY <2>2, <2>3, FilteredType, TransferredType
    <3>2. User \in Messages
      BY MessageTypes
    <3>3. WellFormed(Filtered(run.conv.msgs), mem.filter)
      BY <2>5, <2>6 DEF Form
    <3> HIDE DEF Filtered
    <3>4. Form(Filtered(run.conv.msgs) \o <<User>>, mem.filter)
      BY <3>1, <3>2, <3>3, PlainMessageFollows
    <3> QED
      BY <2>5, <2>6, <3>1, <3>4
  <2> QED
    BY <2>1, <2>4, <2>6, FormMoves
<1>10. CASE SaveSession
  BY <1>10 DEF SaveSession, Goto, FormInv, Running, Applied
<1>11. CASE Publish
  BY <1>11 DEF Publish, FormInv, Running, Applied, Form
<1>12. CASE Finish
  BY <1>12 DEF Finish, FormInv, Running, Applied
<1>13. CASE Crash
  <2>1. crashes' # 0
    BY <1>13, ConvTypes DEF Crash
  <2> QED
    BY <2>1 DEF FormInv
<1>14. CASE RestartFresh \/ Resume
  <2>1. crashes' # 0
    BY <1>14 DEF RestartFresh, Resume, IInv, CrashInv
  <2> QED
    BY <2>1 DEF FormInv
<1>15. CASE UNCHANGED vars
  BY <1>15 DEF vars, FormInv, Running, Applied
<1> QED
  BY <1>1, <1>2, <1>3, <1>4, <1>5, <1>6, <1>7, <1>8, <1>9, <1>10, <1>11, <1>12, <1>13,
     <1>14, <1>15 DEF Next, Progress, Reply, Failures

\* Every request the provider gets answers each tool call right after it and carries no
\* orphan result, however often the conversation was compacted, handed over, cut short by
\* the context guard or left behind by failed turns, for every window and context limit,
\* as long as the process never died.
THEOREM RequestsAreWellFormed == Spec => []RequestWellFormed
<1>1. FormInv => RequestWellFormed
  BY DEF FormInv, RequestWellFormed, Running, Form
<1> QED
  BY <1>1, InitForm, NextForm, Invariant, PTL DEF Spec
================================================================================
