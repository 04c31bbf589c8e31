------------------------------ MODULE RuntimeState ------------------------------
(***************************************************************************)
(* The state callers of one agent.Runtime share: the generation, the active*)
(* agent and the pointers to the session and the conversation, with every  *)
(* operation that reads or replaces them running concurrently.             *)
(*                                                                         *)
(* A caller runs one operation at a time: Run or Stream ("run"),           *)
(* TransferStream ("stream", a child runtime whose state is adopted when it*)
(* is done) or ApplyTransfer ("apply").  Each takes the runtime's lock only*)
(* to read the pointers and to commit, and copies the objects without it.  *)
(* A commit restores the session object, then the conversation object; a   *)
(* run may copy the two in between.  The mutators                          *)
(* (AppendConversationMessage, ClearConversation, SetConversationSystem,   *)
(* SetSessionMetadata, LoadState) are one critical section each.           *)
(*                                                                         *)
(* LoadState allocates a new session and a new conversation together, and  *)
(* nothing else replaces the pointers, so both are one index into heap.    *)
(* Messages and metadata entries are tokens that tell who wrote them and   *)
(* for which session; what a turn does in detail is TurnEngine's subject.  *)
(***************************************************************************)
EXTENDS Integers, Sequences, FiniteSets

CONSTANTS
  Procs,      \* callers of the runtime, one operation at a time each
  Agents,     \* agent definitions
  Root,       \* Runtime.rootAgent
  SessionIds, \* ids of the sessions the application loads into the runtime
  First,      \* id of the session the runtime is created with
  MaxGen,     \* bound: changes of the generation
  MaxOps,     \* bound: operations begun
  None        \* a missing value; as a writer, the application itself

ASSUME StateAssumption ==
  /\ Root \in Agents
  /\ First \in SessionIds
  /\ MaxGen \in Nat
  /\ MaxOps \in Nat
  /\ None \notin Procs
  /\ None \notin Agents

VARIABLES
  generation, \* Runtime.generation
  agent,      \* Runtime.agent, with the tools that go with it
  cur,        \* Runtime.session and Runtime.conv: the newest index of heap
  heap,       \* the session and conversation objects, in order of allocation
  procs,      \* what each caller's operation has read and where it stands
  store,      \* conversations in the conversation store, by session id
  torn,       \* history: an operation copied the session of one id and the
              \* conversation that goes with another
  begun       \* operations begun so far

vars == <<generation, agent, cur, heap, procs, store, torn, begun>>

-------------------------------------------------------------------------------
(* Sessions, conversations and operations *)

Owners == Agents \cup {None}

\* A run's messages and metadata have n = 0, what the application writes n > 0:
\* the generation it makes, or 1 for the metadata of a caller's ApplyTransfer.
Tokens == [by : Procs \cup {None}, n : Nat, of : SessionIds]
ApiToken(s) == [by |-> None, n |-> generation + 1, of |-> s]
CallerToken(p, n, s) == [by |-> p, n |-> n, of |-> s]

Sessions == [id : SessionIds, owner : Owners, meta : SUBSET Tokens]
\* of is history: the session the conversation was loaded or copied with.
Conversations == [of : SessionIds, prompt : Owners, msgs : SUBSET Tokens]
Cells == [session : Sessions, conv : Conversations]

Kinds == {"run", "stream", "apply"}
Stages ==
  {"session", "conv", "work", "saveConv", "publish", "commit", "restore"}
Operations ==
  [kind : Kinds, stage : Stages, generation : Nat, cell : Nat, agent : Agents,
   session : Sessions, conv : Conversations]

ASSUME OperationAssumption == None \notin Operations

NewSession(s) == [id |-> s, owner |-> None, meta |-> {}]
NewConversation(s) == [of |-> s, prompt |-> Root, msgs |-> {}]
NewCell(s) == [session |-> NewSession(s), conv |-> NewConversation(s)]

Current == heap[cur]

Init ==
  /\ generation = 0
  /\ agent = Root
  /\ cur = 1
  /\ heap = <<NewCell(First)>>
  /\ procs = [p \in Procs |-> None]
  /\ store = [s \in SessionIds |-> None]
  /\ torn = FALSE
  /\ begun = 0

Active(p, stage) == procs[p] # None /\ procs[p].stage = stage

\* The runtime's lock, held from the restored session to the restored conversation.
Locked == \E p \in Procs : Active(p, "restore")
SharedUnchanged == UNCHANGED <<generation, agent, cur, heap, begun>>

-------------------------------------------------------------------------------
(* Operations read the runtime *)

\* The read lock of captureRunState, or of prepareTransferStreamRuntime and
\* resolveTransferState, whose agent is the transfer's target.
Begin(p, kind, target) ==
  /\ procs[p] = None
  /\ ~Locked
  /\ begun < MaxOps
  /\ begun' = begun + 1
  /\ procs' = [procs EXCEPT ![p] =
       [kind |-> kind, stage |-> "session", generation |-> generation,
        cell |-> cur, agent |-> IF kind = "run" THEN agent ELSE target,
        session |-> NewSession(First), conv |-> NewConversation(First)]]
  /\ UNCHANGED <<generation, agent, cur, heap, store, torn>>

\* resolveTransferStateFrom: the target owns the session, whose metadata takes in
\* that of the request.
Transferred(session, p) ==
  LET op == procs[p]
      n == IF op.kind = "apply" THEN 1 ELSE 0
  IN  [session EXCEPT !.owner = op.agent,
                      !.meta = @ \cup {CallerToken(p, n, session.id)}]

\* A run copies the objects it captured, a transfer those the runtime has now:
\* SessionSnapshot and ConversationSnapshot each read the pointer anew, with the
\* lock.  Of a transfer's two copies at most one thus falls between the two parts of
\* a commit, and shows what it would before the commit or after it.
SourceCell(op) == IF op.kind = "run" THEN op.cell ELSE cur
MayCopy(op) == op.kind = "run" \/ ~Locked

SnapshotSession(p) ==
  /\ Active(p, "session")
  /\ MayCopy(procs[p])
  /\ LET op == procs[p]
     IN  procs' = [procs EXCEPT ![p].stage = "conv",
                                ![p].session = heap[SourceCell(op)].session]
  /\ SharedUnchanged
  /\ UNCHANGED <<store, torn>>

SnapshotConversation(p) ==
  /\ Active(p, "conv")
  /\ MayCopy(procs[p])
  /\ LET op == procs[p]
         source == heap[SourceCell(op)]
     IN  /\ procs' = [procs EXCEPT
              ![p].stage = IF op.kind = "apply" THEN "commit" ELSE "work",
              ![p].session = IF op.kind = "run" THEN @ ELSE Transferred(@, p),
              ![p].conv = IF op.kind = "run" THEN source.conv
                          ELSE [source.conv EXCEPT !.prompt = op.agent]]
         /\ torn' = (torn \/ source.conv.of # op.session.id)
  /\ SharedUnchanged
  /\ UNCHANGED store

-------------------------------------------------------------------------------
(* A turn on the copies, persisted and published *)

\* The messages of the turn, and the transfer it may end with.
Work(p, transfer) ==
  /\ Active(p, "work")
  /\ LET op == procs[p]
         said == [op.conv EXCEPT !.msgs = @ \cup {CallerToken(p, 0, op.session.id)}]
     IN  procs' = [procs EXCEPT ![p] =
           [op EXCEPT
              !.stage = "saveConv",
              !.agent = IF transfer = None THEN @ ELSE transfer,
              !.session.owner = IF transfer = None THEN @ ELSE transfer,
              !.conv = IF transfer = None THEN said
                       ELSE [said EXCEPT !.prompt = transfer]]]
  /\ SharedUnchanged
  /\ UNCHANGED <<store, torn>>

\* The turn fails at any point before it is published.
Fail(p) ==
  /\ procs[p] # None
  /\ procs[p].stage \in {"work", "saveConv", "publish"}
  /\ procs' = [procs EXCEPT ![p] = None]
  /\ SharedUnchanged
  /\ UNCHANGED <<store, torn>>

\* Mutant: the checkpoint follows the runtime to a session loaded meanwhile.
MutantSaveConversation(p) ==
  /\ Active(p, "saveConv")
  /\ store' = [store EXCEPT ![Current.session.id] = procs[p].conv]
  /\ procs' = [procs EXCEPT ![p].stage = "publish"]
  /\ SharedUnchanged
  /\ UNCHANGED torn

\* The checkpoint, under the id of the session the operation copied.
SaveConversation(p) ==
  /\ Active(p, "saveConv")
  /\ store' = [store EXCEPT ![procs[p].session.id] = procs[p].conv]
  /\ procs' = [procs EXCEPT ![p].stage = "publish"]
  /\ SharedUnchanged
  /\ UNCHANGED torn

\* Mutant: whoever is done publishes.
MutantCurrentGeneration(op) == TRUE

CurrentGeneration(op) == op.generation = generation

\* Session.Restore, with the lock, into the object of the runtime.
RestoreSession(p) ==
  /\ heap' = [heap EXCEPT ![cur].session = procs[p].session]
  /\ procs' = [procs EXCEPT ![p].stage = "restore"]

\* publishRunState, or adoptRuntimeState of the child's published state.
Publish(p) ==
  /\ Active(p, "publish")
  /\ ~Locked
  /\ IF CurrentGeneration(procs[p])
     THEN RestoreSession(p)
     ELSE /\ procs' = [procs EXCEPT ![p] = None]
          /\ UNCHANGED heap
  /\ UNCHANGED <<generation, agent, cur, store, torn, begun>>

\* ApplyTransfer, once it has the lock.
CommitTransfer(p) ==
  /\ Active(p, "commit")
  /\ ~Locked
  /\ generation < MaxGen
  /\ generation' = generation + 1
  /\ RestoreSession(p)
  /\ UNCHANGED <<agent, cur, store, torn, begun>>

\* Conversation.Restore; the agent, which only the lock's holder reads, comes with it.
RestoreConversation(p) ==
  /\ Active(p, "restore")
  /\ heap' = [heap EXCEPT ![cur].conv = procs[p].conv]
  /\ agent' = procs[p].agent
  /\ procs' = [procs EXCEPT ![p] = None]
  /\ UNCHANGED <<generation, cur, store, torn, begun>>

-------------------------------------------------------------------------------
(* Mutators *)

Mutate(cell) ==
  /\ ~Locked
  /\ generation < MaxGen
  /\ generation' = generation + 1
  /\ heap' = [heap EXCEPT ![cur] = cell]
  /\ UNCHANGED <<agent, cur, procs, store, torn, begun>>

AppendConversationMessage ==
  Mutate([Current EXCEPT !.conv.msgs = @ \cup {ApiToken(Current.session.id)}])

\* Mutant: the generation is left alone.
MutantClearConversation ==
  /\ ~Locked
  /\ heap' = [heap EXCEPT ![cur].conv.prompt = None, ![cur].conv.msgs = {}]
  /\ UNCHANGED <<generation, agent, cur, procs, store, torn, begun>>

ClearConversation ==
  Mutate([Current EXCEPT !.conv.prompt = None, !.conv.msgs = {}])

SetConversationSystem(a) == Mutate([Current EXCEPT !.conv.prompt = a])

SetSessionMetadata ==
  Mutate([Current EXCEPT !.session.meta = @ \cup {ApiToken(Current.session.id)}])

\* Mutant: the runtime keeps its pointers.
MutantLoadState(s, owner) ==
  /\ ~Locked
  /\ generation < MaxGen
  /\ generation' = generation + 1
  /\ heap' = Append(heap, [NewCell(s) EXCEPT !.session.owner = owner])
  /\ UNCHANGED <<agent, cur, procs, store, torn, begun>>

\* The application loads the state of a session, which another runtime may have
\* left to any agent; agent and tools stay as they are.
LoadState(s, owner) ==
  /\ ~Locked
  /\ generation < MaxGen
  /\ generation' = generation + 1
  /\ heap' = Append(heap,
       [session |-> [NewSession(s) EXCEPT !.owner = owner],
        conv |-> [of |-> s,
                  prompt |-> IF owner = None THEN Root ELSE owner,
                  msgs |-> {ApiToken(s)}]])
  /\ cur' = cur + 1
  /\ UNCHANGED <<agent, procs, store, torn, begun>>

-------------------------------------------------------------------------------
Operation(p) ==
  \/ \E kind \in Kinds, target \in Agents : Begin(p, kind, target)
  \/ SnapshotSession(p) \/ SnapshotConversation(p)
  \/ \E transfer \in Owners : Work(p, transfer)
  \/ Fail(p) \/ SaveConversation(p)
  \/ Publish(p) \/ CommitTransfer(p) \/ RestoreConversation(p)

Mutator ==
  \/ AppendConversationMessage \/ ClearConversation \/ SetSessionMetadata
  \/ \E a \in Agents : SetConversationSystem(a)
  \/ \E s \in SessionIds, owner \in Owners : LoadState(s, owner)

Next == (\E p \in Procs : Operation(p)) \/ Mutator

Spec == Init /\ [][Next]_vars

-------------------------------------------------------------------------------
(* Properties *)

\* Type invariant; the pointers are the newest allocation.
TypeOK ==
  /\ generation \in Nat
  /\ agent \in Agents
  /\ heap \in Seq(Cells)
  /\ cur = Len(heap) /\ cur > 0
  /\ procs \in [Procs -> Operations \cup {None}]
  /\ store \in [SessionIds -> Conversations \cup {None}]
  /\ torn \in BOOLEAN
  /\ begun \in Nat

\* What the application itself has put in a cell and not taken away.
Written(tokens) == {t \in tokens : t.n > 0}
SessionView(session) == <<session.id, Written(session.meta)>>
ApiView(cell) == <<SessionView(cell.session), Written(cell.conv.msgs)>>

\* Between two changes of the generation, whatever runs and transfer streams
\* publish, the runtime keeps the session the application loaded, every message
\* and metadata entry it added, and none that it cleared: a run that read its
\* state before a mutation, in part or whole, never publishes over it.  ApplyTransfer
\* is itself a change of the generation, until it gives the lock back.
Applying(p) == Active(p, "restore") /\ procs[p].kind = "apply"
RetainsMutations ==
  [][generation' = generation /\ ~(\E p \in Procs : Applying(p)) =>
       cur' = cur /\ ApiView(heap'[cur']) = ApiView(heap[cur])]_vars

\* Why a publication loses nothing: while the generation an operation has read is
\* the runtime's, a run's objects are the runtime's, and what a run or a stream
\* has copied shows what the application wrote there, however many other runs
\* publish in between.
UpToDate(op) ==
  /\ op.kind = "run" => op.cell = cur
  /\ op.kind # "apply" /\ op.stage # "session" =>
       SessionView(op.session) = SessionView(Current.session)
  /\ op.kind # "apply" /\ op.stage \notin {"session", "conv"} =>
       Written(op.conv.msgs) = Written(Current.conv.msgs)
Sound(op) ==
  /\ op.generation <= generation
  /\ op.cell \in 1 .. cur
  /\ op.kind = "apply" => op.stage \in {"session", "conv", "commit", "restore"}
  /\ op.stage = "commit" => op.kind = "apply"
  /\ op.kind # "apply" /\ op.stage = "restore" => op.generation = generation
  /\ op.generation = generation => UpToDate(op)
CopiesUpToDate == \A p \in Procs : procs[p] # None => Sound(procs[p])

Belongs(s, tokens) == \A t \in tokens : t.of = s

\* Every message and every metadata entry stays with the session it was written
\* for, in the runtime whenever its lock is free and in the store, unless an operation
\* copied the session of one id and the conversation that goes with another: a run
\* that LoadState overtakes later persists to the session it captured.
SessionsIsolated ==
  /\ \A i \in DOMAIN heap :
       /\ Belongs(heap[i].session.id, heap[i].session.meta)
       /\ ~Locked \/ i < cur => Belongs(heap[i].session.id, heap[i].conv.msgs)
  /\ \A s \in SessionIds : store[s] # None => Belongs(s, store[s].msgs)
IsolatedUnlessTorn == ~torn => SessionsIsolated

\* multiagent-architecture.md: "One session must not leak state into another."
NoLeak == SessionsIsolated

\* multiagent-architecture.md: "Active ownership is persisted in session metadata
\* under active_agent", so a run is served by the owner of the session it read.
ActiveAgent(session) == IF session.owner = None THEN Root ELSE session.owner
RunByOwner ==
  \A p \in Procs :
    Active(p, "work") => procs[p].agent = ActiveAgent(procs[p].session)
===============================================================================
