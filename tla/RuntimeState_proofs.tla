-------------------------- MODULE RuntimeState_proofs --------------------------
(***************************************************************************)
(* For every number of callers, agents, sessions and operations:           *)
(* RuntimeState keeps its types, nothing is published over a mutation that *)
(* the publisher did not see, and no session receives the messages or the  *)
(* metadata of another unless a copy was torn.                             *)
(***************************************************************************)
EXTENDS RuntimeState, TLAPS

(* The inductive invariant, with ApplyAlone below.                         *)
Inv == TypeOK /\ CopiesUpToDate

(* Every operation in progress is a record of the declared shape, and the  *)
(* objects the runtime points to exist.                                    *)
LEMMA OpType ==
  ASSUME TypeOK, NEW p \in Procs, procs[p] # None
  PROVE  procs[p] \in Operations
BY DEF TypeOK

LEMMA CellType ==
  ASSUME TypeOK, NEW i \in 1 .. cur
  PROVE  heap[i] \in Cells
BY DEF TypeOK

(* A message or metadata entry of a run is invisible to the application.   *)
LEMMA RunTokensInvisible ==
  ASSUME NEW S, NEW p, NEW s
  PROVE  Written(S \cup {CallerToken(p, 0, s)}) = Written(S)
BY SMT DEF Written, CallerToken

(* New runtimes hold nothing, and no operation is in progress.             *)
LEMMA InitInv == Init => Inv
<1> SUFFICES ASSUME Init PROVE Inv
  OBVIOUS
<1> USE StateAssumption DEF Init
<1>1. NewCell(First) \in Cells
  BY DEF NewCell, NewSession, NewConversation, Cells, Sessions, Conversations, Owners
<1>2. heap \in Seq(Cells) /\ cur = Len(heap) /\ cur > 0
  BY <1>1
<1>3. TypeOK
  BY <1>2 DEF TypeOK
<1>4. CopiesUpToDate
  BY DEF CopiesUpToDate
<1> QED
  BY <1>3, <1>4 DEF Inv
(* A step that keeps the generation, the pointers and what the application *)
(* wrote keeps the soundness of every operation it does not touch.         *)
LEMMA StableViewKeepsSound ==
  ASSUME NEW p \in Procs, Sound(procs[p]), procs[p]' = procs[p],
         generation' = generation, cur' = cur,
         ApiView(heap'[cur']) = ApiView(heap[cur])
  PROVE  Sound(procs[p])'
BY DEF Sound, UpToDate, Current, ApiView

(* So does a change of the generation: the operation is out of date.       *)
LEMMA NewGenerationKeepsSound ==
  ASSUME TypeOK, NEW p \in Procs, procs[p] # None, Sound(procs[p]),
         procs[p]' = procs[p], procs[p].stage # "restore",
         generation' = generation + 1, cur' \in {cur, cur + 1}
  PROVE  Sound(procs[p])'
<1>1. procs[p].generation \in Nat /\ generation \in Nat
  BY OpType DEF Operations, TypeOK
<1>2. procs[p].cell \in 1 .. cur'
  BY DEF Sound, TypeOK
<1> QED
  BY <1>1, <1>2 DEF Sound

(* The copying steps of an operation.                                      *)
LEMMA BeginInv ==
  ASSUME Inv, NEW p \in Procs, NEW kind \in Kinds, NEW target \in Agents,
         Begin(p, kind, target)
  PROVE  Inv'
<1> USE StateAssumption DEF Inv
<1> DEFINE op == [kind |-> kind, stage |-> "session", generation |-> generation,
                  cell |-> cur, agent |-> IF kind = "run" THEN agent ELSE target,
                  session |-> NewSession(First), conv |-> NewConversation(First)]
<1>1. procs' = [procs EXCEPT ![p] = op]
  BY DEF Begin
<1>2. op \in Operations
  BY DEF TypeOK, Operations, Stages, NewSession, NewConversation, Sessions,
         Conversations, Owners
<1>3. TypeOK'
  BY <1>1, <1>2 DEF TypeOK, Begin
<1>4. ASSUME NEW q \in Procs, procs[q]' # None PROVE Sound(procs[q])'
  <2>1. CASE q = p
    <3>1. procs[q]' = op
      BY <1>1, <2>1 DEF TypeOK
    <3> QED
      BY <3>1 DEF Sound, UpToDate, Begin, TypeOK
  <2>2. CASE q # p
    <3>1. procs[q]' = procs[q]
      BY <1>1, <2>2 DEF TypeOK
    <3>2. Sound(procs[q])
      BY <1>4, <3>1 DEF CopiesUpToDate
    <3> QED
      BY <3>1, <3>2, StableViewKeepsSound DEF Begin
  <2> QED
    BY <2>1, <2>2
<1> QED
  BY <1>3, <1>4 DEF CopiesUpToDate

(* The objects an operation copies from exist.                             *)
LEMMA SourceExists ==
  ASSUME Inv, NEW p \in Procs, procs[p] # None
  PROVE  /\ procs[p] \in Operations
         /\ SourceCell(procs[p]) \in 1 .. cur
         /\ heap[SourceCell(procs[p])] \in Cells
<1>1. procs[p] \in Operations /\ Sound(procs[p])
  BY OpType DEF Inv, CopiesUpToDate
<1>2. SourceCell(procs[p]) \in 1 .. cur
  BY <1>1 DEF SourceCell, Sound, Inv, TypeOK
<1> QED
  BY <1>1, <1>2, CellType DEF Inv

LEMMA SnapshotSessionInv ==
  ASSUME Inv, NEW p \in Procs, SnapshotSession(p)
  PROVE  Inv'
<1> USE DEF Inv
<1> DEFINE op == procs[p]
           copy == [op EXCEPT !.stage = "conv",
                              !.session = heap[SourceCell(op)].session]
<1>1. op \in Operations /\ op # None /\ op.stage = "session" /\ Sound(op)
  BY OpType DEF SnapshotSession, Active, CopiesUpToDate
<1>2. heap[SourceCell(op)] \in Cells
  BY <1>1, SourceExists
<1>3. copy \in Operations
  BY <1>1, <1>2 DEF Operations, Stages, Cells
<1>4. procs' = [procs EXCEPT ![p] = copy]
  BY DEF SnapshotSession
<1>5. TypeOK'
  BY <1>3, <1>4 DEF TypeOK, SnapshotSession, SharedUnchanged
<1>6. ASSUME NEW q \in Procs, procs[q]' # None PROVE Sound(procs[q])'
  <2>1. CASE q = p
    <3>1. procs[q]' = copy
      BY <1>4, <2>1 DEF TypeOK
    <3>2. /\ copy.generation = op.generation /\ copy.cell = op.cell
          /\ copy.kind = op.kind /\ copy.stage = "conv"
          /\ copy.session = heap[SourceCell(op)].session
      BY <1>1 DEF Operations
    <3>3. op.kind = "run" /\ op.generation = generation => op.cell = cur
      BY <1>1 DEF Sound, UpToDate
    <3>4. op.generation = generation => copy.session = Current.session
      BY <3>2, <3>3 DEF SourceCell, Current
    <3> QED
      BY <1>1, <3>1, <3>2, <3>3, <3>4
      DEF Sound, UpToDate, Current, SnapshotSession, SharedUnchanged
  <2>2. CASE q # p
    <3>1. procs[q]' = procs[q]
      BY <1>4, <2>2 DEF TypeOK
    <3>2. Sound(procs[q])
      BY <1>6, <3>1 DEF CopiesUpToDate
    <3> QED
      BY <3>1, <3>2, StableViewKeepsSound DEF SnapshotSession, SharedUnchanged
  <2> QED
    BY <2>1, <2>2
<1> QED
  BY <1>5, <1>6 DEF CopiesUpToDate

LEMMA SnapshotConversationInv ==
  ASSUME Inv, NEW p \in Procs, SnapshotConversation(p)
  PROVE  Inv'
<1> USE DEF Inv
<1> DEFINE op == procs[p]
           source == heap[SourceCell(op)]
           copy == [op EXCEPT
              !.stage = IF op.kind = "apply" THEN "commit" ELSE "work",
              !.session = IF op.kind = "run" THEN @ ELSE Transferred(@, p),
              !.conv = IF op.kind = "run" THEN source.conv
                       ELSE [source.conv EXCEPT !.prompt = op.agent]]
<1>1. op \in Operations /\ op # None /\ op.stage = "conv" /\ Sound(op)
  BY OpType DEF SnapshotConversation, Active, CopiesUpToDate
<1>2. source \in Cells
  BY <1>1, SourceExists
<1>3. Transferred(op.session, p) \in Sessions
  <2> DEFINE token == CallerToken(p, IF op.kind = "apply" THEN 1 ELSE 0, op.session.id)
  <2>1. op.session \in Sessions /\ op.agent \in Owners
    BY <1>1 DEF Operations, Owners
  <2>2. token \in Tokens
    BY <2>1 DEF Tokens, CallerToken, Sessions
  <2>3. op.session.meta \cup {token} \in SUBSET Tokens
    BY <2>1, <2>2 DEF Sessions
  <2>4. Transferred(op.session, p) =
          [op.session EXCEPT !.owner = op.agent, !.meta = op.session.meta \cup {token}]
    BY DEF Transferred
  <2> HIDE DEF token
  <2> QED
    BY <2>1, <2>3, <2>4 DEF Sessions
<1>4. copy \in Operations
  BY <1>1, <1>2, <1>3 DEF Operations, Stages, Cells, Conversations, Owners
<1>5. procs' = [procs EXCEPT ![p] = copy]
  BY DEF SnapshotConversation
<1>6. TypeOK'
  BY <1>4, <1>5 DEF TypeOK, SnapshotConversation, SharedUnchanged
<1>7. ASSUME NEW q \in Procs, procs[q]' # None PROVE Sound(procs[q])'
  <2>1. CASE q = p
    <3>1. procs[q]' = copy
      BY <1>5, <2>1 DEF TypeOK
    <3>2. /\ copy.generation = op.generation /\ copy.cell = op.cell
          /\ copy.kind = op.kind
          /\ copy.stage = IF op.kind = "apply" THEN "commit" ELSE "work"
          /\ copy.conv.msgs = source.conv.msgs
      BY <1>1, <1>2 DEF Operations, Cells, Conversations
    <3>3. op.kind # "apply" => SessionView(copy.session) = SessionView(op.session)
      <4>1. CASE op.kind = "run"
        BY <1>1, <4>1 DEF Operations
      <4>2. CASE op.kind = "stream"
        <5>1. copy.session = Transferred(op.session, p)
          BY <1>1, <4>2 DEF Operations
        <5>2. /\ copy.session.id = op.session.id
              /\ copy.session.meta =
                   op.session.meta \cup {CallerToken(p, 0, op.session.id)}
          BY <1>1, <4>2, <5>1 DEF Transferred, Operations, Sessions
        <5> QED
          BY <5>2, RunTokensInvisible DEF SessionView
      <4> QED
        BY <4>1, <4>2, <1>1 DEF Operations, Kinds
    <3>4. op.kind = "run" /\ op.generation = generation => op.cell = cur
      BY <1>1 DEF Sound, UpToDate
    <3>5. op.generation = generation => source = Current
      BY <3>4 DEF SourceCell, Current
    <3>6. op.generation = generation /\ op.kind # "apply" =>
            SessionView(op.session) = SessionView(Current.session)
      BY <1>1 DEF Sound, UpToDate
    <3>7. UNCHANGED <<generation, cur, heap>>
      BY DEF SnapshotConversation, SharedUnchanged
    <3>8. /\ copy.generation <= generation
          /\ copy.cell \in 1 .. cur
          /\ copy.kind = "apply" => copy.stage = "commit"
          /\ copy.kind # "apply" => copy.stage = "work"
      BY <1>1, <3>2 DEF Sound
    <3>9. copy.generation = generation => UpToDate(copy)
      BY <3>2, <3>3, <3>4, <3>5, <3>6 DEF UpToDate
    <3> HIDE DEF copy
    <3> QED
      BY <3>1, <3>7, <3>8, <3>9 DEF Sound, UpToDate, Current
  <2>2. CASE q # p
    <3>1. procs[q]' = procs[q]
      BY <1>5, <2>2 DEF TypeOK
    <3>2. Sound(procs[q])
      BY <1>7, <3>1 DEF CopiesUpToDate
    <3> QED
      BY <3>1, <3>2, StableViewKeepsSound DEF SnapshotConversation, SharedUnchanged
  <2> QED
    BY <2>1, <2>2
<1> QED
  BY <1>6, <1>7 DEF CopiesUpToDate

(* A turn on the copies only adds what runs write.                         *)
LEMMA WorkInv ==
  ASSUME Inv, NEW p \in Procs, NEW transfer \in Owners, Work(p, transfer)
  PROVE  Inv'
<1> USE DEF Inv
<1> DEFINE op == procs[p]
           token == CallerToken(p, 0, op.session.id)
           said == [op.conv EXCEPT !.msgs = @ \cup {token}]
           next == [op EXCEPT
              !.stage = "saveConv",
              !.agent = IF transfer = None THEN @ ELSE transfer,
              !.session.owner = IF transfer = None THEN @ ELSE transfer,
              !.conv = IF transfer = None THEN said
                       ELSE [said EXCEPT !.prompt = transfer]]
<1>1. op \in Operations /\ op # None /\ op.stage = "work" /\ Sound(op)
  BY OpType DEF Work, Active, CopiesUpToDate
<1>2. op.session \in Sessions /\ op.conv \in Conversations
  BY <1>1 DEF Operations
<1>3. token \in Tokens
  BY <1>2 DEF Tokens, CallerToken, Sessions
<1>4. said \in Conversations /\ said.msgs = op.conv.msgs \cup {token}
  BY <1>2, <1>3 DEF Conversations
<1>5. transfer # None => transfer \in Agents
  BY DEF Owners
<1>6. next \in Operations
  <2> HIDE DEF token, said
  <2> QED
    BY <1>1, <1>2, <1>4, <1>5 DEF Operations, Stages, Conversations, Sessions
<1>7. procs' = [procs EXCEPT ![p] = next]
  BY DEF Work
<1>8. TypeOK'
  BY <1>6, <1>7 DEF TypeOK, Work, SharedUnchanged
<1>9. ASSUME NEW q \in Procs, procs[q]' # None PROVE Sound(procs[q])'
  <2>1. CASE q = p
    <3>1. procs[q]' = next
      BY <1>7, <2>1 DEF TypeOK
    <3>2. /\ next.generation = op.generation /\ next.cell = op.cell
          /\ next.kind = op.kind /\ next.stage = "saveConv"
          /\ next.session.id = op.session.id /\ next.session.meta = op.session.meta
          /\ next.conv.msgs = op.conv.msgs \cup {token}
      <4> HIDE DEF token, said
      <4> QED
        BY <1>1, <1>2, <1>4 DEF Operations, Sessions, Conversations
    <3>3. Written(next.conv.msgs) = Written(op.conv.msgs)
      BY <3>2, RunTokensInvisible
    <3>4. SessionView(next.session) = SessionView(op.session)
      BY <3>2 DEF SessionView
    <3>5. op.kind # "apply"
      BY <1>1 DEF Sound
    <3>6. UNCHANGED <<generation, cur, heap>>
      BY DEF Work, SharedUnchanged
    <3>7. Sound(next)
      <4> HIDE DEF next
      <4> QED
        BY <1>1, <3>2, <3>3, <3>4, <3>5 DEF Sound, UpToDate
    <3> HIDE DEF next
    <3> QED
      BY <3>1, <3>6, <3>7 DEF Sound, UpToDate, Current
  <2>2. CASE q # p
    <3>1. procs[q]' = procs[q]
      BY <1>7, <2>2 DEF TypeOK
    <3>2. Sound(procs[q])
      BY <1>9, <3>1 DEF CopiesUpToDate
    <3> QED
      BY <3>1, <3>2, StableViewKeepsSound DEF Work, SharedUnchanged
  <2> QED
    BY <2>1, <2>2
<1> QED
  BY <1>8, <1>9 DEF CopiesUpToDate

LEMMA SaveConversationInv ==
  ASSUME Inv, NEW p \in Procs, SaveConversation(p)
  PROVE  Inv'
<1> USE DEF Inv
<1> DEFINE op == procs[p]
           next == [op EXCEPT !.stage = "publish"]
<1>1. op \in Operations /\ op # None /\ op.stage = "saveConv" /\ Sound(op)
  BY OpType DEF SaveConversation, Active, CopiesUpToDate
<1>2. next \in Operations
  BY <1>1 DEF Operations, Stages
<1>3. procs' = [procs EXCEPT ![p] = next]
  BY DEF SaveConversation
<1>4. TypeOK'
  BY <1>1, <1>2, <1>3 DEF TypeOK, SaveConversation, SharedUnchanged, Operations
<1>5. ASSUME NEW q \in Procs, procs[q]' # None PROVE Sound(procs[q])'
  <2>1. CASE q = p
    <3>1. procs[q]' = next
      BY <1>3, <2>1 DEF TypeOK
    <3>2. /\ next.generation = op.generation /\ next.cell = op.cell
          /\ next.kind = op.kind /\ next.stage = "publish"
          /\ next.session = op.session /\ next.conv = op.conv
      BY <1>1 DEF Operations
    <3>3. UNCHANGED <<generation, cur, heap>>
      BY DEF SaveConversation, SharedUnchanged
    <3>4. Sound(next)
      BY <1>1, <3>2 DEF Sound, UpToDate
    <3> HIDE DEF next
    <3> QED
      BY <3>1, <3>3, <3>4 DEF Sound, UpToDate, Current
  <2>2. CASE q # p
    <3>1. procs[q]' = procs[q]
      BY <1>3, <2>2 DEF TypeOK
    <3>2. Sound(procs[q])
      BY <1>5, <3>1 DEF CopiesUpToDate
    <3> QED
      BY <3>1, <3>2, StableViewKeepsSound DEF SaveConversation, SharedUnchanged
  <2> QED
    BY <2>1, <2>2
<1> QED
  BY <1>4, <1>5 DEF CopiesUpToDate

LEMMA FailInv ==
  ASSUME Inv, NEW p \in Procs, Fail(p)
  PROVE  Inv'
<1> USE DEF Inv
<1>1. TypeOK'
  BY DEF TypeOK, Fail, SharedUnchanged
<1>2. ASSUME NEW q \in Procs, procs[q]' # None PROVE Sound(procs[q])'
  <2>1. q # p /\ procs[q]' = procs[q]
    BY <1>2 DEF Fail, TypeOK
  <2>2. Sound(procs[q])
    BY <1>2, <2>1 DEF CopiesUpToDate
  <2> QED
    BY <2>1, <2>2, StableViewKeepsSound DEF Fail, SharedUnchanged
<1> QED
  BY <1>1, <1>2 DEF CopiesUpToDate

(* The heart of the argument: at its own generation a run or a stream      *)
(* restores a session, and then a conversation, that show what the         *)
(* application wrote in the current ones; at any other it restores nothing.*)
LEMMA PublishKeepsView ==
  ASSUME Inv, NEW p \in Procs, Publish(p)
  PROVE  /\ generation' = generation /\ cur' = cur
         /\ ApiView(heap'[cur']) = ApiView(heap[cur])
<1> DEFINE op == procs[p]
<1>1. op \in Operations /\ op # None /\ op.stage = "publish" /\ Sound(op)
  BY OpType DEF Publish, Active, CopiesUpToDate, Inv
<1>2. generation' = generation /\ cur' = cur
  BY DEF Publish
<1>3. CASE CurrentGeneration(op)
  <2>1. heap' = [heap EXCEPT ![cur].session = op.session]
    BY <1>3 DEF Publish, RestoreSession
  <2>2. cur \in DOMAIN heap /\ heap[cur] \in Cells
    BY DEF Inv, TypeOK
  <2>3. heap'[cur].session = op.session /\ heap'[cur].conv = heap[cur].conv
    BY <2>1, <2>2 DEF Cells
  <2>4. UpToDate(op) /\ op.kind # "apply"
    BY <1>1, <1>3 DEF Sound, CurrentGeneration
  <2>5. SessionView(op.session) = SessionView(Current.session)
    BY <1>1, <2>4 DEF UpToDate
  <2> QED
    BY <1>2, <2>3, <2>5 DEF ApiView, Current
<1>4. CASE ~CurrentGeneration(op)
  BY <1>2, <1>4 DEF Publish
<1> QED
  BY <1>2, <1>3, <1>4

LEMMA RestoreKeepsView ==
  ASSUME Inv, NEW p \in Procs, RestoreConversation(p), ~Applying(p)
  PROVE  /\ generation' = generation /\ cur' = cur
         /\ ApiView(heap'[cur']) = ApiView(heap[cur])
<1> DEFINE op == procs[p]
<1>1. op \in Operations /\ op # None /\ op.stage = "restore" /\ Sound(op)
  BY OpType DEF RestoreConversation, Active, CopiesUpToDate, Inv
<1>2. generation' = generation /\ cur' = cur
  BY DEF RestoreConversation
<1>3. heap' = [heap EXCEPT ![cur].conv = op.conv]
  BY DEF RestoreConversation
<1>4. cur \in DOMAIN heap /\ heap[cur] \in Cells
  BY DEF Inv, TypeOK
<1>5. heap'[cur].session = heap[cur].session /\ heap'[cur].conv = op.conv
  BY <1>3, <1>4 DEF Cells
<1>6. op.kind # "apply"
  BY <1>1 DEF Applying, Active
<1>7. UpToDate(op)
  BY <1>1, <1>6 DEF Sound
<1>8. Written(op.conv.msgs) = Written(Current.conv.msgs)
  BY <1>1, <1>6, <1>7 DEF UpToDate
<1> QED
  BY <1>2, <1>5, <1>8 DEF ApiView, Current

(* The first half of a commit.                                             *)
LEMMA RestoreSessionType ==
  ASSUME TypeOK, NEW p \in Procs, procs[p] # None, RestoreSession(p)
  PROVE  /\ heap' \in Seq(Cells) /\ Len(heap') = Len(heap)
         /\ procs' \in [Procs -> Operations \cup {None}]
         /\ procs' = [procs EXCEPT ![p] = [procs[p] EXCEPT !.stage = "restore"]]
         /\ [procs[p] EXCEPT !.stage = "restore"] \in Operations
<1>1. procs[p] \in Operations
  BY OpType
<1>2. cur \in DOMAIN heap /\ heap[cur] \in Cells
  BY DEF TypeOK
<1>3. [heap[cur] EXCEPT !.session = procs[p].session] \in Cells
  BY <1>1, <1>2 DEF Cells, Operations
<1>4. heap' = [heap EXCEPT ![cur] = [heap[cur] EXCEPT !.session = procs[p].session]]
  BY DEF RestoreSession
<1>5. heap' \in Seq(Cells) /\ Len(heap') = Len(heap)
  BY <1>2, <1>3, <1>4 DEF TypeOK
<1>6. [procs[p] EXCEPT !.stage = "restore"] \in Operations
  BY <1>1 DEF Operations, Stages
<1>7. procs' = [procs EXCEPT ![p] = [procs[p] EXCEPT !.stage = "restore"]]
  BY DEF RestoreSession
<1> QED
  BY <1>5, <1>6, <1>7 DEF TypeOK

LEMMA PublishInv ==
  ASSUME Inv, NEW p \in Procs, Publish(p)
  PROVE  Inv'
<1> USE DEF Inv
<1> DEFINE op == procs[p]
           next == [op EXCEPT !.stage = "restore"]
<1>1. op \in Operations /\ op # None /\ op.stage = "publish" /\ Sound(op)
  BY OpType DEF Publish, Active, CopiesUpToDate
<1>2. TypeOK'
  <2>1. CASE CurrentGeneration(op)
    BY <1>1, <2>1, RestoreSessionType DEF Publish, TypeOK
  <2>2. CASE ~CurrentGeneration(op)
    BY <2>2 DEF Publish, TypeOK
  <2> QED
    BY <2>1, <2>2
<1>3. ASSUME NEW q \in Procs, procs[q]' # None PROVE Sound(procs[q])'
  <2>1. CASE q # p
    <3>1. procs[q]' = procs[q]
      BY <2>1 DEF Publish, RestoreSession, TypeOK
    <3>2. Sound(procs[q])
      BY <1>3, <3>1 DEF CopiesUpToDate
    <3> QED
      BY <3>1, <3>2, StableViewKeepsSound, PublishKeepsView
  <2>2. CASE q = p
    <3>1. CurrentGeneration(op)
      BY <1>3, <2>2 DEF Publish, TypeOK
    <3>2. procs[q]' = next
      BY <1>1, <2>2, <3>1, RestoreSessionType DEF Publish, TypeOK
    <3>3. /\ next.generation = op.generation /\ next.cell = op.cell
          /\ next.kind = op.kind /\ next.stage = "restore"
          /\ next.session = op.session /\ next.conv = op.conv
      BY <1>1 DEF Operations
    <3>4. op.generation = generation /\ op.kind # "apply" /\ UpToDate(op)
      BY <1>1, <3>1 DEF Sound, CurrentGeneration
    <3>5. /\ SessionView(Current.session)' = SessionView(Current.session)
          /\ Written(Current.conv.msgs)' = Written(Current.conv.msgs)
      BY PublishKeepsView DEF ApiView, Current
    <3>6. generation' = generation /\ cur' = cur
      BY DEF Publish
    <3>7. /\ op.generation <= generation /\ op.cell \in 1 .. cur
          /\ op.kind = "run" => op.cell = cur
          /\ SessionView(op.session) = SessionView(Current.session)
          /\ Written(op.conv.msgs) = Written(Current.conv.msgs)
      BY <1>1, <3>4 DEF Sound, UpToDate
    <3> HIDE DEF next
    <3> QED
      BY <3>2, <3>3, <3>4, <3>5, <3>6, <3>7 DEF Sound, UpToDate
  <2> QED
    BY <2>1, <2>2
<1> QED
  BY <1>2, <1>3 DEF CopiesUpToDate

(* While ApplyTransfer holds the lock every other operation has read an    *)
(* older generation, so that what it restores contradicts no copy.         *)
ApplyAlone ==
  \A p, q \in Procs :
    Applying(p) /\ procs[q] # None /\ procs[q].kind # "apply" =>
      procs[q].generation # generation

LEMMA RestoreConversationInv ==
  ASSUME Inv, ApplyAlone, NEW p \in Procs, RestoreConversation(p)
  PROVE  Inv'
<1> USE DEF Inv
<1> DEFINE op == procs[p]
           cell == [heap[cur] EXCEPT !.conv = op.conv]
<1>1. op \in Operations
  BY OpType DEF RestoreConversation, Active
<1>2. cur \in DOMAIN heap /\ heap[cur] \in Cells
  BY DEF TypeOK
<1>3. cell \in Cells /\ op.agent \in Agents
  BY <1>1, <1>2 DEF Cells, Operations
<1>4. heap' = [heap EXCEPT ![cur] = cell] /\ agent' = op.agent
  BY DEF RestoreConversation
<1>5. heap' \in Seq(Cells) /\ Len(heap') = Len(heap) /\ agent' \in Agents
  <2> HIDE DEF cell
  <2> QED
    BY <1>2, <1>3, <1>4 DEF TypeOK
<1>6. TypeOK'
  BY <1>5 DEF TypeOK, RestoreConversation
<1>7. ASSUME NEW q \in Procs, procs[q]' # None PROVE Sound(procs[q])'
  <2>1. q # p /\ procs[q]' = procs[q]
    BY <1>7 DEF RestoreConversation, TypeOK
  <2>2. Sound(procs[q])
    BY <1>7, <2>1 DEF CopiesUpToDate
  <2>3. CASE ~Applying(p)
    BY <2>1, <2>2, <2>3, StableViewKeepsSound, RestoreKeepsView
  <2>4. CASE Applying(p)
    <3>1. procs[q].kind # "apply" => procs[q].generation # generation
      BY <1>7, <2>1, <2>4 DEF ApplyAlone
    <3>2. generation' = generation /\ cur' = cur
      BY DEF RestoreConversation
    <3> QED
      BY <2>1, <2>2, <3>1, <3>2 DEF Sound, UpToDate
  <2> QED
    BY <2>3, <2>4
<1> QED
  BY <1>6, <1>7 DEF CopiesUpToDate

(* A step of one operation that keeps its kind and its generation.         *)
LEMMA StepKeepsApplyAlone ==
  ASSUME TypeOK, ApplyAlone, NEW p \in Procs, NEW next,
         procs' = [procs EXCEPT ![p] = next], generation' = generation,
         next # None => /\ procs[p] # None
                        /\ next.kind = procs[p].kind
                        /\ next.generation = procs[p].generation
                        /\ next.kind # "apply" \/ next.stage # "restore"
  PROVE  ApplyAlone'
BY DEF ApplyAlone, Applying, Active, TypeOK

LEMMA ApplyAloneNext ==
  ASSUME Inv, ApplyAlone, [Next]_vars
  PROVE  ApplyAlone'
<1> USE DEF Inv
<1>1. CASE UNCHANGED vars
  BY <1>1 DEF vars, ApplyAlone, Applying, Active
<1>2. ASSUME UNCHANGED procs, ~Locked PROVE ApplyAlone'
  BY <1>2 DEF ApplyAlone, Applying, Active, Locked
<1>3. CASE Mutator
  BY <1>2, <1>3 DEF Mutator, AppendConversationMessage, ClearConversation,
     SetSessionMetadata, SetConversationSystem, LoadState, Mutate
<1>4. ASSUME NEW p \in Procs, Operation(p) PROVE ApplyAlone'
  <2>1. ASSUME NEW kind \in Kinds, NEW target \in Agents, Begin(p, kind, target)
        PROVE  ApplyAlone'
    <3>1. \A q \in Procs : ~Active(q, "restore")
      BY <2>1 DEF Begin, Locked
    <3>2. \A q \in Procs : ~Applying(q)'
      BY <2>1, <3>1 DEF Begin, Applying, Active, TypeOK
    <3> QED
      BY <3>2 DEF ApplyAlone
  <2>2. CASE SnapshotSession(p)
    BY <2>2, StepKeepsApplyAlone, OpType
    DEF SnapshotSession, SharedUnchanged, Active, Operations
  <2>3. CASE SnapshotConversation(p)
    <3> DEFINE next == procs'[p]
    <3>1. procs[p] \in Operations /\ procs[p] # None
      BY <2>3, OpType DEF SnapshotConversation, Active
    <3>2. /\ next.kind = procs[p].kind /\ next.generation = procs[p].generation
          /\ next.stage # "restore"
      BY <2>3, <3>1 DEF SnapshotConversation, Operations, TypeOK
    <3>3. procs' = [procs EXCEPT ![p] = next] /\ generation' = generation
      BY <2>3 DEF SnapshotConversation, SharedUnchanged, TypeOK
    <3> HIDE DEF next
    <3> QED
      BY <3>1, <3>2, <3>3, StepKeepsApplyAlone
  <2>4. ASSUME NEW transfer \in Owners, Work(p, transfer) PROVE ApplyAlone'
    BY <2>4, StepKeepsApplyAlone, OpType DEF Work, SharedUnchanged, Active, Operations
  <2>5. CASE Fail(p)
    BY <2>5, StepKeepsApplyAlone DEF Fail, SharedUnchanged
  <2>6. CASE SaveConversation(p)
    BY <2>6, StepKeepsApplyAlone, OpType
    DEF SaveConversation, SharedUnchanged, Active, Operations
  <2>7. CASE Publish(p)
    <3>1. procs[p] \in Operations /\ procs[p] # None /\ procs[p].kind # "apply"
      BY <2>7, OpType DEF Publish, Active, CopiesUpToDate, Sound
    <3>2. CASE CurrentGeneration(procs[p])
      <4> DEFINE next == [procs[p] EXCEPT !.stage = "restore"]
      <4>1. /\ next.kind = procs[p].kind /\ next.generation = procs[p].generation
        BY <3>1 DEF Operations
      <4>2. procs' = [procs EXCEPT ![p] = next] /\ generation' = generation
        BY <2>7, <3>2 DEF Publish, RestoreSession
      <4> HIDE DEF next
      <4> QED
        BY <3>1, <4>1, <4>2, StepKeepsApplyAlone
    <3>3. CASE ~CurrentGeneration(procs[p])
      BY <2>7, <3>3, StepKeepsApplyAlone DEF Publish
    <3> QED
      BY <3>2, <3>3
  <2>8. CASE CommitTransfer(p)
    <3>1. ASSUME NEW q \in Procs, procs'[q] # None, procs'[q].kind # "apply"
          PROVE  procs'[q].generation # generation'
      <4>1. /\ procs[p] \in Operations /\ procs[p].kind = "apply" /\ procs[p] # None
        BY <2>8, OpType DEF CommitTransfer, Active, CopiesUpToDate, Sound
      <4>2. procs'[p].kind = "apply"
        BY <2>8, <4>1 DEF CommitTransfer, RestoreSession, TypeOK, Operations
      <4>3. procs'[q] = procs[q]
        BY <2>8, <3>1, <4>2 DEF CommitTransfer, RestoreSession, TypeOK
      <4>4. procs[q] \in Operations /\ procs[q].generation <= generation
        BY <3>1, <4>3, OpType DEF CopiesUpToDate, Sound
      <4> QED
        BY <2>8, <4>3, <4>4 DEF CommitTransfer, TypeOK, Operations
    <3> QED
      BY <3>1 DEF ApplyAlone
  <2>9. CASE RestoreConversation(p)
    BY <2>9, StepKeepsApplyAlone DEF RestoreConversation
  <2> QED
    BY <1>4, <2>1, <2>2, <2>3, <2>4, <2>5, <2>6, <2>7, <2>8, <2>9 DEF Operation
<1> QED
  BY <1>1, <1>3, <1>4 DEF Next

(* Transfers of the application and mutators leave every operation out of  *)
(* date, so that they only have to keep the types.                         *)
LEMMA NewGenerationInv ==
  ASSUME Inv, TypeOK', generation' = generation + 1, cur' \in {cur, cur + 1},
         UNCHANGED procs, ~Locked
  PROVE  Inv'
<1>1. ASSUME NEW q \in Procs, procs[q]' # None PROVE Sound(procs[q])'
  <2>1. procs[q]' = procs[q] /\ procs[q].stage # "restore"
    BY <1>1 DEF Locked, Active
  <2>2. Sound(procs[q]) /\ procs[q] # None
    BY <1>1, <2>1 DEF Inv, CopiesUpToDate
  <2> QED
    BY <2>1, <2>2, NewGenerationKeepsSound DEF Inv
<1> QED
  BY <1>1 DEF Inv, CopiesUpToDate

LEMMA CommitTransferInv ==
  ASSUME Inv, NEW p \in Procs, CommitTransfer(p)
  PROVE  Inv'
<1> USE DEF Inv
<1> DEFINE op == procs[p]
           next == [op EXCEPT !.stage = "restore"]
<1>1. op \in Operations /\ op # None /\ op.stage = "commit" /\ Sound(op)
  BY OpType DEF CommitTransfer, Active, CopiesUpToDate
<1>2. /\ TypeOK'
      /\ next \in Operations
      /\ procs' = [procs EXCEPT ![p] = next]
  BY <1>1, RestoreSessionType DEF CommitTransfer, TypeOK
<1>3. ASSUME NEW q \in Procs, procs[q]' # None PROVE Sound(procs[q])'
  <2>1. CASE q # p
    <3>1. procs[q]' = procs[q]
      BY <1>2, <2>1 DEF TypeOK
    <3>2. Sound(procs[q]) /\ procs[q] # None
      BY <1>3, <3>1 DEF CopiesUpToDate
    <3>3. procs[q].stage # "restore"
      BY <3>2 DEF CommitTransfer, Locked, Active
    <3> QED
      BY <3>1, <3>2, <3>3, NewGenerationKeepsSound DEF CommitTransfer
  <2>2. CASE q = p
    <3>1. procs[q]' = next
      BY <1>2, <2>2 DEF TypeOK
    <3>2. /\ next.generation = op.generation /\ next.cell = op.cell
          /\ next.kind = op.kind /\ next.stage = "restore"
          /\ op.generation \in Nat
      BY <1>1 DEF Operations
    <3>3. /\ op.generation <= generation /\ op.cell \in 1 .. cur /\ op.kind = "apply"
      BY <1>1 DEF Sound
    <3>4. generation' = generation + 1 /\ cur' = cur /\ generation \in Nat
      BY DEF CommitTransfer, TypeOK
    <3> HIDE DEF next
    <3> QED
      BY <3>1, <3>2, <3>3, <3>4 DEF Sound
  <2> QED
    BY <2>1, <2>2
<1> QED
  BY <1>2, <1>3 DEF CopiesUpToDate

LEMMA MutateInv ==
  ASSUME Inv, NEW cell \in Cells, Mutate(cell)
  PROVE  Inv'
<1>1. heap' \in Seq(Cells) /\ Len(heap') = Len(heap)
  BY DEF Mutate, TypeOK, Inv
<1>2. TypeOK'
  BY <1>1 DEF TypeOK, Mutate, Inv
<1> QED
  BY <1>2, NewGenerationInv DEF Mutate

(* Each mutator writes a session and a conversation.                       *)
LEMMA MutatorInv ==
  ASSUME Inv, Mutator
  PROVE  Inv'
<1> USE StateAssumption
<1> DEFINE token == ApiToken(Current.session.id)
<1>1. /\ Current \in Cells
      /\ Current.session \in Sessions /\ Current.conv \in Conversations
  <2>1. cur \in 1 .. cur
    BY DEF Inv, TypeOK
  <2> QED
    BY <2>1, CellType DEF Inv, Current, Cells
<1>2. token \in Tokens
  BY <1>1 DEF ApiToken, Tokens, Sessions, Inv, TypeOK
<1>3. CASE AppendConversationMessage
  <2>1. [Current EXCEPT !.conv.msgs = @ \cup {token}] \in Cells
    <3> HIDE DEF token
    <3> QED
      BY <1>1, <1>2 DEF Cells, Conversations
  <2> QED
    BY <1>3, <2>1, MutateInv DEF AppendConversationMessage
<1>4. CASE ClearConversation
  <2>1. [Current EXCEPT !.conv.prompt = None, !.conv.msgs = {}] \in Cells
    BY <1>1 DEF Cells, Conversations, Owners
  <2> QED
    BY <1>4, <2>1, MutateInv DEF ClearConversation
<1>5. CASE SetSessionMetadata
  <2>1. [Current EXCEPT !.session.meta = @ \cup {token}] \in Cells
    <3> HIDE DEF token
    <3> QED
      BY <1>1, <1>2 DEF Cells, Sessions
  <2> QED
    BY <1>5, <2>1, MutateInv DEF SetSessionMetadata
<1>6. ASSUME NEW a \in Agents, SetConversationSystem(a) PROVE Inv'
  <2>1. [Current EXCEPT !.conv.prompt = a] \in Cells
    BY <1>1 DEF Cells, Conversations, Owners
  <2> QED
    BY <1>6, <2>1, MutateInv DEF SetConversationSystem
<1>7. ASSUME NEW s \in SessionIds, NEW owner \in Owners, LoadState(s, owner)
      PROVE  Inv'
  <2> DEFINE cell ==
        [session |-> [NewSession(s) EXCEPT !.owner = owner],
         conv |-> [of |-> s, prompt |-> IF owner = None THEN Root ELSE owner,
                   msgs |-> {ApiToken(s)}]]
  <2>1. ApiToken(s) \in Tokens
    BY DEF ApiToken, Tokens, Inv, TypeOK
  <2>2. cell \in Cells
    BY <2>1 DEF Cells, Sessions, Conversations, NewSession, Owners
  <2>3. heap' = Append(heap, cell)
    BY <1>7 DEF LoadState
  <2>4. heap' \in Seq(Cells) /\ Len(heap') = Len(heap) + 1
    <3> HIDE DEF cell
    <3> QED
      BY <2>2, <2>3 DEF Inv, TypeOK
  <2>5. TypeOK'
    BY <1>7, <2>4 DEF TypeOK, LoadState, Inv
  <2> QED
    BY <1>7, <2>5, NewGenerationInv DEF LoadState
<1> QED
  BY <1>3, <1>4, <1>5, <1>6, <1>7 DEF Mutator

LEMMA NextInv == Inv /\ ApplyAlone /\ [Next]_vars => Inv'
<1> SUFFICES ASSUME Inv, ApplyAlone, [Next]_vars PROVE Inv'
  OBVIOUS
<1>1. ASSUME NEW p \in Procs, Operation(p) PROVE Inv'
  BY <1>1, BeginInv, SnapshotSessionInv, SnapshotConversationInv, WorkInv, FailInv,
     SaveConversationInv, PublishInv, CommitTransferInv, RestoreConversationInv
  DEF Operation
<1>2. CASE Mutator
  BY <1>2, MutatorInv
<1>3. CASE UNCHANGED vars
  BY <1>3 DEF vars, Inv, TypeOK, CopiesUpToDate, Sound, UpToDate, Current
<1> QED
  BY <1>1, <1>2, <1>3 DEF Next

LEMMA SpecInv == Spec => [](Inv /\ ApplyAlone)
<1>1. Init => ApplyAlone
  BY StateAssumption DEF Init, ApplyAlone, Applying, Active
<1>2. Inv /\ ApplyAlone /\ [Next]_vars => ApplyAlone'
  BY ApplyAloneNext
<1> QED
  BY <1>1, <1>2, InitInv, NextInv, PTL DEF Spec

(* The runtime's pointers always name the newest objects and every value   *)
(* has its type, for any number of callers.                                *)
THEOREM TypeCorrect == Spec => []TypeOK
BY SpecInv, PTL DEF Inv

(* While the generation a run or a transfer stream has read is current,    *)
(* its copies show what the application wrote in the runtime's objects.    *)
THEOREM CopiesStayUpToDate == Spec => []CopiesUpToDate
BY SpecInv, PTL DEF Inv

(* A step that leaves the generation alone leaves alone what the           *)
(* application wrote.                                                      *)
LEMMA StepRetains ==
  Inv /\ [Next]_vars =>
    [generation' = generation /\ ~(\E p \in Procs : Applying(p)) =>
       cur' = cur /\ ApiView(heap'[cur']) = ApiView(heap[cur])]_vars
<1> SUFFICES ASSUME Inv, Next, generation' = generation,
                    \A p \in Procs : ~Applying(p)
             PROVE  cur' = cur /\ ApiView(heap'[cur']) = ApiView(heap[cur])
  OBVIOUS
<1>1. ~Mutator
  <2>1. generation' # generation + 1
    BY DEF Inv, TypeOK
  <2>2. \A cell : ~Mutate(cell)
    BY <2>1 DEF Mutate
  <2>3. \A s \in SessionIds, owner \in Owners : ~LoadState(s, owner)
    BY <2>1 DEF LoadState
  <2> QED
    BY <2>2, <2>3
    DEF Mutator, AppendConversationMessage, ClearConversation, SetSessionMetadata,
        SetConversationSystem
<1>2. PICK p \in Procs : Operation(p)
  BY <1>1 DEF Next
<1>3. ~CommitTransfer(p)
  BY DEF CommitTransfer, Inv, TypeOK
<1>4. CASE Publish(p)
  BY <1>4, PublishKeepsView
<1>5. CASE RestoreConversation(p)
  BY <1>5, RestoreKeepsView
<1>6. CASE ~Publish(p) /\ ~RestoreConversation(p)
  BY <1>2, <1>3, <1>6
  DEF Operation, Begin, SnapshotSession, SnapshotConversation, Work, Fail,
      SaveConversation, SharedUnchanged
<1> QED
  BY <1>4, <1>5, <1>6

(* publishRunState and adoptRuntimeState never undo what the application   *)
(* did to the session since the publisher read it, however the reads of    *)
(* the run's capture interleave with mutators and other publications.      *)
THEOREM MutationsRetained == Spec => RetainsMutations
BY SpecInv, StepRetains, PTL DEF Spec, RetainsMutations

-------------------------------------------------------------------------------
(* Isolation of sessions.                                                  *)

(* What an operation has copied belongs to the session it is going to      *)
(* write it for.                                                           *)
CopyIsolated(op) ==
  /\ Belongs(op.session.id, op.session.meta)
  /\ op.stage \notin {"session", "conv"} =>
       op.conv.of = op.session.id /\ Belongs(op.session.id, op.conv.msgs)
CopiesIsolated == \A p \in Procs : procs[p] # None => CopyIsolated(procs[p])

(* What is in an object belongs to the session it goes with, which is the  *)
(* session beside it unless a commit is between the two.                   *)
CellIsolated(cell) ==
  /\ Belongs(cell.session.id, cell.session.meta)
  /\ Belongs(cell.conv.of, cell.conv.msgs)
Whole(cell) == cell.conv.of = cell.session.id
ObjectsIsolated ==
  /\ \A i \in DOMAIN heap :
       CellIsolated(heap[i]) /\ (~Locked \/ i < cur => Whole(heap[i]))
  /\ \A s \in SessionIds : store[s] # None => Belongs(s, store[s].msgs)
  /\ \A p \in Procs :
       Active(p, "restore") => Current.session.id = procs[p].session.id

(* The inductive invariant: nothing crosses over before a copy is torn.    *)
Isolation == ~torn => ObjectsIsolated /\ CopiesIsolated

LEMMA BelongsAdd ==
  ASSUME NEW s, NEW S, Belongs(s, S), NEW t, t.of = s
  PROVE  Belongs(s, S \cup {t})
BY DEF Belongs

(* The objects of a cell belong each to its session.                       *)
LEMMA ObjectIsolated ==
  ASSUME Inv, ObjectsIsolated, NEW i \in 1 .. cur
  PROVE  /\ Belongs(heap[i].session.id, heap[i].session.meta)
         /\ Belongs(heap[i].conv.of, heap[i].conv.msgs)
         /\ ~Locked => heap[i].conv.of = heap[i].session.id
<1>1. i \in DOMAIN heap
  BY DEF Inv, TypeOK
<1> QED
  BY <1>1 DEF ObjectsIsolated, CellIsolated, Whole

LEMMA InitIsolation == Init => Isolation
<1> SUFFICES ASSUME Init PROVE ObjectsIsolated /\ CopiesIsolated
  BY DEF Isolation
<1> USE StateAssumption DEF Init
<1>1. ObjectsIsolated
  BY DEF ObjectsIsolated, CellIsolated, Whole, Belongs, NewCell, NewSession,
         NewConversation, Active
<1>2. CopiesIsolated
  BY DEF CopiesIsolated
<1> QED
  BY <1>1, <1>2

(* A step that writes one copy and leaves the objects, the store and the   *)
(* lock alone.                                                             *)
LEMMA CopyKeepsIsolation ==
  ASSUME Inv, ObjectsIsolated, CopiesIsolated, UNCHANGED <<heap, cur, store>>,
         NEW p \in Procs, ~Active(p, "restore"),
         NEW copy, copy # None => CopyIsolated(copy) /\ copy.stage # "restore",
         procs' = [procs EXCEPT ![p] = copy]
  PROVE  ObjectsIsolated' /\ CopiesIsolated'
<1>1. \A q \in Procs : procs'[q] = IF q = p THEN copy ELSE procs[q]
  BY DEF Inv, TypeOK
<1>2. \A q \in Procs : Active(q, "restore")' <=> Active(q, "restore")
  BY <1>1 DEF Active
<1>3. Locked' <=> Locked
  BY <1>2 DEF Locked
<1>4. \A q \in Procs : Active(q, "restore") => procs'[q] = procs[q]
  BY <1>1
<1>5. ObjectsIsolated'
  BY <1>2, <1>3, <1>4 DEF ObjectsIsolated, Current
<1>6. CopiesIsolated'
  BY <1>1 DEF CopiesIsolated
<1> QED
  BY <1>5, <1>6

LEMMA BeginIsolation ==
  ASSUME Inv, ObjectsIsolated, CopiesIsolated, NEW p \in Procs, NEW kind \in Kinds,
         NEW target \in Agents, Begin(p, kind, target)
  PROVE  ObjectsIsolated' /\ CopiesIsolated'
<1> DEFINE op == [kind |-> kind, stage |-> "session", generation |-> generation,
                  cell |-> cur, agent |-> IF kind = "run" THEN agent ELSE target,
                  session |-> NewSession(First), conv |-> NewConversation(First)]
<1>1. CopyIsolated(op)
  BY DEF CopyIsolated, Belongs, NewSession
<1>2. procs' = [procs EXCEPT ![p] = op] /\ UNCHANGED <<heap, cur, store>>
  BY DEF Begin
<1>3. op.stage # "restore" /\ ~Active(p, "restore")
  BY DEF Begin, Active
<1> HIDE DEF op
<1> QED
  BY <1>1, <1>2, <1>3, CopyKeepsIsolation

(* The session and its metadata are copied together.                       *)
LEMMA SnapshotSessionIsolation ==
  ASSUME Inv, ObjectsIsolated, CopiesIsolated, NEW p \in Procs, SnapshotSession(p)
  PROVE  ObjectsIsolated' /\ CopiesIsolated'
<1> DEFINE op == procs[p]
           source == heap[SourceCell(op)]
           copy == [op EXCEPT !.stage = "conv", !.session = source.session]
<1>1. op \in Operations /\ SourceCell(op) \in 1 .. cur
  BY SourceExists DEF SnapshotSession, Active
<1>2. Belongs(source.session.id, source.session.meta)
  BY <1>1, ObjectIsolated
<1>3. CopyIsolated(copy)
  BY <1>1, <1>2 DEF CopyIsolated, Operations
<1>4. procs' = [procs EXCEPT ![p] = copy] /\ UNCHANGED <<heap, cur, store>>
  BY DEF SnapshotSession, SharedUnchanged
<1>5. copy.stage # "restore" /\ ~Active(p, "restore")
  BY <1>1 DEF SnapshotSession, Active, Operations
<1> HIDE DEF copy
<1> QED
  BY <1>3, <1>4, <1>5, CopyKeepsIsolation

(* A conversation that is not torn off is the one of the session copied.   *)
LEMMA SnapshotConversationIsolation ==
  ASSUME Inv, ObjectsIsolated, CopiesIsolated, NEW p \in Procs,
         SnapshotConversation(p), ~torn'
  PROVE  ObjectsIsolated' /\ CopiesIsolated'
<1> DEFINE op == procs[p]
           source == heap[SourceCell(op)]
           session == IF op.kind = "run" THEN op.session ELSE Transferred(op.session, p)
           copy == [op EXCEPT
              !.stage = IF op.kind = "apply" THEN "commit" ELSE "work",
              !.session = IF op.kind = "run" THEN @ ELSE Transferred(@, p),
              !.conv = IF op.kind = "run" THEN source.conv
                       ELSE [source.conv EXCEPT !.prompt = op.agent]]
<1>1. op \in Operations /\ op # None /\ SourceCell(op) \in 1 .. cur /\ source \in Cells
  BY SourceExists DEF SnapshotConversation, Active
<1>2. source.conv.of = op.session.id
  <2>1. torn' = (torn \/ source.conv.of # op.session.id)
    BY DEF SnapshotConversation
  <2> QED
    BY <2>1, Zenon
<1>3. Belongs(op.session.id, source.conv.msgs)
  <2>1. Belongs(source.conv.of, source.conv.msgs)
    BY <1>1, ObjectIsolated
  <2> QED
    BY <1>2, <2>1
<1>4. session.id = op.session.id /\ Belongs(op.session.id, session.meta)
  <2> DEFINE token == CallerToken(p, IF op.kind = "apply" THEN 1 ELSE 0, op.session.id)
  <2>1. Belongs(op.session.id, op.session.meta)
    BY <1>1 DEF CopiesIsolated, CopyIsolated
  <2>2. token.of = op.session.id
    BY DEF CallerToken
  <2>3. Belongs(op.session.id, op.session.meta \cup {token})
    <3> HIDE DEF token
    <3> QED
      BY <2>1, <2>2, BelongsAdd
  <2>4. Transferred(op.session, p) =
          [op.session EXCEPT !.owner = op.agent, !.meta = op.session.meta \cup {token}]
    BY DEF Transferred
  <2>5. op.session \in Sessions
    BY <1>1 DEF Operations
  <2> HIDE DEF token
  <2>6. /\ Transferred(op.session, p).id = op.session.id
        /\ Transferred(op.session, p).meta = op.session.meta \cup {token}
    BY <2>4, <2>5 DEF Sessions
  <2> QED
    BY <2>1, <2>3, <2>6
<1>5. /\ copy.session = session
      /\ copy.conv.msgs = source.conv.msgs /\ copy.conv.of = source.conv.of
  BY <1>1 DEF Operations, Cells, Conversations
<1>6. CopyIsolated(copy)
  <2> HIDE DEF copy, session
  <2> QED
    BY <1>2, <1>3, <1>4, <1>5 DEF CopyIsolated
<1>7. procs' = [procs EXCEPT ![p] = copy] /\ UNCHANGED <<heap, cur, store>>
  BY DEF SnapshotConversation, SharedUnchanged
<1>8. copy.stage # "restore" /\ ~Active(p, "restore")
  BY <1>1 DEF SnapshotConversation, Active, Operations
<1> HIDE DEF copy
<1> QED
  BY <1>6, <1>7, <1>8, CopyKeepsIsolation

(* A turn speaks for the session it has copied, also when it transfers.    *)
LEMMA WorkIsolation ==
  ASSUME Inv, ObjectsIsolated, CopiesIsolated, NEW p \in Procs, NEW transfer \in Owners,
         Work(p, transfer)
  PROVE  ObjectsIsolated' /\ CopiesIsolated'
<1> DEFINE op == procs[p]
           token == CallerToken(p, 0, op.session.id)
           said == [op.conv EXCEPT !.msgs = @ \cup {token}]
           next == [op EXCEPT
              !.stage = "saveConv",
              !.agent = IF transfer = None THEN @ ELSE transfer,
              !.session.owner = IF transfer = None THEN @ ELSE transfer,
              !.conv = IF transfer = None THEN said
                       ELSE [said EXCEPT !.prompt = transfer]]
<1>1. op \in Operations /\ op # None /\ op.stage = "work"
  BY OpType DEF Work, Active, Inv
<1>2. op.session \in Sessions /\ op.conv \in Conversations
  BY <1>1 DEF Operations
<1>3. /\ Belongs(op.session.id, op.session.meta)
      /\ op.conv.of = op.session.id /\ Belongs(op.session.id, op.conv.msgs)
  BY <1>1 DEF CopiesIsolated, CopyIsolated
<1>4. token.of = op.session.id
  BY DEF CallerToken
<1>5. procs' = [procs EXCEPT ![p] = next] /\ UNCHANGED <<heap, cur, store>>
  BY DEF Work, SharedUnchanged
<1>6. /\ next.session.id = op.session.id /\ next.session.meta = op.session.meta
      /\ next.conv.msgs = op.conv.msgs \cup {token} /\ next.conv.of = op.conv.of
      /\ next.stage = "saveConv"
  <2> HIDE DEF token
  <2> QED
    BY <1>1, <1>2 DEF Operations, Sessions, Conversations
<1>7. CopyIsolated(next)
  <2> HIDE DEF next, token
  <2> QED
    BY <1>3, <1>4, <1>6, BelongsAdd DEF CopyIsolated
<1>8. ~Active(p, "restore")
  BY <1>1 DEF Active
<1> HIDE DEF next
<1> QED
  BY <1>5, <1>6, <1>7, <1>8, CopyKeepsIsolation

LEMMA SaveConversationIsolation ==
  ASSUME Inv, ObjectsIsolated, CopiesIsolated, NEW p \in Procs, SaveConversation(p)
  PROVE  ObjectsIsolated' /\ CopiesIsolated'
<1> DEFINE op == procs[p]
           next == [op EXCEPT !.stage = "publish"]
<1>1. op \in Operations /\ op # None /\ op.stage = "saveConv"
  BY OpType DEF SaveConversation, Active, Inv
<1>2. CopyIsolated(op)
  BY <1>1 DEF CopiesIsolated
<1>3. CopyIsolated(next)
  BY <1>1, <1>2 DEF CopyIsolated, Operations
<1>4. procs' = [procs EXCEPT ![p] = next] /\ UNCHANGED <<heap, cur>>
  BY DEF SaveConversation, SharedUnchanged
<1>5. ASSUME NEW s \in SessionIds, store'[s] # None PROVE Belongs(s, store'[s].msgs)
  <2>1. store' = [store EXCEPT ![op.session.id] = op.conv]
    BY DEF SaveConversation
  <2>2. CASE s = op.session.id
    BY <1>1, <1>2, <2>1, <2>2 DEF CopyIsolated, Inv, TypeOK
  <2>3. CASE s # op.session.id
    BY <1>5, <2>1, <2>3 DEF ObjectsIsolated, Inv, TypeOK
  <2> QED
    BY <2>2, <2>3
<1>6. \A q \in Procs : procs'[q] = IF q = p THEN next ELSE procs[q]
  BY <1>4 DEF Inv, TypeOK
<1>7. next.stage = "publish"
  BY <1>1 DEF Operations
<1>8. /\ \A q \in Procs : Active(q, "restore")' <=> Active(q, "restore")
      /\ \A q \in Procs : Active(q, "restore") => procs'[q] = procs[q]
  <2> HIDE DEF next
  <2> QED
    BY <1>1, <1>6, <1>7 DEF Active
<1>9. Locked' <=> Locked
  BY <1>8 DEF Locked
<1>10. ObjectsIsolated'
  BY <1>4, <1>5, <1>8, <1>9 DEF ObjectsIsolated, Current
<1>11. CopiesIsolated'
  <2> HIDE DEF next
  <2> QED
    BY <1>3, <1>6 DEF CopiesIsolated
<1> QED
  BY <1>10, <1>11

(* A mutator that writes the runtime's objects.                            *)
LEMMA CellKeepsIsolation ==
  ASSUME Inv, ObjectsIsolated, CopiesIsolated, ~Locked, NEW cell,
         CellIsolated(cell), Whole(cell),
         heap' = [heap EXCEPT ![cur] = cell], UNCHANGED <<cur, store, procs>>
  PROVE  ObjectsIsolated' /\ CopiesIsolated'
<1>1. heap \in Seq(Cells) /\ DOMAIN heap' = DOMAIN heap
  BY DEF Inv, TypeOK
<1>2. ASSUME NEW i \in DOMAIN heap
      PROVE  CellIsolated(heap'[i]) /\ Whole(heap'[i])
  <2>1. heap'[i] = IF i = cur THEN cell ELSE heap[i]
    BY <1>1, <1>2
  <2> QED
    BY <1>2, <2>1 DEF ObjectsIsolated
<1>3. \A q \in Procs : ~Active(q, "restore")'
  BY DEF Locked, Active
<1>4. ObjectsIsolated'
  BY <1>1, <1>2, <1>3 DEF ObjectsIsolated
<1>5. CopiesIsolated'
  BY DEF CopiesIsolated
<1> QED
  BY <1>4, <1>5

(* The first half of a commit writes the session the operation has copied; *)
(* until the second half the conversation beside it may be another's.      *)
LEMMA RestoreSessionIsolation ==
  ASSUME Inv, ObjectsIsolated, CopiesIsolated, NEW p \in Procs, procs[p] # None,
         procs[p].stage \in {"publish", "commit"}, ~Locked, RestoreSession(p),
         UNCHANGED <<cur, store>>
  PROVE  ObjectsIsolated' /\ CopiesIsolated'
<1> DEFINE op == procs[p]
           next == [op EXCEPT !.stage = "restore"]
           cell == [heap[cur] EXCEPT !.session = op.session]
<1>1. op \in Operations /\ CopyIsolated(op)
  BY OpType DEF Inv, CopiesIsolated
<1>2. heap \in Seq(Cells) /\ cur \in DOMAIN heap /\ cur = Len(heap)
  BY DEF Inv, TypeOK
<1>3. heap' = [heap EXCEPT ![cur] = cell]
  BY DEF RestoreSession
<1>4. cell.session = op.session /\ cell.conv = heap[cur].conv
  BY <1>2 DEF Cells
<1>5. CellIsolated(cell)
  <2>1. CellIsolated(heap[cur])
    BY <1>2 DEF ObjectsIsolated
  <2> HIDE DEF cell
  <2> QED
    BY <1>1, <1>4, <2>1 DEF CellIsolated, CopyIsolated
<1>6. ASSUME NEW i \in DOMAIN heap'
      PROVE  CellIsolated(heap'[i]) /\ (i < cur => Whole(heap'[i]))
  <2> HIDE DEF cell
  <2>1. i \in DOMAIN heap /\ heap'[i] = IF i = cur THEN cell ELSE heap[i]
    BY <1>2, <1>3, <1>6
  <2>2. i # cur => CellIsolated(heap'[i]) /\ Whole(heap'[i])
    BY <2>1 DEF ObjectsIsolated
  <2>3. i = cur => CellIsolated(heap'[i]) /\ ~(i < cur)
    BY <1>2, <1>5, <2>1
  <2> QED
    BY <2>2, <2>3
<1>7. /\ \A q \in Procs : procs'[q] = IF q = p THEN next ELSE procs[q]
      /\ next.session = op.session /\ next.conv = op.conv /\ next.stage = "restore"
      /\ next # None => CopyIsolated(next)
  BY <1>1 DEF RestoreSession, Inv, TypeOK, Operations, CopyIsolated
<1>9. ASSUME NEW q \in Procs, Active(q, "restore")'
      PROVE  Current'.session.id = procs'[q].session.id
  <2>1. q = p
    BY <1>7, <1>9 DEF Active, Locked
  <2>2. Current' = cell
    <3> HIDE DEF cell
    <3> QED
      BY <1>2, <1>3 DEF Current
  <2> HIDE DEF cell, next
  <2> QED
    BY <1>4, <1>7, <2>1, <2>2
<1>10. Active(p, "restore")'
  <2>1. procs'[p] = next
    BY <1>7
  <2>2. next # None
    BY <1>1, OperationAssumption, RestoreSessionType DEF Inv
  <2> HIDE DEF next
  <2> QED
    BY <1>7, <2>1, <2>2 DEF Active
<1>11. Locked'
  BY <1>10 DEF Locked
<1>12. ObjectsIsolated'
  BY <1>6, <1>9, <1>11 DEF ObjectsIsolated
<1>13. CopiesIsolated'
  <2> HIDE DEF next
  <2> QED
    BY <1>7 DEF CopiesIsolated
<1> QED
  BY <1>12, <1>13

(* The second half writes the conversation that goes with it.              *)
LEMMA RestoreConversationIsolation ==
  ASSUME Inv, ObjectsIsolated, CopiesIsolated, NEW p \in Procs, RestoreConversation(p)
  PROVE  ObjectsIsolated' /\ CopiesIsolated'
<1> DEFINE op == procs[p]
           cell == [heap[cur] EXCEPT !.conv = op.conv]
<1>1. op # None /\ op.stage = "restore" /\ CopyIsolated(op)
  BY DEF RestoreConversation, Active, CopiesIsolated
<1>2. heap \in Seq(Cells) /\ cur \in DOMAIN heap /\ cur = Len(heap)
  BY DEF Inv, TypeOK
<1>3. heap' = [heap EXCEPT ![cur] = cell] /\ UNCHANGED <<cur, store>>
  BY DEF RestoreConversation
<1>4. cell.session = heap[cur].session /\ cell.conv = op.conv
  BY <1>2 DEF Cells
<1>5. heap[cur].session.id = op.session.id
  BY <1>1 DEF ObjectsIsolated, Active, Current
<1>6. CellIsolated(cell) /\ Whole(cell)
  <2>1. CellIsolated(heap[cur])
    BY <1>2 DEF ObjectsIsolated
  <2> HIDE DEF cell
  <2> QED
    BY <1>1, <1>4, <1>5, <2>1 DEF CellIsolated, CopyIsolated, Whole
<1>7. ASSUME NEW i \in DOMAIN heap'
      PROVE  CellIsolated(heap'[i]) /\ Whole(heap'[i])
  <2> HIDE DEF cell
  <2>1. i \in DOMAIN heap /\ heap'[i] = IF i = cur THEN cell ELSE heap[i]
    BY <1>2, <1>3, <1>7
  <2>2. i # cur => i < cur
    BY <1>2, <2>1
  <2> QED
    BY <1>6, <2>1, <2>2 DEF ObjectsIsolated
<1>8. \A q \in Procs : procs'[q] = IF q = p THEN None ELSE procs[q]
  BY DEF RestoreConversation, Inv, TypeOK
<1>9. ASSUME NEW q \in Procs, Active(q, "restore")'
      PROVE  Current'.session.id = procs'[q].session.id
  <2>1. Active(q, "restore") /\ procs'[q] = procs[q]
    BY <1>8, <1>9 DEF Active
  <2>2. Current'.session.id = Current.session.id
    <3> HIDE DEF cell
    <3> QED
      BY <1>2, <1>3, <1>4 DEF Current
  <2> QED
    BY <2>1, <2>2 DEF ObjectsIsolated
<1>10. ObjectsIsolated'
  BY <1>3, <1>7, <1>9 DEF ObjectsIsolated
<1>11. CopiesIsolated'
  BY <1>8 DEF CopiesIsolated
<1> QED
  BY <1>10, <1>11

LEMMA EndIsolation ==
  ASSUME Inv, ObjectsIsolated, CopiesIsolated, NEW p \in Procs,
         Fail(p) \/ Publish(p) \/ CommitTransfer(p)
  PROVE  ObjectsIsolated' /\ CopiesIsolated'
<1>1. CASE Fail(p)
  BY <1>1, CopyKeepsIsolation DEF Fail, SharedUnchanged, Active
<1>2. CASE Publish(p)
  <2>1. CASE CurrentGeneration(procs[p])
    BY <1>2, <2>1, RestoreSessionIsolation DEF Publish, Active
  <2>2. CASE ~CurrentGeneration(procs[p])
    BY <1>2, <2>2, CopyKeepsIsolation DEF Publish, Active
  <2> QED
    BY <2>1, <2>2
<1>3. CASE CommitTransfer(p)
  BY <1>3, RestoreSessionIsolation DEF CommitTransfer, Active
<1> QED
  BY <1>1, <1>2, <1>3

LEMMA MutatorIsolation ==
  ASSUME Inv, ObjectsIsolated, CopiesIsolated, Mutator
  PROVE  ObjectsIsolated' /\ CopiesIsolated'
<1> DEFINE token == ApiToken(Current.session.id)
           s0 == Current.session.id
<1>1. /\ Current \in Cells
      /\ Current.session \in Sessions /\ Current.conv \in Conversations
  <2>1. cur \in 1 .. cur
    BY DEF Inv, TypeOK
  <2> QED
    BY <2>1, CellType DEF Inv, Current, Cells
<1>2. token.of = s0
  BY DEF ApiToken
<1>3. ~Locked => /\ Belongs(s0, Current.session.meta)
                 /\ Current.conv.of = s0 /\ Belongs(s0, Current.conv.msgs)
  <2>1. cur \in 1 .. cur
    BY DEF Inv, TypeOK
  <2> QED
    BY <2>1, ObjectIsolated DEF Current
<1>4. ASSUME NEW cell, Mutate(cell),
             ~Locked => /\ cell.session.id = s0 /\ cell.conv.of = s0
                        /\ Belongs(s0, cell.conv.msgs) /\ Belongs(s0, cell.session.meta)
      PROVE  ObjectsIsolated' /\ CopiesIsolated'
  <2>1. ~Locked /\ CellIsolated(cell) /\ Whole(cell)
    BY <1>4 DEF Mutate, CellIsolated, Whole
  <2> QED
    BY <1>4, <2>1, CellKeepsIsolation DEF Mutate
<1>5. CASE AppendConversationMessage
  <2> DEFINE cell == [Current EXCEPT !.conv.msgs = @ \cup {token}]
  <2>1. ~Locked => Belongs(s0, Current.conv.msgs \cup {token})
    <3> HIDE DEF token, s0
    <3> QED
      BY <1>2, <1>3, BelongsAdd
  <2>2. /\ cell.session = Current.session /\ cell.conv.of = Current.conv.of
        /\ cell.conv.msgs = Current.conv.msgs \cup {token}
    <3> HIDE DEF token
    <3> QED
      BY <1>1 DEF Cells, Conversations
  <2> QED
    BY <1>3, <1>4, <1>5, <2>1, <2>2 DEF AppendConversationMessage
<1>6. CASE ClearConversation
  <2> DEFINE cell == [Current EXCEPT !.conv.prompt = None, !.conv.msgs = {}]
  <2>1. /\ cell.session = Current.session /\ cell.conv.of = Current.conv.of
        /\ cell.conv.msgs = {}
    BY <1>1 DEF Cells, Conversations
  <2>2. Belongs(s0, {})
    BY DEF Belongs
  <2> QED
    BY <1>3, <1>4, <1>6, <2>1, <2>2 DEF ClearConversation
<1>7. CASE SetSessionMetadata
  <2> DEFINE cell == [Current EXCEPT !.session.meta = @ \cup {token}]
  <2>1. ~Locked => Belongs(s0, Current.session.meta \cup {token})
    <3> HIDE DEF token, s0
    <3> QED
      BY <1>2, <1>3, BelongsAdd
  <2>2. /\ cell.session.id = s0 /\ cell.conv = Current.conv
        /\ cell.session.meta = Current.session.meta \cup {token}
    <3> HIDE DEF token
    <3> QED
      BY <1>1 DEF Cells, Sessions
  <2> QED
    BY <1>3, <1>4, <1>7, <2>1, <2>2 DEF SetSessionMetadata
<1>8. ASSUME NEW a \in Agents, SetConversationSystem(a)
      PROVE  ObjectsIsolated' /\ CopiesIsolated'
  <2> DEFINE cell == [Current EXCEPT !.conv.prompt = a]
  <2>1. /\ cell.session = Current.session /\ cell.conv.of = Current.conv.of
        /\ cell.conv.msgs = Current.conv.msgs
    BY <1>1 DEF Cells, Conversations
  <2> QED
    BY <1>3, <1>4, <1>8, <2>1 DEF SetConversationSystem
<1>9. ASSUME NEW s \in SessionIds, NEW owner \in Owners, LoadState(s, owner)
      PROVE  ObjectsIsolated' /\ CopiesIsolated'
  <2> DEFINE cell ==
        [session |-> [NewSession(s) EXCEPT !.owner = owner],
         conv |-> [of |-> s, prompt |-> IF owner = None THEN Root ELSE owner,
                   msgs |-> {ApiToken(s)}]]
  <2>1. CellIsolated(cell) /\ Whole(cell)
    BY DEF CellIsolated, Whole, Belongs, ApiToken, NewSession
  <2>2. heap' = Append(heap, cell) /\ UNCHANGED <<procs, store>> /\ ~Locked
    BY <1>9 DEF LoadState
  <2> HIDE DEF cell
  <2>3. heap \in Seq(Cells)
    BY DEF Inv, TypeOK
  <2>4. ASSUME NEW i \in DOMAIN heap'
        PROVE  heap'[i] = cell \/ (i \in DOMAIN heap /\ heap'[i] = heap[i])
    BY <2>2, <2>3
  <2>5. ASSUME NEW i \in DOMAIN heap' PROVE CellIsolated(heap'[i]) /\ Whole(heap'[i])
    BY <2>1, <2>2, <2>4, <2>5 DEF ObjectsIsolated
  <2>6. \A q \in Procs : ~Active(q, "restore")'
    BY <2>2 DEF Locked, Active
  <2>7. ObjectsIsolated'
    BY <2>2, <2>5, <2>6 DEF ObjectsIsolated
  <2> QED
    BY <2>2, <2>7 DEF CopiesIsolated
<1> QED
  BY <1>5, <1>6, <1>7, <1>8, <1>9 DEF Mutator

LEMMA NextIsolation == Inv /\ Isolation /\ [Next]_vars => Isolation'
<1> SUFFICES ASSUME Inv, Isolation, [Next]_vars, ~torn'
             PROVE  ObjectsIsolated' /\ CopiesIsolated'
  BY DEF Isolation
<1>1. ASSUME NEW p \in Procs, Operation(p) PROVE ObjectsIsolated' /\ CopiesIsolated'
  <2>1. ObjectsIsolated /\ CopiesIsolated
    <3>1. ~torn
      BY <1>1 DEF Operation, Begin, SnapshotSession, SnapshotConversation, Work, Fail,
         SaveConversation, Publish, CommitTransfer, RestoreConversation
    <3> QED
      BY <3>1 DEF Isolation
  <2> QED
    BY <1>1, <2>1, BeginIsolation, SnapshotSessionIsolation,
       SnapshotConversationIsolation, WorkIsolation, SaveConversationIsolation,
       EndIsolation, RestoreConversationIsolation
    DEF Operation
<1>2. CASE Mutator
  <2>1. ObjectsIsolated /\ CopiesIsolated
    <3>1. ~torn
      BY <1>2 DEF Mutator, AppendConversationMessage, ClearConversation,
         SetSessionMetadata, SetConversationSystem, LoadState, Mutate
    <3> QED
      BY <3>1 DEF Isolation
  <2> QED
    BY <1>2, <2>1, MutatorIsolation
<1>3. CASE UNCHANGED vars
  BY <1>3 DEF vars, Isolation, ObjectsIsolated, CopiesIsolated, Current, Locked, Active
<1> QED
  BY <1>1, <1>2, <1>3 DEF Next

(* Messages and metadata stay with the session they were written for, in   *)
(* the runtime and in the store, in every order of captures, mutators,     *)
(* loads, checkpoints and publications in which no operation copied the    *)
(* session of one id and the conversation of another.                      *)
THEOREM SessionsStayIsolated == Spec => []IsolatedUnlessTorn
<1>1. Isolation => IsolatedUnlessTorn
  <2>1. ObjectsIsolated => SessionsIsolated
    BY DEF ObjectsIsolated, SessionsIsolated, CellIsolated, Whole
  <2> QED
    BY <2>1 DEF Isolation, IsolatedUnlessTorn
<1> QED
  BY <1>1, SpecInv, InitIsolation, NextIsolation, PTL DEF Spec
===============================================================================
