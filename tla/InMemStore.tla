------------------------------- MODULE InMemStore -------------------------------
(***************************************************************************)
(* store/inmem.ConversationStore: a map under a read-write lock, whose     *)
(* bodies are single steps because nothing in them waits.  What can go     *)
(* wrong is sharing: a message holds its tool inputs by reference, callers *)
(* may change theirs at any time, and the copies taken on the way in and   *)
(* on the way out must keep the stored ones apart.  A message is modelled  *)
(* by the cell its tool input lives in.                                    *)
(***************************************************************************)
EXTENDS StoreCalls

CONSTANTS
  Inputs,    \* the values a tool input can have
  MaxCells   \* bound on the cells a behaviour allocates

ASSUME InMemAssumption == Batches \subseteq Seq(Inputs) /\ MaxCells \in Nat

VARIABLES
  cells,      \* the heap: the value in each cell
  kept,       \* s.store: the cells of each conversation's messages
  held,       \* the cells of the messages a caller has passed or received
  memCall, memOutcome, memAnswer

memVars == <<cells, kept, held, memCall, memOutcome, memAnswer>>

Values(refs) == [i \in 1..Len(refs) |-> cells[refs[i]]]

\* The cells a step allocates, after those in use.
Fresh(n) == [i \in 1..n |-> Len(cells) + i]

MemInit ==
  /\ cells = <<>>
  /\ kept = [c \in Convs |-> <<>>]
  /\ held = [p \in Callers |-> <<>>]
  /\ memCall = [p \in Callers |-> CHOOSE r \in StoreCall({"load"}) : TRUE]
  /\ memOutcome = [p \in Callers |-> "none"]
  /\ memAnswer = [p \in Callers |-> <<>>]

\* A caller builds its messages and calls.
MemInvoke(p, r) ==
  /\ memOutcome[p] # "pending"
  /\ Len(cells) + Len(r.msgs) <= MaxCells
  /\ held' = [held EXCEPT ![p] = Fresh(Len(r.msgs))]
  /\ cells' = cells \o r.msgs
  /\ memCall' = [memCall EXCEPT ![p] = r]
  /\ memOutcome' = [memOutcome EXCEPT ![p] = "pending"]
  /\ memAnswer' = [memAnswer EXCEPT ![p] = <<>>]
  /\ UNCHANGED kept

\* cloneMessages: new cells with the same values.
Cloned(refs) == Fresh(Len(refs))

MemReturn(p, result, found) ==
  /\ memOutcome' = [memOutcome EXCEPT ![p] = result]
  /\ memAnswer' = [memAnswer EXCEPT ![p] = found]
  /\ UNCHANGED memCall

MemWrite(p) ==
  LET c == memCall[p].conv
      copies == Cloned(held[p])
  IN
  /\ memOutcome[p] = "pending"
  /\ memCall[p].op # "load"
  /\ Len(cells) + Len(held[p]) <= MaxCells
  /\ cells' = cells \o Values(held[p])
  /\ kept' = [kept EXCEPT ![c] =
       CASE memCall[p].op = "save"   -> copies
         [] memCall[p].op = "append" -> @ \o copies
         [] memCall[p].op = "delete" -> <<>>]
  /\ MemReturn(p, "ok", <<>>)
  /\ UNCHANGED held

\* Mutant: Load hands out the stored messages themselves.
MutantMemLoad(p) ==
  LET stored == kept[memCall[p].conv] IN
  /\ memOutcome[p] = "pending"
  /\ memCall[p].op = "load"
  /\ held' = [held EXCEPT ![p] = stored]
  /\ MemReturn(p, "ok", Values(stored))
  /\ UNCHANGED <<cells, kept>>

MemLoad(p) ==
  LET stored == kept[memCall[p].conv] IN
  /\ memOutcome[p] = "pending"
  /\ memCall[p].op = "load"
  /\ Len(cells) + Len(stored) <= MaxCells
  /\ cells' = cells \o Values(stored)
  /\ held' = [held EXCEPT ![p] = Cloned(stored)]
  /\ MemReturn(p, "ok", Values(stored))
  /\ UNCHANGED kept

\* The context has ended at one of the two checks.
MemRefuse(p) ==
  /\ memOutcome[p] = "pending"
  /\ MemReturn(p, "failed", <<>>)
  /\ UNCHANGED <<cells, kept, held>>

\* Between its calls a caller changes a tool input it has passed or received.
CallerWrites(p, i, v) ==
  /\ memOutcome[p] # "pending"
  /\ i \in 1..Len(held[p])
  /\ cells' = [cells EXCEPT ![held[p][i]] = v]
  /\ UNCHANGED <<kept, held, memCall, memOutcome, memAnswer>>

MemNext ==
  \/ \E p \in Callers, r \in StoreCall(ConversationOps) : MemInvoke(p, r)
  \/ \E p \in Callers : MemWrite(p) \/ MemLoad(p) \/ MemRefuse(p)
  \/ \E p \in Callers, i \in 1..MaxCells, v \in Inputs : CallerWrites(p, i, v)

MemSpec == MemInit /\ [][MemNext]_memVars

-------------------------------------------------------------------------------

MemAbstract == INSTANCE ConversationStore WITH
  contents <- [c \in Convs |-> Values(kept[c])],
  request <- memCall, outcome <- memOutcome, answer <- memAnswer,
  Operations <- ConversationOps, FailureIsClean <- TRUE

\* What is stored changes by Save, Append and Delete only, whatever callers do
\* to the messages they passed or received.
MemImplementsStore == MemAbstract!StoreSpec
===============================================================================
