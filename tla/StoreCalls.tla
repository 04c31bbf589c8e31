------------------------------ MODULE StoreCalls ------------------------------
(***************************************************************************)
(* The calls of the interface store.ConversationStore, shared by the       *)
(* abstract store and by its implementations: who calls, on which          *)
(* conversation, with which messages.                                      *)
(***************************************************************************)
EXTENDS Naturals, Sequences

CONSTANTS
  Callers,   \* goroutines that use the store
  Convs,     \* conversation ids
  Batches,   \* the message lists a caller passes to Save and Append
  Nobody     \* no caller: a free lock

ASSUME StoreCallsAssumption == Nobody \notin Callers /\ Convs # {} /\ <<>> \in Batches

ConversationOps == {"save", "load", "append", "delete"}
SessionOps == {"saveSession", "deleteSession"}
WithMessages == {"save", "append"}

\* A call; the operations without a message list carry the empty one.
StoreCall(ops) == {r \in [op : ops, conv : Convs, msgs : Batches] :
                     r.op \in WithMessages \/ r.msgs = <<>>}

\* What an operation makes of the messages a conversation has; they go with
\* the session they belong to.
After(r, stored) ==
  CASE r.op = "save"   -> r.msgs
    [] r.op = "append" -> stored \o r.msgs
    [] r.op \in {"delete", "deleteSession"} -> <<>>
    [] OTHER           -> stored

Outcome == {"none", "pending", "ok", "failed"}
===============================================================================
