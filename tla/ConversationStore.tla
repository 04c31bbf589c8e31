--------------------------- MODULE ConversationStore ---------------------------
(***************************************************************************)
(* What a store.ConversationStore promises its callers: an operation takes *)
(* effect at one moment between its call and its return, entirely or not   *)
(* at all, and at most once.  One that reports success has taken effect.   *)
(* One that reports failure has not, or, where the store cannot know       *)
(* (FailureIsClean is FALSE), it may have.                                 *)
(***************************************************************************)
EXTENDS StoreCalls

CONSTANTS
  Operations,      \* the operations the store offers
  FailureIsClean   \* a call that failed has changed nothing

VARIABLES
  contents,  \* the messages of each conversation
  request,   \* the call each caller has made last
  outcome,   \* how it stands
  answer     \* what its Load has returned

storeVars == <<contents, request, outcome, answer>>

StoreInit ==
  /\ contents = [c \in Convs |-> <<>>]
  /\ outcome = [p \in Callers |-> "none"]
  /\ answer = [p \in Callers |-> <<>>]
  /\ request \in [Callers -> StoreCall(Operations)]

Invoke(p, r) ==
  /\ outcome[p] # "pending"
  /\ request' = [request EXCEPT ![p] = r]
  /\ outcome' = [outcome EXCEPT ![p] = "pending"]
  /\ answer' = [answer EXCEPT ![p] = <<>>]
  /\ UNCHANGED contents

\* The effect, at once and as a whole; only an unclean store reports failure for it.
TakeEffect(p, reported) ==
  /\ outcome[p] = "pending"
  /\ reported = "ok" \/ ~FailureIsClean
  /\ contents' = [contents EXCEPT ![request[p].conv] = After(request[p], @)]
  /\ outcome' = [outcome EXCEPT ![p] = reported]
  /\ answer' = [answer EXCEPT ![p] =
       IF request[p].op = "load" THEN contents[request[p].conv] ELSE <<>>]
  /\ UNCHANGED request

\* One call fails, or a crash ends several; nothing has changed.
FailAll(P) ==
  /\ \A p \in P : outcome[p] = "pending"
  /\ outcome' = [p \in Callers |-> IF p \in P THEN "failed" ELSE outcome[p]]
  /\ UNCHANGED <<contents, request, answer>>

StoreNext ==
  \/ \E p \in Callers, r \in StoreCall(Operations) : Invoke(p, r)
  \/ \E p \in Callers, reported \in {"ok", "failed"} : TakeEffect(p, reported)
  \/ \E P \in SUBSET Callers : FailAll(P)

StoreSpec == StoreInit /\ [][StoreNext]_storeVars
===============================================================================
