------------------------------ MODULE ToolBatch -------------------------------
(***************************************************************************)
(* What a batch of tool calls promises the turn that asked for it, without *)
(* goroutines, slots or a context: calls start in their order, no more     *)
(* than width of them are open at a time, every call gets one answer, the  *)
(* calls that were never started are refused all together, and the batch   *)
(* is over when all of them are answered, and not before.                  *)
(***************************************************************************)
EXTENDS Integers, FiniteSets

CONSTANT N   \* the number of calls

Calls == 1..N

VARIABLES
  width,     \* how many calls may be open, fixed for the batch
  started,   \* the calls 1..started were handed to their tools
  answers,   \* the answer of each call, or "none"
  over       \* the results are the caller's

vars == <<width, started, answers, over>>

Open == {c \in 1..started : answers[c] = "none"}

Init ==
  /\ width \in Nat \ {0}
  /\ started = 0
  /\ answers = [c \in Calls |-> "none"]
  /\ over = FALSE

Start ==
  /\ started < N
  /\ answers[started + 1] = "none"
  /\ Cardinality(Open) < width
  /\ started' = started + 1
  /\ UNCHANGED <<width, answers, over>>

Answer(c) ==
  /\ c \in Open
  /\ \E a \in {"ok", "error", "panic"} : answers' = [answers EXCEPT ![c] = a]
  /\ UNCHANGED <<width, started, over>>

Refuse ==
  /\ started < N
  /\ answers[started + 1] = "none"
  /\ answers' = [c \in Calls |-> IF c > started THEN "cancelled" ELSE answers[c]]
  /\ UNCHANGED <<width, started, over>>

Return ==
  /\ ~over
  /\ \A c \in Calls : answers[c] # "none"
  /\ over' = TRUE
  /\ UNCHANGED <<width, started, answers>>

\* Without goroutines the last refusal and the return are one step.
RefuseAndReturn ==
  /\ ~over
  /\ Open = {}
  /\ started < N
  /\ answers[started + 1] = "none"
  /\ answers' = [c \in Calls |-> IF c > started THEN "cancelled" ELSE answers[c]]
  /\ over' = TRUE
  /\ UNCHANGED <<width, started>>

Next ==
  \/ Start \/ Refuse \/ Return \/ RefuseAndReturn
  \/ \E c \in Calls : Answer(c)

Spec == Init /\ [][Next]_vars
===============================================================================
