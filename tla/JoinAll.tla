------------------------------- MODULE JoinAll -------------------------------
(***************************************************************************)
(* workflow.JoinAllDetailed: the tasks run in goroutines of their own under*)
(* one child context, their results come through a channel that has room   *)
(* for all, a goroutine closes it when the tasks are gone, and the caller  *)
(* collects.  The first failure it receives cancels the tasks that remain. *)
(* What a task does is the application's: it may fail by itself, or because*)
(* its context has ended, and it may ignore its context.                   *)
(***************************************************************************)
EXTENDS Naturals, Sequences, FiniteSets

CONSTANTS
  Tasks,    \* names of the tasks
  NoTask    \* no failure received yet

ASSUME TasksAssumption == IsFiniteSet(Tasks) /\ NoTask \notin Tasks

VARIABLES
  task,       \* "running", "returned", "sent" or "gone", after its deferred wg.Done
  taskEnd,    \* how it returned: "ok", "failed", or "cancelled" by its context
  resultCh,   \* the channel
  shut,       \* the channel is closed
  parentDone, \* the caller's context has ended
  childCancelled, \* cancel has been called
  collected,  \* the map of results, as a partial function
  firstErr,   \* the task of the first failure received
  joined      \* JoinAllDetailed has returned

joinVars == <<task, taskEnd, resultCh, shut, parentDone, childCancelled, collected, firstErr, joined>>

ChildDone == parentDone \/ childCancelled

JoinInit ==
  /\ task = [t \in Tasks |-> "running"]
  /\ taskEnd = [t \in Tasks |-> "none"]
  /\ resultCh = <<>>
  /\ shut = FALSE
  /\ parentDone = FALSE
  /\ childCancelled = FALSE
  /\ collected = [t \in {} |-> "none"]
  /\ firstErr = NoTask
  /\ joined = FALSE

-------------------------------------------------------------------------------
(* The goroutine of a task, and the one that closes the channel *)

\* f(childCtx) returns.
TaskReturns(t) ==
  /\ task[t] = "running"
  /\ \E o \in {"ok", "failed"} \cup (IF ChildDone THEN {"cancelled"} ELSE {}) :
       taskEnd' = [taskEnd EXCEPT ![t] = o]
  /\ task' = [task EXCEPT ![t] = "returned"]
  /\ UNCHANGED <<resultCh, shut, parentDone, childCancelled, collected, firstErr, joined>>

\* Mutant: a task whose context has ended keeps its result.
MutantTaskSends(t) ==
  /\ task[t] = "returned"
  /\ resultCh' = IF ChildDone THEN resultCh ELSE Append(resultCh, t)
  /\ task' = [task EXCEPT ![t] = "sent"]
  /\ UNCHANGED <<taskEnd, shut, parentDone, childCancelled, collected, firstErr, joined>>

\* The channel has room for every task, so that the write never blocks.
TaskSends(t) ==
  /\ task[t] = "returned" /\ Len(resultCh) < Cardinality(Tasks)
  /\ resultCh' = Append(resultCh, t)
  /\ task' = [task EXCEPT ![t] = "sent"]
  /\ UNCHANGED <<taskEnd, shut, parentDone, childCancelled, collected, firstErr, joined>>

TaskGone(t) ==
  /\ task[t] = "sent"
  /\ task' = [task EXCEPT ![t] = "gone"]
  /\ UNCHANGED <<taskEnd, resultCh, shut, parentDone, childCancelled, collected, firstErr, joined>>

\* wg.Wait has returned.
Shut ==
  /\ ~shut /\ \A t \in Tasks : task[t] = "gone"
  /\ shut' = TRUE
  /\ UNCHANGED <<task, taskEnd, resultCh, parentDone, childCancelled, collected, firstErr, joined>>

-------------------------------------------------------------------------------
(* The caller *)

\* One result is received and, when it is the first failure, the others are cancelled.
Collect ==
  /\ ~joined /\ resultCh # <<>>
  /\ LET t == Head(resultCh)
         first == taskEnd[t] # "ok" /\ firstErr = NoTask
     IN  /\ collected' = [u \in DOMAIN collected \cup {t} |->
              IF u = t THEN taskEnd[t] ELSE collected[u]]
         /\ firstErr' = IF first THEN t ELSE firstErr
         /\ childCancelled' = (childCancelled \/ first)
  /\ resultCh' = Tail(resultCh)
  /\ UNCHANGED <<task, taskEnd, shut, parentDone, joined>>

\* The channel is closed and drained; the deferred cancel ends the child context.
Return ==
  /\ ~joined /\ shut /\ resultCh = <<>>
  /\ joined' = TRUE
  /\ childCancelled' = TRUE
  /\ UNCHANGED <<task, taskEnd, resultCh, shut, parentDone, collected, firstErr>>

EndParent ==
  /\ ~parentDone /\ ~joined
  /\ parentDone' = TRUE
  /\ UNCHANGED <<task, taskEnd, resultCh, shut, childCancelled, collected, firstErr, joined>>

Joining ==
  \/ \E t \in Tasks : TaskReturns(t) \/ TaskSends(t) \/ TaskGone(t)
  \/ Shut \/ Collect \/ Return

JoinNext == Joining \/ EndParent

JoinSpec == JoinInit /\ [][JoinNext]_joinVars

-------------------------------------------------------------------------------
(* Properties *)

\* Type invariant.
JoinTypeOK ==
  /\ task \in [Tasks -> {"running", "returned", "sent", "gone"}]
  /\ taskEnd \in [Tasks -> {"none", "ok", "failed", "cancelled"}]
  /\ DOMAIN collected \subseteq Tasks
  /\ firstErr \in Tasks \cup {NoTask}
  /\ {shut, parentDone, childCancelled, joined} \subseteq BOOLEAN

\* When JoinAllDetailed returns, no task still runs and every task has its own
\* result, also the ones that failed or were cancelled; there is an error exactly if
\* some task failed; and unless the caller's own context ended, the error is a cause
\* and not a consequence: a task that failed by itself, never one that was cancelled
\* because another failed.  Before it returns, tasks are cancelled only for such a
\* failure.
JoinComplete ==
  /\ joined =>
       /\ \A t \in Tasks : task[t] = "gone" /\ t \in DOMAIN collected
       /\ collected = taskEnd
       /\ firstErr = NoTask <=> \A t \in Tasks : taskEnd[t] = "ok"
  /\ firstErr # NoTask /\ taskEnd[firstErr] = "cancelled" => parentDone
  /\ childCancelled /\ ~joined => firstErr # NoTask

\* JoinAllDetailed returns, if the tasks do.
JoinSettled == joined
===============================================================================
