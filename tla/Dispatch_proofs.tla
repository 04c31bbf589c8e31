--------------------------- MODULE Dispatch_proofs ----------------------------
(***************************************************************************)
(* What runs the tools and the agents.  For every number of calls and      *)
(* every limit: the dispatcher keeps its limit, answers every call in its  *)
(* place, leaves the results alone once it has returned, and implements    *)
(* ToolBatch.  For every number of tasks: JoinAllDetailed returns complete *)
(* results and an error that is a cause, and no task blocks on the         *)
(* channel.  For every set of agents and tags: the router's index says     *)
(* what the registered configurations say.                                 *)
(***************************************************************************)
EXTENDS ToolDispatch, JoinAll, Router, SequenceTheorems, FiniteSetTheorems, FunctionTheorems, TLAPS

-------------------------------------------------------------------------------
(* The inductive invariant                                                 *)

Launched == IF pc = "inline" THEN pos ELSE pos - 1

(* The dispatches that hold a slot.                                        *)
Holders == {c \in Calls : worker[c] \in {"ready", "running", "answered"}}

(* A prefix of the calls was launched.                                     *)
LaunchInv ==
  /\ \A c \in Calls : worker[c] # "none" <=> c <= Launched
  /\ pc = "inline" => pos <= N

(* Without concurrency the loop itself is in the one open dispatch.        *)
InlineInv ==
  Sequential =>
    /\ pc # "wait"
    /\ \A c \in Calls :
         /\ worker[c] \in {"none", "ready", "running", "done"}
         /\ worker[c] \in {"ready", "running"} <=> pc = "inline" /\ c = pos

(* With it, the channel holds one element per open dispatch.               *)
SlotInv ==
  ~Sequential => pc # "inline" /\ sem = Cardinality(Holders) /\ sem <= limit

AnswerOf(c) ==
  CASE worker[c] \in {"answered", "freed", "done"} ->
         {ResultOf(c, outcome) : outcome \in {"ok", "error", "panic"}}
    [] worker[c] \in {"ready", "running"} -> {Unset}
    [] OTHER -> {IF pc \in {"wait", "returned"} THEN ResultOf(c, "cancelled") ELSE Unset}

(* What each dispatch has stored, and whether its handler ran.             *)
ResultInv ==
  \A c \in Calls :
    /\ results[c] \in AnswerOf(c)
    /\ runs[c] \in {0, 1}
    /\ worker[c] \in {"none", "ready"} => runs[c] = 0
    /\ results[c].outcome \in {"ok", "panic"} \/ worker[c] = "running" => runs[c] = 1

ReturnInv ==
  pc = "returned" => \A c \in Calls : worker[c] \in {"none", "done"}

Shape == LaunchInv /\ InlineInv /\ ResultInv /\ ReturnInv

IInv == DispatchTypeOK /\ Shape /\ SlotInv

-------------------------------------------------------------------------------

LEMMA HoldersFinite == IsFiniteSet(Holders)
<1>1. IsFiniteSet(Calls)
  BY FS_Interval, BatchAssumption DEF Calls
<1> QED
  BY <1>1, FS_Subset DEF Holders

LEMMA InitInv == DispatchInit => IInv
<1> SUFFICES ASSUME DispatchInit PROVE IInv
  OBVIOUS
<1> USE BatchAssumption DEF DispatchInit
<1>1. DispatchTypeOK
  BY DEF DispatchTypeOK, WorkerStates, Unset, Calls
<1>2. LaunchInv /\ InlineInv /\ ReturnInv
  BY DEF LaunchInv, InlineInv, ReturnInv, Launched, Calls
<1>3. ResultInv
  BY DEF ResultInv, AnswerOf, Unset
<1>4. SlotInv
  <2>1. Holders = {}
    BY DEF Holders
  <2> QED
    BY <2>1, <1>1, FS_EmptySet DEF SlotInv, Sequential, DispatchTypeOK
<1> QED
  BY <1>1, <1>2, <1>3, <1>4 DEF IInv, Shape

(* A step that leaves loop, slots, answers and runs as they are.           *)
LEMMA CancelInv == IInv /\ EndContext => IInv'
BY DEF IInv, Shape, DispatchTypeOK, LaunchInv, InlineInv, ResultInv, ReturnInv, SlotInv, EndContext, caller,
       Launched, Holders, AnswerOf, Sequential

LEMMA StopLaunchInv == IInv /\ StopLaunch => IInv'
<1> SUFFICES ASSUME IInv, StopLaunch PROVE IInv'
  OBVIOUS
<1> USE BatchAssumption DEF IInv, Shape, StopLaunch
<1>1. DispatchTypeOK'
  BY DEF DispatchTypeOK, Unset, ResultOf, Outcomes, Calls
<1>2. LaunchInv' /\ InlineInv' /\ ReturnInv'
  BY DEF DispatchTypeOK, LaunchInv, InlineInv, ReturnInv, Launched, Sequential, Calls, WorkerStates
<1>3. ResultInv'
  <2> SUFFICES ASSUME NEW c \in Calls
               PROVE  /\ results'[c] \in AnswerOf(c)'
                      /\ runs[c] \in {0, 1}
                      /\ worker[c] \in {"none", "ready"} => runs[c] = 0
                      /\ results'[c].outcome \in {"ok", "panic"} \/ worker[c] = "running" => runs[c] = 1
    BY DEF ResultInv
  <2>1. CASE c >= pos
    <3>1. worker[c] = "none" /\ results'[c] = ResultOf(c, "cancelled")
      BY <2>1 DEF LaunchInv, Launched, Calls, DispatchTypeOK
    <3> QED
      BY <3>1 DEF ResultInv, AnswerOf, ResultOf
  <2>2. CASE c < pos
    <3>1. worker[c] # "none" /\ results'[c] = results[c]
      BY <2>2 DEF LaunchInv, Launched, Calls, DispatchTypeOK
    <3> QED
      BY <3>1 DEF ResultInv, AnswerOf, DispatchTypeOK, WorkerStates
  <2> QED
    BY <2>1, <2>2 DEF Calls, DispatchTypeOK
<1>4. SlotInv'
  BY DEF SlotInv, Holders, Sequential
<1> QED
  BY <1>1, <1>2, <1>3, <1>4

LEMMA LaunchStepInv == IInv /\ Launch => IInv'
<1> SUFFICES ASSUME IInv, Launch PROVE IInv'
  OBVIOUS
<1> USE BatchAssumption DEF IInv, Shape, Launch
<1>1. /\ pos \in Calls /\ worker[pos] = "none"
      /\ worker' = [worker EXCEPT ![pos] = "ready"]
  BY DEF DispatchTypeOK, LaunchInv, Launched, Calls
<1>2. DispatchTypeOK'
  BY <1>1 DEF DispatchTypeOK, WorkerStates, Sequential
<1>3. LaunchInv' /\ InlineInv' /\ ReturnInv'
  BY <1>1 DEF DispatchTypeOK, LaunchInv, InlineInv, ReturnInv, Launched, Sequential, Calls
<1>4. ResultInv'
  BY <1>1 DEF DispatchTypeOK, ResultInv, AnswerOf, Unset
<1>5. SlotInv'
  <2>1. pos \notin Holders /\ Holders' = Holders \cup {pos}
    BY <1>1 DEF Holders, DispatchTypeOK
  <2>2. Cardinality(Holders') = Cardinality(Holders) + 1
    BY <2>1, HoldersFinite, FS_AddElement
  <2> QED
    BY <2>2 DEF SlotInv, Sequential, DispatchTypeOK
<1> QED
  BY <1>2, <1>3, <1>4, <1>5

LEMMA CallInlineInv == IInv /\ CallInline => IInv'
<1> SUFFICES ASSUME IInv, CallInline PROVE IInv'
  OBVIOUS
<1> USE BatchAssumption DEF IInv, Shape, CallInline
<1>1. /\ pos \in Calls /\ worker[pos] = "none"
      /\ worker' = [worker EXCEPT ![pos] = "ready"]
  BY DEF DispatchTypeOK, LaunchInv, Launched, Calls
<1>2. DispatchTypeOK'
  BY <1>1 DEF DispatchTypeOK, WorkerStates
<1>3. LaunchInv' /\ InlineInv' /\ ReturnInv'
  BY <1>1 DEF DispatchTypeOK, LaunchInv, InlineInv, ReturnInv, Launched, Sequential, Calls
<1>4. ResultInv'
  BY <1>1 DEF DispatchTypeOK, ResultInv, AnswerOf, Unset
<1>5. SlotInv'
  BY DEF SlotInv, Sequential
<1> QED
  BY <1>2, <1>3, <1>4, <1>5

LEMMA EndOfCallsInv == IInv /\ EndOfCalls => IInv'
<1> SUFFICES ASSUME IInv, EndOfCalls PROVE IInv'
  OBVIOUS
<1> USE BatchAssumption DEF IInv, Shape, EndOfCalls
<1>1. \A c \in Calls : worker[c] # "none"
  BY DEF DispatchTypeOK, LaunchInv, Launched, Calls
<1>2. DispatchTypeOK'
  BY DEF DispatchTypeOK
<1>3. LaunchInv' /\ InlineInv' /\ ReturnInv'
  BY <1>1 DEF DispatchTypeOK, LaunchInv, InlineInv, ReturnInv, Launched, Sequential, Calls, WorkerStates
<1>4. ResultInv'
  BY <1>1 DEF ResultInv, AnswerOf, DispatchTypeOK, WorkerStates
<1>5. SlotInv'
  BY DEF SlotInv, Sequential, Holders
<1> QED
  BY <1>2, <1>3, <1>4, <1>5

LEMMA WaitInv == IInv /\ Join => IInv'
<1> SUFFICES ASSUME IInv, Join PROVE IInv'
  OBVIOUS
<1> USE BatchAssumption DEF IInv, Shape, Join
<1>1. DispatchTypeOK'
  BY DEF DispatchTypeOK
<1>2. LaunchInv' /\ InlineInv' /\ ReturnInv'
  BY DEF LaunchInv, InlineInv, ReturnInv, Launched, Sequential
<1>3. ResultInv'
  BY DEF ResultInv, AnswerOf
<1>4. SlotInv'
  BY DEF SlotInv, Sequential, Holders
<1> QED
  BY <1>1, <1>2, <1>3, <1>4

(* Storing a result of an open dispatch, with the runs as they are.        *)
LEMMA StoreInv ==
  ASSUME IInv, NEW c \in Calls, NEW outcome \in {"ok", "error", "panic"},
         worker[c] \in {"ready", "running"}, outcome # "error" => worker[c] = "running",
         Store(c, outcome), runs' = runs,
         trace' \in [Calls -> {"none", "started", "completed"}]
  PROVE  IInv'
<1> USE BatchAssumption DEF IInv, Shape, Store
<1>1. /\ results' = [results EXCEPT ![c] = ResultOf(c, outcome)]
      /\ worker' = [worker EXCEPT ![c] = IF Sequential THEN "done" ELSE "answered"]
  OBVIOUS
<1>2. Sequential => pc = "inline" /\ pos = c
  BY DEF InlineInv
<1>3. ~Sequential => pc # "inline" /\ pc # "returned"
  BY DEF SlotInv, ReturnInv
<1>4. DispatchTypeOK'
  <2>1. ResultOf(c, outcome) \in [id : Calls, outcome : Outcomes]
    BY DEF ResultOf, Outcomes
  <2> QED
    BY <1>1, <1>2, <2>1 DEF DispatchTypeOK, WorkerStates, Calls
<1>5. LaunchInv'
  BY <1>2, <1>3 DEF DispatchTypeOK, LaunchInv, Launched, Calls
<1>6. InlineInv'
  BY <1>2 DEF DispatchTypeOK, InlineInv, LaunchInv, Launched, Sequential, Calls
<1>7. ReturnInv'
  BY <1>2, <1>3 DEF DispatchTypeOK, ReturnInv
<1>8. ResultInv'
  <2> SUFFICES ASSUME NEW d \in Calls
               PROVE  /\ results'[d] \in AnswerOf(d)'
                      /\ runs[d] \in {0, 1}
                      /\ worker'[d] \in {"none", "ready"} => runs[d] = 0
                      /\ results'[d].outcome \in {"ok", "panic"} \/ worker'[d] = "running" => runs[d] = 1
    BY DEF ResultInv
  <2>1. CASE d = c
    <3>1. worker'[d] \in {"answered", "done"} /\ results'[d] = ResultOf(d, outcome)
      BY <2>1 DEF DispatchTypeOK
    <3>2. results'[d] \in AnswerOf(d)'
      BY <3>1 DEF AnswerOf
    <3> QED
      BY <3>1, <3>2, <2>1 DEF ResultInv, ResultOf
  <2>2. CASE d # c
    <3>1. worker'[d] = worker[d] /\ results'[d] = results[d]
      BY <2>2 DEF DispatchTypeOK
    <3>2. pc' \in {"wait", "returned"} <=> pc \in {"wait", "returned"}
      BY <1>2
    <3> QED
      BY <3>1, <3>2 DEF ResultInv, AnswerOf
  <2> QED
    BY <2>1, <2>2
<1>9. SlotInv'
  <2>1. ~Sequential => Holders' = Holders
    BY DEF Holders, DispatchTypeOK
  <2> QED
    BY <2>1, <1>3 DEF SlotInv, Sequential
<1> QED
  BY <1>4, <1>5, <1>6, <1>7, <1>8, <1>9

LEMMA InvokeInv == ASSUME IInv, NEW c \in Calls, InvokeTool(c) PROVE IInv'
<1> USE BatchAssumption DEF IInv, Shape, InvokeTool, caller
<1>1. worker' = [worker EXCEPT ![c] = "running"] /\ runs' = [runs EXCEPT ![c] = @ + 1]
  OBVIOUS
<1>2. DispatchTypeOK'
  BY DEF DispatchTypeOK, WorkerStates
<1>3. LaunchInv' /\ InlineInv' /\ ReturnInv'
  BY DEF DispatchTypeOK, LaunchInv, InlineInv, ReturnInv, Launched, Sequential
<1>4. ResultInv'
  BY DEF DispatchTypeOK, ResultInv, AnswerOf, Unset
<1>5. SlotInv'
  <2>1. Holders' = Holders
    BY DEF Holders, DispatchTypeOK
  <2> QED
    BY <2>1 DEF SlotInv, Sequential
<1> QED
  BY <1>2, <1>3, <1>4, <1>5

LEMMA ReleaseInv == ASSUME IInv, NEW c \in Calls, Release(c) PROVE IInv'
<1> USE BatchAssumption DEF IInv, Shape, Release
<1>1. ~Sequential
  BY DEF InlineInv
<1>2. c \in Holders /\ Holders' = Holders \ {c}
  BY DEF Holders, DispatchTypeOK
<1>3. Cardinality(Holders') = Cardinality(Holders) - 1 /\ Cardinality(Holders') \in Nat
  BY <1>2, HoldersFinite, FS_RemoveElement, FS_CardinalityType
<1>4. DispatchTypeOK'
  BY <1>1, <1>3 DEF DispatchTypeOK, WorkerStates, SlotInv
<1>5. LaunchInv' /\ InlineInv' /\ ReturnInv'
  BY <1>1 DEF DispatchTypeOK, LaunchInv, InlineInv, ReturnInv, Launched, Sequential
<1>6. ResultInv'
  BY DEF DispatchTypeOK, ResultInv, AnswerOf
<1>7. SlotInv'
  BY <1>1, <1>3 DEF SlotInv, Sequential, DispatchTypeOK
<1> QED
  BY <1>4, <1>5, <1>6, <1>7

LEMMA DoneInv == ASSUME IInv, NEW c \in Calls, DoneWaiting(c) PROVE IInv'
<1> USE BatchAssumption DEF IInv, Shape, DoneWaiting, caller
<1>1. ~Sequential
  BY DEF InlineInv
<1>2. DispatchTypeOK'
  BY DEF DispatchTypeOK, WorkerStates
<1>3. LaunchInv' /\ InlineInv' /\ ReturnInv'
  BY <1>1 DEF DispatchTypeOK, LaunchInv, InlineInv, ReturnInv, Launched, Sequential
<1>4. ResultInv'
  BY DEF DispatchTypeOK, ResultInv, AnswerOf
<1>5. SlotInv'
  <2>1. Holders' = Holders
    BY DEF Holders, DispatchTypeOK
  <2> QED
    BY <2>1 DEF SlotInv, Sequential
<1> QED
  BY <1>2, <1>3, <1>4, <1>5

LEMMA DispatchInv == ASSUME IInv, NEW c \in Calls, Dispatch(c) PROVE IInv'
<1>1. CASE RejectTool(c)
  BY <1>1, StoreInv DEF RejectTool, IInv, DispatchTypeOK
<1>2. CASE FinishTool(c)
  BY <1>2, StoreInv DEF FinishTool, IInv, DispatchTypeOK
<1>3. CASE PanicTool(c)
  BY <1>3, StoreInv DEF PanicTool, IInv, DispatchTypeOK
<1> QED
  BY <1>1, <1>2, <1>3, InvokeInv, ReleaseInv, DoneInv DEF Dispatch

LEMMA NextInv == IInv /\ [DispatchNext]_dispatchVars => IInv'
<1> SUFFICES ASSUME IInv, [DispatchNext]_dispatchVars PROVE IInv'
  OBVIOUS
<1>1. CASE UNCHANGED dispatchVars
  BY <1>1 DEF dispatchVars, IInv, Shape, DispatchTypeOK, LaunchInv, InlineInv, ResultInv, ReturnInv, SlotInv,
              Launched, Holders, AnswerOf, Sequential
<1>2. CASE Caller
  BY <1>2, StopLaunchInv, LaunchStepInv, CallInlineInv, EndOfCallsInv, WaitInv DEF Caller
<1> QED
  BY <1>1, <1>2, CancelInv, DispatchInv DEF DispatchNext, Dispatching

(* The inductive invariant of the dispatcher.                              *)
THEOREM Invariant == DispatchSpec => []IInv
BY InitInv, NextInv, PTL DEF DispatchSpec

-------------------------------------------------------------------------------

(* Type correctness of the dispatcher's state.                             *)
THEOREM TypeCorrect == DispatchSpec => []DispatchTypeOK
BY Invariant, PTL DEF IInv

(* An entered handler holds a slot, or is the inline one.                  *)
LEMMA SlotsBoundRunning == IInv => LimitHeld
<1> SUFFICES ASSUME IInv PROVE Cardinality(InHandler) <= Width
  BY DEF LimitHeld
<1> USE DEF IInv, Shape
<1>1. CASE Sequential
  <2>1. InHandler \in SUBSET {pos}
    BY <1>1 DEF InHandler, InlineInv
  <2>2. IsFiniteSet({pos}) /\ Cardinality({pos}) = 1
    BY FS_Singleton
  <2>3. Cardinality(InHandler) <= Cardinality({pos})
    BY <2>1, <2>2, FS_Subset
  <2> QED
    BY <1>1, <2>2, <2>3 DEF Width
<1>2. CASE ~Sequential
  <2>1. InHandler \in SUBSET Holders
    BY DEF InHandler, Holders
  <2>2. Cardinality(InHandler) <= Cardinality(Holders)
    BY <2>1, HoldersFinite, FS_Subset
  <2>3. Cardinality(InHandler) \in Nat /\ sem \in Nat /\ limit \in Int
    BY <2>1, HoldersFinite, FS_Subset, FS_CardinalityType, BatchAssumption DEF DispatchTypeOK
  <2> QED
    BY <1>2, <2>2, <2>3 DEF SlotInv, Width
<1> QED
  BY <1>1, <1>2

(* At most MaxToolConcurrency handlers of a batch run at the same time, and  *)
(* one when it is one or less.                                             *)
THEOREM LimitIsHeld == DispatchSpec => []LimitHeld
BY Invariant, SlotsBoundRunning, PTL

(* A returned batch has one result per call, in the call's own place, and  *)
(* reports as cancelled the calls that never ran, and only them.           *)
THEOREM ResultsAreComplete == DispatchSpec => []ResultsComplete
<1>1. IInv => ResultsComplete
  <2> SUFFICES ASSUME IInv, pc = "returned", NEW c \in Calls
               PROVE  /\ results[c].id = c
                      /\ runs[c] <= 1
                      /\ results[c].outcome = "cancelled" <=> worker[c] = "none"
                      /\ results[c].outcome \in {"ok", "panic"} => runs[c] = 1
                      /\ results[c].outcome = "cancelled" => runs[c] = 0
    BY DEF ResultsComplete
  <2>1. worker[c] \in {"none", "done"}
    BY DEF IInv, Shape, ReturnInv
  <2>2. results[c] \in AnswerOf(c)
    BY DEF IInv, Shape, ResultInv
  <2> QED
    BY <2>1, <2>2 DEF IInv, Shape, ResultInv, AnswerOf, ResultOf
<1> QED
  BY Invariant, <1>1, PTL

(* The calls that start are a prefix of the batch, and without concurrency  *)
(* a call starts when all earlier ones are done.                           *)
THEOREM StartsAreOrdered == DispatchSpec => []StartsInOrder
<1>1. IInv => StartsInOrder
  BY DEF StartsInOrder, IInv, Shape, DispatchTypeOK, LaunchInv, InlineInv, Launched, Calls
<1> QED
  BY Invariant, <1>1, PTL

(* Nothing of a batch happens after it has returned.                       *)
THEOREM ResultsStaySettled == DispatchSpec => ResultsSettled
<1>1. IInv /\ [DispatchNext]_dispatchVars => [pc = "returned" => UNCHANGED <<results, runs, trace>>]_dispatchVars
  <2> SUFFICES ASSUME IInv, DispatchNext, pc = "returned"
               PROVE  UNCHANGED <<results, runs, trace>>
    OBVIOUS
  <2>1. \A c \in Calls : worker[c] \in {"none", "done"}
    BY DEF IInv, Shape, ReturnInv
  <2>2. ~\E c \in Calls : Dispatch(c)
    BY <2>1 DEF Dispatch, RejectTool, InvokeTool, FinishTool, PanicTool, Release, DoneWaiting
  <2> QED
    BY <2>2 DEF DispatchNext, Dispatching, Caller, StopLaunch, Launch, CallInline, EndOfCalls, Join, EndContext
<1> QED
  BY Invariant, <1>1, PTL DEF DispatchSpec, ResultsSettled

-------------------------------------------------------------------------------
(* Refinement of ToolBatch                                                 *)

Answers == [c \in Calls |-> IF results[c].id = c THEN results[c].outcome ELSE "none"]

(* A call has no answer exactly while its dispatch is open or, as long as  *)
(* the loop may go on, it is not launched.                                 *)
LEMMA AnswerMap ==
  ASSUME IInv, NEW c \in Calls
  PROVE  Answers[c] =
           CASE worker[c] \in {"answered", "freed", "done"} -> results[c].outcome
             [] worker[c] \in {"ready", "running"} -> "none"
             [] OTHER -> IF pc \in {"wait", "returned"} THEN "cancelled" ELSE "none"
<1>1. results[c] \in AnswerOf(c) /\ c # 0
  BY DEF IInv, Shape, ResultInv, Calls
<1> QED
  BY <1>1 DEF Answers, AnswerOf, ResultOf, Unset

LEMMA InitRefines == DispatchInit => Batch!Init
<1> SUFFICES ASSUME DispatchInit PROVE Batch!Init
  OBVIOUS
<1>1. Width \in Nat \ {0}
  BY BatchAssumption DEF DispatchInit, Width, Sequential
<1>2. \A c \in Calls : results[c].id # c
  BY DEF DispatchInit, Unset, Calls
<1> QED
  BY <1>1, <1>2 DEF DispatchInit, Batch!Init, Batch!Calls, Calls

(* The abstract batch's calls that are open hold a slot or are inline.     *)
OpenCalls == {c \in 1..Launched : Answers[c] = "none"}

LEMMA OpenMap == Batch!Open = OpenCalls
BY DEF Batch!Open, OpenCalls, Answers, Launched

LEMMA OpenHeld ==
  ASSUME IInv
  PROVE  OpenCalls = {c \in Calls : worker[c] \in {"ready", "running"}}
<1>1. Launched \in 0..N
  BY BatchAssumption DEF IInv, DispatchTypeOK, Shape, LaunchInv, Launched
<1>2. 1..Launched \subseteq Calls
  BY <1>1, BatchAssumption DEF Calls
<1>3. \A c \in Calls : c \in 1..Launched <=> worker[c] # "none"
  BY <1>1 DEF IInv, Shape, LaunchInv, Calls
<1>4. ASSUME NEW c \in Calls, worker[c] \in {"answered", "freed", "done"}
      PROVE  results[c].outcome # "none"
  <2>1. results[c] \in AnswerOf(c)
    BY DEF IInv, Shape, ResultInv
  <2> QED
    BY <1>4, <2>1 DEF AnswerOf, ResultOf
<1> QED
  BY <1>2, <1>3, <1>4, AnswerMap DEF OpenCalls, IInv, DispatchTypeOK, WorkerStates

(* The abstract module counts with the same operator.                      *)
LEMMA SameCardinality == ASSUME NEW S PROVE Batch!Cardinality(S) = Cardinality(S)
BY DEF Cardinality, Batch!Cardinality

(* A launch or an inline call is a Start.                                  *)
LEMMA StartRefines ==
  ASSUME IInv, Launch \/ CallInline
  PROVE  Batch!Start
<1> USE BatchAssumption DEF IInv, Shape
<1>1. /\ pc = "launch" /\ pos \in Calls /\ pos <= N /\ worker[pos] = "none"
      /\ Launched = pos - 1 /\ Launched' = pos
  BY SMTT(30) DEF Launch, CallInline, DispatchTypeOK, LaunchInv, Launched, Calls
<1>2. Launched < N /\ Launched + 1 = pos /\ Launched' = Launched + 1
  BY <1>1 DEF Calls
<1>3. Answers[pos] = "none"
  BY <1>1, AnswerMap
<1>4. Cardinality(OpenCalls) < Width
  <2>1. CASE Launch
    <3>1. OpenCalls \in SUBSET Holders
      BY OpenHeld DEF Holders
    <3>2. Cardinality(OpenCalls) <= sem /\ Cardinality(OpenCalls) \in Nat
      BY <2>1, <3>1, HoldersFinite, FS_Subset, FS_CardinalityType DEF SlotInv, Launch
    <3> QED
      BY <2>1, <3>2 DEF Launch, Width, DispatchTypeOK
  <2>2. CASE CallInline
    <3>1. OpenCalls = {}
      BY <2>2, OpenHeld DEF InlineInv, CallInline
    <3> QED
      BY <2>2, <3>1, FS_EmptySet DEF CallInline, Width
  <2> QED
    BY <2>1, <2>2
<1>5. Answers' = Answers /\ Width' = Width /\ (pc = "returned")' = (pc = "returned")
  BY <1>1 DEF Launch, CallInline, Answers, Width, Sequential
<1>6. Batch!Cardinality(Batch!Open) < Width
  BY <1>4, OpenMap, SameCardinality
<1>7. Launched < N /\ Answers[Launched + 1] = "none" /\ Launched' = Launched + 1
  BY <1>2, <1>3
<1> QED
  BY <1>5, <1>6, <1>7 DEF Batch!Start, Launched, Answers

(* A stored result is the answer to an open call.                          *)
LEMMA StoreRefines ==
  ASSUME IInv, NEW c \in Calls, NEW outcome \in {"ok", "error", "panic"},
         worker[c] \in {"ready", "running"}, Store(c, outcome)
  PROVE  Batch!Answer(c)
<1> USE DEF IInv, Shape
<1>1. c \in Batch!Open
  BY OpenMap, OpenHeld
<1>2. results' = [results EXCEPT ![c] = ResultOf(c, outcome)]
  BY DEF Store
<1>3. Answers' = [Answers EXCEPT ![c] = outcome]
  BY <1>2 DEF Answers, ResultOf, DispatchTypeOK
<1>4. Launched' = Launched
  BY DEF Store, Launched, InlineInv, SlotInv, DispatchTypeOK, Calls
<1>5. Width' = Width
  BY DEF Store, Width, Sequential
<1>6. (pc = "returned")' = (pc = "returned")
  BY DEF Store, ReturnInv
<1> QED
  BY <1>1, <1>3, <1>4, <1>5, <1>6 DEF Batch!Answer, Answers, Launched

(* The refusal of the remaining calls.                                     *)
LEMMA RefuseRefines ==
  ASSUME IInv, StopLaunch
  PROVE  Batch!Refuse \/ Batch!RefuseAndReturn
<1> USE BatchAssumption DEF IInv, Shape
<1>1. /\ pos \in Calls /\ worker[pos] = "none" /\ pc = "launch" /\ pos <= N
      /\ Launched = pos - 1 /\ Launched' = Launched
  BY DEF StopLaunch, DispatchTypeOK, LaunchInv, Launched, Calls
<1>2. Answers[pos] = "none"
  BY <1>1, AnswerMap
<1>3. Launched < N /\ Answers[Launched + 1] = "none"
  BY <1>1, <1>2 DEF Calls
<1>4. Answers' = [c \in Calls |-> IF c > Launched THEN "cancelled" ELSE Answers[c]]
  <2>1. ASSUME NEW c \in Calls
        PROVE  (IF results'[c].id = c THEN results'[c].outcome ELSE "none")
                 = IF c > Launched THEN "cancelled" ELSE Answers[c]
    <3>1. CASE c >= pos
      BY <1>1, <3>1 DEF StopLaunch, ResultOf, Calls
    <3>2. CASE c < pos
      BY <1>1, <3>2 DEF StopLaunch, Answers, Calls
    <3> QED
      BY <1>1, <3>1, <3>2 DEF Calls
  <2> QED
    BY <2>1 DEF Answers
<1>5. Width' = Width
  BY DEF StopLaunch, Width, Sequential
<1>6. Batch!Calls = Calls
  BY DEF Batch!Calls, Calls
<1>7. CASE Sequential
  <2>1. Batch!Open = {}
    BY <1>1, <1>7, OpenMap, OpenHeld DEF InlineInv
  <2>2. (pc = "returned")' = TRUE /\ ~(pc = "returned")
    BY <1>7 DEF StopLaunch
  <2> QED
    BY <1>1, <1>3, <1>4, <1>5, <1>6, <2>1, <2>2 DEF Batch!RefuseAndReturn, Answers, Launched
<1>8. CASE ~Sequential
  <2>1. (pc = "returned")' = (pc = "returned")
    BY <1>8 DEF StopLaunch
  <2> QED
    BY <1>1, <1>3, <1>4, <1>5, <1>6, <2>1 DEF Batch!Refuse, Answers, Launched
<1> QED
  BY <1>7, <1>8

(* The end of the sequential loop, and wg.Wait, return a batch that has     *)
(* every answer.                                                           *)
LEMMA ReturnRefines ==
  ASSUME IInv, Join \/ (EndOfCalls /\ Sequential)
  PROVE  Batch!Return
<1> USE BatchAssumption DEF IInv, Shape
<1>1. ASSUME NEW c \in Calls PROVE Answers[c] # "none"
  <2>1. results[c] \in AnswerOf(c)
    BY DEF ResultInv
  <2>2. CASE worker[c] = "none"
    <3>1. pc = "wait"
      BY <2>2 DEF Join, EndOfCalls, LaunchInv, Launched, DispatchTypeOK, Calls
    <3> QED
      BY <2>2, <3>1, AnswerMap
  <2>3. CASE worker[c] # "none"
    <3>1. worker[c] = "done"
      BY <2>3 DEF Join, EndOfCalls, InlineInv, DispatchTypeOK
    <3> QED
      BY <2>1, <3>1, AnswerMap DEF AnswerOf, ResultOf
  <2> QED
    BY <2>2, <2>3
<1>2. ~(pc = "returned") /\ (pc = "returned")' = TRUE
  BY DEF Join, EndOfCalls
<1>3. Answers' = Answers /\ Width' = Width /\ Launched' = Launched
  BY DEF Join, EndOfCalls, Answers, Width, Launched, Sequential
<1>4. Batch!Calls = Calls
  BY DEF Batch!Calls, Calls
<1> QED
  BY <1>1, <1>2, <1>3, <1>4 DEF Batch!Return, Answers, Launched

(* A step that moves neither the loop nor a result is a stutter.           *)
LEMMA QuietRefines ==
  ASSUME results' = results, limit' = limit, pos' = pos,
         pc' = pc \/ (pc = "launch" /\ pc' = "wait")
  PROVE  UNCHANGED Batch!vars
<1>1. Answers' = Answers /\ Width' = Width /\ Launched' = Launched
  BY DEF Answers, Width, Launched, Sequential
<1>2. (pc = "returned")' = (pc = "returned")
  OBVIOUS
<1> QED
  BY <1>1, <1>2 DEF Batch!vars, Answers, Launched

LEMMA NextRefines == IInv /\ [DispatchNext]_dispatchVars => [Batch!Next]_(Batch!vars)
<1> SUFFICES ASSUME IInv, [DispatchNext]_dispatchVars PROVE Batch!Next \/ UNCHANGED Batch!vars
  OBVIOUS
<1>1. CASE UNCHANGED dispatchVars
  BY <1>1, QuietRefines DEF dispatchVars
<1>2. CASE EndContext
  BY <1>2, QuietRefines DEF EndContext, caller
<1>3. CASE Launch \/ CallInline
  BY <1>3, StartRefines DEF Batch!Next
<1>4. CASE StopLaunch
  BY <1>4, RefuseRefines DEF Batch!Next
<1>5. CASE Join \/ (EndOfCalls /\ Sequential)
  BY <1>5, ReturnRefines DEF Batch!Next
<1>6. CASE EndOfCalls /\ ~Sequential
  BY <1>6, QuietRefines DEF EndOfCalls
<1>7. ASSUME NEW c \in Calls, Dispatch(c)
      PROVE  Batch!Next \/ UNCHANGED Batch!vars
  <2>1. CASE RejectTool(c) \/ FinishTool(c) \/ PanicTool(c)
    <3>1. Batch!Answer(c)
      BY <2>1, StoreRefines DEF RejectTool, FinishTool, PanicTool
    <3>2. c \in Batch!Calls
      BY DEF Batch!Calls, Calls
    <3> QED
      BY <3>1, <3>2 DEF Batch!Next
  <2>2. CASE InvokeTool(c) \/ Release(c) \/ DoneWaiting(c)
    BY <2>2, QuietRefines DEF InvokeTool, Release, DoneWaiting, caller
  <2> QED
    BY <1>7, <2>1, <2>2 DEF Dispatch
<1>8. CASE Caller
  BY <1>3, <1>4, <1>5, <1>6, <1>8, Zenon DEF Caller
<1> QED
  BY <1>1, <1>2, <1>7, <1>8, Zenon DEF DispatchNext, Dispatching

(* The dispatcher with its goroutines, slots and context implements the    *)
(* batch.                                                                  *)
THEOREM DispatchImplementsBatch == DispatchSpec => BatchSpec
BY InitRefines, NextRefines, Invariant, PTL DEF DispatchSpec, BatchSpec, Batch!Spec

-------------------------------------------------------------------------------
(* JoinAll.                                                                *)

(* The types the proofs need beyond JoinTypeOK.                            *)
JoinTypes ==
  /\ task \in [Tasks -> {"running", "returned", "sent", "gone"}]
  /\ taskEnd \in [Tasks -> {"none", "ok", "failed", "cancelled"}]
  /\ resultCh \in Seq(Tasks)
  /\ DOMAIN collected \subseteq Tasks
  /\ firstErr \in Tasks \cup {NoTask}
  /\ shut \in BOOLEAN /\ parentDone \in BOOLEAN
  /\ childCancelled \in BOOLEAN /\ joined \in BOOLEAN

Sent(t) == task[t] \in {"sent", "gone"}

(* A result is in the channel once, or collected, from the moment its task *)
(* has sent it, and never both.                                            *)
ResultsOnce ==
  /\ \A i \in 1 .. Len(resultCh) :
       Sent(resultCh[i]) /\ resultCh[i] \notin DOMAIN collected
  /\ \A i, j \in 1 .. Len(resultCh) : resultCh[i] = resultCh[j] => i = j
  /\ \A t \in DOMAIN collected : Sent(t)
  /\ \A t \in Tasks : Sent(t) =>
       t \in DOMAIN collected \/ \E i \in 1 .. Len(resultCh) : resultCh[i] = t

(* What is collected is how the task ended.                                *)
ResultsTrue ==
  /\ collected = [t \in DOMAIN collected |-> taskEnd[t]]
  /\ \A t \in Tasks : taskEnd[t] = "none" <=> task[t] = "running"

(* The first failure received is one, and if there is none nothing that    *)
(* was received failed; a task is cancelled because the caller's context   *)
(* has ended or because a failure was received.                            *)
FailureTrue ==
  /\ firstErr # NoTask => firstErr \in DOMAIN collected /\ taskEnd[firstErr] # "ok"
  /\ firstErr = NoTask => \A t \in DOMAIN collected : taskEnd[t] = "ok"
  /\ firstErr = NoTask => \A t \in Tasks : taskEnd[t] = "cancelled" => parentDone
  /\ firstErr # NoTask /\ taskEnd[firstErr] = "cancelled" => parentDone
  /\ childCancelled /\ ~joined => firstErr # NoTask

(* The channel is closed when the tasks are gone, and drained by then.     *)
ClosedLast ==
  /\ shut => \A t \in Tasks : task[t] = "gone"
  /\ joined => shut /\ resultCh = <<>>

JoinInv == JoinTypes /\ ResultsOnce /\ ResultsTrue /\ FailureTrue /\ ClosedLast

LEMMA JoinInitInv == JoinInit => JoinInv
<1> SUFFICES ASSUME JoinInit PROVE JoinInv
  OBVIOUS
<1> USE DEF JoinInit
<1>1. JoinTypes
  <2>1. DOMAIN collected = {} /\ firstErr \in Tasks \cup {NoTask} /\ resultCh \in Seq(Tasks)
    OBVIOUS
  <2> QED
    BY <2>1 DEF JoinTypes
<1>2. ResultsOnce
  BY DEF ResultsOnce, Sent
<1>3. ResultsTrue
  BY DEF ResultsTrue
<1>4. FailureTrue
  BY DEF FailureTrue
<1>5. ClosedLast
  BY DEF ClosedLast
<1> QED
  BY <1>1, <1>2, <1>3, <1>4, <1>5 DEF JoinInv

LEMMA TaskReturnsKeepsJoinInv ==
  ASSUME JoinInv, NEW t \in Tasks, TaskReturns(t)
  PROVE  JoinInv'
<1> USE DEF JoinInv
<1>1. /\ task[t] = "running" /\ task' = [task EXCEPT ![t] = "returned"]
      /\ UNCHANGED <<resultCh, shut, parentDone, childCancelled, collected, firstErr, joined>>
  BY DEF TaskReturns
<1>2. PICK o \in {"ok", "failed", "cancelled"} :
        /\ o = "cancelled" => ChildDone
        /\ taskEnd' = [taskEnd EXCEPT ![t] = o]
  BY DEF TaskReturns
<1>3. JoinTypes'
  BY <1>1, <1>2 DEF JoinTypes
<1>4. \A u \in Tasks : Sent(u)' <=> Sent(u)
  BY <1>1 DEF Sent, JoinTypes
<1>5. ResultsOnce'
  BY <1>1, <1>4 DEF ResultsOnce, JoinTypes
<1>6. ~Sent(t) /\ t \notin DOMAIN collected
  BY <1>1 DEF Sent, ResultsOnce
<1>7. \A u \in Tasks : u # t => taskEnd'[u] = taskEnd[u] /\ task'[u] = task[u]
  BY <1>1, <1>2 DEF JoinTypes
<1>8. ResultsTrue'
  <2>1. \A u \in DOMAIN collected : taskEnd'[u] = taskEnd[u]
    BY <1>6, <1>7 DEF JoinTypes
  <2>2. collected' = [u \in DOMAIN collected' |-> taskEnd'[u]]
    BY <1>1, <2>1 DEF ResultsTrue
  <2>3. ASSUME NEW u \in Tasks PROVE taskEnd'[u] = "none" <=> task'[u] = "running"
    BY <1>1, <1>2, <1>7 DEF ResultsTrue, JoinTypes
  <2> QED
    BY <2>2, <2>3 DEF ResultsTrue
<1>9. FailureTrue'
  <2>1. firstErr # NoTask => firstErr # t /\ taskEnd'[firstErr] = taskEnd[firstErr]
    BY <1>6, <1>7 DEF FailureTrue, JoinTypes
  <2>2. ~joined
    BY <1>1 DEF ClosedLast
  <2>3. firstErr = NoTask => \A u \in Tasks : taskEnd'[u] = "cancelled" => parentDone
    BY <1>2, <1>7, <2>2 DEF FailureTrue, ChildDone, JoinTypes
  <2>4. \A u \in DOMAIN collected : taskEnd'[u] = taskEnd[u]
    BY <1>6, <1>7 DEF JoinTypes
  <2> QED
    BY <1>1, <2>1, <2>3, <2>4 DEF FailureTrue
<1>10. ClosedLast'
  BY <1>1 DEF ClosedLast, JoinTypes
<1> QED
  BY <1>3, <1>5, <1>8, <1>9, <1>10

LEMMA TaskSendsKeepsJoinInv ==
  ASSUME JoinInv, NEW t \in Tasks, TaskSends(t)
  PROVE  JoinInv'
<1> USE DEF JoinInv
<1>1. /\ task[t] = "returned" /\ task' = [task EXCEPT ![t] = "sent"]
      /\ resultCh' = Append(resultCh, t)
      /\ UNCHANGED <<taskEnd, shut, parentDone, childCancelled, collected, firstErr, joined>>
  BY DEF TaskSends
<1>2. JoinTypes'
  BY <1>1 DEF JoinTypes
<1>3. ~Sent(t) /\ t \notin DOMAIN collected
  BY <1>1 DEF Sent, ResultsOnce
<1>4. \A u \in Tasks : Sent(u)' <=> Sent(u) \/ u = t
  BY <1>1 DEF Sent, JoinTypes
<1>5. /\ Len(resultCh') = Len(resultCh) + 1 /\ Len(resultCh) \in Nat
      /\ resultCh'[Len(resultCh) + 1] = t
      /\ \A i \in 1 .. Len(resultCh) : resultCh'[i] = resultCh[i] /\ resultCh[i] \in Tasks
  BY <1>1 DEF JoinTypes
<1>6. ResultsOnce'
  <2>1. \A i \in 1 .. Len(resultCh') :
          task'[resultCh'[i]] \in {"sent", "gone"} /\ resultCh'[i] \notin DOMAIN collected
    <3>1. \A i \in 1 .. Len(resultCh) :
            resultCh[i] \in Tasks /\ Sent(resultCh[i])' /\ resultCh[i] \notin DOMAIN collected
      BY <1>4, <1>5 DEF ResultsOnce
    <3>2. Sent(t)'
      BY <1>4
    <3> QED
      BY <1>3, <1>5, <3>1, <3>2 DEF Sent
  <2>2. \A i \in 1 .. Len(resultCh) : resultCh[i] # t
    BY <1>3 DEF ResultsOnce
  <2>3. \A i, j \in 1 .. Len(resultCh') : resultCh'[i] = resultCh'[j] => i = j
    BY <1>5, <2>2 DEF ResultsOnce
  <2>4. \A u \in DOMAIN collected : Sent(u)'
    BY <1>4 DEF ResultsOnce, JoinTypes
  <2>5. ASSUME NEW u \in Tasks, Sent(u)'
        PROVE  u \in DOMAIN collected \/ \E i \in 1 .. Len(resultCh') : resultCh'[i] = u
    BY <1>4, <1>5, <2>5 DEF ResultsOnce
  <2> QED
    BY <1>1, <2>1, <2>3, <2>4, <2>5 DEF ResultsOnce, Sent
<1>7. ResultsTrue'
  BY <1>1 DEF ResultsTrue, JoinTypes
<1>8. FailureTrue'
  BY <1>1 DEF FailureTrue
<1>9. ClosedLast'
  BY <1>1 DEF ClosedLast, JoinTypes
<1> QED
  BY <1>2, <1>6, <1>7, <1>8, <1>9

LEMMA TaskGoneKeepsJoinInv ==
  ASSUME JoinInv, NEW t \in Tasks, TaskGone(t)
  PROVE  JoinInv'
<1> USE DEF JoinInv
<1>1. /\ task[t] = "sent" /\ task' = [task EXCEPT ![t] = "gone"]
      /\ UNCHANGED <<taskEnd, resultCh, shut, parentDone, childCancelled, collected, firstErr,
                     joined>>
  BY DEF TaskGone
<1>2. \A u \in Tasks : Sent(u)' <=> Sent(u)
  BY <1>1 DEF Sent, JoinTypes
<1>3. JoinTypes' /\ ResultsTrue' /\ FailureTrue' /\ ClosedLast'
  BY <1>1 DEF JoinTypes, ResultsTrue, FailureTrue, ClosedLast
<1>4. ResultsOnce'
  BY <1>1, <1>2 DEF ResultsOnce, JoinTypes
<1> QED
  BY <1>3, <1>4

LEMMA CollectKeepsJoinInv ==
  ASSUME JoinInv, Collect
  PROVE  JoinInv'
<1> USE DEF JoinInv
<1> DEFINE t == Head(resultCh)
           first == taskEnd[t] # "ok" /\ firstErr = NoTask
<1>1. /\ ~joined /\ resultCh # <<>> /\ resultCh' = Tail(resultCh)
      /\ collected' = [u \in DOMAIN collected \cup {t} |->
                         IF u = t THEN taskEnd[t] ELSE collected[u]]
      /\ firstErr' = IF first THEN t ELSE firstErr
      /\ childCancelled' = (childCancelled \/ first)
      /\ UNCHANGED <<task, taskEnd, shut, parentDone, joined>>
  BY DEF Collect
<1>2. /\ t \in Tasks /\ t = resultCh[1] /\ Len(resultCh) \in Nat /\ Len(resultCh) >= 1
      /\ resultCh' \in Seq(Tasks) /\ Len(resultCh') = Len(resultCh) - 1
      /\ \A i \in 1 .. Len(resultCh') : resultCh'[i] = resultCh[i + 1]
  BY <1>1 DEF JoinTypes
<1>3. Sent(t) /\ t \notin DOMAIN collected
  BY <1>2 DEF ResultsOnce
<1>4. DOMAIN collected' = DOMAIN collected \cup {t}
  BY <1>1
<1>5. JoinTypes'
  <2>1. firstErr' \in Tasks \cup {NoTask} /\ childCancelled' \in BOOLEAN
    BY <1>1, <1>2 DEF JoinTypes
  <2> QED
    BY <1>1, <1>2, <1>4, <2>1 DEF JoinTypes
<1>6. \A u : Sent(u)' <=> Sent(u)
  BY <1>1 DEF Sent
<1>7. ResultsOnce'
  <2>1. ASSUME NEW i \in 1 .. Len(resultCh')
        PROVE  /\ task'[resultCh'[i]] \in {"sent", "gone"}
               /\ resultCh'[i] \notin DOMAIN collected'
    <3>1. i + 1 \in 1 .. Len(resultCh) /\ resultCh'[i] = resultCh[i + 1]
      BY <1>2, <2>1
    <3>2. resultCh[i + 1] # t
      BY <1>2, <3>1 DEF ResultsOnce
    <3> QED
      BY <1>1, <1>4, <3>1, <3>2 DEF ResultsOnce, Sent
  <2>2. ASSUME NEW i \in 1 .. Len(resultCh'), NEW j \in 1 .. Len(resultCh'),
               resultCh'[i] = resultCh'[j]
        PROVE  i = j
    BY <1>2, <2>2 DEF ResultsOnce
  <2>3. \A u \in DOMAIN collected' : Sent(u)'
    BY <1>3, <1>4, <1>6 DEF ResultsOnce
  <2>4. ASSUME NEW u \in Tasks, Sent(u)'
        PROVE  u \in DOMAIN collected' \/ \E i \in 1 .. Len(resultCh') : resultCh'[i] = u
    <3>1. CASE u \in DOMAIN collected \cup {t}
      BY <1>4, <3>1
    <3>2. CASE u \notin DOMAIN collected \cup {t}
      <4>1. PICK i \in 1 .. Len(resultCh) : resultCh[i] = u
        BY <1>6, <2>4, <3>2 DEF ResultsOnce
      <4>2. i # 1
        BY <1>2, <3>2, <4>1
      <4>3. i - 1 \in 1 .. Len(resultCh') /\ resultCh'[i - 1] = u
        BY <1>2, <4>1, <4>2
      <4> QED
        BY <4>3
    <3> QED
      BY <3>1, <3>2
  <2> QED
    BY <2>1, <2>2, <2>3, <2>4 DEF ResultsOnce, Sent
<1>8. ResultsTrue'
  <2>1. \A u \in DOMAIN collected : collected[u] = taskEnd[u]
    BY DEF ResultsTrue
  <2>2. collected' = [u \in DOMAIN collected' |-> taskEnd'[u]]
    BY <1>1, <1>4, <2>1
  <2> QED
    BY <1>1, <2>2 DEF ResultsTrue
<1>9. FailureTrue'
  <2>1. t # NoTask
    BY <1>2, TasksAssumption
  <2>2. CASE first
    <3>1. firstErr' = t /\ firstErr = NoTask /\ taskEnd[t] # "ok"
      BY <1>1, <2>2
    <3>2. taskEnd[t] = "cancelled" => parentDone
      BY <1>2, <3>1 DEF FailureTrue
    <3> HIDE DEF t, first
    <3> QED
      BY <1>1, <1>4, <2>1, <3>1, <3>2 DEF FailureTrue
  <2>3. CASE ~first
    <3>1. firstErr' = firstErr /\ childCancelled' = childCancelled
      BY <1>1, <2>3 DEF JoinTypes
    <3>2. firstErr = NoTask => taskEnd[t] = "ok"
      BY <2>3
    <3> HIDE DEF t, first
    <3> QED
      BY <1>1, <1>4, <3>1, <3>2 DEF FailureTrue
  <2> QED
    BY <2>2, <2>3
<1>10. ClosedLast'
  BY <1>1 DEF ClosedLast
<1> QED
  BY <1>5, <1>7, <1>8, <1>9, <1>10

LEMMA CloseKeepsJoinInv ==
  ASSUME JoinInv, Shut \/ Return \/ EndParent
  PROVE  JoinInv'
<1> USE DEF JoinInv, Shut, Return, EndParent
<1>1. JoinTypes'
  BY DEF JoinTypes
<1>2. ResultsOnce'
  BY DEF ResultsOnce, Sent
<1>3. ResultsTrue'
  BY DEF ResultsTrue
<1>4. FailureTrue'
  BY DEF FailureTrue
<1>5. ClosedLast'
  BY DEF ClosedLast
<1> QED
  BY <1>1, <1>2, <1>3, <1>4, <1>5

LEMMA JoinNextInv == JoinInv /\ [JoinNext]_joinVars => JoinInv'
<1> SUFFICES ASSUME JoinInv, [JoinNext]_joinVars PROVE JoinInv'
  OBVIOUS
<1>1. CASE UNCHANGED joinVars
  BY <1>1 DEF joinVars, JoinInv, JoinTypes, ResultsOnce, Sent, ResultsTrue, FailureTrue,
     ClosedLast
<1> QED
  BY <1>1, TaskReturnsKeepsJoinInv, TaskSendsKeepsJoinInv, TaskGoneKeepsJoinInv,
     CollectKeepsJoinInv, CloseKeepsJoinInv DEF JoinNext, Joining

LEMMA JoinSpecInv == JoinSpec => []JoinInv
BY JoinInitInv, JoinNextInv, PTL DEF JoinSpec

(* Type correctness of JoinAll, for every finite set of tasks.             *)
THEOREM JoinTypeCorrect == JoinSpec => []JoinTypeOK
<1>1. JoinInv => JoinTypeOK
  BY DEF JoinInv, JoinTypes, JoinTypeOK
<1> QED
  BY <1>1, JoinSpecInv, PTL

(* When JoinAllDetailed returns it has every task's own result, an error   *)
(* exactly if a task failed, and the error of a cause; before that, tasks  *)
(* are cancelled only for such a failure.                                  *)
THEOREM JoinIsComplete == JoinSpec => []JoinComplete
<1>1. JoinInv => JoinComplete
  <2> SUFFICES ASSUME JoinInv PROVE JoinComplete
    OBVIOUS
  <2> USE DEF JoinInv
  <2>1. ASSUME joined
        PROVE  /\ \A t \in Tasks : task[t] = "gone" /\ t \in DOMAIN collected
               /\ collected = taskEnd
               /\ firstErr = NoTask <=> \A t \in Tasks : taskEnd[t] = "ok"
    <3>1. \A t \in Tasks : task[t] = "gone"
      BY <2>1 DEF ClosedLast
    <3>2. DOMAIN collected = Tasks
      BY <2>1, <3>1 DEF ClosedLast, ResultsOnce, Sent, JoinTypes
    <3>3. collected = taskEnd
      BY <3>2 DEF ResultsTrue, JoinTypes
    <3>4. firstErr = NoTask <=> \A t \in Tasks : taskEnd[t] = "ok"
      BY <3>2 DEF FailureTrue
    <3> QED
      BY <3>1, <3>2, <3>3, <3>4
  <2> QED
    BY <2>1 DEF JoinComplete, FailureTrue
<1> QED
  BY <1>1, JoinSpecInv, PTL

(* The channel always has room for a task that has not sent its result:    *)
(* its goroutine never blocks, whatever the caller does meanwhile.         *)
RoomForAll ==
  \A t \in Tasks : task[t] = "returned" => Len(resultCh) < Cardinality(Tasks)

THEOREM SendsNeverBlock == JoinSpec => []RoomForAll
<1>1. JoinInv => RoomForAll
  <2> SUFFICES ASSUME JoinInv, NEW t \in Tasks, task[t] = "returned"
               PROVE  Len(resultCh) < Cardinality(Tasks)
    BY DEF RoomForAll
  <2> DEFINE n == Len(resultCh)
             others == Tasks \ {t}
  <2>1. n \in Nat /\ resultCh \in [1 .. n -> others]
    BY DEF JoinInv, JoinTypes, ResultsOnce, Sent
  <2>2. resultCh \in Injection(1 .. n, others)
    BY <2>1, Fun_IsInj DEF JoinInv, ResultsOnce
  <2>3. /\ IsFiniteSet(others) /\ Cardinality(others) = Cardinality(Tasks) - 1
        /\ Cardinality(Tasks) \in Nat
    BY FS_RemoveElement, FS_CardinalityType, TasksAssumption
  <2>4. Cardinality(1 .. n) <= Cardinality(others)
    BY <2>2, <2>3, FS_Injection
  <2>5. Cardinality(1 .. n) = n
    <3>1. n \in Int /\ 1 \in Int /\ (1 > n <=> n = 0)
      BY <2>1
    <3> HIDE DEF n
    <3>2. Cardinality(1 .. n) = IF 1 > n THEN 0 ELSE n - 1 + 1
      BY <3>1, FS_Interval
    <3> QED
      BY <3>1, <3>2
  <2> QED
    BY <2>1, <2>3, <2>4, <2>5
<1> QED
  BY <1>1, JoinSpecInv, PTL

-------------------------------------------------------------------------------
(* Router.                                                                 *)

(* A list of names without repetition.                                     *)
NameList(names) ==
  /\ names \in Seq(AgentNames) /\ names # <<>>
  /\ \A i, j \in 1 .. Len(names) : names[i] = names[j] => i = j

Listed(names) == {names[i] : i \in 1 .. Len(names)}

(* The list says who is registered with the tag, in the order of the last  *)
(* registrations.                                                          *)
InOrder(turns, names) ==
  \A i, j \in 1 .. Len(names) : i < j => turns[names[i]] < turns[names[j]]
Has(configs, t) == {n \in DOMAIN configs : t \in Range(configs[n])}

RouterTypes ==
  /\ DOMAIN agents \subseteq AgentNames
  /\ \A n \in DOMAIN agents : Range(agents[n]) \subseteq Tags
  /\ DOMAIN tagIdx \subseteq Tags
  /\ turnOf \in [AgentNames -> Nat]
  /\ found \in [TagCallers -> AgentNames \cup {NoAgent}]
  /\ routeAt \in [TagCallers -> {"route", "consult", "ran", "refused"}]

(* The last registration has the largest turn.                             *)
LastTurn == \E m \in Registrations : \A r \in Registrations : r <= m

IndexCurrent ==
  /\ \A t \in DOMAIN tagIdx :
       /\ NameList(tagIdx[t]) /\ InOrder(turnOf, tagIdx[t])
       /\ Listed(tagIdx[t]) = Has(agents, t)
  /\ \A t \in Tags : t \notin DOMAIN tagIdx => Has(agents, t) = {}

(* What RunByTag has found stays registered until it is consulted.         *)
FoundStays ==
  \A k \in TagCallers :
    /\ routeAt[k] = "route" => found[k] = NoAgent
    /\ routeAt[k] = "consult" => found[k] \in DOMAIN agents
    /\ routeAt[k] = "refused" => found[k] = NoAgent

RouterInv ==
  RouterTypes /\ (AgentNames # {} => LastTurn) /\ IndexCurrent /\ FoundStays

(* What taking a name out of a list leaves, and what appending one adds.   *)
LEMMA RemoveFromList ==
  ASSUME NEW names, NameList(names), NEW name \in Listed(names), NEW turns
  PROVE  LET left == RemoveFirst(names, name)
         IN  /\ left \in Seq(AgentNames)
             /\ \A i, j \in 1 .. Len(left) : left[i] = left[j] => i = j
             /\ Listed(left) = Listed(names) \ {name}
             /\ InOrder(turns, names) => InOrder(turns, left)
<1>1. PICK p \in 1 .. Len(names) : names[p] = name
  BY DEF Listed
<1>2. \A i \in 1 .. Len(names) : names[i] = name => i = p
  BY <1>1 DEF NameList
<1>3. SelectInSeq(names, LAMBDA v : v = name) = p
  <2> DEFINE I == {i \in 1 .. Len(names) : names[i] = name}
  <2>1. I = {p}
    BY <1>1, <1>2
  <2>2. Min(I) = p
    BY <2>1 DEF Min
  <2> QED
    BY <2>1, <2>2 DEF SelectInSeq
<1> DEFINE left == SubSeq(names, 1, p - 1) \o SubSeq(names, p + 1, Len(names))
<1>4. RemoveFirst(names, name) = left
  BY <1>1, <1>3 DEF RemoveFirst, RemoveAt
<1>5. /\ left \in Seq(AgentNames) /\ Len(left) = Len(names) - 1 /\ Len(names) \in Nat
      /\ \A i \in 1 .. Len(left) : left[i] = IF i < p THEN names[i] ELSE names[i + 1]
  <2> DEFINE front == SubSeq(names, 1, p - 1)
             back == SubSeq(names, p + 1, Len(names))
  <2>1. names \in Seq(AgentNames) /\ Len(names) \in Nat
    BY DEF NameList
  <2>2. /\ front \in Seq(AgentNames) /\ Len(front) = p - 1
        /\ \A i \in 1 .. p - 1 : front[i] = names[i]
    BY <1>1, <2>1, SubSeqProperties
  <2>3. /\ back \in Seq(AgentNames) /\ Len(back) = Len(names) - p
        /\ \A i \in 1 .. Len(names) - p : back[i] = names[p + i]
    BY <1>1, <2>1, SubSeqProperties
  <2> HIDE DEF front, back
  <2>4. /\ front \o back \in Seq(AgentNames) /\ Len(front \o back) = Len(names) - 1
        /\ \A i \in 1 .. Len(names) - 1 :
             (front \o back)[i] = IF i < p THEN names[i] ELSE names[i + 1]
    <3>1. /\ front \o back \in Seq(AgentNames) /\ Len(front \o back) = Len(front) + Len(back)
          /\ \A i \in 1 .. Len(front) + Len(back) : (front \o back)[i] =
               IF i <= Len(front) THEN front[i] ELSE back[i - Len(front)]
      BY <2>2, <2>3, ConcatProperties
    <3>2. Len(front) + Len(back) = Len(names) - 1
      BY <1>1, <2>1, <2>2, <2>3
    <3>3. ASSUME NEW i \in 1 .. Len(names) - 1
          PROVE  (front \o back)[i] = IF i < p THEN names[i] ELSE names[i + 1]
      <4>1. CASE i < p
        BY <1>1, <2>1, <2>2, <3>1, <3>2, <4>1
      <4>2. CASE i >= p
        <5>1. /\ (front \o back)[i] = back[i - (p - 1)]
              /\ i - (p - 1) \in 1 .. Len(names) - p
          BY <1>1, <2>1, <2>2, <3>1, <3>2, <4>2
        <5>2. back[i - (p - 1)] = names[p + (i - (p - 1))]
          BY <2>3, <5>1
        <5>3. p + (i - (p - 1)) = i + 1
          BY <1>1, <2>1
        <5> QED
          BY <4>2, <5>1, <5>2, <5>3, <1>1, <2>1
      <4>3. i < p \/ i >= p
        BY <1>1, <2>1
      <4> QED
        BY <4>1, <4>2, <4>3
    <3> QED
      BY <3>1, <3>2, <3>3
  <2> QED
    BY <2>1, <2>4 DEF front, back
<1> HIDE DEF left
<1>6. \A i, j \in 1 .. Len(left) : left[i] = left[j] => i = j
  BY <1>5 DEF NameList
<1>7. Listed(left) = Listed(names) \ {name}
  <2>1. ASSUME NEW i \in 1 .. Len(left) PROVE left[i] \in Listed(names) \ {name}
    BY <1>1, <1>2, <1>5, <2>1 DEF Listed
  <2>2. ASSUME NEW i \in 1 .. Len(names), names[i] # name
        PROVE  names[i] \in Listed(left)
    <3>1. CASE i < p
      BY <1>5, <3>1 DEF Listed
    <3>2. CASE i > p
      <4>1. i - 1 \in 1 .. Len(left) /\ left[i - 1] = names[i]
        BY <1>1, <1>5, <3>2
      <4> QED
        BY <4>1 DEF Listed
    <3> QED
      BY <1>1, <2>2, <3>1, <3>2
  <2> QED
    BY <2>1, <2>2 DEF Listed
<1>8. ASSUME InOrder(turns, names) PROVE InOrder(turns, left)
  <2>1. ASSUME NEW i \in 1 .. Len(left), NEW j \in 1 .. Len(left), i < j
        PROVE  turns[left[i]] < turns[left[j]]
    <3> DEFINE at(k) == IF k < p THEN k ELSE k + 1
    <3>1. at(i) \in 1 .. Len(names) /\ at(j) \in 1 .. Len(names) /\ at(i) < at(j)
      BY <1>1, <1>5, <2>1
    <3>2. left[i] = names[at(i)] /\ left[j] = names[at(j)]
      BY <1>1, <1>5
    <3> HIDE DEF at
    <3> QED
      BY <1>8, <3>1, <3>2 DEF InOrder
  <2> QED
    BY <2>1 DEF InOrder
<1> QED
  BY <1>4, <1>5, <1>6, <1>7, <1>8

LEMMA AppendToList ==
  ASSUME NEW names \in Seq(AgentNames),
         \A i, j \in 1 .. Len(names) : names[i] = names[j] => i = j,
         NEW name \in AgentNames, name \notin Listed(names),
         NEW turns, InOrder(turns, names),
         \A n \in Listed(names) : turns[n] < turns[name]
  PROVE  LET more == Append(names, name)
         IN  /\ NameList(more)
             /\ Listed(more) = Listed(names) \cup {name}
             /\ InOrder(turns, more)
<1> DEFINE more == Append(names, name)
<1>1. /\ more \in Seq(AgentNames) /\ more # <<>>
      /\ Len(more) = Len(names) + 1 /\ Len(names) \in Nat
      /\ more[Len(names) + 1] = name
      /\ \A i \in 1 .. Len(names) : more[i] = names[i] /\ names[i] # name
  BY AppendProperties DEF Listed
<1> HIDE DEF more
<1>2. NameList(more)
  BY <1>1 DEF NameList
<1>3. Listed(more) = Listed(names) \cup {name}
  BY <1>1 DEF Listed
<1>4. InOrder(turns, more)
  BY <1>1 DEF InOrder, Listed
<1> QED
  BY <1>2, <1>3, <1>4 DEF more

(* The index without the name that registers, whether it was there before  *)
(* or not.                                                                 *)
LEMMA IndexWithout ==
  ASSUME RouterInv, NEW name \in AgentNames
  PROVE  LET index == IF name \in DOMAIN agents
                      THEN WithoutName(tagIdx, name, agents[name]) ELSE tagIdx
         IN  /\ DOMAIN index \subseteq Tags
             /\ \A t \in DOMAIN index :
                  /\ NameList(index[t]) /\ InOrder(turnOf, index[t])
                  /\ Listed(index[t]) = Has(agents, t) \ {name}
             /\ \A t \in Tags : t \notin DOMAIN index => Has(agents, t) \subseteq {name}
<1> USE DEF RouterInv
<1>1. CASE name \notin DOMAIN agents
  <2>1. \A t : name \notin Has(agents, t)
    BY <1>1 DEF Has
  <2> QED
    BY <1>1, <2>1 DEF IndexCurrent, RouterTypes
<1>2. CASE name \in DOMAIN agents
  <2> DEFINE had == Range(agents[name])
             Left(t) == IF t \in had THEN RemoveFirst(tagIdx[t], name) ELSE tagIdx[t]
             index == [t \in {u \in DOMAIN tagIdx : Left(u) # <<>>} |-> Left(t)]
  <2>1. WithoutName(tagIdx, name, agents[name]) = index
    BY DEF WithoutName
  <2>2. ASSUME NEW t \in DOMAIN tagIdx
        PROVE  /\ Left(t) \in Seq(AgentNames) /\ InOrder(turnOf, Left(t))
               /\ \A i, j \in 1 .. Len(Left(t)) : Left(t)[i] = Left(t)[j] => i = j
               /\ Listed(Left(t)) = Has(agents, t) \ {name}
    <3>1. /\ NameList(tagIdx[t]) /\ InOrder(turnOf, tagIdx[t])
          /\ Listed(tagIdx[t]) = Has(agents, t)
      BY DEF IndexCurrent
    <3>2. CASE t \in had
      <4>1. name \in Listed(tagIdx[t])
        BY <1>2, <3>1, <3>2 DEF Has
      <4> QED
        BY <3>1, <3>2, <4>1, RemoveFromList
    <3>3. CASE t \notin had
      <4>1. name \notin Has(agents, t)
        BY <3>3 DEF Has
      <4> QED
        BY <3>1, <3>3, <4>1 DEF NameList
    <3> QED
      BY <3>2, <3>3
  <2>3. ASSUME NEW t \in DOMAIN tagIdx
        PROVE  Left(t) = <<>> <=> Has(agents, t) \ {name} = {}
    <3> HIDE DEF Left
    <3>1. Left(t) = <<>> <=> Listed(Left(t)) = {}
      BY <2>2 DEF Listed
    <3> QED
      BY <2>2, <3>1
  <2> HIDE DEF Left
  <2>4. DOMAIN index = {u \in DOMAIN tagIdx : Left(u) # <<>>}
    OBVIOUS
  <2>5. ASSUME NEW t \in DOMAIN index
        PROVE  /\ NameList(index[t]) /\ InOrder(turnOf, index[t])
               /\ Listed(index[t]) = Has(agents, t) \ {name}
    <3>1. index[t] = Left(t) /\ t \in DOMAIN tagIdx /\ Left(t) # <<>>
      BY <2>4, <2>5
    <3> HIDE DEF index
    <3> QED
      BY <2>2, <3>1 DEF NameList
  <2>6. ASSUME NEW t \in Tags, t \notin DOMAIN index PROVE Has(agents, t) \subseteq {name}
    <3>1. CASE t \in DOMAIN tagIdx
      BY <2>3, <2>4, <2>6, <3>1
    <3>2. CASE t \notin DOMAIN tagIdx
      BY <3>2 DEF IndexCurrent
    <3> QED
      BY <3>1, <3>2
  <2>7. DOMAIN index \subseteq Tags
    BY <2>4 DEF RouterTypes
  <2> HIDE DEF index
  <2> QED
    BY <1>2, <2>1, <2>5, <2>6, <2>7
<1> QED
  BY <1>1, <1>2

LEMMA RegisterKeepsRouterInv ==
  ASSUME RouterInv, NEW name \in AgentNames, NEW tags \in TagLists, Register(name, tags)
  PROVE  RouterInv'
<1> USE DEF RouterInv
<1> DEFINE index == IF name \in DOMAIN agents
                    THEN WithoutName(tagIdx, name, agents[name]) ELSE tagIdx
           last == CHOOSE m \in Registrations : \A r \in Registrations : r <= m
           Names(t) == IF t \in DOMAIN index THEN index[t] ELSE <<>>
<1>1. /\ tagIdx' = WithName(index, name, tags)
      /\ agents' = [n \in DOMAIN agents \cup {name} |-> IF n = name THEN tags ELSE agents[n]]
      /\ turnOf' = [turnOf EXCEPT ![name] = 1 + last]
      /\ UNCHANGED <<found, routeAt>>
  BY DEF Register
<1>2. /\ DOMAIN index \subseteq Tags
      /\ \A t \in DOMAIN index :
           /\ NameList(index[t]) /\ InOrder(turnOf, index[t])
           /\ Listed(index[t]) = Has(agents, t) \ {name}
      /\ \A t \in Tags : t \notin DOMAIN index => Has(agents, t) \subseteq {name}
  BY IndexWithout
<1>3. last \in Registrations /\ \A r \in Registrations : r <= last
  BY DEF LastTurn
<1>4. Registrations \subseteq Nat /\ \A n \in AgentNames : turnOf[n] \in Registrations
  BY DEF Registrations, RouterTypes
<1> HIDE DEF index, last
<1>5. /\ turnOf' \in [AgentNames -> Nat] /\ turnOf'[name] = 1 + last /\ last \in Nat
      /\ \A n \in AgentNames \ {name} : turnOf'[n] = turnOf[n] /\ turnOf[n] <= last
  BY <1>1, <1>3, <1>4 DEF RouterTypes
<1>6. Range(tags) \subseteq Tags
  BY RouterAssumption
<1>7. /\ DOMAIN agents' = DOMAIN agents \cup {name} /\ agents'[name] = tags
      /\ \A n \in DOMAIN agents \ {name} : agents'[n] = agents[n]
  BY <1>1
<1>8. \A t : Has(agents, t)' = IF t \in Range(tags) THEN (Has(agents, t) \ {name}) \cup {name}
                               ELSE Has(agents, t) \ {name}
  BY <1>7 DEF Has
<1>9. DOMAIN tagIdx' = DOMAIN index \cup Range(tags)
  BY <1>1 DEF WithName
<1>10. ASSUME NEW t \in DOMAIN index \cup Range(tags)
       PROVE  /\ NameList(tagIdx'[t]) /\ InOrder(turnOf', tagIdx'[t])
              /\ Listed(tagIdx'[t]) = Has(agents', t)
  <2>1. /\ Names(t) \in Seq(AgentNames) /\ InOrder(turnOf, Names(t))
        /\ \A i, j \in 1 .. Len(Names(t)) : Names(t)[i] = Names(t)[j] => i = j
        /\ Listed(Names(t)) = Has(agents, t) \ {name}
    <3>1. CASE t \in DOMAIN index
      BY <1>2, <3>1 DEF NameList
    <3>2. CASE t \notin DOMAIN index
      <4>1. Names(t) = <<>> /\ Has(agents, t) \ {name} = {}
        BY <1>2, <1>6, <1>10, <3>2
      <4> HIDE DEF Names
      <4> QED
        BY <4>1 DEF InOrder, Listed
    <3> QED
      BY <3>1, <3>2
  <2>2. tagIdx'[t] = IF t \in Range(tags) /\ name \notin Range(Names(t))
                     THEN Append(Names(t), name) ELSE Names(t)
    BY <1>1 DEF WithName
  <2>3. t \notin Range(tags) => Names(t) # <<>>
    BY <1>2, <1>10 DEF NameList
  <2> HIDE DEF Names
  <2>4. name \notin Listed(Names(t)) /\ Range(Names(t)) = Listed(Names(t))
    <3>1. DOMAIN Names(t) = 1 .. Len(Names(t))
      BY <2>1
    <3> QED
      BY <2>1, <3>1 DEF Listed, Range
  <2>5. \A n \in Listed(Names(t)) : n \in AgentNames \ {name}
    BY <2>1, <2>4 DEF Listed
  <2>6. InOrder(turnOf', Names(t))
    BY <1>5, <2>1, <2>5 DEF InOrder, Listed
  <2>7. \A n \in Listed(Names(t)) : turnOf'[n] < turnOf'[name]
    BY <1>3, <1>4, <1>5, <2>5
  <2>8. CASE t \in Range(tags)
    <3>1. tagIdx'[t] = Append(Names(t), name)
      BY <2>2, <2>4, <2>8
    <3> DEFINE more == Append(Names(t), name)
    <3>2. /\ NameList(more) /\ Listed(more) = Listed(Names(t)) \cup {name}
          /\ InOrder(turnOf', more)
      BY <2>1, <2>4, <2>6, <2>7, AppendToList
    <3>3. Has(agents', t) = (Has(agents, t) \ {name}) \cup {name}
      BY <1>8, <2>8
    <3> HIDE DEF more
    <3> QED
      BY <2>1, <3>1, <3>2, <3>3 DEF more
  <2>9. CASE t \notin Range(tags)
    BY <1>8, <2>1, <2>2, <2>3, <2>6, <2>9 DEF NameList
  <2> QED
    BY <2>8, <2>9
<1>11. \A t \in Tags : t \notin DOMAIN tagIdx' => Has(agents, t)' = {}
  BY <1>2, <1>8, <1>9
<1>12. IndexCurrent'
  BY <1>9, <1>10, <1>11 DEF IndexCurrent
<1>13. RouterTypes'
  BY <1>1, <1>2, <1>5, <1>6, <1>7, <1>9 DEF RouterTypes
<1>14. LastTurn'
  <2>1. \A r \in Registrations' : r <= 1 + last
    BY <1>3, <1>4, <1>5 DEF Registrations
  <2>2. 1 + last \in Registrations'
    BY <1>5 DEF Registrations
  <2> QED
    BY <2>1, <2>2 DEF LastTurn
<1>15. FoundStays'
  BY <1>1, <1>7 DEF FoundStays
<1> QED
  BY <1>12, <1>13, <1>14, <1>15

(* Route answers from the index, whose lists hold registered names only.   *)
LEMMA RouteKeepsRouterInv ==
  ASSUME RouterInv, NEW k \in TagCallers,
         (\E tag \in Tags : Route(k, tag)) \/ ConsultFound(k)
  PROVE  RouterInv'
<1> USE DEF RouterInv
<1>1. UNCHANGED <<agents, tagIdx, turnOf>>
  BY DEF Route, ConsultFound
<1>2. (AgentNames # {} => LastTurn)' /\ IndexCurrent'
  BY <1>1 DEF LastTurn, Registrations, IndexCurrent
<1>3. RouterTypes' /\ FoundStays'
  <2>1. ASSUME NEW tag \in Tags, Route(k, tag) PROVE RouterTypes' /\ FoundStays'
    <3>1. CASE NamesOf(tag) # <<>> /\ Head(NamesOf(tag)) \in DOMAIN agents
      BY <1>1, <2>1, <3>1 DEF Route, RouterTypes, FoundStays
    <3>2. CASE ~(NamesOf(tag) # <<>> /\ Head(NamesOf(tag)) \in DOMAIN agents)
      BY <1>1, <2>1, <3>2 DEF Route, RouterTypes, FoundStays
    <3> QED
      BY <3>1, <3>2
  <2>2. CASE ConsultFound(k)
    BY <1>1, <2>2 DEF ConsultFound, RouterTypes, FoundStays
  <2> QED
    BY <2>1, <2>2
<1> QED
  BY <1>2, <1>3

LEMMA RouterSpecInv == RouterSpec => []RouterInv
<1>1. RouterInit => RouterInv
  <2> SUFFICES ASSUME RouterInit PROVE RouterInv
    OBVIOUS
  <2> USE DEF RouterInit
  <2>1. RouterTypes
    BY DEF RouterTypes
  <2>2. AgentNames # {} => LastTurn
    BY DEF LastTurn, Registrations
  <2>3. IndexCurrent
    BY DEF IndexCurrent, Has
  <2>4. FoundStays
    BY DEF FoundStays
  <2> QED
    BY <2>1, <2>2, <2>3, <2>4 DEF RouterInv
<1>2. RouterInv /\ [RouterNext]_routerVars => RouterInv'
  <2> SUFFICES ASSUME RouterInv, [RouterNext]_routerVars PROVE RouterInv'
    OBVIOUS
  <2>1. CASE UNCHANGED routerVars
    BY <2>1 DEF routerVars, RouterInv, RouterTypes, LastTurn, Registrations, IndexCurrent,
       FoundStays
  <2> QED
    BY <2>1, RegisterKeepsRouterInv, RouteKeepsRouterInv DEF RouterNext
<1> QED
  BY <1>1, <1>2, PTL DEF RouterSpec

(* Type correctness of the router.                                         *)
THEOREM RouterTypeCorrect == RouterSpec => []RouterTypeOK
<1>1. RouterInv => RouterTypeOK
  BY DEF RouterInv, RouterTypes, RouterTypeOK
<1> QED
  BY <1>1, RouterSpecInv, PTL

(* However often agents register again, the index says what their present  *)
(* configurations say, each name once and the newest last, and RunByTag    *)
(* never finds a name that Consult does not.                               *)
THEOREM RoutesStayCurrent == RouterSpec => []RoutesCurrent
<1>1. RouterInv => RoutesCurrent
  <2> SUFFICES ASSUME RouterInv PROVE RoutesCurrent
    OBVIOUS
  <2> USE DEF RouterInv
  <2>1. ASSUME NEW t \in Tags
        PROVE  /\ Range(NamesOf(t)) = Has(agents, t)
               /\ \A i, j \in DOMAIN NamesOf(t) :
                    i < j => turnOf[NamesOf(t)[i]] < turnOf[NamesOf(t)[j]]
               /\ t \in DOMAIN tagIdx <=> Has(agents, t) # {}
    <3>1. CASE t \in DOMAIN tagIdx
      <4>1. /\ NamesOf(t) = tagIdx[t] /\ NameList(tagIdx[t]) /\ InOrder(turnOf, tagIdx[t])
            /\ Listed(tagIdx[t]) = Has(agents, t)
        BY <3>1 DEF NamesOf, IndexCurrent
      <4>2. DOMAIN tagIdx[t] = 1 .. Len(tagIdx[t]) /\ Len(tagIdx[t]) \in Nat \ {0}
        BY <4>1 DEF NameList
      <4> QED
        BY <3>1, <4>1, <4>2 DEF Range, Listed, InOrder
    <3>2. CASE t \notin DOMAIN tagIdx
      <4>1. NamesOf(t) = <<>> /\ Has(agents, t) = {}
        BY <3>2 DEF NamesOf, IndexCurrent
      <4> QED
        BY <3>2, <4>1 DEF Range
    <3> QED
      BY <3>1, <3>2
  <2> QED
    BY <2>1 DEF RoutesCurrent, Has, FoundStays
<1> QED
  BY <1>1, RouterSpecInv, PTL
===============================================================================
