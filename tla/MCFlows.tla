------------------------------- MODULE MCFlows -------------------------------
(* Streams, provider events, batches of tool calls, joined tasks, routes and   *)
(* context windows for TLC.                                                    *)
(* A behaviour is one of Parts; the variables of the others rest.              *)
EXTENDS StreamPipe, SseEvents, ToolDispatch, JoinAll, Router, ContextWindow

CONSTANTS
  Parts,          \* a subset of "stream", "sse", "dispatch", "join", "router", "window"
  s1, s2, s3, k1, \* streams: transferred, retried, neither; a completion
  n1, n2,         \* tool names
  g1, g2          \* tags

VARIABLE part

allVars == <<part, streamVars, sseVars, dispatchVars, joinVars, routerVars, windowVars>>

MCMaxAttempts == s1 :> 1 @@ s2 :> 2 @@ s3 :> 1
MCMaxEvents == s1 :> 1 @@ s2 :> 1 @@ s3 :> 3

Called(name, pieces) == [name |-> name, pieces |-> pieces]
MCResponses ==
  {<<Text>>, <<Called(n1, 0)>>, <<Text, Called(n1, 2)>>, <<Called(n1, 2), Called(n2, 2)>>,
   <<Called(n1, 2), Called(n2, 0)>>, <<Text, Called(n1, 2), Called(n2, 1)>>, <<Called(n1, 1), Text, Called(n2, 1)>>,
   <<Called(n1, 1), Called(n1, 1), Called(n2, 2)>>}

MCLimits == 0 .. 3

MCTagLists == {<<>>, <<g1>>, <<g2, g1>>, <<g1, g2, g1>>}

\* A policy without triggers for the number of messages, and one of a sliding window.
Policy(strategy, keep, turns, tokens, context, role) ==
  [strategy |-> strategy, keep |-> keep, turns |-> turns, messages |-> 0, tokens |-> tokens,
   limit |-> context, role |-> role]
MCPolicies ==
  {Policy("none", 0, 0, 0, 8, "system"),
   Policy("turnwindow", 1, 1, 0, 0, "system"),
   Policy("turnwindow", 1, 2, 0, 6, "system"),
   [Policy("slidingwindow", 3, 0, 0, 0, "system") EXCEPT !.messages = 3],
   Policy("slidingwindow", 1, 2, 0, 7, "system"),
   Policy("tokenlimit", 5, 0, 5, 7, "system"),
   Policy("tokenlimit", 5, 0, 5, 0, "system"),
   Policy("summary", 1, 1, 0, 0, "system"),
   Policy("summary", 1, 2, 0, 7, "assistant")}
SummaryByDefault == {Policy("summary", 1, 1, 0, 0, "system")}
TokenLimitOnly == {Policy("tokenlimit", 5, 0, 5, 7, "system")}

Init ==
  /\ part \in Parts
  /\ \E called \in IF part = "stream" THEN {{s1, k1}, {s2}, {s3}} ELSE {{}} : StreamInit(called)
  /\ SseInit /\ DispatchInit /\ JoinInit /\ RouterInit /\ WindowInit
  /\ part # "sse" => provider = "claude" /\ response = <<Text>>
  /\ part # "dispatch" => limit = 1 /\ ctx = "live"
  /\ part # "window" => policy = Policy("summary", 1, 1, 0, 0, "system") /\ prompted

Stream(A) ==
  part = "stream" /\ A /\ UNCHANGED <<part, sseVars, dispatchVars, joinVars, routerVars, windowVars>>
Sse(A) ==
  part = "sse" /\ A /\ UNCHANGED <<part, streamVars, dispatchVars, joinVars, routerVars, windowVars>>
Batching(A) ==
  part = "dispatch" /\ A /\ UNCHANGED <<part, streamVars, sseVars, joinVars, routerVars, windowVars>>
Joins(A) ==
  part = "join" /\ A /\ UNCHANGED <<part, streamVars, sseVars, dispatchVars, routerVars, windowVars>>
Routing(A) ==
  part = "router" /\ A /\ UNCHANGED <<part, streamVars, sseVars, dispatchVars, joinVars, windowVars>>
Window(A) ==
  part = "window" /\ A /\ UNCHANGED <<part, streamVars, sseVars, dispatchVars, joinVars, routerVars>>

Next ==
  \/ Stream(StreamNext) \/ Sse(SseNext) \/ Batching(DispatchNext) \/ Joins(JoinNext)
  \/ Routing(RouterNext) \/ Window(WindowNext)

\* Goroutines, handlers, consumers and tasks go on while they can.
Fairness ==
  WF_allVars(Stream(Running)) /\ WF_allVars(Batching(Dispatching)) /\ WF_allVars(Joins(Joining))

Spec == Init /\ [][Next]_allVars /\ Fairness

\* Streams, calls and joins come to an end: see Settled in StreamPipe for the slots and
\* consumers, and JoinSettled, that JoinAllDetailed returns when its tasks return, in
\* whatever order they do and however they end.
FlowsSettle == <>[]((part = "stream" => Settled) /\ (part = "join" => JoinSettled))

\* Whatever is refused, cancelled or panics, DispatchAllWith returns: a slot is freed on
\* every path, so the launching loop never waits for one that nobody holds.
BatchReturns == part = "dispatch" ~> DispatchSettled

\* The type invariants of the parts.
FlowsTypeOK ==
  /\ StreamTypeOK /\ SseTypeOK /\ DispatchTypeOK /\ JoinTypeOK /\ RouterTypeOK
  /\ WindowTypeOK
===============================================================================
