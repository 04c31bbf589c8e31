------------------------------ MODULE StreamPipe ------------------------------
(***************************************************************************)
(* Streamed turns, from the provider's goroutine to the caller's.  A call  *)
(* of Provider.Stream opens a pipe: readSSE writes events to a channel, and*)
(* the goroutine of the concurrency limit forwards them while its slot is  *)
(* held.  The runtime's goroutine runs the one step of a turn, with the    *)
(* retry middleware around it, writes what it reads to the turn's channel  *)
(* and ends with Done or Error; for a transfer stream one more goroutine   *)
(* adopts the child's state before it passes Done on.  streaming.Runner is *)
(* the consumer.  The streams share the provider, hence its slots, with the*)
(* calls of Provider.Complete.                                             *)
(*                                                                         *)
(* A pipe is one attempt of one stream: a failed attempt may leave its     *)
(* goroutines behind.  What the lines of a provider mean is SseEvents; the *)
(* steps of a turn and the tools between them are TurnEngine.              *)
(***************************************************************************)
EXTENDS Naturals, Sequences, FiniteSets

CONSTANTS
  Streams,       \* calls of Runtime.Stream
  Transferred,   \* those of Runtime.TransferStream among them
  Completers,    \* calls of Provider.Complete
  MaxInFlight,   \* WithConcurrencyLimit
  MaxAttempts,   \* [Streams -> Nat], RetryStreamingMiddleware, 1 for none
  MaxSetups,     \* requests the retry policy of WithRetry allows a call
  MaxRequests,   \* MaxRetries of llmhttp
  Buffer,        \* capacity of the buffered channels (64, 64 and 128 in the code)
  MaxEvents,     \* [Streams -> Nat], bound: events of an attempt before its last
  MaxMutations   \* bound: changes of the transfer streams' parent runtime

ASSUME StreamsAssumption ==
  /\ Transferred \subseteq Streams /\ Streams \cap Completers = {}
  /\ MaxAttempts \in [Streams -> Nat \ {0}] /\ MaxEvents \in [Streams -> Nat]
ASSUME PipeAssumption ==
  /\ MaxInFlight \in Nat \ {0} /\ MaxSetups \in Nat \ {0} /\ MaxRequests \in Nat \ {0}
  /\ Buffer \in Nat \ {0} /\ MaxMutations \in Nat

Attempts(s) == 1 .. MaxAttempts[s]
Pipes == UNION {{s} \X Attempts(s) : s \in Streams}

VARIABLES
  cancelled,  \* streams and calls whose context has ended
  attempt,    \* the attempt the middleware is at
  setups,     \* requests made for that attempt
  turn,       \* where the runtime's goroutine stands
  hand,       \* event it is about to write, or NoEvent
  reader,     \* readSSE of a pipe: "none", "reading", or how it ended: "done", "error", "left"
  sent,       \* events it has written before the terminal one
  source,     \* the channel it writes to
  slot,       \* the limiter's goroutine: "none", "opening", "held", "released", "closed"
  limited,    \* the channel it writes to
  out,        \* the turn's channel
  relay,      \* the adopting goroutine: "range", "adopt", "send" or "closed"
  relayed,    \* event it holds, or NoEvent
  consumer,   \* "reading", "waiting" (in the second select of nextEvent), "ended", "left"
  got,        \* events the consumer has handled
  generation, \* of the parent runtime; the transfer streams captured 0
  published,  \* streams whose runtime has published the turn
  adopted,    \* transfer streams: "no", "yes", or "stale" when the check refused
  gaveUp,     \* streams that could not write because nobody read
  call,       \* where a call of Complete stands
  requests    \* HTTP requests it has made, and rounds of its retry policy

turnVars == <<attempt, setups, turn, hand, published, gaveUp>>
providerVars == <<reader, sent, source, slot, limited>>
outerVars == <<relay, relayed, consumer, got, generation, adopted, call, requests>>
streamVars == <<cancelled, turnVars, providerVars, out, outerVars>>

-------------------------------------------------------------------------------
(* Events and channels *)

NoEvent == [kind |-> "none", attempt |-> 0, n |-> 0]
Data(a, n) == [kind |-> "data", attempt |-> a, n |-> n]
Final == [kind |-> "final", attempt |-> 0, n |-> 0]
Done == [kind |-> "done", attempt |-> 0, n |-> 0]
Error == [kind |-> "error", attempt |-> 0, n |-> 0]
Events ==
  {NoEvent, Final, Done, Error} \cup
  UNION {{Data(a, n) : a \in Attempts(s), n \in 1 .. MaxEvents[s]} : s \in Streams}
Terminal(e) == e.kind \in {"done", "error"}

HasRoom(channel) == Len(channel) < Buffer

Pipe(s) == <<s, attempt[s]>>

\* The pipes and calls whose slot is taken.
Holding ==
  {p \in Pipes : slot[p] \in {"opening", "held"}} \cup
  {k \in Completers : call[k] \in {"request", "backoff"}}

\* The streams and completions of called are called, the others never are.
StreamInit(called) ==
  /\ cancelled = {}
  /\ attempt = [s \in Streams |-> 1]
  /\ setups = [s \in Streams |-> 0]
  /\ turn = [s \in Streams |-> IF s \in called THEN "acquire" ELSE "closed"]
  /\ hand = [s \in Streams |-> NoEvent]
  /\ reader = [p \in Pipes |-> "none"]
  /\ sent = [p \in Pipes |-> 0]
  /\ source = [p \in Pipes |-> <<>>]
  /\ slot = [p \in Pipes |-> "none"]
  /\ limited = [p \in Pipes |-> <<>>]
  /\ out = [s \in Streams |-> <<>>]
  /\ relay = [s \in Streams |-> IF s \in Transferred \cap called THEN "range" ELSE "closed"]
  /\ relayed = [s \in Streams |-> NoEvent]
  /\ consumer = [s \in Streams |-> IF s \in called THEN "reading" ELSE "left"]
  /\ got = [s \in Streams |-> <<>>]
  /\ generation = 0
  /\ published = {}
  /\ adopted = [s \in Streams |-> "no"]
  /\ gaveUp = {}
  /\ call = [k \in Completers |-> IF k \in called THEN "acquire" ELSE "ok"]
  /\ requests = [k \in Completers |-> [http |-> 0, round |-> 1]]

-------------------------------------------------------------------------------
(* The provider: readSSE and the goroutine of the concurrency limit *)

\* sendEvent writes the event a line stands for.  An event that is Done or Error
\* is the last: readSSE returns and closes the channel.
ReadEvent(p) ==
  /\ reader[p] = "reading" /\ HasRoom(source[p])
  /\ \/ /\ sent[p] < MaxEvents[p[1]]
        /\ sent' = [sent EXCEPT ![p] = @ + 1]
        /\ source' = [source EXCEPT ![p] = Append(@, Data(p[2], sent[p] + 1))]
        /\ UNCHANGED reader
     \/ \E e \in {Done, Error} :
          /\ source' = [source EXCEPT ![p] = Append(@, e)]
          /\ reader' = [reader EXCEPT ![p] = e.kind]
          /\ UNCHANGED sent
  /\ UNCHANGED <<cancelled, turnVars, slot, limited, out, outerVars>>

\* sendEvent gives up when the context has ended: the channel is closed as it is.
AbandonRead(p) ==
  /\ reader[p] = "reading" /\ p[1] \in cancelled
  /\ reader' = [reader EXCEPT ![p] = "left"]
  /\ UNCHANGED <<cancelled, turnVars, sent, source, slot, limited, out, outerVars>>

\* for event := range source: the write that follows watches no context.
Forward(p) ==
  /\ slot[p] = "held" /\ source[p] # <<>> /\ HasRoom(limited[p])
  /\ limited' = [limited EXCEPT ![p] = Append(@, Head(source[p]))]
  /\ source' = [source EXCEPT ![p] = Tail(@)]
  /\ UNCHANGED <<cancelled, turnVars, reader, sent, slot, out, outerVars>>

\* Mutant: the slot is released as soon as the reader has ended, read or not.
MutantSourceEnded(p) == reader[p] = "reading" => HasRoom(limited[p])

\* The source is closed and drained.
SourceEnded(p) == reader[p] \in {"done", "error", "left"} /\ source[p] = <<>>

\* The deferred calls, in their order: the slot first, then the channel.
ReleaseSlot(p) ==
  /\ slot[p] = "held" /\ SourceEnded(p)
  /\ slot' = [slot EXCEPT ![p] = "released"]
  /\ UNCHANGED <<cancelled, turnVars, reader, sent, source, limited, out, outerVars>>

CloseLimited(p) ==
  /\ slot[p] = "released"
  /\ slot' = [slot EXCEPT ![p] = "closed"]
  /\ UNCHANGED <<cancelled, turnVars, reader, sent, source, limited, out, outerVars>>

Provide(p) ==
  ReadEvent(p) \/ AbandonRead(p) \/ Forward(p) \/ ReleaseSlot(p) \/ CloseLimited(p)

-------------------------------------------------------------------------------
(* Provider.Complete: the retry policy, the concurrency limit, the HTTP retries *)

CallGoto(k, label) == call' = [call EXCEPT ![k] = label]

\* An attempt that fails asks the policy of WithRetry for another, which takes a
\* slot of its own.
CallFails(k) ==
  IF requests[k].round < MaxSetups
  THEN \/ /\ CallGoto(k, "acquire")
          /\ requests' = [requests EXCEPT ![k] = [http |-> 0, round |-> @.round + 1]]
       \/ CallGoto(k, "error") /\ UNCHANGED requests
  ELSE CallGoto(k, "error") /\ UNCHANGED requests

CallAcquire(k) ==
  /\ call[k] = "acquire" /\ Cardinality(Holding) < MaxInFlight
  /\ CallGoto(k, "request")
  /\ UNCHANGED requests

\* The context ends the wait for a slot, or the wait between two requests.
CallCancelled(k) ==
  /\ k \in cancelled
  /\ call[k] \in {"acquire", "backoff"}
  /\ CallFails(k)

\* DoJSONWithRetry: an answer, a status that is not worth a retry, or one that is
\* (a transport error, 429, 5xx) while there are requests left.
CallRequest(k) ==
  /\ call[k] = "request"
  /\ \/ CallGoto(k, "ok") /\ UNCHANGED requests
     \/ CallFails(k)
     \/ /\ requests[k].http + 1 < MaxRequests
        /\ requests' = [requests EXCEPT ![k].http = @ + 1]
        /\ CallGoto(k, "backoff")

CallBackoff(k) == call[k] = "backoff" /\ CallGoto(k, "request") /\ UNCHANGED requests

Complete(k) ==
  /\ CallAcquire(k) \/ CallCancelled(k) \/ CallRequest(k) \/ CallBackoff(k)
  /\ UNCHANGED <<cancelled, turnVars, providerVars, out, relay, relayed, consumer, got,
                 generation, adopted>>

-------------------------------------------------------------------------------
(* The runtime's goroutine *)

Goto(s, label) == turn' = [turn EXCEPT ![s] = label]

\* The step has failed: the middleware tries again while it has attempts left.
StepFails(s) ==
  /\ Goto(s, IF attempt[s] < MaxAttempts[s] THEN "backoff" ELSE "fail")
  /\ hand' = [hand EXCEPT ![s] = NoEvent]

\* acquire, in either order of its select.
Acquire(s) ==
  /\ turn[s] = "acquire" /\ Cardinality(Holding) < MaxInFlight
  /\ slot' = [slot EXCEPT ![Pipe(s)] = "opening"]
  /\ Goto(s, "open")
  /\ UNCHANGED <<cancelled, attempt, setups, hand, published, gaveUp, reader, sent,
                 source, limited, out, outerVars>>
AcquireCancelled(s) ==
  /\ turn[s] = "acquire" /\ s \in cancelled
  /\ StepFails(s)
  /\ UNCHANGED <<cancelled, attempt, setups, published, gaveUp, providerVars, out, outerVars>>

\* The request succeeds: both goroutines of the pipe start.
Open(s) ==
  /\ turn[s] = "open"
  /\ slot' = [slot EXCEPT ![Pipe(s)] = "held"]
  /\ reader' = [reader EXCEPT ![Pipe(s)] = "reading"]
  /\ Goto(s, "recv")
  /\ UNCHANGED <<cancelled, attempt, setups, hand, published, gaveUp, sent, source,
                 limited, out, outerVars>>

\* Mutant: an error of the request keeps the slot.
MutantOpenFails(s) ==
  /\ turn[s] = "open"
  /\ setups' = [setups EXCEPT ![s] = @ + 1]
  /\ StepFails(s)
  /\ UNCHANGED <<cancelled, attempt, published, gaveUp, providerVars, out, outerVars>>

\* The request fails and gives the slot back; the retry policy, outermost of the
\* wrappers, asks for another request or passes the error on.  A wait that the
\* context ends (waitForRetry) passes an error on too.
OpenFails(s) ==
  /\ turn[s] = "open"
  /\ slot' = [slot EXCEPT ![Pipe(s)] = "none"]
  /\ setups' = [setups EXCEPT ![s] = @ + 1]
  /\ \/ setups[s] + 1 < MaxSetups /\ Goto(s, "acquire") /\ UNCHANGED hand
     \/ StepFails(s)
  /\ UNCHANGED <<cancelled, attempt, published, gaveUp, reader, sent, source, limited,
                 out, outerVars>>

\* executeStreamingStep reads one event.
Receive(s) ==
  /\ turn[s] = "recv" /\ limited[Pipe(s)] # <<>>
  /\ limited' = [limited EXCEPT ![Pipe(s)] = Tail(@)]
  /\ LET e == Head(limited[Pipe(s)])
     IN  CASE e.kind = "error" -> StepFails(s)
           [] e.kind = "done" -> Goto(s, "publish") /\ UNCHANGED hand
           [] OTHER -> Goto(s, "emit") /\ hand' = [hand EXCEPT ![s] = e]
  /\ UNCHANGED <<cancelled, attempt, setups, published, gaveUp, reader, sent, source,
                 slot, out, outerVars>>

\* Mutant: a closed channel is taken for the end of the answer.
MutantReceiveClosed(s) ==
  /\ turn[s] = "recv" /\ limited[Pipe(s)] = <<>> /\ slot[Pipe(s)] = "closed"
  /\ Goto(s, "publish")
  /\ UNCHANGED <<cancelled, attempt, setups, hand, published, gaveUp, providerVars, out,
                 outerVars>>

\* "stream ended without terminal event"
ReceiveClosed(s) ==
  /\ turn[s] = "recv" /\ limited[Pipe(s)] = <<>> /\ slot[Pipe(s)] = "closed"
  /\ StepFails(s)
  /\ UNCHANGED <<cancelled, attempt, setups, published, gaveUp, providerVars, out, outerVars>>

\* The select may prefer the context to an event that is ready.
ReceiveCancelled(s) ==
  /\ turn[s] = "recv" /\ s \in cancelled
  /\ StepFails(s)
  /\ UNCHANGED <<cancelled, attempt, setups, published, gaveUp, providerVars, out, outerVars>>

\* Mutant: the new attempt inherits the requests of the old one.
MutantRetry(s) ==
  /\ turn[s] = "backoff"
  /\ \/ attempt' = [attempt EXCEPT ![s] = @ + 1] /\ Goto(s, "acquire")
     \/ s \in cancelled /\ Goto(s, "fail") /\ UNCHANGED attempt
  /\ UNCHANGED <<cancelled, setups, hand, published, gaveUp, providerVars, out, outerVars>>

\* The backoff is over, or the context ends it.
Retry(s) ==
  /\ turn[s] = "backoff"
  /\ \/ /\ attempt' = [attempt EXCEPT ![s] = @ + 1]
        /\ setups' = [setups EXCEPT ![s] = 0]
        /\ Goto(s, "acquire")
     \/ s \in cancelled /\ Goto(s, "fail") /\ UNCHANGED <<attempt, setups>>
  /\ UNCHANGED <<cancelled, hand, published, gaveUp, providerVars, out, outerVars>>

\* The turn is saved and published, or a store, the compactor or a panic fails it.
Publish(s) ==
  /\ turn[s] = "publish"
  /\ \/ published' = published \cup {s} /\ Goto(s, "final")
     \/ Goto(s, "fail") /\ UNCHANGED published
  /\ UNCHANGED <<cancelled, attempt, setups, hand, gaveUp, providerVars, out, outerVars>>

\* What the goroutine writes at each place.
ToWrite(s) ==
  CASE turn[s] = "emit" -> hand[s]
    [] turn[s] = "final" -> Final
    [] turn[s] = "done" -> Done
    [] turn[s] = "fail" -> Error
    [] OTHER -> NoEvent

\* sendStreamingEvent succeeds.  After Done or Error the deferred close follows.
Emit(s) ==
  /\ ToWrite(s) # NoEvent /\ HasRoom(out[s])
  /\ out' = [out EXCEPT ![s] = Append(@, ToWrite(s))]
  /\ Goto(s, CASE turn[s] = "emit" -> "recv" [] turn[s] = "final" -> "done" [] OTHER -> "closed")
  /\ hand' = [hand EXCEPT ![s] = NoEvent]
  /\ UNCHANGED <<cancelled, attempt, setups, published, gaveUp, providerVars, outerVars>>

\* The channel is full and the context ends, or streamSendTimeout passes.  In the
\* step that is an error of the step; after the step the turn reports an error;
\* an error that cannot be reported closes the channel without a terminal event.
EmitFails(s) ==
  /\ ToWrite(s) # NoEvent /\ ~HasRoom(out[s])
  /\ gaveUp' = gaveUp \cup {s}
  /\ CASE turn[s] = "emit" -> StepFails(s)
       [] turn[s] = "fail" -> Goto(s, "closed") /\ UNCHANGED hand
       [] OTHER -> Goto(s, "fail") /\ UNCHANGED hand
  /\ UNCHANGED <<cancelled, attempt, setups, published, providerVars, out, outerVars>>

Turn(s) ==
  \/ Acquire(s) \/ AcquireCancelled(s) \/ Open(s) \/ OpenFails(s)
  \/ Receive(s) \/ ReceiveClosed(s) \/ ReceiveCancelled(s) \/ Retry(s)
  \/ Publish(s) \/ Emit(s) \/ EmitFails(s)

-------------------------------------------------------------------------------
(* The adopting goroutine and the consumer *)

\* Mutant: Done is passed on first and adopted never.
MutantRelayTake(s) ==
  /\ relay[s] = "range" /\ out[s] # <<>>
  /\ relayed' = [relayed EXCEPT ![s] = Head(out[s])]
  /\ out' = [out EXCEPT ![s] = Tail(@)]
  /\ relay' = [relay EXCEPT ![s] = "send"]
  /\ UNCHANGED <<cancelled, turnVars, providerVars, consumer, got, generation, adopted,
                 call, requests>>

\* adoptTransferStreamOnDone reads from the child's channel.
RelayTake(s) ==
  /\ relay[s] = "range" /\ out[s] # <<>>
  /\ relayed' = [relayed EXCEPT ![s] = Head(out[s])]
  /\ out' = [out EXCEPT ![s] = Tail(@)]
  /\ relay' = [relay EXCEPT ![s] = IF Head(out[s]) = Done THEN "adopt" ELSE "send"]
  /\ UNCHANGED <<cancelled, turnVars, providerVars, consumer, got, generation, adopted,
                 call, requests>>

\* adoptRuntimeState compares the generation it was given.
MayAdopt == generation = 0

Adopt(s) ==
  /\ relay[s] = "adopt"
  /\ adopted' = [adopted EXCEPT ![s] = IF MayAdopt THEN "yes" ELSE "stale"]
  /\ relay' = [relay EXCEPT ![s] = "send"]
  /\ UNCHANGED <<cancelled, turnVars, providerVars, out, relayed, consumer, got, generation,
                 call, requests>>

RelayClose(s) ==
  /\ relay[s] = "range" /\ out[s] = <<>> /\ turn[s] = "closed"
  /\ relay' = [relay EXCEPT ![s] = "closed"]
  /\ UNCHANGED <<cancelled, turnVars, providerVars, out, relayed, consumer, got, generation,
                 adopted, call, requests>>

\* The event the consumer's channel would give it now: the unbuffered channel of a
\* transfer stream has one while the adopting goroutine blocks on it.
Ready(s) ==
  IF s \in Transferred THEN IF relay[s] = "send" THEN relayed[s] ELSE NoEvent
  ELSE IF out[s] # <<>> THEN Head(out[s]) ELSE NoEvent

\* The consumer's channel is closed and drained.
ReadClosed(s) == Ready(s) = NoEvent /\ relay[s] = "closed" /\ turn[s] = "closed"

Reading(s) == consumer[s] \in {"reading", "waiting"}

\* The first select of nextEvent finds nothing.
Wait(s) ==
  /\ consumer[s] = "reading" /\ Ready(s) = NoEvent /\ ~ReadClosed(s)
  /\ consumer' = [consumer EXCEPT ![s] = "waiting"]
  /\ UNCHANGED <<cancelled, turnVars, providerVars, out, relay, relayed, got, generation,
                 adopted, call, requests>>

\* Runner.Run and Collect handle an event and stop at Done, at Error or when a
\* handler fails.
Consume(s) ==
  /\ Reading(s) /\ Ready(s) # NoEvent
  /\ got' = [got EXCEPT ![s] = Append(@, Ready(s))]
  /\ IF Terminal(Ready(s))
     THEN consumer' = [consumer EXCEPT ![s] = "ended"]
     ELSE \E c \in {"reading", "left"} : consumer' = [consumer EXCEPT ![s] = c]
  /\ IF s \in Transferred
     THEN /\ relay' = [relay EXCEPT ![s] = "range"]
          /\ relayed' = [relayed EXCEPT ![s] = NoEvent]
          /\ UNCHANGED out
     ELSE /\ out' = [out EXCEPT ![s] = Tail(@)]
          /\ UNCHANGED <<relay, relayed>>
  /\ UNCHANGED <<cancelled, turnVars, providerVars, generation, adopted, call, requests>>

\* The consumer's channel is closed: Run and Collect return without an error.
ConsumeClosed(s) ==
  /\ Reading(s) /\ ReadClosed(s)
  /\ consumer' = [consumer EXCEPT ![s] = "ended"]
  /\ UNCHANGED <<cancelled, turnVars, providerVars, out, relay, relayed, got, generation,
                 adopted, call, requests>>

\* The second select takes the context that has ended, also when an event has become
\* ready since the first.
ConsumeCancelled(s) ==
  /\ consumer[s] = "waiting" /\ s \in cancelled
  /\ consumer' = [consumer EXCEPT ![s] = "left"]
  /\ UNCHANGED <<cancelled, turnVars, providerVars, out, relay, relayed, got, generation,
                 adopted, call, requests>>

\* The context of the call ends; the application changes the parent runtime
\* while a transfer stream is under way.
Cancel(s) ==
  /\ s \notin cancelled
  /\ IF s \in Streams THEN turn[s] # "closed" \/ Reading(s) ELSE call[s] \notin {"ok", "error"}
  /\ cancelled' = cancelled \cup {s}
  /\ UNCHANGED <<turnVars, providerVars, out, outerVars>>
MutateParent ==
  /\ generation < MaxMutations
  /\ \E s \in Transferred : relay[s] # "closed"
  /\ generation' = generation + 1
  /\ UNCHANGED <<cancelled, turnVars, providerVars, out, relay, relayed, consumer, got, adopted,
                 call, requests>>

Relay(s) == RelayTake(s) \/ Adopt(s) \/ RelayClose(s)
ReadOut(s) == Wait(s) \/ Consume(s) \/ ConsumeClosed(s) \/ ConsumeCancelled(s)

Running ==
  \/ \E p \in Pipes : Provide(p)
  \/ \E s \in Streams : Turn(s) \/ Relay(s) \/ ReadOut(s)
  \/ \E k \in Completers : Complete(k)

StreamNext ==
  \/ Running
  \/ \E s \in Streams \cup Completers : Cancel(s)
  \/ MutateParent

-------------------------------------------------------------------------------
(* Properties *)

\* Type invariant: also, an event is in hand just where one is written, and a pipe is
\* read from its opening on.
StreamTypeOK ==
  /\ cancelled \subseteq Streams \cup Completers
  /\ published \subseteq Streams /\ gaveUp \subseteq Streams
  /\ (\A s \in Streams : attempt[s] \in Attempts(s)) /\ setups \in [Streams -> 0 .. MaxSetups]
  /\ turn \in [Streams -> {"acquire", "open", "recv", "emit", "backoff", "publish",
                           "final", "done", "fail", "closed"}]
  /\ hand \in [Streams -> Events] /\ relayed \in [Streams -> Events]
  /\ \A s \in Streams : (hand[s] # NoEvent) = (turn[s] = "emit")
  /\ \A s \in Streams : (relayed[s] # NoEvent) = (relay[s] \in {"adopt", "send"})
  /\ \A p \in Pipes :
       /\ Len(source[p]) <= Buffer /\ Len(limited[p]) <= Buffer
       /\ sent[p] \in 0 .. MaxEvents[p[1]]
       /\ (slot[p] \in {"none", "opening"}) = (reader[p] = "none")
  /\ \A s \in Streams : Len(out[s]) <= Buffer
  /\ call \in [Completers -> {"acquire", "request", "backoff", "ok", "error"}]

\* Data events come in the order in which the provider wrote them, none twice, and
\* each follows the one before it, the first of an attempt excepted.
Before(d, e) == d.attempt < e.attempt \/ (d.attempt = e.attempt /\ d.n < e.n)
InOrder(events) == \A i \in DOMAIN events :
  events[i].kind = "data" =>
    /\ \A j \in 1 .. i - 1 : events[j].kind = "data" => Before(events[j], events[i])
    /\ events[i].n # 1 =>
         \E j \in 1 .. i - 1 : events[j] = Data(events[i].attempt, events[i].n - 1)

\* The data events of an attempt are its first m.
Told(events, a, m) ==
  {e \in {events[i] : i \in DOMAIN events} : e.kind = "data" /\ e.attempt = a}
    = {Data(a, n) : n \in 1 .. m}

\* What a consumer has handled are the events of the provider in their order:
\* attempt after attempt, each from its first event and without a gap, whatever a
\* failed attempt has left in its channels, and a terminal event last.  Done means
\* that the provider has said so and that every event of the attempt that succeeded
\* has been handled.  A channel closed without a terminal event, which Run and Collect
\* take for success, means that the runtime could not write (executeStreamingStep,
\* Stream, Runner.Run).
StreamInOrder == \A s \in Streams :
  LET handled == {got[s][i] : i \in DOMAIN got[s]}
  IN  /\ InOrder(got[s])
      /\ \A i \in 1 .. Len(got[s]) - 1 : ~Terminal(got[s][i])
      /\ Done \in handled =>
           reader[Pipe(s)] = "done" /\ Told(got[s], attempt[s], sent[Pipe(s)])
      /\ consumer[s] = "ended" /\ (\A e \in handled : ~Terminal(e)) => s \in gaveUp

\* Never do more responses stream from the provider than the concurrency limit
\* allows, and a channel the limiter has closed no longer occupies a slot
\* (concurrencyLimitedProvider.Stream).
ConcurrencyHeld ==
  /\ Cardinality(Holding) <= MaxInFlight
  /\ Cardinality({p \in Pipes : reader[p] = "reading"}) <= MaxInFlight

\* When the consumer of a transfer stream sees Done, the parent has either adopted
\* the child's published turn or refused it because it was itself changed; without
\* Done, after a turn that failed or whose Done nobody could take, the parent is
\* as it was (adoptTransferStreamOnDone, adoptRuntimeState).
AdoptedBeforeDone == \A s \in Transferred :
  /\ Done \in {got[s][i] : i \in DOMAIN got[s]} => adopted[s] # "no"
  /\ adopted[s] # "no" => s \in published /\ Error \notin {got[s][i] : i \in DOMAIN got[s]}

\* Nobody reads the pipe any more and its channels have filled up: the limiter's
\* goroutine waits for ever on a write that watches no context.
Stuck(p) ==
  /\ slot[p] = "held" /\ source[p] # <<>> /\ ~HasRoom(limited[p])
  /\ ~(p = Pipe(p[1]) /\ turn[p[1]] \in {"recv", "emit"})

InCall(s) ==
  IF s \in Streams THEN turn[s] # "closed" \/ Reading(s)
  ELSE call[s] \notin {"ok", "error"}
Waits(s) == s \notin cancelled /\ (IF s \in Streams THEN turn[s] ELSE call[s]) = "acquire"

\* In the end every turn has closed its channel, every call has returned and every
\* consumer that did not leave has been served, and every slot is back, with one
\* exception: a pipe its reader left with more events than the channels hold keeps
\* its slot for good (wrappers.go:119), and then calls nobody cancels may wait for it.
Settled ==
  /\ \A p \in Pipes \cap Holding : Stuck(p)
  /\ Completers \cap Holding = {}
  /\ \A s \in Streams \cup Completers :
       InCall(s) => Waits(s) /\ \E p \in Pipes : Stuck(p)
StreamsSettle == <>[]Settled

StreamSpec ==
  (\E called \in SUBSET (Streams \cup Completers) : StreamInit(called))
  /\ [][StreamNext]_streamVars

\* Some goroutine or consumer that can go on does: a reader gets a line, an error or
\* the end of the response at the latest when the HTTP client times out, and timers
\* fire.  Fairness of each of them implies this.
StreamFairness == WF_streamVars(Running)
===============================================================================
