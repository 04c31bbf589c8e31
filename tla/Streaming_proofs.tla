--------------------------- MODULE Streaming_proofs ---------------------------
(***************************************************************************)
(* What holds of streamed turns for every number of streams and calls,     *)
(* every limit and every capacity of the channels, and of the tool calls   *)
(* they carry for every response.  The invariant of the streams has three  *)
(* layers: the provider's pipes and their slots (PipeInv), the way of an   *)
(* event from the turn's channel to the consumer (FlowInv) and its way     *)
(* from the provider to the turn's channel (OrderInv).  The invariant of   *)
(* the tool calls (SseInv) says what the assembler holds when a response   *)
(* has come so far.                                                        *)
(***************************************************************************)
EXTENDS StreamPipe, SseEvents, Selections_proofs

-------------------------------------------------------------------------------
(* The pipes and the slots *)

\* The events there are: NoEvent is none.
Written == Events \ {NoEvent}

StreamTypes ==
  /\ cancelled \subseteq Streams \cup Completers
  /\ published \subseteq Streams /\ gaveUp \subseteq Streams
  /\ attempt \in [Streams -> Nat] /\ \A s \in Streams : attempt[s] \in Attempts(s)
  /\ setups \in [Streams -> 0 .. MaxSetups]
  /\ turn \in [Streams -> {"acquire", "open", "recv", "emit", "backoff", "publish",
                           "final", "done", "fail", "closed"}]
  /\ hand \in [Streams -> Events] /\ relayed \in [Streams -> Events]
  /\ reader \in [Pipes -> {"none", "reading", "done", "error", "left"}]
  /\ sent \in [Pipes -> Nat]
  /\ source \in [Pipes -> Seq(Written)] /\ limited \in [Pipes -> Seq(Written)]
  /\ slot \in [Pipes -> {"none", "opening", "held", "released", "closed"}]
  /\ out \in [Streams -> Seq(Written)] /\ got \in [Streams -> Seq(Written)]
  /\ relay \in [Streams -> {"range", "adopt", "send", "closed"}]
  /\ consumer \in [Streams -> {"reading", "waiting", "ended", "left"}]
  /\ generation \in Nat
  /\ adopted \in [Streams -> {"no", "yes", "stale"}]
  /\ call \in [Completers -> {"acquire", "request", "backoff", "ok", "error"}]
  /\ requests \in [Completers -> [http : Nat, round : Nat]]

\* A pipe nobody has opened is empty, one that is being opened is the one its
\* stream is at, its slot is held while it is read, and a slot is given back when
\* all that was read has been forwarded.
PipeOK(p) ==
  /\ Len(source[p]) <= Buffer /\ Len(limited[p]) <= Buffer
  /\ sent[p] \in 0 .. MaxEvents[p[1]]
  /\ (slot[p] \in {"none", "opening"}) = (reader[p] = "none")
  /\ reader[p] = "reading" => slot[p] = "held"
  /\ reader[p] = "none" => source[p] = <<>> /\ limited[p] = <<>> /\ sent[p] = 0
  /\ p[2] > attempt[p[1]] => slot[p] = "none"
  /\ slot[p] = "opening" => p = Pipe(p[1]) /\ turn[p[1]] = "open"
  /\ slot[p] \in {"released", "closed"} => source[p] = <<>>

\* A goroutine that wants a slot has none, and requests it may still make.
TurnOK(s) ==
  /\ turn[s] = "acquire" => slot[Pipe(s)] = "none"
  /\ turn[s] = "open" => slot[Pipe(s)] = "opening"
  /\ turn[s] \in {"acquire", "open"} => setups[s] < MaxSetups
  /\ turn[s] = "backoff" => attempt[s] < MaxAttempts[s]
  /\ (hand[s] # NoEvent) = (turn[s] = "emit")
  /\ (relayed[s] # NoEvent) = (relay[s] \in {"adopt", "send"})
  /\ Len(out[s]) <= Buffer

SlotsOK == IsFiniteSet(Holding) /\ Cardinality(Holding) <= MaxInFlight

PipeInv ==
  StreamTypes /\ (\A p \in Pipes : PipeOK(p)) /\ (\A s \in Streams : TurnOK(s)) /\ SlotsOK

-------------------------------------------------------------------------------
(* From the turn's channel to the consumer *)

\* What a stream's turn has written: handled, with the adopting goroutine, or still
\* in the channel.
Held(e) == IF e = NoEvent THEN <<>> ELSE <<e>>
Flow(s) == (got[s] \o Held(relayed[s])) \o out[s]

Elements(events) == {events[i] : i \in DOMAIN events}

\* A terminal event is the last.
EndsOnce(events) == \A i \in 1 .. Len(events) - 1 : ~Terminal(events[i])
Ended(events) == \E e \in Elements(events) : Terminal(e)

FlowOK(s) ==
  /\ EndsOnce(Flow(s))
  /\ Ended(Flow(s)) => turn[s] = "closed"
  /\ turn[s] = "closed" => Ended(Flow(s)) \/ s \in gaveUp \/ consumer[s] = "left"
  /\ Done \in Elements(Flow(s)) \/ turn[s] \in {"final", "done"} => s \in published
  /\ consumer[s] = "ended" => Ended(got[s]) \/ s \in gaveUp
  /\ ~Terminal(hand[s])

\* The adopting goroutine: one who does not transfer has none, it closes after the
\* turn, and has adopted when it passes Done on.
RelayOK(s) ==
  /\ s \notin Transferred => relay[s] = "closed"
  /\ s \in Transferred /\ relay[s] = "closed" => turn[s] = "closed" /\ out[s] = <<>>
  /\ relay[s] = "adopt" => relayed[s] = Done
  /\ adopted[s] # "no" <=>
       s \in Transferred /\ (Done \in Elements(got[s]) \/ (relay[s] = "send" /\ relayed[s] = Done))

FlowInv == \A s \in Streams : FlowOK(s) /\ RelayOK(s)

-------------------------------------------------------------------------------
(* From the provider to the turn's channel *)

\* The channels of a pipe hold, after the first m events of the attempt, the others
\* in order and the terminal event the reader has ended with.
Remains(lines, a, m, written, end) ==
  LET left == written - m
  IN  /\ m <= written
      /\ \A i \in 1 .. left : lines[i] = Data(a, m + i)
      /\ Len(lines) = IF end \in {"done", "error"} THEN left + 1 ELSE left
      /\ end = "done" => lines[left + 1] = Done
      /\ end = "error" => lines[left + 1] = Error
Carries(p, m) == Remains(limited[p] \o source[p], p[2], m, sent[p], reader[p])

\* No attempt after the a-th has told anything.
AttemptsUpTo(l, a) == \A e \in Elements(l) : e.kind = "data" => e.attempt <= a

\* Of the attempt a stream is at, nothing is told before its pipe is opened, then
\* what the pipe no longer carries, and everything once the provider has said Done.
OrderOK(s) ==
  /\ InOrder(Flow(s))
  /\ AttemptsUpTo(Flow(s), attempt[s])
  /\ turn[s] \in {"acquire", "open"} => Told(Flow(s), attempt[s], 0)
  /\ turn[s] = "recv" => \E m \in Nat : Carries(Pipe(s), m) /\ Told(Flow(s), attempt[s], m)
  /\ turn[s] = "emit" => \E m \in Nat :
       /\ Carries(Pipe(s), m + 1) /\ Told(Flow(s), attempt[s], m)
       /\ hand[s] = Data(attempt[s], m + 1)
  /\ turn[s] \in {"publish", "final", "done"} \/ Done \in Elements(Flow(s)) =>
       reader[Pipe(s)] = "done" /\ Told(Flow(s), attempt[s], sent[Pipe(s)])

OrderInv == \A s \in Streams : OrderOK(s)


-------------------------------------------------------------------------------
(* Facts about events, pipes and slots *)

\* Events of different kinds differ, and a data event is told by its attempt and number.
LEMMA EventFacts ==
  /\ \A e \in Written :
       /\ e # NoEvent
       /\ Terminal(e) <=> e = Done \/ e = Error
       /\ e.kind = "data" =>
            /\ e = Data(e.attempt, e.n) /\ e.attempt \in Nat /\ e.n \in Nat \ {0}
       /\ e.kind = "error" <=> e = Error
       /\ e.kind = "done" <=> e = Done
  /\ Final \in Written /\ Done \in Written /\ Error \in Written
  /\ Final # NoEvent /\ Done # NoEvent /\ Error # NoEvent
  /\ Terminal(Done) /\ Terminal(Error) /\ ~Terminal(Final) /\ Done # Error /\ Final # Done
  /\ Final.kind # "data" /\ Done.kind = "done" /\ Error.kind = "error"
PROOF
<1>1. \A s \in Streams : Attempts(s) \subseteq Nat /\ 1 .. MaxEvents[s] \subseteq Nat \ {0}
  BY StreamsAssumption DEF Attempts
<1>2. SUFFICES ASSUME NEW e \in Written
               PROVE  /\ e # NoEvent
                      /\ Terminal(e) <=> e = Done \/ e = Error
                      /\ e.kind = "data" =>
                           /\ e = Data(e.attempt, e.n) /\ e.attempt \in Nat /\ e.n \in Nat \ {0}
                      /\ e.kind = "error" <=> e = Error
                      /\ e.kind = "done" <=> e = Done
  BY DEF Written, Events, NoEvent, Final, Done, Error, Terminal
<1>3. CASE e \in {Final, Done, Error}
  BY <1>3 DEF Written, NoEvent, Final, Done, Error, Terminal
<1>4. CASE \E s \in Streams : \E a \in Attempts(s), n \in 1 .. MaxEvents[s] : e = Data(a, n)
  <2>1. PICK s \in Streams, a \in Nat, n \in Nat \ {0} : e = Data(a, n)
    BY <1>1, <1>4
  <2> QED BY <2>1 DEF Data, NoEvent, Final, Done, Error, Terminal
<1> QED BY <1>3, <1>4 DEF Written, Events

\* A data event of an attempt is an event, told from the others by its number.
LEMMA DataFacts ==
  ASSUME NEW a, NEW n
  PROVE  /\ Data(a, n) # NoEvent /\ ~Terminal(Data(a, n))
         /\ Data(a, n).kind = "data" /\ Data(a, n).attempt = a /\ Data(a, n).n = n
         /\ Data(a, n) # Done /\ Data(a, n) # Error
PROOF BY DEF Data, NoEvent, Terminal, Done, Error

LEMMA DataWritten ==
  ASSUME NEW s \in Streams, NEW a \in Attempts(s), NEW n \in 1 .. MaxEvents[s]
  PROVE  Data(a, n) \in Written
PROOF BY DEF Written, Events, Data, NoEvent

\* A pipe is a stream and one of its attempts.
LEMMA PipeFacts ==
  /\ \A p \in Pipes : p = <<p[1], p[2]>> /\ p[1] \in Streams /\ p[2] \in Attempts(p[1])
  /\ \A p \in Pipes : p[2] \in Nat /\ MaxEvents[p[1]] \in Nat
  /\ \A s \in Streams, a \in Nat : a \in Attempts(s) => <<s, a>> \in Pipes
PROOF
<1>1. \A s \in Streams : Attempts(s) \subseteq Nat /\ MaxEvents[s] \in Nat
  BY StreamsAssumption DEF Attempts
<1>2. \A p \in Pipes : \E s \in Streams : \E a \in Attempts(s) : p = <<s, a>>
  BY DEF Pipes
<1>3. \A p \in Pipes : p = <<p[1], p[2]>> /\ p[1] \in Streams /\ p[2] \in Attempts(p[1])
  BY <1>2
<1>4. \A s \in Streams, a \in Nat : a \in Attempts(s) => <<s, a>> \in Pipes
  BY DEF Pipes
<1> QED BY <1>1, <1>3, <1>4

LEMMA PipeOfStream ==
  ASSUME StreamTypes, NEW s \in Streams
  PROVE  Pipe(s) \in Pipes /\ Pipe(s)[1] = s /\ Pipe(s)[2] = attempt[s] /\ attempt[s] \in Nat
PROOF BY PipeFacts DEF StreamTypes, Pipe

\* The slots that are taken become no more ...
LEMMA SlotsKept ==
  ASSUME SlotsOK, Holding' \subseteq Holding
  PROVE  SlotsOK'
PROOF
<1>1. IsFiniteSet(Holding') /\ Cardinality(Holding') <= Cardinality(Holding)
  BY FS_Subset DEF SlotsOK
<1>2. Cardinality(Holding) \in Nat /\ Cardinality(Holding') \in Nat
  BY <1>1, FS_CardinalityType DEF SlotsOK
<1> QED BY <1>1, <1>2, PipeAssumption DEF SlotsOK

\* ... or one more when there was one left.
LEMMA SlotTaken ==
  ASSUME SlotsOK, Cardinality(Holding) < MaxInFlight, NEW x, Holding' \subseteq Holding \cup {x}
  PROVE  SlotsOK'
PROOF
<1> IsFiniteSet(Holding)
  BY DEF SlotsOK
<1> Cardinality(Holding) \in Nat
  BY FS_CardinalityType
<1>0. /\ IsFiniteSet(Holding \cup {x})
      /\ Cardinality(Holding \cup {x}) =
           IF x \in Holding THEN Cardinality(Holding) ELSE Cardinality(Holding) + 1
  BY FS_AddElement
<1>1. /\ IsFiniteSet(Holding \cup {x})
      /\ Cardinality(Holding \cup {x}) <= Cardinality(Holding) + 1
  BY <1>0
<1>2. IsFiniteSet(Holding') /\ Cardinality(Holding') <= Cardinality(Holding \cup {x})
  BY <1>1, FS_Subset
<1>3. /\ Cardinality(Holding) \in Nat /\ Cardinality(Holding \cup {x}) \in Nat
      /\ Cardinality(Holding') \in Nat
  BY <1>1, <1>2, FS_CardinalityType DEF SlotsOK
<1> QED BY <1>1, <1>2, <1>3, PipeAssumption DEF SlotsOK


-------------------------------------------------------------------------------
(* Every step keeps PipeInv *)

LEMMA PipeInit ==
  ASSUME NEW called \in SUBSET (Streams \cup Completers), StreamInit(called)
  PROVE  PipeInv
PROOF
<1> USE DEF StreamInit
<1>1. \A s \in Streams : 1 \in Attempts(s)
  BY StreamsAssumption DEF Attempts
<1>2. StreamTypes
  BY <1>1, PipeAssumption, EventFacts DEF StreamTypes, Events
<1>3. \A p \in Pipes : PipeOK(p)
  BY PipeFacts, PipeAssumption DEF PipeOK
<1>4. \A s \in Streams : TurnOK(s)
  <2> SUFFICES ASSUME NEW s \in Streams
               PROVE  TurnOK(s)
    OBVIOUS
  <2>1. Pipe(s) \in Pipes
    BY <1>2, PipeOfStream
  <2> QED BY <2>1, PipeAssumption DEF TurnOK
<1>5. SlotsOK
  <2>1. Holding = {}
    BY DEF Holding
  <2> QED BY <2>1, FS_EmptySet, PipeAssumption DEF SlotsOK
<1> QED BY <1>2, <1>3, <1>4, <1>5 DEF PipeInv

LEMMA ReadEventKeepsPipes ==
  ASSUME PipeInv, NEW p \in Pipes, ReadEvent(p)
  PROVE  PipeInv'
PROOF
<1> USE DEF PipeInv, ReadEvent, turnVars, outerVars
<1>1. /\ p[1] \in Streams /\ p[2] \in Attempts(p[1]) /\ sent[p] \in Nat
      /\ MaxEvents[p[1]] \in Nat
  BY PipeFacts DEF StreamTypes
<1>2. PICK e \in Written : source' = [source EXCEPT ![p] = Append(@, e)]
  <2>1. CASE sent[p] < MaxEvents[p[1]] /\ source' = [source EXCEPT ![p] = Append(@, Data(p[2], sent[p] + 1))]
    <3>1. sent[p] + 1 \in 1 .. MaxEvents[p[1]]
      BY <1>1, <2>1
    <3> QED BY <1>1, <2>1, <3>1, DataWritten
  <2> QED BY <2>1, EventFacts
<1>3. Append(source[p], e) \in Seq(Written) /\ Len(Append(source[p], e)) = Len(source[p]) + 1
  BY DEF StreamTypes
<1>4. StreamTypes'
  <2>1. source' \in [Pipes -> Seq(Written)]
    BY <1>2, <1>3 DEF StreamTypes
  <2>2. reader' \in [Pipes -> {"none", "reading", "done", "error", "left"}]
    <3>1. reader' = reader \/ \E last \in {Done, Error} : reader' = [reader EXCEPT ![p] = last.kind]
      OBVIOUS
    <3>2. Done.kind = "done" /\ Error.kind = "error"
      BY EventFacts
    <3>3. reader \in [Pipes -> {"none", "reading", "done", "error", "left"}]
      BY DEF StreamTypes
    <3> HIDE DEF ReadEvent, PipeInv
    <3> QED BY <3>1, <3>2, <3>3
  <2>3. sent' \in [Pipes -> Nat]
    <3>1. sent' = sent \/ sent' = [sent EXCEPT ![p] = sent[p] + 1]
      OBVIOUS
    <3>2. sent \in [Pipes -> Nat]
      BY DEF StreamTypes
    <3> HIDE DEF ReadEvent, PipeInv
    <3> QED BY <3>1, <3>2
  <2> QED BY <2>1, <2>2, <2>3 DEF StreamTypes
<1>5. ASSUME NEW q \in Pipes
      PROVE  PipeOK(q)'
  <2>1. CASE q = p
    <3>1. reader'[p] \in {"reading", "done", "error"} /\ sent'[p] \in 0 .. MaxEvents[p[1]]
      BY <1>1, SMTT(30) DEF StreamTypes, PipeOK, Done, Error
    <3>2. Len(source'[p]) <= Buffer
      BY <1>2, <1>3, PipeAssumption DEF HasRoom, StreamTypes
    <3> QED BY <2>1, <3>1, <3>2 DEF PipeOK, StreamTypes, Pipe
  <2>2. CASE q # p
    <3>1. source'[q] = source[q] /\ sent'[q] = sent[q] /\ reader'[q] = reader[q]
      BY <2>2, <1>2 DEF StreamTypes
    <3> QED BY <3>1 DEF PipeOK, Pipe
  <2> QED BY <2>1, <2>2
<1>6. \A s \in Streams : TurnOK(s)'
  BY DEF TurnOK, Pipe
<1>7. SlotsOK'
  BY SlotsKept DEF Holding
<1> QED BY <1>4, <1>5, <1>6, <1>7

LEMMA AbandonReadKeepsPipes ==
  ASSUME PipeInv, NEW p \in Pipes, AbandonRead(p)
  PROVE  PipeInv'
PROOF
<1> USE DEF PipeInv, AbandonRead, turnVars, outerVars
<1>1. StreamTypes'
  BY DEF StreamTypes
<1>2. \A q \in Pipes : PipeOK(q)'
  BY DEF PipeOK, Pipe, StreamTypes
<1>3. \A s \in Streams : TurnOK(s)'
  BY DEF TurnOK, Pipe
<1>4. SlotsOK'
  BY SlotsKept DEF Holding
<1> QED BY <1>1, <1>2, <1>3, <1>4

LEMMA ForwardKeepsPipes ==
  ASSUME PipeInv, NEW p \in Pipes, Forward(p)
  PROVE  PipeInv'
PROOF
<1> USE DEF PipeInv, Forward, turnVars, outerVars
<1>1. /\ Head(source[p]) \in Written /\ Tail(source[p]) \in Seq(Written)
      /\ Len(Tail(source[p])) = Len(source[p]) - 1 /\ Len(source[p]) \in Nat
  BY DEF StreamTypes
<1>2. /\ Append(limited[p], Head(source[p])) \in Seq(Written)
      /\ Len(Append(limited[p], Head(source[p]))) = Len(limited[p]) + 1
      /\ Len(limited[p]) \in Nat
  BY <1>1 DEF StreamTypes
<1>3. StreamTypes'
  BY <1>1, <1>2 DEF StreamTypes
<1>4. ASSUME NEW q \in Pipes
      PROVE  PipeOK(q)'
  <2>1. CASE q = p
    BY <2>1, <1>1, <1>2, PipeAssumption DEF PipeOK, HasRoom, StreamTypes, Pipe
  <2>2. CASE q # p
    BY <2>2 DEF PipeOK, StreamTypes, Pipe
  <2> QED BY <2>1, <2>2
<1>5. \A s \in Streams : TurnOK(s)'
  BY DEF TurnOK, Pipe
<1>6. SlotsOK'
  BY SlotsKept DEF Holding
<1> QED BY <1>3, <1>4, <1>5, <1>6

LEMMA SlotsAreGivenBack ==
  ASSUME PipeInv, NEW p \in Pipes, ReleaseSlot(p) \/ CloseLimited(p)
  PROVE  PipeInv'
PROOF
<1> USE DEF PipeInv, ReleaseSlot, CloseLimited, turnVars, outerVars
<1>1. StreamTypes'
  <2>1. slot' \in [Pipes -> {"none", "opening", "held", "released", "closed"}]
    <3>1. slot' \in {[slot EXCEPT ![p] = "released"], [slot EXCEPT ![p] = "closed"]}
      OBVIOUS
    <3>2. slot \in [Pipes -> {"none", "opening", "held", "released", "closed"}]
      BY DEF StreamTypes
    <3> HIDE DEF PipeInv, ReleaseSlot, CloseLimited
    <3> QED BY <3>1, <3>2
  <2>2. UNCHANGED <<cancelled, turn, attempt, setups, hand, reader, sent, source, limited, out,
                    relay, relayed, consumer, got, published, gaveUp, generation, adopted,
                    call, requests>>
    OBVIOUS
  <2> HIDE DEF PipeInv, ReleaseSlot, CloseLimited
  <2> QED BY <2>1, <2>2 DEF StreamTypes, PipeInv
<1>2. \A q \in Pipes : PipeOK(q)'
  BY DEF PipeOK, Pipe, StreamTypes, SourceEnded
<1>3. ASSUME NEW s \in Streams
      PROVE  TurnOK(s)'
  <2>1. Pipe(s) \in Pipes /\ Pipe(s)' = Pipe(s)
    BY PipeOfStream DEF Pipe
  <2>2. slot[Pipe(s)] \in {"none", "opening"} => slot'[Pipe(s)] = slot[Pipe(s)]
    BY <2>1 DEF StreamTypes
  <2> HIDE DEF Pipe
  <2> QED BY <2>1, <2>2 DEF TurnOK
<1>4. SlotsOK'
  <2>1. Holding' \subseteq Holding
    BY DEF Holding, StreamTypes
  <2> QED BY <2>1, SlotsKept
<1> QED BY <1>1, <1>2, <1>3, <1>4


LEMMA CallTypes ==
  ASSUME StreamTypes, NEW k \in Completers,
         NEW label \in {"acquire", "request", "backoff", "ok", "error"}, CallGoto(k, label),
         \/ UNCHANGED requests
         \/ requests' = [requests EXCEPT ![k] = [http |-> 0, round |-> @.round + 1]]
         \/ requests' = [requests EXCEPT ![k].http = @ + 1]
  PROVE  /\ call' \in [Completers -> {"acquire", "request", "backoff", "ok", "error"}]
         /\ requests' \in [Completers -> [http : Nat, round : Nat]]
         /\ call'[k] = label /\ \A j \in Completers : j # k => call'[j] = call[j]
PROOF
<1>1. requests[k].http \in Nat /\ requests[k].round \in Nat
  BY DEF StreamTypes
<1>2. requests' \in [Completers -> [http : Nat, round : Nat]]
  <2>1. CASE UNCHANGED requests
    BY <2>1 DEF StreamTypes
  <2>2. CASE requests' = [requests EXCEPT ![k] = [http |-> 0, round |-> @.round + 1]]
    BY <1>1, <2>2 DEF StreamTypes
  <2>3. CASE requests' = [requests EXCEPT ![k].http = @ + 1]
    <3>1. [requests[k] EXCEPT !.http = @ + 1] \in [http : Nat, round : Nat]
      BY <1>1 DEF StreamTypes
    <3> QED BY <2>3, <3>1 DEF StreamTypes
  <2> QED BY <2>1, <2>2, <2>3
<1> QED BY <1>2 DEF StreamTypes, CallGoto

\* A step of a call goes to one label; only one that waits takes a slot.
LEMMA CallSteps ==
  ASSUME StreamTypes, NEW k \in Completers,
         CallAcquire(k) \/ CallCancelled(k) \/ CallRequest(k) \/ CallBackoff(k)
  PROVE  \E label \in {"acquire", "request", "backoff", "ok", "error"} :
           /\ CallGoto(k, label)
           /\ \/ UNCHANGED requests
              \/ requests' = [requests EXCEPT ![k] = [http |-> 0, round |-> @.round + 1]]
              \/ requests' = [requests EXCEPT ![k].http = @ + 1]
           /\ CallAcquire(k) \/ (label \in {"request", "backoff"} => call[k] \in {"request", "backoff"})
PROOF
<1>1. CallFails(k) =>
        \E label \in {"acquire", "error"} :
           /\ CallGoto(k, label)
           /\ \/ UNCHANGED requests
              \/ requests' = [requests EXCEPT ![k] = [http |-> 0, round |-> @.round + 1]]
  BY DEF CallFails
<1>2. CASE CallAcquire(k)
  BY <1>2 DEF CallAcquire
<1>3. CASE CallFails(k)
  BY <1>1, <1>3
<1>4. CASE CallRequest(k)
  BY <1>3, <1>4 DEF CallRequest
<1>5. CASE CallBackoff(k)
  BY <1>5 DEF CallBackoff
<1> QED BY <1>2, <1>3, <1>4, <1>5 DEF CallCancelled

LEMMA CompleteKeepsPipes ==
  ASSUME PipeInv, NEW k \in Completers, Complete(k)
  PROVE  PipeInv'
PROOF
<1> USE DEF PipeInv, Complete, turnVars, providerVars
<1> PICK label \in {"acquire", "request", "backoff", "ok", "error"} :
      /\ CallGoto(k, label)
      /\ \/ UNCHANGED requests
         \/ requests' = [requests EXCEPT ![k] = [http |-> 0, round |-> @.round + 1]]
         \/ requests' = [requests EXCEPT ![k].http = @ + 1]
      /\ CallAcquire(k) \/ (label \in {"request", "backoff"} => call[k] \in {"request", "backoff"})
  BY CallSteps
<1>1. /\ call' \in [Completers -> {"acquire", "request", "backoff", "ok", "error"}]
      /\ requests' \in [Completers -> [http : Nat, round : Nat]]
      /\ call'[k] = label /\ \A j \in Completers : j # k => call'[j] = call[j]
  BY CallTypes
<1>2. StreamTypes'
  BY <1>1 DEF StreamTypes
<1>3. \A q \in Pipes : PipeOK(q)'
  BY DEF PipeOK, Pipe
<1>4. \A s \in Streams : TurnOK(s)'
  BY DEF TurnOK, Pipe
<1>5. SlotsOK'
  <2>1. CASE CallAcquire(k)
    <3>1. Holding' \subseteq Holding \cup {k}
      BY <1>1 DEF Holding
    <3> QED BY <2>1, <3>1, SlotTaken DEF CallAcquire
  <2>2. CASE label \in {"request", "backoff"} => call[k] \in {"request", "backoff"}
    <3>1. \A j \in Completers :
            call'[j] \in {"request", "backoff"} => call[j] \in {"request", "backoff"}
      BY <1>1, <2>2
    <3>2. Holding' \subseteq Holding
      BY <3>1 DEF Holding
    <3> QED BY <3>2, SlotsKept
  <2> QED BY <2>1, <2>2
<1> QED BY <1>2, <1>3, <1>4, <1>5

\* Steps that leave the provider and the turn's goroutine alone.
LEMMA OuterKeepsPipes ==
  ASSUME PipeInv, UNCHANGED <<turnVars, providerVars, call, requests>>, StreamTypes',
         \A s \in Streams : (relayed'[s] # NoEvent) = (relay'[s] \in {"adopt", "send"})
                            /\ Len(out'[s]) <= Buffer
  PROVE  PipeInv'
PROOF
<1> USE DEF PipeInv, turnVars, providerVars
<1>1. \A q \in Pipes : PipeOK(q)'
  BY DEF PipeOK, Pipe
<1>2. \A s \in Streams : TurnOK(s)'
  BY DEF TurnOK, Pipe
<1>3. SlotsOK'
  BY SlotsKept DEF Holding
<1> QED BY <1>1, <1>2, <1>3

LEMMA RelayKeepsPipes ==
  ASSUME PipeInv, NEW s \in Streams, Relay(s)
  PROVE  PipeInv'
PROOF
<1>1. CASE RelayTake(s)
  <2> USE <1>1 DEF RelayTake
  <2>1. /\ Head(out[s]) \in Written /\ Tail(out[s]) \in Seq(Written)
        /\ Len(Tail(out[s])) = Len(out[s]) - 1 /\ Len(out[s]) \in Nat
    BY DEF PipeInv, StreamTypes
  <2>2. StreamTypes'
    BY <2>1 DEF PipeInv, StreamTypes, turnVars, providerVars, Written
  <2>3. \A r \in Streams : (relayed'[r] # NoEvent) = (relay'[r] \in {"adopt", "send"})
                           /\ Len(out'[r]) <= Buffer
    BY <2>1, PipeAssumption DEF PipeInv, TurnOK, StreamTypes, Written
  <2> QED BY <2>2, <2>3, OuterKeepsPipes
<1>2. CASE Adopt(s) \/ RelayClose(s)
  <2> USE <1>2 DEF Adopt, RelayClose
  <2>1. StreamTypes'
    <3>1. CASE Adopt(s)
      BY <3>1 DEF PipeInv, StreamTypes, turnVars, providerVars
    <3>2. CASE RelayClose(s)
      BY <3>2 DEF PipeInv, StreamTypes, turnVars, providerVars
    <3> QED BY <3>1, <3>2
  <2>2. \A r \in Streams : (relayed'[r] # NoEvent) = (relay'[r] \in {"adopt", "send"})
                           /\ Len(out'[r]) <= Buffer
    <3>1. \A r \in Streams : (relayed[r] # NoEvent) = (relay[r] \in {"adopt", "send"})
                             /\ Len(out[r]) <= Buffer
      BY DEF PipeInv, TurnOK
    <3>2. relay \in [Streams -> {"range", "adopt", "send", "closed"}]
      BY DEF PipeInv, StreamTypes
    <3>3. CASE Adopt(s)
      BY <3>1, <3>2, <3>3
    <3>4. CASE RelayClose(s)
      BY <3>1, <3>2, <3>4
    <3> QED BY <3>3, <3>4
  <2> QED BY <2>1, <2>2, OuterKeepsPipes
<1> QED BY <1>1, <1>2 DEF Relay

LEMMA ReadOutKeepsPipes ==
  ASSUME PipeInv, NEW s \in Streams, ReadOut(s)
  PROVE  PipeInv'
PROOF
<1>1. CASE Consume(s)
  <2> USE <1>1 DEF Consume
  <2>1. out[s] # <<>> =>
          /\ Head(out[s]) \in Written /\ Tail(out[s]) \in Seq(Written)
          /\ Len(Tail(out[s])) = Len(out[s]) - 1 /\ Len(out[s]) \in Nat
    BY DEF PipeInv, StreamTypes
  <2>2. Ready(s) \in Written /\ (s \notin Transferred => out[s] # <<>>)
    BY <2>1 DEF Ready, PipeInv, StreamTypes, Written
  <2>3. got' \in [Streams -> Seq(Written)]
    <3>1. Append(got[s], Ready(s)) \in Seq(Written)
      BY <2>2 DEF PipeInv, StreamTypes
    <3> QED BY <3>1 DEF PipeInv, StreamTypes
  <2>4. out' \in [Streams -> Seq(Written)] /\ relayed' \in [Streams -> Events]
        /\ relay' \in [Streams -> {"range", "adopt", "send", "closed"}]
    <3>1. NoEvent \in Events
      BY DEF Events
    <3>2. /\ relay \in [Streams -> {"range", "adopt", "send", "closed"}]
          /\ relayed \in [Streams -> Events] /\ out \in [Streams -> Seq(Written)]
      BY DEF PipeInv, StreamTypes
    <3>3. CASE s \in Transferred
      BY <3>1, <3>2, <3>3
    <3>4. CASE s \notin Transferred
      BY <2>1, <2>2, <3>2, <3>4
    <3> QED BY <3>3, <3>4
  <2>5. consumer' \in [Streams -> {"reading", "waiting", "ended", "left"}]
    <3>1. \E c \in {"reading", "ended", "left"} : consumer' = [consumer EXCEPT ![s] = c]
      OBVIOUS
    <3>2. consumer \in [Streams -> {"reading", "waiting", "ended", "left"}]
      BY DEF PipeInv, StreamTypes
    <3> HIDE DEF Consume
    <3> QED BY <3>1, <3>2
  <2>6. StreamTypes'
    BY <2>3, <2>4, <2>5 DEF PipeInv, StreamTypes, turnVars, providerVars
  <2>7. \A r \in Streams : (relayed'[r] # NoEvent) = (relay'[r] \in {"adopt", "send"})
                           /\ Len(out'[r]) <= Buffer
    <3>1. \A r \in Streams : (relayed[r] # NoEvent) = (relay[r] \in {"adopt", "send"})
                             /\ Len(out[r]) <= Buffer
      BY DEF PipeInv, TurnOK
    <3>2. /\ relay \in [Streams -> {"range", "adopt", "send", "closed"}]
          /\ relayed \in [Streams -> Events] /\ out \in [Streams -> Seq(Written)]
      BY DEF PipeInv, StreamTypes
    <3>3. CASE s \in Transferred
      <4>1. /\ relay' = [relay EXCEPT ![s] = "range"] /\ relayed' = [relayed EXCEPT ![s] = NoEvent]
            /\ out' = out
        BY <3>3
      <4> HIDE DEF Consume
      <4> QED BY <3>1, <3>2, <4>1
    <3>4. CASE s \notin Transferred
      <4>1. relay' = relay /\ relayed' = relayed /\ out' = [out EXCEPT ![s] = Tail(out[s])]
        BY <3>4
      <4> HIDE DEF Consume
      <4> QED BY <2>1, <2>2, <3>1, <3>2, <3>4, <4>1, PipeAssumption
    <3> QED BY <3>3, <3>4
  <2> QED BY <2>6, <2>7, OuterKeepsPipes
<1>2. CASE Wait(s) \/ ConsumeClosed(s) \/ ConsumeCancelled(s)
  <2> USE <1>2 DEF Wait, ConsumeClosed, ConsumeCancelled
  <2>1. StreamTypes'
    <3>1. \E c \in {"waiting", "ended", "left"} : consumer' = [consumer EXCEPT ![s] = c]
      OBVIOUS
    <3>2. consumer' \in [Streams -> {"reading", "waiting", "ended", "left"}]
      BY <3>1 DEF PipeInv, StreamTypes
    <3> QED BY <3>2 DEF PipeInv, StreamTypes, turnVars, providerVars
  <2>2. \A r \in Streams : (relayed'[r] # NoEvent) = (relay'[r] \in {"adopt", "send"})
                           /\ Len(out'[r]) <= Buffer
    BY DEF PipeInv, TurnOK
  <2> QED BY <2>1, <2>2, OuterKeepsPipes
<1> QED BY <1>1, <1>2 DEF ReadOut

LEMMA OthersKeepPipes ==
  ASSUME PipeInv, (\E x \in Streams \cup Completers : Cancel(x)) \/ MutateParent
  PROVE  PipeInv'
PROOF
<1> USE DEF Cancel, MutateParent, outerVars
<1>1. StreamTypes'
  BY DEF PipeInv, StreamTypes, turnVars, providerVars
<1>2. \A r \in Streams : (relayed'[r] # NoEvent) = (relay'[r] \in {"adopt", "send"})
                         /\ Len(out'[r]) <= Buffer
  BY DEF PipeInv, TurnOK, StreamTypes
<1>3. UNCHANGED <<turnVars, providerVars, call, requests>>
  OBVIOUS
<1> QED BY <1>1, <1>2, <1>3, OuterKeepsPipes


\* A step of a turn's goroutine that neither waits for a slot nor has one being opened.
CalmStep(s, label) ==
  /\ turn[s] # "open" /\ turn' = [turn EXCEPT ![s] = label]
  /\ label \in {"recv", "emit", "backoff", "publish", "final", "done", "fail", "closed"}
  /\ label = "backoff" => attempt[s] < MaxAttempts[s]
  /\ hand'[s] \in Events /\ (hand'[s] # NoEvent) = (label = "emit")
  /\ hand' \in {hand, [hand EXCEPT ![s] = hand'[s]]}
  /\ UNCHANGED <<cancelled, attempt, setups, reader, sent, source, slot, outerVars>>

LEMMA CalmStepKeepsPipes ==
  ASSUME PipeInv, NEW s \in Streams, NEW label, CalmStep(s, label),
         published' \subseteq Streams, gaveUp' \subseteq Streams,
         out' \in [Streams -> Seq(Written)], \A r \in Streams : Len(out'[r]) <= Buffer,
         limited' \in [Pipes -> Seq(Written)],
         \A p \in Pipes : Len(limited'[p]) <= Buffer /\ (limited[p] = <<>> => limited'[p] = <<>>)
  PROVE  PipeInv'
PROOF
<1> USE DEF PipeInv, CalmStep, outerVars
<1>1. /\ turn' \in [Streams -> {"acquire", "open", "recv", "emit", "backoff", "publish",
                                "final", "done", "fail", "closed"}]
      /\ turn'[s] = label /\ \A r \in Streams : r # s => turn'[r] = turn[r]
  BY DEF StreamTypes
<1>2. hand' \in [Streams -> Events] /\ \A r \in Streams : r # s => hand'[r] = hand[r]
  BY DEF StreamTypes
<1>3. StreamTypes'
  BY <1>1, <1>2 DEF StreamTypes
<1>4. ASSUME NEW q \in Pipes
      PROVE  PipeOK(q)'
  <2>1. PipeOK(q) /\ q[1] \in Streams
    BY PipeFacts
  <2> QED BY <1>1, <2>1 DEF PipeOK, Pipe
<1>5. ASSUME NEW r \in Streams
      PROVE  TurnOK(r)'
  <2>1. TurnOK(r) /\ Pipe(r)' = Pipe(r)
    BY DEF Pipe
  <2>2. CASE r = s
    BY <1>1, <2>1, <2>2 DEF TurnOK
  <2>3. CASE r # s
    <3>1. turn'[r] = turn[r] /\ hand'[r] = hand[r]
      BY <1>1, <1>2, <2>3
    <3> QED BY <2>1, <3>1 DEF TurnOK
  <2> QED BY <2>2, <2>3
<1>6. SlotsOK'
  BY SlotsKept DEF Holding
<1> QED BY <1>3, <1>4, <1>5, <1>6

\* A step that fails is followed by another attempt, or it fails the turn.
LEMMA FailingStep ==
  ASSUME StreamTypes, NEW s \in Streams, StepFails(s)
  PROVE  \E label \in {"backoff", "fail"} :
           /\ turn' = [turn EXCEPT ![s] = label]
           /\ label = "backoff" => attempt[s] < MaxAttempts[s]
           /\ hand' = [hand EXCEPT ![s] = NoEvent] /\ hand'[s] = NoEvent /\ NoEvent \in Events
PROOF
<1>1. NoEvent \in Events
  BY DEF Events
<1> QED BY <1>1 DEF StepFails, Goto, StreamTypes

\* What the goroutine of a turn writes is an event.
LEMMA WritesEvents ==
  ASSUME PipeInv, NEW s \in Streams, ToWrite(s) # NoEvent
  PROVE  ToWrite(s) \in Written /\ turn[s] \in {"emit", "final", "done", "fail"}
PROOF
<1>1. hand[s] \in Events
  BY DEF PipeInv, StreamTypes
<1> QED BY <1>1, EventFacts DEF ToWrite, Written

\* Which label every calm step of a turn goes to.
LEMMA CalmSteps ==
  ASSUME PipeInv, NEW s \in Streams,
         \/ AcquireCancelled(s) \/ Receive(s) \/ ReceiveClosed(s) \/ ReceiveCancelled(s)
         \/ Publish(s) \/ Emit(s) \/ EmitFails(s)
  PROVE  \E label : CalmStep(s, label)
PROOF
<1>0. NoEvent \in Events /\ hand \in [Streams -> Events] /\ TurnOK(s)
  BY DEF PipeInv, StreamTypes, Events
<1>1. ASSUME StepFails(s), turn[s] # "open",
             UNCHANGED <<cancelled, attempt, setups, reader, sent, source, slot, outerVars>>
      PROVE  \E label : CalmStep(s, label)
  <2>1. StreamTypes
    BY DEF PipeInv
  <2>2. PICK label \in {"backoff", "fail"} :
           /\ turn' = [turn EXCEPT ![s] = label]
           /\ label = "backoff" => attempt[s] < MaxAttempts[s]
           /\ hand' = [hand EXCEPT ![s] = NoEvent] /\ hand'[s] = NoEvent /\ NoEvent \in Events
    BY <1>1, <2>1, FailingStep
  <2> QED BY <1>1, <2>2 DEF CalmStep
<1>2. CASE AcquireCancelled(s) \/ ReceiveClosed(s) \/ ReceiveCancelled(s)
  BY <1>1, <1>2 DEF AcquireCancelled, ReceiveClosed, ReceiveCancelled, providerVars
<1>3. CASE Receive(s)
  <2> DEFINE e == Head(limited[Pipe(s)])
  <2>1. Pipe(s) \in Pipes
    BY PipeOfStream DEF PipeInv
  <2>2. e \in Written
    BY <1>3, <2>1 DEF Receive, PipeInv, StreamTypes
  <2>3. e \in Events /\ e # NoEvent
    BY <2>2 DEF Written
  <2>4. CASE e.kind = "error"
    <3>1. StepFails(s)
      BY <1>3, <2>4 DEF Receive
    <3> QED BY <1>1, <1>3, <3>1 DEF Receive
  <2>5. CASE e.kind = "done"
    <3>1. turn' = [turn EXCEPT ![s] = "publish"] /\ hand' = hand /\ turn[s] = "recv"
      BY <1>3, <2>5 DEF Receive, Goto
    <3>2. hand'[s] = NoEvent
      BY <1>0, <3>1 DEF TurnOK
    <3>3. CalmStep(s, "publish")
      BY <1>0, <1>3, <3>1, <3>2 DEF CalmStep, Receive
    <3> QED BY <3>3
  <2>6. CASE e.kind \notin {"error", "done"}
    <3>1. turn' = [turn EXCEPT ![s] = "emit"] /\ hand' = [hand EXCEPT ![s] = e] /\ turn[s] = "recv"
      BY <1>3, <2>6 DEF Receive, Goto
    <3>2. hand'[s] = e
      BY <1>0, <3>1
    <3>3. CalmStep(s, "emit")
      BY <1>3, <2>3, <3>1, <3>2 DEF CalmStep, Receive
    <3> QED BY <3>3
  <2> QED BY <2>4, <2>5, <2>6
<1>4. CASE Publish(s)
  <2>1. PICK label \in {"final", "fail"} : turn' = [turn EXCEPT ![s] = label]
    BY <1>4 DEF Publish, Goto
  <2>2. hand' = hand /\ hand'[s] = NoEvent
    BY <1>0, <1>4 DEF Publish, TurnOK
  <2>3. CalmStep(s, label)
    BY <1>0, <1>4, <2>1, <2>2 DEF CalmStep, Publish, providerVars
  <2> QED BY <2>3
<1>5. CASE Emit(s)
  <2>1. PICK label \in {"recv", "done", "closed"} : turn' = [turn EXCEPT ![s] = label]
    BY <1>5 DEF Emit, Goto
  <2>2. hand' = [hand EXCEPT ![s] = NoEvent] /\ hand'[s] = NoEvent
    BY <1>0, <1>5 DEF Emit
  <2>3. turn[s] # "open"
    BY <1>5, WritesEvents DEF Emit
  <2>4. CalmStep(s, label)
    BY <1>0, <1>5, <2>1, <2>2, <2>3 DEF CalmStep, Emit, providerVars
  <2> QED BY <2>4
<1>6. CASE EmitFails(s)
  <2>1. turn[s] \in {"emit", "final", "done", "fail"}
    BY <1>6, WritesEvents DEF EmitFails
  <2>2. CASE turn[s] = "emit"
    BY <1>1, <1>6, <2>2 DEF EmitFails, providerVars
  <2>3. CASE turn[s] # "emit"
    <3>1. PICK label \in {"fail", "closed"} : turn' = [turn EXCEPT ![s] = label]
      BY <1>6, <2>3 DEF EmitFails, Goto
    <3>2. hand' = hand /\ hand'[s] = NoEvent
      BY <1>0, <1>6, <2>3 DEF EmitFails, TurnOK
    <3>3. CalmStep(s, label)
      BY <1>0, <1>6, <2>1, <3>1, <3>2 DEF CalmStep, EmitFails, providerVars
    <3> QED BY <3>3
  <2> QED BY <2>2, <2>3
<1> QED BY <1>2, <1>3, <1>4, <1>5, <1>6


LEMMA CalmStepsKeepPipes ==
  ASSUME PipeInv, NEW s \in Streams,
         \/ AcquireCancelled(s) \/ Receive(s) \/ ReceiveClosed(s) \/ ReceiveCancelled(s)
         \/ Publish(s) \/ Emit(s) \/ EmitFails(s)
  PROVE  PipeInv'
PROOF
<1>1. PICK label : CalmStep(s, label)
  BY CalmSteps
<1>2. published' \subseteq Streams /\ gaveUp' \subseteq Streams
  BY DEF AcquireCancelled, Receive, ReceiveClosed, ReceiveCancelled, Publish, Emit, EmitFails,
         PipeInv, StreamTypes
<1>3. /\ out' \in [Streams -> Seq(Written)]
      /\ \A r \in Streams : Len(out'[r]) <= Buffer
  <2>1. /\ out \in [Streams -> Seq(Written)]
        /\ \A r \in Streams : Len(out[r]) <= Buffer
    BY DEF PipeInv, StreamTypes, TurnOK
  <2>2. CASE Emit(s)
    <3>1. ToWrite(s) \in Written /\ Len(out[s]) < Buffer /\ out' = [out EXCEPT ![s] = Append(@, ToWrite(s))]
      BY <2>2, WritesEvents DEF Emit, HasRoom
    <3>2. Append(out[s], ToWrite(s)) \in Seq(Written) /\ Len(Append(out[s], ToWrite(s))) = Len(out[s]) + 1
          /\ Len(out[s]) \in Nat
      BY <2>1, <3>1
    <3> QED BY <2>1, <3>1, <3>2, PipeAssumption
  <2>3. CASE UNCHANGED out
    BY <2>1, <2>3
  <2> QED BY <2>2, <2>3 DEF AcquireCancelled, Receive, ReceiveClosed, ReceiveCancelled, Publish,
                            EmitFails
<1>4. /\ limited' \in [Pipes -> Seq(Written)]
      /\ \A p \in Pipes : Len(limited'[p]) <= Buffer /\ (limited[p] = <<>> => limited'[p] = <<>>)
  <2>1. /\ limited \in [Pipes -> Seq(Written)]
        /\ \A p \in Pipes : Len(limited[p]) <= Buffer
    BY DEF PipeInv, StreamTypes, PipeOK
  <2>2. CASE Receive(s)
    <3>1. Pipe(s) \in Pipes
      BY PipeOfStream DEF PipeInv
    <3>2. limited[Pipe(s)] # <<>> /\ limited' = [limited EXCEPT ![Pipe(s)] = Tail(@)]
      BY <2>2 DEF Receive
    <3>3. /\ Tail(limited[Pipe(s)]) \in Seq(Written)
          /\ Len(Tail(limited[Pipe(s)])) = Len(limited[Pipe(s)]) - 1
          /\ Len(limited[Pipe(s)]) \in Nat
      BY <2>1, <3>1, <3>2
    <3> QED BY <2>1, <3>1, <3>2, <3>3, PipeAssumption
  <2>3. CASE UNCHANGED limited
    BY <2>1, <2>3
  <2> QED BY <2>2, <2>3 DEF AcquireCancelled, ReceiveClosed, ReceiveCancelled, Publish, Emit,
                            EmitFails, providerVars
<1> QED BY <1>1, <1>2, <1>3, <1>4, CalmStepKeepsPipes

LEMMA AcquireKeepsPipes ==
  ASSUME PipeInv, NEW s \in Streams, Acquire(s)
  PROVE  PipeInv'
PROOF
<1> USE DEF PipeInv, Acquire, Goto, outerVars
<1>1. Pipe(s) \in Pipes /\ Pipe(s)[1] = s /\ \A r \in Streams : Pipe(r)' = Pipe(r)
  BY PipeOfStream DEF Pipe
<1>2. StreamTypes'
  BY DEF StreamTypes
<1>3. /\ slot'[Pipe(s)] = "opening" /\ turn'[s] = "open"
      /\ \A p \in Pipes : p # Pipe(s) => slot'[p] = slot[p]
      /\ \A r \in Streams : r # s => turn'[r] = turn[r]
  BY <1>1 DEF StreamTypes
<1>4. slot[Pipe(s)] = "none" /\ setups[s] < MaxSetups
  BY DEF TurnOK
<1>5. ASSUME NEW q \in Pipes
      PROVE  PipeOK(q)'
  <2>1. PipeOK(q) /\ q[1] \in Streams
    BY PipeFacts
  <2>2. CASE q = Pipe(s)
    <3>1. q[2] = attempt[s] /\ attempt[s] \in Nat
      BY <2>2, PipeOfStream
    <3> QED BY <1>1, <1>3, <1>4, <2>1, <2>2, <3>1 DEF PipeOK
  <2>3. CASE q # Pipe(s)
    <3>1. q[1] = s => slot[q] # "opening"
      BY <1>4, <2>1, <2>3 DEF PipeOK
    <3> QED BY <1>1, <1>3, <2>1, <2>3, <3>1 DEF PipeOK
  <2> QED BY <2>2, <2>3
<1>6. ASSUME NEW r \in Streams
      PROVE  TurnOK(r)'
  <2>1. TurnOK(r)
    OBVIOUS
  <2>2. CASE r = s
    BY <1>1, <1>3, <1>4, <2>1, <2>2 DEF TurnOK
  <2>3. CASE r # s
    <3>1. Pipe(r) \in Pipes /\ Pipe(r) # Pipe(s)
      BY <2>3, PipeOfStream
    <3> QED BY <1>1, <1>3, <2>1, <2>3, <3>1 DEF TurnOK
  <2> QED BY <2>2, <2>3
<1>7. SlotsOK'
  <2>1. Holding' \subseteq Holding \cup {Pipe(s)}
    BY <1>3 DEF Holding
  <2> QED BY <2>1, SlotTaken
<1> QED BY <1>2, <1>5, <1>6, <1>7

LEMMA OpenKeepsPipes ==
  ASSUME PipeInv, NEW s \in Streams, Open(s)
  PROVE  PipeInv'
PROOF
<1> USE DEF PipeInv, Open, Goto, outerVars
<1>1. Pipe(s) \in Pipes /\ Pipe(s)[1] = s /\ \A r \in Streams : Pipe(r)' = Pipe(r)
  BY PipeOfStream DEF Pipe
<1>2. StreamTypes'
  BY DEF StreamTypes
<1>3. /\ slot'[Pipe(s)] = "held" /\ reader'[Pipe(s)] = "reading" /\ turn'[s] = "recv"
      /\ \A p \in Pipes : p # Pipe(s) => slot'[p] = slot[p] /\ reader'[p] = reader[p]
      /\ \A r \in Streams : r # s => turn'[r] = turn[r]
  BY <1>1 DEF StreamTypes
<1>4. slot[Pipe(s)] = "opening"
  BY DEF TurnOK
<1>5. ASSUME NEW q \in Pipes
      PROVE  PipeOK(q)'
  <2>1. PipeOK(q) /\ q[1] \in Streams
    BY PipeFacts
  <2>2. CASE q = Pipe(s)
    <3>1. q[2] = attempt[s] /\ attempt[s] \in Nat
      BY <2>2, PipeOfStream
    <3> QED BY <1>1, <1>3, <1>4, <2>1, <2>2, <3>1 DEF PipeOK
  <2>3. CASE q # Pipe(s)
    <3>1. q[1] = s => slot[q] # "opening"
      BY <2>1, <2>3 DEF PipeOK
    <3> QED BY <1>1, <1>3, <2>1, <2>3, <3>1 DEF PipeOK
  <2> QED BY <2>2, <2>3
<1>6. ASSUME NEW r \in Streams
      PROVE  TurnOK(r)'
  <2>1. TurnOK(r)
    OBVIOUS
  <2>2. CASE r = s
    BY <1>1, <1>3, <1>4, <2>1, <2>2 DEF TurnOK
  <2>3. CASE r # s
    <3>1. Pipe(r) \in Pipes /\ Pipe(r) # Pipe(s)
      BY <2>3, PipeOfStream
    <3> QED BY <1>1, <1>3, <2>1, <2>3, <3>1 DEF TurnOK
  <2> QED BY <2>2, <2>3
<1>7. SlotsOK'
  <2>1. Holding' \subseteq Holding
    BY <1>3, <1>4 DEF Holding
  <2> QED BY <2>1, SlotsKept
<1> QED BY <1>2, <1>5, <1>6, <1>7

LEMMA OpenFailsKeepsPipes ==
  ASSUME PipeInv, NEW s \in Streams, OpenFails(s)
  PROVE  PipeInv'
PROOF
<1> USE DEF PipeInv, outerVars
<1>1. Pipe(s) \in Pipes /\ Pipe(s)[1] = s /\ \A r \in Streams : Pipe(r)' = Pipe(r)
  BY PipeOfStream DEF Pipe, OpenFails
<1>2. slot[Pipe(s)] = "opening" /\ setups[s] < MaxSetups /\ turn[s] = "open"
  BY DEF TurnOK, OpenFails
<1>3. PICK label \in {"acquire", "backoff", "fail"} :
        /\ turn' = [turn EXCEPT ![s] = label]
        /\ label = "acquire" => setups[s] + 1 < MaxSetups
        /\ label = "backoff" => attempt[s] < MaxAttempts[s]
        /\ hand' = [hand EXCEPT ![s] = NoEvent]
  <2>1. CASE setups[s] + 1 < MaxSetups /\ Goto(s, "acquire") /\ UNCHANGED hand
    <3>1. hand[s] = NoEvent
      BY <1>2 DEF TurnOK
    <3>2. hand' = [hand EXCEPT ![s] = NoEvent]
      BY <2>1, <3>1 DEF StreamTypes
    <3> QED BY <2>1, <3>2 DEF Goto
  <2>2. CASE StepFails(s)
    BY <2>2, FailingStep
  <2> QED BY <2>1, <2>2 DEF OpenFails
<1>4. /\ slot' = [slot EXCEPT ![Pipe(s)] = "none"] /\ setups' = [setups EXCEPT ![s] = @ + 1]
      /\ UNCHANGED <<cancelled, attempt, published, gaveUp, reader, sent, source, limited,
                     out, outerVars>>
  BY DEF OpenFails
<1>5. setups[s] + 1 \in 0 .. MaxSetups
  BY <1>2, PipeAssumption DEF StreamTypes
<1>6. StreamTypes'
  <2>1. NoEvent \in Events
    BY DEF Events
  <2> QED BY <1>3, <1>4, <1>5, <2>1 DEF StreamTypes
<1>7. /\ slot'[Pipe(s)] = "none" /\ turn'[s] = label /\ hand'[s] = NoEvent
      /\ setups'[s] = setups[s] + 1
      /\ \A p \in Pipes : p # Pipe(s) => slot'[p] = slot[p]
      /\ \A r \in Streams : r # s => turn'[r] = turn[r] /\ hand'[r] = hand[r] /\ setups'[r] = setups[r]
  BY <1>1, <1>3, <1>4 DEF StreamTypes
<1>8. ASSUME NEW q \in Pipes
      PROVE  PipeOK(q)'
  <2>1. PipeOK(q) /\ q[1] \in Streams
    BY PipeFacts
  <2>2. CASE q = Pipe(s)
    BY <1>1, <1>2, <1>4, <1>7, <2>1, <2>2 DEF PipeOK
  <2>3. CASE q # Pipe(s)
    <3>1. q[1] = s => slot[q] # "opening"
      BY <2>1, <2>3 DEF PipeOK
    <3> QED BY <1>1, <1>4, <1>7, <2>1, <2>3, <3>1 DEF PipeOK
  <2> QED BY <2>2, <2>3
<1>9. ASSUME NEW r \in Streams
      PROVE  TurnOK(r)'
  <2>1. TurnOK(r)
    OBVIOUS
  <2>2. CASE r = s
    BY <1>1, <1>3, <1>4, <1>7, <2>1, <2>2 DEF TurnOK
  <2>3. CASE r # s
    <3>1. Pipe(r) \in Pipes /\ Pipe(r) # Pipe(s)
      BY <2>3, PipeOfStream
    <3> QED BY <1>1, <1>4, <1>7, <2>1, <2>3, <3>1 DEF TurnOK
  <2> QED BY <2>2, <2>3
<1>10. SlotsOK'
  <2>1. Holding' \subseteq Holding
    BY <1>4, <1>7 DEF Holding
  <2> QED BY <2>1, SlotsKept
<1> QED BY <1>6, <1>8, <1>9, <1>10

LEMMA RetryKeepsPipes ==
  ASSUME PipeInv, NEW s \in Streams, Retry(s)
  PROVE  PipeInv'
PROOF
<1> USE DEF PipeInv, Goto, outerVars
<1>0. /\ turn[s] = "backoff" /\ attempt[s] < MaxAttempts[s] /\ attempt[s] \in Nat
      /\ MaxAttempts[s] \in Nat /\ hand[s] = NoEvent
  BY StreamsAssumption DEF Retry, TurnOK, StreamTypes
<1>1. CASE Goto(s, "fail") /\ UNCHANGED <<attempt, setups>>
  <2>1. hand' \in {hand, [hand EXCEPT ![s] = hand'[s]]} /\ hand'[s] = NoEvent /\ NoEvent \in Events
    BY <1>0 DEF Retry, Events
  <2>2. CalmStep(s, "fail")
    BY <1>0, <1>1, <2>1 DEF CalmStep, Retry, providerVars
  <2>3. /\ published' \subseteq Streams /\ gaveUp' \subseteq Streams
        /\ out' \in [Streams -> Seq(Written)] /\ \A r \in Streams : Len(out'[r]) <= Buffer
        /\ limited' \in [Pipes -> Seq(Written)]
        /\ \A p \in Pipes : Len(limited'[p]) <= Buffer /\ (limited[p] = <<>> => limited'[p] = <<>>)
    BY DEF Retry, providerVars, StreamTypes, TurnOK, PipeOK
  <2> QED BY <2>2, <2>3, CalmStepKeepsPipes
<1>2. CASE /\ attempt' = [attempt EXCEPT ![s] = @ + 1]
           /\ setups' = [setups EXCEPT ![s] = 0]
           /\ Goto(s, "acquire")
  <2>1. UNCHANGED <<cancelled, hand, published, gaveUp, providerVars, out, outerVars>>
    BY DEF Retry
  <2>2. attempt[s] + 1 \in Attempts(s)
    BY <1>0 DEF Attempts
  <2>3. StreamTypes'
    <3>1. /\ attempt' \in [Streams -> Nat] /\ \A r \in Streams : attempt'[r] \in Attempts(r)
          /\ setups' \in [Streams -> 0 .. MaxSetups]
      BY <1>0, <1>2, <2>2, PipeAssumption DEF StreamTypes
    <3>2. turn' \in [Streams -> {"acquire", "open", "recv", "emit", "backoff", "publish",
                                "final", "done", "fail", "closed"}]
      BY <1>2 DEF StreamTypes
    <3> QED BY <2>1, <3>1, <3>2 DEF StreamTypes, providerVars
  <2>4. /\ turn'[s] = "acquire" /\ attempt'[s] = attempt[s] + 1 /\ setups'[s] = 0
        /\ \A r \in Streams : r # s =>
             turn'[r] = turn[r] /\ attempt'[r] = attempt[r] /\ setups'[r] = setups[r]
    BY <1>2 DEF StreamTypes
  <2>5. Pipe(s)' = <<s, attempt[s] + 1>> /\ Pipe(s)' \in Pipes
        /\ \A r \in Streams : r # s => Pipe(r)' = Pipe(r)
    BY <1>0, <2>2, <2>4, PipeFacts DEF Pipe
  <2>6. slot[Pipe(s)'] = "none"
    <3>1. PipeOK(<<s, attempt[s] + 1>>)
      BY <2>5
    <3> QED BY <1>0, <2>5, <3>1 DEF PipeOK
  <2>7. ASSUME NEW q \in Pipes
        PROVE  PipeOK(q)'
    <3>1. PipeOK(q) /\ q[1] \in Streams /\ q[2] \in Nat
      BY PipeFacts
    <3>2. CASE q[1] = s
      BY <1>0, <2>1, <2>4, <3>1, <3>2 DEF PipeOK, providerVars
    <3>3. CASE q[1] # s
      BY <2>1, <2>4, <2>5, <3>1, <3>3 DEF PipeOK, providerVars
    <3> QED BY <3>2, <3>3
  <2>8. ASSUME NEW r \in Streams
        PROVE  TurnOK(r)'
    <3>1. TurnOK(r)
      OBVIOUS
    <3>2. CASE r = s
      BY <1>0, <2>1, <2>4, <2>6, <3>1, <3>2, PipeAssumption DEF TurnOK, providerVars
    <3>3. CASE r # s
      BY <2>1, <2>4, <2>5, <3>1, <3>3 DEF TurnOK, providerVars
    <3> QED BY <3>2, <3>3
  <2>9. SlotsOK'
    BY <2>1, SlotsKept DEF Holding, providerVars
  <2> QED BY <2>3, <2>7, <2>8, <2>9
<1> QED BY <1>1, <1>2 DEF Retry


LEMMA StutterKeepsPipes ==
  ASSUME PipeInv, UNCHANGED streamVars
  PROVE  PipeInv'
PROOF
<1> USE DEF PipeInv, streamVars, turnVars, providerVars, outerVars
<1>1. StreamTypes'
  BY DEF StreamTypes
<1>2. \A q \in Pipes : PipeOK(q)'
  BY DEF PipeOK, Pipe
<1>3. \A s \in Streams : TurnOK(s)'
  BY DEF TurnOK, Pipe
<1>4. SlotsOK'
  BY SlotsKept DEF Holding
<1> QED BY <1>1, <1>2, <1>3, <1>4

LEMMA StepKeepsPipes ==
  ASSUME PipeInv, [StreamNext]_streamVars
  PROVE  PipeInv'
PROOF
<1>1. CASE \E p \in Pipes : Provide(p)
  BY <1>1, ReadEventKeepsPipes, AbandonReadKeepsPipes, ForwardKeepsPipes, SlotsAreGivenBack
     DEF Provide
<1>2. CASE \E s \in Streams : Turn(s)
  BY <1>2, CalmStepsKeepPipes, AcquireKeepsPipes, OpenKeepsPipes, OpenFailsKeepsPipes,
     RetryKeepsPipes DEF Turn
<1>3. CASE \E s \in Streams : Relay(s) \/ ReadOut(s)
  BY <1>3, RelayKeepsPipes, ReadOutKeepsPipes
<1>4. CASE \E k \in Completers : Complete(k)
  BY <1>4, CompleteKeepsPipes
<1>5. CASE (\E x \in Streams \cup Completers : Cancel(x)) \/ MutateParent
  BY <1>5, OthersKeepPipes
<1>6. CASE UNCHANGED streamVars
  BY <1>6, StutterKeepsPipes
<1> QED BY <1>1, <1>2, <1>3, <1>4, <1>5, <1>6 DEF StreamNext, Running

LEMMA PipesHold == StreamSpec => []PipeInv
PROOF
<1>1. (\E called \in SUBSET (Streams \cup Completers) : StreamInit(called)) => PipeInv
  BY PipeInit
<1>2. PipeInv /\ [StreamNext]_streamVars => PipeInv'
  BY StepKeepsPipes
<1> QED BY <1>1, <1>2, PTL DEF StreamSpec

\* Type correctness: in every state of every number of streams and calls the turns, the
\* pipes and the channels have their types, no channel exceeds its capacity, and a pipe
\* is read from its opening on.
THEOREM StreamTypeCorrect == StreamSpec => []StreamTypeOK
PROOF
<1>1. PipeInv => StreamTypeOK
  BY DEF PipeInv, StreamTypes, PipeOK, TurnOK, StreamTypeOK
<1> QED BY <1>1, PipesHold, PTL

\* Never do more requests and responses occupy the provider than the concurrency limit
\* allows: a slot is taken when one is free, and a response is read while its stream has
\* one (concurrencyLimitedProvider.Stream, Complete).
THEOREM SlotsAreLimited == StreamSpec => []ConcurrencyHeld
PROOF
<1>1. ASSUME PipeInv
      PROVE  ConcurrencyHeld
  <2> DEFINE reads == {p \in Pipes : reader[p] = "reading"}
  <2>1. reads \subseteq Holding
    BY <1>1 DEF PipeInv, PipeOK, Holding
  <2>2. IsFiniteSet(Holding) /\ Cardinality(Holding) <= MaxInFlight
    BY <1>1 DEF PipeInv, SlotsOK
  <2>3. IsFiniteSet(reads) /\ Cardinality(reads) <= Cardinality(Holding)
    BY <2>1, <2>2, FS_Subset
  <2>4. Cardinality(reads) \in Nat /\ Cardinality(Holding) \in Nat
    BY <2>2, <2>3, FS_CardinalityType
  <2>5. Cardinality(reads) <= MaxInFlight
    <3> HIDE DEF reads
    <3> QED BY <2>2, <2>3, <2>4, PipeAssumption
  <2> QED BY <2>2, <2>5 DEF ConcurrencyHeld
<1> QED BY <1>1, PipesHold, PTL

-------------------------------------------------------------------------------
(* Every step keeps FlowInv *)

\* Where a list is cut does not matter.
LEMMA MoveHead ==
  ASSUME NEW S, NEW l \in Seq(S), NEW k \in Seq(S), k # <<>>
  PROVE  /\ Append(l, Head(k)) \o Tail(k) = l \o k
         /\ Head(k) \in S /\ Tail(k) \in Seq(S) /\ Append(l, Head(k)) \in Seq(S)
PROOF
<1>1. /\ Head(k) \in S /\ Tail(k) \in Seq(S) /\ Len(Tail(k)) = Len(k) - 1
      /\ \A i \in 1 .. Len(Tail(k)) : Tail(k)[i] = k[i + 1]
      /\ Head(k) = k[1] /\ Len(k) \in Nat \ {0}
  BY HeadTailProperties
<1>2. /\ Append(l, Head(k)) \in Seq(S) /\ Len(Append(l, Head(k))) = Len(l) + 1
      /\ \A i \in 1 .. Len(l) : Append(l, Head(k))[i] = l[i]
      /\ Append(l, Head(k))[Len(l) + 1] = Head(k) /\ Len(l) \in Nat
  BY <1>1, AppendProperties
<1> DEFINE u == Append(l, Head(k)) \o Tail(k)
           v == l \o k
<1>3. /\ u \in Seq(S) /\ Len(u) = Len(l) + Len(k)
      /\ \A i \in 1 .. Len(l) + Len(k) :
           u[i] = IF i <= Len(l) + 1 THEN Append(l, Head(k))[i] ELSE Tail(k)[i - (Len(l) + 1)]
  BY <1>1, <1>2, ConcatProperties
<1>4. /\ v \in Seq(S) /\ Len(v) = Len(l) + Len(k)
      /\ \A i \in 1 .. Len(l) + Len(k) : v[i] = IF i <= Len(l) THEN l[i] ELSE k[i - Len(l)]
  BY ConcatProperties
<1>5. ASSUME NEW i \in 1 .. Len(l) + Len(k)
      PROVE  u[i] = v[i]
  <2>1. CASE i <= Len(l)
    BY <1>2, <1>3, <1>4, <2>1
  <2>2. CASE i = Len(l) + 1
    BY <1>1, <1>2, <1>3, <1>4, <2>2
  <2>3. CASE i > Len(l) + 1
    <3>1. u[i] = Tail(k)[i - (Len(l) + 1)] /\ i - (Len(l) + 1) \in 1 .. Len(Tail(k))
      BY <1>1, <1>2, <1>3, <2>3
    <3>2. Tail(k)[i - (Len(l) + 1)] = k[i - Len(l)]
      BY <1>1, <1>2, <3>1
    <3> QED BY <1>2, <1>4, <2>3, <3>1, <3>2
  <2> QED BY <1>2, <2>1, <2>2, <2>3
<1>6. u = v
  <2> HIDE DEF u, v
  <2> QED BY <1>3, <1>4, <1>5, SeqEqual
<1> QED BY <1>1, <1>2, <1>6

LEMMA AppendLater ==
  ASSUME NEW S, NEW l \in Seq(S), NEW k \in Seq(S), NEW e \in S
  PROVE  l \o Append(k, e) = Append(l \o k, e)
PROOF
<1>1. l \o k \in Seq(S) /\ <<e>> \in Seq(S)
  BY ConcatProperties
<1>2. (l \o k) \o <<e>> = l \o (k \o <<e>>)
  BY <1>1, ConcatAssociative
<1>3. Append(k, e) = k \o <<e>> /\ Append(l \o k, e) = (l \o k) \o <<e>>
  BY <1>1, AppendIsConcat
<1> QED BY <1>2, <1>3

LEMMA ElementsOfConcat ==
  ASSUME NEW S, NEW l \in Seq(S), NEW k \in Seq(S)
  PROVE  Elements(l \o k) = Elements(l) \cup Elements(k)
PROOF
<1>1. /\ Len(l) \in Nat /\ DOMAIN l = 1 .. Len(l) /\ Len(k) \in Nat /\ DOMAIN k = 1 .. Len(k)
      /\ DOMAIN (l \o k) = 1 .. Len(l) + Len(k)
      /\ \A i \in 1 .. Len(l) + Len(k) : (l \o k)[i] = IF i <= Len(l) THEN l[i] ELSE k[i - Len(l)]
  BY ConcatProperties, LenProperties
<1>2. ASSUME NEW i \in DOMAIN (l \o k)
      PROVE  (l \o k)[i] \in Elements(l) \cup Elements(k)
  <2>1. CASE i <= Len(l)
    <3>1. i \in DOMAIN l /\ (l \o k)[i] = l[i]
      BY <1>1, <2>1
    <3> QED BY <3>1 DEF Elements
  <2>2. CASE i > Len(l)
    <3>1. i - Len(l) \in DOMAIN k /\ (l \o k)[i] = k[i - Len(l)]
      BY <1>1, <2>2
    <3> QED BY <3>1 DEF Elements
  <2> QED BY <1>1, <2>1, <2>2
<1>3. ASSUME NEW i \in DOMAIN l
      PROVE  l[i] \in Elements(l \o k)
  <2>1. i \in DOMAIN (l \o k) /\ (l \o k)[i] = l[i]
    BY <1>1
  <2> QED BY <2>1 DEF Elements
<1>4. ASSUME NEW i \in DOMAIN k
      PROVE  k[i] \in Elements(l \o k)
  <2>1. Len(l) + i \in DOMAIN (l \o k) /\ (l \o k)[Len(l) + i] = k[i]
    <3>1. Len(l) + i \in 1 .. Len(l) + Len(k) /\ ~(Len(l) + i <= Len(l)) /\ (Len(l) + i) - Len(l) = i
      BY <1>1
    <3> QED BY <1>1, <3>1
  <2> QED BY <2>1 DEF Elements
<1> QED BY <1>2, <1>3, <1>4 DEF Elements

LEMMA ElementsOfAppend ==
  ASSUME NEW S, NEW l \in Seq(S), NEW e \in S
  PROVE  Elements(Append(l, e)) = Elements(l) \cup {e}
PROOF
<1>1. <<e>> \in Seq(S) /\ Elements(<<e>>) = {e}
  BY DEF Elements
<1>2. Append(l, e) = l \o <<e>>
  BY AppendIsConcat
<1>3. Elements(l \o <<e>>) = Elements(l) \cup Elements(<<e>>)
  BY <1>1, ElementsOfConcat, ZenonT(30)
<1> QED BY <1>1, <1>2, <1>3

LEMMA FlowTypes ==
  ASSUME PipeInv, NEW s \in Streams
  PROVE  /\ got[s] \in Seq(Written) /\ out[s] \in Seq(Written)
         /\ Held(relayed[s]) \in Seq(Written) /\ got[s] \o Held(relayed[s]) \in Seq(Written)
         /\ Flow(s) \in Seq(Written)
         /\ relayed[s] # NoEvent => relayed[s] \in Written
         /\ Elements(Flow(s)) = (Elements(got[s]) \cup Elements(Held(relayed[s]))) \cup Elements(out[s])
PROOF
<1>1. /\ got[s] \in Seq(Written) /\ out[s] \in Seq(Written)
      /\ relayed[s] # NoEvent => relayed[s] \in Written
  BY DEF PipeInv, StreamTypes, Written
<1>2. Held(relayed[s]) \in Seq(Written)
  BY <1>1 DEF Held
<1>3. got[s] \o Held(relayed[s]) \in Seq(Written) /\ Flow(s) \in Seq(Written)
  BY <1>1, <1>2, ConcatProperties DEF Flow
<1>4. Elements(got[s] \o Held(relayed[s])) = Elements(got[s]) \cup Elements(Held(relayed[s]))
  BY <1>1, <1>2, ElementsOfConcat
<1>5. Elements(Flow(s)) = Elements(got[s] \o Held(relayed[s])) \cup Elements(out[s])
  <2> DEFINE told == got[s] \o Held(relayed[s])
  <2>1. told \in Seq(Written) /\ out[s] \in Seq(Written)
    BY <1>1, <1>3
  <2> HIDE DEF told
  <2>2. Elements(told \o out[s]) = Elements(told) \cup Elements(out[s])
    BY <2>1, ElementsOfConcat
  <2> QED
    BY <2>2 DEF told, Flow
<1> QED BY <1>1, <1>2, <1>3, <1>4, <1>5


\* What a step of another goroutine leaves of a stream.
Untouched(s) ==
  /\ attempt'[s] = attempt[s] /\ turn'[s] = turn[s] /\ hand'[s] = hand[s]
  /\ relay'[s] = relay[s] /\ relayed'[s] = relayed[s] /\ consumer'[s] = consumer[s]
  /\ got'[s] = got[s] /\ out'[s] = out[s] /\ adopted'[s] = adopted[s]
  /\ (s \in gaveUp') = (s \in gaveUp) /\ (s \in published') = (s \in published)

LEMMA TurnsApart ==
  ASSUME StreamTypes, NEW s \in Streams, NEW r \in Streams, r # s, Turn(r)
  PROVE  Untouched(s)
PROOF
<1> USE DEF StreamTypes, outerVars, Untouched, Goto, StepFails
<1>1. CASE Acquire(r) \/ AcquireCancelled(r) \/ Open(r)
  BY <1>1 DEF Acquire, AcquireCancelled, Open
<1>2. CASE OpenFails(r)
  BY <1>2 DEF OpenFails
<1>3. CASE ReceiveClosed(r) \/ ReceiveCancelled(r) \/ Retry(r)
  BY <1>3 DEF ReceiveClosed, ReceiveCancelled, Retry
<1>4. CASE Receive(r)
  BY <1>4 DEF Receive
<1>5. CASE Publish(r)
  BY <1>5 DEF Publish
<1>6. CASE Emit(r)
  BY <1>6 DEF Emit
<1>7. CASE EmitFails(r)
  BY <1>7 DEF EmitFails
<1> QED BY <1>1, <1>2, <1>3, <1>4, <1>5, <1>6, <1>7 DEF Turn

LEMMA StepsOfStreams ==
  ASSUME PipeInv, [StreamNext]_streamVars, NEW s \in Streams
  PROVE  Turn(s) \/ Relay(s) \/ ReadOut(s) \/ Untouched(s)
PROOF
<1>0. StreamTypes
  BY DEF PipeInv
<1> USE DEF turnVars, outerVars
<1>1. CASE \E p \in Pipes : Provide(p)
  BY <1>1 DEF Provide, ReadEvent, AbandonRead, Forward, ReleaseSlot, CloseLimited, Untouched
<1>2. CASE \E r \in Streams : Turn(r)
  BY <1>0, <1>2, TurnsApart
<1>3. CASE \E r \in Streams : Relay(r)
  <2>1. PICK r \in Streams : Relay(r)
    BY <1>3
  <2>2. CASE r # s
    BY <1>0, <2>1, <2>2 DEF Relay, RelayTake, Adopt, RelayClose, Untouched, StreamTypes
  <2> QED BY <2>1, <2>2
<1>4. CASE \E r \in Streams : ReadOut(r)
  <2>1. PICK r \in Streams : ReadOut(r)
    BY <1>4
  <2>2. CASE r # s /\ Consume(r)
    <3>1. \E c \in {"reading", "ended", "left"} : consumer' = [consumer EXCEPT ![r] = c]
      BY <2>2 DEF Consume
    <3>2. consumer'[s] = consumer[s]
      BY <1>0, <2>2, <3>1 DEF StreamTypes
    <3> QED BY <1>0, <2>2, <3>2 DEF Consume, Untouched, StreamTypes
  <2>3. CASE r # s /\ (Wait(r) \/ ConsumeClosed(r) \/ ConsumeCancelled(r))
    BY <1>0, <2>3 DEF Wait, ConsumeClosed, ConsumeCancelled, Untouched, StreamTypes
  <2> QED BY <2>1, <2>2, <2>3 DEF ReadOut
<1>5. CASE \E k \in Completers : Complete(k)
  BY <1>5 DEF Complete, Untouched
<1>6. CASE (\E x \in Streams \cup Completers : Cancel(x)) \/ MutateParent \/ UNCHANGED streamVars
  BY <1>6 DEF Cancel, MutateParent, streamVars, Untouched
<1> QED BY <1>1, <1>2, <1>3, <1>4, <1>5, <1>6 DEF StreamNext, Running

\* What a turn has written is what its consumer will see: a step writes one event more
\* or moves one on.
LEMMA FlowGrows ==
  ASSUME PipeInv, NEW s \in Streams, relay[s] = "closed" \/ s \in Transferred
  PROVE  /\ Untouched(s) => Flow(s)' = Flow(s)
         /\ Relay(s) \/ ReadOut(s) => Flow(s)' = Flow(s)
         /\ Turn(s) /\ ~Emit(s) => Flow(s)' = Flow(s)
         /\ Emit(s) => Flow(s)' = Append(Flow(s), ToWrite(s))
PROOF
<1> DEFINE before == got[s] \o Held(relayed[s])
<1>0. /\ got[s] \in Seq(Written) /\ out[s] \in Seq(Written)
      /\ Held(relayed[s]) \in Seq(Written) /\ before \in Seq(Written)
      /\ relayed[s] # NoEvent => relayed[s] \in Written
  BY FlowTypes
<1>1. TurnOK(s) /\ out \in [Streams -> Seq(Written)] /\ got \in [Streams -> Seq(Written)]
      /\ relayed \in [Streams -> Events]
  BY DEF PipeInv, StreamTypes
<1>2. Untouched(s) => Flow(s)' = Flow(s)
  BY DEF Untouched, Flow
<1>3. ASSUME Relay(s)
      PROVE  Flow(s)' = Flow(s)
  <2>1. CASE RelayTake(s)
    <3>1. relayed[s] = NoEvent /\ Held(relayed[s]) = <<>> /\ out[s] # <<>>
      BY <1>1, <2>1 DEF RelayTake, TurnOK, Held
    <3>2. got'[s] = got[s] /\ relayed'[s] = Head(out[s]) /\ out'[s] = Tail(out[s])
      BY <1>1, <2>1 DEF RelayTake
    <3>3. /\ Append(got[s], Head(out[s])) \o Tail(out[s]) = got[s] \o out[s]
          /\ Head(out[s]) \in Written
      BY <1>0, <3>1, MoveHead
    <3>4. Held(Head(out[s])) = <<Head(out[s])>>
      BY <3>3 DEF Held, Written
    <3>5. got[s] \o <<Head(out[s])>> = Append(got[s], Head(out[s])) /\ got[s] \o <<>> = got[s]
      BY <1>0, <3>3, AppendIsConcat, ConcatEmptySeq
    <3> QED BY <3>1, <3>2, <3>3, <3>4, <3>5 DEF Flow
  <2>2. CASE Adopt(s) \/ RelayClose(s)
    BY <2>2 DEF Adopt, RelayClose, Flow
  <2> QED BY <1>3, <2>1, <2>2 DEF Relay
<1>4. ASSUME ReadOut(s)
      PROVE  Flow(s)' = Flow(s)
  <2>1. CASE Consume(s) /\ s \in Transferred
    <3>1. /\ got'[s] = Append(got[s], relayed[s]) /\ relayed'[s] = NoEvent /\ out'[s] = out[s]
          /\ relayed[s] # NoEvent
      BY <1>1, <2>1 DEF Consume, Ready
    <3>2. Held(relayed[s]) = <<relayed[s]>> /\ Held(NoEvent) = <<>>
      BY <3>1 DEF Held
    <3>3. Append(got[s], relayed[s]) = got[s] \o <<relayed[s]>>
      BY <1>0, <3>1, AppendIsConcat
    <3>4. before \o <<>> = before
      BY <1>0, ConcatEmptySeq
    <3> QED BY <3>1, <3>2, <3>3, <3>4 DEF Flow
  <2>2. CASE Consume(s) /\ s \notin Transferred
    <3>1. /\ out[s] # <<>> /\ got'[s] = Append(got[s], Head(out[s])) /\ relayed'[s] = relayed[s]
          /\ out'[s] = Tail(out[s])
      BY <1>1, <2>2 DEF Consume, Ready
    <3>2. relayed[s] = NoEvent /\ Held(relayed[s]) = <<>>
      BY <1>1, <2>2 DEF TurnOK, Held
    <3>3. /\ Append(got[s], Head(out[s])) \o Tail(out[s]) = got[s] \o out[s]
          /\ Append(got[s], Head(out[s])) \in Seq(Written)
      <4> DEFINE l == got[s]
                 k == out[s]
      <4>1. l \in Seq(Written) /\ k \in Seq(Written) /\ k # <<>>
        BY <1>0, <3>1
      <4> HIDE DEF l, k
      <4>2. Append(l, Head(k)) \o Tail(k) = l \o k /\ Append(l, Head(k)) \in Seq(Written)
        BY <4>1, MoveHead
      <4> QED BY <4>2 DEF l, k
    <3>4. /\ got[s] \o <<>> = got[s]
          /\ Append(got[s], Head(out[s])) \o <<>> = Append(got[s], Head(out[s]))
      BY <1>0, <3>3, ConcatEmptySeq
    <3> QED BY <3>1, <3>2, <3>3, <3>4 DEF Flow
  <2>3. CASE Wait(s) \/ ConsumeClosed(s) \/ ConsumeCancelled(s)
    BY <2>3 DEF Wait, ConsumeClosed, ConsumeCancelled, Flow
  <2> QED BY <1>4, <2>1, <2>2, <2>3 DEF ReadOut
<1>5. Turn(s) /\ ~Emit(s) => Flow(s)' = Flow(s)
  BY DEF Turn, Acquire, AcquireCancelled, Open, OpenFails, Receive, ReceiveClosed,
         ReceiveCancelled, Retry, Publish, EmitFails, outerVars, Flow
<1>6. ASSUME Emit(s)
      PROVE  Flow(s)' = Append(Flow(s), ToWrite(s))
  <2>1. ToWrite(s) \in Written
    BY <1>6, WritesEvents DEF Emit
  <2>2. got'[s] = got[s] /\ relayed'[s] = relayed[s] /\ out'[s] = Append(out[s], ToWrite(s))
    BY <1>1, <1>6 DEF Emit, outerVars
  <2>3. before \o Append(out[s], ToWrite(s)) = Append(before \o out[s], ToWrite(s))
    <3> HIDE DEF before
    <3> QED BY <1>0, <2>1, AppendLater
  <2> QED BY <2>2, <2>3 DEF Flow
<1> QED BY <1>2, <1>3, <1>4, <1>5, <1>6


\* What a step of a turn's goroutine does to what its consumer will see.
LEMMA TurnSteps ==
  ASSUME PipeInv, NEW s \in Streams, Turn(s), ~Terminal(hand[s])
  PROVE  /\ turn[s] # "closed" /\ UNCHANGED outerVars
         /\ published \subseteq published' /\ gaveUp \subseteq gaveUp'
         /\ ~Terminal(hand'[s])
         /\ turn'[s] = "closed" => s \in gaveUp' \/ (Emit(s) /\ Terminal(ToWrite(s)))
         /\ turn'[s] = "final" => s \in published'
         /\ turn'[s] = "done" => turn[s] = "final"
         /\ Emit(s) /\ Terminal(ToWrite(s)) => turn'[s] = "closed"
         /\ Emit(s) /\ ToWrite(s) = Done => turn[s] = "done"
PROOF
<1>0. /\ StreamTypes /\ turn \in [Streams -> {"acquire", "open", "recv", "emit", "backoff",
                                  "publish", "final", "done", "fail", "closed"}]
      /\ hand \in [Streams -> Events] /\ ~Terminal(NoEvent)
  BY DEF PipeInv, StreamTypes, NoEvent, Terminal
<1>1. ASSUME StepFails(s)
      PROVE  turn'[s] \in {"backoff", "fail"} /\ ~Terminal(hand'[s])
  BY <1>0, <1>1 DEF StepFails, Goto
<1>2. CASE Acquire(s) \/ Open(s)
  BY <1>0, <1>2 DEF Acquire, Open, Goto, Emit, ToWrite
<1>3. CASE AcquireCancelled(s) \/ ReceiveClosed(s) \/ ReceiveCancelled(s)
  BY <1>0, <1>1, <1>3 DEF AcquireCancelled, ReceiveClosed, ReceiveCancelled, Emit, ToWrite
<1>4. CASE OpenFails(s)
  <2>1. (Goto(s, "acquire") /\ UNCHANGED hand) \/ StepFails(s)
    BY <1>4 DEF OpenFails
  <2>2. turn'[s] \in {"acquire", "backoff", "fail"} /\ ~Terminal(hand'[s])
    BY <1>0, <1>1, <2>1 DEF Goto
  <2> QED BY <1>4, <2>2 DEF OpenFails, Emit, ToWrite
<1>5. CASE Receive(s)
  <2>1. turn'[s] \in {"backoff", "fail", "publish", "emit"} /\ ~Terminal(hand'[s])
    <3> DEFINE e == Head(limited[Pipe(s)])
    <3>1. CASE e.kind = "error"
      BY <1>1, <1>5, <3>1 DEF Receive
    <3>2. CASE e.kind = "done"
      BY <1>0, <1>5, <3>2 DEF Receive, Goto
    <3>3. CASE e.kind \notin {"error", "done"}
      <4>1. turn' = [turn EXCEPT ![s] = "emit"] /\ hand' = [hand EXCEPT ![s] = e]
        BY <1>5, <3>3 DEF Receive, Goto
      <4> QED BY <1>0, <3>3, <4>1 DEF Terminal
    <3> QED BY <3>1, <3>2, <3>3
  <2> QED BY <1>5, <2>1 DEF Receive, Emit, ToWrite
<1>6. CASE Retry(s)
  BY <1>0, <1>6 DEF Retry, Goto, Emit, ToWrite
<1>7. CASE Publish(s)
  BY <1>0, <1>7 DEF Publish, Goto, Emit, ToWrite
<1>8. CASE Emit(s)
  <2>1. turn[s] \in {"emit", "final", "done", "fail"}
    BY <1>8, WritesEvents DEF Emit
  <2>2. hand'[s] = NoEvent /\ UNCHANGED <<published, gaveUp, outerVars>>
    BY <1>0, <1>8 DEF Emit
  <2>3. CASE turn[s] = "emit"
    <3>1. turn'[s] = "recv" /\ ToWrite(s) = hand[s]
      BY <1>0, <1>8, <2>3 DEF Emit, Goto, ToWrite
    <3> QED BY <1>0, <2>2, <2>3, <3>1, EventFacts
  <2>4. CASE turn[s] = "final"
    <3>1. turn'[s] = "done" /\ ToWrite(s) = Final
      BY <1>0, <1>8, <2>4 DEF Emit, Goto, ToWrite
    <3> QED BY <1>0, <2>2, <2>4, <3>1, EventFacts
  <2>5. CASE turn[s] \in {"done", "fail"}
    <3>1. turn'[s] = "closed" /\ ToWrite(s) = IF turn[s] = "done" THEN Done ELSE Error
      BY <1>0, <1>8, <2>5 DEF Emit, Goto, ToWrite
    <3> QED BY <1>0, <1>8, <2>2, <2>5, <3>1, EventFacts
  <2> QED BY <2>1, <2>3, <2>4, <2>5
<1>9. CASE EmitFails(s)
  <2>1. turn[s] \in {"emit", "final", "done", "fail"}
    BY <1>9, WritesEvents DEF EmitFails
  <2>2. s \in gaveUp' /\ gaveUp \subseteq gaveUp' /\ UNCHANGED <<published, outerVars, out>>
        /\ ~HasRoom(out[s])
    BY <1>9 DEF EmitFails
  <2>3. turn'[s] \in {"backoff", "fail", "closed"} /\ ~Terminal(hand'[s])
    <3>1. CASE turn[s] = "emit"
      BY <1>1, <1>9, <3>1 DEF EmitFails
    <3>2. CASE turn[s] # "emit"
      BY <1>0, <1>9, <3>2 DEF EmitFails, Goto
    <3> QED BY <3>1, <3>2
  <2> QED BY <2>1, <2>2, <2>3 DEF Emit
<1> QED BY <1>2, <1>3, <1>4, <1>5, <1>6, <1>7, <1>8, <1>9 DEF Turn

\* A list that has not ended goes on.
LEMMA EndsOnceAppend ==
  ASSUME NEW l \in Seq(Written), NEW e \in Written, ~Ended(l)
  PROVE  EndsOnce(Append(l, e)) /\ (Ended(Append(l, e)) <=> Terminal(e))
PROOF
<1>1. /\ Len(Append(l, e)) = Len(l) + 1 /\ Len(l) \in Nat
      /\ \A i \in 1 .. Len(l) : Append(l, e)[i] = l[i] /\ l[i] \in Elements(l)
  BY AppendProperties, LenProperties DEF Elements
<1>2. EndsOnce(Append(l, e))
  BY <1>1 DEF EndsOnce, Ended
<1>3. Elements(Append(l, e)) = Elements(l) \cup {e}
  BY ElementsOfAppend
<1> QED BY <1>2, <1>3 DEF Ended

LEMMA FlowInit ==
  ASSUME NEW called \in SUBSET (Streams \cup Completers), StreamInit(called)
  PROVE  FlowInv
PROOF
<1> SUFFICES ASSUME NEW s \in Streams
             PROVE  FlowOK(s) /\ RelayOK(s)
  BY DEF FlowInv
<1>1. got[s] = <<>> /\ out[s] = <<>> /\ relayed[s] = NoEvent /\ hand[s] = NoEvent
  BY DEF StreamInit
<1>2. Flow(s) = <<>> /\ Elements(<<>>) = {}
  BY <1>1 DEF Flow, Held, Elements
<1>3. ~Terminal(NoEvent)
  BY DEF Terminal, NoEvent
<1>4. turn[s] \notin {"final", "done"} /\ (turn[s] = "closed" => consumer[s] = "left")
      /\ consumer[s] # "ended"
  BY DEF StreamInit
<1>5. FlowOK(s)
  BY <1>1, <1>2, <1>3, <1>4 DEF FlowOK, Ended, EndsOnce
<1>6. RelayOK(s)
  BY <1>1, <1>2 DEF RelayOK, StreamInit
<1> QED BY <1>5, <1>6

LEMMA TurnKeepsFlow ==
  ASSUME PipeInv, NEW s \in Streams, FlowOK(s), RelayOK(s), Turn(s)
  PROVE  FlowOK(s)' /\ RelayOK(s)'
PROOF
<1>1. /\ turn[s] # "closed" /\ UNCHANGED outerVars
      /\ published \subseteq published' /\ gaveUp \subseteq gaveUp'
      /\ ~Terminal(hand'[s])
      /\ turn'[s] = "closed" => s \in gaveUp' \/ (Emit(s) /\ Terminal(ToWrite(s)))
      /\ turn'[s] = "final" => s \in published'
      /\ turn'[s] = "done" => turn[s] = "final"
      /\ Emit(s) /\ Terminal(ToWrite(s)) => turn'[s] = "closed"
      /\ Emit(s) /\ ToWrite(s) = Done => turn[s] = "done"
  BY TurnSteps DEF FlowOK
<1>2. /\ ~Ended(Flow(s)) /\ Done \notin Elements(Flow(s)) /\ Flow(s) \in Seq(Written)
      /\ ToWrite(s) # NoEvent => ToWrite(s) \in Written
  BY <1>1, FlowTypes, WritesEvents, EventFacts DEF FlowOK, Ended
<1>3. got' = got /\ consumer' = consumer /\ relay' = relay /\ relayed' = relayed /\ adopted' = adopted
  BY <1>1 DEF outerVars
<1>4. relay[s] = "closed" \/ s \in Transferred
  BY DEF RelayOK
<1>5. RelayOK(s)'
  BY <1>1, <1>3 DEF RelayOK
<1>6. CASE ~Emit(s)
  <2>1. Flow(s)' = Flow(s)
    BY <1>4, <1>6, FlowGrows
  <2>2. ~Ended(Flow(s))' /\ Done \notin Elements(Flow(s))' /\ EndsOnce(Flow(s))'
    BY <1>2, <2>1 DEF FlowOK
  <2>3. FlowOK(s)'
    BY <1>1, <1>3, <1>6, <2>2 DEF FlowOK
  <2> QED BY <1>5, <2>3
<1>7. CASE Emit(s)
  <2>1. Flow(s)' = Append(Flow(s), ToWrite(s)) /\ ToWrite(s) \in Written
    BY <1>2, <1>4, <1>7, FlowGrows DEF Emit
  <2>2. EndsOnce(Flow(s)') /\ (Ended(Flow(s)') <=> Terminal(ToWrite(s)))
    BY <1>2, <2>1, EndsOnceAppend
  <2>3. Done \in Elements(Flow(s)') => ToWrite(s) = Done
    <3>1. Elements(Append(Flow(s), ToWrite(s))) = Elements(Flow(s)) \cup {ToWrite(s)}
      BY <1>2, <2>1, ElementsOfAppend
    <3> QED BY <1>2, <2>1, <3>1
  <2>4. EndsOnce(Flow(s))' /\ (Ended(Flow(s))' <=> Terminal(ToWrite(s)))
        /\ (Done \in Elements(Flow(s))' => turn[s] = "done")
    BY <1>1, <1>7, <2>2, <2>3 DEF EndsOnce, Ended, Elements
  <2>5. FlowOK(s)'
    BY <1>1, <1>3, <1>7, <2>4 DEF FlowOK
  <2> QED BY <1>5, <2>5
<1> QED BY <1>6, <1>7


LEMMA RelayKeepsFlow ==
  ASSUME PipeInv, NEW s \in Streams, FlowOK(s), RelayOK(s), Relay(s)
  PROVE  FlowOK(s)' /\ RelayOK(s)'
PROOF
<1>1. UNCHANGED <<turnVars, consumer, got>>
  BY DEF Relay, RelayTake, Adopt, RelayClose
<1>2. Flow(s)' = Flow(s)
  BY FlowGrows DEF RelayOK
<1>3. FlowOK(s)'
  BY <1>1, <1>2 DEF FlowOK, turnVars
<1>4. /\ TurnOK(s) /\ relay \in [Streams -> {"range", "adopt", "send", "closed"}]
      /\ relayed \in [Streams -> Events] /\ adopted \in [Streams -> {"no", "yes", "stale"}]
      /\ out \in [Streams -> Seq(Written)]
  BY DEF PipeInv, StreamTypes
<1>5. CASE RelayTake(s)
  <2>1. /\ relay[s] = "range" /\ relayed'[s] = Head(out[s]) /\ adopted' = adopted
        /\ relay'[s] = IF Head(out[s]) = Done THEN "adopt" ELSE "send"
    BY <1>4, <1>5 DEF RelayTake
  <2>2. s \in Transferred /\ relay'[s] # "closed"
    BY <2>1 DEF RelayOK
  <2> QED BY <1>1, <1>3, <2>1, <2>2 DEF RelayOK
<1>6. CASE Adopt(s)
  <2>1. /\ relay[s] = "adopt" /\ relay'[s] = "send" /\ relayed' = relayed /\ adopted'[s] # "no"
    BY <1>4, <1>6 DEF Adopt
  <2>2. s \in Transferred /\ relayed'[s] = Done
    BY <2>1 DEF RelayOK
  <2> QED BY <1>1, <1>3, <2>1, <2>2 DEF RelayOK
<1>7. CASE RelayClose(s)
  <2>1. /\ relay[s] = "range" /\ relay'[s] = "closed" /\ relayed' = relayed /\ adopted' = adopted
        /\ out[s] = <<>> /\ turn[s] = "closed" /\ out' = out /\ turn' = turn
    BY <1>1, <1>4, <1>7 DEF RelayClose, turnVars
  <2>2. RelayOK(s)'
    BY <1>1, <2>1 DEF RelayOK
  <2> QED BY <1>3, <2>2
<1> QED BY <1>5, <1>6, <1>7 DEF Relay

LEMMA ReadOutKeepsFlow ==
  ASSUME PipeInv, NEW s \in Streams, FlowOK(s), RelayOK(s), ReadOut(s)
  PROVE  FlowOK(s)' /\ RelayOK(s)'
PROOF
<1>1. UNCHANGED <<turnVars, adopted>> /\ consumer[s] \in {"reading", "waiting"}
  BY DEF ReadOut, Wait, Consume, ConsumeClosed, ConsumeCancelled, Reading
<1>2. Flow(s)' = Flow(s)
  BY FlowGrows DEF RelayOK
<1>3. /\ TurnOK(s) /\ relay \in [Streams -> {"range", "adopt", "send", "closed"}]
      /\ relayed \in [Streams -> Events] /\ out \in [Streams -> Seq(Written)]
      /\ got \in [Streams -> Seq(Written)]
      /\ consumer \in [Streams -> {"reading", "waiting", "ended", "left"}]
  BY DEF PipeInv, StreamTypes
<1>4. CASE Consume(s)
  <2> DEFINE e == Ready(s)
  <2>1. e \in Written
    <3>1. out[s] # <<>> => Head(out[s]) \in Written
      BY <1>3
    <3> QED BY <1>3, <1>4, <3>1 DEF Consume, Ready, Written
  <2>2. got'[s] = Append(got[s], e) /\ Elements(got'[s]) = Elements(got[s]) \cup {e}
    <3>1. got'[s] = Append(got[s], e)
      BY <1>3, <1>4 DEF Consume
    <3>2. got[s] \in Seq(Written)
      BY <1>3
    <3> HIDE DEF e
    <3> QED BY <2>1, <3>1, <3>2, ElementsOfAppend
  <2>4. consumer'[s] = "ended" => Terminal(e)
    <3>1. CASE Terminal(e)
      BY <3>1
    <3>2. CASE ~Terminal(e)
      <4>1. \E c \in {"reading", "left"} : consumer' = [consumer EXCEPT ![s] = c]
        BY <1>4, <3>2 DEF Consume
      <4> QED BY <1>3, <4>1
    <3> QED BY <3>1, <3>2
  <2>5. Ended(got[s])' <=> Ended(got[s]) \/ Terminal(e)
    <3>1. Elements(got[s])' = Elements(got[s]) \cup {e}
      BY <2>2 DEF Elements
    <3> HIDE DEF e
    <3> QED BY <3>1 DEF Ended
  <2>6. FlowOK(s)'
    BY <1>1, <1>2, <2>4, <2>5 DEF FlowOK, turnVars
  <2>7. RelayOK(s)'
    <3>1. Done \in Elements(got[s])' <=> Done \in Elements(got[s]) \/ e = Done
      BY <2>2 DEF Elements
    <3>2. CASE s \in Transferred
      <4>1. relay[s] = "send" /\ relay'[s] = "range" /\ e = relayed[s]
        BY <1>3, <1>4, <3>2 DEF Consume, Ready
      <4> HIDE DEF e
      <4> QED BY <1>1, <3>1, <3>2, <4>1 DEF RelayOK
    <3>3. CASE s \notin Transferred
      <4>1. relay' = relay
        BY <1>4, <3>3 DEF Consume
      <4> QED BY <1>1, <3>3, <4>1 DEF RelayOK
    <3> QED BY <3>2, <3>3
  <2> QED BY <2>6, <2>7
<1>5. CASE ConsumeClosed(s)
  <2>1. /\ relay[s] = "closed" /\ turn[s] = "closed" /\ Ready(s) = NoEvent
        /\ UNCHANGED <<out, relay, relayed, got>>
    BY <1>5 DEF ConsumeClosed, ReadClosed
  <2>2. relayed[s] = NoEvent /\ Held(relayed[s]) = <<>>
    BY <1>3, <2>1 DEF TurnOK, Held
  <2>3. out[s] = <<>>
    <3>1. s \notin Transferred /\ out[s] # <<>> => Head(out[s]) \in Written
      BY <1>3
    <3> QED BY <2>1, <3>1 DEF RelayOK, Ready, Written
  <2>4. Flow(s) = got[s]
    <3>1. got[s] \o <<>> = got[s]
      BY <1>3, ConcatEmptySeq
    <3> QED BY <2>2, <2>3, <3>1 DEF Flow
  <2>5. Ended(got[s]) \/ s \in gaveUp
    BY <1>1, <2>1, <2>4 DEF FlowOK
  <2>6. FlowOK(s)'
    <3>1. consumer'[s] = "ended"
      BY <1>3, <1>5 DEF ConsumeClosed
    <3> QED BY <1>1, <1>2, <2>1, <2>5, <2>4, <3>1 DEF FlowOK, turnVars
  <2>7. RelayOK(s)'
    BY <1>1, <2>1 DEF RelayOK, turnVars
  <2> QED BY <2>6, <2>7
<1>6. CASE Wait(s) \/ ConsumeCancelled(s)
  <2>1. consumer'[s] \in {"waiting", "left"} /\ UNCHANGED <<out, relay, relayed, got>>
    BY <1>3, <1>6 DEF Wait, ConsumeCancelled
  <2>2. FlowOK(s)'
    BY <1>1, <1>2, <2>1 DEF FlowOK, turnVars
  <2>3. RelayOK(s)'
    BY <1>1, <2>1 DEF RelayOK, turnVars
  <2> QED BY <2>2, <2>3
<1> QED BY <1>4, <1>5, <1>6 DEF ReadOut

LEMMA StepKeepsFlow ==
  ASSUME PipeInv, FlowInv, [StreamNext]_streamVars
  PROVE  FlowInv'
PROOF
<1> SUFFICES ASSUME NEW s \in Streams
             PROVE  FlowOK(s)' /\ RelayOK(s)'
  BY DEF FlowInv
<1>1. FlowOK(s) /\ RelayOK(s)
  BY DEF FlowInv
<1>2. CASE Untouched(s)
  <2>1. Flow(s)' = Flow(s)
    BY <1>1, <1>2, FlowGrows DEF RelayOK
  <2>2. FlowOK(s)'
    BY <1>1, <1>2, <2>1 DEF FlowOK, Untouched
  <2>3. RelayOK(s)'
    BY <1>1, <1>2 DEF RelayOK, Untouched
  <2> QED BY <2>2, <2>3
<1> QED BY <1>1, <1>2, StepsOfStreams, TurnKeepsFlow, RelayKeepsFlow, ReadOutKeepsFlow

LEMMA FlowsHold == StreamSpec => []FlowInv
PROOF
<1>1. (\E called \in SUBSET (Streams \cup Completers) : StreamInit(called)) => FlowInv
  BY FlowInit
<1>2. PipeInv /\ FlowInv /\ [StreamNext]_streamVars => FlowInv'
  BY StepKeepsFlow
<1> QED BY <1>1, <1>2, PipesHold, PTL DEF StreamSpec

\* When the consumer of a transfer stream sees Done, the child's published turn has been
\* adopted or refused; without Done the parent is as it was, and never has a consumer
\* that was told of an error a parent that was brought up to date
\* (adoptTransferStreamOnDone).
THEOREM AdoptsBeforeDone == StreamSpec => []AdoptedBeforeDone
PROOF
<1>1. ASSUME PipeInv, FlowInv, NEW s \in Transferred
      PROVE  /\ Done \in Elements(got[s]) => adopted[s] # "no"
             /\ adopted[s] # "no" => s \in published /\ Error \notin Elements(got[s])
  <2>0. s \in Streams
    BY StreamsAssumption
  <2>1. FlowOK(s) /\ RelayOK(s)
    BY <1>1, <2>0 DEF FlowInv
  <2>2. /\ Flow(s) \in Seq(Written)
        /\ Elements(Flow(s)) = (Elements(got[s]) \cup Elements(Held(relayed[s]))) \cup Elements(out[s])
    BY <1>1, <2>0, FlowTypes
  <2>3. ASSUME adopted[s] # "no"
        PROVE  s \in published /\ Error \notin Elements(got[s])
    <3>1. Done \in Elements(got[s]) \/ relayed[s] = Done
      BY <2>1, <2>3 DEF RelayOK
    <3>2. relayed[s] = Done => Done \in Elements(Held(relayed[s]))
      BY EventFacts DEF Held, Elements
    <3>3. Done \in Elements(Flow(s))
      BY <2>2, <3>1, <3>2
    <3>4. Error \notin Elements(Flow(s))
      <4>1. Terminal(Done) /\ Terminal(Error) /\ Done # Error
        BY EventFacts
      <4>2. DOMAIN Flow(s) = 1 .. Len(Flow(s)) /\ Len(Flow(s)) \in Nat
        BY <2>2
      <4>3. \A i \in DOMAIN Flow(s) : Terminal(Flow(s)[i]) => i = Len(Flow(s))
        BY <2>1, <4>2 DEF FlowOK, EndsOnce
      <4> QED BY <3>3, <4>1, <4>3 DEF Elements
    <3> QED BY <2>1, <2>2, <3>3, <3>4 DEF FlowOK
  <2> QED BY <2>1, <2>3 DEF RelayOK
<1>2. PipeInv /\ FlowInv => AdoptedBeforeDone
  BY <1>1 DEF AdoptedBeforeDone, Elements
<1> QED BY <1>2, PipesHold, FlowsHold, PTL


-------------------------------------------------------------------------------
(* Every step keeps OrderInv *)

LEMMA ToldElements ==
  ASSUME NEW l, NEW a, NEW m
  PROVE  Told(l, a, m) <=> {e \in Elements(l) : e.kind = "data" /\ e.attempt = a}
                             = {Data(a, n) : n \in 1 .. m}
PROOF BY DEF Told, Elements

\* An event that is no data event changes nothing of the order ...
LEMMA OtherAppended ==
  ASSUME NEW l \in Seq(Written), NEW e \in Written, e.kind # "data", InOrder(l)
  PROVE  /\ InOrder(Append(l, e))
         /\ \A a : AttemptsUpTo(l, a) => AttemptsUpTo(Append(l, e), a)
         /\ \A a, m : Told(l, a, m) => Told(Append(l, e), a, m)
PROOF
<1>1. /\ Len(Append(l, e)) = Len(l) + 1 /\ Len(l) \in Nat
      /\ DOMAIN l = 1 .. Len(l) /\ DOMAIN Append(l, e) = 1 .. Len(l) + 1
      /\ \A i \in 1 .. Len(l) : Append(l, e)[i] = l[i]
      /\ Append(l, e)[Len(l) + 1] = e
  BY AppendProperties, LenProperties
<1>2. Elements(Append(l, e)) = Elements(l) \cup {e}
  BY ElementsOfAppend
<1>3. InOrder(Append(l, e))
  <2> DEFINE k == Append(l, e)
  <2> SUFFICES ASSUME NEW i \in DOMAIN k, k[i].kind = "data"
               PROVE  /\ \A j \in 1 .. i - 1 : k[j].kind = "data" => Before(k[j], k[i])
                      /\ k[i].n # 1 =>
                           \E j \in 1 .. i - 1 : k[j] = Data(k[i].attempt, k[i].n - 1)
    BY DEF InOrder
  <2>1. i \in 1 .. Len(l) /\ k[i] = l[i] /\ \A j \in 1 .. i - 1 : k[j] = l[j]
    BY <1>1
  <2> HIDE DEF k
  <2> QED BY <1>1, <2>1 DEF InOrder
<1>4. \A a : AttemptsUpTo(l, a) => AttemptsUpTo(Append(l, e), a)
  BY <1>2 DEF AttemptsUpTo
<1>5. ASSUME NEW a
      PROVE  {d \in Elements(Append(l, e)) : d.kind = "data" /\ d.attempt = a}
               = {d \in Elements(l) : d.kind = "data" /\ d.attempt = a}
  BY <1>2
<1>6. \A a, m : Told(l, a, m) => Told(Append(l, e), a, m)
  BY <1>5, ToldElements
<1> QED BY <1>3, <1>4, <1>6

\* ... and the next event of the last attempt is in its place.
LEMMA NextAppended ==
  ASSUME NEW l \in Seq(Written), NEW a \in Nat, NEW m \in Nat, Data(a, m + 1) \in Written,
         InOrder(l), AttemptsUpTo(l, a), Told(l, a, m)
  PROVE  /\ InOrder(Append(l, Data(a, m + 1)))
         /\ AttemptsUpTo(Append(l, Data(a, m + 1)), a)
         /\ Told(Append(l, Data(a, m + 1)), a, m + 1)
PROOF
<1> DEFINE e == Data(a, m + 1)
           k == Append(l, e)
<1>0. e.kind = "data" /\ e.attempt = a /\ e.n = m + 1 /\ e \in Written
  BY DataFacts
<1>1. /\ Len(k) = Len(l) + 1 /\ Len(l) \in Nat
      /\ DOMAIN l = 1 .. Len(l) /\ DOMAIN k = 1 .. Len(l) + 1
      /\ \A i \in 1 .. Len(l) : k[i] = l[i] /\ l[i] \in Elements(l) /\ l[i] \in Written
      /\ k[Len(l) + 1] = e
  BY AppendProperties, LenProperties, ElementOfSeq DEF Elements
<1>2. Elements(k) = Elements(l) \cup {e}
  BY ElementsOfAppend
<1>3. {d \in Elements(l) : d.kind = "data" /\ d.attempt = a} = {Data(a, n) : n \in 1 .. m}
  BY ToldElements
<1>4. InOrder(k)
  <2> SUFFICES ASSUME NEW i \in DOMAIN k, k[i].kind = "data"
               PROVE  /\ \A j \in 1 .. i - 1 : k[j].kind = "data" => Before(k[j], k[i])
                      /\ k[i].n # 1 =>
                           \E j \in 1 .. i - 1 : k[j] = Data(k[i].attempt, k[i].n - 1)
    BY DEF InOrder
  <2> HIDE DEF k, e
  <2>1. CASE i \in 1 .. Len(l)
    <3>1. k[i] = l[i] /\ \A j \in 1 .. i - 1 : k[j] = l[j]
      BY <1>1, <2>1
    <3> QED BY <1>1, <2>1, <3>1 DEF InOrder
  <2>2. CASE i = Len(l) + 1
    <3>1. k[i] = e /\ i - 1 = Len(l)
      BY <1>1, <2>2
    <3>2. ASSUME NEW j \in 1 .. i - 1, k[j].kind = "data"
          PROVE  Before(k[j], k[i])
      <4>1. k[j] = l[j] /\ l[j] \in Elements(l) /\ l[j] \in Written /\ l[j].attempt \in Nat
            /\ l[j].attempt <= a
        BY <1>1, <3>1, <3>2, EventFacts DEF AttemptsUpTo
      <4>2. CASE l[j].attempt = a
        <5>1. PICK n \in 1 .. m : l[j] = Data(a, n)
          BY <1>3, <3>2, <4>1, <4>2
        <5>2. l[j].n = n
          BY <5>1, DataFacts
        <5> QED BY <1>0, <3>1, <4>1, <4>2, <5>2 DEF Before
      <4>3. CASE l[j].attempt # a
        BY <1>0, <3>1, <4>1, <4>3 DEF Before
      <4> QED BY <4>2, <4>3
    <3>3. ASSUME k[i].n # 1
          PROVE  \E j \in 1 .. i - 1 : k[j] = Data(k[i].attempt, k[i].n - 1)
      <4>1. m \in 1 .. m /\ k[i].n - 1 = m /\ k[i].attempt = a
        BY <1>0, <3>1, <3>3
      <4>2. Data(a, m) \in Elements(l)
        BY <1>3, <4>1
      <4>3. PICK j \in 1 .. Len(l) : l[j] = Data(a, m)
        BY <1>1, <4>2 DEF Elements
      <4>4. j \in 1 .. i - 1 /\ k[j] = Data(a, m)
        BY <1>1, <3>1, <4>3
      <4> QED BY <4>1, <4>4
    <3> QED BY <3>2, <3>3
  <2> QED BY <1>1, <2>1, <2>2
<1>5. AttemptsUpTo(k, a)
  <2> HIDE DEF k
  <2> QED BY <1>0, <1>2 DEF AttemptsUpTo
<1>6. Told(k, a, m + 1)
  <2>1. {d \in Elements(k) : d.kind = "data" /\ d.attempt = a} = {Data(a, n) : n \in 1 .. m} \cup {e}
    <3> HIDE DEF k, e
    <3> QED BY <1>0, <1>2, <1>3
  <2>2. 1 .. (m + 1) = (1 .. m) \cup {m + 1}
    OBVIOUS
  <2>3. {Data(a, n) : n \in 1 .. (m + 1)} = {Data(a, n) : n \in 1 .. m} \cup {Data(a, m + 1)}
    BY <2>2
  <2>4. {d \in Elements(k) : d.kind = "data" /\ d.attempt = a} = {Data(a, n) : n \in 1 .. (m + 1)}
    BY <2>1, <2>3
  <2> HIDE DEF k
  <2> QED BY <2>4, ToldElements
<1> QED BY <1>4, <1>5, <1>6

\* What comes first of two lists is in order when the two are.
LEMMA PrefixInOrder ==
  ASSUME NEW l \in Seq(Written), NEW k \in Seq(Written), InOrder(l \o k)
  PROVE  InOrder(l)
PROOF
<1>1. /\ Len(l) \in Nat /\ Len(k) \in Nat
      /\ DOMAIN l = 1 .. Len(l) /\ DOMAIN (l \o k) = 1 .. Len(l) + Len(k)
      /\ \A i \in 1 .. Len(l) : (l \o k)[i] = l[i]
  BY ConcatProperties, LenProperties
<1> DEFINE f == l \o k
<1> SUFFICES ASSUME NEW i \in DOMAIN l, l[i].kind = "data"
             PROVE  /\ \A j \in 1 .. i - 1 : l[j].kind = "data" => Before(l[j], l[i])
                    /\ l[i].n # 1 =>
                         \E j \in 1 .. i - 1 : l[j] = Data(l[i].attempt, l[i].n - 1)
  BY DEF InOrder
<1>2. i \in DOMAIN f /\ f[i] = l[i] /\ \A j \in 1 .. i - 1 : f[j] = l[j]
  BY <1>1
<1>3. InOrder(f)
  OBVIOUS
<1> HIDE DEF f
<1> QED BY <1>1, <1>2, <1>3 DEF InOrder


\* The reader appends what it reads, and the forwarder's end hands out the first line.
LEMMA LineRead ==
  ASSUME NEW l \in Seq(Written), NEW a \in Nat, NEW m \in Nat, NEW k \in Nat,
         Remains(l, a, m, k, "reading"), NEW e \in Written
  PROVE  /\ e = Data(a, k + 1) => Remains(Append(l, e), a, m, k + 1, "reading")
         /\ e \in {Done, Error} => Remains(Append(l, e), a, m, k, e.kind)
         /\ Remains(l, a, m, k, "left")
PROOF
<1>1. /\ Len(Append(l, e)) = Len(l) + 1 /\ Len(l) \in Nat
      /\ \A i \in 1 .. Len(l) : Append(l, e)[i] = l[i]
      /\ Append(l, e)[Len(l) + 1] = e
  BY AppendProperties, LenProperties
<1>2. /\ m <= k /\ Len(l) = k - m /\ \A i \in 1 .. k - m : l[i] = Data(a, m + i)
  BY DEF Remains
<1>3. ASSUME e = Data(a, k + 1)
      PROVE  Remains(Append(l, e), a, m, k + 1, "reading")
  <2> DEFINE u == Append(l, e)
  <2>1. Len(u) = k + 1 - m /\ m <= k + 1
    BY <1>1, <1>2
  <2>2. ASSUME NEW i \in 1 .. (k + 1 - m)
        PROVE  u[i] = Data(a, m + i)
    <3>1. CASE i \in 1 .. k - m
      BY <1>1, <1>2, <3>1
    <3>2. CASE i = k + 1 - m
      <4>1. i = Len(l) + 1 /\ m + i = k + 1
        BY <1>1, <1>2, <3>2
      <4> QED BY <1>1, <1>3, <4>1
    <3>3. i \in 1 .. k - m \/ i = k + 1 - m
      BY <1>2
    <3> QED BY <3>1, <3>2, <3>3
  <2> HIDE DEF u
  <2>3. Remains(u, a, m, k + 1, "reading")
    BY <1>2, <2>1, <2>2 DEF Remains
  <2> QED BY <2>3 DEF u
<1>4. ASSUME e \in {Done, Error}
      PROVE  Remains(Append(l, e), a, m, k, e.kind)
  <2>1. e.kind = IF e = Done THEN "done" ELSE "error"
    BY <1>4, EventFacts
  <2>2. \A i \in 1 .. k - m : Append(l, e)[i] = Data(a, m + i)
    BY <1>1, <1>2
  <2>3. Append(l, e)[(k - m) + 1] = e /\ Len(Append(l, e)) = (k - m) + 1
    BY <1>1, <1>2
  <2> DEFINE u == Append(l, e)
  <2> HIDE DEF u
  <2>4. Remains(u, a, m, k, e.kind)
    BY <1>2, <1>4, <2>1, <2>2, <2>3 DEF Remains, u
  <2> QED BY <2>4 DEF u
<1>5. Remains(l, a, m, k, "left")
  BY <1>2 DEF Remains
<1> QED BY <1>3, <1>4, <1>5

LEMMA LineTaken ==
  ASSUME NEW l \in Seq(Written), NEW a \in Nat, NEW m \in Nat, NEW k \in Nat, NEW end,
         Remains(l, a, m, k, end), l # <<>>
  PROVE  \/ Head(l) = Data(a, m + 1) /\ Remains(Tail(l), a, m + 1, k, end)
         \/ m = k /\ end = "done" /\ Head(l) = Done
         \/ m = k /\ end = "error" /\ Head(l) = Error
PROOF
<1>1. /\ Head(l) = l[1] /\ Len(Tail(l)) = Len(l) - 1 /\ Len(l) \in Nat \ {0}
      /\ \A i \in 1 .. Len(Tail(l)) : Tail(l)[i] = l[i + 1]
  BY HeadTailProperties
<1>2. m <= k /\ \A i \in 1 .. k - m : l[i] = Data(a, m + i)
  BY DEF Remains
<1>3. CASE m = k
  BY <1>1, <1>3 DEF Remains
<1>4. CASE m < k
  <2> DEFINE u == Tail(l)
  <2>1. Head(l) = Data(a, m + 1) /\ m + 1 <= k
    BY <1>1, <1>2, <1>4
  <2>2. Len(l) = IF end \in {"done", "error"} THEN (k - m) + 1 ELSE k - m
    BY DEF Remains
  <2>3. Len(u) = IF end \in {"done", "error"} THEN (k - (m + 1)) + 1 ELSE k - (m + 1)
    BY <1>1, <1>4, <2>2
  <2>4. ASSUME NEW i \in 1 .. k - (m + 1)
        PROVE  u[i] = Data(a, (m + 1) + i)
    <3>1. i \in 1 .. Len(u) /\ i + 1 \in 1 .. k - m /\ m + (i + 1) = (m + 1) + i
      BY <1>4, <2>3
    <3> QED BY <1>1, <1>2, <3>1
  <2>5. end \in {"done", "error"} => u[(k - (m + 1)) + 1] = l[(k - m) + 1]
    <3>1. (k - (m + 1)) + 1 \in Nat /\ ((k - (m + 1)) + 1) + 1 = (k - m) + 1
          /\ 1 <= (k - (m + 1)) + 1
      BY <1>4
    <3> QED BY <1>1, <2>3, <3>1
  <2>6. /\ end = "done" => l[(k - m) + 1] = Done
        /\ end = "error" => l[(k - m) + 1] = Error
    BY DEF Remains
  <2> HIDE DEF u
  <2>7. Remains(u, a, m + 1, k, end)
    BY <2>1, <2>3, <2>4, <2>5, <2>6 DEF Remains
  <2> QED BY <2>1, <2>7 DEF u
<1> QED BY <1>2, <1>3, <1>4

LEMMA NothingRead ==
  ASSUME NEW a
  PROVE  Remains(<<>>, a, 0, 0, "reading")
PROOF BY DEF Remains


\* What the provider's goroutines do, they do to the end of the lines of a pipe.
LEMMA ProviderKeepsLines ==
  ASSUME PipeInv, NEW p \in Pipes, Provide(p), NEW q \in Pipes
  PROVE  /\ \A m \in Nat : Carries(q, m) => Carries(q, m)'
         /\ reader[q] = "done" => reader'[q] = "done" /\ sent'[q] = sent[q]
PROOF
<1>0. /\ reader \in [Pipes -> {"none", "reading", "done", "error", "left"}]
      /\ sent \in [Pipes -> Nat]
      /\ source \in [Pipes -> Seq(Written)] /\ limited \in [Pipes -> Seq(Written)]
      /\ q[2] \in Nat
  BY PipeFacts DEF PipeInv, StreamTypes
<1>1. limited[q] \o source[q] \in Seq(Written)
  BY <1>0, ConcatProperties
<1>2. CASE q # p \/ ReleaseSlot(p) \/ CloseLimited(p)
  <2>1. /\ reader'[q] = reader[q] /\ sent'[q] = sent[q]
        /\ source'[q] = source[q] /\ limited'[q] = limited[q]
    BY <1>0, <1>2 DEF Provide, ReadEvent, AbandonRead, Forward, ReleaseSlot, CloseLimited
  <2> QED BY <2>1 DEF Carries
<1>3. CASE q = p /\ ReadEvent(p)
  <2>1. limited' = limited /\ reader[p] = "reading" /\ p[1] \in Streams
        /\ p[2] \in Attempts(p[1]) /\ MaxEvents[p[1]] \in Nat
    BY <1>3, PipeFacts DEF ReadEvent
  <2>2. CASE /\ sent[p] < MaxEvents[p[1]]
             /\ sent' = [sent EXCEPT ![p] = @ + 1]
             /\ source' = [source EXCEPT ![p] = Append(@, Data(p[2], sent[p] + 1))]
             /\ UNCHANGED reader
    <3> DEFINE e == Data(q[2], sent[q] + 1)
    <3>1. e \in Written
      <4>1. sent[p] + 1 \in 1 .. MaxEvents[p[1]]
        BY <1>0, <2>1, <2>2
      <4> QED BY <1>3, <2>1, <4>1, DataWritten
    <3>2. sent'[q] = sent[q] + 1 /\ source'[q] = Append(source[q], e) /\ reader'[q] = "reading"
      BY <1>0, <1>3, <2>1, <2>2
    <3>3. limited'[q] \o source'[q] = Append(limited[q] \o source[q], e)
      <4> HIDE DEF e
      <4>1. limited[q] \in Seq(Written) /\ source[q] \in Seq(Written)
        BY <1>0
      <4> DEFINE l == limited[q]
                 k == source[q]
      <4> HIDE DEF l, k
      <4>2. l \o Append(k, e) = Append(l \o k, e)
        <5>1. l \in Seq(Written) /\ k \in Seq(Written)
          BY <4>1 DEF l, k
        <5> QED BY <3>1, <5>1, AppendLater
      <4> QED BY <2>1, <3>2, <4>2 DEF l, k
    <3>4. ASSUME NEW m \in Nat, Carries(q, m)
          PROVE  Carries(q, m)'
      <4>1. Remains(limited[q] \o source[q], q[2], m, sent[q], "reading")
        BY <1>3, <2>1, <3>4 DEF Carries
      <4>2. sent[q] \in Nat
        BY <1>0
      <4>3. Remains(Append(limited[q] \o source[q], e), q[2], m, sent[q] + 1, "reading")
        BY <1>0, <1>1, <3>1, <4>1, <4>2, LineRead
      <4> HIDE DEF e
      <4> QED BY <3>2, <3>3, <4>3 DEF Carries
    <3> QED BY <1>3, <2>1, <3>4
  <2>3. CASE \E e \in {Done, Error} :
               /\ source' = [source EXCEPT ![p] = Append(@, e)]
               /\ reader' = [reader EXCEPT ![p] = e.kind]
               /\ UNCHANGED sent
    <3>1. PICK e \in {Done, Error} :
               /\ source' = [source EXCEPT ![p] = Append(@, e)]
               /\ reader' = [reader EXCEPT ![p] = e.kind]
               /\ UNCHANGED sent
      BY <2>3
    <3>2. e \in Written
      BY EventFacts
    <3>3. sent'[q] = sent[q] /\ source'[q] = Append(source[q], e) /\ reader'[q] = e.kind
      BY <1>0, <1>3, <3>1
    <3>4. limited'[q] \o source'[q] = Append(limited[q] \o source[q], e)
      <4> DEFINE l == limited[q]
                 k == source[q]
      <4>1. l \in Seq(Written) /\ k \in Seq(Written)
        BY <1>0
      <4>2. limited'[q] = l /\ source'[q] = Append(k, e)
        BY <2>1, <3>3
      <4> HIDE DEF l, k
      <4>3. l \o Append(k, e) = Append(l \o k, e)
        BY <3>2, <4>1, AppendLater
      <4>4. limited'[q] \o source'[q] = Append(l \o k, e)
        BY <4>2, <4>3
      <4> QED BY <4>4 DEF l, k
    <3>5. ASSUME NEW m \in Nat, Carries(q, m)
          PROVE  Carries(q, m)'
      <4>1. Remains(limited[q] \o source[q], q[2], m, sent[q], "reading") /\ sent[q] \in Nat
        BY <1>0, <1>3, <2>1, <3>5 DEF Carries
      <4>2. Remains(Append(limited[q] \o source[q], e), q[2], m, sent[q], e.kind)
        BY <1>0, <1>1, <3>2, <4>1, LineRead
      <4> QED BY <3>3, <3>4, <4>2 DEF Carries
    <3> QED BY <1>3, <2>1, <3>5
  <2> QED BY <1>3, <2>2, <2>3 DEF ReadEvent
<1>4. CASE q = p /\ AbandonRead(p)
  <2>1. /\ reader[q] = "reading" /\ reader'[q] = "left" /\ UNCHANGED <<sent, source, limited>>
    BY <1>0, <1>4 DEF AbandonRead
  <2>2. ASSUME NEW m \in Nat, Carries(q, m)
        PROVE  Carries(q, m)'
    <3>1. Remains(limited[q] \o source[q], q[2], m, sent[q], "reading") /\ sent[q] \in Nat
      BY <1>0, <2>1, <2>2 DEF Carries
    <3>2. Remains(limited[q] \o source[q], q[2], m, sent[q], "left")
      BY <1>0, <1>1, <3>1, LineRead, EventFacts
    <3> QED BY <2>1, <3>2 DEF Carries
  <2> QED BY <2>1, <2>2
<1>5. CASE q = p /\ Forward(p)
  <2>1. /\ source[q] # <<>> /\ limited'[q] = Append(limited[q], Head(source[q]))
        /\ source'[q] = Tail(source[q]) /\ UNCHANGED <<reader, sent>>
    BY <1>0, <1>5 DEF Forward
  <2>2. limited[q] \in Seq(Written) /\ source[q] \in Seq(Written)
    BY <1>0
  <2>3. Append(limited[q], Head(source[q])) \o Tail(source[q]) = limited[q] \o source[q]
    <3>1. source[q] # <<>>
      BY <2>1
    <3> QED
      BY <2>2, <3>1, MoveHead
  <2> QED BY <2>1, <2>3 DEF Carries
<1> QED BY <1>2, <1>3, <1>4, <1>5 DEF Provide

\* All other goroutines leave the pipe a stream is at, and what its turn has to do.
LEMMA OthersKeepOrder ==
  ASSUME PipeInv, FlowInv, [StreamNext]_streamVars, NEW s \in Streams, OrderOK(s), ~Turn(s)
  PROVE  OrderOK(s)'
PROOF
<1>1. Pipe(s) \in Pipes /\ \A r \in Streams : r # s => Pipe(r) # Pipe(s)
  BY PipeOfStream DEF PipeInv
<1>2. /\ turn'[s] = turn[s] /\ hand'[s] = hand[s] /\ attempt'[s] = attempt[s]
      /\ Flow(s)' = Flow(s)
  <2>1. relay[s] = "closed" \/ s \in Transferred
    BY DEF FlowInv, RelayOK
  <2>2. Untouched(s) \/ ((Relay(s) \/ ReadOut(s)) /\ UNCHANGED turnVars)
    BY StepsOfStreams DEF Relay, RelayTake, Adopt, RelayClose, ReadOut, Wait, Consume,
                          ConsumeClosed, ConsumeCancelled
  <2> QED BY <2>1, <2>2, FlowGrows DEF Untouched, turnVars
<1>3. Pipe(s)' = Pipe(s)
  BY <1>2 DEF Pipe
<1>4. /\ \A m \in Nat : Carries(Pipe(s), m) => Carries(Pipe(s), m)'
      /\ reader[Pipe(s)] = "done" => (reader[Pipe(s)])' = "done" /\ (sent[Pipe(s)])' = sent[Pipe(s)]
  <2> DEFINE q == Pipe(s)
  <2>0. q' = q /\ q \in Pipes
    BY <1>1, <1>3
  <2>1. CASE \E p \in Pipes : Provide(p)
    <3>1. PICK p \in Pipes : Provide(p)
      BY <2>1
    <3> HIDE DEF q
    <3>2. /\ \A m \in Nat : Carries(q, m) => Carries(q, m)'
          /\ reader[q] = "done" => reader'[q] = "done" /\ sent'[q] = sent[q]
      BY <2>0, <3>1, ProviderKeepsLines
    <3> QED BY <2>0, <3>2 DEF q
  <2>2. CASE UNCHANGED providerVars
    BY <1>3, <2>2 DEF Carries, providerVars
  <2>3. CASE \E r \in Streams : Turn(r)
    <3>1. PICK r \in Streams : Turn(r)
      BY <2>3
    <3>2. r # s /\ Pipe(r) # q /\ Pipe(r) \in Pipes
      BY <1>1, <3>1, PipeOfStream DEF PipeInv
    <3>3. StreamTypes
      BY DEF PipeInv
    <3>4. /\ reader'[q] = reader[q] /\ sent'[q] = sent[q]
          /\ source'[q] = source[q] /\ limited'[q] = limited[q]
      <4> HIDE DEF q
      <4> USE DEF StreamTypes, providerVars, Goto
      <4>1. CASE Acquire(r) \/ AcquireCancelled(r) \/ OpenFails(r)
        BY <3>2, <3>3, <4>1 DEF Acquire, AcquireCancelled, OpenFails
      <4>2. CASE Open(r)
        BY <2>0, <3>2, <3>3, <4>2 DEF Open
      <4>3. CASE Receive(r)
        BY <2>0, <3>2, <3>3, <4>3 DEF Receive
      <4>4. CASE ReceiveClosed(r) \/ ReceiveCancelled(r) \/ Retry(r) \/ Publish(r) \/ Emit(r)
                 \/ EmitFails(r)
        BY <4>4 DEF ReceiveClosed, ReceiveCancelled, Retry, Publish, Emit, EmitFails
      <4> QED BY <3>1, <4>1, <4>2, <4>3, <4>4 DEF Turn
    <3>5. reader'[q'] = reader[q] /\ sent'[q'] = sent[q] /\ source'[q'] = source[q]
          /\ limited'[q'] = limited[q] /\ q' = q
      BY <2>0, <3>4
    <3> QED BY <3>5 DEF Carries
  <2>4. \/ \E p \in Pipes : Provide(p)
        \/ UNCHANGED providerVars
        \/ \E r \in Streams : Turn(r)
    BY DEF StreamNext, Running, Relay, RelayTake, Adopt, RelayClose, ReadOut, Wait, Consume,
           ConsumeClosed, ConsumeCancelled, Complete, Cancel, MutateParent, streamVars
  <2> QED BY <2>1, <2>2, <2>3, <2>4
<1> QED BY <1>2, <1>3, <1>4 DEF OrderOK


LEMMA HeadOfConcat ==
  ASSUME NEW S, NEW l \in Seq(S), NEW k \in Seq(S), l # <<>>
  PROVE  /\ l \o k \in Seq(S) /\ l \o k # <<>>
         /\ Head(l \o k) = Head(l) /\ Tail(l \o k) = Tail(l) \o k
PROOF
<1>1. /\ Tail(l) \in Seq(S) /\ Len(Tail(l)) = Len(l) - 1 /\ Len(l) \in Nat \ {0}
      /\ \A i \in 1 .. Len(Tail(l)) : Tail(l)[i] = l[i + 1]
      /\ Head(l) = l[1] /\ Len(k) \in Nat
  BY HeadTailProperties
<1> DEFINE f == l \o k
           u == Tail(f)
           v == Tail(l) \o k
<1>2. /\ f \in Seq(S) /\ Len(f) = Len(l) + Len(k)
      /\ \A i \in 1 .. Len(l) + Len(k) : f[i] = IF i <= Len(l) THEN l[i] ELSE k[i - Len(l)]
  BY ConcatProperties
<1>3. f # <<>> /\ Head(f) = f[1] /\ f[1] = l[1]
  <2>1. 1 \in 1 .. Len(l) + Len(k) /\ 1 <= Len(l) /\ Len(f) # 0
    BY <1>1, <1>2
  <2> HIDE DEF f
  <2> QED BY <1>2, <2>1
<1>4. /\ u \in Seq(S) /\ Len(u) = Len(f) - 1 /\ \A i \in 1 .. Len(u) : u[i] = f[i + 1]
  <2> HIDE DEF f
  <2> QED BY <1>2, <1>3, HeadTailProperties
<1>5. /\ v \in Seq(S) /\ Len(v) = (Len(l) - 1) + Len(k)
      /\ \A i \in 1 .. (Len(l) - 1) + Len(k) :
           v[i] = IF i <= Len(l) - 1 THEN Tail(l)[i] ELSE k[i - (Len(l) - 1)]
  BY <1>1, ConcatProperties
<1>6. ASSUME NEW i \in 1 .. (Len(l) - 1) + Len(k)
      PROVE  u[i] = v[i]
  <2> HIDE DEF f, u, v
  <2>1. u[i] = f[i + 1] /\ i + 1 \in 1 .. Len(l) + Len(k)
    BY <1>1, <1>2, <1>4
  <2>2. CASE i <= Len(l) - 1
    BY <1>1, <1>2, <1>5, <2>1, <2>2
  <2>3. CASE ~(i <= Len(l) - 1)
    <3>1. ~(i + 1 <= Len(l)) /\ (i + 1) - Len(l) = i - (Len(l) - 1)
      BY <1>1, <2>3
    <3> QED BY <1>1, <1>2, <1>5, <2>1, <2>3, <3>1
  <2> QED BY <2>2, <2>3
<1>7. u = v
  <2>1. Len(u) = Len(v)
    BY <1>1, <1>2, <1>4, <1>5
  <2> HIDE DEF f, u, v
  <2> QED BY <1>4, <1>5, <1>6, <2>1, SeqEqual
<1> QED BY <1>1, <1>2, <1>3, <1>7

LEMMA TurnKeepsOrder ==
  ASSUME PipeInv, PipeInv', FlowInv, NEW s \in Streams, OrderOK(s), Turn(s)
  PROVE  OrderOK(s)'
PROOF
<1>0. /\ FlowOK(s) /\ TurnOK(s) /\ (relay[s] = "closed" \/ s \in Transferred)
      /\ turn \in [Streams -> {"acquire", "open", "recv", "emit", "backoff", "publish",
                               "final", "done", "fail", "closed"}]
      /\ hand \in [Streams -> Events] /\ attempt \in [Streams -> Nat]
      /\ reader \in [Pipes -> {"none", "reading", "done", "error", "left"}]
      /\ sent \in [Pipes -> Nat]
      /\ source \in [Pipes -> Seq(Written)] /\ limited \in [Pipes -> Seq(Written)]
  BY DEF PipeInv, StreamTypes, FlowInv, RelayOK
<1>1. /\ Pipe(s) \in Pipes /\ Pipe(s)[2] = attempt[s] /\ attempt[s] \in Nat
      /\ PipeOK(Pipe(s))
  BY PipeOfStream DEF PipeInv
<1>2. /\ turn[s] # "closed" /\ Flow(s) \in Seq(Written) /\ Done \notin Elements(Flow(s))
  <2>1. turn[s] # "closed"
    BY <1>0, TurnSteps DEF FlowOK
  <2> QED BY <1>0, <2>1, FlowTypes, EventFacts DEF FlowOK, Ended
<1>3. ~Emit(s) => Flow(s)' = Flow(s)
  BY <1>0, FlowGrows
<1>4. ASSUME ~Emit(s), attempt'[s] = attempt[s], turn'[s] \in {"backoff", "fail", "closed"}
      PROVE  OrderOK(s)'
  BY <1>2, <1>3, <1>4 DEF OrderOK
<1>5. StepFails(s) => turn'[s] \in {"backoff", "fail"}
  BY <1>0 DEF StepFails, Goto
<1>6. ~Emit(s) \/ turn[s] \in {"emit", "final", "done", "fail"}
  BY WritesEvents DEF Emit
<1>7. CASE Acquire(s)
  <2>1. turn'[s] = "open" /\ turn[s] = "acquire" /\ attempt'[s] = attempt[s] /\ ~Emit(s)
    BY <1>0, <1>6, <1>7 DEF Acquire, Goto
  <2> QED BY <1>2, <1>3, <2>1 DEF OrderOK
<1>8. CASE AcquireCancelled(s) \/ ReceiveClosed(s) \/ ReceiveCancelled(s)
  BY <1>4, <1>5, <1>6, <1>8 DEF AcquireCancelled, ReceiveClosed, ReceiveCancelled
<1>9. CASE Open(s)
  <2>1. /\ turn'[s] = "recv" /\ turn[s] = "open" /\ attempt' = attempt /\ ~Emit(s)
        /\ reader'[Pipe(s)] = "reading" /\ UNCHANGED <<sent, source, limited>>
        /\ slot[Pipe(s)] = "opening"
    BY <1>0, <1>1, <1>6, <1>9 DEF Open, Goto, TurnOK
  <2>2. source[Pipe(s)] = <<>> /\ limited[Pipe(s)] = <<>> /\ sent[Pipe(s)] = 0
    BY <1>1, <2>1 DEF PipeOK
  <2>3. Pipe(s)' = Pipe(s) /\ <<>> \o <<>> = <<>>
    BY <2>1 DEF Pipe
  <2>4. Carries(Pipe(s), 0)'
    BY <2>1, <2>2, <2>3, NothingRead DEF Carries
  <2>5. Told(Flow(s), attempt[s], 0)
    BY <2>1 DEF OrderOK
  <2>6. \E m \in Nat : Carries(Pipe(s), m)' /\ Told(Flow(s), attempt[s], m)
    BY <2>4, <2>5
  <2> QED BY <1>2, <1>3, <2>1, <2>6 DEF OrderOK
<1>10. CASE OpenFails(s)
  <2>1. turn[s] = "open" /\ attempt' = attempt /\ ~Emit(s)
        /\ turn'[s] \in {"acquire", "backoff", "fail"}
    BY <1>0, <1>5, <1>6, <1>10 DEF OpenFails, Goto
  <2>2. CASE turn'[s] = "acquire"
    BY <1>2, <1>3, <2>1, <2>2 DEF OrderOK
  <2> QED BY <1>4, <2>1, <2>2
<1>11. CASE Receive(s)
  <2> DEFINE p == Pipe(s)
             lines == limited[p] \o source[p]
  <2>1. /\ turn[s] = "recv" /\ limited[p] # <<>> /\ attempt' = attempt /\ ~Emit(s)
        /\ limited'[p] = Tail(limited[p]) /\ UNCHANGED <<reader, sent, source>>
    BY <1>0, <1>1, <1>6, <1>11 DEF Receive
  <2>2. PICK m \in Nat : Carries(p, m) /\ Told(Flow(s), attempt[s], m)
    BY <2>1 DEF OrderOK
  <2>3. /\ lines \in Seq(Written) /\ lines # <<>> /\ Head(lines) = Head(limited[p])
        /\ Tail(lines) = Tail(limited[p]) \o source[p]
    <3>1. limited[p] \in Seq(Written) /\ source[p] \in Seq(Written) /\ limited[p] # <<>>
      BY <1>0, <1>1, <2>1
    <3> QED BY <3>1, HeadOfConcat
  <2>4. \/ Head(lines) = Data(attempt[s], m + 1) /\ Remains(Tail(lines), p[2], m + 1, sent[p], reader[p])
        \/ m = sent[p] /\ reader[p] = "done" /\ Head(lines) = Done
        \/ m = sent[p] /\ reader[p] = "error" /\ Head(lines) = Error
    <3>1. Remains(lines, p[2], m, sent[p], reader[p]) /\ p[2] \in Nat /\ sent[p] \in Nat
      BY <1>0, <1>1, <2>2 DEF Carries
    <3> HIDE DEF lines, p
    <3> QED BY <1>1, <2>3, <3>1, LineTaken DEF p
  <2>5. Pipe(s)' = Pipe(s)
    BY <2>1 DEF Pipe
  <2>6. CASE Head(lines) = Data(attempt[s], m + 1) /\ Remains(Tail(lines), p[2], m + 1, sent[p], reader[p])
    <3>1. Head(limited[p]).kind = "data"
      <4>1. Head(limited[p]) = Data(attempt[s], m + 1)
        BY <2>3, <2>6
      <4>2. Data(attempt[s], m + 1).kind = "data"
        BY DataFacts
      <4> QED BY <4>1, <4>2
    <3>2. turn'[s] = "emit" /\ hand'[s] = Data(attempt[s], m + 1)
      BY <1>0, <1>11, <2>3, <2>6, <3>1 DEF Receive, Goto
    <3>3. Carries(Pipe(s), m + 1)'
      BY <2>1, <2>3, <2>5, <2>6 DEF Carries
    <3>4. \E k \in Nat :
            /\ Carries(Pipe(s), k + 1)' /\ Told(Flow(s), attempt[s], k)
            /\ hand'[s] = Data(attempt[s], k + 1)
      BY <2>2, <3>2, <3>3
    <3> QED BY <1>2, <1>3, <2>1, <3>2, <3>4 DEF OrderOK
  <2>7. CASE m = sent[p] /\ reader[p] = "done" /\ Head(lines) = Done
    <3>1. turn'[s] = "publish"
      BY <1>0, <1>11, <2>3, <2>7, EventFacts DEF Receive, Goto
    <3>2. reader'[Pipe(s)'] = "done" /\ sent'[Pipe(s)'] = m
      BY <2>1, <2>5, <2>7
    <3> QED BY <1>2, <1>3, <2>1, <2>2, <3>1, <3>2 DEF OrderOK
  <2>8. CASE m = sent[p] /\ reader[p] = "error" /\ Head(lines) = Error
    <3>1. StepFails(s)
      BY <1>11, <2>3, <2>8, EventFacts DEF Receive
    <3> QED BY <1>4, <1>5, <2>1, <3>1
  <2> QED BY <2>4, <2>6, <2>7, <2>8
<1>12. CASE Retry(s)
  <2>1. turn[s] = "backoff" /\ ~Emit(s)
    BY <1>6, <1>12 DEF Retry
  <2>2. CASE attempt' = [attempt EXCEPT ![s] = @ + 1] /\ Goto(s, "acquire")
    <3>1. attempt'[s] = attempt[s] + 1 /\ turn'[s] = "acquire"
      BY <1>0, <2>2 DEF Goto
    <3>2. AttemptsUpTo(Flow(s), attempt[s])
      BY DEF OrderOK
    <3>3. \A e \in Elements(Flow(s)) : e \in Written
      BY <1>2, ElementOfSeq DEF Elements
    <3>4. \A e \in Elements(Flow(s)) :
            e.kind = "data" => e.attempt <= attempt[s] + 1 /\ e.attempt # attempt[s] + 1
      BY <1>1, <3>2, <3>3, EventFacts DEF AttemptsUpTo
    <3>5. AttemptsUpTo(Flow(s), attempt[s] + 1)
      BY <3>4 DEF AttemptsUpTo
    <3>6. Told(Flow(s), attempt[s] + 1, 0)
      <4>1. {e \in Elements(Flow(s)) : e.kind = "data" /\ e.attempt = attempt[s] + 1} = {}
        BY <3>4
      <4>2. {Data(attempt[s] + 1, n) : n \in 1 .. 0} = {}
        OBVIOUS
      <4> QED BY <4>1, <4>2, ToldElements
    <3> QED BY <1>2, <1>3, <2>1, <3>1, <3>5, <3>6 DEF OrderOK
  <2>3. CASE Goto(s, "fail") /\ UNCHANGED <<attempt, setups>>
    BY <1>0, <1>4, <2>1, <2>3 DEF Goto
  <2> QED BY <1>12, <2>2, <2>3 DEF Retry
<1>13. CASE Publish(s)
  <2>1. /\ turn[s] = "publish" /\ ~Emit(s) /\ turn'[s] \in {"final", "fail"}
        /\ UNCHANGED <<attempt, reader, sent>>
    BY <1>0, <1>6, <1>13 DEF Publish, Goto, providerVars
  <2>2. Pipe(s)' = Pipe(s)
    BY <2>1 DEF Pipe
  <2> QED BY <1>2, <1>3, <2>1, <2>2 DEF OrderOK
<1>14. CASE Emit(s)
  <2> DEFINE e == ToWrite(s)
  <2>1. /\ Flow(s)' = Append(Flow(s), e) /\ e \in Written
        /\ turn[s] \in {"emit", "final", "done", "fail"}
        /\ UNCHANGED <<attempt, providerVars>> /\ Pipe(s)' = Pipe(s)
    BY <1>0, <1>14, FlowGrows, WritesEvents DEF Emit, Pipe
  <2>2. InOrder(Flow(s)) /\ AttemptsUpTo(Flow(s), attempt[s])
    BY DEF OrderOK
  <2>3. CASE turn[s] = "emit"
    <3>1. PICK m \in Nat :
            /\ Carries(Pipe(s), m + 1) /\ Told(Flow(s), attempt[s], m)
            /\ hand[s] = Data(attempt[s], m + 1)
      BY <2>3 DEF OrderOK
    <3>2. e = Data(attempt[s], m + 1) /\ turn'[s] = "recv"
      BY <1>0, <1>14, <2>3, <3>1 DEF ToWrite, Emit, Goto
    <3>3. /\ InOrder(Append(Flow(s), e)) /\ AttemptsUpTo(Append(Flow(s), e), attempt[s])
          /\ Told(Append(Flow(s), e), attempt[s], m + 1)
      BY <1>1, <1>2, <2>1, <2>2, <3>1, <3>2, NextAppended
    <3>4. Done \notin Elements(Append(Flow(s), e))
      <4>1. Elements(Append(Flow(s), e)) = Elements(Flow(s)) \cup {e}
        BY <1>2, <2>1, ElementsOfAppend
      <4> QED BY <1>2, <3>2, <4>1, DataFacts
    <3>5. Carries(Pipe(s), m + 1)'
      BY <2>1, <3>1 DEF Carries, providerVars
    <3>6. \E k \in Nat : Carries(Pipe(s), k)' /\ Told(Append(Flow(s), e), attempt[s], k)
      BY <3>3, <3>5
    <3> HIDE DEF e
    <3> QED BY <2>1, <3>2, <3>3, <3>4, <3>6 DEF OrderOK
  <2>4. CASE turn[s] # "emit"
    <3>1. /\ e = IF turn[s] = "final" THEN Final ELSE IF turn[s] = "done" THEN Done ELSE Error
          /\ turn'[s] = IF turn[s] = "final" THEN "done" ELSE "closed"
      BY <1>0, <1>14, <2>1, <2>4 DEF ToWrite, Emit, Goto
    <3>2. e.kind # "data"
      BY <3>1, EventFacts
    <3>3. /\ InOrder(Append(Flow(s), e)) /\ AttemptsUpTo(Append(Flow(s), e), attempt[s])
          /\ \A m : Told(Flow(s), attempt[s], m) => Told(Append(Flow(s), e), attempt[s], m)
      BY <1>2, <2>1, <2>2, <3>2, OtherAppended
    <3>4. Done \in Elements(Append(Flow(s), e)) => turn[s] = "done"
      <4>1. Elements(Append(Flow(s), e)) = Elements(Flow(s)) \cup {e}
        BY <1>2, <2>1, ElementsOfAppend
      <4> QED BY <1>2, <2>1, <2>4, <3>1, <4>1, EventFacts
    <3>5. turn[s] \in {"final", "done"} =>
            reader[Pipe(s)] = "done" /\ Told(Flow(s), attempt[s], sent[Pipe(s)])
      BY DEF OrderOK
    <3>6. reader' = reader /\ sent' = sent /\ attempt' = attempt
      BY <2>1 DEF providerVars
    <3> HIDE DEF e
    <3> QED BY <2>1, <2>4, <3>1, <3>3, <3>4, <3>5, <3>6 DEF OrderOK
  <2> QED BY <2>3, <2>4
<1>15. CASE EmitFails(s)
  <2>1. turn[s] \in {"emit", "final", "done", "fail"} /\ ~Emit(s) /\ attempt' = attempt
    BY <1>15, WritesEvents DEF EmitFails, Emit
  <2>2. turn'[s] \in {"backoff", "fail", "closed"}
    BY <1>0, <1>5, <1>15, <2>1 DEF EmitFails, Goto
  <2> QED BY <1>4, <2>1, <2>2
<1> QED BY <1>7, <1>8, <1>9, <1>10, <1>11, <1>12, <1>13, <1>14, <1>15 DEF Turn


LEMMA OrderInit ==
  ASSUME NEW called \in SUBSET (Streams \cup Completers), StreamInit(called)
  PROVE  OrderInv
PROOF
<1> SUFFICES ASSUME NEW s \in Streams
             PROVE  OrderOK(s)
  BY DEF OrderInv
<1>1. Flow(s) = <<>> /\ Elements(<<>>) = {}
  BY DEF StreamInit, Flow, Held, Elements
<1>2. InOrder(<<>>) /\ AttemptsUpTo(<<>>, attempt[s])
  BY <1>1 DEF InOrder, AttemptsUpTo
<1>3. Told(<<>>, attempt[s], 0)
  <2>1. {Data(attempt[s], n) : n \in 1 .. 0} = {}
    OBVIOUS
  <2> QED BY <1>1, <2>1, ToldElements
<1>4. turn[s] \in {"acquire", "closed"}
  BY DEF StreamInit
<1> QED BY <1>1, <1>2, <1>3, <1>4 DEF OrderOK

LEMMA OrdersHold == StreamSpec => []OrderInv
PROOF
<1>1. (\E called \in SUBSET (Streams \cup Completers) : StreamInit(called)) => OrderInv
  BY OrderInit
<1>2. PipeInv /\ PipeInv' /\ FlowInv /\ OrderInv /\ [StreamNext]_streamVars => OrderInv'
  BY OthersKeepOrder, TurnKeepsOrder DEF OrderInv
<1> QED BY <1>1, <1>2, PipesHold, FlowsHold, PTL DEF StreamSpec

\* What a consumer has handled are the events of the provider, attempt after attempt, in
\* their order and without a gap, and a terminal event last; Done means that the provider
\* has said so and that nothing of the attempt that succeeded is missing, for any number
\* of attempts, events and goroutines a failed attempt has left behind
\* (executeStreamingStep, Stream, Runner.Run).
THEOREM StreamsStayInOrder == StreamSpec => []StreamInOrder
PROOF
<1>1. ASSUME PipeInv, FlowInv, OrderInv, NEW s \in Streams
      PROVE  /\ InOrder(got[s])
             /\ \A i \in 1 .. Len(got[s]) - 1 : ~Terminal(got[s][i])
             /\ Done \in Elements(got[s]) =>
                  reader[Pipe(s)] = "done" /\ Told(got[s], attempt[s], sent[Pipe(s)])
             /\ consumer[s] = "ended" /\ (\A e \in Elements(got[s]) : ~Terminal(e)) => s \in gaveUp
  <2> DEFINE l == got[s]
             k == Held(relayed[s]) \o out[s]
  <2>1. FlowOK(s) /\ OrderOK(s)
    BY <1>1 DEF FlowInv, OrderInv
  <2>2. /\ l \in Seq(Written) /\ k \in Seq(Written) /\ Flow(s) = l \o k
    <3>1. got[s] \in Seq(Written) /\ out[s] \in Seq(Written) /\ Held(relayed[s]) \in Seq(Written)
      BY <1>1, FlowTypes
    <3>2. (got[s] \o Held(relayed[s])) \o out[s] = got[s] \o (Held(relayed[s]) \o out[s])
      <4> DEFINE u == got[s]
                 v == Held(relayed[s])
                 w == out[s]
      <4>1. u \in Seq(Written) /\ v \in Seq(Written) /\ w \in Seq(Written)
        BY <3>1
      <4> HIDE DEF u, v, w
      <4>2. (u \o v) \o w = u \o (v \o w)
        BY <4>1, ConcatAssociative
      <4> QED BY <4>2 DEF u, v, w
    <3> QED BY <3>1, <3>2, ConcatProperties DEF Flow
  <2> HIDE DEF l, k
  <2>3. /\ Len(l) \in Nat /\ Len(k) \in Nat /\ Len(l \o k) = Len(l) + Len(k)
        /\ DOMAIN l = 1 .. Len(l)
        /\ \A i \in 1 .. Len(l) : (l \o k)[i] = l[i]
    BY <2>2, ConcatProperties, LenProperties
  <2>4. InOrder(l)
    BY <2>1, <2>2, PrefixInOrder DEF OrderOK
  <2>5. \A i \in 1 .. Len(l) : Terminal(l[i]) => i = Len(l) /\ Len(k) = 0
    <3>1. \A i \in 1 .. Len(l \o k) - 1 : ~Terminal((l \o k)[i])
      BY <2>1, <2>2 DEF FlowOK, EndsOnce
    <3> SUFFICES ASSUME NEW i \in 1 .. Len(l), Terminal(l[i])
                 PROVE  i = Len(l) /\ Len(k) = 0
      OBVIOUS
    <3>2. i \notin 1 .. (Len(l) + Len(k)) - 1
      BY <2>3, <3>1
    <3>3. i \in 1 .. Len(l) /\ Len(l) \in Nat /\ Len(k) \in Nat
      BY <2>3
    <3>4. ~(i <= (Len(l) + Len(k)) - 1)
      BY <3>2, <3>3
    <3> QED BY <3>3, <3>4
  <2>6. ASSUME NEW i \in 1 .. Len(l) - 1
        PROVE  ~Terminal(l[i])
    <3>0. Len(l) \in Nat
      BY <2>3
    <3>1. i \in 1 .. Len(l) /\ i # Len(l)
      BY <3>0
    <3> QED BY <2>5, <3>1
  <2>7. ASSUME Done \in Elements(l)
        PROVE  reader[Pipe(s)] = "done" /\ Told(l, attempt[s], sent[Pipe(s)])
    <3>1. Len(k) = 0
      BY <2>3, <2>5, <2>7, EventFacts DEF Elements
    <3>2. k = <<>>
      BY <2>2, <3>1
    <3>3. Flow(s) = l
      BY <2>2, <3>2, ConcatEmptySeq
    <3> QED BY <2>1, <2>7, <3>3 DEF OrderOK
  <2>8. consumer[s] = "ended" /\ (\A e \in Elements(l) : ~Terminal(e)) => s \in gaveUp
    BY <2>1 DEF FlowOK, Ended, l
  <2> QED BY <2>4, <2>6, <2>7, <2>8 DEF l
<1>2. PipeInv /\ FlowInv /\ OrderInv => StreamInOrder
  BY <1>1 DEF StreamInOrder, Elements
<1> QED BY <1>2, PipesHold, FlowsHold, OrdersHold, PTL

-------------------------------------------------------------------------------
(* Events and tool calls *)

(* The fold of HandleEvents is defined: a recursion over the naturals.     *)
LEMMA HandleEventsLoop ==
  ASSUME NEW a, NEW S, NEW events \in Seq(S)
  PROVE  \E after :
           /\ DOMAIN after = 0 .. Len(events) /\ after[0] = a
           /\ \A n \in 1 .. Len(events) : after[n] = HandleEvent(after[n - 1], events[n])
           /\ HandleEvents(a, events) = after[Len(events)]
<1> DEFINE Loop(f, N) == f = [n \in 0 .. N |-> IF n = 0 THEN a ELSE HandleEvent(f[n - 1], events[n])]
           Reached == {N \in Nat : \E f : Loop(f, N)}
<1>1. 0 \in Reached
  <2>1. Loop([n \in 0 .. 0 |-> a], 0)
    OBVIOUS
  <2> QED
    BY <2>1
<1>2. ASSUME NEW N \in Reached PROVE N + 1 \in Reached
  <2>1. PICK f : Loop(f, N)
    OBVIOUS
  <2> DEFINE g == [n \in 0 .. N + 1 |-> IF n = N + 1 THEN HandleEvent(f[N], events[N + 1]) ELSE f[n]]
  <2>2. ASSUME NEW n \in 0 .. N + 1
        PROVE  g[n] = IF n = 0 THEN a ELSE HandleEvent(g[n - 1], events[n])
    <3>1. CASE n = 0
      BY <2>1, <3>1
    <3>2. CASE n \in 1 .. N
      <4>1. n - 1 \in 0 .. N /\ n # N + 1 /\ n - 1 # N + 1 /\ n \in 0 .. N /\ n # 0
        BY <3>2
      <4>2. g[n] = f[n] /\ g[n - 1] = f[n - 1]
        BY <4>1
      <4>3. f[n] = HandleEvent(f[n - 1], events[n])
        BY <2>1, <4>1
      <4> QED
        BY <4>1, <4>2, <4>3
    <3>3. CASE n = N + 1
      <4>1. n - 1 = N /\ N \in 0 .. N + 1 /\ N # N + 1 /\ n # 0
        BY <3>3
      <4>2. g[n - 1] = f[N] /\ g[n] = HandleEvent(f[N], events[N + 1])
        BY <3>3, <4>1
      <4> QED
        BY <3>3, <4>1, <4>2
    <3> QED
      BY <3>1, <3>2, <3>3
  <2>3. Loop(g, N + 1)
    <3>1. g = [n \in 0 .. N + 1 |-> g[n]]
      OBVIOUS
    <3> HIDE DEF g
    <3> QED
      BY <2>2, <3>1
  <2>4. N + 1 \in Nat
    OBVIOUS
  <2> HIDE DEF Loop
  <2> QED
    BY <2>3, <2>4
<1>3. Len(events) \in Reached
  <2> HIDE DEF Reached
  <2>1. Reached \in SUBSET Nat
    BY DEF Reached
  <2>2. \A N \in Nat : N \in Reached
    BY <1>1, <1>2, <2>1, InductiveSet
  <2> QED
    BY <2>2
<1> DEFINE after == CHOOSE f : Loop(f, Len(events))
<1>4. Loop(after, Len(events))
  <2>1. \E f : Loop(f, Len(events))
    BY <1>3
  <2> HIDE DEF Loop
  <2> QED
    BY <2>1
<1>5. HandleEvents(a, events) = after[Len(events)]
  BY DEF HandleEvents
<1>6. Len(events) \in Nat
  OBVIOUS
<1> HIDE DEF after
<1>7. /\ DOMAIN after = 0 .. Len(events) /\ after[0] = a
      /\ \A n \in 1 .. Len(events) : after[n] = HandleEvent(after[n - 1], events[n])
  BY <1>4, <1>6
<1> QED
  BY <1>5, <1>7

-------------------------------------------------------------------------------
(* The assembler.  Calls are kept in the order of their first fragments,   *)
(* each index once.                                                        *)
Piece == Int \X Int
Accumulator == [id : Names \cup {NoId}, name : Seq(Names), input : Seq(Piece)]
Unused == [id |-> NoId, name |-> <<>>, input |-> <<>>]
Assembler(a) ==
  /\ a = [order |-> a.order, acc |-> a.acc]
  /\ a.order \in Seq(Nat)
  /\ \A k, l \in DOMAIN a.order : a.order[k] = a.order[l] => k = l
  /\ a.acc \in [Range(a.order) -> Accumulator]
Fragments ==
  [kind : {"tool"}, index : Nat, id : Names \cup {NoId}, name : Seq(Names), input : Seq(Piece)]

Indices(a) == Range(a.order)
AccumulatorOf(a, j) == IF j \in Indices(a) THEN a.acc[j] ELSE Unused
Extended(old, f) ==
  [id |-> IF f.id = NoId THEN old.id ELSE f.id, name |-> old.name \o f.name,
   input |-> old.input \o f.input]

LEMMA ExtendedInput ==
  ASSUME NEW old, NEW f
  PROVE  Extended(old, f).input = old.input \o f.input
<1> DEFINE id == IF f.id = NoId THEN old.id ELSE f.id
           name == old.name \o f.name
           input == old.input \o f.input
<1>1. Extended(old, f) = [id |-> id, name |-> name, input |-> input]
  BY DEF Extended
<1> HIDE DEF id, name, input
<1>2. Extended(old, f).input = input
  BY <1>1
<1> QED
  BY <1>2 DEF input

LEMMA RangeOfAppend ==
  ASSUME NEW S, NEW s \in Seq(S), NEW e \in S
  PROVE  Range(Append(s, e)) = Range(s) \cup {e}
<1>1. \A i \in 1 .. Len(s) : Append(s, e)[i] = s[i]
  BY AppendProperties
<1>2. DOMAIN s = 1 .. Len(s) /\ DOMAIN Append(s, e) = 1 .. Len(s) + 1 /\ Len(s) \in Nat
      /\ Append(s, e)[Len(s) + 1] = e
  BY AppendProperties, LenProperties
<1> QED
  BY <1>1, <1>2 DEF Range

LEMMA AddFragmentFacts ==
  ASSUME NEW a, Assembler(a), NEW f \in Fragments
  PROVE  LET b == HandleEvent(a, f)
         IN  /\ Assembler(b)
             /\ Indices(b) = Indices(a) \cup {f.index}
             /\ b.order = IF f.index \in Indices(a) THEN a.order ELSE Append(a.order, f.index)
             /\ b.acc[f.index] = Extended(AccumulatorOf(a, f.index), f)
             /\ \A j \in Indices(a) : j # f.index => b.acc[j] = a.acc[j]
<1> DEFINE b == HandleEvent(a, f)
           old == IF f.index \in Range(a.order) THEN a.acc[f.index]
                  ELSE [id |-> NoId, name |-> <<>>, input |-> <<>>]
           new == [id |-> IF f.id = NoId THEN old.id ELSE f.id,
                   name |-> old.name \o f.name, input |-> old.input \o f.input]
<1>1. b = [order |-> IF f.index \in Range(a.order) THEN a.order ELSE Append(a.order, f.index),
           acc |-> [i \in Range(a.order) \cup {f.index} |->
                      IF i = f.index THEN new ELSE a.acc[i]]]
  BY DEF HandleEvent, AddFragment, Fragments
<1>2. old \in Accumulator
  BY DEF Assembler, Accumulator
<1>3. new \in Accumulator
  <2>1. old.name \in Seq(Names) /\ old.input \in Seq(Piece) /\ old.id \in Names \cup {NoId}
    BY <1>2 DEF Accumulator
  <2>2. f.name \in Seq(Names) /\ f.input \in Seq(Piece) /\ f.id \in Names \cup {NoId}
    BY DEF Fragments
  <2> HIDE DEF old
  <2>3. old.name \o f.name \in Seq(Names) /\ old.input \o f.input \in Seq(Piece)
    BY <2>1, <2>2, ConcatProperties
  <2> QED
    BY <2>1, <2>2, <2>3 DEF Accumulator
<1>4. new = Extended(AccumulatorOf(a, f.index), f)
  BY DEF Extended, AccumulatorOf, Indices, Unused
<1> HIDE DEF new, old
<1>5. a.order \in Seq(Nat) /\ f.index \in Nat
  BY DEF Assembler, Fragments
<1>6. Range(b.order) = Range(a.order) \cup {f.index}
  <2>1. CASE f.index \in Range(a.order)
    BY <1>1, <2>1
  <2>2. CASE f.index \notin Range(a.order)
    <3>1. Range(Append(a.order, f.index)) = Range(a.order) \cup {f.index}
      BY <1>5, RangeOfAppend
    <3> QED
      BY <1>1, <2>2, <3>1
  <2> QED
    BY <2>1, <2>2
<1>7. /\ b.order \in Seq(Nat)
      /\ \A k, l \in DOMAIN b.order : b.order[k] = b.order[l] => k = l
  <2>1. CASE f.index \in Range(a.order)
    BY <1>1, <2>1 DEF Assembler
  <2>2. CASE f.index \notin Range(a.order)
    <3>1. b.order = Append(a.order, f.index)
      BY <1>1, <2>2
    <3>2. /\ DOMAIN a.order = 1 .. Len(a.order) /\ Len(a.order) \in Nat
          /\ DOMAIN b.order = 1 .. Len(a.order) + 1
          /\ b.order \in Seq(Nat) /\ b.order[Len(a.order) + 1] = f.index
          /\ \A k \in 1 .. Len(a.order) : b.order[k] = a.order[k]
      BY <1>5, <3>1, AppendProperties, LenProperties
    <3>3. \A k \in 1 .. Len(a.order) : a.order[k] # f.index
      BY <2>2, <3>2 DEF Range
    <3>4. \A k, l \in 1 .. Len(a.order) : a.order[k] = a.order[l] => k = l
      BY <3>2 DEF Assembler
    <3>5. \A k \in DOMAIN b.order : k \in 1 .. Len(a.order) \/ k = Len(a.order) + 1
      BY <3>2
    <3> QED
      BY <3>2, <3>3, <3>4, <3>5
  <2> QED
    BY <2>1, <2>2
<1>8. b.acc \in [Range(b.order) -> Accumulator]
  <2>1. \A i \in Range(a.order) : a.acc[i] \in Accumulator
    BY DEF Assembler
  <2> QED
    BY <1>1, <1>3, <1>6, <2>1
<1>9. b = [order |-> b.order, acc |-> b.acc]
  BY <1>1
<1>10. Assembler(b)
  BY <1>7, <1>8, <1>9 DEF Assembler
<1>11. b.acc[f.index] = new /\ \A j \in Range(a.order) : j # f.index => b.acc[j] = a.acc[j]
  BY <1>1
<1> QED
  BY <1>1, <1>4, <1>6, <1>10, <1>11 DEF Indices

(* What the pieces of a response are.                                      *)
LEMMA ResponseFacts ==
  ASSUME response \in Responses
  PROVE  /\ response \in Seq([name : Names, pieces : Nat] \cup {Text})
         /\ DOMAIN response = 1 .. Len(response) /\ Len(response) \in Nat
         /\ CallParts \in SUBSET (1 .. Len(response))
         /\ \A i \in DOMAIN response : response[i].pieces \in Nat
         /\ \A i \in CallParts : response[i].name \in Names /\ response[i].name # NoId
         /\ \A i \in DOMAIN response \ CallParts : response[i].pieces = 0
<1>1. response \in Seq([name : Names, pieces : Nat] \cup {Text})
  BY ResponsesAssumption
<1>2. DOMAIN response = 1 .. Len(response) /\ Len(response) \in Nat
  BY <1>1, LenProperties
<1>3. \A i \in DOMAIN response : response[i] \in [name : Names, pieces : Nat] \cup {Text}
  BY <1>1, <1>2, ElementOfSeq
<1> QED
  BY <1>1, <1>2, <1>3, ResponsesAssumption DEF CallParts, IsCall, Text

LEMMA PiecesFacts ==
  ASSUME response \in Responses, NEW i \in DOMAIN response
  PROVE  /\ Arguments(i) \in Seq(Piece) /\ Len(Arguments(i)) = response[i].pieces
         /\ \A k \in 1 .. response[i].pieces : Arguments(i)[k] = <<i, k>>
         /\ Marshalled(i) \in Seq(Piece) /\ Len(Marshalled(i)) \in Nat \ {0}
<1>1. response[i].pieces \in Nat /\ i \in Int
  BY ResponseFacts
<1>2. \A k \in 1 .. response[i].pieces : <<i, k>> \in Piece
  BY <1>1 DEF Piece
<1>3. /\ Arguments(i) \in Seq(Piece) /\ Len(Arguments(i)) = response[i].pieces
      /\ \A k \in 1 .. response[i].pieces : Arguments(i)[k] = <<i, k>>
  BY <1>1, <1>2 DEF Arguments
<1>4. <<Null>> \in Seq(Piece) /\ Len(<<Null>>) = 1
  BY DEF Null, Piece
<1> QED
  BY <1>1, <1>3, <1>4 DEF Marshalled

-------------------------------------------------------------------------------
(* Providers that cut a call into fragments, each under its own index: the *)
(* assembler has what has been fed of every call that has been opened.    *)
SoFar(i, n) == [id |-> response[i].name, name |-> <<response[i].name>>,
                input |-> SubSeq(Arguments(i), 1, n)]
Assembling(a, fed) ==
  /\ Assembler(a)
  /\ Indices(a) = {i - 1 : i \in {j \in CallParts : fed[j] > 0}}
  /\ \A i \in CallParts : fed[i] > 0 => a.acc[i - 1] = SoFar(i, fed[i] - 1)

(* A fragment that opens call i or goes on with it, and how much is fed.  *)
Opens(f, i, n) ==
  /\ n \in 1 .. response[i].pieces + 1
  /\ f = Fragment(i - 1, response[i].name, <<response[i].name>>, SubSeq(Arguments(i), 1, n - 1))
Continues(f, i, n) ==
  /\ n \in 2 .. response[i].pieces + 1
  /\ f = Fragment(i - 1, NoId, <<>>, <<Arguments(i)[n - 1]>>)

LEMMA FragmentTypes ==
  ASSUME response \in Responses, NEW i \in CallParts, NEW n, NEW f,
         Opens(f, i, n) \/ Continues(f, i, n)
  PROVE  f \in Fragments /\ f.index = i - 1
<1>1. /\ i \in Nat /\ i - 1 \in Nat /\ i \in DOMAIN response
      /\ response[i].name \in Names /\ response[i].pieces \in Nat
  BY ResponseFacts
<1>2. /\ Arguments(i) \in Seq(Piece) /\ Len(Arguments(i)) = response[i].pieces
      /\ \A k \in 1 .. response[i].pieces : Arguments(i)[k] \in Piece
  BY <1>1, PiecesFacts, ElementOfSeq
<1>3. CASE Opens(f, i, n)
  <2>1. SubSeq(Arguments(i), 1, n - 1) \in Seq(Piece)
    <3>1. 1 \in Int /\ n - 1 \in Int /\ \A k \in 1 .. n - 1 : Arguments(i)[k] \in Piece
      BY <1>1, <1>2, <1>3 DEF Opens
    <3> QED
      BY <3>1, SubSeqProperties
  <2> QED
    BY <1>1, <1>3, <2>1 DEF Opens, Fragment, Fragments
<1>4. CASE Continues(f, i, n)
  <2>1. <<Arguments(i)[n - 1]>> \in Seq(Piece) /\ <<>> \in Seq(Names)
    BY <1>1, <1>2, <1>4 DEF Continues
  <2> QED
    BY <1>1, <1>4, <2>1 DEF Continues, Fragment, Fragments
<1> QED
  BY <1>3, <1>4

LEMMA FragmentStep ==
  ASSUME response \in Responses, NEW a, NEW fed \in [DOMAIN response -> Nat],
         Assembling(a, fed), NEW i \in CallParts, NEW f, NEW n,
         \/ fed[i] = 0 /\ Opens(f, i, n)
         \/ fed[i] > 0 /\ fed[i] = n - 1 /\ Continues(f, i, n)
  PROVE  Assembling(HandleEvent(a, f), [fed EXCEPT ![i] = n])
<1> DEFINE b == HandleEvent(a, f)
           now == [fed EXCEPT ![i] = n]
<1>1. f \in Fragments /\ f.index = i - 1
  BY FragmentTypes
<1>2. /\ Assembler(b)
      /\ Indices(b) = Indices(a) \cup {i - 1}
      /\ b.acc[i - 1] = Extended(AccumulatorOf(a, i - 1), f)
      /\ \A j \in Indices(a) : j # i - 1 => b.acc[j] = a.acc[j]
  BY <1>1, AddFragmentFacts DEF Assembling
<1> HIDE DEF b
<1>3. /\ CallParts \in SUBSET (1 .. Len(response)) /\ Len(response) \in Nat
      /\ DOMAIN response = 1 .. Len(response) /\ response[i].pieces \in Nat
      /\ response[i].name \in Names /\ response[i].name # NoId
  BY ResponseFacts
<1>4. n \in 1 .. response[i].pieces + 1 /\ n > 0
  BY <1>3 DEF Opens, Continues
<1>5. \A j \in CallParts : now[j] = IF j = i THEN n ELSE fed[j]
  BY <1>3
<1>6. Indices(b) = {j - 1 : j \in {k \in CallParts : now[k] > 0}}
  <2>1. {k \in CallParts : now[k] > 0} = {k \in CallParts : fed[k] > 0} \cup {i}
    BY <1>4, <1>5
  <2> HIDE DEF now
  <2>2. Indices(a) = {j - 1 : j \in {k \in CallParts : fed[k] > 0}}
    BY DEF Assembling
  <2> QED
    BY <1>2, <2>1, <2>2
<1>7. ASSUME NEW j \in CallParts, now[j] > 0 PROVE b.acc[j - 1] = SoFar(j, now[j] - 1)
  <2>1. CASE j # i
    <3>1. fed[j] > 0 /\ now[j] = fed[j]
      BY <1>5, <1>7, <2>1
    <3>2. j - 1 \in Indices(a) /\ j - 1 # i - 1
      BY <1>3, <2>1, <3>1 DEF Assembling
    <3>3. a.acc[j - 1] = SoFar(j, fed[j] - 1)
      BY <3>1 DEF Assembling
    <3> QED
      BY <1>2, <3>1, <3>2, <3>3
  <2>2. CASE j = i /\ fed[i] = 0
    <3>1. Opens(f, i, n) /\ now[j] = n
      BY <1>5, <2>2
    <3>2. i - 1 \notin Indices(a)
      <4>1. \A k \in CallParts : k - 1 = i - 1 => k = i
        BY <1>3
      <4> QED
        BY <2>2, <4>1 DEF Assembling
    <3>3. AccumulatorOf(a, i - 1) = Unused
      BY <3>2 DEF AccumulatorOf
    <3>4. f.id # NoId /\ f.id = response[i].name /\ f.name = <<response[i].name>>
          /\ f.input = SubSeq(Arguments(i), 1, n - 1)
      BY <1>3, <3>1 DEF Opens, Fragment
    <3>5. f.name \in Seq(Names) /\ f.input \in Seq(Piece)
      BY <1>1 DEF Fragments
    <3>6. <<>> \o f.name = f.name /\ <<>> \o f.input = f.input
      BY <3>5, ConcatEmptySeq
    <3>7. Extended(Unused, f) = [id |-> f.id, name |-> f.name, input |-> f.input]
      BY <3>4, <3>6 DEF Extended, Unused
    <3> QED
      BY <1>2, <2>2, <3>1, <3>3, <3>4, <3>7 DEF SoFar
  <2>3. CASE j = i /\ fed[i] # 0
    <3>1. fed[i] > 0 /\ fed[i] = n - 1 /\ Continues(f, i, n) /\ now[j] = n
      BY <1>3, <1>5, <2>3
    <3>2. i - 1 \in Indices(a) /\ a.acc[i - 1] = SoFar(i, n - 2)
      <4>1. fed[i] - 1 = n - 2
        BY <1>4, <3>1
      <4> QED
        BY <3>1, <4>1 DEF Assembling
    <3>3. f.id = NoId /\ f.name = <<>> /\ f.input = <<Arguments(i)[n - 1]>>
      BY <3>1 DEF Continues, Fragment
    <3>4. <<response[i].name>> \o <<>> = <<response[i].name>>
      BY <1>3, ConcatEmptySeq
    <3>5. SubSeq(Arguments(i), 1, n - 2) \o <<Arguments(i)[n - 1]>> = SubSeq(Arguments(i), 1, n - 1)
      <4>1. /\ Arguments(i) \in Seq(Piece) /\ Len(Arguments(i)) = response[i].pieces
            /\ n \in 2 .. response[i].pieces + 1 /\ n - 1 \in 1 .. Len(Arguments(i))
            /\ 1 \in 1 .. Len(Arguments(i)) /\ (n - 1) - 1 = n - 2
        <5>1. i \in DOMAIN response
          BY <1>3
        <5>2. Arguments(i) \in Seq(Piece) /\ Len(Arguments(i)) = response[i].pieces
          BY <5>1, PiecesFacts
        <5> QED
          BY <1>3, <3>1, <5>2, SMTT(30) DEF Continues
      <4> QED
        BY <4>1, SubSeqRecursiveSecond
    <3>6. Extended(SoFar(i, n - 2), f) = SoFar(i, n - 1)
      BY <3>3, <3>4, <3>5 DEF Extended, SoFar
    <3> QED
      BY <1>2, <2>3, <3>1, <3>2, <3>6 DEF AccumulatorOf
  <2> QED
    BY <2>1, <2>2, <2>3
<1> QED
  <2>1. Assembling(b, now)
    <3> HIDE DEF now
    <3> QED
      BY <1>2, <1>6, <1>7 DEF Assembling
  <2> QED
    BY <2>1 DEF b

(* The next fragment of call i, after which n is fed of it.               *)
NextFragment(f, i, n) ==
  \/ given[i] = 0 /\ Opens(f, i, n)
  \/ given[i] > 0 /\ given[i] = n - 1 /\ Continues(f, i, n)

SseTypes ==
  /\ provider \in Providers /\ response \in Responses
  /\ given \in [DOMAIN response -> Nat]
  /\ \A i \in DOMAIN response : given[i] <= response[i].pieces + 1
  /\ finished \in BOOLEAN /\ clash \in BOOLEAN
  /\ outcome \in {"open", "done", "error"}

LEMMA NextFragments ==
  ASSUME SseTypes, NEW i \in CallParts, NEW f,
         \/ f \in OpenAIDeltas(i)
         \/ ~Begun(i) /\ f = Fragment(i - 1, response[i].name, <<response[i].name>>, <<>>)
         \/ Begun(i) /\ ~Whole(i) /\ f = NextPiece(i)
  PROVE  \E n : NextFragment(f, i, n)
<1>1. i \in DOMAIN response /\ response[i].pieces \in Nat /\ given[i] \in Nat
      /\ given[i] <= response[i].pieces + 1
  BY ResponseFacts DEF SseTypes
<1>2. CASE ~Begun(i) /\ f \in Openings(i, response[i].name)
  <2>1. PICK n \in {0} \cup (1 .. response[i].pieces \cap {1}) :
          f = Fragment(i - 1, response[i].name, <<response[i].name>>, SubSeq(Arguments(i), 1, n))
    BY <1>2 DEF Openings
  <2>2. n + 1 \in 1 .. response[i].pieces + 1 /\ (n + 1) - 1 = n
    BY <1>1
  <2>3. Opens(f, i, n + 1)
    BY <2>1, <2>2 DEF Opens
  <2>4. given[i] = 0
    BY <1>1, <1>2 DEF Begun
  <2> QED
    BY <2>3, <2>4 DEF NextFragment
<1>3. CASE ~Begun(i) /\ f = Fragment(i - 1, response[i].name, <<response[i].name>>, <<>>)
  <2>1. SubSeq(Arguments(i), 1, 0) = <<>>
    BY SubSeqEmpty
  <2>2. 1 \in 1 .. response[i].pieces + 1 /\ 1 - 1 = 0
    BY <1>1
  <2>4. Opens(f, i, 1)
    BY <1>3, <2>1, <2>2 DEF Opens
  <2>3. given[i] = 0
    BY <1>1, <1>3 DEF Begun
  <2> QED
    BY <2>3, <2>4 DEF NextFragment
<1>4. CASE Begun(i) /\ ~Whole(i) /\ f = NextPiece(i)
  <2>1. given[i] > 0 /\ given[i] + 1 \in 2 .. response[i].pieces + 1 /\ (given[i] + 1) - 1 = given[i]
    BY <1>1, <1>4 DEF Begun, Whole
  <2>2. Continues(f, i, given[i] + 1)
    BY <1>4, <2>1 DEF Continues, NextPiece
  <2> QED
    BY <2>1, <2>2 DEF NextFragment
<1> QED
  BY <1>2, <1>3, <1>4 DEF OpenAIDeltas

LEMMA SplitChunks ==
  ASSUME SseTypes, provider # "gemini", NEW chunk \in ChunkSet
  PROVE  \/ \E i \in CallParts : \E f, n : chunk = <<f>> /\ NextFragment(f, i, n)
         \/ \E i, j \in CallParts : \E f, g, n, m :
              i < j /\ chunk = <<f, g>> /\ NextFragment(f, i, n) /\ NextFragment(g, j, m)
<1>1. provider \in {"openai", "qwen", "claude"}
  BY ResponsesAssumption DEF SseTypes
<1>2. CASE provider \in {"openai", "qwen"}
  <2>1. chunk \in OpenAIChunks
    BY <1>2 DEF ChunkSet, QwenChunks
  <2>2. CASE \E i \in CallParts : \E f \in OpenAIDeltas(i) : chunk = <<f>>
    <3>1. PICK i \in CallParts : \E f \in OpenAIDeltas(i) : chunk = <<f>>
      BY <2>2
    <3>2. PICK f \in OpenAIDeltas(i) : chunk = <<f>>
      BY <3>1
    <3>3. \E n : NextFragment(f, i, n)
      BY <3>2, NextFragments
    <3> QED
      BY <3>2, <3>3
  <2>3. CASE \E i, j \in CallParts : i < j /\
               \E f \in OpenAIDeltas(i), g \in OpenAIDeltas(j) : chunk = <<f, g>>
    <3>1. PICK i \in CallParts, j \in CallParts : i < j /\
               \E f \in OpenAIDeltas(i), g \in OpenAIDeltas(j) : chunk = <<f, g>>
      BY <2>3
    <3>2. PICK f \in OpenAIDeltas(i), g \in OpenAIDeltas(j) : chunk = <<f, g>>
      BY <3>1
    <3>3. \E n : NextFragment(f, i, n)
      BY <3>2, NextFragments
    <3>4. \E n : NextFragment(g, j, n)
      BY <3>2, NextFragments
    <3> QED
      BY <3>1, <3>2, <3>3, <3>4
  <2> QED
    <3> DEFINE Ones(i) == {<<f>> : f \in OpenAIDeltas(i)}
               Twos(i, j) == {<<f, g>> : f \in OpenAIDeltas(i), g \in OpenAIDeltas(j)}
               Pairs(i) == UNION {Twos(i, j) : j \in {k \in CallParts : i < k}}
    <3>0. chunk \in (UNION {Ones(i) : i \in CallParts}) \cup (UNION {Pairs(i) : i \in CallParts})
      BY <2>1 DEF OpenAIChunks
    <3>1. \/ \E i \in CallParts : chunk \in Ones(i)
          \/ \E i \in CallParts : \E j \in {k \in CallParts : i < k} : chunk \in Twos(i, j)
      <4> HIDE DEF Ones, Twos, Pairs
      <4>1. CASE chunk \in UNION {Ones(i) : i \in CallParts}
        BY <4>1, Zenon
      <4>2. CASE chunk \in UNION {Pairs(i) : i \in CallParts}
        <5>1. PICK i \in CallParts : chunk \in Pairs(i)
          BY <4>2, Zenon
        <5>2. \E j \in {k \in CallParts : i < k} : chunk \in Twos(i, j)
          BY <5>1, Zenon DEF Pairs
        <5> QED
          BY <5>2, Zenon
      <4> QED
        BY <3>0, <4>1, <4>2
    <3>2. CASE \E i \in CallParts : chunk \in {<<f>> : f \in OpenAIDeltas(i)}
      BY <2>2, <3>2
    <3>3. CASE \E i \in CallParts : \E j \in {k \in CallParts : i < k} :
               chunk \in {<<f, g>> : f \in OpenAIDeltas(i), g \in OpenAIDeltas(j)}
      BY <2>3, <3>3
    <3> QED
      BY <3>1, <3>2, <3>3
<1>3. CASE provider = "claude"
  <2>1. chunk \in ClaudeChunks
    BY <1>3 DEF ChunkSet
  <2>2. PICK i \in CallParts :
          \/ ~Begun(i) /\ chunk = <<Fragment(i - 1, response[i].name, <<response[i].name>>, <<>>)>>
          \/ Begun(i) /\ ~Whole(i) /\ chunk = <<NextPiece(i)>>
    BY <2>1 DEF ClaudeChunks
  <2>3. PICK f : chunk = <<f>> /\
          \/ ~Begun(i) /\ f = Fragment(i - 1, response[i].name, <<response[i].name>>, <<>>)
          \/ Begun(i) /\ ~Whole(i) /\ f = NextPiece(i)
    BY <2>2
  <2>4. \E n : NextFragment(f, i, n)
    BY <2>3, NextFragments
  <2> QED
    BY <2>3, <2>4
<1> QED
  BY <1>1, <1>2, <1>3

(* Chunks of one and of two fragments go through the assembler.            *)
LEMMA HandleOne ==
  ASSUME NEW a, NEW f
  PROVE  HandleEvents(a, <<f>>) = HandleEvent(a, f)
<1> DEFINE events == <<f>>
<1>1. events \in Seq({f}) /\ Len(events) = 1 /\ events[1] = f
  OBVIOUS
<1> HIDE DEF events
<1>2. PICK after :
        /\ DOMAIN after = 0 .. Len(events) /\ after[0] = a
        /\ \A n \in 1 .. Len(events) : after[n] = HandleEvent(after[n - 1], events[n])
        /\ HandleEvents(a, events) = after[Len(events)]
  <2>1. events \in Seq({f})
    BY <1>1
  <2> QED
    BY <2>1, HandleEventsLoop, SMTT(30)
<1>3. after[1] = HandleEvent(after[1 - 1], events[1])
  BY <1>1, <1>2
<1>4. HandleEvents(a, events) = HandleEvent(a, f)
  BY <1>1, <1>2, <1>3
<1> QED
  BY <1>4 DEF events

LEMMA HandleTwo ==
  ASSUME NEW a, NEW f, NEW g
  PROVE  HandleEvents(a, <<f, g>>) = HandleEvent(HandleEvent(a, f), g)
<1> DEFINE events == <<f, g>>
<1>1. events \in Seq({f, g}) /\ Len(events) = 2 /\ events[1] = f /\ events[2] = g
  OBVIOUS
<1> HIDE DEF events
<1>2. PICK after :
        /\ DOMAIN after = 0 .. Len(events) /\ after[0] = a
        /\ \A n \in 1 .. Len(events) : after[n] = HandleEvent(after[n - 1], events[n])
        /\ HandleEvents(a, events) = after[Len(events)]
  <2>1. events \in Seq({f, g})
    BY <1>1
  <2> QED
    BY <2>1, HandleEventsLoop, SMTT(30)
<1>3. after[1] = HandleEvent(after[1 - 1], events[1])
  BY <1>1, <1>2
<1>4. after[2] = HandleEvent(after[2 - 1], events[2])
  BY <1>1, <1>2
<1>5. HandleEvents(a, events) = HandleEvent(HandleEvent(a, f), g)
  BY <1>1, <1>2, <1>3, <1>4
<1> QED
  BY <1>5 DEF events

(* A chunk of a provider that splits calls: the assembler has what is fed *)
(* after it, and no call has come under another's index.                   *)
LEMMA FragmentFacts ==
  ASSUME SseTypes, provider # "gemini", Assembling(asm, given),
         NEW i \in CallParts, NEW f, NEW n, NextFragment(f, i, n)
  PROVE  /\ n \in Nat /\ n <= response[i].pieces + 1
         /\ \A k : PartOf(f, k) = i
         /\ GivenBy(f, i) = n
         /\ ~(f.name # <<>> /\ f.index \in Range(asm.order))
<1>1. i \in DOMAIN response /\ i \in Int /\ response[i].pieces \in Nat /\ given[i] \in Nat
  BY ResponseFacts DEF SseTypes
<1>2. Arguments(i) \in Seq(Piece) /\ Len(Arguments(i)) = response[i].pieces
      /\ \A k \in 1 .. response[i].pieces : Arguments(i)[k] \in Piece
  BY <1>1, PiecesFacts, ElementOfSeq DEF SseTypes
<1>3. Opens(f, i, n) \/ Continues(f, i, n)
  BY DEF NextFragment
<1>4. f \in Fragments /\ f.index = i - 1
  BY <1>3, FragmentTypes DEF SseTypes
<1>5. n \in 1 .. response[i].pieces + 1
  BY <1>1, <1>3 DEF Opens, Continues
<1>6. \A k : PartOf(f, k) = i
  BY <1>1, <1>4 DEF PartOf
<1>7. CASE given[i] = 0 /\ Opens(f, i, n)
  <2>1. f.input = SubSeq(Arguments(i), 1, n - 1)
    BY <1>7 DEF Opens, Fragment
  <2>2. Len(f.input) = n - 1
    <3>1. 1 \in Int /\ n - 1 \in Int /\ \A k \in 1 .. n - 1 : Arguments(i)[k] \in Piece
      BY <1>1, <1>2, <1>5
    <3>2. Len(SubSeq(Arguments(i), 1, n - 1)) = IF 1 <= n - 1 THEN (n - 1) - 1 + 1 ELSE 0
      BY <3>1, SubSeqProperties
    <3> QED
      BY <1>5, <2>1, <3>2
  <2>3. GivenBy(f, i) = n
    BY <1>1, <1>5, <1>7, <2>2 DEF GivenBy, Begun
  <2>4. f.index \notin Range(asm.order)
    <3>1. \A k \in CallParts : k - 1 = i - 1 => k = i
      BY <1>1, ResponseFacts DEF SseTypes
    <3> QED
      BY <1>4, <1>7, <3>1 DEF Assembling, Indices
  <2> QED
    BY <1>1, <1>5, <1>6, <2>3, <2>4
<1>8. CASE given[i] > 0 /\ given[i] = n - 1 /\ Continues(f, i, n)
  <2>1. f.name = <<>> /\ Len(f.input) = 1
    BY <1>8 DEF Continues, Fragment
  <2>2. GivenBy(f, i) = n
    BY <1>1, <1>5, <1>8, <2>1 DEF GivenBy, Begun
  <2> QED
    BY <1>1, <1>5, <1>6, <2>1, <2>2
<1> QED
  BY <1>7, <1>8 DEF NextFragment

LEMMA SplitStep ==
  ASSUME SseTypes, provider # "gemini", Assembling(asm, given), SendChunk
  PROVE  /\ Assembling(asm', given') /\ clash' = clash
         /\ given' \in [DOMAIN response -> Nat]
         /\ \A i \in DOMAIN response : given'[i] <= response[i].pieces + 1
<1> DEFINE touched(chunk) == {PartOf(chunk[k], k) : k \in DOMAIN chunk}
<1>1. PICK chunk \in ChunkSet :
        /\ asm' = HandleEvents(asm, chunk)
        /\ given' = [i \in DOMAIN response |->
             IF i \in touched(chunk)
             THEN GivenBy(chunk[CHOOSE q \in DOMAIN chunk : PartOf(chunk[q], q) = i], i)
             ELSE given[i]]
        /\ clash' = (clash \/ \E f \in Range(chunk) :
                       f.kind = "tool" /\ f.name # <<>> /\ f.index \in Range(asm.order))
  BY DEF SendChunk
<1>2. /\ response \in Responses /\ given \in [DOMAIN response -> Nat] /\ clash \in BOOLEAN
      /\ \A i \in DOMAIN response : given[i] <= response[i].pieces + 1
      /\ CallParts \subseteq DOMAIN response
      /\ \A i \in CallParts : i \in Int
  BY ResponseFacts DEF SseTypes
<1>3. CASE \E i \in CallParts : \E f, n : chunk = <<f>> /\ NextFragment(f, i, n)
  <2>0. PICK i \in CallParts : \E f, n : chunk = <<f>> /\ NextFragment(f, i, n)
    BY <1>3
  <2>1. PICK f, n : chunk = <<f>> /\ NextFragment(f, i, n)
    BY <2>0
  <2>2. /\ n \in Nat /\ n <= response[i].pieces + 1
        /\ \A k : PartOf(f, k) = i
        /\ GivenBy(f, i) = n
        /\ ~(f.name # <<>> /\ f.index \in Range(asm.order))
    BY <2>1, FragmentFacts
  <2>3. DOMAIN chunk = {1} /\ chunk[1] = f /\ Range(chunk) = {f}
    BY <2>1 DEF Range
  <2>4. touched(chunk) = {i} /\ (CHOOSE q \in DOMAIN chunk : PartOf(chunk[q], q) = i) = 1
    BY <2>2, <2>3
  <2>5. given' = [given EXCEPT ![i] = n]
    <3>1. given' = [k \in DOMAIN response |-> IF k = i THEN n ELSE given[k]]
      BY <1>1, <2>2, <2>3, <2>4
    <3>2. [given EXCEPT ![i] = n] = [k \in DOMAIN response |-> IF k = i THEN n ELSE given[k]]
      BY <1>2
    <3> QED
      BY <3>1, <3>2
  <2>6. asm' = HandleEvent(asm, f)
    BY <1>1, <2>1, HandleOne
  <2>7. Assembling(HandleEvent(asm, f), [given EXCEPT ![i] = n])
    <3>1. \/ given[i] = 0 /\ Opens(f, i, n)
          \/ given[i] > 0 /\ given[i] = n - 1 /\ Continues(f, i, n)
      BY <2>1 DEF NextFragment
    <3> QED
      BY <1>2, <3>1, FragmentStep
  <2>8. clash' = clash
    BY <1>1, <1>2, <2>2, <2>3
  <2> QED
    BY <1>2, <2>2, <2>5, <2>6, <2>7, <2>8
<1>4. CASE \E i, j \in CallParts : \E f, g, n, m :
             i < j /\ chunk = <<f, g>> /\ NextFragment(f, i, n) /\ NextFragment(g, j, m)
  <2>1. PICK i \in CallParts, j \in CallParts : \E f, g, n, m :
             i < j /\ chunk = <<f, g>> /\ NextFragment(f, i, n) /\ NextFragment(g, j, m)
    BY <1>4
  <2>2. PICK f, g, n, m :
             i < j /\ chunk = <<f, g>> /\ NextFragment(f, i, n) /\ NextFragment(g, j, m)
    BY <2>1
  <2>3. /\ n \in Nat /\ n <= response[i].pieces + 1
        /\ \A k : PartOf(f, k) = i
        /\ GivenBy(f, i) = n
        /\ ~(f.name # <<>> /\ f.index \in Range(asm.order))
    BY <2>2, FragmentFacts
  <2>4. /\ m \in Nat /\ m <= response[j].pieces + 1
        /\ \A k : PartOf(g, k) = j
        /\ GivenBy(g, j) = m
        /\ ~(g.name # <<>> /\ g.index \in Range(asm.order))
    BY <2>2, FragmentFacts
  <2>5. i # j
    BY <1>2, <2>2
  <2>6. DOMAIN chunk = {1, 2} /\ chunk[1] = f /\ chunk[2] = g /\ Range(chunk) = {f, g}
    BY <2>2 DEF Range
  <2>7. /\ touched(chunk) = {i, j}
        /\ (CHOOSE q \in DOMAIN chunk : PartOf(chunk[q], q) = i) = 1
        /\ (CHOOSE q \in DOMAIN chunk : PartOf(chunk[q], q) = j) = 2
    BY <2>3, <2>4, <2>5, <2>6
  <2> DEFINE first == [given EXCEPT ![i] = n]
             both == [first EXCEPT ![j] = m]
  <2>8. given' = both
    <3>1. both = [k \in DOMAIN response |-> IF k = i THEN n ELSE IF k = j THEN m ELSE given[k]]
      BY <1>2, <2>5
    <3> QED
      BY <1>1, <1>2, <2>3, <2>4, <2>5, <2>6, <2>7, <3>1
  <2>9. asm' = HandleEvent(HandleEvent(asm, f), g)
    BY <1>1, <2>2, HandleTwo
  <2>10. Assembling(HandleEvent(asm, f), first) /\ first \in [DOMAIN response -> Nat]
    <3>1. \/ given[i] = 0 /\ Opens(f, i, n)
          \/ given[i] > 0 /\ given[i] = n - 1 /\ Continues(f, i, n)
      BY <2>2 DEF NextFragment
    <3>2. Assembling(HandleEvent(asm, f), first)
      BY <1>2, <3>1, FragmentStep
    <3> QED
      BY <1>2, <2>3, <3>2
  <2>11. Assembling(HandleEvent(HandleEvent(asm, f), g), both)
    <3>1. first[j] = given[j]
      BY <1>2, <2>5
    <3>2. \/ first[j] = 0 /\ Opens(g, j, m)
          \/ first[j] > 0 /\ first[j] = m - 1 /\ Continues(g, j, m)
      BY <2>2, <3>1 DEF NextFragment
    <3> HIDE DEF first
    <3> QED
      BY <1>2, <2>10, <3>2, FragmentStep
  <2>12. clash' = clash
    BY <1>1, <1>2, <2>3, <2>4, <2>6
  <2>13. both \in [DOMAIN response -> Nat] /\ \A k \in DOMAIN response : both[k] <= response[k].pieces + 1
    BY <1>2, <2>3, <2>4, <2>5
  <2> QED
    BY <2>8, <2>9, <2>11, <2>12, <2>13
<1> QED
  BY <1>3, <1>4, SplitChunks

-------------------------------------------------------------------------------
(* Gemini, whose calls come whole and under their position in the chunk:   *)
(* n parts have been fed.  Without a clash the assembler has their calls  *)
(* in order; after one it holds arguments that cannot become JSON again:   *)
(* those of one call and more behind them.                                 *)
WholeCall(i) == [id |-> NoId, name |-> <<response[i].name>>, input |-> Marshalled(i)]
Unreadable(input) == \E i \in CallParts, rest \in Seq(Piece) : rest # <<>> /\ input = Marshalled(i) \o rest
Gathering(a, n, clashed) ==
  /\ Assembler(a)
  /\ IF clashed THEN \E j \in Indices(a) : Unreadable(a.acc[j].input)
     ELSE /\ Len(a.order) = Cardinality(UpTo(CallParts, n))
          /\ \A k \in 1 .. Len(a.order) : a.acc[a.order[k]] = WholeCall(Nth(CallParts, k))

(* The part n + 1 of the response as an event, at position m of its chunk. *)
PartEvent(i, index) ==
  IF IsCall(response[i]) THEN Fragment(index, NoId, <<response[i].name>>, Marshalled(i))
  ELSE [kind |-> "text", index |-> i - 1]

LEMMA UnreadableIsInvalid ==
  ASSUME response \in Responses, NEW input, Unreadable(input)
  PROVE  input # <<>> /\ ~ValidJson(input)
<1>1. PICK i \in CallParts, rest \in Seq(Piece) : rest # <<>> /\ input = Marshalled(i) \o rest
  BY DEF Unreadable
<1>2. i \in DOMAIN response /\ i \in Int /\ i > 0 /\ response[i].pieces \in Nat
  BY ResponseFacts
<1> DEFINE whole == Marshalled(i)
<1>3. whole \in Seq(Piece) /\ Len(whole) \in Nat \ {0}
  BY <1>2, PiecesFacts
<1>4. Len(rest) \in Nat \ {0}
  BY <1>1
<1>5. /\ Len(input) = Len(whole) + Len(rest)
      /\ input[1] = whole[1]
  <2> HIDE DEF whole
  <2>1. Len(whole \o rest) = Len(whole) + Len(rest)
        /\ \A k \in 1 .. Len(whole) + Len(rest) :
             (whole \o rest)[k] = IF k <= Len(whole) THEN whole[k] ELSE rest[k - Len(whole)]
    BY <1>3, ConcatProperties
  <2>2. input = whole \o rest
    BY <1>1 DEF whole
  <2>3. 1 \in 1 .. Len(whole) + Len(rest) /\ 1 <= Len(whole)
    BY <1>3, <1>4
  <2> QED
    BY <2>1, <2>2, <2>3
<1>6. input # <<>>
  <2>1. Len(input) # 0
    BY <1>3, <1>4, <1>5
  <2>2. Len(<<>>) = 0
    OBVIOUS
  <2> QED
    BY <2>1, <2>2, Zenon
<1>7. input # <<Null>>
  <2>1. Len(input) # 1
    BY <1>3, <1>4, <1>5
  <2>2. Len(<<Null>>) = 1
    OBVIOUS
  <2> QED
    BY <2>1, <2>2, Zenon
<1>8. ASSUME NEW j \in CallParts PROVE input # Arguments(j)
  <2> SUFFICES ASSUME input = Arguments(j) PROVE FALSE
    OBVIOUS
  <2>1. j \in DOMAIN response /\ j \in Int /\ j > 0 /\ response[j].pieces \in Nat
    BY ResponseFacts
  <2>2. Len(Arguments(j)) = response[j].pieces /\ \A k \in 1 .. response[j].pieces : Arguments(j)[k] = <<j, k>>
    BY <2>1, PiecesFacts
  <2>3. response[j].pieces > 1 /\ input[1] = <<j, 1>>
    BY <1>3, <1>4, <1>5, <2>1, <2>2
  <2>4. CASE response[i].pieces = 0
    <3>1. whole[1] = <<0, 0>>
      BY <2>4 DEF Marshalled, Null
    <3>2. <<j, 1>> # <<0, 0>>
      OBVIOUS
    <3> QED
      BY <1>5, <2>3, <3>1, <3>2
  <2>5. CASE response[i].pieces # 0
    <3>1. Len(Arguments(i)) = response[i].pieces /\ Arguments(i)[1] = <<i, 1>>
      <4>1. 1 \in 1 .. response[i].pieces
        BY <1>2, <2>5
      <4> QED
        BY <1>2, <4>1, PiecesFacts
    <3>2. whole = Arguments(i)
      BY <2>5 DEF Marshalled
    <3>3. <<i, 1>> = <<j, 1>>
      BY <1>5, <2>3, <3>1, <3>2
    <3>4. i = j
      BY <3>3
    <3>5. Len(whole) = Len(input)
      BY <3>2, <3>4
    <3> QED
      BY <1>3, <1>4, <1>5, <3>5
  <2> QED
    BY <2>4, <2>5
<1> QED
  BY <1>6, <1>7, <1>8 DEF ValidJson

LEMMA UnreadableStays ==
  ASSUME NEW input, Unreadable(input), NEW more \in Seq(Piece), response \in Responses
  PROVE  Unreadable(input \o more)
<1>1. PICK i \in CallParts, rest \in Seq(Piece) : rest # <<>> /\ input = Marshalled(i) \o rest
  BY DEF Unreadable
<1>2. Marshalled(i) \in Seq(Piece)
  BY PiecesFacts, ResponseFacts
<1>3. input \o more = Marshalled(i) \o (rest \o more)
  BY <1>1, <1>2, ConcatAssociative
<1>4. rest \o more \in Seq(Piece) /\ rest \o more # <<>>
  BY <1>1, ConcatProperties, ConcatEqualIffEmpty
<1> QED
  BY <1>3, <1>4 DEF Unreadable

(* One part more.                                                          *)
LEMMA PartStep ==
  ASSUME response \in Responses, NEW n \in Nat, n < Len(response), NEW a,
         NEW clashed \in BOOLEAN, NEW index \in Nat, Gathering(a, n, clashed)
  PROVE  LET e == PartEvent(n + 1, index)
             b == HandleEvent(a, e)
             now == clashed \/ (IsCall(response[n + 1]) /\ index \in Indices(a))
         IN  /\ Gathering(b, n + 1, now)
             /\ Indices(b) = Indices(a) \cup (IF IsCall(response[n + 1]) THEN {index} ELSE {})
<1> DEFINE i == n + 1
           e == PartEvent(i, index)
           b == HandleEvent(a, e)
           now == clashed \/ (IsCall(response[i]) /\ index \in Indices(a))
<1>1. /\ Len(response) \in Nat /\ DOMAIN response = 1 .. Len(response)
      /\ CallParts \in SUBSET (1 .. Len(response))
      /\ i \in DOMAIN response /\ i \in Int /\ i - 1 = n
      /\ i \in CallParts <=> IsCall(response[i])
  BY ResponseFacts DEF CallParts
<1>2. Cardinality(UpTo(CallParts, i)) =
        Cardinality(UpTo(CallParts, n)) + (IF i \in CallParts THEN 1 ELSE 0)
  <2>1. \A l \in Int : Cardinality(UpTo(CallParts, l)) =
          Cardinality(UpTo(CallParts, l - 1)) + (IF l \in CallParts THEN 1 ELSE 0)
    BY <1>1, UpToFacts
  <2> HIDE DEF i
  <2> QED
    BY <1>1, <2>1
<1>3. CASE i \notin CallParts
  <2>1. b = a
    BY <1>1, <1>3 DEF PartEvent, HandleEvent
  <2>2. Cardinality(UpTo(CallParts, i)) = Cardinality(UpTo(CallParts, n))
    <3>1. n \in Int /\ Cardinality(UpTo(CallParts, n)) \in 0 .. Cardinality(CallParts)
      BY <1>1, UpToFacts, SMTT(30)
    <3> QED
      BY <1>2, <1>3, <3>1
  <2> QED
    BY <1>1, <1>3, <2>1, <2>2 DEF Gathering
<1>4. CASE i \in CallParts
  <2>1. e = Fragment(index, NoId, <<response[i].name>>, Marshalled(i))
    BY <1>1, <1>4 DEF PartEvent
  <2>2. response[i].name \in Names /\ Marshalled(i) \in Seq(Piece) /\ Len(Marshalled(i)) \in Nat \ {0}
    BY <1>1, <1>4, PiecesFacts, ResponseFacts
  <2> HIDE DEF e
  <2>3. /\ e \in Fragments /\ e.index = index /\ e.id = NoId
        /\ e.name = <<response[i].name>> /\ e.input = Marshalled(i)
    <3>1. <<response[i].name>> \in Seq(Names)
      BY <2>2
    <3> QED
      BY <2>1, <2>2, <3>1 DEF Fragment, Fragments
  <2>4. /\ Assembler(b)
        /\ Indices(b) = Indices(a) \cup {index}
        /\ b.order = IF index \in Indices(a) THEN a.order ELSE Append(a.order, index)
        /\ b.acc[index] = Extended(AccumulatorOf(a, index), e)
        /\ \A j \in Indices(a) : j # index => b.acc[j] = a.acc[j]
    BY <2>3, AddFragmentFacts DEF Gathering
  <2> HIDE DEF b
  <2>5. /\ a.order \in Seq(Nat) /\ Len(a.order) \in Nat /\ DOMAIN a.order = 1 .. Len(a.order)
        /\ \A k \in 1 .. Len(a.order) : a.order[k] \in Indices(a)
    BY LenProperties DEF Gathering, Assembler, Indices, Range
  <2>6. ASSUME index \in Indices(a) PROVE b.acc[index].input = a.acc[index].input \o Marshalled(i)
    <3>1. b.acc[index] = Extended(a.acc[index], e)
      BY <2>4, <2>6 DEF AccumulatorOf
    <3>2. b.acc[index].input = a.acc[index].input \o e.input
      BY <3>1, ExtendedInput
    <3> QED
      BY <2>3, <3>2
  <2>7. ASSUME clashed PROVE Gathering(b, i, now)
    <3>1. PICK j \in Indices(a) : Unreadable(a.acc[j].input)
      BY <2>7 DEF Gathering
    <3>2. Unreadable(b.acc[j].input)
      <4>1. CASE j = index
        BY <2>2, <2>6, <3>1, <4>1, UnreadableStays
      <4>2. CASE j # index
        BY <2>4, <3>1, <4>2
      <4> QED
        BY <4>1, <4>2
    <3>3. j \in Indices(b) /\ now
      BY <2>4, <2>7, <3>1
    <3> HIDE DEF now
    <3> QED
      BY <2>4, <3>2, <3>3 DEF Gathering
  <2>8. ASSUME ~clashed, index \in Indices(a) PROVE Gathering(b, i, now)
    <3>1. PICK k \in 1 .. Len(a.order) : a.order[k] = index
      BY <2>5, <2>8 DEF Indices, Range
    <3>2. a.acc[index] = WholeCall(Nth(CallParts, k))
      BY <2>8, <3>1 DEF Gathering
    <3>3. Nth(CallParts, k) \in CallParts
      <4>1. k \in 1 .. Cardinality(CallParts)
        <5>1. Cardinality(UpTo(CallParts, n)) \in 0 .. Cardinality(CallParts)
              /\ Cardinality(CallParts) \in 0 .. Len(response)
          <6>1. n \in Int
            OBVIOUS
          <6> QED
            BY <1>1, <6>1, UpToFacts
        <5>2. Len(a.order) = Cardinality(UpTo(CallParts, n))
          BY <2>8 DEF Gathering
        <5> QED
          BY <5>1, <5>2
      <4> QED
        BY <1>1, <4>1, NthHasRank
    <3>4. b.acc[index].input = Marshalled(Nth(CallParts, k)) \o Marshalled(i)
      BY <2>6, <2>8, <3>2 DEF WholeCall
    <3>5. Marshalled(i) # <<>>
      BY <2>2
    <3>6. Unreadable(b.acc[index].input)
      BY <2>2, <3>3, <3>4, <3>5 DEF Unreadable
    <3>7. index \in Indices(b) /\ now
      BY <1>1, <1>4, <2>4, <2>8
    <3> HIDE DEF now
    <3> QED
      BY <2>4, <3>6, <3>7 DEF Gathering
  <2>9. ASSUME ~clashed, index \notin Indices(a) PROVE Gathering(b, i, now)
    <3>1. b.order = Append(a.order, index)
      BY <2>4, <2>9
    <3>2. /\ Len(b.order) = Len(a.order) + 1 /\ b.order[Len(a.order) + 1] = index
          /\ \A k \in 1 .. Len(a.order) : b.order[k] = a.order[k]
      BY <2>5, <3>1, AppendProperties
    <3>3. Len(a.order) = Cardinality(UpTo(CallParts, n))
          /\ \A k \in 1 .. Len(a.order) : a.acc[a.order[k]] = WholeCall(Nth(CallParts, k))
      BY <2>9 DEF Gathering
    <3>4. Cardinality(UpTo(CallParts, i)) = Len(b.order)
      BY <1>2, <1>4, <2>5, <3>2, <3>3
    <3>5. Nth(CallParts, Len(b.order)) = i
      BY <1>1, <1>4, <3>4, NthIs
    <3>6. b.acc[index] = WholeCall(i)
      <4>1. AccumulatorOf(a, index) = Unused
        BY <2>9 DEF AccumulatorOf
      <4>2. <<>> \o e.name = e.name /\ <<>> \o e.input = e.input
        BY <2>3, ConcatEmptySeq DEF Fragments
      <4>3. Extended(Unused, e) = [id |-> NoId, name |-> e.name, input |-> e.input]
        BY <2>3, <4>2 DEF Extended, Unused
      <4> QED
        BY <2>3, <2>4, <4>1, <4>3 DEF WholeCall
    <3>7. ASSUME NEW k \in 1 .. Len(b.order)
          PROVE  b.acc[b.order[k]] = WholeCall(Nth(CallParts, k))
      <4>1. CASE k \in 1 .. Len(a.order)
        <5>1. b.order[k] = a.order[k] /\ a.order[k] \in Indices(a) /\ a.order[k] # index
          BY <2>5, <2>9, <3>2, <4>1
        <5> QED
          BY <2>4, <3>3, <4>1, <5>1
      <4>2. CASE k = Len(a.order) + 1
        BY <3>2, <3>5, <3>6, <4>2
      <4> QED
        BY <2>5, <3>2, <4>1, <4>2
    <3>8. ~now
      BY <2>9
    <3> HIDE DEF now
    <3> QED
      BY <2>4, <3>4, <3>7, <3>8 DEF Gathering
  <2>10. Gathering(b, i, now)
    BY <2>7, <2>8, <2>9
  <2>11. Indices(b) = Indices(a) \cup (IF IsCall(response[i]) THEN {index} ELSE {})
    BY <1>1, <1>4, <2>4
  <2> QED
    BY <2>10, <2>11 DEF b, e
<1> QED
  BY <1>3, <1>4


LEMMA PartsLoop ==
  ASSUME response \in Responses, NEW n \in Nat, NEW m \in Nat, n + m <= Len(response), NEW a,
         NEW clashed \in BOOLEAN, Gathering(a, n, clashed),
         NEW chunk, chunk = [k \in 1 .. m |-> PartEvent(n + k, k - 1)]
  PROVE  Gathering(HandleEvents(a, chunk), n + m,
           clashed \/ \E k \in 1 .. m : IsCall(response[n + k]) /\ k - 1 \in Indices(a))
<1> DEFINE S == {PartEvent(n + k, k - 1) : k \in 1 .. m}
<1>0. chunk \in Seq(S)
  <2>1. \A k \in 1 .. m : chunk[k] \in S
    OBVIOUS
  <2>2. DOMAIN chunk = 1 .. m /\ chunk = [k \in 1 .. m |-> chunk[k]]
    OBVIOUS
  <2> HIDE DEF S
  <2> QED
    BY <2>1, <2>2
<1>1. Len(chunk) = m /\ \A k \in 1 .. m : chunk[k] = PartEvent(n + k, k - 1)
  OBVIOUS
<1>2. PICK after :
        /\ DOMAIN after = 0 .. Len(chunk) /\ after[0] = a
        /\ \A k \in 1 .. Len(chunk) : after[k] = HandleEvent(after[k - 1], chunk[k])
        /\ HandleEvents(a, chunk) = after[Len(chunk)]
  <2> HIDE DEF S
  <2>1. \A T : \A events \in Seq(T) : \E after :
          /\ DOMAIN after = 0 .. Len(events) /\ after[0] = a
          /\ \A k \in 1 .. Len(events) : after[k] = HandleEvent(after[k - 1], events[k])
          /\ HandleEvents(a, events) = after[Len(events)]
    BY HandleEventsLoop
  <2> QED
    BY <1>0, <2>1, Zenon
<1> HIDE DEF S
<1> DEFINE clashedBy(q) == clashed \/ \E k \in 1 .. q : IsCall(response[n + k]) /\ k - 1 \in Indices(a)
           Good(q) == /\ Gathering(after[q], n + q, clashedBy(q))
                      /\ Indices(a) \subseteq Indices(after[q])
                      /\ Indices(after[q]) \subseteq Indices(a) \cup 0 .. q - 1
           F == {q \in Nat : q <= m => Good(q)}
<1>3. 0 \in F
  <2>1. clashedBy(0) = clashed
    <3>1. 1 .. 0 = {}
      OBVIOUS
    <3> QED
      BY <3>1, Zenon
  <2>2. n + 0 = n
    OBVIOUS
  <2> HIDE DEF clashedBy
  <2>3. Good(0)
    BY <1>2, <2>1, <2>2
  <2> QED
    BY <2>3
<1>4. ASSUME NEW q \in F PROVE q + 1 \in F
  <2> SUFFICES ASSUME q + 1 <= m PROVE Good(q + 1)
    OBVIOUS
  <2>1. q \in Nat /\ q <= m /\ q + 1 \in 1 .. m /\ (q + 1) - 1 = q
    OBVIOUS
  <2>2. Good(q)
    BY <2>1
  <2>3. after[q + 1] = HandleEvent(after[q], PartEvent((n + q) + 1, q))
    <3>1. n + (q + 1) = (n + q) + 1
      BY <2>1
    <3> QED
      BY <1>1, <1>2, <2>1, <3>1
  <2> DEFINE now == clashedBy(q) \/ (IsCall(response[(n + q) + 1]) /\ q \in Indices(after[q]))
  <2>4. /\ Gathering(after[q + 1], (n + q) + 1, now)
        /\ Indices(after[q + 1]) =
             Indices(after[q]) \cup (IF IsCall(response[(n + q) + 1]) THEN {q} ELSE {})
    <3>1. n + q \in Nat /\ n + q < Len(response) /\ clashedBy(q) \in BOOLEAN /\ q \in Nat
      <4>1. clashedBy(q) \in BOOLEAN
        OBVIOUS
      <4>2. Len(response) \in Nat
        BY ResponseFacts
      <4> HIDE DEF clashedBy, Good
      <4> QED
        BY <2>1, <4>1, <4>2
    <3>2. Gathering(after[q], n + q, clashedBy(q))
      BY <2>2
    <3> HIDE DEF clashedBy
    <3> QED
      BY <2>3, <3>1, <3>2, PartStep
  <2>5. now = clashedBy(q + 1)
    <3>1. q \in Indices(after[q]) <=> q \in Indices(a)
      BY <2>1, <2>2
    <3>2. \A k : k \in 1 .. q + 1 <=> k \in 1 .. q \/ k = q + 1
      BY <2>1
    <3>3. n + (q + 1) = (n + q) + 1
      BY <2>1
    <3>4. now <=> clashedBy(q + 1)
      BY <2>1, <3>1, <3>2, <3>3, Zenon
    <3>5. now \in BOOLEAN /\ clashedBy(q + 1) \in BOOLEAN
      OBVIOUS
    <3> QED
      BY <3>4, <3>5
  <2>6. n + (q + 1) = (n + q) + 1
    BY <2>1
  <2>7. 0 .. (q + 1) - 1 = 0 .. q - 1 \cup {q}
    BY <2>1
  <2> HIDE DEF now, clashedBy
  <2> QED
    BY <2>2, <2>4, <2>5, <2>6, <2>7
<1>5. m \in F
  <2> HIDE DEF F
  <2>1. F \in SUBSET Nat
    BY DEF F
  <2>2. \A q \in Nat : q \in F
    BY <1>3, <1>4, <2>1, InductiveSet
  <2> QED
    BY <2>2
<1>6. Gathering(after[m], n + m, clashedBy(m))
  <2> HIDE DEF clashedBy
  <2> QED
    BY <1>5
<1> QED
  BY <1>1, <1>2, <1>6

SentWhole(n) == given = [i \in DOMAIN response |-> IF i <= n THEN response[i].pieces + 1 ELSE 0]

LEMMA GeminiStep ==
  ASSUME SseTypes, provider = "gemini", NEW n \in 0 .. Len(response), SentWhole(n),
         Gathering(asm, n, clash), SendChunk
  PROVE  \E m \in 0 .. Len(response) :
           /\ SentWhole(m)' /\ Gathering(asm', m, clash') /\ clash' \in BOOLEAN
           /\ response' = response
<1>1. /\ response \in Responses /\ Len(response) \in Nat /\ DOMAIN response = 1 .. Len(response)
      /\ \A i \in DOMAIN response : response[i].pieces \in Nat
      /\ n \in Nat /\ clash \in BOOLEAN
  BY ResponseFacts DEF SseTypes
<1>2. Cardinality({i \in DOMAIN response : Begun(i)}) = n
  <2>1. {i \in DOMAIN response : Begun(i)} = 1 .. n
    BY <1>1 DEF Begun, SentWhole
  <2>2. Cardinality(1 .. n) = n
    <3>1. 1 \in Int /\ n \in Int
      BY <1>1
    <3>2. Cardinality(1 .. n) = IF 1 > n THEN 0 ELSE n - 1 + 1
      BY <3>1, FS_Interval
    <3> QED
      BY <1>1, <3>2
  <2> QED
    BY <2>1, <2>2
<1> DEFINE touched(chunk) == {PartOf(chunk[k], k) : k \in DOMAIN chunk}
<1>3. PICK chunk \in ChunkSet :
        /\ asm' = HandleEvents(asm, chunk)
        /\ given' = [i \in DOMAIN response |->
             IF i \in touched(chunk)
             THEN GivenBy(chunk[CHOOSE q \in DOMAIN chunk : PartOf(chunk[q], q) = i], i)
             ELSE given[i]]
        /\ clash' = (clash \/ \E f \in Range(chunk) :
                       f.kind = "tool" /\ f.name # <<>> /\ f.index \in Range(asm.order))
  BY DEF SendChunk
<1>4. PICK m \in 1 .. Len(response) - n : chunk = [k \in 1 .. m |-> PartEvent(n + k, k - 1)]
  <2>1. chunk \in GeminiChunks
    BY DEF ChunkSet
  <2>2. PICK m \in 1 .. Len(response) + 1 - (n + 1) :
          chunk = [k \in 1 .. m |->
            IF IsCall(response[(n + 1) + k - 1])
            THEN Fragment(k - 1, NoId, <<response[(n + 1) + k - 1].name>>, Marshalled((n + 1) + k - 1))
            ELSE [kind |-> "text", index |-> ((n + 1) + k - 1) - 1]]
    BY <1>2, <2>1 DEF GeminiChunks
  <2>3. \A k \in 1 .. m : (n + 1) + k - 1 = n + k
    BY <1>1
  <2>4. m \in 1 .. Len(response) - n
    BY <1>1, <2>2
  <2> QED
    BY <2>2, <2>3, <2>4 DEF PartEvent
<1>5. m \in Nat /\ n + m <= Len(response) /\ n + m \in 0 .. Len(response)
  BY <1>1, <1>4
<1> DEFINE hit == \E k \in 1 .. m : IsCall(response[n + k]) /\ k - 1 \in Indices(asm)
<1>6. Gathering(asm', n + m, clash \/ hit)
  BY <1>1, <1>3, <1>4, <1>5, PartsLoop
<1>7. clash' = (clash \/ hit)
  <2>1. ASSUME NEW f \in Range(chunk),
               f.kind = "tool" /\ f.name # <<>> /\ f.index \in Range(asm.order)
        PROVE  hit
    <3>1. PICK k \in 1 .. m : f = PartEvent(n + k, k - 1)
      BY <1>4, <2>1 DEF Range
    <3>2. IsCall(response[n + k]) /\ f.index = k - 1
      BY <2>1, <3>1 DEF PartEvent, Fragment
    <3> QED
      BY <2>1, <3>2 DEF Indices
  <2>2. ASSUME hit
        PROVE  \E f \in Range(chunk) : f.kind = "tool" /\ f.name # <<>> /\ f.index \in Range(asm.order)
    <3>1. PICK k \in 1 .. m : IsCall(response[n + k]) /\ k - 1 \in Indices(asm)
      BY <2>2
    <3>2. chunk[k] \in Range(chunk) /\ chunk[k] = PartEvent(n + k, k - 1)
      BY <1>4 DEF Range
    <3>3. /\ chunk[k].kind = "tool" /\ chunk[k].index = k - 1
          /\ chunk[k].name = <<response[n + k].name>>
      BY <3>1, <3>2 DEF PartEvent, Fragment
    <3>4. chunk[k].name # <<>>
      BY <3>3
    <3> QED
      BY <3>1, <3>2, <3>3, <3>4 DEF Indices
  <2> HIDE DEF hit
  <2> QED
    BY <1>1, <1>3, <2>1, <2>2
<1>8. SentWhole(n + m)'
  <2>1. \A k : PartOf(chunk[k], k) = n + k
    BY <1>2 DEF PartOf
  <2>2. touched(chunk) = {n + k : k \in 1 .. m}
    BY <1>4, <2>1
  <2>3. \A i \in DOMAIN response : i \in touched(chunk) <=> n < i /\ i <= n + m
    <3>1. ASSUME NEW i \in DOMAIN response, n < i /\ i <= n + m PROVE i \in {n + k : k \in 1 .. m}
      <4>1. i - n \in 1 .. m /\ i = n + (i - n)
        BY <1>1, <1>5, <3>1
      <4> QED
        BY <4>1
    <3>2. ASSUME NEW i \in {n + k : k \in 1 .. m} PROVE n < i /\ i <= n + m
      BY <1>1, <1>5
    <3> QED
      BY <2>2, <3>1, <3>2
  <2>4. \A e : \A i \in DOMAIN response : GivenBy(e, i) = response[i].pieces + 1
    BY DEF GivenBy
  <2>5. given' = [i \in DOMAIN response |->
                   IF n < i /\ i <= n + m THEN response[i].pieces + 1
                   ELSE IF i <= n THEN response[i].pieces + 1 ELSE 0]
    <3>1. \A i \in DOMAIN response : given[i] = IF i <= n THEN response[i].pieces + 1 ELSE 0
      BY DEF SentWhole
    <3> HIDE DEF touched
    <3> QED
      BY <1>3, <2>3, <2>4, <3>1
  <2>6. \A i \in DOMAIN response : i <= n + m <=> (n < i /\ i <= n + m) \/ i <= n
    BY <1>1, <1>5
  <2>7. given' = [i \in DOMAIN response |-> IF i <= n + m THEN response[i].pieces + 1 ELSE 0]
    BY <2>5, <2>6
  <2>8. response' = response
    BY DEF SendChunk
  <2> QED
    BY <2>7, <2>8 DEF SentWhole
<1>9. clash' \in BOOLEAN /\ response' = response
  BY <1>1, <1>7 DEF SendChunk
<1>10. Gathering(asm', n + m, clash')
  <2> HIDE DEF hit
  <2> QED
    BY <1>6, <1>7
<1> QED
  BY <1>5, <1>8, <1>9, <1>10

-------------------------------------------------------------------------------
(* The invariant: the assembler has what has been fed, the end of the     *)
(* answer comes after all of it, and a stream succeeds with what Assemble  *)
(* makes of it.                                                            *)
SseInv ==
  /\ SseTypes
  /\ provider # "gemini" =>
       /\ Assembling(asm, given) /\ ~clash
       /\ finished => Sent
       /\ outcome = "done" => finished
  /\ provider = "gemini" =>
       \E n \in 0 .. Len(response) :
         /\ SentWhole(n) /\ Gathering(asm, n, clash)
         /\ finished => n = Len(response)
  /\ outcome = "done" => result = Assemble(asm) /\ result.ok

LEMMA NothingAssembled == Assembler(NoCalls) /\ Indices(NoCalls) = {} /\ Len(NoCalls.order) = 0
<1>1. NoCalls = [order |-> <<>>, acc |-> <<>>]
  BY DEF NoCalls
<1>2. Range(<<>>) = {}
  BY DEF Range
<1>3. <<>> \in [{} -> Accumulator]
  OBVIOUS
<1> QED
  BY <1>1, <1>2, <1>3 DEF Assembler, Indices

LEMMA SseInitInv == SseInit => SseInv
<1> SUFFICES ASSUME SseInit PROVE SseInv
  OBVIOUS
<1>0. /\ provider \in Providers /\ response \in Responses /\ asm = NoCalls
      /\ given = [i \in DOMAIN response |-> 0]
      /\ ~finished /\ finished \in BOOLEAN /\ clash = FALSE
      /\ outcome = "open"
  BY DEF SseInit
<1>1. response \in Responses /\ Len(response) \in Nat /\ DOMAIN response = 1 .. Len(response)
      /\ \A i \in DOMAIN response : response[i].pieces \in Nat
      /\ CallParts \in SUBSET (1 .. Len(response))
  BY <1>0, ResponseFacts
<1>6. /\ \A i \in DOMAIN response : given[i] = 0 /\ given[i] <= response[i].pieces + 1
      /\ given \in [DOMAIN response -> Nat]
  BY <1>0, <1>1
<1>7. \A j \in CallParts : j \in DOMAIN response /\ ~(j <= 0)
  <2>1. CallParts \subseteq 1 .. Len(response) /\ Len(response) \in Nat /\ DOMAIN response = 1 .. Len(response)
    <3>1. response \in Responses
      BY <1>0
    <3>2. CallParts \in SUBSET (1 .. Len(response)) /\ Len(response) \in Nat
          /\ DOMAIN response = 1 .. Len(response)
      BY <3>1, ResponseFacts
    <3> QED
      BY <3>2
  <2>2. \A j \in 1 .. Len(response) : ~(j <= 0)
    OBVIOUS
  <2> QED
    BY <2>1, <2>2
<1>2. SseTypes
  BY <1>0, <1>6 DEF SseTypes
<1>3. ASSUME provider # "gemini" PROVE Assembling(asm, given)
  <2>1. \A j \in CallParts : ~(given[j] > 0)
    BY <1>6, <1>7
  <2>2. {j \in CallParts : given[j] > 0} = {}
    BY <2>1
  <2> QED
    BY <1>0, <2>1, <2>2, NothingAssembled DEF Assembling
<1>4. SentWhole(0) /\ Gathering(asm, 0, clash)
  <2>1. UpTo(CallParts, 0) = {}
    BY <1>7 DEF UpTo
  <2>2. Cardinality(UpTo(CallParts, 0)) = 0
    BY <2>1, FS_EmptySet
  <2>3. Gathering(asm, 0, clash)
    BY <1>0, <2>2, NothingAssembled DEF Gathering
  <2>4. SentWhole(0)
    BY <1>0, <1>1 DEF SentWhole
  <2> QED
    BY <2>3, <2>4
<1>5. 0 \in 0 .. Len(response)
  BY <1>1
<1> QED
  BY <1>0, <1>2, <1>3, <1>4, <1>5 DEF SseInv

(* While the response is the same, so is what its parts mean.              *)
LEMMA SameResponse ==
  ASSUME response' = response
  PROVE  /\ CallParts' = CallParts
         /\ \A n : Gathering(asm, n, clash)' <=> Gathering(asm', n, clash')
         /\ Assembling(asm, given)' <=> Assembling(asm', given')
         /\ Assemble(asm)' = Assemble(asm')
<1>1. CallParts' = CallParts
  BY DEF CallParts, IsCall
<1>2. /\ \A i : Arguments(i)' = Arguments(i)
      /\ \A i : Marshalled(i)' = Marshalled(i)
      /\ \A i : WholeCall(i)' = WholeCall(i)
      /\ \A i, n : SoFar(i, n)' = SoFar(i, n)
  BY DEF Arguments, Marshalled, WholeCall, SoFar
<1>3. /\ \A input : Unreadable(input)' <=> Unreadable(input)
      /\ \A input : ValidJson(input)' <=> ValidJson(input)
  BY <1>1, <1>2 DEF Unreadable, ValidJson
<1> QED
  BY <1>1, <1>2, <1>3 DEF Gathering, Assembling, Assembler, Assemble, Indices

(* The steps that leave the assembler alone.                               *)
LEMMA EndingStep ==
  ASSUME SseInv, UNCHANGED <<provider, response, given, asm, clash>>, finished' \in BOOLEAN,
         provider # "gemini" /\ finished' => Sent,
         provider = "gemini" /\ finished' =>
           \A n \in 0 .. Len(response) : SentWhole(n) => n = Len(response),
         \/ StreamDone /\ (provider # "gemini" => finished')
         \/ outcome' \in {"open", "error"}
  PROVE  SseInv'
<1>1. /\ provider' = provider /\ response' = response /\ given' = given /\ asm' = asm /\ clash' = clash
  OBVIOUS
<1>2. /\ CallParts' = CallParts
      /\ \A n : Gathering(asm, n, clash)' <=> Gathering(asm, n, clash)
      /\ Assembling(asm, given)' <=> Assembling(asm, given)
      /\ Assemble(asm)' = Assemble(asm)
  BY <1>1, SameResponse, Zenon
<1>3. /\ \A n : SentWhole(n)' <=> SentWhole(n)
      /\ Sent' <=> Sent
  BY <1>1, <1>2 DEF SentWhole, Sent, Whole
<1>4. outcome' \in {"open", "done", "error"} /\ (outcome' = "done" => StreamDone /\ result'.ok)
  BY DEF StreamDone
<1>5. SseTypes'
  BY <1>1, <1>4 DEF SseInv, SseTypes
<1>6. outcome' = "done" => result' = Assemble(asm)' /\ result'.ok
  BY <1>2, <1>4 DEF StreamDone
<1>7. ASSUME provider # "gemini"
      PROVE  /\ Assembling(asm, given)' /\ ~clash'
             /\ finished' => Sent'
             /\ outcome' = "done" => finished'
  BY <1>1, <1>2, <1>3, <1>4, <1>7 DEF SseInv
<1>8. ASSUME provider = "gemini"
      PROVE  \E n \in 0 .. Len(response') :
               SentWhole(n)' /\ Gathering(asm, n, clash)' /\ (finished' => n = Len(response'))
  <2>1. PICK n \in 0 .. Len(response) : SentWhole(n) /\ Gathering(asm, n, clash)
    BY <1>8 DEF SseInv
  <2>2. finished' => n = Len(response)
    BY <1>8, <2>1
  <2> QED
    BY <1>1, <1>2, <1>3, <2>1, <2>2
<1> QED
  BY <1>1, <1>5, <1>6, <1>7, <1>8 DEF SseInv

LEMMA SendChunkInv == SseInv /\ SendChunk => SseInv'
<1> SUFFICES ASSUME SseInv, SendChunk PROVE SseInv'
  OBVIOUS
<1>1. /\ provider' = provider /\ response' = response /\ finished' = finished
      /\ outcome' = outcome /\ outcome = "open" /\ ~finished
  BY DEF SendChunk
<1>2. CASE provider # "gemini"
  <2>1. SseTypes /\ Assembling(asm, given) /\ ~clash /\ clash \in BOOLEAN
    BY <1>2 DEF SseInv, SseTypes
  <2>2. /\ Assembling(asm', given') /\ clash' = clash
        /\ given' \in [DOMAIN response -> Nat]
        /\ \A i \in DOMAIN response : given'[i] <= response[i].pieces + 1
    BY <1>2, <2>1, SplitStep
  <2>3. Assembling(asm, given)'
    BY <1>1, <2>2, SameResponse
  <2>4. SseTypes'
    BY <1>1, <2>1, <2>2 DEF SseTypes
  <2> QED
    BY <1>1, <1>2, <2>1, <2>2, <2>3, <2>4 DEF SseInv
<1>3. CASE provider = "gemini"
  <2>1. PICK n \in 0 .. Len(response) : SentWhole(n) /\ Gathering(asm, n, clash)
    BY <1>3 DEF SseInv
  <2>2. PICK m \in 0 .. Len(response) :
          SentWhole(m)' /\ Gathering(asm', m, clash') /\ clash' \in BOOLEAN
    BY <1>3, <2>1, GeminiStep DEF SseInv
  <2>3. Gathering(asm, m, clash)'
    BY <1>1, <2>2, SameResponse
  <2>4. SseTypes'
    <3>1. SseTypes
      BY DEF SseInv
    <3>2. /\ given' = [i \in DOMAIN response |-> IF i <= m THEN response[i].pieces + 1 ELSE 0]
          /\ \A i \in DOMAIN response : response[i].pieces \in Nat
      BY <1>1, <2>2, <3>1, ResponseFacts DEF SentWhole, SseTypes
    <3>3. /\ given' \in [DOMAIN response -> Nat]
          /\ \A i \in DOMAIN response : given'[i] <= response[i].pieces + 1
      BY <3>2
    <3> QED
      BY <1>1, <2>2, <3>1, <3>3 DEF SseTypes
  <2>5. \E q \in 0 .. Len(response)' :
          SentWhole(q)' /\ Gathering(asm, q, clash)' /\ (finished => q = Len(response))'
    BY <1>1, <2>2, <2>3
  <2>6. provider' = "gemini" /\ outcome' # "done"
    BY <1>1, <1>3
  <2> QED
    BY <2>4, <2>5, <2>6 DEF SseInv
<1> QED
  BY <1>2, <1>3

LEMMA SseSpecInv == SseSpec => []SseInv
<1>1. SseInv /\ [SseNext]_sseVars => SseInv'
  <2> SUFFICES ASSUME SseInv, [SseNext]_sseVars PROVE SseInv'
    OBVIOUS
  <2>1. CASE SendChunk
    BY <2>1, SendChunkInv
  <2>2. /\ provider # "gemini" /\ finished => Sent
        /\ provider = "gemini" /\ finished =>
             \A n \in 0 .. Len(response) : SentWhole(n) => n = Len(response)
        /\ finished \in BOOLEAN
    <3>1. ASSUME provider = "gemini", finished, NEW n \in 0 .. Len(response), SentWhole(n)
          PROVE  n = Len(response)
      <4>1. /\ Len(response) \in Nat /\ DOMAIN response = 1 .. Len(response)
            /\ \A i \in DOMAIN response : response[i].pieces \in Nat
        BY ResponseFacts DEF SseInv, SseTypes
      <4>2. SentWhole(Len(response))
        BY <3>1 DEF SseInv
      <4> QED
        <5>0. n \in Nat /\ n <= Len(response)
          BY <3>1, <4>1
        <5>1. ASSUME n < Len(response) PROVE FALSE
          <6>1. n + 1 \in DOMAIN response /\ ~(n + 1 <= n) /\ n + 1 <= Len(response)
            BY <4>1, <5>0, <5>1
          <6>2. given[n + 1] = 0 /\ given[n + 1] = response[n + 1].pieces + 1
            BY <3>1, <4>2, <5>0, <6>1 DEF SentWhole
          <6> QED
            BY <4>1, <6>1, <6>2
        <5> QED
          <6>1. Len(response) \in Nat /\ ~(n < Len(response))
            BY <4>1, <5>1
          <6>2. \A a, b \in Nat : a <= b /\ ~(a < b) => a = b
            OBVIOUS
          <6> QED
            BY <5>0, <6>1, <6>2
    <3> QED
      BY <3>1 DEF SseInv, SseTypes
  <2>3. CASE SendEnd
    <3>1. /\ UNCHANGED <<provider, response, given, asm, clash>>
          /\ finished' = TRUE /\ finished' \in BOOLEAN /\ Sent
          /\ provider = "gemini" => outcome' = "open"
          /\ provider # "gemini" => StreamDone
          /\ provider = "gemini" => \A i \in DOMAIN response : Begun(i)
      BY <2>3 DEF SendEnd
    <3>2. ASSUME provider = "gemini", NEW n \in 0 .. Len(response), SentWhole(n)
          PROVE  n = Len(response)
      <4>1. Len(response) \in Nat /\ DOMAIN response = 1 .. Len(response)
        BY ResponseFacts DEF SseInv, SseTypes
      <4>2. CASE n < Len(response)
        <5>1. n + 1 \in DOMAIN response /\ ~(n + 1 <= n)
          BY <4>1, <4>2
        <5> QED
          BY <3>1, <3>2, <5>1 DEF SentWhole, Begun
      <4>3. Len(response) \in Nat /\ n \in 0 .. Len(response)
        BY <4>1
      <4> QED
        BY <4>2, <4>3
    <3> QED
      BY <3>1, <3>2, EndingStep
  <2>4. CASE EndOfResponse
    <3>1. /\ UNCHANGED <<provider, response, given, asm, clash>>
          /\ finished' = finished
          /\ provider = "gemini" => StreamDone
          /\ provider # "gemini" => outcome' = "error"
      BY <2>4 DEF EndOfResponse, EndsAtEOF, StreamError
    <3> QED
      BY <2>2, <3>1, EndingStep
  <2>5. CASE BadLine
    <3>1. /\ UNCHANGED <<provider, response, given, asm, clash>>
          /\ finished' = finished
          /\ outcome' = "error"
      BY <2>5 DEF BadLine, StreamError
    <3> QED
      BY <2>2, <3>1, EndingStep
  <2>6. CASE UNCHANGED sseVars
    <3>1. /\ UNCHANGED <<provider, response, given, asm, clash>>
          /\ finished' = finished /\ outcome' = outcome /\ result' = result
      BY <2>6 DEF sseVars
    <3>2. CASE outcome # "done"
      <4>1. outcome' \in {"open", "error"}
        BY <3>1, <3>2 DEF SseInv, SseTypes
      <4> QED
        BY <2>2, <3>1, <4>1, EndingStep
    <3>3. CASE outcome = "done"
      <4>1. StreamDone /\ (provider # "gemini" => finished')
        BY <3>1, <3>3 DEF SseInv, StreamDone
      <4> QED
        BY <2>2, <3>1, <4>1, EndingStep
    <3> QED
      BY <3>2, <3>3
  <2> QED
    BY <2>1, <2>3, <2>4, <2>5, <2>6 DEF SseNext
<1> QED
  BY <1>1, SseInitInv, PTL DEF SseSpec

(* Type correctness of provider streams.                                   *)
THEOREM SseTypeCorrect == SseSpec => []SseTypeOK
<1>1. SseInv => SseTypeOK
  <2> SUFFICES ASSUME SseInv PROVE SseTypeOK
    OBVIOUS
  <2>1. DOMAIN asm.acc = Range(asm.order)
    <3>1. Assembler(asm)
      BY DEF SseInv, Assembling, Gathering
    <3> QED
      BY <3>1 DEF Assembler
  <2>2. \A i \in DOMAIN response : given[i] \in 0 .. response[i].pieces + 1
    <3>1. response \in Responses
      BY DEF SseInv, SseTypes
    <3>2. \A i \in DOMAIN response : response[i].pieces \in Nat
      BY <3>1, ResponseFacts
    <3> QED
      BY <3>2 DEF SseInv, SseTypes
  <2> QED
    BY <2>1, <2>2 DEF SseInv, SseTypes, SseTypeOK
<1> QED
  BY <1>1, SseSpecInv, PTL

(* What has been assembled is what has been parsed, but for refusals.      *)
LEMMA ParsedIs ==
  ASSUME NEW calls, provider \in {"openai", "qwen", "claude"}, Parsed(calls).ok
  PROVE  Parsed(calls) = ClaudeParse(calls)
BY DEF Parsed, OpenAIParse, QwenParse, ClaudeParse

LEMMA UnmarshalledFacts ==
  ASSUME response \in Responses, NEW i \in CallParts
  PROVE  /\ Unmarshalled(Arguments(i)) = Arguments(i)
         /\ Unmarshalled(Marshalled(i)) = Arguments(i)
<1>1. i \in DOMAIN response /\ i \in Int /\ i > 0 /\ response[i].pieces \in Nat
  BY ResponseFacts
<1>2. Arguments(i) # <<Null>>
  <2> SUFFICES ASSUME Arguments(i) = <<Null>> PROVE FALSE
    OBVIOUS
  <2>1. Len(Arguments(i)) = response[i].pieces /\ \A k \in 1 .. response[i].pieces : Arguments(i)[k] = <<i, k>>
    BY <1>1, PiecesFacts
  <2>2. Len(<<Null>>) = 1 /\ <<Null>>[1] = <<0, 0>>
    BY DEF Null
  <2>3. <<i, 1>> = <<0, 0>>
    BY <1>1, <2>1, <2>2
  <2> QED
    BY <1>1, <2>3
<1>3. CASE response[i].pieces = 0
  <2>1. Arguments(i) = <<>>
    BY <1>3 DEF Arguments
  <2> QED
    BY <1>2, <1>3, <2>1 DEF Unmarshalled, Marshalled
<1>4. CASE response[i].pieces # 0
  BY <1>2, <1>4 DEF Unmarshalled, Marshalled
<1> QED
  BY <1>3, <1>4

LEMMA SplitAssembled ==
  ASSUME SseInv, provider # "gemini", outcome = "done"
  PROVE  finished /\ result = ClaudeParse(OpenedCalls)
<1>1. /\ Assembling(asm, given) /\ finished /\ Sent /\ response \in Responses
      /\ result = Assemble(asm) /\ result.ok
  BY DEF SseInv, SseTypes
<1>2. \A i \in CallParts : /\ given[i] = response[i].pieces + 1 /\ given[i] > 0 /\ given[i] - 1 = response[i].pieces
                           /\ i \in Int /\ response[i].name # NoId
  BY <1>1, ResponseFacts DEF Sent, Whole
<1>3. ASSUME NEW k \in DOMAIN asm.order
      PROVE  /\ asm.order[k] + 1 \in CallParts
             /\ asm.acc[asm.order[k]] =
                  [id |-> response[asm.order[k] + 1].name,
                   name |-> <<response[asm.order[k] + 1].name>>,
                   input |-> Arguments(asm.order[k] + 1)]
  <2>1. asm.order[k] \in Indices(asm)
    BY DEF Indices, Range
  <2>2. PICK i \in CallParts : asm.order[k] = i - 1
    BY <1>1, <2>1 DEF Assembling
  <2>3. asm.order[k] + 1 = i
    BY <1>2, <2>2
  <2>4. asm.acc[asm.order[k]] = SoFar(i, response[i].pieces)
    BY <1>1, <1>2, <2>2 DEF Assembling
  <2>5. SubSeq(Arguments(i), 1, response[i].pieces) = Arguments(i)
    <3>1. Arguments(i) \in Seq(Piece) /\ Len(Arguments(i)) = response[i].pieces
      BY <1>1, PiecesFacts, ResponseFacts
    <3> QED
      BY <3>1, SubSeqFull
  <2> QED
    BY <2>3, <2>4, <2>5 DEF SoFar
<1>4. result = [ok |-> TRUE,
        calls |-> [k \in DOMAIN asm.order |->
          LET c == asm.acc[asm.order[k]]
          IN  [id |-> IF c.id = NoId THEN <<"call", asm.order[k]>> ELSE <<c.id>>,
               name |-> c.name, input |-> Unmarshalled(c.input)]]]
  BY <1>1 DEF Assemble
<1>5. OpenedCalls = [k \in DOMAIN asm.order |-> asm.order[k] + 1]
  BY DEF OpenedCalls
<1>6. \A k \in DOMAIN asm.order : Unmarshalled(Arguments(asm.order[k] + 1)) = Arguments(asm.order[k] + 1)
  BY <1>1, <1>3, UnmarshalledFacts
<1>7. result.calls = ClaudeParse(OpenedCalls).calls
  <2> DEFINE made(k) == LET c == asm.acc[asm.order[k]]
               IN  [id |-> IF c.id = NoId THEN <<"call", asm.order[k]>> ELSE <<c.id>>,
                    name |-> c.name, input |-> Unmarshalled(c.input)]
             read(k) == [id |-> <<response[asm.order[k] + 1].name>>,
                         name |-> <<response[asm.order[k] + 1].name>>,
                         input |-> Arguments(asm.order[k] + 1)]
  <2>1. ASSUME NEW k \in DOMAIN asm.order PROVE made(k) = read(k)
    <3> DEFINE i == asm.order[k] + 1
               c == asm.acc[asm.order[k]]
    <3>1. c = [id |-> response[i].name, name |-> <<response[i].name>>, input |-> Arguments(i)]
      BY <1>3
    <3>2. response[i].name # NoId /\ Unmarshalled(Arguments(i)) = Arguments(i)
      BY <1>2, <1>3, <1>6
    <3>3. made(k) = [id |-> IF c.id = NoId THEN <<"call", asm.order[k]>> ELSE <<c.id>>,
                     name |-> c.name, input |-> Unmarshalled(c.input)]
      OBVIOUS
    <3>4. read(k) = [id |-> <<response[i].name>>, name |-> <<response[i].name>>, input |-> Arguments(i)]
      OBVIOUS
    <3> HIDE DEF c, i, made, read
    <3>5. c.id = response[i].name /\ c.name = <<response[i].name>> /\ c.input = Arguments(i)
      BY <3>1
    <3> QED
      BY <3>2, <3>3, <3>4, <3>5
  <2>2. result.calls = [k \in DOMAIN asm.order |-> made(k)]
    BY <1>4
  <2>3. ClaudeParse(OpenedCalls).calls = [k \in DOMAIN asm.order |-> read(k)]
    BY <1>5 DEF ClaudeParse
  <2> HIDE DEF made, read
  <2> QED
    BY <2>1, <2>2, <2>3
<1> QED
  BY <1>1, <1>4, <1>7 DEF ClaudeParse

LEMMA GeminiAssembled ==
  ASSUME SseInv, provider = "gemini", outcome = "done"
  PROVE  ~clash /\ (finished => WithoutIds(result.calls) = WithoutIds(GeminiParse(OpenedCalls).calls))
<1>1. response \in Responses /\ clash \in BOOLEAN /\ result = Assemble(asm) /\ result.ok
  BY DEF SseInv, SseTypes
<1>2. PICK n \in 0 .. Len(response) : Gathering(asm, n, clash) /\ (finished => n = Len(response))
  BY DEF SseInv
<1>3. ~\E i \in Range(asm.order) : asm.acc[i].input # <<>> /\ ~ValidJson(asm.acc[i].input)
  BY <1>1 DEF Assemble
<1>4. ~clash
  <2> SUFFICES ASSUME clash PROVE FALSE
    OBVIOUS
  <2>1. PICK j \in Indices(asm) : Unreadable(asm.acc[j].input)
    BY <1>2 DEF Gathering
  <2> QED
    BY <1>1, <1>3, <2>1, UnreadableIsInvalid DEF Indices
<1>5. ASSUME finished
      PROVE  WithoutIds(result.calls) = WithoutIds(GeminiParse(OpenedCalls).calls)
  <2>1. CallParts \in SUBSET (1 .. Len(response)) /\ Len(response) \in Nat
    BY <1>1, ResponseFacts
  <2>2. UpTo(CallParts, n) = CallParts
    <3>1. \A i \in 1 .. Len(response) : i <= n
      BY <1>2, <1>5, <2>1
    <3> QED
      BY <2>1, <3>1 DEF UpTo
  <2>3. /\ Len(asm.order) = Cardinality(CallParts)
        /\ \A k \in 1 .. Len(asm.order) : asm.acc[asm.order[k]] = WholeCall(Nth(CallParts, k))
        /\ asm.order \in Seq(Nat)
    BY <1>2, <1>4, <2>2 DEF Gathering, Assembler
  <2>4. DOMAIN asm.order = 1 .. Cardinality(CallParts)
    BY <2>3, LenProperties
  <2>5. \A k \in 1 .. Cardinality(CallParts) : Nth(CallParts, k) \in CallParts
    BY <2>1, NthHasRank
  <2>6. result.calls = [k \in 1 .. Cardinality(CallParts) |->
          LET c == asm.acc[asm.order[k]]
          IN  [id |-> IF c.id = NoId THEN <<"call", asm.order[k]>> ELSE <<c.id>>,
               name |-> c.name, input |-> Unmarshalled(c.input)]]
    BY <1>1, <1>3, <2>4 DEF Assemble
  <2>7. WithoutIds(result.calls) =
          [k \in 1 .. Cardinality(CallParts) |->
             [name |-> asm.acc[asm.order[k]].name,
              input |-> Unmarshalled(asm.acc[asm.order[k]].input)]]
    <3>1. DOMAIN result.calls = 1 .. Cardinality(CallParts)
      BY <2>6
    <3>2. \A k \in 1 .. Cardinality(CallParts) :
            /\ result.calls[k].name = asm.acc[asm.order[k]].name
            /\ result.calls[k].input = Unmarshalled(asm.acc[asm.order[k]].input)
      <4> DEFINE c(k) == asm.acc[asm.order[k]]
                 id(k) == IF c(k).id = NoId THEN <<"call", asm.order[k]>> ELSE <<c(k).id>>
                 name(k) == c(k).name
                 input(k) == Unmarshalled(c(k).input)
      <4>1. result.calls = [k \in 1 .. Cardinality(CallParts) |->
                              [id |-> id(k), name |-> name(k), input |-> input(k)]]
        BY <2>6
      <4> HIDE DEF id, name, input
      <4>2. \A k \in 1 .. Cardinality(CallParts) :
              result.calls[k].name = name(k) /\ result.calls[k].input = input(k)
        BY <4>1
      <4> QED
        BY <4>2 DEF name, input
    <3> QED
      BY <3>1, <3>2 DEF WithoutIds
  <2>8. OpenedCalls = [k \in 1 .. Cardinality(CallParts) |-> Nth(CallParts, k)]
    BY DEF OpenedCalls, Ascending
  <2>9. WithoutIds(GeminiParse(OpenedCalls).calls) =
          [k \in 1 .. Cardinality(CallParts) |->
             [name |-> <<response[Nth(CallParts, k)].name>>, input |-> Arguments(Nth(CallParts, k))]]
    BY <2>8 DEF WithoutIds, GeminiParse
  <2>10. ASSUME NEW k \in 1 .. Cardinality(CallParts)
         PROVE  /\ asm.acc[asm.order[k]].name = <<response[Nth(CallParts, k)].name>>
                /\ Unmarshalled(asm.acc[asm.order[k]].input) = Arguments(Nth(CallParts, k))
    <3>1. asm.acc[asm.order[k]] = WholeCall(Nth(CallParts, k))
      BY <2>3
    <3>2. /\ asm.acc[asm.order[k]].name = <<response[Nth(CallParts, k)].name>>
          /\ asm.acc[asm.order[k]].input = Marshalled(Nth(CallParts, k))
      BY <3>1 DEF WholeCall
    <3> QED
      BY <1>1, <2>5, <3>2, UnmarshalledFacts
  <2> QED
    BY <2>7, <2>9, <2>10
<1> QED
  BY <1>4, <1>5

(* However a provider's server cuts an answer into fragments and chunks    *)
(* and interleaves them, a stream that ends well has given the calls that  *)
(* parseResponse reads from the same answer: in the order in which they    *)
(* were opened, each with its whole arguments; and two calls that Gemini   *)
(* sends at one position never pass for one.                               *)
THEOREM StreamedCallsAreParsed == SseSpec => []CallsAssembled
<1>1. SseInv => CallsAssembled
  <2> SUFFICES ASSUME SseInv, outcome = "done" PROVE CallsAssembled
    BY DEF CallsAssembled
  <2>1. provider \in {"openai", "qwen", "claude", "gemini"}
    BY ResponsesAssumption DEF SseInv, SseTypes
  <2>2. CASE provider # "gemini"
    <3>1. finished /\ result = ClaudeParse(OpenedCalls) /\ ~clash
      BY <2>2, SplitAssembled DEF SseInv
    <3>2. Parsed(OpenedCalls).ok => Parsed(OpenedCalls) = ClaudeParse(OpenedCalls)
      BY <2>1, <2>2, ParsedIs
    <3> QED
      BY <2>2, <3>1, <3>2, Zenon DEF CallsAssembled
  <2>3. CASE provider = "gemini"
    <3>1. ~clash /\ (finished => WithoutIds(result.calls) = WithoutIds(GeminiParse(OpenedCalls).calls))
      BY <2>3, GeminiAssembled
    <3>2. Parsed(OpenedCalls) = GeminiParse(OpenedCalls) /\ Parsed(OpenedCalls).ok
      BY <2>3 DEF Parsed, GeminiParse
    <3> QED
      BY <2>3, <3>1, <3>2 DEF CallsAssembled
  <2> QED
    BY <2>2, <2>3
<1> QED
  BY <1>1, SseSpecInv, PTL
===============================================================================
