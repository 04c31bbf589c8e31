------------------------------ MODULE SseEvents ------------------------------
(***************************************************************************)
(* What a streamed response becomes: the lines a provider's server sends,  *)
(* the events readSSE of that provider makes of them, and the tool calls   *)
(* ToolCallAssembler puts together from the events, next to the calls      *)
(* parseResponse reads from the same response when it is not streamed.     *)
(* Channels keep the order of events (StreamPipe), so that a line, its     *)
(* events and what executeStreamingStep does with them are one action.     *)
(*                                                                         *)
(* A response is a sequence of parts, texts and calls; the arguments of a  *)
(* call are the sequence of the pieces its JSON may be cut into, and are   *)
(* valid JSON when they are all the pieces of one call.                    *)
(***************************************************************************)
EXTENDS Selections, Functions

CONSTANTS
  Providers,   \* a subset of "openai", "qwen", "claude", "gemini"
  Names,       \* tool names, also the ids their calls are given
  Responses,   \* the parts of a response: Text, or [name, pieces]
  NoId         \* the id of a fragment that has none

Text == [name |-> NoId, pieces |-> 0]
IsCall(part) == part # Text

ASSUME ResponsesAssumption ==
  /\ Providers \subseteq {"openai", "qwen", "claude", "gemini"}
  /\ NoId \notin Names
  /\ Responses \subseteq Seq([name : Names, pieces : Nat] \cup {Text})

VARIABLES
  provider,   \* whose server answers
  response,   \* the parts of its answer
  given,      \* pieces of each part sent so far, counting the part's opening
  finished,   \* the whole answer has been sent
  asm,        \* ToolCallAssembler: order and accumulators
  clash,      \* two calls have come under one index
  outcome,    \* "open", "done" or "error"
  result      \* what Assemble returned at Done

sseVars == <<provider, response, given, finished, asm, clash, outcome, result>>

-------------------------------------------------------------------------------
(* ToolCallAssembler *)

NoCalls == [order |-> <<>>, acc |-> <<>>]
Fragment(index, id, name, input) ==
  [kind |-> "tool", index |-> index, id |-> id, name |-> name, input |-> input]

\* Mutant: a later fragment of a call takes the place of its arguments.
MutantAddFragment(a, f) ==
  LET old == IF f.index \in Range(a.order) THEN a.acc[f.index]
             ELSE [id |-> NoId, name |-> <<>>, input |-> <<>>]
      new == [id |-> IF f.id = NoId THEN old.id ELSE f.id,
              name |-> old.name \o f.name, input |-> f.input]
  IN  [order |-> IF f.index \in Range(a.order) THEN a.order ELSE Append(a.order, f.index),
       acc |-> [i \in Range(a.order) \cup {f.index} |-> IF i = f.index THEN new ELSE a.acc[i]]]

\* AddFragment: calls in the order of their first fragments, an id replaces an
\* earlier one, names and arguments are concatenated.
AddFragment(a, f) ==
  LET old == IF f.index \in Range(a.order) THEN a.acc[f.index]
             ELSE [id |-> NoId, name |-> <<>>, input |-> <<>>]
      new == [id |-> IF f.id = NoId THEN old.id ELSE f.id,
              name |-> old.name \o f.name, input |-> old.input \o f.input]
  IN  [order |-> IF f.index \in Range(a.order) THEN a.order ELSE Append(a.order, f.index),
       acc |-> [i \in Range(a.order) \cup {f.index} |-> IF i = f.index THEN new ELSE a.acc[i]]]

\* The arguments of a part, as their pieces.
Arguments(i) == [k \in 1 .. response[i].pieces |-> <<i, k>>]
CallParts == {i \in DOMAIN response : IsCall(response[i])}
\* The JSON of no arguments, which Gemini's readSSE makes when it marshals a nil map.
Null == <<0, 0>>
Marshalled(i) == IF response[i].pieces = 0 THEN <<Null>> ELSE Arguments(i)

ValidJson(input) == input = <<Null>> \/ \E i \in CallParts : input = Arguments(i)
Unmarshalled(input) == IF input = <<Null>> THEN <<>> ELSE input

\* Assemble: no arguments are no input, invalid ones an error, and a call without
\* an id is named after its index.
Assemble(a) ==
  IF \E i \in Range(a.order) : a.acc[i].input # <<>> /\ ~ValidJson(a.acc[i].input)
  THEN [ok |-> FALSE, calls |-> <<>>]
  ELSE [ok |-> TRUE,
        calls |-> [k \in DOMAIN a.order |->
          LET c == a.acc[a.order[k]]
          IN  [id |-> IF c.id = NoId THEN <<"call", a.order[k]>> ELSE <<c.id>>,
               name |-> c.name, input |-> Unmarshalled(c.input)]]]

-------------------------------------------------------------------------------
(* The lines of the providers.  A chunk is the sequence of fragments it carries; *)
(* text and usage events pass through and have no part in what follows.         *)

Begun(i) == given[i] > 0
Whole(i) == given[i] = response[i].pieces + 1

\* What the next line can say of call i: its opening, with id and name and perhaps
\* the first piece of its arguments, or the next piece.
Openings(i, id) ==
  {Fragment(i - 1, id, <<response[i].name>>, SubSeq(Arguments(i), 1, n)) :
     n \in {0} \cup (1 .. response[i].pieces \cap {1})}
NextPiece(i) == Fragment(i - 1, NoId, <<>>, <<Arguments(i)[given[i]]>>)

\* OpenAI: fragments of the calls in any order of the calls, one or two in a chunk.
OpenAIDeltas(i) ==
  IF ~Begun(i) THEN Openings(i, response[i].name)
  ELSE IF Whole(i) THEN {} ELSE {NextPiece(i)}
OpenAIChunks ==
  (UNION {{<<f>> : f \in OpenAIDeltas(i)} : i \in CallParts}) \cup
  (UNION {UNION {{<<f, g>> : f \in OpenAIDeltas(i), g \in OpenAIDeltas(j)} :
                   j \in {k \in CallParts : i < k}} : i \in CallParts})

\* Qwen speaks the protocol of OpenAI.
QwenChunks == OpenAIChunks

\* Claude: content blocks one after the other, content_block_start without arguments
\* and then one input_json_delta per piece.
ClaudeChunks ==
  UNION {IF \E j \in CallParts : j < i /\ ~Whole(j) THEN {}
         ELSE IF ~Begun(i) THEN {<<Fragment(i - 1, response[i].name, <<response[i].name>>, <<>>)>>}
         ELSE IF Whole(i) THEN {} ELSE {<<NextPiece(i)>>} : i \in CallParts}

\* Gemini: whole parts, without ids, under their position in the chunk.
GeminiChunks ==
  LET begun == {i \in DOMAIN response : Begun(i)}
      from == Cardinality(begun) + 1
  IN  {[k \in 1 .. n |->
          LET i == from + k - 1
          IN  IF IsCall(response[i])
              THEN Fragment(k - 1, NoId, <<response[i].name>>, Marshalled(i))
              ELSE [kind |-> "text", index |-> i - 1]] :
        n \in 1 .. Len(response) + 1 - from}

ChunkSet ==
  CASE provider = "openai" -> OpenAIChunks
    [] provider = "qwen" -> QwenChunks
    [] provider = "claude" -> ClaudeChunks
    [] provider = "gemini" -> GeminiChunks

\* The part a fragment belongs to, and the pieces of it that have been sent with it.
PartOf(f, position) ==
  IF provider = "gemini"
  THEN Cardinality({i \in DOMAIN response : Begun(i)}) + position
  ELSE f.index + 1
GivenBy(f, i) ==
  IF provider = "gemini" THEN response[i].pieces + 1
  ELSE given[i] + Len(f.input) + (IF Begun(i) THEN 0 ELSE 1)

\* executeStreamingStep hands the fragments among its events to the assembler, one
\* after the other.
HandleEvent(a, event) == IF event.kind = "tool" THEN AddFragment(a, event) ELSE a
HandleEvents(a, events) ==
  LET after[n \in 0 .. Len(events)] ==
        IF n = 0 THEN a ELSE HandleEvent(after[n - 1], events[n])
  IN  after[Len(events)]

\* readSSE makes events of a chunk.
SendChunk ==
  /\ outcome = "open" /\ ~finished
  /\ \E chunk \in ChunkSet :
       LET touched == {PartOf(chunk[k], k) : k \in DOMAIN chunk}
       IN  /\ asm' = HandleEvents(asm, chunk)
           /\ given' = [i \in DOMAIN response |->
                IF i \in touched
                THEN LET k == CHOOSE q \in DOMAIN chunk : PartOf(chunk[q], q) = i
                     IN  GivenBy(chunk[k], i)
                ELSE given[i]]
           /\ clash' = (clash \/ \E f \in Range(chunk) :
                          f.kind = "tool" /\ f.name # <<>> /\ f.index \in Range(asm.order))
  /\ UNCHANGED <<provider, response, finished, outcome, result>>

\* EventDone: the calls are assembled, or their arguments are not JSON.
StreamDone ==
  /\ result' = Assemble(asm)
  /\ outcome' = IF result'.ok THEN "done" ELSE "error"
StreamError == outcome' = "error" /\ UNCHANGED result

Sent == \A i \in CallParts : Whole(i)

\* The server's end mark: [DONE], message_stop; Gemini has none.
SendEnd ==
  /\ outcome = "open" /\ ~finished /\ Sent
  /\ provider = "gemini" => \A i \in DOMAIN response : Begun(i)
  /\ finished' = TRUE
  /\ IF provider = "gemini" THEN UNCHANGED <<outcome, result>> ELSE StreamDone
  /\ UNCHANGED <<provider, response, given, asm, clash>>

\* readSSE after its loop: only Gemini's says Done at the end of the response.
EndsAtEOF == provider = "gemini"

\* The response ends, wherever it is: sse.ReadLine reports io.EOF.
EndOfResponse ==
  /\ outcome = "open"
  /\ IF EndsAtEOF THEN StreamDone ELSE StreamError
  /\ UNCHANGED <<provider, response, given, finished, asm, clash>>

\* A line that is no JSON, too long, an error event of Claude, or a read that fails.
BadLine ==
  /\ outcome = "open"
  /\ StreamError
  /\ UNCHANGED <<provider, response, given, finished, asm, clash>>

SseInit ==
  /\ provider \in Providers
  /\ response \in Responses
  /\ given = [i \in DOMAIN response |-> 0]
  /\ finished = FALSE
  /\ asm = NoCalls
  /\ clash = FALSE
  /\ outcome = "open"
  /\ result = [ok |-> FALSE, calls |-> <<>>]

SseNext == SendChunk \/ SendEnd \/ EndOfResponse \/ BadLine

SseSpec == SseInit /\ [][SseNext]_sseVars

-------------------------------------------------------------------------------
(* The same response, not streamed *)

\* parseResponse of OpenAI, which unmarshals arguments even when there are none.
OpenAIParse(calls) ==
  IF \E k \in DOMAIN calls : response[calls[k]].pieces = 0
  THEN [ok |-> FALSE, calls |-> <<>>]
  ELSE [ok |-> TRUE,
        calls |-> [k \in DOMAIN calls |->
          [id |-> <<response[calls[k]].name>>, name |-> <<response[calls[k]].name>>,
           input |-> Arguments(calls[k])]]]
QwenParse(calls) == OpenAIParse(calls)

\* parseResponse of Claude: the input of a block is JSON already.
ClaudeParse(calls) ==
  [ok |-> TRUE,
   calls |-> [k \in DOMAIN calls |->
     [id |-> <<response[calls[k]].name>>, name |-> <<response[calls[k]].name>>,
      input |-> Arguments(calls[k])]]]

\* parseResponse of Gemini: the id is the position among all parts.
GeminiParse(calls) ==
  [ok |-> TRUE,
   calls |-> [k \in DOMAIN calls |->
     [id |-> <<"call", calls[k] - 1>>, name |-> <<response[calls[k]].name>>,
      input |-> Arguments(calls[k])]]]

Parsed(calls) ==
  CASE provider = "openai" -> OpenAIParse(calls)
    [] provider = "qwen" -> QwenParse(calls)
    [] provider = "claude" -> ClaudeParse(calls)
    [] provider = "gemini" -> GeminiParse(calls)

-------------------------------------------------------------------------------
(* Properties *)

\* Type invariant.
SseTypeOK ==
  /\ provider \in Providers /\ response \in Responses
  /\ \A i \in DOMAIN response : given[i] \in 0 .. response[i].pieces + 1
  /\ DOMAIN asm.acc = Range(asm.order)
  /\ outcome \in {"open", "done", "error"}

\* The calls in the order in which they were opened.
OpenedCalls ==
  IF provider = "gemini" THEN Ascending(CallParts)
  ELSE [k \in DOMAIN asm.order |-> asm.order[k] + 1]

WithoutIds(calls) == [k \in DOMAIN calls |-> [name |-> calls[k].name, input |-> calls[k].input]]

\* A stream that succeeds gives the tool calls the same response gives when it is
\* not streamed, however the server cuts them up and interleaves them, and only
\* after the whole answer.  The exceptions are the code's: a call without arguments,
\* which OpenAI's and Qwen's parseResponse refuse; Gemini's made-up ids, and its
\* streams that are cut off between two chunks, which pass for complete; and
\* Gemini's calls that come in different chunks at one position, which the assembler
\* takes for one call: such a stream never succeeds (readSSE, AddFragment, Assemble).
CallsAssembled ==
  outcome = "done" =>
    /\ provider # "gemini" => finished
    /\ ~clash
    /\ finished => LET parsed == Parsed(OpenedCalls)
       IN  /\ WithoutIds(result.calls) =
                WithoutIds(IF parsed.ok THEN parsed.calls ELSE ClaudeParse(OpenedCalls).calls)
           /\ provider # "gemini" /\ parsed.ok => result = parsed
===============================================================================
