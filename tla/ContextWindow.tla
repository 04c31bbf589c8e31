----------------------------- MODULE ContextWindow -----------------------------
(***************************************************************************)
(* What of a conversation the model gets to see.  The runtime compacts the *)
(* conversation after each turn, by its trigger, and before a request that *)
(* exceeds the model's context limit, by force; a strategy decides what is *)
(* kept.  A transfer hands the conversation on through a filter.  A turn   *)
(* works on a copy (RuntimeState), so that a turn that fails changes       *)
(* nothing.                                                                *)
(*                                                                         *)
(* A message is its role, the turn it was part of, its place in the turn   *)
(* and its estimated tokens; the tokens of the tool definitions and of the *)
(* reserve for the answer count as part of the limits.  Strategies that an *)
(* application writes itself are not modelled.                             *)
(***************************************************************************)
EXTENDS Selections, SequencesExt

CONSTANTS
  Policies,      \* configurations: see PolicyType
  Sizes,         \* tokens of a message
  MaxTurnsTaken, \* bound: turns
  MaxExchanges,  \* bound: tool calls of a turn
  MaxTransfers,  \* bound: transfers
  Recent         \* the window of RecentWindowTransferInput

\* strategy with its maximum, the thresholds of its triggers, the context limit (0
\* for none) and the role of a summary.
PolicyType ==
  [strategy : {"none", "turnwindow", "slidingwindow", "tokenlimit", "summary"},
   keep : Nat, turns : Nat, messages : Nat, tokens : Nat, limit : Nat,
   role : {"system", "assistant"}]

ASSUME WindowAssumption ==
  /\ Policies \subseteq PolicyType /\ Sizes \subseteq Nat \ {0}
  /\ {MaxTurnsTaken, MaxExchanges, MaxTransfers, Recent} \subseteq Nat

VARIABLES
  policy,     \* the compactor and the context limit of the runtime
  prompted,   \* the active agent has a system prompt
  conv,       \* the conversation the turn works on
  saved,      \* the runtime's conversation
  log,        \* every message of conv since the last transfer, dropped or not
  savedLog,   \* the same for saved
  at,         \* "idle", "request", "respond" or "compact"
  turnNo,     \* turns begun
  exchanges,  \* tool calls of the turn
  failure,    \* why the last turn failed
  transfers   \* transfers made

windowVars ==
  <<policy, prompted, conv, saved, log, savedLog, at, turnNo, exchanges, failure, transfers>>

-------------------------------------------------------------------------------
(* Messages *)

Message ==
  [role : {"system", "user", "assistant", "tool"}, turn : Nat, place : Nat, size : Nat,
   calls : BOOLEAN, covers : SUBSET Nat]
\* What is neither prompt nor summary.
Plain ==
  [role : {"user", "assistant", "tool"}, turn : Nat, place : Nat, size : Nat,
   calls : BOOLEAN, covers : {{}}]

Msg(role, place, size, calls) ==
  [role |-> role, turn |-> turnNo, place |-> place, size |-> size, calls |-> calls, covers |-> {}]
Prompt ==
  [role |-> "system", turn |-> 0, place |-> 0, size |-> 1, calls |-> FALSE, covers |-> {}]
SummaryOf(turns) ==
  [role |-> policy.role, turn |-> 0, place |-> 1, size |-> 1, calls |-> FALSE, covers |-> turns]
IsSummary(m) == m.covers # {}

Systems(messages) == Select(messages, {i \in DOMAIN messages : messages[i].role = "system"})
Others(messages) == Select(messages, {i \in DOMAIN messages : messages[i].role # "system"})
PlainOf(messages) ==
  Select(messages,
    {i \in DOMAIN messages : messages[i].role # "system" /\ ~IsSummary(messages[i])})
TurnsIn(messages) == UNION {{m.turn} \cup m.covers : m \in Range(messages)}

\* EstimatePromptTokens
Estimate(messages) ==
  LET total[n \in 0 .. Len(messages)] ==
        IF n = 0 THEN 0 ELSE total[n - 1] + messages[n].size
  IN  total[Len(messages)]

-------------------------------------------------------------------------------
(* Triggers *)

Users(messages) == {i \in DOMAIN messages : messages[i].role = "user"}
CountTurns(messages) == Cardinality(Users(messages))

\* AnyTrigger of the three, each off at 0.
ShouldCompact(messages) ==
  \/ policy.turns > 0 /\ CountTurns(messages) > policy.turns
  \/ policy.messages > 0 /\ Len(messages) > policy.messages
  \/ policy.tokens > 0 /\ Estimate(messages) > policy.tokens

-------------------------------------------------------------------------------
(* Strategies: the messages that are kept, or an error *)

Keep(messages) == [ok |-> TRUE, messages |-> messages]
Refuse == [ok |-> FALSE, messages |-> <<>>]

\* splitTurns: a turn begins at a message of the user, and at the first message.
Starts(others) == {i \in DOMAIN others : i = 1 \/ others[i].role = "user"}

\* Mutant: a window of turns that is counted in messages.
MutantLastTurns(others, k) == SubSeq(others, Len(others) - k + 1, Len(others))

\* The last k turns.
LastTurns(others, k) ==
  LET starts == Starts(others)
  IN  SubSeq(others, Nth(starts, Cardinality(starts) - k + 1), Len(others))

TurnWindow(messages) ==
  LET others == Others(messages)
  IN  IF policy.keep = 0 \/ Cardinality(Starts(others)) <= policy.keep THEN Keep(messages)
      ELSE Keep(Systems(messages) \o LastTurns(others, policy.keep))

\* The system messages count: what is left of the window is for the others.
SlidingWindow(messages) ==
  LET systems == Systems(messages)
      others == Others(messages)
      kept == policy.keep - Len(systems)
  IN  IF policy.keep = 0 \/ Len(messages) <= policy.keep THEN Keep(messages)
      ELSE IF Len(systems) > policy.keep THEN Refuse
      ELSE Keep(systems \o IF Len(others) <= kept THEN others
                           ELSE SubSeq(others, Len(others) - kept + 1, Len(others)))

\* dropOldestTurn n times: from a message of the user to the next one; what comes
\* before the first is not dropped.
DropTurns(messages, n) ==
  LET users == Users(messages)
  IN  IF n = 0 THEN messages
      ELSE SubSeq(messages, 1, Nth(users, 1) - 1) \o
           IF n = Cardinality(users) THEN <<>>
           ELSE SubSeq(messages, Nth(users, n + 1), Len(messages))

TokenLimit(messages) ==
  LET fits == {n \in 0 .. CountTurns(messages) :
                 Estimate(DropTurns(messages, n)) <= policy.keep}
  IN  IF policy.keep = 0 THEN Keep(messages)
      ELSE IF fits = {} THEN Refuse
      ELSE Keep(DropTurns(messages, CHOOSE n \in fits : \A m \in fits : n <= m))

\* partitionSystemMessages takes earlier summaries out of the system messages and
\* summarize merges them with the older turns; a summary of another role is a turn
\* to it.  A summarizer of the application may fail; its text is assumed
\* not to be empty.
Summary(messages, works) ==
  LET others == Others(messages)
      all == Systems(messages)
      summaries == {i \in DOMAIN all : IsSummary(all[i]) /\ all[i].role = policy.role}
      prior == Select(all, summaries)
      systems == Select(all, DOMAIN all \ summaries)
      recent == LastTurns(others, policy.keep)
      older == SubSeq(others, 1, Len(others) - Len(recent))
  IN  IF policy.keep = 0 \/ Cardinality(Starts(others)) <= policy.keep THEN Keep(messages)
      ELSE IF ~works THEN Refuse
      ELSE Keep(Append(systems, SummaryOf(TurnsIn(prior \o older) \ {0})) \o recent)

Strategy(messages, works) ==
  CASE policy.strategy = "turnwindow" -> TurnWindow(messages)
    [] policy.strategy = "slidingwindow" -> SlidingWindow(messages)
    [] policy.strategy = "tokenlimit" -> TokenLimit(messages)
    [] policy.strategy = "summary" -> Summary(messages, works)

-------------------------------------------------------------------------------
(* Turns *)

WindowInit ==
  /\ policy \in Policies
  /\ prompted \in BOOLEAN
  /\ saved = IF prompted THEN <<Prompt>> ELSE <<>>
  /\ conv = saved
  /\ log = <<>> /\ savedLog = <<>>
  /\ at = "idle"
  /\ turnNo = 0 /\ exchanges = 0 /\ transfers = 0
  /\ failure = "none"

BeginTurn ==
  /\ at = "idle" /\ turnNo < MaxTurnsTaken
  /\ turnNo' = turnNo + 1
  /\ \E size \in Sizes :
       LET query == [Msg("user", 1, size, FALSE) EXCEPT !.turn = turnNo + 1]
       IN  conv' = Append(saved, query) /\ log' = Append(savedLog, query)
  /\ at' = "request"
  /\ exchanges' = 0
  /\ failure' = "none"
  /\ UNCHANGED <<policy, prompted, saved, savedLog, transfers>>

\* The turn's copy of the conversation is dropped.
Fail(reason) ==
  /\ conv' = saved /\ log' = savedLog
  /\ at' = "idle"
  /\ failure' = reason

\* A result of the same length is not a compaction and is left aside, in both uses.
Compacted(out, messages) == IF Len(out) # Len(messages) THEN out ELSE messages

\* shouldForcePreflightCompaction
TooLarge(messages) == policy.limit > 0 /\ Estimate(messages) > policy.limit

\* ensureSingleSystemMessage, then the request.
Send(messages) ==
  IF Len(Systems(messages)) > 1 THEN Fail("systems")
  ELSE conv' = messages /\ at' = "respond" /\ UNCHANGED <<log, failure>>

\* prepareMessagesForRequest
Request ==
  /\ at = "request"
  /\ IF ~TooLarge(conv) THEN Send(conv)
     ELSE IF policy.strategy = "none" THEN Fail("no compactor")
     ELSE \E works \in BOOLEAN :
            LET out == Strategy(conv, works)
            IN  IF ~out.ok THEN Fail("compactor")
                ELSE IF TooLarge(Compacted(out.messages, conv)) THEN Fail("limit")
                ELSE Send(Compacted(out.messages, conv))
  /\ UNCHANGED <<policy, prompted, saved, savedLog, turnNo, exchanges, transfers>>

\* The model calls a tool and gets its result, or answers, or the turn fails.
Say(messages) == conv' = conv \o messages /\ log' = log \o messages /\ UNCHANGED failure

CallTool ==
  /\ at = "respond" /\ exchanges < MaxExchanges
  /\ \E size \in Sizes :
       Say(<<Msg("assistant", 2 * exchanges + 2, 1, TRUE),
             Msg("tool", 2 * exchanges + 3, size, FALSE)>>)
  /\ exchanges' = exchanges + 1
  /\ at' = "request"
  /\ UNCHANGED <<policy, prompted, saved, savedLog, turnNo, transfers>>

Answer ==
  /\ at = "respond"
  /\ Say(<<Msg("assistant", 2 * exchanges + 2, 1, FALSE)>>)
  /\ at' = "compact"
  /\ UNCHANGED <<policy, prompted, saved, savedLog, turnNo, exchanges, transfers>>

TurnFails ==
  /\ at = "respond"
  /\ Fail("other")
  /\ UNCHANGED <<policy, prompted, saved, savedLog, turnNo, exchanges, transfers>>

\* The turn is saved and published as it then is.
Save(messages) ==
  /\ conv' = messages /\ saved' = messages
  /\ savedLog' = log
  /\ at' = "idle"
  /\ UNCHANGED <<log, failure>>

\* compactConversation, and the end of the turn.
CompactAndSave ==
  /\ at = "compact"
  /\ IF policy.strategy = "none" \/ ~ShouldCompact(conv) THEN Save(conv)
     ELSE \E works \in BOOLEAN :
            LET out == Strategy(conv, works)
            IN  IF out.ok THEN Save(Compacted(out.messages, conv))
                ELSE Fail("compactor") /\ UNCHANGED <<saved, savedLog>>
  /\ UNCHANGED <<policy, prompted, turnNo, exchanges, transfers>>

-------------------------------------------------------------------------------
(* Transfers *)

\* The filters of transfer_input.go.
RemoveTools(messages) ==
  Select(messages, {i \in DOMAIN messages : messages[i].role # "tool" /\ ~messages[i].calls})
RecentWindow(messages) ==
  LET others == Others(messages)
  IN  Systems(messages) \o
      IF Len(others) <= Recent THEN others ELSE SubSeq(others, Len(others) - Recent + 1, Len(others))
NestHistory(messages) ==
  LET others == Others(messages)
  IN  IF others = <<>> THEN Systems(messages)
      ELSE Append(Systems(messages), [Msg("assistant", 0, 1, FALSE) EXCEPT !.turn = 0])

\* withAgentSystemPrompt: the target's prompt in place of every system message, a
\* summary among them.
WithPrompt(messages, prompt) ==
  (IF prompt THEN <<Prompt>> ELSE <<>>) \o Others(messages)

\* ApplyTransfer with one of the filters, to an agent with or without a prompt.
Transfer ==
  /\ at = "idle" /\ transfers < MaxTransfers /\ turnNo > 0
  /\ \E prompt \in BOOLEAN :
     \E filtered \in {saved, RemoveTools(saved), RecentWindow(saved), NestHistory(saved)} :
       /\ prompted' = prompt
       /\ saved' = WithPrompt(filtered, prompt)
  /\ conv' = saved'
  /\ savedLog' = PlainOf(saved')
  /\ log' = savedLog'
  /\ transfers' = transfers + 1
  /\ UNCHANGED <<policy, at, turnNo, exchanges, failure>>

WindowNext ==
  \/ BeginTurn \/ Request \/ CallTool \/ Answer \/ TurnFails \/ CompactAndSave
  \/ Transfer

WindowSpec == WindowInit /\ [][WindowNext]_windowVars

-------------------------------------------------------------------------------
(* Properties *)

\* Type invariant: the turn, and the conversations with their logs.  A log has neither
\* prompt nor summary.
TurnTypeOK ==
  /\ policy \in Policies /\ prompted \in BOOLEAN
  /\ at \in {"idle", "request", "respond", "compact"}
  /\ failure \in {"none", "systems", "no compactor", "compactor", "limit", "other"}
  /\ turnNo \in 0 .. MaxTurnsTaken /\ exchanges \in 0 .. MaxExchanges
WindowTypeOK ==
  /\ TurnTypeOK
  /\ {conv, saved} \subseteq Seq(Message)
  /\ {log, savedLog} \subseteq Seq(Plain)

Kept == Select(conv, {i \in DOMAIN conv : conv[i] # Prompt /\ ~IsSummary(conv[i])})
Turns(messages) == {m.turn : m \in Range(messages)}
OfTurn(messages, t) == Select(messages, {i \in DOMAIN messages : messages[i].turn = t})
\* The turns the summaries of the conversation cover.
Covered == UNION {m.covers : m \in Range(conv)}

\* What precedes the first query, and what follows it.
Leading(messages) ==
  IF Users(messages) = {} THEN messages ELSE SubSeq(messages, 1, Nth(Users(messages), 1) - 1)
FromQuery(messages) ==
  IF Users(messages) = {} THEN <<>>
  ELSE SubSeq(messages, Nth(Users(messages), 1), Len(messages))

\* tokenlimit drops the turn that is running too, when the compaction of its own
\* request finds no room for it; what the turn says after that is left behind its
\* query, and like anything before the first query it is never dropped again.
LeftBehind == SubSeq(Leading(Kept), Len(Leading(log)) + 1, Len(Leading(Kept)))
LeftBefore(t) == Select(LeftBehind, {i \in DOMAIN LeftBehind : LeftBehind[i].turn < t})

\* A turn that is too large for tokenlimit, alone with the prompt and what it never
\* drops.
Oversized(t) ==
  Estimate(Leading(log) \o LeftBefore(t) \o OfTurn(log, t)) + (IF prompted THEN 1 ELSE 0)
    > policy.keep

\* The whole turns that tokenlimit keeps are the latest, and those that have lost
\* their query, or left nothing after it, were too large.
KeptWithinLimit ==
  /\ IsPrefix(Leading(log), Leading(Kept)) /\ IsSuffix(FromQuery(Kept), log)
  /\ \A i \in Users(Kept) : OfTurn(Kept, Kept[i].turn) = OfTurn(log, Kept[i].turn)
  /\ \A t \in Turns(LeftBehind) :
       Oversized(t) /\ IsSuffix(OfTurn(LeftBehind, t), OfTurn(log, t))
  /\ FromQuery(Kept) = <<>> /\ FromQuery(log) # <<>> =>
       \E u \in Turns(log) : Oversized(u) /\ \A t \in Turns(log) : t <= u

\* Whatever the order of turns, tool calls, failures, forced and triggered
\* compactions and transfers, the conversation keeps the agent's prompt, first and
\* once.  What turnwindow, slidingwindow and summary keep besides is the end of what
\* was said since the last transfer, with turnwindow and summary in whole turns, and
\* the turns that summary does not keep are those its summaries cover; slidingwindow
\* may cut anywhere.  tokenlimit keeps what precedes the first query and the latest
\* turns, whole if it keeps their query; a turn it keeps without its query, and a
\* last turn it does not keep, had no room even alone, and of the former it keeps the
\* end (Strategy.Compact of the four strategies, prepareMessagesForRequest,
\* compactConversation).
WindowKeepsTurns ==
  /\ IF prompted THEN conv # <<>> /\ Head(conv) = Prompt /\ Prompt \notin Range(Tail(conv))
     ELSE Prompt \notin Range(conv)
  /\ IF policy.strategy = "tokenlimit" THEN KeptWithinLimit ELSE IsSuffix(Kept, log)
  /\ policy.strategy \in {"turnwindow", "summary"} =>
       \A t \in Turns(Kept) : OfTurn(Kept, t) = OfTurn(log, t)
  /\ policy.strategy = "summary" =>
       /\ Turns(log) \ Turns(Kept) \subseteq Covered \cup {0}
       /\ Turns(Kept) \cap Covered = {}

\* tokenlimit keeps no message of a turn without the query of that turn.
\* docs/compaction.md:288 says that it "does not split a turn across a user query
\* boundary", docs/compaction.md:302 that dropping whole turns "avoids orphaned tool
\* results or assistant replies without the user query that caused them"
\* (dropOldestTurn, hasDroppableTurns, prepareMessagesForRequest).
QueriesKept ==
  policy.strategy = "tokenlimit" =>
    \A i \in Users(log) : log[i].turn \in Turns(Kept) => log[i] \in Range(Kept)

\* A conversation that compaction has made smaller can go on: no request is ever
\* refused for the system messages it has.  docs/compaction.md:230 says of
\* summary that it "preserves all `system` messages", docs/compaction.md:233 that it
\* "inserts that summary message before the recent retained turns", which by default is
\* a second system message (Strategy.Compact of summary, ensureSingleSystemMessage).
SessionGoesOn == failure # "systems"
===============================================================================
