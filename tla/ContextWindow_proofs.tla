------------------------- MODULE ContextWindow_proofs -------------------------
(***************************************************************************)
(* What the strategies keep of a conversation, for every policy, number of *)
(* turns and size of message.  A conversation is always the prompt, at     *)
(* most one summary and a part of the log; which part is the invariant     *)
(* Win, by strategy.  The lemmas on sequences come first: what a selection *)
(* of a concatenation is, and where a sequence may be cut.  Then each      *)
(* strategy and each filter of a transfer is shown to keep Win, and Win to *)
(* imply the property.                                                     *)
(***************************************************************************)
EXTENDS ContextWindow, Selections_proofs

(* What is in a sequence: the messages of it that are in a set.            *)
Those(s, A) == Select(s, {i \in DOMAIN s : s[i] \in A})

LEMMA CatTypes ==
  ASSUME NEW S, NEW s \in Seq(S), NEW t \in Seq(S)
  PROVE  /\ Cat(s, t) \in Seq(S) /\ Len(Cat(s, t)) = Len(s) + Len(t)
         /\ Len(s) \in Nat /\ Len(t) \in Nat
         /\ DOMAIN s = 1 .. Len(s) /\ DOMAIN t = 1 .. Len(t)
         /\ DOMAIN Cat(s, t) = 1 .. Len(s) + Len(t)
<1>1. s \o t \in Seq(S) /\ Len(s \o t) = Len(s) + Len(t)
  BY ConcatProperties
<1>2. Len(s) \in Nat /\ Len(t) \in Nat
  OBVIOUS
<1> QED
  BY <1>1, <1>2, LenProperties DEF Cat

LEMMA CatElements ==
  ASSUME NEW S, NEW s \in Seq(S), NEW t \in Seq(S)
  PROVE  /\ \A i \in 1 .. Len(s) : Cat(s, t)[i] = s[i]
         /\ \A i \in 1 .. Len(t) : Cat(s, t)[Len(s) + i] = t[i]
<1>1. \A i \in 1 .. Len(s) + Len(t) : (s \o t)[i] = IF i <= Len(s) THEN s[i] ELSE t[i - Len(s)]
  BY ConcatProperties
<1>2. Len(s) \in Nat /\ Len(t) \in Nat
  OBVIOUS
<1> QED
  BY <1>1, <1>2 DEF Cat

LEMMA RangeOfCat ==
  ASSUME NEW S, NEW s \in Seq(S), NEW t \in Seq(S)
  PROVE  Range(Cat(s, t)) = Range(s) \cup Range(t)
<1>1. /\ Len(s) \in Nat /\ Len(t) \in Nat
      /\ DOMAIN s = 1 .. Len(s) /\ DOMAIN t = 1 .. Len(t)
      /\ DOMAIN Cat(s, t) = 1 .. Len(s) + Len(t)
      /\ \A i \in 1 .. Len(s) : Cat(s, t)[i] = s[i]
      /\ \A i \in 1 .. Len(t) : Cat(s, t)[Len(s) + i] = t[i]
  <2>1. /\ Len(s) \in Nat /\ Len(t) \in Nat
        /\ DOMAIN s = 1 .. Len(s) /\ DOMAIN t = 1 .. Len(t)
        /\ DOMAIN Cat(s, t) = 1 .. Len(s) + Len(t)
    BY CatTypes
  <2>2. /\ \A i \in 1 .. Len(s) : Cat(s, t)[i] = s[i]
        /\ \A i \in 1 .. Len(t) : Cat(s, t)[Len(s) + i] = t[i]
    BY CatElements
  <2> QED
    BY <2>1, <2>2
<1> DEFINE r == Cat(s, t)
<1> HIDE DEF r
<1>2. ASSUME NEW m \in Range(r) PROVE m \in Range(s) \cup Range(t)
  <2>1. PICK i \in 1 .. Len(s) + Len(t) : r[i] = m
    BY <1>1 DEF Range, r
  <2>2. CASE i <= Len(s)
    BY <1>1, <2>1, <2>2 DEF Range, r
  <2>3. CASE ~(i <= Len(s))
    <3>1. i - Len(s) \in 1 .. Len(t) /\ i = Len(s) + (i - Len(s))
      BY <1>1, <2>3
    <3>2. r[i] = t[i - Len(s)]
      BY <1>1, <3>1 DEF r
    <3> QED
      BY <1>1, <2>1, <3>1, <3>2 DEF Range
  <2> QED
    BY <2>2, <2>3
<1>3. ASSUME NEW m \in Range(s) PROVE m \in Range(r)
  <2>1. PICK i \in 1 .. Len(s) : s[i] = m
    BY <1>1 DEF Range
  <2>2. i \in 1 .. Len(s) + Len(t) /\ r[i] = m
    BY <1>1, <2>1 DEF r
  <2> QED
    BY <1>1, <2>2 DEF Range, r
<1>4. ASSUME NEW m \in Range(t) PROVE m \in Range(r)
  <2>1. PICK i \in 1 .. Len(t) : t[i] = m
    BY <1>1 DEF Range
  <2>2. Len(s) + i \in 1 .. Len(s) + Len(t) /\ r[Len(s) + i] = m
    BY <1>1, <2>1 DEF r
  <2> QED
    BY <1>1, <2>2 DEF Range, r
<1>5. Range(r) = Range(s) \cup Range(t)
  BY <1>2, <1>3, <1>4
<1> QED
  BY <1>5 DEF r

LEMMA ThoseFacts ==
  ASSUME NEW S, NEW s \in Seq(S), NEW A
  PROVE  /\ Those(s, A) \in Seq(S)
         /\ Those(s, A) \in Seq(A)
         /\ \E f \in [1 .. Len(Those(s, A)) -> 1 .. Len(s)] :
              /\ \A k \in 1 .. Len(Those(s, A)) : Those(s, A)[k] = s[f[k]]
              /\ \A k, l \in 1 .. Len(Those(s, A)) : k < l => f[k] < f[l]
<1> DEFINE I == {i \in DOMAIN s : s[i] \in A}
           r == Those(s, A)
           f == [k \in 1 .. Cardinality(I) |-> Nth(I, k)]
<1>1. DOMAIN s = 1 .. Len(s)
  BY LenProperties
<1>2. I \in SUBSET (1 .. Len(s))
  BY <1>1
<1> HIDE DEF I
<1>3. /\ Select(s, I) \in Seq(S)
      /\ Len(Select(s, I)) = Cardinality(I)
      /\ \A k \in 1 .. Cardinality(I) :
           Nth(I, k) \in I /\ Nth(I, k) \in 1 .. Len(s) /\ Select(s, I)[k] = s[Nth(I, k)]
      /\ \A k, l \in 1 .. Cardinality(I) : k < l => Nth(I, k) < Nth(I, l)
  BY <1>2, SelectFacts
<1>4. r = Select(s, I)
  BY DEF Those, I
<1> HIDE DEF r
<1>5. f \in [1 .. Len(r) -> 1 .. Len(s)]
  BY <1>3, <1>4
<1>6. /\ \A k \in 1 .. Len(r) : r[k] = s[f[k]]
      /\ \A k, l \in 1 .. Len(r) : k < l => f[k] < f[l]
  BY <1>3, <1>4
<1>7. r \in Seq(A)
  <2>1. \A k \in 1 .. Len(r) : r[k] \in A
    BY <1>3, <1>4 DEF I
  <2>2. DOMAIN r = 1 .. Len(r) /\ r = [k \in 1 .. Len(r) |-> r[k]] /\ Len(r) \in Nat
    BY <1>3, <1>4, LenProperties
  <2> QED
    BY <2>1, <2>2
<1>8. /\ r \in Seq(S) /\ r \in Seq(A)
      /\ \E g \in [1 .. Len(r) -> 1 .. Len(s)] :
           /\ \A k \in 1 .. Len(r) : r[k] = s[g[k]]
           /\ \A k, l \in 1 .. Len(r) : k < l => g[k] < g[l]
  <2>1. r \in Seq(S)
    BY <1>3, <1>4
  <2> HIDE DEF f
  <2> QED
    BY <1>5, <1>6, <1>7, <2>1
<1> QED
  BY <1>8 DEF r

LEMMA ThoseCat ==
  ASSUME NEW S, NEW s \in Seq(S), NEW t \in Seq(S), NEW A
  PROVE  Those(Cat(s, t), A) = Cat(Those(s, A), Those(t, A))
<1> DEFINE I == {i \in DOMAIN s : s[i] \in A}
           J == {i \in DOMAIN t : t[i] \in A}
           r == Cat(s, t)
<1>1. /\ Len(s) \in Nat /\ Len(t) \in Nat
      /\ DOMAIN s = 1 .. Len(s) /\ DOMAIN t = 1 .. Len(t)
      /\ DOMAIN r = 1 .. Len(s) + Len(t)
      /\ \A i \in 1 .. Len(s) : r[i] = s[i]
      /\ \A i \in 1 .. Len(t) : r[Len(s) + i] = t[i]
  <2>1. /\ Len(s) \in Nat /\ Len(t) \in Nat
        /\ DOMAIN s = 1 .. Len(s) /\ DOMAIN t = 1 .. Len(t)
        /\ DOMAIN Cat(s, t) = 1 .. Len(s) + Len(t)
    BY CatTypes
  <2>2. /\ \A i \in 1 .. Len(s) : Cat(s, t)[i] = s[i]
        /\ \A i \in 1 .. Len(t) : Cat(s, t)[Len(s) + i] = t[i]
    BY CatElements
  <2> QED
    BY <2>1, <2>2
<1>2. I \in SUBSET (1 .. Len(s)) /\ J \in SUBSET (1 .. Len(t))
  BY <1>1
<1> HIDE DEF r
<1> DEFINE U == {i \in DOMAIN r : r[i] \in A}
<1>3. \A i : i \in U <=> i \in I \/ \E j \in J : i = Len(s) + j
  <2>1. ASSUME NEW i \in U PROVE i \in I \/ \E j \in J : i = Len(s) + j
    <3>1. CASE i <= Len(s)
      BY <1>1, <2>1, <3>1
    <3>2. CASE ~(i <= Len(s))
      <4>1. i - Len(s) \in 1 .. Len(t) /\ i = Len(s) + (i - Len(s))
        BY <1>1, <3>2
      <4>2. r[i] = t[i - Len(s)]
        BY <1>1, <4>1
      <4>3. i - Len(s) \in J
        BY <1>1, <2>1, <4>1, <4>2
      <4> QED
        BY <4>1, <4>3
    <3> QED
      BY <3>1, <3>2
  <2>2. ASSUME NEW i \in I PROVE i \in U
    BY <1>1
  <2>3. ASSUME NEW j \in J PROVE Len(s) + j \in U
    BY <1>1
  <2> HIDE DEF U, I, J
  <2> QED
    BY <2>1, <2>2, <2>3
<1> HIDE DEF I, J, U
<1>4. Joins(U, I, J, Len(s))
  BY <1>3 DEF Joins
<1>5. Select(r, U) = Cat(Select(s, I), Select(t, J))
  BY <1>2, <1>4, SelectConcat DEF r
<1> QED
  BY <1>5 DEF Those, r, I, J, U

LEMMA ThoseAll ==
  ASSUME NEW S, NEW s \in Seq(S), NEW A, S \subseteq A
  PROVE  Those(s, A) = s
<1>1. DOMAIN s = 1 .. Len(s) /\ \A i \in 1 .. Len(s) : s[i] \in S
  BY LenProperties, ElementOfSeq
<1>2. {i \in DOMAIN s : s[i] \in A} = 1 .. Len(s)
  BY <1>1
<1> QED
  BY <1>2, SelectAll DEF Those

LEMMA ThoseNone ==
  ASSUME NEW S, NEW s \in Seq(S), NEW A, S \cap A = {}
  PROVE  Those(s, A) = <<>>
<1>1. DOMAIN s = 1 .. Len(s) /\ \A i \in 1 .. Len(s) : s[i] \in S
  BY LenProperties, ElementOfSeq
<1>2. {i \in DOMAIN s : s[i] \in A} = {}
  BY <1>1
<1> QED
  BY <1>2, SelectNone DEF Those

-------------------------------------------------------------------------------
(* Messages.                                                               *)
(* The agent's prompt, and the summaries there may be by turn now.         *)
PromptPart(p) == IF p THEN <<Prompt>> ELSE <<>>
SummaryMsgs(now) == {SummaryOf(T) : T \in (SUBSET (1 .. now)) \ {{}}}
Brief(S, now) ==
  /\ S \in Seq(SummaryMsgs(now)) /\ Len(S) <= 1
  /\ policy.strategy # "summary" => S = <<>>
Covers(S) == UNION {m.covers : m \in Range(S)}

SystemMsgs == {m \in Message : m.role = "system"}
OtherMsgs == {m \in Message : m.role # "system"}
PlainMsgs == {m \in Message : m.role # "system" /\ ~IsSummary(m)}
KeptMsgs == {m \in Message : m # Prompt /\ ~IsSummary(m)}
KeptOf(s) == Select(s, {i \in DOMAIN s : s[i] # Prompt /\ ~IsSummary(s[i])})
ToolFree == {m \in Message : m.role # "tool" /\ ~m.calls}
TurnMsgs(t) == {m \in Message : m.turn = t}

LEMMA MessageFacts ==
  ASSUME policy \in PolicyType, NEW now \in Nat
  PROVE  /\ Plain \subseteq Message /\ Prompt \in Message /\ Prompt \notin Plain
         /\ SummaryMsgs(now) \subseteq Message
         /\ \A m \in Plain : m.role # "system" /\ ~IsSummary(m) /\ m # Prompt
         /\ Prompt.role = "system" /\ ~IsSummary(Prompt) /\ Prompt.turn = 0
         /\ Prompt.role # "tool" /\ ~Prompt.calls /\ Prompt.size = 1
         /\ \A m \in SummaryMsgs(now) :
              /\ m.role = policy.role /\ IsSummary(m) /\ m # Prompt /\ m.role \notin {"tool", "user"}
              /\ ~m.calls /\ m.turn = 0 /\ m.covers \in SUBSET (1 .. now) /\ m = SummaryOf(m.covers)
<1>1. policy.role \in {"system", "assistant"}
  BY DEF PolicyType
<1>2. Plain \subseteq Message
  BY DEF Plain, Message
<1>3. Prompt \in Message /\ Prompt.role = "system" /\ Prompt.covers = {} /\ Prompt.turn = 0
      /\ Prompt.calls = FALSE /\ Prompt.size = 1
  BY DEF Prompt, Message
<1>4. \A m \in Plain : m.role \in {"user", "assistant", "tool"} /\ m.covers = {}
  BY DEF Plain
<1>5. ASSUME NEW m \in SummaryMsgs(now)
      PROVE  /\ m \in Message /\ m.role = policy.role /\ m.covers # {} /\ m.calls = FALSE /\ m.turn = 0
             /\ m.covers \in SUBSET (1 .. now) /\ m = SummaryOf(m.covers)
  <2>1. PICK T \in (SUBSET (1 .. now)) \ {{}} : m = SummaryOf(T)
    BY DEF SummaryMsgs
  <2>2. T \in SUBSET Nat
    OBVIOUS
  <2> QED
    BY <1>1, <2>1, <2>2 DEF SummaryOf, Message
<1> QED
  BY <1>1, <1>2, <1>3, <1>4, <1>5 DEF IsSummary

LEMMA ViewsAs ==
  ASSUME NEW s \in Seq(Message)
  PROVE  /\ Systems(s) = Those(s, SystemMsgs)
         /\ Others(s) = Those(s, OtherMsgs)
         /\ PlainOf(s) = Those(s, PlainMsgs)
         /\ KeptOf(s) = Those(s, KeptMsgs)
         /\ RemoveTools(s) = Those(s, ToolFree)
         /\ \A t : OfTurn(s, t) = Those(s, TurnMsgs(t))
<1>1. \A i \in DOMAIN s : s[i] \in Message
  BY LenProperties, ElementOfSeq
<1>2. /\ {i \in DOMAIN s : s[i].role = "system"} = {i \in DOMAIN s : s[i] \in SystemMsgs}
      /\ {i \in DOMAIN s : s[i].role # "system"} = {i \in DOMAIN s : s[i] \in OtherMsgs}
      /\ {i \in DOMAIN s : s[i].role # "system" /\ ~IsSummary(s[i])} = {i \in DOMAIN s : s[i] \in PlainMsgs}
      /\ {i \in DOMAIN s : s[i] # Prompt /\ ~IsSummary(s[i])} = {i \in DOMAIN s : s[i] \in KeptMsgs}
      /\ {i \in DOMAIN s : s[i].role # "tool" /\ ~s[i].calls} = {i \in DOMAIN s : s[i] \in ToolFree}
  BY <1>1 DEF SystemMsgs, OtherMsgs, PlainMsgs, KeptMsgs, ToolFree
<1>3. \A t : {i \in DOMAIN s : s[i].turn = t} = {i \in DOMAIN s : s[i] \in TurnMsgs(t)}
  BY <1>1 DEF TurnMsgs
<1> QED
  BY <1>2, <1>3 DEF Systems, Others, PlainOf, RemoveTools, OfTurn, KeptOf, Those

(* A conversation is the prompt, a summary and what is kept of the log.    *)
LEMMA PartTypes ==
  ASSUME policy \in PolicyType, NEW p \in BOOLEAN, NEW now \in Nat, NEW S, Brief(S, now),
         NEW K \in Seq(Plain)
  PROVE  /\ PromptPart(p) \in Seq({Prompt}) /\ PromptPart(p) \in Seq(Message)
         /\ S \in Seq(SummaryMsgs(now)) /\ S \in Seq(Message) /\ K \in Seq(Message)
         /\ Cat(S, K) \in Seq(Message) /\ Cat(PromptPart(p), Cat(S, K)) \in Seq(Message)
<1>1. PromptPart(p) \in Seq({Prompt})
  <2>1. <<Prompt>> \in Seq({Prompt}) /\ <<>> \in Seq({Prompt})
    OBVIOUS
  <2> QED
    BY <2>1 DEF PromptPart
<1>2. S \in Seq(SummaryMsgs(now))
  BY DEF Brief
<1>3. /\ Plain \subseteq Message /\ {Prompt} \subseteq Message
      /\ SummaryMsgs(now) \subseteq Message
  BY MessageFacts
<1>4. PromptPart(p) \in Seq(Message) /\ S \in Seq(Message) /\ K \in Seq(Message)
  BY <1>1, <1>2, <1>3, SeqMonotonic
<1>5. Cat(S, K) \in Seq(Message) /\ Cat(PromptPart(p), Cat(S, K)) \in Seq(Message)
  BY <1>4, CatTypes
<1> QED
  BY <1>1, <1>2, <1>4, <1>5

LEMMA ThoseOfThree ==
  ASSUME NEW S, NEW a \in Seq(S), NEW b \in Seq(S), NEW c \in Seq(S), NEW A,
         NEW s, s = Cat(a, Cat(b, c))
  PROVE  Those(s, A) = Cat(Those(a, A), Cat(Those(b, A), Those(c, A)))
<1>1. Cat(b, c) \in Seq(S)
  BY CatTypes
<1> QED
  BY <1>1, ThoseCat

LEMMA CatEmpty ==
  ASSUME NEW S, NEW s \in Seq(S)
  PROVE  Cat(s, <<>>) = s /\ Cat(<<>>, s) = s
BY ConcatEmptySeq DEF Cat

LEMMA Views ==
  ASSUME policy \in PolicyType, NEW p \in BOOLEAN, NEW now \in Nat, NEW S, Brief(S, now),
         NEW K \in Seq(Plain), NEW c, c = Cat(PromptPart(p), Cat(S, K))
  PROVE  /\ c \in Seq(Message)
         /\ Systems(c) = Cat(PromptPart(p), IF policy.role = "system" THEN S ELSE <<>>)
         /\ Others(c) = Cat(IF policy.role = "system" THEN <<>> ELSE S, K)
         /\ PlainOf(c) = K
         /\ KeptOf(c) = K
         /\ RemoveTools(c) = Cat(PromptPart(p), Cat(S, Those(K, ToolFree)))
<1> DEFINE P == PromptPart(p)
<1>1. /\ P \in Seq({Prompt}) /\ P \in Seq(Message)
      /\ S \in Seq(SummaryMsgs(now)) /\ S \in Seq(Message) /\ K \in Seq(Message)
      /\ Cat(P, Cat(S, K)) \in Seq(Message)
  BY PartTypes
<1>2. /\ Plain \subseteq Message /\ Prompt \in Message
      /\ SummaryMsgs(now) \subseteq Message
      /\ \A m \in Plain : m.role # "system" /\ ~IsSummary(m) /\ m # Prompt
      /\ Prompt.role = "system" /\ ~IsSummary(Prompt)
      /\ Prompt.role # "tool" /\ ~Prompt.calls
      /\ \A m \in SummaryMsgs(now) :
           /\ m.role = policy.role /\ IsSummary(m) /\ m # Prompt /\ m.role # "tool" /\ ~m.calls
  BY MessageFacts
<1> HIDE DEF P
<1>3. \A A : Those(c, A) = Cat(Those(P, A), Cat(Those(S, A), Those(K, A)))
  <2> TAKE A
  <2>1. c = Cat(P, Cat(S, K))
    BY DEF P
  <2> QED
    <3>1. P \in Seq(Message) /\ S \in Seq(Message) /\ K \in Seq(Message)
      BY <1>1
    <3> QED
      BY <2>1, <3>1, ThoseOfThree
<1>4. /\ Those(P, SystemMsgs) = P /\ Those(P, OtherMsgs) = <<>> /\ Those(P, PlainMsgs) = <<>>
      /\ Those(P, KeptMsgs) = <<>> /\ Those(P, ToolFree) = P
  <2>1. /\ {Prompt} \subseteq SystemMsgs /\ {Prompt} \cap OtherMsgs = {} /\ {Prompt} \cap PlainMsgs = {}
        /\ {Prompt} \cap KeptMsgs = {} /\ {Prompt} \subseteq ToolFree
    BY <1>2 DEF SystemMsgs, OtherMsgs, PlainMsgs, KeptMsgs, ToolFree
  <2> QED
    BY <1>1, <2>1, ThoseAll, ThoseNone
<1>5. /\ Those(K, SystemMsgs) = <<>> /\ Those(K, OtherMsgs) = K /\ Those(K, PlainMsgs) = K
      /\ Those(K, KeptMsgs) = K
  <2>1. /\ Plain \cap SystemMsgs = {} /\ Plain \subseteq OtherMsgs /\ Plain \subseteq PlainMsgs
        /\ Plain \subseteq KeptMsgs
    BY <1>2 DEF SystemMsgs, OtherMsgs, PlainMsgs, KeptMsgs
  <2> QED
    BY <2>1, ThoseAll, ThoseNone
<1>6. /\ Those(S, PlainMsgs) = <<>> /\ Those(S, KeptMsgs) = <<>> /\ Those(S, ToolFree) = S
  <2>1. /\ SummaryMsgs(now) \cap PlainMsgs = {} /\ SummaryMsgs(now) \cap KeptMsgs = {}
        /\ SummaryMsgs(now) \subseteq ToolFree
    BY <1>2 DEF PlainMsgs, KeptMsgs, ToolFree
  <2> QED
    BY <1>1, <2>1, ThoseAll, ThoseNone
<1>7. /\ Those(S, SystemMsgs) = IF policy.role = "system" THEN S ELSE <<>>
      /\ Those(S, OtherMsgs) = IF policy.role = "system" THEN <<>> ELSE S
  <2>1. CASE policy.role = "system"
    <3>1. SummaryMsgs(now) \subseteq SystemMsgs /\ SummaryMsgs(now) \cap OtherMsgs = {}
      BY <1>2, <2>1 DEF SystemMsgs, OtherMsgs
    <3> QED
      BY <1>1, <2>1, <3>1, ThoseAll, ThoseNone
  <2>2. CASE policy.role # "system"
    <3>1. SummaryMsgs(now) \subseteq OtherMsgs /\ SummaryMsgs(now) \cap SystemMsgs = {}
      BY <1>2, <2>2 DEF SystemMsgs, OtherMsgs
    <3> QED
      BY <1>1, <2>2, <3>1, ThoseAll, ThoseNone
  <2> QED
    BY <2>1, <2>2
<1>8. c \in Seq(Message)
  BY <1>1 DEF P
<1>9. /\ Cat(K, <<>>) = K /\ Cat(<<>>, K) = K /\ Cat(S, <<>>) = S /\ Cat(<<>>, <<>>) = <<>>
      /\ Cat(P, <<>>) = P
  <2>1. <<>> \in Seq(Message)
    OBVIOUS
  <2> QED
    BY <1>1, <2>1, CatEmpty
<1>10. /\ Those(c, SystemMsgs) = Cat(P, IF policy.role = "system" THEN S ELSE <<>>)
       /\ Those(c, PlainMsgs) = K
       /\ Those(c, KeptMsgs) = K
       /\ Those(c, ToolFree) = Cat(P, Cat(S, Those(K, ToolFree)))
  BY <1>3, <1>4, <1>5, <1>6, <1>7, <1>9
<1>11. Those(c, OtherMsgs) = Cat(IF policy.role = "system" THEN <<>> ELSE S, K)
  <2>1. Cat(IF policy.role = "system" THEN <<>> ELSE S, K) \in Seq(Message)
    <3>1. <<>> \in Seq(Message)
      OBVIOUS
    <3> QED
      BY <1>1, <3>1, CatTypes
  <2>2. Cat(<<>>, Cat(IF policy.role = "system" THEN <<>> ELSE S, K)) =
          Cat(IF policy.role = "system" THEN <<>> ELSE S, K)
    BY <2>1, CatEmpty
  <2> QED
    BY <1>3, <1>4, <1>5, <1>7, <2>2
<1> QED
  BY <1>8, <1>10, <1>11, ViewsAs DEF P

-------------------------------------------------------------------------------
(* The order of turns: a query is later than everything before it.         *)
Ordered(s) ==
  \A i, j \in DOMAIN s : i < j =>
    /\ s[i].turn <= s[j].turn
    /\ s[j].turn > 0
    /\ s[j].role = "user" => s[i].turn < s[j].turn
Good(s, now) == s \in Seq(Plain) /\ Ordered(s) /\ \A i \in DOMAIN s : s[i].turn <= now
UserFirst(s) == s # <<>> => s[1].role = "user"
Before(x, y) == \A i \in DOMAIN x : \A j \in DOMAIN y : x[i].turn < y[j].turn
Query(s, now) == \E i \in DOMAIN s : s[i].role = "user" /\ s[i].turn = now

LEMMA PlainElements ==
  ASSUME NEW s \in Seq(Plain)
  PROVE  /\ DOMAIN s = 1 .. Len(s) /\ Len(s) \in Nat
         /\ \A i \in DOMAIN s : s[i] \in Plain /\ s[i].turn \in Nat
<1>1. DOMAIN s = 1 .. Len(s) /\ Len(s) \in Nat
  BY LenProperties
<1>2. \A i \in DOMAIN s : s[i] \in Plain
  BY <1>1, ElementOfSeq
<1> QED
  BY <1>1, <1>2 DEF Plain

LEMMA OrderedParts ==
  ASSUME NEW x \in Seq(Plain), NEW y \in Seq(Plain), Ordered(Cat(x, y))
  PROVE  /\ Ordered(x) /\ Ordered(y)
         /\ \A i \in DOMAIN x : \A j \in DOMAIN y :
              x[i].turn <= y[j].turn /\ y[j].turn > 0 /\ (y[j].role = "user" => x[i].turn < y[j].turn)
         /\ y # <<>> /\ UserFirst(y) => Before(x, y)
<1> DEFINE r == Cat(x, y)
<1>1. /\ Len(x) \in Nat /\ Len(y) \in Nat
      /\ DOMAIN x = 1 .. Len(x) /\ DOMAIN y = 1 .. Len(y)
      /\ DOMAIN r = 1 .. Len(x) + Len(y)
  BY CatTypes
<1>2. /\ \A i \in 1 .. Len(x) : r[i] = x[i]
      /\ \A i \in 1 .. Len(y) : r[Len(x) + i] = y[i]
  BY CatElements
<1>3. Ordered(r)
  OBVIOUS
<1> HIDE DEF r
<1>4. Ordered(x)
  BY <1>1, <1>2, <1>3 DEF Ordered
<1>5. Ordered(y)
  <2> SUFFICES ASSUME NEW i \in DOMAIN y, NEW j \in DOMAIN y, i < j
               PROVE  /\ y[i].turn <= y[j].turn /\ y[j].turn > 0
                      /\ y[j].role = "user" => y[i].turn < y[j].turn
    BY DEF Ordered
  <2>1. /\ Len(x) + i \in DOMAIN r /\ Len(x) + j \in DOMAIN r /\ Len(x) + i < Len(x) + j
        /\ r[Len(x) + i] = y[i] /\ r[Len(x) + j] = y[j]
    BY <1>1, <1>2
  <2> QED
    BY <1>3, <2>1 DEF Ordered
<1>6. ASSUME NEW i \in DOMAIN x, NEW j \in DOMAIN y
      PROVE  x[i].turn <= y[j].turn /\ y[j].turn > 0 /\ (y[j].role = "user" => x[i].turn < y[j].turn)
  <2>1. /\ i \in DOMAIN r /\ Len(x) + j \in DOMAIN r /\ i < Len(x) + j
        /\ r[i] = x[i] /\ r[Len(x) + j] = y[j]
    BY <1>1, <1>2
  <2> QED
    BY <1>3, <2>1 DEF Ordered
<1>7. ASSUME y # <<>>, UserFirst(y), NEW i \in DOMAIN x, NEW j \in DOMAIN y
      PROVE  x[i].turn < y[j].turn
  <2>1. 1 \in DOMAIN y /\ j \in Int /\ (j = 1 \/ 1 < j)
    BY <1>1
  <2>2. y[1].role = "user" /\ x[i].turn < y[1].turn
    BY <1>6, <1>7, <2>1 DEF UserFirst
  <2>3. y[1].turn <= y[j].turn
    <3>1. y[j].turn \in Nat
      BY PlainElements
    <3> QED
      BY <1>5, <2>1, <3>1 DEF Ordered
  <2>4. x[i].turn \in Nat /\ y[1].turn \in Nat /\ y[j].turn \in Nat
    BY <2>1, PlainElements
  <2> QED
    BY <2>2, <2>3, <2>4
<1> QED
  BY <1>4, <1>5, <1>6, <1>7 DEF Before

LEMMA OrderedJoin ==
  ASSUME NEW x \in Seq(Plain), NEW y \in Seq(Plain), Ordered(x), Ordered(y),
         \A i \in DOMAIN x : \A j \in DOMAIN y :
           x[i].turn <= y[j].turn /\ y[j].turn > 0 /\ (y[j].role = "user" => x[i].turn < y[j].turn)
  PROVE  Ordered(Cat(x, y))
<1> DEFINE r == Cat(x, y)
<1>1. /\ Len(x) \in Nat /\ Len(y) \in Nat
      /\ DOMAIN x = 1 .. Len(x) /\ DOMAIN y = 1 .. Len(y)
      /\ DOMAIN r = 1 .. Len(x) + Len(y)
  BY CatTypes
<1>2. /\ \A i \in 1 .. Len(x) : r[i] = x[i]
      /\ \A i \in 1 .. Len(y) : r[Len(x) + i] = y[i]
  BY CatElements
<1> HIDE DEF r
<1>3. ASSUME NEW i \in DOMAIN r, NEW j \in DOMAIN r, i < j
      PROVE  /\ r[i].turn <= r[j].turn /\ r[j].turn > 0
             /\ r[j].role = "user" => r[i].turn < r[j].turn
  <2>1. CASE j <= Len(x)
    <3>1. i \in DOMAIN x /\ j \in DOMAIN x /\ r[i] = x[i] /\ r[j] = x[j]
      BY <1>1, <1>2, <1>3, <2>1
    <3> QED
      BY <1>3, <3>1 DEF Ordered
  <2>2. CASE i <= Len(x) /\ ~(j <= Len(x))
    <3>1. i \in DOMAIN x /\ j - Len(x) \in DOMAIN y /\ Len(x) + (j - Len(x)) = j
      BY <1>1, <2>2
    <3>2. r[i] = x[i] /\ r[j] = y[j - Len(x)]
      BY <1>1, <1>2, <3>1
    <3> QED
      BY <3>1, <3>2
  <2>3. CASE ~(i <= Len(x))
    <3>1. /\ i - Len(x) \in DOMAIN y /\ Len(x) + (i - Len(x)) = i
          /\ j - Len(x) \in DOMAIN y /\ Len(x) + (j - Len(x)) = j
          /\ i - Len(x) < j - Len(x)
      BY <1>1, <1>3, <2>3
    <3>2. r[i] = y[i - Len(x)] /\ r[j] = y[j - Len(x)]
      BY <1>1, <1>2, <3>1
    <3> QED
      BY <3>1, <3>2 DEF Ordered
  <2> QED
    BY <1>1, <2>1, <2>2, <2>3
<1> QED
  BY <1>3 DEF Ordered, r

-------------------------------------------------------------------------------
(* Cutting a sequence.                                                     *)
LEMMA SeqsEqual ==
  ASSUME NEW S, NEW s \in Seq(S), NEW t \in Seq(S), Len(s) = Len(t),
         \A i \in 1 .. Len(s) : s[i] = t[i]
  PROVE  s = t
<1>1. /\ DOMAIN s = 1 .. Len(s) /\ DOMAIN t = 1 .. Len(t)
      /\ s = [i \in 1 .. Len(s) |-> s[i]] /\ t = [i \in 1 .. Len(t) |-> t[i]]
  BY LenProperties
<1> QED
  BY <1>1

LEMMA CatAssoc ==
  ASSUME NEW S, NEW x \in Seq(S), NEW y \in Seq(S), NEW z \in Seq(S)
  PROVE  Cat(Cat(x, y), z) = Cat(x, Cat(y, z))
BY ConcatAssociative DEF Cat

LEMMA CutAt ==
  ASSUME NEW S, NEW s \in Seq(S), NEW n \in 0 .. Len(s)
  PROVE  /\ SubSeq(s, 1, n) \in Seq(S) /\ SubSeq(s, n + 1, Len(s)) \in Seq(S)
         /\ Len(SubSeq(s, 1, n)) = n /\ Len(SubSeq(s, n + 1, Len(s))) = Len(s) - n
         /\ s = Cat(SubSeq(s, 1, n), SubSeq(s, n + 1, Len(s)))
<1>1. /\ Len(s) \in Nat /\ n \in Nat /\ n <= Len(s)
      /\ \A i \in 1 .. Len(s) : s[i] \in S
  BY LenProperties, ElementOfSeq
<1> DEFINE m == Len(s)
<1>2. /\ SubSeq(s, 1, n) \in Seq(S)
      /\ Len(SubSeq(s, 1, n)) = IF 1 <= n THEN n - 1 + 1 ELSE 0
  <2>1. 1 \in Int /\ n \in Int /\ \A i \in 1 .. n : s[i] \in S
    BY <1>1
  <2> QED
    BY <2>1, SubSeqProperties
<1>3. /\ SubSeq(s, n + 1, m) \in Seq(S)
      /\ Len(SubSeq(s, n + 1, m)) = IF n + 1 <= m THEN m - (n + 1) + 1 ELSE 0
  <2>1. n + 1 \in Int /\ m \in Int /\ \A i \in n + 1 .. m : s[i] \in S
    BY <1>1
  <2> QED
    BY <2>1, SubSeqProperties
<1>4. s = SubSeq(s, 1, n) \o SubSeq(s, n + 1, m)
  <2>1. 1 \in 1 .. Len(s) + 1 /\ n \in 1 - 1 .. Len(s) /\ m \in n .. Len(s)
    BY <1>1
  <2>2. SubSeq(s, 1, n) \o SubSeq(s, n + 1, m) = SubSeq(s, 1, m)
    BY <2>1, ConcatAdjacentSubSeq
  <2> QED
    BY <2>2, SubSeqFull
<1>5. Len(SubSeq(s, 1, n)) = n /\ Len(SubSeq(s, n + 1, Len(s))) = Len(s) - n
  BY <1>1, <1>2, <1>3
<1>6. s = Cat(SubSeq(s, 1, n), SubSeq(s, n + 1, Len(s)))
  BY <1>4 DEF Cat
<1> QED
  BY <1>2, <1>3, <1>5, <1>6

(* What a sequence is cut into at the place where it was put together.     *)
LEMMA CutOfCat ==
  ASSUME NEW S, NEW x \in Seq(S), NEW y \in Seq(S)
  PROVE  /\ SubSeq(Cat(x, y), 1, Len(x)) = x
         /\ SubSeq(Cat(x, y), Len(x) + 1, Len(Cat(x, y))) = y
<1> DEFINE r == Cat(x, y)
<1>1. /\ r \in Seq(S) /\ Len(r) = Len(x) + Len(y)
      /\ Len(x) \in Nat /\ Len(y) \in Nat
  BY CatTypes
<1>2. /\ \A i \in 1 .. Len(x) : r[i] = x[i]
      /\ \A i \in 1 .. Len(y) : r[Len(x) + i] = y[i]
  BY CatElements
<1> HIDE DEF r
<1>3. /\ SubSeq(r, 1, Len(x)) \in Seq(S) /\ SubSeq(r, Len(x) + 1, Len(r)) \in Seq(S)
      /\ Len(SubSeq(r, 1, Len(x))) = Len(x) /\ Len(SubSeq(r, Len(x) + 1, Len(r))) = Len(y)
  <2>1. Len(x) \in 0 .. Len(r)
    BY <1>1
  <2> QED
    BY <1>1, <2>1, CutAt
<1>4. \A i \in 1 .. Len(r) : r[i] \in S
  BY <1>1, ElementOfSeq
<1>5. \A i \in 1 .. Len(x) : SubSeq(r, 1, Len(x))[i] = x[i]
  <2>1. \A i \in 1 .. Len(x) : r[i] \in S
    BY <1>1, <1>4
  <2>2. \A i \in 1 .. Len(x) - 1 + 1 : SubSeq(r, 1, Len(x))[i] = r[1 + i - 1]
    BY <1>1, <2>1, SubSeqProperties
  <2> QED
    BY <1>1, <1>2, <2>2
<1>6. \A i \in 1 .. Len(y) : SubSeq(r, Len(x) + 1, Len(r))[i] = y[i]
  <2>1. \A i \in Len(x) + 1 .. Len(r) : r[i] \in S
    BY <1>1, <1>4
  <2>2. \A i \in 1 .. Len(r) - (Len(x) + 1) + 1 :
          SubSeq(r, Len(x) + 1, Len(r))[i] = r[(Len(x) + 1) + i - 1]
    BY <1>1, <2>1, SubSeqProperties
  <2>3. \A i \in 1 .. Len(y) : i \in 1 .. Len(r) - (Len(x) + 1) + 1 /\ (Len(x) + 1) + i - 1 = Len(x) + i
    BY <1>1
  <2> QED
    BY <1>1, <1>2, <2>2, <2>3
<1>7. SubSeq(r, 1, Len(x)) = x
  BY <1>3, <1>5, SeqsEqual
<1>8. SubSeq(r, Len(x) + 1, Len(r)) = y
  BY <1>3, <1>6, SeqsEqual
<1> QED
  BY <1>7, <1>8 DEF r

(* Two ways to put a sequence together: the longer first part begins with  *)
(* the shorter one.                                                        *)
LEMMA CutTwice ==
  ASSUME NEW S, NEW a \in Seq(S), NEW b \in Seq(S), NEW x \in Seq(S), NEW y \in Seq(S),
         Cat(a, b) = Cat(x, y), Len(a) <= Len(x)
  PROVE  \E z \in Seq(S) : x = Cat(a, z) /\ b = Cat(z, y)
<1> DEFINE r == Cat(a, b)
           z == SubSeq(x, Len(a) + 1, Len(x))
<1>1. /\ Len(a) \in Nat /\ Len(b) \in Nat /\ Len(x) \in Nat /\ Len(y) \in Nat
      /\ r \in Seq(S) /\ Len(r) = Len(a) + Len(b)
      /\ Cat(x, y) \in Seq(S) /\ Len(Cat(x, y)) = Len(x) + Len(y)
  BY CatTypes
<1>2. /\ \A i \in 1 .. Len(a) : r[i] = a[i]
      /\ \A i \in 1 .. Len(b) : r[Len(a) + i] = b[i]
  BY CatElements
<1>3. /\ \A i \in 1 .. Len(x) : r[i] = x[i]
      /\ \A i \in 1 .. Len(y) : r[Len(x) + i] = y[i]
  <2>1. /\ \A i \in 1 .. Len(x) : Cat(x, y)[i] = x[i]
        /\ \A i \in 1 .. Len(y) : Cat(x, y)[Len(x) + i] = y[i]
    BY CatElements, SMTT(30)
  <2>2. r = Cat(x, y)
    OBVIOUS
  <2> QED
    BY <2>1, <2>2
<1>4. Len(a) + Len(b) = Len(x) + Len(y)
  BY <1>1
<1>5. /\ z \in Seq(S) /\ Len(z) = Len(x) - Len(a)
      /\ x = Cat(SubSeq(x, 1, Len(a)), z)
      /\ SubSeq(x, 1, Len(a)) \in Seq(S) /\ Len(SubSeq(x, 1, Len(a))) = Len(a)
  <2>1. Len(a) \in 0 .. Len(x)
    BY <1>1
  <2> QED
    BY <2>1, CutAt
<1> HIDE DEF r, z
<1> DEFINE u == SubSeq(x, 1, Len(a))
<1>6. u \in Seq(S) /\ z \in Seq(S)
  BY <1>5
<1> HIDE DEF u
<1>10. /\ \A i \in 1 .. Len(u) : Cat(u, z)[i] = u[i]
       /\ \A i \in 1 .. Len(z) : Cat(u, z)[Len(u) + i] = z[i]
  BY <1>6, CatElements
<1>7. u = a
  <2>1. u \in Seq(S) /\ Len(u) = Len(a)
    BY <1>5 DEF u
  <2>2. \A i \in 1 .. Len(u) : u[i] = a[i]
    BY <1>1, <1>2, <1>3, <1>5, <1>10, <2>1 DEF u
  <2> QED
    BY <2>1, <2>2, SeqsEqual
<1>8. /\ x = Cat(a, z)
      /\ \A i \in 1 .. Len(z) : x[Len(a) + i] = z[i]
  BY <1>5, <1>10, <1>7 DEF u
<1>9. b = Cat(z, y)
  <2>1. /\ Cat(z, y) \in Seq(S) /\ Len(Cat(z, y)) = Len(z) + Len(y)
    BY <1>6, CatTypes
  <2>2. /\ \A i \in 1 .. Len(z) : Cat(z, y)[i] = z[i]
        /\ \A i \in 1 .. Len(y) : Cat(z, y)[Len(z) + i] = y[i]
    BY <1>6, CatElements
  <2>3. Len(b) = Len(z) + Len(y) /\ Len(z) \in Nat
    BY <1>1, <1>4, <1>5
  <2>4. ASSUME NEW i \in 1 .. Len(b) PROVE b[i] = Cat(z, y)[i]
    <3>1. CASE i <= Len(z)
      <4>1. i \in 1 .. Len(z) /\ Len(a) + i \in 1 .. Len(x)
        BY <1>1, <1>5, <2>3, <3>1
      <4>2. b[i] = r[Len(a) + i] /\ r[Len(a) + i] = x[Len(a) + i] /\ x[Len(a) + i] = z[i]
        BY <1>2, <1>3, <1>8, <4>1
      <4>3. Cat(z, y)[i] = z[i]
        BY <2>2, <4>1
      <4> QED
        BY <4>2, <4>3
    <3>2. CASE ~(i <= Len(z))
      <4>1. /\ i - Len(z) \in 1 .. Len(y) /\ Len(z) + (i - Len(z)) = i
            /\ Len(x) + (i - Len(z)) = Len(a) + i
        BY <1>1, <1>5, <2>3, <3>2
      <4>2. b[i] = r[Len(a) + i] /\ r[Len(a) + i] = y[i - Len(z)]
        BY <1>2, <1>3, <4>1
      <4>3. Cat(z, y)[i] = y[i - Len(z)]
        BY <2>2, <4>1
      <4> QED
        BY <4>2, <4>3
    <3> QED
      BY <3>1, <3>2
  <2> HIDE DEF Cat
  <2> QED
    BY <2>1, <2>3, <2>4, SeqsEqual
<1> QED
  BY <1>5, <1>8, <1>9

-------------------------------------------------------------------------------
(* Where queries are.                                                      *)
NoUsers(s) == \A i \in DOMAIN s : s[i].role # "user"

LEMMA NthBounds ==
  ASSUME NEW N \in Nat, NEW set \in SUBSET (1 .. N), set # {}
  PROVE  /\ Cardinality(set) \in Nat /\ Cardinality(set) >= 1 /\ IsFiniteSet(set)
         /\ Nth(set, 1) \in set /\ \A j \in set : Nth(set, 1) <= j
         /\ Nth(set, Cardinality(set)) \in set /\ \A j \in set : j <= Nth(set, Cardinality(set))
<1> DEFINE n == Cardinality(set)
<1>1. n \in Nat /\ n >= 1 /\ IsFiniteSet(set)
  <2>1. IsFiniteSet(set) /\ n \in 0 .. N
    BY UpToFacts
  <2>2. n # 0
    BY <2>1, FS_EmptySet
  <2> QED
    BY <2>1, <2>2
<1> HIDE DEF n
<1>2. 1 \in 1 .. n /\ n \in 1 .. n
  BY <1>1
<1>3. Nth(set, 1) \in set /\ Nth(set, n) \in set
  BY <1>2, NthHasRank DEF n
<1>4. \A j \in set : j \in Int
  OBVIOUS
<1>5. \A k, l \in 1 .. n : k < l => Nth(set, k) < Nth(set, l)
  BY NthIncreases DEF n
<1>6. ASSUME NEW j \in set PROVE Nth(set, 1) <= j /\ j <= Nth(set, n)
  <2>1. PICK k \in 1 .. n : Nth(set, k) = j
    BY NthIs DEF n
  <2>2. (k = 1 \/ 1 < k) /\ (k = n \/ k < n)
    BY <1>1
  <2>5. Nth(set, 1) \in Int /\ Nth(set, k) \in Int /\ Nth(set, n) \in Int
    BY <1>3, <1>4, <2>1
  <2>3. Nth(set, 1) <= Nth(set, k)
    <3>1. CASE k = 1
      BY <2>5, <3>1
    <3>2. CASE 1 < k
      <4>1. Nth(set, 1) < Nth(set, k)
        BY <1>2, <1>5, <3>2
      <4> QED
        BY <2>5, <4>1
    <3> QED
      BY <2>2, <3>1, <3>2
  <2>4. Nth(set, k) <= Nth(set, n)
    <3>1. CASE k = n
      BY <2>5, <3>1
    <3>2. CASE k < n
      <4>1. Nth(set, k) < Nth(set, n)
        BY <1>2, <1>5, <3>2
      <4> QED
        BY <2>5, <4>1
    <3> QED
      BY <2>2, <3>1, <3>2
  <2> QED
    BY <2>1, <2>3, <2>4
<1> QED
  BY <1>1, <1>3, <1>6 DEF n

LEMMA UsersFacts ==
  ASSUME NEW s \in Seq(Message)
  PROVE  /\ Users(s) \in SUBSET (1 .. Len(s)) /\ Len(s) \in Nat
         /\ CountTurns(s) \in Nat /\ CountTurns(s) = Cardinality(Users(s)) /\ IsFiniteSet(Users(s))
         /\ CountTurns(s) = 0 <=> Users(s) = {}
         /\ NoUsers(s) <=> Users(s) = {}
<1>1. Users(s) \in SUBSET (1 .. Len(s)) /\ Len(s) \in Nat
  BY LenProperties DEF Users
<1>2. IsFiniteSet(Users(s)) /\ Cardinality(Users(s)) \in 0 .. Len(s)
  BY <1>1, UpToFacts
<1>3. Cardinality(Users(s)) = 0 <=> Users(s) = {}
  BY <1>2, FS_EmptySet
<1>4. NoUsers(s) <=> Users(s) = {}
  BY DEF NoUsers, Users
<1> QED
  BY <1>1, <1>2, <1>3, <1>4 DEF CountTurns

LEMMA UsersOfCat ==
  ASSUME NEW a \in Seq(Message), NEW b \in Seq(Message), NoUsers(a)
  PROVE  /\ \A i : i \in Users(Cat(a, b)) <=> \E j \in Users(b) : i = Len(a) + j
         /\ UserFirst(b) /\ b # <<>> => Nth(Users(Cat(a, b)), 1) = Len(a) + 1
         /\ UserFirst(b) => (Users(Cat(a, b)) = {} <=> b = <<>>)
<1> DEFINE r == Cat(a, b)
<1>1. /\ r \in Seq(Message) /\ Len(r) = Len(a) + Len(b)
      /\ Len(a) \in Nat /\ Len(b) \in Nat
      /\ DOMAIN a = 1 .. Len(a) /\ DOMAIN b = 1 .. Len(b) /\ DOMAIN r = 1 .. Len(a) + Len(b)
  BY CatTypes
<1>2. /\ \A i \in 1 .. Len(a) : r[i] = a[i]
      /\ \A i \in 1 .. Len(b) : r[Len(a) + i] = b[i]
  BY CatElements
<1> HIDE DEF r
<1>3. ASSUME NEW i \in Users(r) PROVE \E j \in Users(b) : i = Len(a) + j
  <2>1. i \in 1 .. Len(a) + Len(b) /\ r[i].role = "user"
    BY <1>1 DEF Users
  <2>2. ~(i <= Len(a))
    BY <1>1, <1>2, <2>1 DEF NoUsers
  <2>3. i - Len(a) \in 1 .. Len(b) /\ i = Len(a) + (i - Len(a))
    BY <1>1, <2>1, <2>2
  <2>4. r[i] = b[i - Len(a)]
    BY <1>2, <2>3
  <2>5. i - Len(a) \in Users(b)
    BY <1>1, <2>1, <2>3, <2>4 DEF Users
  <2> QED
    BY <2>3, <2>5
<1>4. ASSUME NEW j \in Users(b) PROVE Len(a) + j \in Users(r)
  <2>1. j \in 1 .. Len(b) /\ b[j].role = "user"
    BY <1>1 DEF Users
  <2>2. Len(a) + j \in DOMAIN r /\ r[Len(a) + j] = b[j]
    BY <1>1, <1>2, <2>1
  <2> QED
    BY <2>1, <2>2 DEF Users
<1>5. ASSUME UserFirst(b), b # <<>> PROVE 1 \in Users(b) /\ Nth(Users(r), 1) = Len(a) + 1
  <2>1. 1 \in Users(b)
    BY <1>1, <1>5 DEF UserFirst, Users
  <2>2. Len(a) + 1 \in Users(r)
    BY <1>4, <2>1
  <2>3. Users(r) \in SUBSET (1 .. Len(r)) /\ Len(r) \in Nat
    BY <1>1, UsersFacts
  <2>4. Nth(Users(r), 1) \in Users(r) /\ \A j \in Users(r) : Nth(Users(r), 1) <= j
    BY <2>2, <2>3, NthBounds
  <2>5. PICK j \in Users(b) : Nth(Users(r), 1) = Len(a) + j
    BY <1>3, <2>4
  <2>6. j \in 1 .. Len(b)
    BY <1>1 DEF Users
  <2>7. Len(a) + j <= Len(a) + 1
    BY <2>2, <2>4, <2>5
  <2> QED
    BY <1>1, <2>1, <2>5, <2>6, <2>7
<1>6. b = <<>> => Users(b) = {}
  BY <1>1 DEF Users
<1>7. ASSUME UserFirst(b) PROVE Users(r) = {} <=> b = <<>>
  BY <1>3, <1>4, <1>5, <1>6, <1>7
<1> QED
  BY <1>3, <1>4, <1>5, <1>7 DEF r

LEMMA LeadingIs ==
  ASSUME NEW a \in Seq(Message), NEW b \in Seq(Message), NoUsers(a), UserFirst(b)
  PROVE  Leading(Cat(a, b)) = a
<1>1. /\ UserFirst(b) /\ b # <<>> => Nth(Users(Cat(a, b)), 1) = Len(a) + 1
      /\ UserFirst(b) => (Users(Cat(a, b)) = {} <=> b = <<>>)
  BY UsersOfCat
<1>2. SubSeq(Cat(a, b), 1, Len(a)) = a /\ Len(a) \in Nat
  BY CutOfCat, CatTypes
<1>3. CASE b = <<>>
  <2>1. Cat(a, b) = a
    BY <1>3, CatEmpty
  <2> QED
    BY <1>1, <1>3, <2>1 DEF Leading
<1>4. CASE b # <<>>
  <2>1. Nth(Users(Cat(a, b)), 1) - 1 = Len(a)
    BY <1>1, <1>2, <1>4
  <2> QED
    BY <1>1, <1>2, <1>4, <2>1 DEF Leading
<1> QED
  BY <1>3, <1>4

LEMMA SplitAtUser ==
  ASSUME NEW S \in SUBSET Message, NEW s \in Seq(S)
  PROVE  \E a, b \in Seq(S) : s = Cat(a, b) /\ NoUsers(a) /\ UserFirst(b)
<1>0. s \in Seq(Message)
  BY SeqMonotonic
<1>1. /\ Users(s) \in SUBSET (1 .. Len(s)) /\ Len(s) \in Nat
      /\ NoUsers(s) <=> Users(s) = {}
  BY <1>0, UsersFacts
<1>2. CASE Users(s) = {}
  <2>1. <<>> \in Seq(S) /\ s = Cat(s, <<>>)
    BY CatEmpty
  <2> QED
    BY <1>1, <1>2, <2>1 DEF UserFirst
<1>3. CASE Users(s) # {}
  <2> DEFINE i == Nth(Users(s), 1)
             a == SubSeq(s, 1, i - 1)
             b == SubSeq(s, i - 1 + 1, Len(s))
  <2>1. i \in Users(s) /\ \A j \in Users(s) : i <= j
    BY <1>1, <1>3, NthBounds
  <2>2. i \in 1 .. Len(s) /\ i - 1 \in 0 .. Len(s)
    BY <1>1, <2>1
  <2> HIDE DEF i
  <2>3. /\ a \in Seq(S) /\ b \in Seq(S) /\ Len(a) = i - 1 /\ Len(b) = Len(s) - (i - 1)
        /\ s = Cat(a, b)
    BY <2>2, CutAt
  <2> HIDE DEF a, b
  <2>4. a \in Seq(S) /\ b \in Seq(S)
    BY <2>3
  <2>5. /\ \A k \in 1 .. Len(a) : Cat(a, b)[k] = a[k]
        /\ \A k \in 1 .. Len(b) : Cat(a, b)[Len(a) + k] = b[k]
    BY <2>4, CatElements
  <2>6. /\ DOMAIN a = 1 .. Len(a) /\ DOMAIN b = 1 .. Len(b) /\ DOMAIN s = 1 .. Len(s)
    BY <2>4, LenProperties
  <2>7. NoUsers(a)
    <3> SUFFICES ASSUME NEW k \in DOMAIN a, a[k].role = "user" PROVE FALSE
      BY DEF NoUsers
    <3>1. k \in 1 .. Len(a) /\ k \in DOMAIN s /\ s[k] = a[k] /\ k < i
      BY <1>1, <2>2, <2>3, <2>5, <2>6
    <3>2. k \in Users(s)
      BY <3>1 DEF Users
    <3> QED
      BY <1>1, <2>1, <2>2, <3>1, <3>2
  <2>8. UserFirst(b)
    <3>1. 1 \in 1 .. Len(b) /\ Len(a) + 1 = i
      BY <1>1, <2>2, <2>3
    <3>2. b[1] = s[i]
      BY <2>3, <2>5, <3>1
    <3> QED
      BY <2>1, <3>2 DEF UserFirst, Users
  <2> QED
    BY <2>3, <2>7, <2>8
<1> QED
  BY <1>2, <1>3

-------------------------------------------------------------------------------
(* Nothing but the first message of a part may be a query.                 *)
OneUser(s) == \A i \in DOMAIN s : s[i].role = "user" => i = 1

(* What dropping the oldest n turns leaves.                                *)
LEMMA DropTurnsFacts ==
  ASSUME NEW S \in SUBSET Message, NEW a \in Seq(Message), NEW b \in Seq(S), NoUsers(a), UserFirst(b),
         NEW c, c = Cat(a, b), NEW n \in 0 .. CountTurns(c)
  PROVE  \E x, y \in Seq(S) :
           /\ b = Cat(x, y) /\ DropTurns(c, n) = Cat(a, y) /\ UserFirst(y)
           /\ n = CountTurns(c) => y = <<>>
           /\ n # CountTurns(c) => y # <<>>
           /\ n + 1 = CountTurns(c) => OneUser(y)
<1> DEFINE us == Users(c)
           m == CountTurns(c)
<1>0. b \in Seq(Message)
  BY SeqMonotonic
<1>1. /\ c \in Seq(Message) /\ Len(c) = Len(a) + Len(b)
      /\ Len(a) \in Nat /\ Len(b) \in Nat
      /\ DOMAIN a = 1 .. Len(a) /\ DOMAIN b = 1 .. Len(b) /\ DOMAIN c = 1 .. Len(a) + Len(b)
  BY <1>0, CatTypes
<1>2. /\ \A i \in 1 .. Len(a) : c[i] = a[i]
      /\ \A i \in 1 .. Len(b) : c[Len(a) + i] = b[i]
  BY <1>0, CatElements
<1>3. /\ us \in SUBSET (1 .. Len(c)) /\ Len(c) \in Nat /\ m \in Nat /\ m = Cardinality(us)
      /\ m = 0 <=> us = {}
  BY <1>1, UsersFacts
<1>4. /\ \A i : i \in us <=> \E j \in Users(b) : i = Len(a) + j
      /\ b # <<>> => Nth(us, 1) = Len(a) + 1
      /\ us = {} <=> b = <<>>
  BY <1>0, UsersOfCat
<1>5. <<>> \in Seq(S) /\ Cat(<<>>, b) = b /\ Cat(b, <<>>) = b
  BY CatEmpty
<1>6. Users(b) \in SUBSET (1 .. Len(b)) /\ \A i \in 1 .. Len(b) : b[i].role = "user" => i \in Users(b)
  BY <1>1 DEF Users
<1>7. m # 0 => /\ \A j \in us : j <= Nth(us, m)
               /\ Nth(us, m) \in us
  BY <1>3, NthBounds
<1>8. n \in Nat /\ n <= m
  BY <1>3
<1> HIDE DEF us, m
<1>9. CASE n = 0
  <2>1. DropTurns(c, n) = Cat(a, b)
    BY <1>9 DEF DropTurns
  <2>2. n = m => b = <<>>
    BY <1>3, <1>4, <1>9
  <2>3. n # m => b # <<>>
    BY <1>3, <1>4, <1>9
  <2>4. ASSUME n + 1 = m, NEW i \in DOMAIN b, b[i].role = "user" PROVE i = 1
    <3>1. b # <<>> /\ m = 1
      BY <1>3, <1>4, <1>9, <2>4
    <3>2. i \in Users(b) /\ i \in 1 .. Len(b)
      BY <1>1, <1>6, <2>4
    <3>3. Len(a) + i \in us
      BY <1>4, <3>2
    <3>4. Len(a) + i <= Len(a) + 1
      BY <1>4, <1>7, <3>1, <3>3
    <3> QED
      BY <1>1, <3>2, <3>4
  <2>5. <<>> \in Seq(S) /\ b \in Seq(S) /\ b = Cat(<<>>, b)
    BY <1>5
  <2>6. n + 1 = m => OneUser(b)
    BY <2>4 DEF OneUser
  <2> QED
    BY <2>1, <2>2, <2>3, <2>5, <2>6 DEF m
<1>10. CASE n # 0
  <2>1. b # <<>> /\ us # {} /\ m # 0
    BY <1>3, <1>4, <1>8, <1>10
  <2>2. SubSeq(c, 1, Nth(us, 1) - 1) = a
    <3>1. Nth(us, 1) - 1 = Len(a)
      BY <1>1, <1>4, <2>1
    <3> QED
      BY <1>0, <3>1, CutOfCat
  <2>3. CASE n = m
    <3>1. DropTurns(c, n) = a \o <<>>
      BY <1>3, <1>10, <2>2, <2>3 DEF DropTurns, us, m
    <3>2. DropTurns(c, n) = Cat(a, <<>>)
      BY <3>1 DEF Cat
    <3>3. n + 1 # m /\ UserFirst(<<>>)
      BY <1>3, <2>3 DEF UserFirst
    <3> QED
      BY <1>5, <2>3, <3>2, <3>3 DEF m
  <2>4. CASE n # m
    <3> DEFINE j == Nth(us, n + 1)
               q == j - Len(a)
               x == SubSeq(b, 1, q - 1)
               y == SubSeq(b, q - 1 + 1, Len(b))
    <3>1. n + 1 \in 1 .. m /\ 1 \in 1 .. m /\ 1 < n + 1
      BY <1>3, <1>8, <1>10, <2>4
    <3>2. j \in us /\ Nth(us, 1) < j
      <4>1. \A k, l \in 1 .. Cardinality(us) : k < l => Nth(us, k) < Nth(us, l)
        BY <1>3, NthIncreases
      <4>2. j \in us
        BY <1>3, <3>1, NthHasRank
      <4> QED
        BY <1>3, <3>1, <4>1, <4>2
    <3>3. PICK k \in Users(b) : j = Len(a) + k
      BY <1>4, <3>2
    <3>4. /\ k \in 1 .. Len(b) /\ q = k /\ q - 1 \in 0 .. Len(b) /\ q > 1
          /\ b[q].role = "user"
      <4>1. k \in 1 .. Len(b) /\ b[k].role = "user"
        BY <1>6 DEF Users
      <4>2. q = k /\ Len(a) + 1 < Len(a) + k
        BY <1>1, <1>4, <2>1, <3>2, <3>3, <4>1
      <4> QED
        BY <1>1, <4>1, <4>2
    <3> HIDE DEF j
    <3>5. /\ x \in Seq(S) /\ y \in Seq(S) /\ Len(x) = q - 1 /\ Len(y) = Len(b) - (q - 1)
          /\ b = Cat(x, y)
      BY <3>4, CutAt
    <3> HIDE DEF x, y
    <3>6. x \in Seq(Message) /\ y \in Seq(Message)
      BY <3>5, SeqMonotonic
    <3>7. SubSeq(c, j, Len(c)) = y
      <4>1. c = Cat(Cat(a, x), y)
        BY <3>5, <3>6, CatAssoc
      <4>2. Cat(a, x) \in Seq(Message) /\ Len(Cat(a, x)) = Len(a) + Len(x)
        BY <3>6, CatTypes
      <4>3. SubSeq(Cat(Cat(a, x), y), Len(Cat(a, x)) + 1, Len(Cat(Cat(a, x), y))) = y
        BY <3>6, <4>2, CutOfCat
      <4>4. Len(Cat(a, x)) + 1 = j
        BY <1>1, <3>3, <3>4, <3>5, <4>2
      <4> QED
        BY <4>1, <4>3, <4>4
    <3>8. DropTurns(c, n) = Cat(a, y)
      <4>1. DropTurns(c, n) = SubSeq(c, 1, Nth(us, 1) - 1) \o SubSeq(c, Nth(us, n + 1), Len(c))
        BY <1>3, <1>10, <2>4 DEF DropTurns, us, m
      <4> QED
        BY <2>2, <3>7, <4>1 DEF Cat, j
    <3>9. /\ \A i \in 1 .. Len(x) : Cat(x, y)[i] = x[i]
          /\ \A i \in 1 .. Len(y) : Cat(x, y)[Len(x) + i] = y[i]
      BY <3>6, CatElements
    <3>10. DOMAIN y = 1 .. Len(y) /\ 1 \in 1 .. Len(y)
      BY <1>1, <3>4, <3>5, <3>6, LenProperties
    <3>11. y # <<>> /\ y[1].role = "user"
      <4>1. Len(x) + 1 = q
        BY <1>1, <3>4, <3>5
      <4>2. y[1] = b[q]
        BY <3>5, <3>9, <3>10, <4>1
      <4> QED
        BY <3>4, <3>10, <4>2
    <3>12. ASSUME n + 1 = m, NEW i \in DOMAIN y, y[i].role = "user" PROVE i = 1
      <4>1. i \in 1 .. Len(y) /\ Len(x) + i \in 1 .. Len(b)
        BY <1>1, <3>4, <3>5, <3>10
      <4>2. b[Len(x) + i] = y[i]
        BY <3>5, <3>9, <4>1
      <4>3. Len(a) + (Len(x) + i) \in us
        BY <1>4, <1>6, <3>12, <4>1, <4>2
      <4>4. Len(a) + (Len(x) + i) <= j
        BY <1>7, <2>1, <3>12, <4>3 DEF j
      <4>5. i \in 1 .. Len(y) /\ Len(y) \in Nat /\ Len(x) \in Nat /\ Len(a) \in Nat
        BY <1>1, <3>4, <3>5, <4>1
      <4>6. k = Len(x) + 1 /\ j = Len(a) + k
        BY <1>1, <3>3, <3>4, <3>5
      <4> QED
        BY <4>4, <4>5, <4>6
    <3>13. n + 1 = m => OneUser(y)
      BY <3>12 DEF OneUser
    <3> QED
      BY <2>4, <3>5, <3>8, <3>11, <3>13 DEF UserFirst, m
  <2> QED
    BY <2>3, <2>4
<1> QED
  BY <1>9, <1>10

(* What the last k turns are, if there are more.                           *)
LEMMA LastTurnsFacts ==
  ASSUME NEW s \in Seq(Message), NEW k \in Nat, k > 0, Cardinality(Starts(s)) > k
  PROVE  \E x, y \in Seq(Message) :
           /\ s = Cat(x, y) /\ x # <<>> /\ y # <<>> /\ UserFirst(y)
           /\ LastTurns(s, k) = y /\ SubSeq(s, 1, Len(s) - Len(y)) = x
<1> DEFINE st == Starts(s)
           n == Cardinality(st)
           j == Nth(st, n - k + 1)
           x == SubSeq(s, 1, j - 1)
           y == SubSeq(s, j - 1 + 1, Len(s))
<1>1. st \in SUBSET (1 .. Len(s)) /\ Len(s) \in Nat /\ DOMAIN s = 1 .. Len(s)
  BY LenProperties DEF Starts
<1>2. n \in Nat
  BY <1>1, UpToFacts
<1>3. n - k + 1 \in 1 .. n /\ 1 \in 1 .. n /\ 1 < n - k + 1
  BY <1>2
<1> HIDE DEF n
<1>4. j \in st /\ Nth(st, 1) \in st /\ Nth(st, 1) < j
  <2>1. \A i, l \in 1 .. Cardinality(st) : i < l => Nth(st, i) < Nth(st, l)
    BY <1>1, NthIncreases
  <2>2. \A i \in 1 .. Cardinality(st) : Nth(st, i) \in st
    BY <1>1, NthHasRank
  <2> QED
    BY <1>3, <2>1, <2>2 DEF n
<1>5. j \in 1 .. Len(s) /\ j > 1 /\ s[j].role = "user" /\ j - 1 \in 0 .. Len(s)
  <2>1. j \in 1 .. Len(s) /\ j > 1
    BY <1>1, <1>4
  <2>2. s[j].role = "user"
    BY <1>4, <2>1 DEF Starts
  <2> QED
    BY <1>1, <2>1, <2>2
<1>6. LastTurns(s, k) = SubSeq(s, j, Len(s))
  BY DEF LastTurns, n
<1> HIDE DEF j
<1>7. /\ x \in Seq(Message) /\ y \in Seq(Message) /\ Len(x) = j - 1 /\ Len(y) = Len(s) - (j - 1)
      /\ s = Cat(x, y)
  BY <1>5, CutAt
<1>8. LastTurns(s, k) = y
  BY <1>5, <1>6
<1> HIDE DEF x, y
<1>9. x \in Seq(Message) /\ y \in Seq(Message)
  BY <1>7
<1>10. \A i \in 1 .. Len(y) : Cat(x, y)[Len(x) + i] = y[i]
  BY <1>9, CatElements
<1>11. x # <<>> /\ y # <<>> /\ UserFirst(y)
  <2>1. Len(x) # 0 /\ 1 \in 1 .. Len(y) /\ Len(x) + 1 = j
    BY <1>1, <1>5, <1>7
  <2>2. y[1] = s[j]
    BY <1>7, <1>10, <2>1
  <2>3. x # <<>> /\ y # <<>>
    BY <1>9, <2>1
  <2> QED
    BY <1>5, <2>2, <2>3 DEF UserFirst
<1>12. SubSeq(s, 1, Len(s) - Len(y)) = x
  <2>1. Len(s) - Len(y) = Len(x)
    BY <1>1, <1>5, <1>7
  <2> QED
    BY <1>7, <1>9, <2>1, CutOfCat
<1> QED
  BY <1>7, <1>8, <1>11, <1>12

-------------------------------------------------------------------------------
(* What stays of a log is in the order of the log.                         *)
LEMMA GoodSub ==
  ASSUME NEW now \in Nat, NEW s, Good(s, now), NEW r \in Seq(Plain),
         NEW f \in [1 .. Len(r) -> 1 .. Len(s)],
         \A k, l \in 1 .. Len(r) : k < l => f[k] < f[l],
         \A k \in 1 .. Len(r) : r[k] = s[f[k]]
  PROVE  Good(r, now)
<1>1. /\ DOMAIN r = 1 .. Len(r) /\ DOMAIN s = 1 .. Len(s)
      /\ Ordered(s) /\ \A i \in DOMAIN s : s[i].turn <= now
  BY LenProperties DEF Good
<1>2. \A i \in DOMAIN r : f[i] \in DOMAIN s /\ r[i] = s[f[i]]
  BY <1>1
<1>3. Ordered(r)
  <2> SUFFICES ASSUME NEW i \in DOMAIN r, NEW j \in DOMAIN r, i < j
               PROVE  /\ r[i].turn <= r[j].turn /\ r[j].turn > 0
                      /\ r[j].role = "user" => r[i].turn < r[j].turn
    BY DEF Ordered
  <2>1. /\ f[i] \in DOMAIN s /\ f[j] \in DOMAIN s /\ f[i] < f[j]
        /\ r[i] = s[f[i]] /\ r[j] = s[f[j]]
    BY <1>1, <1>2
  <2> QED
    BY <1>1, <2>1 DEF Ordered
<1>4. \A i \in DOMAIN r : r[i].turn <= now
  BY <1>1, <1>2
<1> QED
  BY <1>3, <1>4 DEF Good

LEMMA GoodParts ==
  ASSUME NEW now \in Nat, NEW x \in Seq(Plain), NEW y \in Seq(Plain), Good(Cat(x, y), now)
  PROVE  Good(x, now) /\ Good(y, now)
<1> DEFINE r == Cat(x, y)
           f == [k \in 1 .. Len(x) |-> k]
           g == [k \in 1 .. Len(y) |-> Len(x) + k]
<1>1. r \in Seq(Plain) /\ Len(r) = Len(x) + Len(y) /\ Len(x) \in Nat /\ Len(y) \in Nat
  BY CatTypes
<1>2. /\ \A i \in 1 .. Len(x) : r[i] = x[i]
      /\ \A i \in 1 .. Len(y) : r[Len(x) + i] = y[i]
  BY CatElements
<1>3. Good(r, now)
  OBVIOUS
<1> HIDE DEF r
<1>4. /\ f \in [1 .. Len(x) -> 1 .. Len(r)] /\ g \in [1 .. Len(y) -> 1 .. Len(r)]
  BY <1>1
<1>5. /\ \A k, l \in 1 .. Len(x) : k < l => f[k] < f[l]
      /\ \A k \in 1 .. Len(x) : x[k] = r[f[k]]
  BY <1>1, <1>2
<1>8. /\ \A k, l \in 1 .. Len(y) : k < l => g[k] < g[l]
      /\ \A k \in 1 .. Len(y) : y[k] = r[g[k]]
  BY <1>1, <1>2
<1> HIDE DEF f, g
<1>6. Good(x, now)
  <2>1. f \in [1 .. Len(x) -> 1 .. Len(r)]
    BY <1>4
  <2> QED
    BY <1>3, <1>5, <2>1, GoodSub
<1>7. Good(y, now)
  <2>1. g \in [1 .. Len(y) -> 1 .. Len(r)]
    BY <1>4
  <2> QED
    BY <1>3, <1>8, <2>1, GoodSub
<1> QED
  BY <1>6, <1>7

LEMMA GoodCut ==
  ASSUME NEW now \in Nat, NEW x \in Seq(Plain), NEW y \in Seq(Plain), NEW z \in Seq(Plain),
         Good(Cat(x, Cat(y, z)), now)
  PROVE  Good(Cat(x, z), now)
<1> DEFINE w == Cat(y, z)
           s == Cat(x, w)
           r == Cat(x, z)
           f == [k \in 1 .. Len(r) |-> IF k <= Len(x) THEN k ELSE Len(y) + k]
<1>1. /\ w \in Seq(Plain) /\ Len(w) = Len(y) + Len(z)
      /\ Len(y) \in Nat /\ Len(z) \in Nat
  BY CatTypes
<1>2. \A i \in 1 .. Len(z) : w[Len(y) + i] = z[i]
  BY CatElements
<1> HIDE DEF w
<1>3. s \in Seq(Plain) /\ Len(s) = Len(x) + Len(w) /\ Len(x) \in Nat
  BY <1>1, CatTypes
<1>4. /\ \A i \in 1 .. Len(x) : s[i] = x[i]
      /\ \A i \in 1 .. Len(w) : s[Len(x) + i] = w[i]
  <2>1. w \in Seq(Plain)
    BY <1>1
  <2> QED
    BY <2>1, CatElements
<1>5. r \in Seq(Plain) /\ Len(r) = Len(x) + Len(z)
  BY CatTypes
<1>6. /\ \A i \in 1 .. Len(x) : r[i] = x[i]
      /\ \A i \in 1 .. Len(z) : r[Len(x) + i] = z[i]
  BY CatElements
<1>7. Good(s, now)
  BY DEF w
<1> HIDE DEF s, r
<1>8. f \in [1 .. Len(r) -> 1 .. Len(s)]
  BY <1>1, <1>3, <1>5
<1>9. \A k, l \in 1 .. Len(r) : k < l => f[k] < f[l]
  BY <1>1, <1>3, <1>5
<1>10. ASSUME NEW k \in 1 .. Len(r) PROVE r[k] = s[f[k]]
  <2>1. CASE k <= Len(x)
    BY <1>3, <1>4, <1>6, <2>1
  <2>2. CASE ~(k <= Len(x))
    <3> DEFINE i == k - Len(x)
    <3>1. i \in 1 .. Len(z) /\ Len(x) + i = k /\ Len(y) + i \in 1 .. Len(w)
      BY <1>1, <1>3, <1>5, <2>2
    <3>2. f[k] = Len(x) + (Len(y) + i)
      BY <1>1, <1>3, <2>2
    <3>3. r[k] = z[i] /\ s[Len(x) + (Len(y) + i)] = w[Len(y) + i] /\ w[Len(y) + i] = z[i]
      BY <1>2, <1>4, <1>6, <3>1
    <3> QED
      BY <3>2, <3>3
  <2> QED
    BY <2>1, <2>2
<1> HIDE DEF f
<1>11. \A k \in 1 .. Len(r) : r[k] = s[f[k]]
  BY <1>10
<1>12. Good(r, now)
  BY <1>5, <1>7, <1>8, <1>9, <1>11, GoodSub
<1> QED
  BY <1>12 DEF r

LEMMA GoodThose ==
  ASSUME NEW now \in Nat, NEW s, Good(s, now), NEW A
  PROVE  Those(s, A) \in Seq(Plain) /\ Good(Those(s, A), now)
<1>1. s \in Seq(Plain)
  BY DEF Good
<1> DEFINE r == Those(s, A)
<1>2. r \in Seq(Plain)
  BY <1>1, ThoseFacts
<1>3. \E f \in [1 .. Len(r) -> 1 .. Len(s)] :
        /\ \A k \in 1 .. Len(r) : r[k] = s[f[k]]
        /\ \A k, l \in 1 .. Len(r) : k < l => f[k] < f[l]
  BY <1>1, ThoseFacts
<1> HIDE DEF r
<1>4. Good(r, now)
  BY <1>2, <1>3, GoodSub
<1> QED
  BY <1>2, <1>4 DEF r

LEMMA OneMessage ==
  ASSUME NEW S, NEW m \in S
  PROVE  /\ <<m>> \in Seq(S) /\ Len(<<m>>) = 1 /\ <<m>>[1] = m /\ <<m>> # <<>>
         /\ DOMAIN <<m>> = {1} /\ Range(<<m>>) = {m}
<1>1. <<m>> \in Seq(S) /\ Len(<<m>>) = 1 /\ <<m>>[1] = m /\ DOMAIN <<m>> = 1 .. 1
  OBVIOUS
<1>2. 1 .. 1 = {1}
  OBVIOUS
<1>3. Range(<<m>>) = {m}
  BY <1>1, <1>2 DEF Range
<1> QED
  BY <1>1, <1>2, <1>3

LEMMA GoodAppend ==
  ASSUME NEW now \in Nat, NEW later \in Nat, NEW s, Good(s, now), NEW m \in Plain,
         m.turn = later, later > 0, now <= later, m.role = "user" => now < later
  PROVE  Good(Cat(s, <<m>>), later)
<1>1. /\ s \in Seq(Plain) /\ Ordered(s) /\ \A i \in DOMAIN s : s[i].turn <= now
  BY DEF Good
<1>2. <<m>> \in Seq(Plain) /\ Len(<<m>>) = 1 /\ <<m>>[1] = m /\ DOMAIN <<m>> = {1}
  BY OneMessage
<1>3. \A i \in DOMAIN s : s[i].turn \in Nat
  BY <1>1, PlainElements
<1> DEFINE t == <<m>>
<1>4. t \in Seq(Plain) /\ Ordered(t)
  BY <1>2 DEF Ordered
<1>5. \A i \in DOMAIN s : \A j \in DOMAIN t :
        s[i].turn <= t[j].turn /\ t[j].turn > 0 /\ (t[j].role = "user" => s[i].turn < t[j].turn)
  BY <1>1, <1>2, <1>3
<1>6. \A j \in DOMAIN t : t[j].turn <= later
  BY <1>2
<1> HIDE DEF t
<1>7. Ordered(Cat(s, t))
  BY <1>1, <1>4, <1>5, OrderedJoin
<1>8. /\ Cat(s, t) \in Seq(Plain) /\ Len(s) \in Nat /\ Len(t) \in Nat
      /\ DOMAIN s = 1 .. Len(s) /\ DOMAIN t = 1 .. Len(t) /\ DOMAIN Cat(s, t) = 1 .. Len(s) + Len(t)
  BY <1>1, <1>4, CatTypes
<1>9. /\ \A i \in 1 .. Len(s) : Cat(s, t)[i] = s[i]
      /\ \A i \in 1 .. Len(t) : Cat(s, t)[Len(s) + i] = t[i]
  BY <1>1, <1>4, CatElements
<1>10. ASSUME NEW i \in DOMAIN Cat(s, t) PROVE Cat(s, t)[i].turn <= later
  <2>1. CASE i <= Len(s)
    <3>1. i \in DOMAIN s /\ Cat(s, t)[i] = s[i]
      BY <1>8, <1>9, <2>1
    <3> QED
      BY <1>1, <1>3, <3>1
  <2>2. CASE ~(i <= Len(s))
    <3>1. i - Len(s) \in DOMAIN t /\ Len(s) + (i - Len(s)) = i
      BY <1>8, <2>2
    <3>2. Cat(s, t)[i] = t[i - Len(s)]
      BY <1>8, <1>9, <3>1
    <3> QED
      BY <1>6, <3>1, <3>2
  <2> QED
    BY <2>1, <2>2
<1>11. Good(Cat(s, t), later)
  BY <1>7, <1>8, <1>10 DEF Good
<1> QED
  BY <1>11 DEF t

LEMMA QueryOfCat ==
  ASSUME NEW x \in Seq(Plain), NEW y \in Seq(Plain), NEW now
  PROVE  /\ Query(Cat(x, y), now) <=> Query(x, now) \/ Query(y, now)
         /\ NoUsers(x) => ~Query(x, now)
<1> DEFINE r == Cat(x, y)
<1>1. /\ Len(x) \in Nat /\ Len(y) \in Nat
      /\ DOMAIN x = 1 .. Len(x) /\ DOMAIN y = 1 .. Len(y) /\ DOMAIN r = 1 .. Len(x) + Len(y)
  BY CatTypes
<1>2. /\ \A i \in 1 .. Len(x) : r[i] = x[i]
      /\ \A i \in 1 .. Len(y) : r[Len(x) + i] = y[i]
  BY CatElements
<1> HIDE DEF r
<1>3. ASSUME Query(r, now) PROVE Query(x, now) \/ Query(y, now)
  <2>1. PICK i \in DOMAIN r : r[i].role = "user" /\ r[i].turn = now
    BY <1>3 DEF Query
  <2>2. CASE i <= Len(x)
    BY <1>1, <1>2, <2>1, <2>2 DEF Query
  <2>3. CASE ~(i <= Len(x))
    <3>1. i - Len(x) \in 1 .. Len(y) /\ Len(x) + (i - Len(x)) = i
      BY <1>1, <2>3
    <3>2. r[i] = y[i - Len(x)]
      BY <1>2, <3>1
    <3> QED
      BY <1>1, <2>1, <3>1, <3>2 DEF Query
  <2> QED
    BY <2>2, <2>3
<1>4. ASSUME Query(x, now) PROVE Query(r, now)
  <2>1. PICK i \in DOMAIN x : x[i].role = "user" /\ x[i].turn = now
    BY <1>4 DEF Query
  <2>2. i \in DOMAIN r /\ r[i] = x[i]
    BY <1>1, <1>2
  <2> QED
    BY <2>1, <2>2 DEF Query
<1>5. ASSUME Query(y, now) PROVE Query(r, now)
  <2>1. PICK i \in DOMAIN y : y[i].role = "user" /\ y[i].turn = now
    BY <1>5 DEF Query
  <2>2. Len(x) + i \in DOMAIN r /\ r[Len(x) + i] = y[i]
    BY <1>1, <1>2
  <2> QED
    BY <2>1, <2>2 DEF Query
<1>6. NoUsers(x) => ~Query(x, now)
  BY DEF NoUsers, Query
<1> QED
  BY <1>3, <1>4, <1>5, <1>6 DEF r

(* The query of the present turn is in the last part that starts a turn.   *)
LEMMA QueryInLast ==
  ASSUME NEW now \in Nat, NEW x \in Seq(Plain), NEW y \in Seq(Plain), Good(Cat(x, y), now),
         Query(Cat(x, y), now), y # <<>>, UserFirst(y)
  PROVE  Query(y, now) /\ ~Query(x, now)
<1>1. Before(x, y)
  <2>1. Ordered(Cat(x, y))
    BY DEF Good
  <2> QED
    BY <2>1, OrderedParts
<1>2. Good(y, now)
  BY GoodParts
<1>3. 1 \in DOMAIN y /\ y[1].turn <= now /\ y[1].turn \in Nat
  <2>1. 1 \in DOMAIN y /\ y[1].turn \in Nat
    BY PlainElements
  <2> QED
    BY <1>2, <2>1 DEF Good
<1>4. ~Query(x, now)
  <2> SUFFICES ASSUME NEW i \in DOMAIN x, x[i].turn = now PROVE FALSE
    BY DEF Query
  <2>1. x[i].turn < y[1].turn
    BY <1>1, <1>3 DEF Before
  <2> QED
    BY <1>3, <2>1
<1> QED
  BY <1>4, QueryOfCat

LEMMA TurnsOfCat ==
  ASSUME NEW S, NEW x \in Seq(S), NEW y \in Seq(S)
  PROVE  Turns(Cat(x, y)) = Turns(x) \cup Turns(y) /\ Covers(Cat(x, y)) = Covers(x) \cup Covers(y)
BY RangeOfCat DEF Turns, Covers

LEMMA TurnsAre ==
  ASSUME NEW S, NEW x \in Seq(S)
  PROVE  \A t : t \in Turns(x) <=> \E i \in DOMAIN x : x[i].turn = t
BY DEF Turns, Range

-------------------------------------------------------------------------------
(* Estimates.  The recursion of Estimate is defined.                       *)
LEMMA EstimateLoop ==
  ASSUME NEW S, NEW s \in Seq(S)
  PROVE  \E total :
           /\ DOMAIN total = 0 .. Len(s) /\ total[0] = 0
           /\ \A n \in 1 .. Len(s) : total[n] = total[n - 1] + s[n].size
           /\ Estimate(s) = total[Len(s)]
<1> DEFINE Loop(f, N) == f = [n \in 0 .. N |-> IF n = 0 THEN 0 ELSE f[n - 1] + s[n].size]
           Reached == {N \in Nat : \E f : Loop(f, N)}
<1>1. 0 \in Reached
  <2>1. Loop([n \in 0 .. 0 |-> 0], 0)
    OBVIOUS
  <2> QED
    BY <2>1
<1>2. ASSUME NEW N \in Reached PROVE N + 1 \in Reached
  <2>1. PICK f : Loop(f, N)
    OBVIOUS
  <2> DEFINE g == [n \in 0 .. N + 1 |-> IF n = N + 1 THEN f[N] + s[N + 1].size ELSE f[n]]
  <2>2. ASSUME NEW n \in 0 .. N + 1
        PROVE  g[n] = IF n = 0 THEN 0 ELSE g[n - 1] + s[n].size
    <3>1. CASE n = 0
      BY <2>1, <3>1
    <3>2. CASE n \in 1 .. N
      <4>1. n - 1 \in 0 .. N /\ n # N + 1 /\ n - 1 # N + 1 /\ n \in 0 .. N /\ n # 0
        BY <3>2
      <4>2. g[n] = f[n] /\ g[n - 1] = f[n - 1]
        BY <4>1
      <4>3. f[n] = f[n - 1] + s[n].size
        BY <2>1, <4>1
      <4> QED
        BY <4>1, <4>2, <4>3
    <3>3. CASE n = N + 1
      <4>1. n - 1 = N /\ N \in 0 .. N + 1 /\ N # N + 1 /\ n # 0
        BY <3>3
      <4>2. g[n - 1] = f[N] /\ g[n] = f[N] + s[N + 1].size
        BY <3>3, <4>1
      <4> QED
        BY <3>3, <4>1, <4>2
    <3> QED
      BY <3>1, <3>2, <3>3
  <2>3. Loop(g, N + 1)
    <3>1. g = [n \in 0 .. N + 1 |-> g[n]]
      OBVIOUS
    <3> HIDE DEF g
    <3> QED
      BY <2>2, <3>1
  <2>4. N + 1 \in Nat
    OBVIOUS
  <2> HIDE DEF Loop
  <2> QED
    BY <2>3, <2>4
<1>3. Len(s) \in Reached
  <2> HIDE DEF Reached
  <2>1. Reached \in SUBSET Nat
    BY DEF Reached
  <2>2. \A N \in Nat : N \in Reached
    BY <1>1, <1>2, <2>1, InductiveSet
  <2> QED
    BY <2>2
<1> DEFINE total == CHOOSE f : Loop(f, Len(s))
<1>4. Loop(total, Len(s))
  <2>1. \E f : Loop(f, Len(s))
    BY <1>3
  <2> HIDE DEF Loop
  <2> QED
    BY <2>1
<1>5. Estimate(s) = total[Len(s)]
  BY DEF Estimate
<1>6. Len(s) \in Nat
  OBVIOUS
<1> HIDE DEF total
<1>7. /\ DOMAIN total = 0 .. Len(s) /\ total[0] = 0
      /\ \A n \in 1 .. Len(s) : total[n] = total[n - 1] + s[n].size
  BY <1>4, <1>6
<1> QED
  BY <1>5, <1>7

LEMMA EstimateOfCat ==
  ASSUME NEW x \in Seq(Message), NEW y \in Seq(Message)
  PROVE  /\ Estimate(x) \in Nat /\ Estimate(y) \in Nat
         /\ Estimate(Cat(x, y)) = Estimate(x) + Estimate(y)
<1> DEFINE r == Cat(x, y)
<1>1. /\ r \in Seq(Message) /\ Len(r) = Len(x) + Len(y)
      /\ Len(x) \in Nat /\ Len(y) \in Nat
  BY CatTypes
<1>2. /\ \A i \in 1 .. Len(x) : r[i] = x[i]
      /\ \A i \in 1 .. Len(y) : r[Len(x) + i] = y[i]
  BY CatElements
<1> HIDE DEF r
<1>3. PICK a : /\ a[0] = 0 /\ \A n \in 1 .. Len(x) : a[n] = a[n - 1] + x[n].size
               /\ Estimate(x) = a[Len(x)]
  BY EstimateLoop
<1>4. PICK b : /\ b[0] = 0 /\ \A n \in 1 .. Len(y) : b[n] = b[n - 1] + y[n].size
               /\ Estimate(y) = b[Len(y)]
  BY EstimateLoop
<1>5. PICK c : /\ c[0] = 0 /\ \A n \in 1 .. Len(r) : c[n] = c[n - 1] + r[n].size
               /\ Estimate(r) = c[Len(r)]
  BY <1>1, EstimateLoop
<1>6. /\ \A i \in 1 .. Len(x) : x[i].size \in Nat
      /\ \A i \in 1 .. Len(y) : y[i].size \in Nat
  <2>1. /\ \A i \in 1 .. Len(x) : x[i] \in Message
        /\ \A i \in 1 .. Len(y) : y[i] \in Message
    BY ElementOfSeq
  <2> QED
    BY <2>1 DEF Message
<1>7. \A n \in Nat : n <= Len(x) => a[n] \in Nat /\ c[n] = a[n]
  <2> DEFINE Same == {n \in Nat : n <= Len(x) => a[n] \in Nat /\ c[n] = a[n]}
  <2>1. 0 \in Same
    BY <1>3, <1>5
  <2>2. ASSUME NEW n \in Same PROVE n + 1 \in Same
    <3> SUFFICES ASSUME n + 1 <= Len(x) PROVE a[n + 1] \in Nat /\ c[n + 1] = a[n + 1]
      OBVIOUS
    <3>1. n \in Nat /\ n + 1 \in 1 .. Len(x) /\ n + 1 \in 1 .. Len(r) /\ n + 1 - 1 = n /\ n <= Len(x)
      BY <1>1
    <3>2. a[n + 1] = a[n] + x[n + 1].size /\ c[n + 1] = c[n] + r[n + 1].size
      BY <1>3, <1>5, <3>1
    <3>3. a[n] \in Nat /\ c[n] = a[n]
      BY <3>1
    <3> QED
      BY <1>2, <1>6, <3>1, <3>2, <3>3
  <2> HIDE DEF Same
  <2>3. Same \in SUBSET Nat
    BY DEF Same
  <2>4. \A n \in Nat : n \in Same
    BY <2>1, <2>2, <2>3, InductiveSet
  <2> QED
    BY <2>4 DEF Same
<1>8. a[Len(x)] \in Nat /\ c[Len(x)] = a[Len(x)]
  BY <1>1, <1>7
<1>9. \A n \in Nat : n <= Len(y) => b[n] \in Nat /\ c[Len(x) + n] = a[Len(x)] + b[n]
  <2> DEFINE Same == {n \in Nat : n <= Len(y) => b[n] \in Nat /\ c[Len(x) + n] = a[Len(x)] + b[n]}
  <2>1. 0 \in Same
    <3>1. Len(x) + 0 = Len(x)
      BY <1>1
    <3> QED
      BY <1>4, <1>8, <3>1
  <2>2. ASSUME NEW n \in Same PROVE n + 1 \in Same
    <3> SUFFICES ASSUME n + 1 <= Len(y)
                 PROVE  b[n + 1] \in Nat /\ c[Len(x) + (n + 1)] = a[Len(x)] + b[n + 1]
      OBVIOUS
    <3> DEFINE k == Len(x) + (n + 1)
    <3>1. /\ n \in Nat /\ n + 1 \in 1 .. Len(y) /\ n + 1 - 1 = n /\ n <= Len(y)
          /\ k \in 1 .. Len(r) /\ k - 1 = Len(x) + n
      BY <1>1
    <3>2. b[n + 1] = b[n] + y[n + 1].size
      <4>1. b[n + 1] = b[n + 1 - 1] + y[n + 1].size
        BY <1>4, <3>1
      <4> QED
        BY <3>1, <4>1
    <3>3. c[k] = c[Len(x) + n] + r[k].size
      BY <1>5, <3>1
    <3>4. b[n] \in Nat /\ c[Len(x) + n] = a[Len(x)] + b[n]
      BY <3>1
    <3>5. r[k] = y[n + 1] /\ y[n + 1].size \in Nat
      BY <1>2, <1>6, <3>1
    <3> QED
      <4>1. a[Len(x)] \in Nat /\ b[n] \in Nat /\ y[n + 1].size \in Nat
        BY <1>8, <3>4, <3>5
      <4>2. c[k] = (a[Len(x)] + b[n]) + y[n + 1].size
        BY <3>3, <3>4, <3>5
      <4> HIDE DEF Same, k
      <4>3. b[n + 1] \in Nat /\ c[k] = a[Len(x)] + b[n + 1]
        BY <3>2, <4>1, <4>2
      <4> QED
        BY <4>3 DEF k
  <2> HIDE DEF Same
  <2>3. Same \in SUBSET Nat
    BY DEF Same
  <2>4. \A n \in Nat : n \in Same
    BY <2>1, <2>2, <2>3, InductiveSet
  <2> QED
    BY <2>4 DEF Same
<1>10. b[Len(y)] \in Nat /\ c[Len(x) + Len(y)] = a[Len(x)] + b[Len(y)]
  BY <1>1, <1>9
<1> QED
  BY <1>1, <1>3, <1>4, <1>5, <1>8, <1>10 DEF r

-------------------------------------------------------------------------------
(* The invariant.  c is a conversation, l its log, p says whether the      *)
(* agent has a prompt, running that the turn now is under way.             *)

(* Every strategy but tokenlimit keeps the end K of the log, and but for   *)
(* slidingwindow it begins with a turn; a summary covers the rest, D.      *)
KeptByWindow(S, K, l, running, now) ==
  policy.strategy # "tokenlimit" =>
    \E D \in Seq(Plain) :
      /\ l = Cat(D, K)
      /\ policy.strategy # "slidingwindow" => Before(D, K) /\ (running => Query(K, now))
      /\ policy.strategy = "summary" =>
           Turns(D) \subseteq Covers(S) \cup {0} /\ Covers(S) \cap Turns(K) = {}

(* With tokenlimit what precedes the first query, a, stays; h is what      *)
(* turns have left behind their query, m what was dropped and r the turns  *)
(* that are kept.  A turn u has no room when a, what earlier turns left in *)
(* h and the turn itself exceed the limit with the prompt.                 *)
Earlier(h, u) == Those(h, {m \in Message : m.turn < u})
Over(a, h, l, u, p) ==
  Estimate(Cat(Cat(a, Earlier(h, u)), OfTurn(l, u))) + (IF p THEN 1 ELSE 0) > policy.keep
Ends(h, m, t) == \E z \in Seq(Message) : OfTurn(m, t) = Cat(z, OfTurn(h, t))
LeftOver(a, h, m, l, p) == \A t \in Turns(h) : Over(a, h, l, t, p) /\ Ends(h, m, t)
LastOver(a, h, l, p) == \E u \in Turns(l) : Over(a, h, l, u, p) /\ \A t \in Turns(l) : t <= u

Limited(a, h, m, r, K, l, running, p, now) ==
  /\ K = Cat(a, Cat(h, r)) /\ l = Cat(a, Cat(m, r))
  /\ NoUsers(a) /\ NoUsers(h) /\ UserFirst(Cat(m, r)) /\ UserFirst(r)
  /\ LeftOver(a, h, m, l, p)
  /\ r = <<>> /\ m # <<>> => LastOver(a, h, l, p)
  /\ running => r = <<>> \/ Query(r, now)

KeptByLimit(K, l, running, p, now) ==
  policy.strategy = "tokenlimit" =>
    \E a, h, m, r \in Seq(Plain) : Limited(a, h, m, r, K, l, running, p, now)

Holds(S, K, c, l, running, p, now) ==
  /\ c = Cat(PromptPart(p), Cat(S, K))
  /\ Brief(S, now) /\ Good(K, now)
  /\ KeptByWindow(S, K, l, running, now)
  /\ KeptByLimit(K, l, running, p, now)

Win(c, l, running, p, now) ==
  /\ Good(l, now)
  /\ running => now > 0 /\ Query(l, now)
  /\ \E S, K : Holds(S, K, c, l, running, p, now)

(* A conversation of which nothing is dropped.                             *)
LEMMA NothingDropped ==
  ASSUME NEW K \in Seq(Plain), NEW p, NEW now
  PROVE  KeptByLimit(K, K, FALSE, p, now)
<1>1. Plain \in SUBSET Message
  BY DEF Plain, Message
<1>2. PICK a \in Seq(Plain), r \in Seq(Plain) : K = Cat(a, r) /\ NoUsers(a) /\ UserFirst(r)
  BY <1>1, SplitAtUser
<1>3. <<>> \in Seq(Plain) /\ Cat(<<>>, r) = r
  BY CatEmpty
<1>4. Turns(<<>>) = {} /\ NoUsers(<<>>)
  BY DEF Turns, Range, NoUsers
<1>5. Limited(a, <<>>, <<>>, r, K, K, FALSE, p, now)
  BY <1>2, <1>3, <1>4 DEF Limited, LeftOver
<1> QED
  BY <1>3, <1>5 DEF KeptByLimit

LEMMA WinBegins ==
  ASSUME NEW p \in BOOLEAN
  PROVE  Win(PromptPart(p), <<>>, FALSE, p, 0)
<1>1. /\ <<>> \in Seq(Plain) /\ <<>> \in Seq(SummaryMsgs(0)) /\ Len(<<>>) = 0
      /\ DOMAIN <<>> = {}
  OBVIOUS
<1>2. Good(<<>>, 0)
  BY <1>1 DEF Good, Ordered
<1>3. PromptPart(p) = Cat(PromptPart(p), Cat(<<>>, <<>>)) /\ Cat(<<>>, <<>>) = <<>>
  <2>1. PromptPart(p) \in Seq({Prompt})
    <3>1. <<Prompt>> \in Seq({Prompt}) /\ <<>> \in Seq({Prompt})
      OBVIOUS
    <3> QED
      BY <3>1 DEF PromptPart
  <2>2. Cat(<<>>, <<>>) = <<>>
    BY <1>1, CatEmpty
  <2> QED
    BY <2>1, <2>2, CatEmpty
<1>4. Before(<<>>, <<>>) /\ NoUsers(<<>>) /\ UserFirst(<<>>) /\ Turns(<<>>) = {}
  <2>1. Range(<<>>) = {}
    BY <1>1 DEF Range
  <2> QED
    BY <1>1, <2>1 DEF Before, NoUsers, UserFirst, Turns
<1>5. KeptByWindow(<<>>, <<>>, <<>>, FALSE, 0)
  BY <1>1, <1>3, <1>4 DEF KeptByWindow
<1>6. KeptByLimit(<<>>, <<>>, FALSE, p, 0)
  BY <1>1, NothingDropped
<1>7. Brief(<<>>, 0)
  BY <1>1 DEF Brief
<1>8. Holds(<<>>, <<>>, PromptPart(p), <<>>, FALSE, p, 0)
  BY <1>2, <1>3, <1>5, <1>6, <1>7 DEF Holds
<1> QED
  BY <1>2, <1>8 DEF Win

(* When the turn ends nothing is asked of it any more.                     *)
LEMMA WinEnds ==
  ASSUME NEW c, NEW l, NEW p, NEW now, Win(c, l, TRUE, p, now)
  PROVE  Win(c, l, FALSE, p, now)
<1>1. PICK S, K : Holds(S, K, c, l, TRUE, p, now)
  BY DEF Win
<1>2. KeptByWindow(S, K, l, FALSE, now)
  BY <1>1 DEF Holds, KeptByWindow
<1>3. KeptByLimit(K, l, FALSE, p, now)
  BY <1>1 DEF Holds, KeptByLimit, Limited
<1>4. c = Cat(PromptPart(p), Cat(S, K)) /\ Brief(S, now) /\ Good(K, now)
  BY <1>1 DEF Holds
<1>5. Holds(S, K, c, l, FALSE, p, now)
  BY <1>2, <1>3, <1>4 DEF Holds
<1> QED
  BY <1>5 DEF Win

LEMMA PolicyFacts ==
  ASSUME policy \in PolicyType
  PROVE  policy.keep \in Nat /\ policy.role \in {"system", "assistant"}
BY DEF PolicyType

(* A turn that has no room has none when it, or what turns left behind,    *)
(* grows.                                                                  *)
LEMMA OverGrows ==
  ASSUME NEW a \in Seq(Plain), NEW h \in Seq(Plain), NEW k \in Seq(Plain), NEW l \in Seq(Plain),
         NEW t \in Seq(Plain), NEW p \in BOOLEAN, NEW u, Over(a, h, l, u, p), policy \in PolicyType
  PROVE  Over(a, Cat(h, k), Cat(l, t), u, p)
<1> DEFINE A == {m \in Message : m.turn < u}
           e == Those(h, A)
           f == Those(k, A)
           x == OfTurn(l, u)
           y == OfTurn(t, u)
<1>1. \A s \in Seq(Plain) : s \in Seq(Message)
  <2>1. Plain \subseteq Message
    BY DEF Plain, Message
  <2> QED
    BY <2>1, SeqMonotonic
<1> HIDE DEF A
<1>2. a \in Seq(Message) /\ e \in Seq(Message) /\ f \in Seq(Message)
  BY <1>1, ThoseFacts
<1>3. Those(Cat(h, k), A) = Cat(e, f)
  BY ThoseCat
<1>4. Cat(l, t) \in Seq(Plain)
  BY CatTypes
<1>5. x \in Seq(Message) /\ y \in Seq(Message) /\ OfTurn(Cat(l, t), u) = Cat(x, y)
  <2>1. x = Those(l, TurnMsgs(u)) /\ y = Those(t, TurnMsgs(u))
        /\ OfTurn(Cat(l, t), u) = Those(Cat(l, t), TurnMsgs(u))
    BY <1>1, <1>4, ViewsAs
  <2>2. Those(l, TurnMsgs(u)) \in Seq(Message) /\ Those(t, TurnMsgs(u)) \in Seq(Message)
    BY <1>1, ThoseFacts
  <2>3. Those(Cat(l, t), TurnMsgs(u)) = Cat(Those(l, TurnMsgs(u)), Those(t, TurnMsgs(u)))
    BY ThoseCat
  <2> QED
    BY <2>1, <2>2, <2>3
<1>6. Estimate(Cat(Cat(a, e), x)) + (IF p THEN 1 ELSE 0) > policy.keep
  BY DEF Over, Earlier, A
<1> HIDE DEF e, f, x, y
<1>7. /\ Estimate(Cat(Cat(a, e), x)) = Estimate(a) + Estimate(e) + Estimate(x)
      /\ Estimate(a) \in Nat /\ Estimate(e) \in Nat /\ Estimate(x) \in Nat
  <2>1. Cat(a, e) \in Seq(Message) /\ Estimate(Cat(a, e)) = Estimate(a) + Estimate(e)
    BY <1>2, EstimateOfCat, CatTypes
  <2>2. Estimate(Cat(Cat(a, e), x)) = Estimate(Cat(a, e)) + Estimate(x)
    BY <1>5, <2>1, EstimateOfCat
  <2>3. Estimate(a) \in Nat /\ Estimate(e) \in Nat /\ Estimate(x) \in Nat
    BY <1>2, <1>5, EstimateOfCat
  <2> QED
    BY <2>1, <2>2, <2>3
<1>8. /\ Estimate(Cat(Cat(a, Cat(e, f)), Cat(x, y)))
           = Estimate(a) + (Estimate(e) + Estimate(f)) + (Estimate(x) + Estimate(y))
      /\ Estimate(f) \in Nat /\ Estimate(y) \in Nat
  <2>1. /\ Cat(e, f) \in Seq(Message) /\ Estimate(Cat(e, f)) = Estimate(e) + Estimate(f)
        /\ Cat(x, y) \in Seq(Message) /\ Estimate(Cat(x, y)) = Estimate(x) + Estimate(y)
    BY <1>2, <1>5, EstimateOfCat, CatTypes
  <2>2. /\ Cat(a, Cat(e, f)) \in Seq(Message)
        /\ Estimate(Cat(a, Cat(e, f))) = Estimate(a) + Estimate(Cat(e, f))
    BY <1>2, <2>1, EstimateOfCat, CatTypes
  <2>3. Estimate(Cat(Cat(a, Cat(e, f)), Cat(x, y))) = Estimate(Cat(a, Cat(e, f))) + Estimate(Cat(x, y))
    BY <2>1, <2>2, EstimateOfCat
  <2>4. Estimate(f) \in Nat /\ Estimate(y) \in Nat
    BY <1>2, <1>5, EstimateOfCat
  <2> QED
    BY <2>1, <2>2, <2>3, <2>4
<1>9. policy.keep \in Nat
  BY PolicyFacts
<1>10. Estimate(Cat(Cat(a, Cat(e, f)), Cat(x, y))) + (IF p THEN 1 ELSE 0) > policy.keep
  <2> DEFINE n == Estimate(Cat(Cat(a, e), x))
             o == Estimate(Cat(Cat(a, Cat(e, f)), Cat(x, y)))
             b == IF p THEN 1 ELSE 0
  <2>1. n \in Nat /\ o \in Nat /\ n <= o
    <3> DEFINE W == Estimate(a)
               E == Estimate(e)
               F == Estimate(f)
               X == Estimate(x)
               Y == Estimate(y)
    <3>1. /\ W \in Nat /\ E \in Nat /\ F \in Nat /\ X \in Nat /\ Y \in Nat
          /\ n = W + E + X /\ o = W + (E + F) + (X + Y)
      BY <1>7, <1>8
    <3> HIDE DEF n, o, W, E, F, X, Y
    <3> QED
      BY <3>1
  <2>2. b \in Nat /\ n + b > policy.keep
    BY <1>6
  <2> HIDE DEF n, o, b
  <2>3. o + b > policy.keep
    BY <1>9, <2>1, <2>2
  <2> QED
    BY <2>3 DEF o, b
<1> QED
  BY <1>3, <1>5, <1>10 DEF Over, Earlier, A

(* The same with nothing more left behind.                                 *)
LEMMA OverStays ==
  ASSUME NEW a \in Seq(Plain), NEW h \in Seq(Plain), NEW l \in Seq(Plain),
         NEW t \in Seq(Plain), NEW p \in BOOLEAN, NEW u, Over(a, h, l, u, p), policy \in PolicyType
  PROVE  Over(a, h, Cat(l, t), u, p)
<1>1. <<>> \in Seq(Plain) /\ Cat(h, <<>>) = h
  BY CatEmpty
<1> DEFINE e == <<>>
<1>2. e \in Seq(Plain)
  BY <1>1
<1> HIDE DEF e
<1>3. Over(a, Cat(h, e), Cat(l, t), u, p)
  BY <1>2, OverGrows
<1> QED
  BY <1>1, <1>3 DEF e

LEMMA MessagesCat ==
  ASSUME NEW x \in Seq(Message), NEW y \in Seq(Message), NEW z \in Seq(Message)
  PROVE  /\ Cat(x, y) \in Seq(Message)
         /\ Cat(Cat(x, y), z) = Cat(x, Cat(y, z))
BY CatAssoc, CatTypes

LEMMA BriefStays ==
  ASSUME NEW now \in Nat, NEW later \in Nat, now <= later, NEW S, Brief(S, now),
         policy \in PolicyType
  PROVE  /\ Brief(S, later) /\ S \in Seq(SummaryMsgs(now))
         /\ Covers(S) \in SUBSET (1 .. now)
         /\ S = <<>> => Covers(S) = {}
<1>1. S \in Seq(SummaryMsgs(now))
  BY DEF Brief
<1>2. SummaryMsgs(now) \subseteq SummaryMsgs(later)
  <2>1. \A T : T \in (SUBSET (1 .. now)) \ {{}} => T \in (SUBSET (1 .. later)) \ {{}}
    OBVIOUS
  <2> QED
    BY <2>1 DEF SummaryMsgs
<1>3. S \in Seq(SummaryMsgs(later))
  BY <1>1, <1>2, SeqMonotonic
<1>4. ASSUME NEW t \in Covers(S) PROVE t \in 1 .. now
  <2>1. PICK i \in DOMAIN S : t \in S[i].covers
    BY DEF Covers, Range
  <2>2. S[i] \in SummaryMsgs(now)
    BY <1>1, LenProperties, ElementOfSeq
  <2>3. S[i].covers \in SUBSET (1 .. now)
    BY <2>2, MessageFacts
  <2> QED
    BY <2>1, <2>3
<1>5. S = <<>> => Covers(S) = {}
  BY DEF Covers, Range
<1>6. Brief(S, later)
  BY <1>3 DEF Brief
<1> QED
  BY <1>1, <1>4, <1>5, <1>6

LEMMA NoUsersCat ==
  ASSUME NEW x \in Seq(Message), NEW y \in Seq(Message), NoUsers(x), NoUsers(y)
  PROVE  NoUsers(Cat(x, y))
<1> DEFINE r == Cat(x, y)
<1>1. /\ Len(x) \in Nat /\ Len(y) \in Nat /\ DOMAIN r = 1 .. Len(x) + Len(y)
      /\ DOMAIN x = 1 .. Len(x) /\ DOMAIN y = 1 .. Len(y)
  BY CatTypes
<1>2. /\ \A i \in 1 .. Len(x) : r[i] = x[i]
      /\ \A i \in 1 .. Len(y) : r[Len(x) + i] = y[i]
  BY CatElements
<1> HIDE DEF r
<1>3. ASSUME NEW i \in DOMAIN r PROVE r[i].role # "user"
  <2>1. CASE i <= Len(x)
    BY <1>1, <1>2, <2>1 DEF NoUsers
  <2>2. CASE ~(i <= Len(x))
    <3>1. i - Len(x) \in 1 .. Len(y) /\ Len(x) + (i - Len(x)) = i
      BY <1>1, <2>2
    <3>2. r[i] = y[i - Len(x)]
      BY <1>2, <3>1
    <3> QED
      BY <1>1, <3>1, <3>2 DEF NoUsers
  <2> QED
    BY <2>1, <2>2
<1> QED
  BY <1>3 DEF NoUsers, r

LEMMA NotOfTurn ==
  ASSUME NEW s \in Seq(Plain), NEW t, \A i \in DOMAIN s : s[i].turn # t
  PROVE  OfTurn(s, t) = <<>>
<1>1. Those(s, TurnMsgs(t)) = <<>>
  <2> DEFINE Rest == {m \in Plain : m.turn # t}
  <2>1. s \in Seq(Rest)
    <3>1. DOMAIN s = 1 .. Len(s) /\ Len(s) \in Nat /\ \A i \in DOMAIN s : s[i] \in Plain
      BY PlainElements
    <3>2. \A i \in 1 .. Len(s) : s[i] \in Rest
      BY <3>1
    <3>3. s = [i \in 1 .. Len(s) |-> s[i]]
      BY LenProperties
    <3> QED
      BY <3>1, <3>2, <3>3
  <2>2. Rest \cap TurnMsgs(t) = {}
    BY DEF TurnMsgs
  <2> HIDE DEF Rest
  <2> QED
    BY <2>1, <2>2, ThoseNone
<1>2. s \in Seq(Message)
  <2>1. Plain \subseteq Message
    BY DEF Plain, Message
  <2> QED
    BY <2>1, SeqMonotonic
<1> QED
  BY <1>1, <1>2, ViewsAs

LEMMA OfTurnCat ==
  ASSUME NEW x \in Seq(Plain), NEW y \in Seq(Plain), NEW t
  PROVE  /\ OfTurn(Cat(x, y), t) = Cat(OfTurn(x, t), OfTurn(y, t))
         /\ OfTurn(x, t) \in Seq(Message)
<1>1. Plain \subseteq Message
  BY DEF Plain, Message
<1>2. x \in Seq(Message) /\ y \in Seq(Message)
  BY <1>1, SeqMonotonic
<1>3. Cat(x, y) \in Seq(Message)
  BY <1>2, CatTypes
<1>4. Those(Cat(x, y), TurnMsgs(t)) = Cat(Those(x, TurnMsgs(t)), Those(y, TurnMsgs(t)))
  BY ThoseCat
<1>5. Those(x, TurnMsgs(t)) \in Seq(Message)
  BY <1>2, ThoseFacts
<1> QED
  BY <1>2, <1>3, <1>4, <1>5, ViewsAs

(* A turn none of whose messages are in one part is as it is in the other. *)
LEMMA OfTurnOutside ==
  ASSUME NEW x \in Seq(Plain), NEW y \in Seq(Plain), NEW t
  PROVE  /\ t \notin Turns(x) => OfTurn(Cat(x, y), t) = OfTurn(y, t)
         /\ t \notin Turns(y) => OfTurn(Cat(x, y), t) = OfTurn(x, t)
<1>1. OfTurn(Cat(x, y), t) = Cat(OfTurn(x, t), OfTurn(y, t))
  BY OfTurnCat
<1>2. OfTurn(x, t) \in Seq(Message) /\ OfTurn(y, t) \in Seq(Message)
  BY OfTurnCat
<1>3. \A s \in Seq(Plain) : t \notin Turns(s) => OfTurn(s, t) = <<>>
  <2> SUFFICES ASSUME NEW s \in Seq(Plain), t \notin Turns(s) PROVE OfTurn(s, t) = <<>>
    OBVIOUS
  <2>1. \A i \in DOMAIN s : s[i].turn # t
    BY TurnsAre
  <2> QED
    BY <2>1, NotOfTurn
<1>4. \A s \in Seq(Message) : Cat(<<>>, s) = s /\ Cat(s, <<>>) = s
  BY CatEmpty
<1> QED
  BY <1>1, <1>2, <1>3, <1>4

LEMMA TurnsApart ==
  ASSUME NEW x \in Seq(Plain), NEW y \in Seq(Plain), Before(x, y), NEW t \in Turns(x)
  PROVE  t \notin Turns(y)
<1> SUFFICES ASSUME t \in Turns(y) PROVE FALSE
  OBVIOUS
<1>1. PICK i \in DOMAIN x : x[i].turn = t
  BY TurnsAre
<1>2. PICK j \in DOMAIN y : y[j].turn = t
  BY TurnsAre
<1>3. x[i].turn < y[j].turn /\ x[i].turn \in Nat
  BY PlainElements DEF Before
<1> QED
  BY <1>1, <1>2, <1>3

(* A sequence that begins with a query, or is empty, and a message.        *)
LEMMA StillFirst ==
  ASSUME NEW s \in Seq(Plain), NEW m \in Plain, UserFirst(s), s = <<>> => m.role = "user"
  PROVE  UserFirst(Cat(s, <<m>>)) /\ Cat(s, <<m>>) # <<>>
<1> DEFINE t == <<m>>
<1>1. t \in Seq(Plain) /\ t # <<>> /\ t[1] = m /\ DOMAIN t = {1}
  BY OneMessage
<1>2. Len(t) = 1
  OBVIOUS
<1> HIDE DEF t
<1>3. CASE s = <<>>
  <2>1. Cat(s, t) = t
    BY <1>1, <1>3, CatEmpty
  <2> QED
    BY <1>1, <1>3, <2>1 DEF UserFirst, t
<1>4. CASE s # <<>>
  <2>1. 1 \in 1 .. Len(s) /\ Len(s) \in Nat
    BY <1>4
  <2>2. Cat(s, t)[1] = s[1] /\ Len(Cat(s, t)) = Len(s) + 1
    <3>1. \A i \in 1 .. Len(s) : Cat(s, t)[i] = s[i]
      BY <1>1, CatElements
    <3>2. Len(Cat(s, t)) = Len(s) + Len(t)
      BY <1>1, CatTypes
    <3> QED
      BY <1>2, <2>1, <3>1, <3>2
  <2>3. Cat(s, t) # <<>>
    BY <2>1, <2>2
  <2> QED
    BY <1>4, <2>2, <2>3 DEF UserFirst, t
<1> QED
  BY <1>3, <1>4

(* What turns have left behind is earlier than the turns that are kept.    *)
LEMMA LeftIsBefore ==
  ASSUME NEW now \in Nat, NEW a \in Seq(Plain), NEW h \in Seq(Plain), NEW r \in Seq(Plain),
         Good(Cat(a, Cat(h, r)), now), UserFirst(r), r # <<>>
  PROVE  Before(h, r) /\ Before(Cat(a, h), r)
<1>1. Cat(h, r) \in Seq(Plain) /\ Cat(a, h) \in Seq(Plain)
  BY CatTypes
<1>2. Good(Cat(h, r), now)
  BY <1>1, GoodParts
<1>3. Before(h, r)
  BY <1>2, OrderedParts DEF Good
<1>4. Good(Cat(Cat(a, h), r), now)
  BY CatAssoc
<1>5. Before(Cat(a, h), r)
  BY <1>1, <1>4, OrderedParts DEF Good
<1> QED
  BY <1>3, <1>5

(* A message is added to what tokenlimit keeps: to the turns, or behind    *)
(* the query of a turn of which nothing is kept.                           *)
LEMMA LimitedGrows ==
  ASSUME policy \in PolicyType, NEW p \in BOOLEAN, NEW running \in BOOLEAN, NEW now \in Nat,
         NEW later \in Nat, NEW K, NEW l, Good(K, now), Good(l, now), running => Query(l, now),
         NEW a \in Seq(Plain), NEW h \in Seq(Plain), NEW m \in Seq(Plain), NEW r \in Seq(Plain),
         Limited(a, h, m, r, K, l, running, p, now),
         NEW x \in Plain, x.turn = later,
         \/ x.role = "user" /\ later = now + 1
         \/ x.role # "user" /\ later = now /\ running
  PROVE  KeptByLimit(Cat(K, <<x>>), Cat(l, <<x>>), TRUE, p, later)
<1> DEFINE t == <<x>>
<1>1. t \in Seq(Plain) /\ t # <<>> /\ t[1] = x /\ DOMAIN t = {1}
  BY OneMessage
<1>2. Turns(t) = {later} /\ (x.role # "user" => NoUsers(t))
  BY <1>1 DEF Turns, Range, NoUsers
<1>0. t = <<x>>
  OBVIOUS
<1> HIDE DEF t
<1>3. /\ K = Cat(a, Cat(h, r)) /\ l = Cat(a, Cat(m, r))
      /\ NoUsers(a) /\ NoUsers(h) /\ UserFirst(Cat(m, r)) /\ UserFirst(r)
      /\ LeftOver(a, h, m, l, p)
      /\ r = <<>> /\ m # <<>> => LastOver(a, h, l, p)
      /\ running => r = <<>> \/ Query(r, now)
  BY DEF Limited
<1>4. /\ Cat(h, r) \in Seq(Plain) /\ Cat(m, r) \in Seq(Plain) /\ l \in Seq(Plain)
      /\ Cat(r, t) \in Seq(Plain) /\ Cat(h, t) \in Seq(Plain) /\ Cat(m, t) \in Seq(Plain)
  BY <1>1, CatTypes DEF Good
<1>5. <<>> \in Seq(Plain) /\ \A s \in Seq(Plain) : Cat(s, <<>>) = s
  BY CatEmpty
<1>6. /\ Cat(K, t) = Cat(a, Cat(Cat(h, r), t)) /\ Cat(l, t) = Cat(a, Cat(Cat(m, r), t))
      /\ Cat(Cat(h, r), t) = Cat(h, Cat(r, t)) /\ Cat(Cat(m, r), t) = Cat(m, Cat(r, t))
  <2>1. t \in Seq(Plain) /\ Cat(h, r) \in Seq(Plain) /\ Cat(m, r) \in Seq(Plain)
    BY <1>1, <1>4
  <2>2. Cat(Cat(h, r), t) = Cat(h, Cat(r, t)) /\ Cat(Cat(m, r), t) = Cat(m, Cat(r, t))
    BY <2>1, CatAssoc
  <2> DEFINE f == Cat(h, r)
             g == Cat(m, r)
  <2>3. f \in Seq(Plain) /\ g \in Seq(Plain) /\ K = Cat(a, f) /\ l = Cat(a, g)
    BY <1>3, <2>1
  <2> HIDE DEF f, g
  <2>4. Cat(K, t) = Cat(a, Cat(f, t)) /\ Cat(l, t) = Cat(a, Cat(g, t))
    BY <2>1, <2>3, CatAssoc
  <2> QED
    BY <2>2, <2>4 DEF f, g
<1>7. ASSUME r # <<>> \/ x.role = "user"
      PROVE  Limited(a, h, m, Cat(r, t), Cat(K, t), Cat(l, t), TRUE, p, later)
  <2>1. UserFirst(Cat(r, t)) /\ Cat(r, t) # <<>>
    BY <1>0, <1>3, <1>7, StillFirst
  <2>2. UserFirst(Cat(m, Cat(r, t)))
    <3>1. Cat(m, r) = <<>> => x.role = "user"
      <4>1. Len(Cat(m, r)) = Len(m) + Len(r) /\ Len(m) \in Nat /\ Len(r) \in Nat
        BY CatTypes
      <4> QED
        BY <1>7, <4>1
    <3> QED
      BY <1>0, <1>3, <1>4, <1>6, <3>1, StillFirst
  <2>3. Query(Cat(r, t), later)
    <3>1. Query(Cat(r, t), later) <=> Query(r, later) \/ Query(t, later)
      BY <1>1, QueryOfCat
    <3>2. x.role = "user" => Query(t, later)
      BY <1>1 DEF Query
    <3>3. x.role # "user" => Query(r, later)
      BY <1>3, <1>7
    <3> QED
      BY <3>1, <3>2, <3>3
  <2>4. LeftOver(a, h, m, Cat(l, t), p)
    <3> SUFFICES ASSUME NEW v \in Turns(h) PROVE Over(a, h, Cat(l, t), v, p) /\ Ends(h, m, v)
      BY DEF LeftOver
    <3>1. Over(a, h, l, v, p) /\ Ends(h, m, v)
      BY <1>3 DEF LeftOver
    <3>2. l \in Seq(Plain) /\ t \in Seq(Plain)
      BY <1>1, <1>4
    <3>3. Over(a, h, Cat(l, t), v, p)
      BY <3>1, <3>2, OverStays
    <3> QED
      BY <3>1, <3>3
  <2> QED
    BY <1>3, <1>6, <2>1, <2>2, <2>3, <2>4 DEF Limited
<1>8. ASSUME r = <<>>, x.role # "user"
      PROVE  Limited(a, Cat(h, t), Cat(m, t), <<>>, Cat(K, t), Cat(l, t), TRUE, p, later)
  <2>1. l = Cat(a, m) /\ K = Cat(a, h) /\ UserFirst(m) /\ Query(l, now) /\ later = now
    BY <1>3, <1>5, <1>8
  <2>2. m # <<>>
    <3>1. Query(a, now) \/ Query(m, now)
      BY <2>1, QueryOfCat
    <3>2. ~Query(a, now)
      BY <1>3 DEF Query, NoUsers
    <3> QED
      BY <3>1, <3>2 DEF Query
  <2>3. now \in Turns(l) /\ \A v \in Turns(l) : v \in Nat /\ v <= now
    <3>1. now \in Turns(l)
      BY <1>4, <2>1, TurnsAre DEF Query
    <3>2. ASSUME NEW v \in Turns(l) PROVE v \in Nat /\ v <= now
      <4>1. PICK i \in DOMAIN l : l[i].turn = v
        BY <1>4, TurnsAre
      <4> QED
        BY <1>4, <4>1, PlainElements DEF Good
    <3> QED
      BY <3>1, <3>2
  <2>4. Over(a, h, l, now, p)
    <3>1. PICK u \in Turns(l) : Over(a, h, l, u, p) /\ \A v \in Turns(l) : v <= u
      BY <1>3, <1>8, <2>2 DEF LastOver
    <3>2. u = now
      BY <2>3, <3>1
    <3> QED
      BY <3>1, <3>2
  <2>5. Turns(Cat(l, t)) = Turns(l) \cup {now} /\ Turns(Cat(h, t)) = Turns(h) \cup {now}
    BY <1>1, <1>2, <1>4, <2>1, TurnsOfCat
  <2>6. ASSUME NEW v, Over(a, h, l, v, p) PROVE Over(a, Cat(h, t), Cat(l, t), v, p)
    <3>1. t \in Seq(Plain) /\ l \in Seq(Plain)
      BY <1>1, <1>4
    <3>2. Over(a, h, l, v, p)
      BY <2>6
    <3> QED
      BY <3>1, <3>2, OverGrows
  <2>7. LastOver(a, Cat(h, t), Cat(l, t), p)
    <3>1. now \in Turns(Cat(l, t)) /\ \A v \in Turns(Cat(l, t)) : v <= now
      BY <2>3, <2>5
    <3>2. Over(a, Cat(h, t), Cat(l, t), now, p)
      BY <2>4, <2>6
    <3> QED
      BY <3>1, <3>2 DEF LastOver
  <2>8. LeftOver(a, Cat(h, t), Cat(m, t), Cat(l, t), p)
    <3> SUFFICES ASSUME NEW v \in Turns(h) \cup {now}
                 PROVE  Over(a, Cat(h, t), Cat(l, t), v, p) /\ Ends(Cat(h, t), Cat(m, t), v)
      BY <2>5 DEF LeftOver
    <3>1. Over(a, h, l, v, p) /\ Ends(h, m, v)
      <4>1. CASE v \in Turns(h)
        BY <1>3, <4>1 DEF LeftOver
      <4>2. CASE v \notin Turns(h)
        <5>1. OfTurn(h, v) = <<>>
          BY <4>2, TurnsAre, NotOfTurn
        <5>2. OfTurn(m, v) \in Seq(Message)
          BY OfTurnCat
        <5>3. OfTurn(m, v) = Cat(OfTurn(m, v), OfTurn(h, v))
          BY <5>1, <5>2, CatEmpty
        <5> QED
          BY <2>4, <4>2, <5>2, <5>3 DEF Ends
      <4> QED
        BY <4>1, <4>2
    <3>2. PICK z \in Seq(Message) : OfTurn(m, v) = Cat(z, OfTurn(h, v))
      BY <3>1 DEF Ends
    <3>3. /\ OfTurn(Cat(m, t), v) = Cat(OfTurn(m, v), OfTurn(t, v))
          /\ OfTurn(Cat(h, t), v) = Cat(OfTurn(h, v), OfTurn(t, v))
          /\ OfTurn(h, v) \in Seq(Message) /\ OfTurn(t, v) \in Seq(Message)
      BY <1>1, OfTurnCat
    <3>4. OfTurn(Cat(m, t), v) = Cat(z, OfTurn(Cat(h, t), v))
      BY <3>2, <3>3, CatAssoc
    <3> QED
      BY <2>6, <3>1, <3>4 DEF Ends
  <2>9. NoUsers(Cat(h, t))
    <3>1. \A s \in Seq(Plain) : s \in Seq(Message)
      <4>1. Plain \subseteq Message
        BY DEF Plain, Message
      <4> QED
        BY <4>1, SeqMonotonic
    <3> QED
      BY <1>1, <1>2, <1>3, <1>8, <3>1, NoUsersCat
  <2>10. UserFirst(Cat(m, t))
    BY <1>0, <1>8, <2>1, <2>2, StillFirst
  <2>11. /\ Cat(K, t) = Cat(a, Cat(Cat(h, t), <<>>)) /\ Cat(l, t) = Cat(a, Cat(Cat(m, t), <<>>))
         /\ UserFirst(Cat(Cat(m, t), <<>>)) /\ UserFirst(<<>>)
    <3>1. Cat(K, t) = Cat(a, Cat(h, t)) /\ Cat(l, t) = Cat(a, Cat(m, t))
      BY <1>1, <2>1, CatAssoc
    <3>2. Cat(Cat(h, t), <<>>) = Cat(h, t) /\ Cat(Cat(m, t), <<>>) = Cat(m, t)
      BY <1>4, <1>5
    <3> QED
      BY <2>10, <3>1, <3>2 DEF UserFirst
  <2> QED
    BY <1>3, <2>7, <2>8, <2>9, <2>11 DEF Limited
<1>9. KeptByLimit(Cat(K, t), Cat(l, t), TRUE, p, later)
  BY <1>4, <1>5, <1>7, <1>8 DEF KeptByLimit
<1> QED
  BY <1>9 DEF t

(* A message is added: the query of a new turn, or what the running turn   *)
(* goes on with.                                                           *)
LEMMA WinGrows ==
  ASSUME policy \in PolicyType, NEW p \in BOOLEAN, NEW running \in BOOLEAN, NEW now \in Nat,
         NEW later \in Nat, NEW c, NEW l, Win(c, l, running, p, now),
         NEW m \in Plain, m.turn = later,
         \/ m.role = "user" /\ later = now + 1
         \/ m.role # "user" /\ later = now /\ running
  PROVE  Win(Cat(c, <<m>>), Cat(l, <<m>>), TRUE, p, later)
<1> DEFINE t == <<m>>
<1>1. t \in Seq(Plain) /\ t # <<>> /\ t[1] = m /\ DOMAIN t = {1}
  BY OneMessage
<1>2. later > 0 /\ now <= later /\ (m.role = "user" => now < later) /\ (running => now > 0)
  BY DEF Win
<1>3. Good(l, now) /\ l \in Seq(Plain)
  BY DEF Win, Good
<1>4. Good(Cat(l, t), later)
  BY <1>2, <1>3, GoodAppend
<1>5. PICK S, K : Holds(S, K, c, l, running, p, now)
  BY DEF Win
<1>6. /\ c = Cat(PromptPart(p), Cat(S, K)) /\ Brief(S, now) /\ Good(K, now) /\ K \in Seq(Plain)
  BY <1>5 DEF Holds, Good
<1>7. Good(Cat(K, t), later)
  BY <1>2, <1>6, GoodAppend
<1>8. Brief(S, later) /\ Covers(S) \in SUBSET (1 .. now)
  BY <1>2, <1>6, BriefStays
<1>9. \A i \in DOMAIN l : l[i].turn <= now
  BY <1>3 DEF Good
<1>10. Plain \subseteq Message
  BY DEF Plain, Message
<1>11. \A s \in Seq(Plain) : /\ m.role = "user" => Query(Cat(s, t), later)
                             /\ m.role # "user" /\ Query(s, now) => Query(Cat(s, t), later)
  <2> TAKE s \in Seq(Plain)
  <2>1. m.role = "user" => Query(t, later)
    BY <1>1 DEF Query
  <2>2. Query(Cat(s, t), later) <=> Query(s, later) \/ Query(t, later)
    BY <1>1, QueryOfCat
  <2> QED
    BY <2>1, <2>2
<1>12. Query(Cat(l, t), later)
  BY <1>3, <1>11 DEF Win
<1>13. Cat(c, t) = Cat(PromptPart(p), Cat(S, Cat(K, t)))
  <2>1. /\ PromptPart(p) \in Seq(Message) /\ S \in Seq(Message) /\ K \in Seq(Message)
        /\ Cat(S, K) \in Seq(Message)
    BY <1>6, PartTypes
  <2>2. t \in Seq(Message)
    BY <1>1, <1>10, SeqMonotonic
  <2>3. Cat(c, t) = Cat(PromptPart(p), Cat(Cat(S, K), t))
    <3>1. PromptPart(p) \in Seq(Message) /\ Cat(S, K) \in Seq(Message) /\ t \in Seq(Message)
      BY <2>1, <2>2
    <3> DEFINE pr == PromptPart(p)
               sk == Cat(S, K)
    <3> HIDE DEF pr, sk, t
    <3>2. Cat(Cat(PromptPart(p), Cat(S, K)), t) = Cat(PromptPart(p), Cat(Cat(S, K), t))
      <4>1. pr \in Seq(Message) /\ sk \in Seq(Message)
        BY <3>1 DEF pr, sk
      <4>2. Cat(Cat(pr, sk), t) = Cat(pr, Cat(sk, t))
        BY <3>1, <4>1, MessagesCat
      <4> QED
        BY <4>2 DEF pr, sk
    <3> QED
      BY <1>6, <3>2
  <2>4. Cat(Cat(S, K), t) = Cat(S, Cat(K, t))
    <3>1. S \in Seq(Message) /\ K \in Seq(Message) /\ t \in Seq(Message)
      BY <2>1, <2>2
    <3> QED
      BY <3>1, MessagesCat
  <2> QED
    BY <2>3, <2>4
<1> HIDE DEF t
<1>14. KeptByWindow(S, Cat(K, t), Cat(l, t), TRUE, later)
  <2> SUFFICES ASSUME policy.strategy # "tokenlimit"
               PROVE  \E D \in Seq(Plain) :
                        /\ Cat(l, t) = Cat(D, Cat(K, t))
                        /\ policy.strategy # "slidingwindow" =>
                             Before(D, Cat(K, t)) /\ Query(Cat(K, t), later)
                        /\ policy.strategy = "summary" =>
                             /\ Turns(D) \subseteq Covers(S) \cup {0}
                             /\ Covers(S) \cap Turns(Cat(K, t)) = {}
    BY DEF KeptByWindow
  <2>1. PICK D \in Seq(Plain) :
          /\ l = Cat(D, K)
          /\ policy.strategy # "slidingwindow" => Before(D, K) /\ (running => Query(K, now))
          /\ policy.strategy = "summary" =>
               Turns(D) \subseteq Covers(S) \cup {0} /\ Covers(S) \cap Turns(K) = {}
    BY <1>5 DEF Holds, KeptByWindow
  <2>2. Cat(l, t) = Cat(D, Cat(K, t))
    BY <1>1, <1>6, <2>1, CatAssoc
  <2>3. ASSUME policy.strategy # "slidingwindow" PROVE Before(D, Cat(K, t)) /\ Query(Cat(K, t), later)
    <3>1. Query(Cat(K, t), later)
      BY <1>6, <1>11, <2>1, <2>3
    <3>2. \A i \in DOMAIN D : D[i].turn < later
      <4> SUFFICES ASSUME NEW i \in DOMAIN D PROVE D[i].turn < later
        OBVIOUS
      <4>1. D[i].turn \in Nat
        BY PlainElements
      <4>2. CASE m.role = "user"
        <5>1. Good(D, now)
          BY <1>3, <1>6, <2>1, GoodParts
        <5> QED
          BY <1>2, <4>1, <4>2, <5>1 DEF Good
      <4>3. CASE m.role # "user"
        <5>1. PICK k \in DOMAIN K : K[k].turn = now
          BY <2>1, <2>3, <4>3 DEF Query
        <5> QED
          BY <2>1, <2>3, <4>3, <5>1 DEF Before
      <4> QED
        BY <4>2, <4>3
    <3>3. /\ Len(K) \in Nat /\ Len(t) \in Nat /\ DOMAIN K = 1 .. Len(K) /\ DOMAIN t = 1 .. Len(t)
          /\ DOMAIN Cat(K, t) = 1 .. Len(K) + Len(t)
      <4>1. K \in Seq(Plain) /\ t \in Seq(Plain)
        BY <1>1, <1>6
      <4> QED
        BY <4>1, CatTypes
    <3>4. /\ \A i \in 1 .. Len(K) : Cat(K, t)[i] = K[i]
          /\ \A i \in 1 .. Len(t) : Cat(K, t)[Len(K) + i] = t[i]
      BY <1>1, <1>6, CatElements
    <3>5. ASSUME NEW i \in DOMAIN D, NEW j \in DOMAIN Cat(K, t) PROVE D[i].turn < Cat(K, t)[j].turn
      <4>1. CASE j <= Len(K)
        <5>1. j \in DOMAIN K /\ Cat(K, t)[j] = K[j]
          BY <3>3, <3>4, <4>1
        <5> QED
          BY <2>1, <2>3, <5>1 DEF Before
      <4>2. CASE ~(j <= Len(K))
        <5>1. j - Len(K) \in 1 .. Len(t) /\ Len(K) + (j - Len(K)) = j
          BY <3>3, <4>2
        <5>2. j - Len(K) = 1
          BY <1>1, <3>3, <5>1
        <5>3. Cat(K, t)[j] = m
          BY <1>1, <3>4, <5>1, <5>2
        <5> QED
          BY <3>2, <5>3
      <4> QED
        BY <4>1, <4>2
    <3> QED
      BY <3>1, <3>5 DEF Before
  <2>4. ASSUME policy.strategy = "summary" PROVE Covers(S) \cap Turns(Cat(K, t)) = {}
    <3>1. Turns(Cat(K, t)) = Turns(K) \cup Turns(t)
      BY <1>1, <1>6, TurnsOfCat
    <3>2. Turns(t) = {later}
      BY <1>1 DEF Turns, Range
    <3>3. later \notin Covers(S)
      <4>1. CASE m.role = "user"
        BY <1>2, <1>8, <4>1
      <4>2. CASE m.role # "user"
        <5>1. now \in Turns(K)
          BY <1>6, <2>1, <2>4, <4>2, TurnsAre DEF Query
        <5> QED
          BY <2>1, <2>4, <4>2, <5>1
      <4> QED
        BY <4>1, <4>2
    <3> QED
      BY <2>1, <2>4, <3>1, <3>2, <3>3
  <2> QED
    BY <2>1, <2>2, <2>3, <2>4
<1>15. KeptByLimit(Cat(K, t), Cat(l, t), TRUE, p, later)
  <2>1. CASE policy.strategy # "tokenlimit"
    BY <2>1 DEF KeptByLimit
  <2>2. CASE policy.strategy = "tokenlimit"
    <3>1. PICK a, h, d, r \in Seq(Plain) : Limited(a, h, d, r, K, l, running, p, now)
      BY <1>5, <2>2 DEF Holds, KeptByLimit
    <3>2. running => Query(l, now)
      BY DEF Win
    <3> QED
      BY <1>3, <1>6, <3>1, <3>2, LimitedGrows DEF t
  <2> QED
    BY <2>1, <2>2
<1>16. Holds(S, Cat(K, t), Cat(c, t), Cat(l, t), TRUE, p, later)
  BY <1>7, <1>8, <1>13, <1>14, <1>15 DEF Holds
<1>17. Win(Cat(c, t), Cat(l, t), TRUE, p, later)
  BY <1>2, <1>4, <1>12, <1>16 DEF Win
<1> QED
  BY <1>17 DEF t

-------------------------------------------------------------------------------
(* The parts of a sequence have its elements.                              *)
LEMMA PartsIn ==
  ASSUME NEW S, NEW T, NEW x \in Seq(S), NEW y \in Seq(S), Cat(x, y) \in Seq(T)
  PROVE  x \in Seq(T) /\ y \in Seq(T)
<1> DEFINE r == Cat(x, y)
<1>1. /\ Len(x) \in Nat /\ Len(y) \in Nat /\ DOMAIN r = 1 .. Len(x) + Len(y)
  BY CatTypes
<1>2. /\ \A i \in 1 .. Len(x) : r[i] = x[i]
      /\ \A i \in 1 .. Len(y) : r[Len(x) + i] = y[i]
  BY CatElements
<1>3. r \in Seq(T)
  OBVIOUS
<1> HIDE DEF r
<1>4. \A i \in 1 .. Len(x) + Len(y) : r[i] \in T
  <2>1. 1 .. Len(r) = 1 .. Len(x) + Len(y)
    BY <1>1, <1>3, LenProperties
  <2> QED
    BY <1>3, <2>1, ElementOfSeq
<1>5. \A i \in 1 .. Len(x) : x[i] \in T
  BY <1>1, <1>2, <1>4
<1>6. \A i \in 1 .. Len(y) : y[i] \in T
  <2> TAKE i \in 1 .. Len(y)
  <2>1. Len(x) + i \in 1 .. Len(x) + Len(y)
    BY <1>1
  <2> QED
    BY <1>2, <1>4, <2>1
<1>7. x = [i \in 1 .. Len(x) |-> x[i]] /\ y = [i \in 1 .. Len(y) |-> y[i]]
  BY LenProperties
<1>8. [i \in 1 .. Len(x) |-> x[i]] \in Seq(T)
  BY <1>1, <1>5
<1>9. [i \in 1 .. Len(y) |-> y[i]] \in Seq(T)
  BY <1>1, <1>6
<1> QED
  BY <1>7, <1>8, <1>9

(* A log is cut again where a turn begins.                                 *)
LEMMA CutKept ==
  ASSUME NEW now \in Nat, NEW D \in Seq(Plain), NEW x \in Seq(Plain), NEW y \in Seq(Plain),
         NEW l, l = Cat(D, Cat(x, y)), Good(l, now), y # <<>>, UserFirst(y),
         Query(Cat(x, y), now)
  PROVE  /\ Cat(D, x) \in Seq(Plain) /\ l = Cat(Cat(D, x), y)
         /\ Before(Cat(D, x), y) /\ Query(y, now) /\ Good(y, now) /\ Good(Cat(x, y), now)
         /\ Turns(Cat(D, x)) = Turns(D) \cup Turns(x)
<1>1. Cat(D, x) \in Seq(Plain) /\ Cat(x, y) \in Seq(Plain)
  BY CatTypes
<1>2. l = Cat(Cat(D, x), y)
  BY CatAssoc
<1>3. Turns(Cat(D, x)) = Turns(D) \cup Turns(x)
  BY TurnsOfCat
<1>4. Good(Cat(x, y), now)
  BY <1>1, GoodParts
<1>5. Query(y, now)
  BY <1>4, QueryInLast
<1>6. Good(y, now)
  BY <1>4, GoodParts
<1>7. Before(Cat(D, x), y)
  <2>1. Ordered(Cat(Cat(D, x), y))
    BY <1>2 DEF Good
  <2> QED
    BY <1>1, <2>1, OrderedParts
<1> QED
  BY <1>1, <1>2, <1>3, <1>4, <1>5, <1>6, <1>7

(* The same, its hypotheses under one name.                                *)
Cuttable(D, x, y, l, now) ==
  /\ D \in Seq(Plain) /\ x \in Seq(Plain) /\ y \in Seq(Plain)
  /\ l = Cat(D, Cat(x, y)) /\ Good(l, now) /\ y # <<>> /\ UserFirst(y)
  /\ Query(Cat(x, y), now)

LEMMA CutCuttable ==
  ASSUME NEW now \in Nat, NEW D, NEW x, NEW y, NEW l, Cuttable(D, x, y, l, now)
  PROVE  /\ Cat(D, x) \in Seq(Plain) /\ l = Cat(Cat(D, x), y)
         /\ Before(Cat(D, x), y) /\ Query(y, now) /\ Good(y, now)
<1>1. /\ D \in Seq(Plain) /\ x \in Seq(Plain) /\ y \in Seq(Plain)
      /\ l = Cat(D, Cat(x, y)) /\ Good(l, now) /\ y # <<>> /\ UserFirst(y)
      /\ Query(Cat(x, y), now)
  BY DEF Cuttable
<1> QED
  BY <1>1, CutKept

LEMMA ViewsOfParts ==
  ASSUME policy \in PolicyType, NEW p \in BOOLEAN, NEW now \in Nat, NEW S, Brief(S, now),
         NEW K \in Seq(Plain)
  PROVE  /\ Systems(Cat(PromptPart(p), Cat(S, K))) =
              Cat(PromptPart(p), IF policy.role = "system" THEN S ELSE <<>>)
         /\ Others(Cat(PromptPart(p), Cat(S, K))) =
              Cat(IF policy.role = "system" THEN <<>> ELSE S, K)
<1> DEFINE c == Cat(PromptPart(p), Cat(S, K))
<1> HIDE DEF c
<1>1. c = Cat(PromptPart(p), Cat(S, K))
  BY DEF c
<1>2. /\ Systems(c) = Cat(PromptPart(p), IF policy.role = "system" THEN S ELSE <<>>)
      /\ Others(c) = Cat(IF policy.role = "system" THEN <<>> ELSE S, K)
  BY <1>1, Views
<1> QED
  BY <1>2 DEF c

(* What the strategies that do not summarize see of a conversation.        *)
LEMMA WithoutSummary ==
  ASSUME policy \in PolicyType, NEW p \in BOOLEAN, NEW now \in Nat, NEW c, NEW l,
         policy.strategy # "summary", Win(c, l, TRUE, p, now)
  PROVE  \E K \in Seq(Plain) :
           /\ Holds(<<>>, K, c, l, TRUE, p, now)
           /\ c = Cat(PromptPart(p), K) /\ Systems(c) = PromptPart(p) /\ Others(c) = K
           /\ K \in Seq(Message) /\ PromptPart(p) \in Seq(Message)
<1>1. PICK S, K : Holds(S, K, c, l, TRUE, p, now)
  BY DEF Win
<1>2. /\ c = Cat(PromptPart(p), Cat(S, K)) /\ Brief(S, now) /\ Good(K, now) /\ K \in Seq(Plain)
      /\ S = <<>>
  BY <1>1 DEF Holds, Good, Brief
<1>3. PromptPart(p) \in Seq(Message) /\ K \in Seq(Message)
  BY <1>2, PartTypes
<1>4. /\ Cat(<<>>, K) = K /\ Cat(PromptPart(p), <<>>) = PromptPart(p)
  BY <1>3, CatEmpty
<1>5. /\ Systems(c) = Cat(PromptPart(p), IF policy.role = "system" THEN S ELSE <<>>)
      /\ Others(c) = Cat(IF policy.role = "system" THEN <<>> ELSE S, K)
  <2>1. K \in Seq(Plain) /\ Brief(S, now) /\ c = Cat(PromptPart(p), Cat(S, K))
    BY <1>2
  <2> QED
    BY <2>1, ViewsOfParts
<1>6. Systems(c) = PromptPart(p) /\ Others(c) = K
  BY <1>2, <1>4, <1>5
<1> QED
  BY <1>1, <1>2, <1>3, <1>4, <1>6

(* A conversation whose end is another part of the log.                    *)
LEMMA WinAgain ==
  ASSUME NEW p \in BOOLEAN, NEW now, NEW c, NEW l, Win(c, l, TRUE, p, now),
         NEW S, NEW K, NEW d, Holds(S, K, d, l, TRUE, p, now)
  PROVE  Win(d, l, TRUE, p, now)
BY DEF Win

LEMMA TurnWindowWin ==
  ASSUME policy \in PolicyType, NEW p \in BOOLEAN, NEW now \in Nat, NEW c, NEW l,
         policy.strategy = "turnwindow", Win(c, l, TRUE, p, now)
  PROVE  \/ TurnWindow(c).messages = c
         \/ Win(TurnWindow(c).messages, l, TRUE, p, now)
<1>1. PICK K \in Seq(Plain) :
           /\ Holds(<<>>, K, c, l, TRUE, p, now)
           /\ c = Cat(PromptPart(p), K) /\ Systems(c) = PromptPart(p) /\ Others(c) = K
           /\ K \in Seq(Message) /\ PromptPart(p) \in Seq(Message)
  BY WithoutSummary
<1>2. CASE policy.keep = 0 \/ Cardinality(Starts(K)) <= policy.keep
  BY <1>1, <1>2 DEF TurnWindow, Keep
<1>3. CASE ~(policy.keep = 0 \/ Cardinality(Starts(K)) <= policy.keep)
  <2>1. policy.keep \in Nat /\ policy.keep > 0 /\ Cardinality(Starts(K)) > policy.keep
    <3>1. Starts(K) \in SUBSET (1 .. Len(K)) /\ Len(K) \in Nat
      BY <1>1, LenProperties DEF Starts
    <3>2. Cardinality(Starts(K)) \in Nat
      BY <3>1, UpToFacts
    <3> QED
      BY <1>3, <3>2, PolicyFacts
  <2>2. \E x, y \in Seq(Message) :
          /\ K = Cat(x, y) /\ x # <<>> /\ y # <<>> /\ UserFirst(y)
          /\ LastTurns(K, policy.keep) = y /\ SubSeq(K, 1, Len(K) - Len(y)) = x
    BY <1>1, <2>1, LastTurnsFacts
  <2>3. PICK x \in Seq(Message), y \in Seq(Message) :
          K = Cat(x, y) /\ y # <<>> /\ UserFirst(y) /\ LastTurns(K, policy.keep) = y
    BY <2>2
  <2>4. x \in Seq(Plain) /\ y \in Seq(Plain)
    <3>1. Cat(x, y) \in Seq(Plain)
      BY <1>1, <2>3
    <3> QED
      BY <3>1, PartsIn
  <2>5. TurnWindow(c).messages = Cat(PromptPart(p), Cat(<<>>, y))
    <3>1. Cat(<<>>, y) = y
      BY <2>4, CatEmpty
    <3> QED
      BY <1>1, <1>3, <2>3, <3>1 DEF TurnWindow, Keep, Cat
  <2>6. PICK D \in Seq(Plain) : l = Cat(D, K) /\ Query(K, now)
    BY <1>1 DEF Holds, KeptByWindow
  <2>7. /\ Cat(D, x) \in Seq(Plain) /\ l = Cat(Cat(D, x), y)
        /\ Before(Cat(D, x), y) /\ Query(y, now) /\ Good(y, now)
    <3>1. Good(l, now)
      BY DEF Win
    <3>2. l = Cat(D, Cat(x, y)) /\ Query(Cat(x, y), now)
      BY <2>3, <2>6
    <3>3. D \in Seq(Plain) /\ x \in Seq(Plain) /\ y \in Seq(Plain) /\ y # <<>> /\ UserFirst(y)
      BY <2>3, <2>4
    <3>4. Cuttable(D, x, y, l, now)
      BY <3>1, <3>2, <3>3 DEF Cuttable
    <3> QED
      BY <3>4, CutCuttable
  <2>8. KeptByWindow(<<>>, y, l, TRUE, now)
    BY <2>7 DEF KeptByWindow
  <2>9. KeptByLimit(y, l, TRUE, p, now)
    BY DEF KeptByLimit
  <2>10. Brief(<<>>, now)
    BY <1>1 DEF Holds
  <2>11. Holds(<<>>, y, TurnWindow(c).messages, l, TRUE, p, now)
    BY <2>5, <2>7, <2>8, <2>9, <2>10 DEF Holds
  <2> QED
    BY <2>11, WinAgain
<1> QED
  BY <1>2, <1>3

LEMMA SlidingWindowWin ==
  ASSUME policy \in PolicyType, NEW p \in BOOLEAN, NEW now \in Nat, NEW c, NEW l,
         policy.strategy = "slidingwindow", Win(c, l, TRUE, p, now), SlidingWindow(c).ok
  PROVE  \/ SlidingWindow(c).messages = c
         \/ Win(SlidingWindow(c).messages, l, TRUE, p, now)
<1>1. PICK K \in Seq(Plain) :
           /\ Holds(<<>>, K, c, l, TRUE, p, now)
           /\ c = Cat(PromptPart(p), K) /\ Systems(c) = PromptPart(p) /\ Others(c) = K
           /\ K \in Seq(Message) /\ PromptPart(p) \in Seq(Message)
  BY WithoutSummary
<1> DEFINE kept == policy.keep - Len(PromptPart(p))
<1>2. CASE policy.keep = 0 \/ Len(c) <= policy.keep
  BY <1>2 DEF SlidingWindow, Keep
<1>3. CASE ~(policy.keep = 0 \/ Len(c) <= policy.keep)
  <2>1. ~(Len(PromptPart(p)) > policy.keep) /\ kept \in Nat /\ Len(K) \in Nat
    <3>1. Len(PromptPart(p)) \in Nat /\ Len(K) \in Nat /\ policy.keep \in Nat
      BY <1>1, PolicyFacts
    <3>2. ~(Len(PromptPart(p)) > policy.keep)
      BY <1>1, <1>3 DEF SlidingWindow, Refuse
    <3> QED
      BY <3>1, <3>2
  <2>2. SlidingWindow(c).messages =
          Cat(PromptPart(p), IF Len(K) <= kept THEN K ELSE SubSeq(K, Len(K) - kept + 1, Len(K)))
    BY <1>1, <1>3, <2>1 DEF SlidingWindow, Keep, Cat
  <2>3. CASE Len(K) <= kept
    BY <1>1, <2>2, <2>3
  <2>4. CASE ~(Len(K) <= kept)
    <3> DEFINE n == Len(K) - kept
               x == SubSeq(K, 1, n)
               y == SubSeq(K, n + 1, Len(K))
    <3>1. n \in 0 .. Len(K)
      BY <2>1, <2>4
    <3> HIDE DEF n
    <3>2. x \in Seq(Plain) /\ y \in Seq(Plain) /\ K = Cat(x, y)
      BY <3>1, CutAt
    <3>3. SlidingWindow(c).messages = Cat(PromptPart(p), y)
      BY <2>2, <2>4 DEF n
    <3> HIDE DEF x, y
    <3>4. SlidingWindow(c).messages = Cat(PromptPart(p), Cat(<<>>, y))
      BY <3>2, <3>3, CatEmpty
    <3>5. PICK D \in Seq(Plain) : l = Cat(D, K)
      BY <1>1 DEF Holds, KeptByWindow
    <3>6. l = Cat(Cat(D, x), y) /\ Cat(D, x) \in Seq(Plain)
      BY <3>2, <3>5, CatAssoc, CatTypes
    <3>7. Good(y, now)
      <4>1. Good(Cat(x, y), now)
        BY <1>1, <3>2 DEF Holds
      <4> QED
        BY <3>2, <4>1, GoodParts
    <3>8. KeptByWindow(<<>>, y, l, TRUE, now)
      BY <3>6 DEF KeptByWindow
    <3>9. KeptByLimit(y, l, TRUE, p, now)
      BY DEF KeptByLimit
    <3>10. Brief(<<>>, now)
      BY <1>1 DEF Holds
    <3>11. Holds(<<>>, y, SlidingWindow(c).messages, l, TRUE, p, now)
      BY <3>4, <3>7, <3>8, <3>9, <3>10 DEF Holds
    <3> QED
      BY <3>11, WinAgain
  <2> QED
    BY <2>3, <2>4
<1> QED
  BY <1>2, <1>3

-------------------------------------------------------------------------------
(* tokenlimit.                                                             *)
LEMMA EstimateOfPrompt ==
  ASSUME NEW p \in BOOLEAN
  PROVE  Estimate(PromptPart(p)) = IF p THEN 1 ELSE 0
<1>1. Prompt \in Message /\ Prompt.size = 1
  BY DEF Prompt, Message
<1>2. CASE p
  <2>1. <<Prompt>> \in Seq(Message) /\ Len(<<Prompt>>) = 1 /\ <<Prompt>>[1] = Prompt
    BY <1>1
  <2>2. PICK total : /\ total[0] = 0
                     /\ \A n \in 1 .. Len(<<Prompt>>) : total[n] = total[n - 1] + <<Prompt>>[n].size
                     /\ Estimate(<<Prompt>>) = total[Len(<<Prompt>>)]
    BY <2>1, EstimateLoop
  <2>3. total[1] = total[1 - 1] + 1
    BY <1>1, <2>1, <2>2
  <2>4. Estimate(<<Prompt>>) = 1
    BY <2>1, <2>2, <2>3
  <2> QED
    BY <1>2, <2>4 DEF PromptPart
<1>3. CASE ~p
  <2>1. <<>> \in Seq(Message) /\ Len(<<>>) = 0
    OBVIOUS
  <2>2. PICK total : total[0] = 0 /\ Estimate(<<>>) = total[Len(<<>>)]
    BY <2>1, EstimateLoop
  <2> QED
    BY <1>3, <2>1, <2>2 DEF PromptPart
<1> QED
  BY <1>2, <1>3

LEMMA PromptHasNoUsers ==
  ASSUME NEW p \in BOOLEAN, NEW a \in Seq(Plain), NoUsers(a)
  PROVE  /\ PromptPart(p) \in Seq(Message) /\ a \in Seq(Message)
         /\ Cat(PromptPart(p), a) \in Seq(Message)
         /\ NoUsers(Cat(PromptPart(p), a))
<1>1. Prompt \in Message /\ Prompt.role = "system"
  BY DEF Prompt, Message
<1>2. PromptPart(p) \in Seq(Message) /\ NoUsers(PromptPart(p))
  <2>1. <<Prompt>> \in Seq(Message) /\ <<>> \in Seq(Message)
    BY <1>1
  <2>2. NoUsers(<<Prompt>>) /\ NoUsers(<<>>)
    BY <1>1 DEF NoUsers
  <2> QED
    BY <2>1, <2>2 DEF PromptPart
<1>3. a \in Seq(Message)
  <2>1. Plain \subseteq Message
    BY DEF Plain, Message
  <2> QED
    BY <2>1, SeqMonotonic
<1> QED
  BY <1>2, <1>3, NoUsersCat, CatTypes

(* The last turn of a log is the one the limit has no room for, when the   *)
(* last query is the only one.                                             *)
LEMMA LastTurnIsOver ==
  ASSUME policy \in PolicyType, NEW p \in BOOLEAN, NEW now \in Nat,
         NEW a \in Seq(Plain), NEW h \in Seq(Plain), NEW z \in Seq(Plain), NEW y \in Seq(Plain),
         NEW l, l = Cat(a, Cat(z, y)), Good(l, now), NoUsers(a),
         y # <<>>, UserFirst(y), Query(y, now), OneUser(y), \A i \in DOMAIN h : h[i].turn < now,
         Estimate(Cat(Cat(PromptPart(p), Cat(a, h)), y)) > policy.keep
  PROVE  LastOver(a, h, l, p)
<1>1. Cat(z, y) \in Seq(Plain) /\ Cat(a, z) \in Seq(Plain)
  BY CatTypes
<1>2. l = Cat(Cat(a, z), y)
  BY CatAssoc
<1> DEFINE w == Cat(a, z)
<1>3. w \in Seq(Plain) /\ l = Cat(w, y)
  BY <1>1, <1>2
<1> HIDE DEF w
<1>4. Good(Cat(w, y), now)
  BY <1>3
<1>5. Before(w, y) /\ Good(y, now)
  <2>1. Ordered(Cat(w, y))
    BY <1>4 DEF Good
  <2>2. Before(w, y)
    BY <1>3, <2>1, OrderedParts
  <2>3. Good(y, now)
    BY <1>3, <1>4, GoodParts
  <2> QED
    BY <2>2, <2>3
<1>6. 1 \in DOMAIN y /\ y[1].turn = now
  <2>1. PICK i \in DOMAIN y : y[i].role = "user" /\ y[i].turn = now
    BY DEF Query
  <2>2. i = 1
    BY <2>1 DEF OneUser
  <2> QED
    BY <2>1, <2>2
<1>7. ASSUME NEW i \in DOMAIN y PROVE y[i].turn = now
  <2>1. y[i].turn \in Nat /\ y[i].turn <= now /\ DOMAIN y = 1 .. Len(y)
    BY <1>5, PlainElements DEF Good
  <2>2. now <= y[i].turn
    <3>1. i = 1 \/ 1 < i
      BY <2>1
    <3> QED
      BY <1>5, <1>6, <2>1, <3>1 DEF Good, Ordered
  <2> QED
    BY <2>1, <2>2
<1>8. \A i \in DOMAIN w : w[i].turn < now
  BY <1>5, <1>6 DEF Before
<1>9. now \in Turns(l)
  <2>1. now \in Turns(y)
    BY <1>6, TurnsAre
  <2>2. Turns(Cat(w, y)) = Turns(w) \cup Turns(y)
    BY <1>3, TurnsOfCat
  <2> QED
    BY <1>3, <2>1, <2>2
<1>10. OfTurn(l, now) = y
  <2> DEFINE Other == {m \in Plain : m.turn # now}
             Of == {m \in Plain : m.turn = now}
  <2>1. w \in Seq(Other)
    <3>1. DOMAIN w = 1 .. Len(w) /\ Len(w) \in Nat /\ \A i \in DOMAIN w : w[i] \in Plain /\ w[i].turn \in Nat
      BY <1>3, PlainElements
    <3>2. \A i \in 1 .. Len(w) : w[i] \in Other
      BY <1>8, <3>1
    <3>3. w = [i \in 1 .. Len(w) |-> w[i]]
      BY <1>3, LenProperties
    <3> HIDE DEF Other
    <3>4. [i \in 1 .. Len(w) |-> w[i]] \in Seq(Other)
      BY <3>1, <3>2
    <3> QED
      BY <3>3, <3>4
  <2>2. y \in Seq(Of)
    <3>1. DOMAIN y = 1 .. Len(y) /\ Len(y) \in Nat /\ \A i \in DOMAIN y : y[i] \in Plain
      BY PlainElements
    <3>2. \A i \in 1 .. Len(y) : y[i] \in Of
      BY <1>7, <3>1
    <3>3. y = [i \in 1 .. Len(y) |-> y[i]]
      BY LenProperties
    <3> QED
      BY <3>1, <3>2, <3>3
  <2>3. Other \cap TurnMsgs(now) = {} /\ Of \subseteq TurnMsgs(now)
    BY DEF TurnMsgs, Plain, Message
  <2> HIDE DEF Other, Of
  <2>4. Those(w, TurnMsgs(now)) = <<>> /\ Those(y, TurnMsgs(now)) = y
    BY <2>1, <2>2, <2>3, ThoseNone, ThoseAll
  <2>5. Those(Cat(w, y), TurnMsgs(now)) = Cat(Those(w, TurnMsgs(now)), Those(y, TurnMsgs(now)))
    BY <1>3, ThoseCat
  <2>6. Those(l, TurnMsgs(now)) = y
    BY <1>3, <2>4, <2>5, CatEmpty
  <2>7. l \in Seq(Message)
    <3>1. Plain \subseteq Message /\ l \in Seq(Plain)
      BY DEF Plain, Message, Good
    <3> QED
      BY <3>1, SeqMonotonic
  <2> QED
    BY <2>6, <2>7, ViewsAs
<1>11. Earlier(h, now) = h
  <2> DEFINE A == {m \in Message : m.turn < now}
  <2>1. DOMAIN h = 1 .. Len(h) /\ Len(h) \in Nat /\ \A i \in DOMAIN h : h[i] \in Plain
    BY PlainElements
  <2>2. \A i \in 1 .. Len(h) : h[i] \in A
    <3>1. Plain \subseteq Message
      BY DEF Plain, Message
    <3> QED
      BY <2>1, <3>1
  <2> HIDE DEF A
  <2>3. h \in Seq(A)
    <3>1. h = [i \in 1 .. Len(h) |-> h[i]]
      BY LenProperties
    <3>2. [i \in 1 .. Len(h) |-> h[i]] \in Seq(A)
      BY <2>1, <2>2
    <3> QED
      BY <3>1, <3>2
  <2>4. Those(h, A) = h
    BY <2>3, ThoseAll
  <2> QED
    BY <2>4 DEF Earlier, A
<1>12. /\ PromptPart(p) \in Seq(Message) /\ a \in Seq(Message) /\ h \in Seq(Message)
       /\ y \in Seq(Message)
  <2>1. Plain \subseteq Message
    BY DEF Plain, Message
  <2> QED
    BY <2>1, SeqMonotonic, PromptHasNoUsers
<1>13. Over(a, h, l, now, p)
  <2>1. /\ Cat(a, h) \in Seq(Message) /\ Estimate(Cat(a, h)) \in Nat
        /\ Cat(PromptPart(p), Cat(a, h)) \in Seq(Message)
    <3>1. Cat(a, h) \in Seq(Message)
      BY <1>12, CatTypes
    <3> QED
      BY <1>12, <3>1, CatTypes, EstimateOfCat
  <2>2. /\ Estimate(Cat(Cat(PromptPart(p), Cat(a, h)), y))
             = Estimate(Cat(PromptPart(p), Cat(a, h))) + Estimate(y)
        /\ Estimate(y) \in Nat
    BY <1>12, <2>1, EstimateOfCat
  <2>3. Estimate(Cat(PromptPart(p), Cat(a, h))) = Estimate(PromptPart(p)) + Estimate(Cat(a, h))
    BY <1>12, <2>1, EstimateOfCat
  <2>4. Estimate(Cat(Cat(a, h), y)) = Estimate(Cat(a, h)) + Estimate(y)
    BY <1>12, <2>1, EstimateOfCat
  <2>5. Estimate(PromptPart(p)) = IF p THEN 1 ELSE 0
    BY EstimateOfPrompt
  <2>6. policy.keep \in Nat
    BY PolicyFacts
  <2>7. Estimate(Cat(Cat(a, h), y)) + (IF p THEN 1 ELSE 0) > policy.keep
    BY <2>1, <2>2, <2>3, <2>4, <2>5, <2>6
  <2> QED
    BY <1>10, <1>11, <2>7 DEF Over
<1>14. \A t \in Turns(l) : t <= now
  <2> SUFFICES ASSUME NEW t \in Turns(l) PROVE t <= now
    OBVIOUS
  <2>1. l \in Seq(Plain) /\ \A i \in DOMAIN l : l[i].turn <= now
    BY DEF Good
  <2>2. PICK i \in DOMAIN l : l[i].turn = t
    BY <2>1, TurnsAre
  <2> QED
    BY <2>1, <2>2
<1> QED
  BY <1>9, <1>13, <1>14 DEF LastOver

(* What tokenlimit keeps: it drops the least number of turns that will do. *)
LEMMA TokenLimitDrops ==
  ASSUME policy \in PolicyType, NEW c \in Seq(Message), TokenLimit(c).ok
  PROVE  \/ TokenLimit(c).messages = c
         \/ \E n \in 0 .. CountTurns(c) :
              /\ TokenLimit(c).messages = DropTurns(c, n)
              /\ n > 0 => Estimate(DropTurns(c, n - 1)) > policy.keep
<1> DEFINE fits == {n \in 0 .. CountTurns(c) : Estimate(DropTurns(c, n)) <= policy.keep}
           n == CHOOSE n \in fits : \A m \in fits : n <= m
<1>1. CountTurns(c) \in Nat /\ policy.keep \in Nat
  BY UsersFacts, PolicyFacts
<1>2. CASE policy.keep = 0
  BY <1>2 DEF TokenLimit, Keep
<1>3. CASE policy.keep # 0
  <2>1. fits # {}
    BY <1>3 DEF TokenLimit, Refuse
  <2>2. fits \in SUBSET Nat
    BY <1>1
  <2>3. TokenLimit(c).messages = DropTurns(c, n)
    BY <1>3, <2>1 DEF TokenLimit, Keep
  <2> DEFINE out == TokenLimit(c).messages
  <2>4. out = DropTurns(c, n)
    BY <2>3
  <2> HIDE DEF fits, out
  <2>5. \E k \in fits : \A m \in fits : k <= m
    BY <2>1, <2>2, LeastNatural
  <2>6. n \in fits /\ \A m \in fits : n <= m
    BY <2>5
  <2> HIDE DEF n
  <2>7. n \in 0 .. CountTurns(c)
    BY <2>6 DEF fits
  <2>8. ASSUME n > 0 PROVE Estimate(DropTurns(c, n - 1)) > policy.keep
    <3>1. n - 1 \in 0 .. CountTurns(c) /\ ~(n <= n - 1)
      BY <1>1, <2>7, <2>8
    <3>2. n - 1 \notin fits
      BY <2>6, <3>1
    <3>3. ~(Estimate(DropTurns(c, n - 1)) <= policy.keep)
      BY <3>1, <3>2 DEF fits
    <3>4. Estimate(DropTurns(c, n - 1)) \in Nat
      <4>1. PICK a \in Seq(Message), b \in Seq(Message) : c = Cat(a, b) /\ NoUsers(a) /\ UserFirst(b)
        BY SplitAtUser
      <4>2. \E x, y \in Seq(Message) : DropTurns(c, n - 1) = Cat(a, y)
        BY <3>1, <4>1, DropTurnsFacts
      <4>3. DropTurns(c, n - 1) \in Seq(Message)
        BY <4>2, CatTypes
      <4> QED
        BY <4>3, EstimateOfCat
    <3> QED
      BY <1>1, <3>3, <3>4
  <2> QED
    BY <2>4, <2>7, <2>8 DEF out
<1> QED
  BY <1>2, <1>3
LEMMA PlainDrops ==
  ASSUME NEW a \in Seq(Message), NEW b \in Seq(Plain), NoUsers(a), UserFirst(b),
         NEW c, c = Cat(a, b)
  PROVE  \A k \in 0 .. CountTurns(c) :
           \E x, y \in Seq(Plain) :
             /\ b = Cat(x, y) /\ DropTurns(c, k) = Cat(a, y) /\ UserFirst(y)
             /\ k = CountTurns(c) => y = <<>>
             /\ k # CountTurns(c) => y # <<>>
             /\ k + 1 = CountTurns(c) => OneUser(y)
<1> TAKE k \in 0 .. CountTurns(c)
<1>1. Plain \in SUBSET Message
  BY DEF Plain, Message
<1> QED
  BY <1>1, DropTurnsFacts

LEMMA TokenLimitWin ==
  ASSUME policy \in PolicyType, NEW p \in BOOLEAN, NEW now \in Nat, NEW c, NEW l,
         policy.strategy = "tokenlimit", Win(c, l, TRUE, p, now), TokenLimit(c).ok
  PROVE  \/ TokenLimit(c).messages = c
         \/ Win(TokenLimit(c).messages, l, TRUE, p, now)
<1> DEFINE P == PromptPart(p)
           out == TokenLimit(c).messages
<1>1. PICK K \in Seq(Plain) :
           /\ Holds(<<>>, K, c, l, TRUE, p, now)
           /\ c = Cat(P, K) /\ K \in Seq(Message) /\ P \in Seq(Message)
  BY WithoutSummary
<1>2. c \in Seq(Message)
  BY <1>1, CatTypes
<1>3. SUFFICES ASSUME NEW n \in 0 .. CountTurns(c), out = DropTurns(c, n),
                      n > 0 => Estimate(DropTurns(c, n - 1)) > policy.keep
               PROVE  Win(out, l, TRUE, p, now)
  BY <1>2, TokenLimitDrops
<1> HIDE DEF out
<1>4. PICK a, h, m, r \in Seq(Plain) : Limited(a, h, m, r, K, l, TRUE, p, now)
  BY <1>1 DEF Holds, KeptByLimit
<1>5. /\ K = Cat(a, Cat(h, r)) /\ l = Cat(a, Cat(m, r))
      /\ NoUsers(a) /\ NoUsers(h) /\ UserFirst(Cat(m, r)) /\ UserFirst(r)
      /\ LeftOver(a, h, m, l, p)
      /\ r = <<>> /\ m # <<>> => LastOver(a, h, l, p)
      /\ r = <<>> \/ Query(r, now)
  BY <1>4 DEF Limited
<1>6. Good(K, now) /\ Good(l, now)
  BY <1>1 DEF Holds, Win
<1> DEFINE A == Cat(a, h)
           B == Cat(P, A)
<1>7. /\ A \in Seq(Plain) /\ A \in Seq(Message) /\ NoUsers(A)
      /\ \A s \in Seq(Plain) : s \in Seq(Message)
  <2>1. Plain \subseteq Message
    BY DEF Plain, Message
  <2>2. \A s \in Seq(Plain) : s \in Seq(Message)
    BY <2>1, SeqMonotonic
  <2>3. Cat(a, h) \in Seq(Plain)
    BY CatTypes
  <2>4. NoUsers(Cat(a, h))
    BY <1>5, <2>2, NoUsersCat
  <2> QED
    BY <2>2, <2>3, <2>4
<1>8. \A y \in Seq(Plain) : Cat(a, Cat(h, y)) = Cat(A, y)
  BY CatAssoc
<1> HIDE DEF A
<1>9. B \in Seq(Message) /\ NoUsers(B)
  BY <1>7, PromptHasNoUsers
<1>10. \A y \in Seq(Plain) : Cat(B, y) = Cat(P, Cat(A, y))
  <2> SUFFICES ASSUME NEW y \in Seq(Plain) PROVE Cat(B, y) = Cat(P, Cat(A, y))
    OBVIOUS
  <2>1. P \in Seq(Message) /\ A \in Seq(Message) /\ y \in Seq(Message)
    BY <1>1, <1>7
  <2> QED
    BY <2>1, CatAssoc
<1>11. c = Cat(B, r)
  BY <1>1, <1>5, <1>8, <1>10
<1> HIDE DEF B
<1>12. CountTurns(c) \in Nat /\ n \in Nat
  BY <1>2, UsersFacts
<1>13. \A k \in 0 .. CountTurns(c) :
         \E x, y \in Seq(Plain) :
           /\ r = Cat(x, y) /\ DropTurns(c, k) = Cat(B, y) /\ UserFirst(y)
           /\ k = CountTurns(c) => y = <<>>
           /\ k # CountTurns(c) => y # <<>>
           /\ k + 1 = CountTurns(c) => OneUser(y)
  BY <1>5, <1>9, <1>11, PlainDrops
<1>14. PICK x \in Seq(Plain), y \in Seq(Plain) :
         /\ r = Cat(x, y) /\ DropTurns(c, n) = Cat(B, y) /\ UserFirst(y)
         /\ n = CountTurns(c) => y = <<>>
         /\ n # CountTurns(c) => y # <<>>
  BY <1>13
<1> DEFINE J == Cat(a, Cat(h, y))
<1>15. J \in Seq(Plain) /\ J = Cat(A, y)
  BY <1>8, CatTypes
<1>16. Good(J, now)
  <2>1. Good(Cat(A, Cat(x, y)), now)
    <3>1. K = Cat(A, r)
      BY <1>5, <1>8
    <3> QED
      BY <1>6, <1>14, <3>1
  <2> QED
    BY <1>7, <1>15, <2>1, GoodCut
<1>17. l = Cat(a, Cat(Cat(m, x), y)) /\ Cat(m, x) \in Seq(Plain) /\ Cat(Cat(m, x), y) = Cat(m, r)
  <2>1. Cat(m, x) \in Seq(Plain) /\ Cat(Cat(m, x), y) = Cat(m, Cat(x, y))
    BY CatAssoc, CatTypes
  <2> QED
    BY <1>5, <1>14, <2>1
<1>18. Good(r, now)
  <2>1. Cat(h, r) \in Seq(Plain)
    BY CatTypes
  <2>2. Good(Cat(h, r), now)
    BY <1>5, <1>6, <2>1, GoodParts
  <2> QED
    BY <2>2, GoodParts
<1>19. \A v, w \in Seq(Plain) : r = Cat(v, w) /\ w # <<>> /\ UserFirst(w) => Query(w, now)
  <2> SUFFICES ASSUME NEW v \in Seq(Plain), NEW w \in Seq(Plain), r = Cat(v, w), w # <<>>, UserFirst(w)
               PROVE  Query(w, now)
    OBVIOUS
  <2>1. r # <<>>
    <3>1. Len(r) = Len(v) + Len(w) /\ Len(v) \in Nat /\ Len(w) \in Nat
      BY CatTypes
    <3> QED
      BY <3>1
  <2>2. Query(Cat(v, w), now) /\ Good(Cat(v, w), now)
    BY <1>5, <1>18, <2>1
  <2> QED
    BY <2>2, QueryInLast
<1>20. LeftOver(a, h, Cat(m, x), l, p)
  <2> SUFFICES ASSUME NEW t \in Turns(h) PROVE Over(a, h, l, t, p) /\ Ends(h, Cat(m, x), t)
    BY DEF LeftOver
  <2>1. Over(a, h, l, t, p) /\ Ends(h, m, t)
    BY <1>5 DEF LeftOver
  <2>2. t \notin Turns(r)
    <3>1. CASE r = <<>>
      BY <3>1 DEF Turns, Range
    <3>2. CASE r # <<>>
      <4>1. Before(h, r)
        BY <1>5, <1>6, <3>2, LeftIsBefore
      <4> QED
        BY <4>1, TurnsApart
    <3> QED
      BY <3>1, <3>2
  <2>3. t \notin Turns(x)
    <3>1. Turns(Cat(x, y)) = Turns(x) \cup Turns(y)
      BY TurnsOfCat
    <3> QED
      BY <1>14, <2>2, <3>1
  <2>4. OfTurn(Cat(m, x), t) = OfTurn(m, t)
    BY <2>3, OfTurnOutside
  <2> QED
    BY <2>1, <2>4 DEF Ends
<1>21. y = <<>> /\ Cat(m, x) # <<>> => LastOver(a, h, l, p)
  <2> SUFFICES ASSUME y = <<>>, Cat(m, x) # <<>> PROVE LastOver(a, h, l, p)
    OBVIOUS
  <2>1. n = CountTurns(c)
    BY <1>14
  <2>2. CASE r = <<>>
    <3>1. Len(Cat(m, x)) = Len(m) + Len(x) /\ Len(m) \in Nat /\ Len(x) \in Nat
      BY CatTypes
    <3>2. Len(r) = Len(x) + Len(y) /\ Len(y) \in Nat
      BY <1>14, CatTypes
    <3>3. Len(x) = 0
      BY <2>2, <3>1, <3>2
    <3>4. m # <<>>
      BY <3>1, <3>3
    <3> QED
      BY <1>5, <2>2, <3>4
  <2>3. CASE r # <<>>
    <3>1. n > 0
      <4>1. Users(Cat(B, r)) # {}
        <5>1. B \in Seq(Message) /\ r \in Seq(Message) /\ NoUsers(B) /\ UserFirst(r)
          BY <1>5, <1>7, <1>9
        <5> QED
          BY <2>3, <5>1, UsersOfCat
      <4>2. Users(c) # {}
        BY <1>11, <4>1
      <4> QED
        BY <1>2, <1>12, <2>1, <4>2, UsersFacts
    <3>2. n - 1 \in 0 .. CountTurns(c) /\ n - 1 # CountTurns(c) /\ n - 1 + 1 = CountTurns(c)
      BY <1>12, <2>1, <3>1
    <3>3. PICK v \in Seq(Plain), w \in Seq(Plain) :
            /\ r = Cat(v, w) /\ DropTurns(c, n - 1) = Cat(B, w) /\ UserFirst(w)
            /\ w # <<>> /\ OneUser(w)
      BY <1>13, <3>2
    <3>4. Query(w, now)
      BY <1>19, <3>3
    <3>5. Estimate(Cat(Cat(PromptPart(p), Cat(a, h)), w)) > policy.keep
      BY <1>3, <3>1, <3>3 DEF A, B, P
    <3> DEFINE z == Cat(m, v)
    <3>6. z \in Seq(Plain) /\ Cat(m, r) = Cat(z, w)
      BY <3>3, CatAssoc, CatTypes
    <3> HIDE DEF z
    <3>7. l = Cat(a, Cat(z, w))
      BY <1>5, <3>6
    <3>8. \A i \in DOMAIN h : h[i].turn < now
      <4>1. Before(h, r)
        BY <1>5, <1>6, <2>3, LeftIsBefore
      <4>2. PICK j \in DOMAIN r : r[j].turn = now
        BY <1>5, <2>3 DEF Query
      <4> QED
        BY <4>1, <4>2 DEF Before
    <3> QED
      BY <1>5, <1>6, <3>3, <3>4, <3>5, <3>6, <3>7, <3>8, LastTurnIsOver
  <2> QED
    BY <2>2, <2>3
<1>22. y = <<>> \/ Query(y, now)
  BY <1>14, <1>19
<1>23. Limited(a, h, Cat(m, x), y, J, l, TRUE, p, now)
  BY <1>5, <1>14, <1>17, <1>20, <1>21, <1>22 DEF Limited
<1>24. KeptByLimit(J, l, TRUE, p, now)
  BY <1>17, <1>23 DEF KeptByLimit
<1>25. out = Cat(P, Cat(<<>>, J))
  <2>1. out = Cat(P, J)
    BY <1>3, <1>10, <1>14, <1>15
  <2> QED
    BY <1>15, <2>1, CatEmpty
<1>26. KeptByWindow(<<>>, J, l, TRUE, now)
  BY DEF KeptByWindow
<1>27. Brief(<<>>, now)
  BY <1>1 DEF Holds
<1> HIDE DEF J
<1>28. Holds(<<>>, J, out, l, TRUE, p, now)
  BY <1>16, <1>24, <1>25, <1>26, <1>27 DEF Holds, P
<1> QED
  BY <1>28, WinAgain

-------------------------------------------------------------------------------
(* summary.                                                                *)
(* The summaries that partitionSystemMessages takes out.                   *)
PriorMsgs == {m \in Message : IsSummary(m) /\ m.role = policy.role}
PriorIn(s) == {i \in DOMAIN s : IsSummary(s[i]) /\ s[i].role = policy.role}

LEMMA PriorFacts ==
  ASSUME policy \in PolicyType, NEW p \in BOOLEAN, NEW now \in Nat, NEW S, Brief(S, now),
         NEW all, all = Cat(PromptPart(p), IF policy.role = "system" THEN S ELSE <<>>)
  PROVE  /\ Select(all, PriorIn(all)) = IF policy.role = "system" THEN S ELSE <<>>
         /\ Select(all, DOMAIN all \ PriorIn(all)) = PromptPart(p)
<1> DEFINE P == PromptPart(p)
           Q == IF policy.role = "system" THEN S ELSE <<>>
           NotPrior == Message \ PriorMsgs
<1>1. /\ P \in Seq({Prompt}) /\ P \in Seq(Message)
      /\ S \in Seq(SummaryMsgs(now)) /\ S \in Seq(Message)
  <2>1. <<>> \in Seq(Plain)
    OBVIOUS
  <2> QED
    BY <2>1, PartTypes
<1>2. Q \in Seq(SummaryMsgs(now)) /\ Q \in Seq(Message)
  <2>1. <<>> \in Seq(SummaryMsgs(now)) /\ <<>> \in Seq(Message)
    OBVIOUS
  <2> QED
    BY <1>1, <2>1
<1>3. /\ {Prompt} \cap PriorMsgs = {} /\ {Prompt} \subseteq NotPrior
      /\ SummaryMsgs(now) \subseteq PriorMsgs /\ SummaryMsgs(now) \cap NotPrior = {}
  <2>1. /\ Prompt \in Message /\ ~IsSummary(Prompt) /\ SummaryMsgs(now) \subseteq Message
        /\ \A m \in SummaryMsgs(now) : IsSummary(m) /\ m.role = policy.role
    BY MessageFacts
  <2> QED
    BY <2>1 DEF PriorMsgs
<1> HIDE DEF P, Q, NotPrior
<1>4. all \in Seq(Message) /\ all = Cat(P, Q)
  <2>1. all = Cat(P, Q)
    BY DEF P, Q
  <2> QED
    BY <1>1, <1>2, <2>1, CatTypes
<1>5. /\ Those(P, PriorMsgs) = <<>> /\ Those(P, NotPrior) = P
      /\ Those(Q, PriorMsgs) = Q /\ Those(Q, NotPrior) = <<>>
  BY <1>1, <1>2, <1>3, ThoseAll, ThoseNone
<1>6. Those(all, PriorMsgs) = Q /\ Those(all, NotPrior) = P
  <2>1. P \in Seq(Message) /\ Q \in Seq(Message)
    BY <1>1, <1>2
  <2>2. /\ Those(Cat(P, Q), PriorMsgs) = Cat(Those(P, PriorMsgs), Those(Q, PriorMsgs))
        /\ Those(Cat(P, Q), NotPrior) = Cat(Those(P, NotPrior), Those(Q, NotPrior))
    BY <2>1, ThoseCat
  <2>3. Cat(<<>>, Q) = Q /\ Cat(P, <<>>) = P
    BY <2>1, CatEmpty
  <2> QED
    BY <1>4, <1>5, <2>2, <2>3
<1>7. /\ {i \in DOMAIN all : all[i] \in PriorMsgs} = PriorIn(all)
      /\ {i \in DOMAIN all : all[i] \in NotPrior} = DOMAIN all \ PriorIn(all)
  <2>1. \A i \in DOMAIN all : all[i] \in Message
    BY <1>4, LenProperties, ElementOfSeq
  <2> QED
    BY <2>1 DEF PriorIn, PriorMsgs, NotPrior
<1> QED
  BY <1>6, <1>7 DEF Those, P, Q

LEMMA SummaryFacts ==
  ASSUME policy \in PolicyType, NEW now \in Nat, NEW S, Brief(S, now)
  PROVE  /\ Turns(S) \subseteq {0} /\ Covers(S) \in SUBSET (1 .. now)
         /\ Covers(S) = {} => S = <<>>
<1>1. S \in Seq(SummaryMsgs(now)) /\ DOMAIN S = 1 .. Len(S) /\ Len(S) \in Nat
  BY LenProperties DEF Brief
<1>2. ASSUME NEW i \in DOMAIN S
      PROVE  S[i].turn = 0 /\ S[i].covers # {} /\ S[i] \in Range(S)
  <2>1. S[i] \in SummaryMsgs(now)
    BY <1>1, ElementOfSeq
  <2>2. S[i].turn = 0 /\ IsSummary(S[i])
    BY <2>1, MessageFacts
  <2> QED
    BY <2>2 DEF IsSummary, Range
<1>3. Turns(S) \subseteq {0}
  BY <1>2 DEF Turns, Range
<1>4. Covers(S) \in SUBSET (1 .. now)
  BY BriefStays
<1>5. ASSUME S # <<>> PROVE Covers(S) # {}
  <2>1. 1 \in DOMAIN S
    BY <1>1, <1>5
  <2> QED
    BY <1>2, <2>1 DEF Covers
<1> QED
  BY <1>3, <1>4, <1>5

LEMMA TurnsInParts ==
  ASSUME NEW S, NEW x \in Seq(S)
  PROVE  TurnsIn(x) = Turns(x) \cup Covers(x)
BY DEF TurnsIn, Turns, Covers

LEMMA PlainCovers ==
  ASSUME NEW x \in Seq(Plain)
  PROVE  Covers(x) = {}
<1>1. \A i \in DOMAIN x : x[i] \in Plain
  BY PlainElements
<1> QED
  BY <1>1 DEF Covers, Range, Plain

(* What the summary covers: the turns it replaces and what those covered   *)
(* that it takes in, whatever their role.                                  *)
LEMMA SummaryCovers ==
  ASSUME policy \in PolicyType, NEW now \in Nat, NEW S, Brief(S, now), NEW x \in Seq(Plain),
         NEW prior, NEW early,
         \/ prior = S /\ early = <<>>
         \/ prior = <<>> /\ early = S
  PROVE  TurnsIn(prior \o Cat(early, x)) \ {0} = (Covers(S) \cup Turns(x)) \ {0}
<1>1. S \in Seq(Message) /\ x \in Seq(Message)
  <2>1. TRUE \in BOOLEAN
    OBVIOUS
  <2> QED
    BY <2>1, PartTypes
<1>2. prior \in Seq(Message) /\ early \in Seq(Message)
  <2>1. <<>> \in Seq(Message)
    OBVIOUS
  <2> QED
    BY <1>1, <2>1
<1>3. Cat(early, x) \in Seq(Message)
  BY <1>1, <1>2, CatTypes
<1>4. Cat(prior, Cat(early, x)) \in Seq(Message)
  BY <1>2, <1>3, CatTypes
<1>5. /\ Turns(Cat(early, x)) = Turns(early) \cup Turns(x)
      /\ Covers(Cat(early, x)) = Covers(early) \cup Covers(x)
  BY <1>1, <1>2, TurnsOfCat
<1>6. /\ Turns(Cat(prior, Cat(early, x))) = Turns(prior) \cup Turns(Cat(early, x))
      /\ Covers(Cat(prior, Cat(early, x))) = Covers(prior) \cup Covers(Cat(early, x))
  BY <1>2, <1>3, TurnsOfCat
<1>7. Turns(<<>>) = {} /\ Covers(<<>>) = {}
  BY DEF Turns, Covers, Range
<1>8. Turns(S) \subseteq {0} /\ Covers(x) = {}
  BY SummaryFacts, PlainCovers
<1>9. TurnsIn(Cat(prior, Cat(early, x))) = Turns(Cat(prior, Cat(early, x))) \cup Covers(Cat(prior, Cat(early, x)))
  BY <1>4, TurnsInParts
<1>10. TurnsIn(Cat(prior, Cat(early, x))) \ {0} = (Covers(S) \cup Turns(x)) \ {0}
  BY <1>5, <1>6, <1>7, <1>8, <1>9
<1> QED
  BY <1>10 DEF Cat

LEMMA SummaryIs ==
  ASSUME NEW c, NEW works \in BOOLEAN, Summary(c, works).ok,
         NEW all, all = Systems(c), NEW others, others = Others(c),
         NEW recent, recent = LastTurns(others, policy.keep)
  PROVE  \/ Summary(c, works).messages = c
         \/ /\ ~(policy.keep = 0 \/ Cardinality(Starts(others)) <= policy.keep)
            /\ Summary(c, works).messages =
                 Cat(Append(Select(all, DOMAIN all \ PriorIn(all)),
                            SummaryOf(TurnsIn(Select(all, PriorIn(all)) \o
                                              SubSeq(others, 1, Len(others) - Len(recent))) \ {0})),
                     recent)
<1>1. CASE policy.keep = 0 \/ Cardinality(Starts(others)) <= policy.keep
  BY <1>1 DEF Summary, Keep
<1>2. CASE ~(policy.keep = 0 \/ Cardinality(Starts(others)) <= policy.keep)
  <2>1. works
    BY <1>2 DEF Summary, Refuse
  <2> QED
    BY <1>2, <2>1 DEF Summary, Keep, PriorIn, Cat
<1> QED
  BY <1>1, <1>2

(* The turns of a part that all may be none of are one message.            *)
LEMMA OnlyLeading ==
  ASSUME NEW now \in Nat, NEW x \in Seq(Plain), Good(x, now), x # <<>>, Turns(x) \subseteq {0}
  PROVE  Len(x) = 1
<1>1. DOMAIN x = 1 .. Len(x) /\ Len(x) \in Nat
  BY PlainElements
<1>2. \A i \in DOMAIN x : x[i].turn = 0
  BY TurnsAre
<1>3. Len(x) # 0
  BY <1>1
<1>4. ASSUME Len(x) >= 2 PROVE FALSE
  <2>1. 1 \in DOMAIN x /\ 2 \in DOMAIN x /\ 1 < 2
    BY <1>1, <1>4
  <2>2. x[2].turn > 0
    BY <2>1 DEF Good, Ordered
  <2> QED
    BY <1>2, <2>1, <2>2
<1> QED
  BY <1>1, <1>3, <1>4

LEMMA SummaryWin ==
  ASSUME policy \in PolicyType, NEW p \in BOOLEAN, NEW now \in Nat, NEW c, NEW l, NEW works \in BOOLEAN,
         policy.strategy = "summary", Win(c, l, TRUE, p, now), Summary(c, works).ok
  PROVE  \/ Summary(c, works).messages = c
         \/ Len(Summary(c, works).messages) = Len(c)
         \/ Win(Summary(c, works).messages, l, TRUE, p, now)
<1> DEFINE P == PromptPart(p)
           all == Systems(c)
           others == Others(c)
           recent == LastTurns(others, policy.keep)
           out == Summary(c, works).messages
<1>1. PICK S, K : Holds(S, K, c, l, TRUE, p, now)
  BY DEF Win
<1> DEFINE prior == IF policy.role = "system" THEN S ELSE <<>>
           early == IF policy.role = "system" THEN <<>> ELSE S
<1>2. /\ c = Cat(P, Cat(S, K)) /\ Brief(S, now) /\ Good(K, now) /\ K \in Seq(Plain)
  BY <1>1 DEF Holds, Good
<1>3. all = Cat(P, prior) /\ others = Cat(early, K)
  <2>1. K \in Seq(Plain) /\ Brief(S, now) /\ c = Cat(PromptPart(p), Cat(S, K))
    BY <1>2
  <2> QED
    BY <2>1, ViewsOfParts
<1>4. Select(all, PriorIn(all)) = prior /\ Select(all, DOMAIN all \ PriorIn(all)) = P
  <2>1. all = Cat(PromptPart(p), IF policy.role = "system" THEN S ELSE <<>>)
    BY <1>3
  <2> HIDE DEF all
  <2> QED
    BY <1>2, <2>1, PriorFacts
<1>5. /\ S \in Seq(Message) /\ K \in Seq(Message) /\ P \in Seq(Message)
      /\ early \in Seq(Message) /\ others \in Seq(Message)
      /\ Len(early) <= 1 /\ Len(early) \in Nat
      /\ \/ prior = S /\ early = <<>>
         \/ prior = <<>> /\ early = S
  <2>1. S \in Seq(Message) /\ K \in Seq(Message) /\ P \in Seq(Message)
    BY <1>2, PartTypes
  <2>2. Len(S) <= 1
    BY <1>2 DEF Brief
  <2>3. early \in Seq(Message) /\ Len(early) <= 1 /\ Len(early) \in Nat
    BY <2>1, <2>2
  <2> HIDE DEF early, prior
  <2>4. Cat(early, K) \in Seq(Message)
    BY <2>1, <2>3, CatTypes
  <2> QED
    BY <1>3, <2>1, <2>3, <2>4 DEF early, prior
<1>6. SUFFICES ASSUME ~(policy.keep = 0 \/ Cardinality(Starts(others)) <= policy.keep),
                      out = Cat(Append(P, SummaryOf(TurnsIn(prior \o
                                   SubSeq(others, 1, Len(others) - Len(recent))) \ {0})), recent)
               PROVE  Len(out) = Len(c) \/ Win(out, l, TRUE, p, now)
  <2> HIDE DEF prior, early, P
  <2>1. \/ out = c
        \/ /\ ~(policy.keep = 0 \/ Cardinality(Starts(others)) <= policy.keep)
           /\ out = Cat(Append(Select(all, DOMAIN all \ PriorIn(all)),
                               SummaryOf(TurnsIn(Select(all, PriorIn(all)) \o
                                   SubSeq(others, 1, Len(others) - Len(recent))) \ {0})), recent)
    BY SummaryIs
  <2> QED
    BY <1>4, <2>1
<1> HIDE DEF all, others, out, prior, early, recent
<1>7. PICK X \in Seq(Message), Y \in Seq(Message) :
          /\ others = Cat(X, Y) /\ X # <<>> /\ Y # <<>> /\ UserFirst(Y)
          /\ recent = Y /\ SubSeq(others, 1, Len(others) - Len(Y)) = X
  <2>1. policy.keep \in Nat /\ policy.keep > 0 /\ Cardinality(Starts(others)) > policy.keep
    <3>1. Starts(others) \in SUBSET (1 .. Len(others)) /\ Len(others) \in Nat
      BY <1>5, LenProperties DEF Starts
    <3>2. Cardinality(Starts(others)) \in Nat
      BY <3>1, UpToFacts
    <3> QED
      BY <1>6, <3>2, PolicyFacts
  <2>2. \E x, y \in Seq(Message) :
          /\ others = Cat(x, y) /\ x # <<>> /\ y # <<>> /\ UserFirst(y)
          /\ LastTurns(others, policy.keep) = y /\ SubSeq(others, 1, Len(others) - Len(y)) = x
    BY <1>5, <2>1, LastTurnsFacts
  <2> QED
    BY <2>2 DEF recent
<1>8. PICK x \in Seq(Message) : X = Cat(early, x) /\ K = Cat(x, Y)
  <2>1. Len(early) <= Len(X)
    BY <1>5, <1>7
  <2>2. Cat(early, K) = Cat(X, Y)
    BY <1>3, <1>7
  <2> QED
    BY <1>5, <2>1, <2>2, CutTwice
<1>9. x \in Seq(Plain) /\ Y \in Seq(Plain)
  <2>1. Cat(x, Y) \in Seq(Plain)
    BY <1>2, <1>8
  <2> QED
    BY <2>1, PartsIn
<1> DEFINE T == (Covers(S) \cup Turns(x)) \ {0}
           R == <<SummaryOf(T)>>
<1>10. out = Cat(P, Cat(R, Y))
  <2>1. TurnsIn(prior \o Cat(early, x)) \ {0} = T
    BY <1>2, <1>5, <1>9, SummaryCovers
  <2>2. out = Cat(Append(P, SummaryOf(T)), Y)
    BY <1>6, <1>7, <1>8, <2>1
  <2>3. SummaryOf(T) \in Message
    <3>1. T \in SUBSET Nat
      <4>1. Covers(S) \in SUBSET (1 .. now)
        BY <1>2, SummaryFacts
      <4>2. \A t \in Turns(x) : t \in Nat
        BY <1>9, TurnsAre, PlainElements
      <4> QED
        BY <4>1, <4>2
    <3> QED
      BY <3>1, PolicyFacts DEF SummaryOf, Message
  <2>4. R \in Seq(Message)
    BY <2>3
  <2>5. Append(P, SummaryOf(T)) = Cat(P, R)
    BY <1>5, <2>3, AppendIsConcat DEF Cat
  <2> HIDE DEF R
  <2>6. P \in Seq(Message) /\ R \in Seq(Message) /\ Y \in Seq(Message)
    BY <1>5, <2>4
  <2>7. Cat(Cat(P, R), Y) = Cat(P, Cat(R, Y))
    BY <2>6, CatAssoc
  <2> QED
    BY <2>2, <2>5, <2>7
<1>11. PICK D \in Seq(Plain) :
          /\ l = Cat(D, K) /\ Query(K, now)
          /\ Turns(D) \subseteq Covers(S) \cup {0} /\ Covers(S) \cap Turns(K) = {}
  BY <1>1 DEF Holds, KeptByWindow
<1>12. /\ Cat(D, x) \in Seq(Plain) /\ l = Cat(Cat(D, x), Y)
       /\ Before(Cat(D, x), Y) /\ Query(Y, now) /\ Good(Y, now) /\ Good(Cat(x, Y), now)
       /\ Turns(Cat(D, x)) = Turns(D) \cup Turns(x)
  <2>1. Good(l, now)
    BY DEF Win
  <2>2. l = Cat(D, Cat(x, Y)) /\ Query(Cat(x, Y), now)
    BY <1>8, <1>11
  <2> QED
    BY <1>7, <1>9, <2>1, <2>2, CutKept
<1>13. Good(x, now) /\ Before(x, Y)
  <2>1. Ordered(Cat(x, Y))
    BY <1>12 DEF Good
  <2>2. Before(x, Y)
    BY <1>7, <1>9, <2>1, OrderedParts
  <2>3. Good(x, now)
    BY <1>9, <1>12, GoodParts
  <2> QED
    BY <2>2, <2>3
<1>14. Covers(S) \in SUBSET (1 .. now) /\ (Covers(S) = {} => S = <<>>)
  BY <1>2, SummaryFacts
<1>15. Turns(x) \in SUBSET (0 .. now)
  <2> SUFFICES ASSUME NEW t \in Turns(x) PROVE t \in 0 .. now
    OBVIOUS
  <2>1. PICK i \in DOMAIN x : x[i].turn = t
    BY <1>9, TurnsAre
  <2>2. x[i].turn \in Nat
    BY <1>9, PlainElements
  <2> QED
    BY <1>13, <2>1, <2>2 DEF Good
<1>16. CASE T = {}
  <2>1. S = <<>> /\ Turns(x) \subseteq {0}
    BY <1>14, <1>16
  <2>2. Len(x) = 1
    <3>1. x # <<>>
      <4>1. X = Cat(<<>>, x)
        BY <1>5, <1>8, <2>1
      <4> QED
        BY <1>7, <1>9, <4>1, CatEmpty
    <3> QED
      BY <1>9, <1>13, <2>1, <3>1, OnlyLeading
  <2>3. Len(c) = Len(P) + (1 + Len(Y))
    <3>1. c = Cat(P, K)
      BY <1>2, <1>5, <2>1, CatEmpty
    <3>2. Len(K) = Len(x) + Len(Y)
      BY <1>7, <1>8, CatTypes
    <3>3. Len(Cat(P, K)) = Len(P) + Len(K)
      BY <1>5, CatTypes
    <3> QED
      BY <2>2, <3>1, <3>2, <3>3
  <2>4. Len(out) = Len(P) + (1 + Len(Y))
    <3>1. SummaryOf(T) \in Message
      BY <1>16, PolicyFacts DEF SummaryOf, Message
    <3>2. R \in Seq(Message) /\ Len(R) = 1
      BY <3>1
    <3> HIDE DEF R, P, T
    <3>3. R \in Seq(Message) /\ Y \in Seq(Message) /\ P \in Seq(Message)
      BY <1>5, <3>2
    <3>4. Cat(R, Y) \in Seq(Message) /\ Len(Cat(R, Y)) = 1 + Len(Y)
      <4>1. R \in Seq(Message) /\ Y \in Seq(Message)
        BY <3>3
      <4>2. Cat(R, Y) \in Seq(Message) /\ Len(Cat(R, Y)) = Len(R) + Len(Y)
        BY <4>1, CatTypes
      <4> QED
        BY <3>2, <4>2
    <3>5. Len(Cat(P, Cat(R, Y))) = Len(P) + Len(Cat(R, Y))
      BY <3>3, <3>4, CatTypes
    <3> QED
      BY <1>10, <3>4, <3>5
  <2> QED
    BY <2>3, <2>4
<1>17. CASE T # {}
  <2>1. T \in (SUBSET (1 .. now)) \ {{}}
    BY <1>14, <1>15, <1>17
  <2>2. Brief(R, now) /\ Covers(R) = T
    <3>1. SummaryOf(T) \in SummaryMsgs(now) /\ SummaryOf(T).covers = T
      BY <2>1 DEF SummaryMsgs, SummaryOf
    <3> DEFINE m == SummaryOf(T)
    <3>2. m \in SummaryMsgs(now) /\ R = <<m>>
      BY <3>1
    <3> HIDE DEF m, T, R
    <3>3. <<m>> \in Seq(SummaryMsgs(now)) /\ Len(<<m>>) = 1 /\ Range(<<m>>) = {m}
      BY <3>2, OneMessage
    <3> QED
      BY <1>11, <3>1, <3>2, <3>3 DEF Brief, Covers, m
  <2>3. Turns(Cat(D, x)) \subseteq Covers(R) \cup {0}
    BY <1>11, <1>12, <2>2
  <2>4. Covers(R) \cap Turns(Y) = {}
    <3>1. Turns(K) = Turns(x) \cup Turns(Y)
      BY <1>8, <1>9, TurnsOfCat
    <3>2. Turns(x) \cap Turns(Y) = {}
      <4> SUFFICES ASSUME NEW t \in Turns(x), t \in Turns(Y) PROVE FALSE
        OBVIOUS
      <4>1. PICK i \in DOMAIN x : x[i].turn = t
        BY <1>9, TurnsAre
      <4>2. PICK j \in DOMAIN Y : Y[j].turn = t
        BY <1>9, TurnsAre
      <4>3. x[i].turn < Y[j].turn /\ x[i].turn \in Nat
        BY <1>9, <1>13, PlainElements DEF Before
      <4> QED
        BY <4>1, <4>2, <4>3
    <3> QED
      BY <1>11, <2>2, <3>1, <3>2
  <2>5. KeptByWindow(R, Y, l, TRUE, now)
    <3> HIDE DEF R, T
    <3> QED
      BY <1>12, <2>3, <2>4 DEF KeptByWindow
  <2>6. KeptByLimit(Y, l, TRUE, p, now)
    BY DEF KeptByLimit
  <2> HIDE DEF R, T
  <2>7. Holds(R, Y, out, l, TRUE, p, now)
    BY <1>10, <1>12, <2>2, <2>5, <2>6 DEF Holds
  <2>8. Win(out, l, TRUE, p, now)
    BY <2>7, WinAgain
  <2> QED
    BY <2>8
<1> QED
  BY <1>16, <1>17

LEMMA StrategyWin ==
  ASSUME policy \in PolicyType, NEW p \in BOOLEAN, NEW now \in Nat, NEW c, NEW l, NEW works \in BOOLEAN,
         policy.strategy # "none", Win(c, l, TRUE, p, now), Strategy(c, works).ok
  PROVE  Win(Compacted(Strategy(c, works).messages, c), l, TRUE, p, now)
<1> DEFINE out == Strategy(c, works).messages
<1>1. \/ out = c
      \/ Len(out) = Len(c)
      \/ Win(out, l, TRUE, p, now)
  <2>1. CASE policy.strategy = "turnwindow"
    <3>1. Strategy(c, works) = TurnWindow(c)
      BY <2>1 DEF Strategy
    <3> QED
      BY <2>1, <3>1, TurnWindowWin
  <2>2. CASE policy.strategy = "slidingwindow"
    <3>1. Strategy(c, works) = SlidingWindow(c)
      BY <2>2 DEF Strategy
    <3> QED
      BY <2>2, <3>1, SlidingWindowWin
  <2>3. CASE policy.strategy = "tokenlimit"
    <3>1. Strategy(c, works) = TokenLimit(c)
      BY <2>3 DEF Strategy
    <3> QED
      BY <2>3, <3>1, TokenLimitWin
  <2>4. CASE policy.strategy = "summary"
    <3>1. Strategy(c, works) = Summary(c, works)
      BY <2>4 DEF Strategy
    <3> QED
      <4>1. Summary(c, works).ok
        BY <3>1
      <4>2. \/ Summary(c, works).messages = c
            \/ Len(Summary(c, works).messages) = Len(c)
            \/ Win(Summary(c, works).messages, l, TRUE, p, now)
        BY <2>4, <4>1, SummaryWin
      <4> QED
        BY <3>1, <4>2
  <2>5. policy.strategy \in {"none", "turnwindow", "slidingwindow", "tokenlimit", "summary"}
    BY DEF PolicyType
  <2> QED
    BY <2>1, <2>2, <2>3, <2>4, <2>5
<1> HIDE DEF out
<1>2. Win(Compacted(out, c), l, TRUE, p, now)
  BY <1>1 DEF Compacted
<1> QED
  BY <1>2 DEF out

-------------------------------------------------------------------------------
(* Transfers.                                                              *)
Nest == [Msg("assistant", 0, 1, FALSE) EXCEPT !.turn = 0]

LEMMA NestIsPlain ==
  Nest \in Plain /\ Nest.turn = 0
BY DEF Nest, Msg, Plain

LEMMA OthersAfter ==
  ASSUME NEW s \in Seq(Message), NEW v \in Seq(OtherMsgs)
  PROVE  /\ Systems(s) \in Seq(Message) /\ Others(s) \in Seq(OtherMsgs)
         /\ Others(Cat(Systems(s), v)) = v
<1> DEFINE a == Systems(s)
<1>1. a \in Seq(SystemMsgs) /\ a \in Seq(Message) /\ Others(s) \in Seq(OtherMsgs)
  <2>1. Those(s, SystemMsgs) \in Seq(SystemMsgs) /\ Those(s, OtherMsgs) \in Seq(OtherMsgs)
        /\ Those(s, SystemMsgs) \in Seq(Message)
    BY ThoseFacts
  <2> QED
    BY <2>1, ViewsAs
<1> HIDE DEF a
<1>2. v \in Seq(Message)
  <2>1. OtherMsgs \subseteq Message
    BY DEF OtherMsgs
  <2> QED
    BY <2>1, SeqMonotonic
<1>3. Those(a, OtherMsgs) = <<>> /\ Those(v, OtherMsgs) = v
  <2>1. SystemMsgs \cap OtherMsgs = {}
    BY DEF SystemMsgs, OtherMsgs
  <2> QED
    BY <1>1, <2>1, ThoseNone, ThoseAll
<1>4. Cat(a, v) \in Seq(Message) /\ Those(Cat(a, v), OtherMsgs) = Cat(Those(a, OtherMsgs), Those(v, OtherMsgs))
  <2>1. a \in Seq(Message) /\ v \in Seq(Message)
    BY <1>1, <1>2
  <2> QED
    BY <2>1, CatTypes, ThoseCat
<1>5. Cat(<<>>, v) = v
  BY CatEmpty
<1>6. Others(Cat(a, v)) = v
  BY <1>3, <1>4, <1>5, ViewsAs
<1> QED
  BY <1>1, <1>6 DEF a

(* What a transfer may hand on of a summary S and what is kept, K.         *)
Handed(v, S, K, now) ==
  \E S3, K3 :
    /\ v = Cat(S3, K3) /\ Brief(S3, now) /\ Good(K3, now)
    /\ Covers(S3) \subseteq Covers(S) /\ Turns(K3) \subseteq Turns(K) \cup {0}

LEMMA HandedAs ==
  ASSUME NEW now, NEW v, NEW S, NEW K, NEW S3, NEW K3,
         v = Cat(S3, K3), Brief(S3, now), Good(K3, now),
         Covers(S3) \subseteq Covers(S), Turns(K3) \subseteq Turns(K) \cup {0}
  PROVE  Handed(v, S, K, now)
BY DEF Handed

LEMMA RangeTurns ==
  ASSUME NEW x, NEW y, Range(x) \subseteq Range(y)
  PROVE  Turns(x) \subseteq Turns(y)
BY DEF Turns

LEMMA FilterHands ==
  ASSUME policy \in PolicyType, Recent \in Nat, NEW p \in BOOLEAN, NEW now \in Nat,
         NEW S, Brief(S, now), NEW K, Good(K, now), NEW c, c = Cat(PromptPart(p), Cat(S, K)),
         NEW filtered \in {c, RemoveTools(c), RecentWindow(c), NestHistory(c)}
  PROVE  Handed(Others(filtered), S, K, now)
<1> DEFINE early == IF policy.role = "system" THEN <<>> ELSE S
<1>1. K \in Seq(Plain)
  BY DEF Good
<1>2. Brief(early, now) /\ Covers(early) \subseteq Covers(S)
  <2>1. Brief(<<>>, now)
    <3>1. <<>> \in Seq(SummaryMsgs(now)) /\ Len(<<>>) <= 1
      OBVIOUS
    <3> QED
      BY <3>1 DEF Brief
  <2>2. Covers(<<>>) = {}
    BY DEF Covers, Range
  <2> QED
    BY <2>1, <2>2
<1>3. \A T, k : T \in Seq(Plain) =>
        Others(Cat(PromptPart(p), Cat(S, T))) = Cat(early, T)
  BY ViewsOfParts
<1>4. Others(c) = Cat(early, K) /\ c \in Seq(Message)
  <2>1. c \in Seq(Message)
    BY <1>1, PartTypes
  <2> QED
    BY <1>1, <1>3, <2>1
<1> HIDE DEF early
<1>5. K \in Seq(Message) /\ early \in Seq(Message) /\ Others(c) \in Seq(OtherMsgs)
  <2>1. Others(c) \in Seq(OtherMsgs)
    <3>1. <<>> \in Seq(OtherMsgs)
      OBVIOUS
    <3> QED
      BY <1>4, <3>1, OthersAfter
  <2> QED
    BY <1>1, <1>2, <2>1, PartTypes
<1>6. CASE filtered = c
  BY <1>2, <1>4, <1>6, HandedAs
<1>7. CASE filtered = RemoveTools(c)
  <2> DEFINE J == Those(K, ToolFree)
  <2>1. J \in Seq(Plain) /\ Good(J, now)
    BY GoodThose
  <2>2. RemoveTools(c) = Cat(PromptPart(p), Cat(S, J))
    <3>1. /\ RemoveTools(c) = Cat(PromptPart(p), Cat(S, Those(K, ToolFree)))
      BY <1>1, Views
    <3> QED
      BY <3>1
  <2>3. Range(J) \subseteq Range(K)
    <3>1. PICK f \in [1 .. Len(J) -> 1 .. Len(K)] : \A k \in 1 .. Len(J) : J[k] = K[f[k]]
      <4>1. \E f \in [1 .. Len(Those(K, ToolFree)) -> 1 .. Len(K)] :
              /\ \A k \in 1 .. Len(Those(K, ToolFree)) : Those(K, ToolFree)[k] = K[f[k]]
              /\ \A k, l \in 1 .. Len(Those(K, ToolFree)) : k < l => f[k] < f[l]
        BY <1>1, ThoseFacts
      <4> QED
        BY <4>1
    <3> HIDE DEF J
    <3>2. DOMAIN J = 1 .. Len(J) /\ DOMAIN K = 1 .. Len(K)
      BY <1>1, <2>1, PlainElements
    <3> QED
      BY <3>1, <3>2 DEF Range
  <2> HIDE DEF J
  <2>4. Others(filtered) = Cat(early, J)
    BY <1>3, <1>7, <2>1, <2>2
  <2>5. Turns(J) \subseteq Turns(K) \cup {0}
    BY <2>3, RangeTurns
  <2> QED
    BY <1>2, <2>1, <2>4, <2>5, HandedAs
<1>8. CASE filtered = RecentWindow(c)
  <2> DEFINE others == Others(c)
             n == Len(others) - Recent
             x == SubSeq(others, 1, n)
             y == SubSeq(others, n + 1, Len(others))
  <2>1. CASE Len(others) <= Recent
    <3>1. filtered = Cat(Systems(c), others)
      BY <1>8, <2>1 DEF RecentWindow, Cat
    <3>2. Others(filtered) = others
      BY <1>4, <1>5, <3>1, OthersAfter
    <3> QED
      BY <1>2, <1>4, <3>2, HandedAs
  <2>2. CASE ~(Len(others) <= Recent)
    <3>1. filtered = Cat(Systems(c), y)
      BY <1>8, <2>2 DEF RecentWindow, Cat
    <3>2. n \in 0 .. Len(others) /\ n > 0
      <4>1. Len(others) \in Nat
        BY <1>5
      <4> QED
        BY <2>2, <4>1
    <3> HIDE DEF n
    <3>3. x \in Seq(OtherMsgs) /\ y \in Seq(OtherMsgs) /\ others = Cat(x, y) /\ Len(x) = n
      BY <1>5, <3>2, CutAt
    <3> HIDE DEF x, y
    <3>4. x \in Seq(Message) /\ y \in Seq(Message)
      <4>1. OtherMsgs \subseteq Message
        BY DEF OtherMsgs
      <4> QED
        BY <3>3, <4>1, SeqMonotonic
    <3>5. Others(filtered) = y
      BY <1>4, <3>1, <3>3, OthersAfter
    <3>6. Len(early) <= Len(x)
      <4>1. Len(early) <= 1 /\ Len(early) \in Nat
        BY <1>2, <1>5 DEF Brief
      <4> QED
        BY <3>2, <3>3, <4>1
    <3>7. PICK z \in Seq(Message) : x = Cat(early, z) /\ K = Cat(z, y)
      <4>1. Cat(early, K) = Cat(x, y)
        BY <1>4, <3>3
      <4> QED
        BY <1>5, <3>4, <3>6, <4>1, CutTwice
    <3>8. z \in Seq(Plain) /\ y \in Seq(Plain)
      <4>1. Cat(z, y) \in Seq(Plain)
        BY <1>1, <3>7
      <4> QED
        BY <3>4, <4>1, PartsIn
    <3>9. Good(y, now)
      <4>1. Good(Cat(z, y), now)
        BY <3>7
      <4> QED
        BY <3>8, <4>1, GoodParts
    <3>10. Turns(y) \subseteq Turns(K) \cup {0}
      <4>1. Turns(Cat(z, y)) = Turns(z) \cup Turns(y)
        BY <3>8, TurnsOfCat
      <4> QED
        BY <3>7, <4>1
    <3>11. Others(filtered) = Cat(<<>>, y)
      BY <3>5, <3>8, CatEmpty
    <3>12. Brief(<<>>, now) /\ Covers(<<>>) \subseteq Covers(S)
      <4>1. <<>> \in Seq(SummaryMsgs(now)) /\ Len(<<>>) <= 1
        OBVIOUS
      <4>2. Covers(<<>>) = {}
        BY DEF Covers, Range
      <4> QED
        BY <4>1, <4>2 DEF Brief
    <3> QED
      BY <3>9, <3>10, <3>11, <3>12, HandedAs
  <2> QED
    BY <2>1, <2>2
<1>9. CASE filtered = NestHistory(c)
  <2> DEFINE nest == Nest
  <2>1. nest \in Plain /\ nest.turn = 0 /\ nest \in OtherMsgs
    <3>4. nest \in Plain /\ nest.turn = 0
      BY NestIsPlain
    <3>5. Plain \subseteq OtherMsgs
      BY MessageFacts DEF OtherMsgs
    <3> QED
      BY <3>4, <3>5
  <2>2. Brief(<<>>, now) /\ Covers(<<>>) \subseteq Covers(S)
    <3>1. <<>> \in Seq(SummaryMsgs(now)) /\ Len(<<>>) <= 1
      OBVIOUS
    <3>2. Covers(<<>>) = {}
      BY DEF Covers, Range
    <3> QED
      BY <3>1, <3>2 DEF Brief
  <2>3. CASE Others(c) = <<>>
    <3>1. filtered = Systems(c)
      BY <1>9, <2>3 DEF NestHistory
    <3>2. <<>> \in Seq(OtherMsgs) /\ <<>> \in Seq(Plain)
      OBVIOUS
    <3>3. Systems(c) \in Seq(Message) /\ Others(Cat(Systems(c), <<>>)) = <<>>
      BY <1>4, <3>2, OthersAfter
    <3>4. Cat(Systems(c), <<>>) = Systems(c) /\ Cat(<<>>, <<>>) = <<>>
      BY <3>2, <3>3, CatEmpty
    <3>5. Others(filtered) = Cat(<<>>, <<>>)
      BY <3>1, <3>3, <3>4
    <3>6. Good(<<>>, now)
      BY <3>2 DEF Good, Ordered
    <3>7. Turns(<<>>) \subseteq Turns(K) \cup {0}
      BY DEF Turns, Range
    <3> QED
      BY <2>2, <3>5, <3>6, <3>7, HandedAs
  <2>4. CASE Others(c) # <<>>
    <3>1. filtered = Append(Systems(c), nest)
      BY <1>9, <2>4 DEF NestHistory, Nest
    <3> HIDE DEF nest
    <3>2. <<nest>> \in Seq(OtherMsgs) /\ <<nest>> \in Seq(Plain) /\ DOMAIN <<nest>> = {1} /\ <<nest>>[1] = nest
          /\ Range(<<nest>>) = {nest}
      BY <2>1, OneMessage
    <3>3. Systems(c) \in Seq(Message) /\ Others(Cat(Systems(c), <<nest>>)) = <<nest>>
      BY <1>4, <3>2, OthersAfter
    <3>4. nest \in Message
      BY <2>1 DEF OtherMsgs
    <3>5. Append(Systems(c), nest) = Cat(Systems(c), <<nest>>)
      BY <3>3, <3>4, AppendIsConcat DEF Cat
    <3>6. Others(filtered) = <<nest>>
      BY <3>1, <3>3, <3>5
    <3> DEFINE N == <<nest>>
    <3>7. N \in Seq(Plain) /\ DOMAIN N = {1} /\ N[1] = nest /\ Range(N) = {nest}
      BY <3>2
    <3>8. Others(filtered) = N
      BY <3>6
    <3> HIDE DEF N
    <3>9. Good(N, now)
      BY <2>1, <3>7 DEF Good, Ordered
    <3>10. Turns(N) \subseteq Turns(K) \cup {0}
      BY <2>1, <3>7 DEF Turns
    <3>11. Others(filtered) = Cat(<<>>, N)
      BY <3>7, <3>8, CatEmpty
    <3> QED
      BY <2>2, <3>9, <3>10, <3>11, HandedAs
  <2> QED
    BY <2>3, <2>4
<1> QED
  BY <1>6, <1>7, <1>8, <1>9

(* The log begins again with what the target gets of it.                   *)
LEMMA TransferWin ==
  ASSUME policy \in PolicyType, Recent \in Nat, NEW p \in BOOLEAN, NEW prompt \in BOOLEAN,
         NEW now \in Nat, NEW c, NEW l, Win(c, l, FALSE, p, now),
         NEW filtered \in {c, RemoveTools(c), RecentWindow(c), NestHistory(c)}
  PROVE  Win(WithPrompt(filtered, prompt), PlainOf(WithPrompt(filtered, prompt)), FALSE, prompt, now)
<1>1. PICK S, K : Holds(S, K, c, l, FALSE, p, now)
  BY DEF Win
<1>2. c = Cat(PromptPart(p), Cat(S, K)) /\ Brief(S, now) /\ Good(K, now)
  BY <1>1 DEF Holds
<1>3. Handed(Others(filtered), S, K, now)
  BY <1>2, FilterHands
<1>4. PICK S3, K3 :
        /\ Others(filtered) = Cat(S3, K3) /\ Brief(S3, now) /\ Good(K3, now)
        /\ Covers(S3) \subseteq Covers(S) /\ Turns(K3) \subseteq Turns(K) \cup {0}
  BY <1>3 DEF Handed
<1> DEFINE d == WithPrompt(filtered, prompt)
<1>5. d = Cat(PromptPart(prompt), Cat(S3, K3))
  BY <1>4 DEF WithPrompt, PromptPart, Cat
<1> HIDE DEF d
<1>6. K3 \in Seq(Plain)
  BY <1>4 DEF Good
<1>7. PlainOf(d) = K3
  BY <1>4, <1>5, <1>6, Views
<1>8. Covers(S) \in SUBSET (1 .. now)
  BY <1>2, SummaryFacts
<1>9. KeptByWindow(S3, K3, K3, FALSE, now)
  <2>1. <<>> \in Seq(Plain) /\ K3 = Cat(<<>>, K3)
    BY <1>6, CatEmpty
  <2>2. Before(<<>>, K3) /\ Turns(<<>>) = {}
    BY DEF Before, Turns, Range
  <2>3. ASSUME policy.strategy = "summary" PROVE Covers(S3) \cap Turns(K3) = {}
    <3>1. Covers(S) \cap Turns(K) = {}
      BY <1>1, <2>3 DEF Holds, KeptByWindow
    <3> QED
      BY <1>4, <1>8, <3>1
  <2> QED
    BY <2>1, <2>2, <2>3 DEF KeptByWindow
<1>10. KeptByLimit(K3, K3, FALSE, prompt, now)
  BY <1>6, NothingDropped
<1>11. Holds(S3, K3, d, K3, FALSE, prompt, now)
  BY <1>4, <1>5, <1>9, <1>10 DEF Holds
<1>12. Win(d, K3, FALSE, prompt, now)
  BY <1>4, <1>11 DEF Win
<1> QED
  BY <1>7, <1>12 DEF d

-------------------------------------------------------------------------------
(* The invariant: the saved conversation is one between turns, and the one *)
(* a turn works on is one of the turn under way.                           *)
WindowInv ==
  /\ TurnTypeOK
  /\ Win(saved, savedLog, FALSE, prompted, turnNo)
  /\ IF at = "idle" THEN conv = saved /\ log = savedLog
     ELSE Win(conv, log, TRUE, prompted, turnNo)

LEMMA WindowTypes ==
  ASSUME TurnTypeOK
  PROVE  /\ policy \in PolicyType /\ prompted \in BOOLEAN /\ turnNo \in Nat /\ exchanges \in Nat
         /\ Recent \in Nat /\ Sizes \subseteq Nat
<1>1. MaxTurnsTaken \in Nat /\ MaxExchanges \in Nat /\ Recent \in Nat
  BY WindowAssumption
<1>2. Policies \subseteq PolicyType /\ Sizes \subseteq Nat
  BY WindowAssumption
<1>3. policy \in Policies /\ prompted \in BOOLEAN /\ turnNo \in 0 .. MaxTurnsTaken /\ exchanges \in 0 .. MaxExchanges
  BY DEF TurnTypeOK
<1>4. turnNo \in Nat /\ exchanges \in Nat
  BY <1>1, <1>3
<1> QED
  BY <1>1, <1>2, <1>3, <1>4

LEMMA WinTypes ==
  ASSUME policy \in PolicyType, NEW p \in BOOLEAN, NEW now \in Nat, NEW running \in BOOLEAN,
         NEW c, NEW l, Win(c, l, running, p, now)
  PROVE  c \in Seq(Message) /\ l \in Seq(Plain) /\ l \in Seq(Message)
<1>1. PICK S, K : Holds(S, K, c, l, running, p, now)
  BY DEF Win
<1>2. c = Cat(PromptPart(p), Cat(S, K)) /\ Brief(S, now) /\ K \in Seq(Plain)
  BY <1>1 DEF Holds, Good
<1>3. c \in Seq(Message)
  BY <1>2, PartTypes
<1>4. l \in Seq(Plain) /\ Plain \subseteq Message
  BY DEF Win, Good, Plain, Message
<1> QED
  BY <1>3, <1>4, SeqMonotonic

(* A conversation that no turn works on stays one when a turn begins.      *)
LEMMA WinLater ==
  ASSUME policy \in PolicyType, NEW p \in BOOLEAN, NEW now \in Nat, NEW later \in Nat, now <= later,
         NEW c, NEW l, Win(c, l, FALSE, p, now)
  PROVE  Win(c, l, FALSE, p, later)
<1>1. PICK S, K : Holds(S, K, c, l, FALSE, p, now)
  BY DEF Win
<1>2. \A s : Good(s, now) => Good(s, later)
  <2> SUFFICES ASSUME NEW s, Good(s, now) PROVE Good(s, later)
    OBVIOUS
  <2>1. s \in Seq(Plain) /\ Ordered(s) /\ \A i \in DOMAIN s : s[i].turn <= now
    BY DEF Good
  <2>2. \A i \in DOMAIN s : s[i].turn \in Nat
    BY <2>1, PlainElements
  <2>3. \A i \in DOMAIN s : s[i].turn <= later
    BY <2>1, <2>2
  <2> QED
    BY <2>1, <2>3 DEF Good
<1>3. Brief(S, later)
  BY <1>1, BriefStays DEF Holds
<1>4. KeptByWindow(S, K, l, FALSE, later)
  BY <1>1 DEF Holds, KeptByWindow
<1>5. KeptByLimit(K, l, FALSE, p, later)
  BY <1>1 DEF Holds, KeptByLimit, Limited
<1>6. Holds(S, K, c, l, FALSE, p, later)
  BY <1>1, <1>2, <1>3, <1>4, <1>5 DEF Holds
<1> QED
  BY <1>2, <1>6 DEF Win

(* The policy never changes, so the invariant of the next state may be     *)
(* read with the present one.                                              *)
LEMMA NextWindow ==
  ASSUME policy' = policy, TurnTypeOK',
         Win(saved', savedLog', FALSE, prompted', turnNo'),
         IF at' = "idle" THEN conv' = saved' /\ log' = savedLog'
         ELSE Win(conv', log', TRUE, prompted', turnNo')
  PROVE  WindowInv'
<1>1. Win(saved, savedLog, FALSE, prompted, turnNo)' <=> Win(saved', savedLog', FALSE, prompted', turnNo')
  BY DEF Win, Holds, Brief, SummaryMsgs, SummaryOf, KeptByWindow, KeptByLimit, Limited, LeftOver,
         LastOver, Over
<1>2. Win(conv, log, TRUE, prompted, turnNo)' <=> Win(conv', log', TRUE, prompted', turnNo')
  BY DEF Win, Holds, Brief, SummaryMsgs, SummaryOf, KeptByWindow, KeptByLimit, Limited, LeftOver,
         LastOver, Over
<1> QED
  BY <1>1, <1>2 DEF WindowInv

LEMMA TurnTypeInit ==
  ASSUME WindowInit
  PROVE  TurnTypeOK
BY WindowAssumption DEF WindowInit, TurnTypeOK

LEMMA TurnTypeStep ==
  ASSUME TurnTypeOK, [WindowNext]_windowVars
  PROVE  TurnTypeOK'
<1>0. MaxTurnsTaken \in Nat /\ MaxExchanges \in Nat
  BY WindowAssumption
<1>1. ASSUME BeginTurn PROVE TurnTypeOK'
  <2>1. /\ turnNo < MaxTurnsTaken /\ turnNo' = turnNo + 1 /\ exchanges' = 0
        /\ at' = "request" /\ failure' = "none" /\ UNCHANGED <<policy, prompted>>
    BY <1>1 DEF BeginTurn
  <2>2. turnNo' \in 0 .. MaxTurnsTaken /\ exchanges' \in 0 .. MaxExchanges
    <3>1. turnNo \in 0 .. MaxTurnsTaken
      BY DEF TurnTypeOK
    <3> QED
      BY <1>0, <2>1, <3>1
  <2> QED
    BY <2>1, <2>2 DEF TurnTypeOK
<1>2. ASSUME Request PROVE TurnTypeOK'
  <2>1. /\ at' \in {"idle", "respond"}
        /\ failure' \in {failure, "systems", "no compactor", "compactor", "limit"}
    BY <1>2 DEF Request, Send, Fail
  <2>2. UNCHANGED <<policy, prompted, turnNo, exchanges>>
    BY <1>2 DEF Request
  <2> QED
    BY <2>1, <2>2 DEF TurnTypeOK
<1>3. ASSUME CallTool PROVE TurnTypeOK'
  <2>1. /\ exchanges < MaxExchanges /\ exchanges' = exchanges + 1 /\ at' = "request"
        /\ UNCHANGED <<policy, prompted, turnNo, failure>>
    BY <1>3 DEF CallTool, Say
  <2>2. exchanges' \in 0 .. MaxExchanges
    <3>1. exchanges \in 0 .. MaxExchanges
      BY DEF TurnTypeOK
    <3> QED
      BY <1>0, <2>1, <3>1
  <2> QED
    BY <2>1, <2>2 DEF TurnTypeOK
<1>4. ASSUME Answer PROVE TurnTypeOK'
  BY <1>4 DEF Answer, Say, TurnTypeOK
<1>5. ASSUME TurnFails PROVE TurnTypeOK'
  BY <1>5 DEF TurnFails, Fail, TurnTypeOK
<1>6. ASSUME CompactAndSave PROVE TurnTypeOK'
  <2>1. /\ at' = "idle" /\ failure' \in {failure, "compactor"}
    BY <1>6 DEF CompactAndSave, Save, Fail
  <2>2. UNCHANGED <<policy, prompted, turnNo, exchanges>>
    BY <1>6 DEF CompactAndSave
  <2> QED
    BY <2>1, <2>2 DEF TurnTypeOK
<1>7. ASSUME Transfer PROVE TurnTypeOK'
  <2>1. prompted' \in BOOLEAN /\ UNCHANGED <<policy, at, turnNo, exchanges, failure>>
    BY <1>7 DEF Transfer
  <2> QED
    BY <2>1 DEF TurnTypeOK
<1>8. ASSUME UNCHANGED windowVars PROVE TurnTypeOK'
  BY <1>8 DEF windowVars, TurnTypeOK
<1> QED
  BY <1>1, <1>2, <1>3, <1>4, <1>5, <1>6, <1>7, <1>8 DEF WindowNext

LEMMA WindowInitially ==
  ASSUME WindowInit
  PROVE  WindowInv
<1>1. TurnTypeOK
  BY TurnTypeInit
<1>2. saved = PromptPart(prompted) /\ conv = saved /\ log = <<>> /\ savedLog = <<>> /\ at = "idle" /\ turnNo = 0
      /\ prompted \in BOOLEAN
  BY DEF WindowInit, PromptPart
<1>3. Win(PromptPart(prompted), <<>>, FALSE, prompted, 0)
  BY <1>2, WinBegins
<1> QED
  BY <1>1, <1>2, <1>3 DEF WindowInv

(* A query, a call, a result or an answer is added at the end.             *)
LEMMA AppendIs ==
  ASSUME NEW s \in Seq(Message), NEW m \in Plain
  PROVE  Append(s, m) = Cat(s, <<m>>) /\ s \o <<m>> = Cat(s, <<m>>)
<1>1. m \in Message
  BY DEF Plain, Message
<1> QED
  BY <1>1, AppendIsConcat DEF Cat

LEMMA AppendTwo ==
  ASSUME NEW s \in Seq(Message), NEW m \in Plain, NEW k \in Plain
  PROVE  s \o <<m, k>> = Cat(Cat(s, <<m>>), <<k>>)
<1>1. m \in Message /\ k \in Message
  BY DEF Plain, Message
<1>2. <<m>> \in Seq(Message) /\ <<k>> \in Seq(Message)
  BY <1>1
<1>3. <<m>> \o <<k>> = <<m, k>>
  <2>1. <<m, k>> = Append(<<m>>, k)
    OBVIOUS
  <2> QED
    BY <1>1, <1>2, <2>1, AppendIsConcat
<1>4. (s \o <<m>>) \o <<k>> = s \o (<<m>> \o <<k>>)
  BY <1>2, ConcatAssociative
<1> QED
  BY <1>3, <1>4 DEF Cat

QueryOf(size, later) == [Msg("user", 1, size, FALSE) EXCEPT !.turn = later]

LEMMA QueryIsPlain ==
  ASSUME NEW later \in Nat, NEW size \in Nat
  PROVE  /\ QueryOf(size, later) \in Plain /\ QueryOf(size, later).turn = later
         /\ QueryOf(size, later).role = "user"
BY DEF QueryOf, Msg, Plain

LEMMA BeginWindow ==
  ASSUME WindowInv, BeginTurn, TurnTypeOK'
  PROVE  WindowInv'
<1>1. /\ policy \in PolicyType /\ prompted \in BOOLEAN /\ turnNo \in Nat /\ Sizes \subseteq Nat
      /\ Win(saved, savedLog, FALSE, prompted, turnNo)
  BY WindowTypes DEF WindowInv
<1>2. UNCHANGED <<policy, prompted, saved, savedLog>> /\ turnNo' = turnNo + 1 /\ at' = "request"
  BY DEF BeginTurn
<1>3. PICK size \in Sizes :
        /\ conv' = Append(saved, [Msg("user", 1, size, FALSE) EXCEPT !.turn = turnNo + 1])
        /\ log' = Append(savedLog, [Msg("user", 1, size, FALSE) EXCEPT !.turn = turnNo + 1])
  BY DEF BeginTurn
<1> DEFINE query == [Msg("user", 1, size, FALSE) EXCEPT !.turn = turnNo + 1]
<1>4. query \in Plain /\ query.turn = turnNo + 1 /\ query.role = "user"
  <2>1. size \in Nat /\ turnNo + 1 \in Nat
    BY <1>1
  <2>2. query = QueryOf(size, turnNo + 1)
    BY DEF QueryOf
  <2> DEFINE later == turnNo + 1
  <2>3. later \in Nat /\ query = QueryOf(size, later)
    BY <2>1, <2>2
  <2> HIDE DEF query, later
  <2>4. query \in Plain /\ query.turn = later /\ query.role = "user"
    BY <2>1, <2>3, QueryIsPlain
  <2> QED
    BY <2>4 DEF later
<1>5. conv' = Append(saved, query) /\ log' = Append(savedLog, query)
  BY <1>3
<1> HIDE DEF query
<1>6. saved \in Seq(Message) /\ savedLog \in Seq(Message)
  BY <1>1, WinTypes
<1>7. conv' = Cat(saved, <<query>>) /\ log' = Cat(savedLog, <<query>>)
  BY <1>4, <1>5, <1>6, AppendIs
<1>8. turnNo + 1 \in Nat /\ turnNo <= turnNo + 1
  BY <1>1
<1>9. Win(Cat(saved, <<query>>), Cat(savedLog, <<query>>), TRUE, prompted, turnNo + 1)
  BY <1>1, <1>4, <1>8, WinGrows
<1>10. Win(saved, savedLog, FALSE, prompted, turnNo + 1)
  BY <1>1, <1>8, WinLater
<1> QED
  BY <1>2, <1>7, <1>9, <1>10, NextWindow

(* What a turn that fails leaves, or one that goes on with messages kept.  *)
LEMMA WindowStays ==
  ASSUME WindowInv, TurnTypeOK', UNCHANGED <<policy, prompted, saved, savedLog, turnNo>>,
         \/ at' = "idle" /\ conv' = saved /\ log' = savedLog
         \/ at' # "idle" /\ Win(conv', log', TRUE, prompted, turnNo)
  PROVE  WindowInv'
<1>1. Win(saved', savedLog', FALSE, prompted', turnNo')
  BY DEF WindowInv
<1>2. IF at' = "idle" THEN conv' = saved' /\ log' = savedLog'
      ELSE Win(conv', log', TRUE, prompted', turnNo')
  OBVIOUS
<1> QED
  BY <1>1, <1>2, NextWindow

LEMMA RequestWindow ==
  ASSUME WindowInv, Request, TurnTypeOK'
  PROVE  WindowInv'
<1>1. /\ policy \in PolicyType /\ prompted \in BOOLEAN /\ turnNo \in Nat
      /\ Win(conv, log, TRUE, prompted, turnNo)
  BY WindowTypes DEF WindowInv, Request
<1>2. UNCHANGED <<policy, prompted, saved, savedLog, turnNo>>
  BY DEF Request
<1>3. ASSUME NEW m, Win(m, log, TRUE, prompted, turnNo), Send(m)
      PROVE  WindowInv'
  <2>1. \/ at' = "idle" /\ conv' = saved /\ log' = savedLog
        \/ at' # "idle" /\ Win(conv', log', TRUE, prompted, turnNo)
    BY <1>3 DEF Send, Fail
  <2> QED
    BY <1>2, <2>1, WindowStays
<1>4. ASSUME NEW reason, Fail(reason)
      PROVE  WindowInv'
  BY <1>2, <1>4, WindowStays DEF Fail
<1>5. CASE ~TooLarge(conv)
  <2>1. Send(conv)
    BY <1>5 DEF Request
  <2> QED
    BY <1>1, <1>3, <2>1
<1>6. CASE TooLarge(conv) /\ policy.strategy = "none"
  <2>1. Fail("no compactor")
    BY <1>6 DEF Request
  <2> QED
    BY <1>4, <2>1
<1>7. CASE TooLarge(conv) /\ policy.strategy # "none"
  <2>1. PICK works \in BOOLEAN :
          IF ~Strategy(conv, works).ok THEN Fail("compactor")
          ELSE IF TooLarge(Compacted(Strategy(conv, works).messages, conv)) THEN Fail("limit")
          ELSE Send(Compacted(Strategy(conv, works).messages, conv))
    BY <1>7 DEF Request
  <2>2. CASE Strategy(conv, works).ok
    <3>1. Win(Compacted(Strategy(conv, works).messages, conv), log, TRUE, prompted, turnNo)
      BY <1>1, <1>7, <2>2, StrategyWin
    <3>2. Fail("limit") \/ Send(Compacted(Strategy(conv, works).messages, conv))
      BY <2>1, <2>2
    <3> QED
      BY <1>3, <1>4, <3>1, <3>2
  <2>3. CASE ~Strategy(conv, works).ok
    BY <1>4, <2>1, <2>3
  <2> QED
    BY <2>2, <2>3
<1> QED
  BY <1>5, <1>6, <1>7

LEMMA CallWindow ==
  ASSUME WindowInv, CallTool, TurnTypeOK'
  PROVE  WindowInv'
<1>1. /\ policy \in PolicyType /\ prompted \in BOOLEAN /\ turnNo \in Nat /\ Sizes \subseteq Nat
      /\ exchanges \in Nat /\ Win(conv, log, TRUE, prompted, turnNo)
  BY WindowTypes DEF WindowInv, CallTool
<1>2. UNCHANGED <<policy, prompted, saved, savedLog, turnNo>> /\ at' = "request"
  BY DEF CallTool
<1>3. PICK size \in Sizes :
        /\ conv' = conv \o <<Msg("assistant", 2 * exchanges + 2, 1, TRUE),
                             Msg("tool", 2 * exchanges + 3, size, FALSE)>>
        /\ log' = log \o <<Msg("assistant", 2 * exchanges + 2, 1, TRUE),
                           Msg("tool", 2 * exchanges + 3, size, FALSE)>>
  BY DEF CallTool, Say
<1> DEFINE m == Msg("assistant", 2 * exchanges + 2, 1, TRUE)
           k == Msg("tool", 2 * exchanges + 3, size, FALSE)
<1>4. 2 * exchanges + 2 \in Nat /\ 2 * exchanges + 3 \in Nat
  BY <1>1
<1>5. /\ m \in Plain /\ m.turn = turnNo /\ m.role # "user"
      /\ k \in Plain /\ k.turn = turnNo /\ k.role # "user"
  BY <1>1, <1>4 DEF Msg, Plain
<1>6. conv' = conv \o <<m, k>> /\ log' = log \o <<m, k>>
  BY <1>3
<1> HIDE DEF m, k
<1>7. conv \in Seq(Message) /\ log \in Seq(Message)
  BY <1>1, WinTypes
<1>8. Win(Cat(conv, <<m>>), Cat(log, <<m>>), TRUE, prompted, turnNo)
  BY <1>1, <1>5, WinGrows
<1>9. Win(Cat(Cat(conv, <<m>>), <<k>>), Cat(Cat(log, <<m>>), <<k>>), TRUE, prompted, turnNo)
  BY <1>1, <1>5, <1>8, WinGrows
<1>10. Win(conv', log', TRUE, prompted, turnNo)
  BY <1>5, <1>6, <1>7, <1>9, AppendTwo
<1> QED
  BY <1>2, <1>10, WindowStays

LEMMA AnswerWindow ==
  ASSUME WindowInv, Answer, TurnTypeOK'
  PROVE  WindowInv'
<1>1. /\ policy \in PolicyType /\ prompted \in BOOLEAN /\ turnNo \in Nat
      /\ exchanges \in Nat /\ Win(conv, log, TRUE, prompted, turnNo)
  BY WindowTypes DEF WindowInv, Answer
<1>2. UNCHANGED <<policy, prompted, saved, savedLog, turnNo>> /\ at' = "compact"
  BY DEF Answer
<1> DEFINE m == Msg("assistant", 2 * exchanges + 2, 1, FALSE)
<1>3. conv' = conv \o <<m>> /\ log' = log \o <<m>>
  BY DEF Answer, Say
<1>4. 2 * exchanges + 2 \in Nat
  BY <1>1
<1>5. m \in Plain /\ m.turn = turnNo /\ m.role # "user"
  BY <1>1, <1>4 DEF Msg, Plain
<1> HIDE DEF m
<1>6. conv \in Seq(Message) /\ log \in Seq(Message)
  BY <1>1, WinTypes
<1>7. Win(Cat(conv, <<m>>), Cat(log, <<m>>), TRUE, prompted, turnNo)
  BY <1>1, <1>5, WinGrows
<1>8. Win(conv', log', TRUE, prompted, turnNo)
  BY <1>3, <1>5, <1>6, <1>7, AppendIs
<1> QED
  BY <1>2, <1>8, WindowStays

LEMMA SaveWindow ==
  ASSUME WindowInv, CompactAndSave, TurnTypeOK'
  PROVE  WindowInv'
<1>1. /\ policy \in PolicyType /\ prompted \in BOOLEAN /\ turnNo \in Nat
      /\ Win(conv, log, TRUE, prompted, turnNo)
  BY WindowTypes DEF WindowInv, CompactAndSave
<1>2. UNCHANGED <<policy, prompted, turnNo>>
  BY DEF CompactAndSave
<1>3. ASSUME NEW m, Win(m, log, TRUE, prompted, turnNo), Save(m)
      PROVE  WindowInv'
  <2>1. conv' = m /\ saved' = m /\ savedLog' = log /\ log' = log /\ at' = "idle"
    BY <1>3 DEF Save
  <2>2. Win(m, log, FALSE, prompted, turnNo)
    BY <1>3, WinEnds
  <2> QED
    BY <1>2, <2>1, <2>2, NextWindow
<1>4. CASE policy.strategy = "none" \/ ~ShouldCompact(conv)
  <2>1. Save(conv)
    BY <1>4 DEF CompactAndSave
  <2> QED
    BY <1>1, <1>3, <2>1
<1>5. CASE ~(policy.strategy = "none" \/ ~ShouldCompact(conv))
  <2>1. PICK works \in BOOLEAN :
          IF Strategy(conv, works).ok THEN Save(Compacted(Strategy(conv, works).messages, conv))
          ELSE Fail("compactor") /\ UNCHANGED <<saved, savedLog>>
    BY <1>5 DEF CompactAndSave
  <2>2. CASE Strategy(conv, works).ok
    <3>1. Win(Compacted(Strategy(conv, works).messages, conv), log, TRUE, prompted, turnNo)
      BY <1>1, <1>5, <2>2, StrategyWin
    <3> QED
      BY <1>3, <2>1, <2>2, <3>1
  <2>3. CASE ~Strategy(conv, works).ok
    <3>1. Fail("compactor") /\ UNCHANGED <<saved, savedLog>>
      BY <2>1, <2>3
    <3> QED
      BY <1>2, <3>1, WindowStays DEF Fail
  <2> QED
    BY <2>2, <2>3
<1> QED
  BY <1>4, <1>5

LEMMA TransferWindow ==
  ASSUME WindowInv, Transfer, TurnTypeOK'
  PROVE  WindowInv'
<1>1. /\ policy \in PolicyType /\ prompted \in BOOLEAN /\ turnNo \in Nat /\ Recent \in Nat
      /\ Win(saved, savedLog, FALSE, prompted, turnNo)
  BY WindowTypes DEF WindowInv
<1>2. /\ UNCHANGED <<policy, turnNo>> /\ at' = "idle"
      /\ conv' = saved' /\ savedLog' = PlainOf(saved') /\ log' = savedLog'
  BY DEF Transfer
<1>3. PICK prompt \in BOOLEAN, filtered \in {saved, RemoveTools(saved), RecentWindow(saved), NestHistory(saved)} :
        prompted' = prompt /\ saved' = WithPrompt(filtered, prompt)
  BY DEF Transfer
<1>4. Win(WithPrompt(filtered, prompt), PlainOf(WithPrompt(filtered, prompt)), FALSE, prompt, turnNo)
  BY <1>1, TransferWin
<1> QED
  BY <1>2, <1>3, <1>4, NextWindow

LEMMA WindowStep ==
  ASSUME WindowInv, [WindowNext]_windowVars
  PROVE  WindowInv'
<1>0. TurnTypeOK'
  BY TurnTypeStep DEF WindowInv
<1>1. ASSUME TurnFails PROVE WindowInv'
  <2>1. /\ UNCHANGED <<policy, prompted, saved, savedLog, turnNo>>
        /\ at' = "idle" /\ conv' = saved /\ log' = savedLog
    BY <1>1 DEF TurnFails, Fail
  <2> QED
    BY <1>0, <2>1, WindowStays
<1>2. ASSUME UNCHANGED windowVars PROVE WindowInv'
  <2>1. UNCHANGED <<policy, prompted, saved, savedLog, turnNo, at, conv, log>>
    BY <1>2 DEF windowVars
  <2>2. Win(saved', savedLog', FALSE, prompted', turnNo')
    BY <2>1 DEF WindowInv
  <2>3. IF at' = "idle" THEN conv' = saved' /\ log' = savedLog'
        ELSE Win(conv', log', TRUE, prompted', turnNo')
    BY <2>1 DEF WindowInv
  <2> QED
    BY <1>0, <2>1, <2>2, <2>3, NextWindow
<1> QED
  BY <1>0, <1>1, <1>2, BeginWindow, RequestWindow, CallWindow, AnswerWindow, SaveWindow,
     TransferWindow DEF WindowNext

-------------------------------------------------------------------------------
(* What the invariant says of the conversation.                            *)
LEMMA SuffixOfCat ==
  ASSUME NEW S, NEW x \in Seq(S), NEW y \in Seq(S)
  PROVE  IsSuffix(y, Cat(x, y))
<1> DEFINE r == Cat(x, y)
           m == Reverse(y)
           n == Reverse(r)
<1>1. /\ r \in Seq(S) /\ Len(r) = Len(x) + Len(y) /\ Len(x) \in Nat /\ Len(y) \in Nat
  BY CatTypes
<1>2. \A i \in 1 .. Len(y) : r[Len(x) + i] = y[i]
  BY CatElements
<1> HIDE DEF r
<1>3. \A s \in Seq(S) : /\ Reverse(s) \in Seq(S) /\ Len(Reverse(s)) = Len(s)
                        /\ \A i \in 1 .. Len(s) : Reverse(s)[i] = s[Len(s) - i + 1]
  <2> TAKE s \in Seq(S)
  <2>1. Reverse(s) = [i \in 1 .. Len(s) |-> s[(Len(s) - i) + 1]] /\ Len(s) \in Nat
    BY DEF Reverse
  <2>2. \A i \in 1 .. Len(s) : (Len(s) - i) + 1 \in 1 .. Len(s)
    BY <2>1
  <2>3. \A i \in 1 .. Len(s) : s[(Len(s) - i) + 1] \in S
    BY <2>2, ElementOfSeq
  <2> QED
    BY <2>1, <2>3
<1>4. /\ m \in Seq(S) /\ n \in Seq(S) /\ Len(m) = Len(y) /\ Len(n) = Len(x) + Len(y)
      /\ \A i \in 1 .. Len(y) : m[i] = y[Len(y) - i + 1]
      /\ \A i \in 1 .. Len(x) + Len(y) : n[i] = r[Len(x) + Len(y) - i + 1]
  <2>1. y \in Seq(S) /\ r \in Seq(S)
    BY <1>1
  <2>2. m \in Seq(S) /\ Len(m) = Len(y) /\ \A i \in 1 .. Len(y) : m[i] = y[Len(y) - i + 1]
    BY <1>3, <2>1
  <2>3. n \in Seq(S) /\ Len(n) = Len(r) /\ \A i \in 1 .. Len(r) : n[i] = r[Len(r) - i + 1]
    BY <1>3, <2>1
  <2> QED
    BY <1>1, <2>2, <2>3
<1> HIDE DEF m, n
<1>5. \A i \in 1 .. Len(y) : m[i] = n[i]
  <2> TAKE i \in 1 .. Len(y)
  <2>1. /\ Len(y) - i + 1 \in 1 .. Len(y) /\ i \in 1 .. Len(x) + Len(y)
        /\ Len(x) + Len(y) - i + 1 = Len(x) + (Len(y) - i + 1)
    BY <1>1
  <2>2. r[Len(x) + (Len(y) - i + 1)] = y[Len(y) - i + 1]
    BY <1>2, <2>1
  <2> QED
    BY <1>4, <2>1, <2>2
<1>6. SubSeq(m, 1, Len(y)) = SubSeq(n, 1, Len(y))
  <2> DEFINE u == SubSeq(m, 1, Len(y))
             v == SubSeq(n, 1, Len(y))
             s == SubSeq(m, Len(y) + 1, Len(m))
             t == SubSeq(n, Len(y) + 1, Len(n))
  <2>1. Len(y) \in 0 .. Len(m) /\ Len(y) \in 0 .. Len(n)
    BY <1>1, <1>4
  <2>2. u \in Seq(S) /\ s \in Seq(S) /\ Len(u) = Len(y) /\ m = Cat(u, s)
    BY <1>4, <2>1, CutAt
  <2>3. v \in Seq(S) /\ t \in Seq(S) /\ Len(v) = Len(y) /\ n = Cat(v, t)
    BY <1>4, <2>1, CutAt
  <2> HIDE DEF u, v, s, t
  <2>4. \A i \in 1 .. Len(u) : m[i] = u[i]
    <3>1. \A i \in 1 .. Len(u) : Cat(u, s)[i] = u[i]
      BY <2>2, CatElements
    <3> QED
      BY <2>2, <3>1
  <2>5. \A i \in 1 .. Len(v) : n[i] = v[i]
    <3>1. \A i \in 1 .. Len(v) : Cat(v, t)[i] = v[i]
      BY <2>3, CatElements
    <3> QED
      BY <2>3, <3>1
  <2>6. \A i \in 1 .. Len(u) : u[i] = v[i]
    BY <1>5, <2>2, <2>3, <2>4, <2>5
  <2>7. u = v
    BY <2>2, <2>3, <2>6, SeqsEqual
  <2> QED
    BY <2>7 DEF u, v
<1>7. IsPrefix(m, n)
  BY <1>1, <1>4, <1>6 DEF IsPrefix
<1> QED
  BY <1>7 DEF IsSuffix, m, n, r

(* The prompt is there once, and first.                                    *)
LEMMA PromptFirst ==
  ASSUME policy \in PolicyType, NEW p \in BOOLEAN, NEW now \in Nat, NEW S, Brief(S, now),
         NEW K \in Seq(Plain), NEW c, c = Cat(PromptPart(p), Cat(S, K))
  PROVE  IF p THEN c # <<>> /\ Head(c) = Prompt /\ Prompt \notin Range(Tail(c))
         ELSE Prompt \notin Range(c)
<1> DEFINE w == Cat(S, K)
<1>1. /\ S \in Seq(SummaryMsgs(now)) /\ S \in Seq(Message) /\ K \in Seq(Message) /\ w \in Seq(Message)
  BY PartTypes
<1>2. Prompt \notin Range(w)
  <2>1. Range(w) = Range(S) \cup Range(K)
    BY <1>1, RangeOfCat
  <2>2. Prompt \notin Range(S)
    <3>1. DOMAIN S = 1 .. Len(S) /\ \A i \in 1 .. Len(S) : S[i] \in SummaryMsgs(now)
      BY <1>1, LenProperties, ElementOfSeq
    <3>2. \A m \in SummaryMsgs(now) : m # Prompt
      BY MessageFacts
    <3> QED
      BY <3>1, <3>2 DEF Range
  <2>3. Prompt \notin Range(K)
    <3>1. \A i \in DOMAIN K : K[i] \in Plain
      BY PlainElements
    <3>2. Prompt \notin Plain
      BY MessageFacts
    <3> QED
      BY <3>1, <3>2 DEF Range
  <2> QED
    BY <2>1, <2>2, <2>3
<1>3. c = Cat(PromptPart(p), w)
  OBVIOUS
<1> HIDE DEF w
<1>4. CASE ~p
  <2>1. c = Cat(<<>>, w)
    BY <1>3, <1>4 DEF PromptPart
  <2>2. c = w
    BY <1>1, <2>1, CatEmpty
  <2> QED
    BY <1>2, <1>4, <2>2
<1>5. CASE p
  <2> DEFINE h == <<Prompt>>
  <2>1. h \in Seq(Message) /\ Len(h) = 1 /\ h[1] = Prompt
    BY DEF Prompt, Message
  <2>2. c = Cat(h, w)
    BY <1>3, <1>5 DEF PromptPart
  <2> HIDE DEF h
  <2>3. /\ c \in Seq(Message) /\ Len(c) = 1 + Len(w) /\ Len(w) \in Nat
    <3>1. h \in Seq(Message) /\ w \in Seq(Message)
      BY <1>1, <2>1
    <3>2. Cat(h, w) \in Seq(Message) /\ Len(Cat(h, w)) = Len(h) + Len(w) /\ Len(w) \in Nat
      BY <3>1, CatTypes
    <3> QED
      BY <2>1, <2>2, <3>2
  <2>4. /\ \A i \in 1 .. Len(h) : c[i] = h[i]
        /\ \A i \in 1 .. Len(w) : c[Len(h) + i] = w[i]
    <3>1. h \in Seq(Message) /\ w \in Seq(Message)
      BY <1>1, <2>1
    <3>2. /\ \A i \in 1 .. Len(h) : Cat(h, w)[i] = h[i]
          /\ \A i \in 1 .. Len(w) : Cat(h, w)[Len(h) + i] = w[i]
      BY <3>1, CatElements
    <3> QED
      BY <2>2, <3>2
  <2>5. c # <<>> /\ Head(c) = c[1] /\ c[1] = Prompt
    <3>1. c # <<>> /\ 1 \in 1 .. Len(h)
      BY <2>1, <2>3
    <3>2. Head(c) = c[1]
      BY <2>3, <3>1
    <3> QED
      BY <2>1, <2>4, <3>1, <3>2
  <2>6. /\ Tail(c) \in Seq(Message) /\ Len(Tail(c)) = Len(w)
        /\ \A i \in 1 .. Len(w) : Tail(c)[i] = c[i + 1]
    <3>1. /\ Tail(c) \in Seq(Message) /\ Len(Tail(c)) = Len(c) - 1
          /\ \A i \in 1 .. Len(Tail(c)) : Tail(c)[i] = c[i + 1]
      BY <2>3, <2>5, HeadTailProperties
    <3> QED
      BY <2>3, <3>1
  <2>7. \A i \in 1 .. Len(w) : Tail(c)[i] = w[i]
    <3> TAKE i \in 1 .. Len(w)
    <3>1. Len(h) + i = i + 1
      BY <2>1, <2>3
    <3> QED
      BY <2>4, <2>6, <3>1
  <2>8. Tail(c) = w
    BY <1>1, <2>6, <2>7, SeqsEqual
  <2> QED
    BY <1>2, <1>5, <2>5, <2>8
<1> QED
  BY <1>4, <1>5

LEMMA WindowWhole ==
  ASSUME NEW D \in Seq(Plain), NEW K \in Seq(Plain), Before(D, K), NEW t \in Turns(K)
  PROVE  OfTurn(K, t) = OfTurn(Cat(D, K), t)
<1>1. t \notin Turns(D)
  BY TurnsApart
<1> QED
  BY <1>1, OfTurnOutside

LEMMA FromQueryIs ==
  ASSUME NEW a \in Seq(Message), NEW b \in Seq(Message), NoUsers(a), UserFirst(b)
  PROVE  FromQuery(Cat(a, b)) = b
<1>1. /\ UserFirst(b) /\ b # <<>> => Nth(Users(Cat(a, b)), 1) = Len(a) + 1
      /\ UserFirst(b) => (Users(Cat(a, b)) = {} <=> b = <<>>)
  BY UsersOfCat
<1>2. SubSeq(Cat(a, b), Len(a) + 1, Len(Cat(a, b))) = b
  BY CutOfCat
<1>3. CASE b = <<>>
  BY <1>1, <1>3 DEF FromQuery
<1>4. CASE b # <<>>
  BY <1>1, <1>2, <1>4 DEF FromQuery
<1> QED
  BY <1>3, <1>4

LEMMA PrefixOfCat ==
  ASSUME NEW S, NEW x \in Seq(S), NEW y \in Seq(S)
  PROVE  IsPrefix(x, Cat(x, y))
<1>1. SubSeq(Cat(x, y), 1, Len(x)) = x
  BY CutOfCat
<1>2. SubSeq(x, 1, Len(x)) = x
  <2>1. <<>> \in Seq(S) /\ Cat(x, <<>>) = x
    BY CatEmpty
  <2>2. SubSeq(Cat(x, <<>>), 1, Len(x)) = x
    BY <2>1, CutOfCat
  <2> QED
    BY <2>1, <2>2
<1>3. Len(x) <= Len(Cat(x, y))
  <2>1. Len(Cat(x, y)) = Len(x) + Len(y) /\ Len(x) \in Nat /\ Len(y) \in Nat
    BY CatTypes
  <2> QED
    BY <2>1
<1> QED
  BY <1>1, <1>2, <1>3 DEF IsPrefix

(* What Limited says of the conversation and its log is what the property  *)
(* says.                                                                   *)
LEMMA LimitKeeps ==
  ASSUME NEW now \in Nat, NEW running \in BOOLEAN,
         NEW a \in Seq(Plain), NEW h \in Seq(Plain), NEW m \in Seq(Plain), NEW r \in Seq(Plain),
         Limited(a, h, m, r, Kept, log, running, prompted, now), Good(Kept, now), Good(log, now)
  PROVE  KeptWithinLimit
<1>1. /\ Kept = Cat(a, Cat(h, r)) /\ log = Cat(a, Cat(m, r))
      /\ NoUsers(a) /\ NoUsers(h) /\ UserFirst(Cat(m, r)) /\ UserFirst(r)
      /\ LeftOver(a, h, m, log, prompted)
      /\ r = <<>> /\ m # <<>> => LastOver(a, h, log, prompted)
  BY DEF Limited
<1> DEFINE A == Cat(a, h)
           b == Cat(m, r)
           w == Cat(a, m)
<1>2. /\ A \in Seq(Plain) /\ b \in Seq(Plain) /\ w \in Seq(Plain)
      /\ Kept = Cat(A, r) /\ log = Cat(a, b) /\ log = Cat(w, r)
  <2>1. A \in Seq(Plain) /\ b \in Seq(Plain) /\ w \in Seq(Plain)
    BY CatTypes
  <2>2. Cat(A, r) = Cat(a, Cat(h, r)) /\ Cat(w, r) = Cat(a, b)
    BY CatAssoc
  <2> QED
    BY <1>1, <2>1, <2>2
<1>3. \A s \in Seq(Plain) : s \in Seq(Message)
  <2>1. Plain \subseteq Message
    BY DEF Plain, Message
  <2> QED
    BY <2>1, SeqMonotonic
<1>4. A \in Seq(Message) /\ NoUsers(A)
  BY <1>1, <1>2, <1>3, NoUsersCat
<1>5. UserFirst(b)
  BY <1>1
<1> HIDE DEF b, w
<1>6. Leading(log) = a /\ FromQuery(log) = b
  <2>1. a \in Seq(Message) /\ b \in Seq(Message)
    BY <1>2, <1>3
  <2> QED
    BY <1>1, <1>2, <1>5, <2>1, LeadingIs, FromQueryIs
<1>7. Leading(Kept) = A /\ FromQuery(Kept) = r
  <2> HIDE DEF A
  <2>1. r \in Seq(Message)
    BY <1>3
  <2> QED
    BY <1>1, <1>2, <1>4, <2>1, LeadingIs, FromQueryIs
<1>8. LeftBehind = h
  <2>1. SubSeq(Cat(a, h), Len(a) + 1, Len(Cat(a, h))) = h
    BY CutOfCat
  <2> QED
    BY <1>6, <1>7, <2>1 DEF LeftBehind
<1>9. IsPrefix(Leading(log), Leading(Kept))
  BY <1>6, <1>7, PrefixOfCat
<1> HIDE DEF A
<1>10. IsSuffix(FromQuery(Kept), log)
  BY <1>2, <1>7, SuffixOfCat
<1>11. r # <<>> => Before(h, r) /\ Before(A, r) /\ Before(w, r)
  <2> SUFFICES ASSUME r # <<>> PROVE Before(h, r) /\ Before(A, r) /\ Before(w, r)
    OBVIOUS
  <2>1. Before(h, r) /\ Before(A, r)
    BY <1>1, LeftIsBefore DEF A
  <2>2. Before(w, r)
    BY <1>1, LeftIsBefore DEF w
  <2> QED
    BY <2>1, <2>2
<1>12. ASSUME NEW i \in Users(Kept)
       PROVE  OfTurn(Kept, Kept[i].turn) = OfTurn(log, Kept[i].turn)
  <2>1. PICK j \in Users(r) : i = Len(A) + j
    <3>1. r \in Seq(Message)
      BY <1>3
    <3>2. \A k : k \in Users(Cat(A, r)) <=> \E j \in Users(r) : k = Len(A) + j
      BY <1>4, <3>1, UsersOfCat
    <3> QED
      BY <1>2, <1>12, <3>2
  <2>2. j \in 1 .. Len(r) /\ j \in DOMAIN r
    <3>1. DOMAIN r = 1 .. Len(r)
      BY PlainElements
    <3> QED
      BY <2>1, <3>1 DEF Users
  <2>3. Kept[i] = r[j]
    <3>1. \A k \in 1 .. Len(r) : Cat(A, r)[Len(A) + k] = r[k]
      <4>1. A \in Seq(Plain)
        BY <1>2
      <4> QED
        BY <4>1, CatElements
    <3> QED
      BY <1>2, <2>1, <2>2, <3>1
  <2> DEFINE t == r[j].turn
  <2>4. t \in Turns(r) /\ r # <<>>
    BY <2>2 DEF Turns, Range
  <2> HIDE DEF t
  <2>5. OfTurn(r, t) = OfTurn(Cat(A, r), t) /\ OfTurn(r, t) = OfTurn(Cat(w, r), t)
    BY <1>2, <1>11, <2>4, WindowWhole
  <2> QED
    BY <1>2, <2>3, <2>5 DEF t
<1>13. \A t : Over(a, h, log, t, prompted) => Oversized(t)
  <2> SUFFICES ASSUME NEW t, Over(a, h, log, t, prompted) PROVE Oversized(t)
    OBVIOUS
  <2>1. LeftBefore(t) = Earlier(h, t)
    <3>1. \A i \in DOMAIN h : h[i] \in Message
      BY <1>3, LenProperties, ElementOfSeq
    <3>2. {i \in DOMAIN h : h[i].turn < t} = {i \in DOMAIN h : h[i] \in {k \in Message : k.turn < t}}
      BY <3>1
    <3> QED
      BY <1>8, <3>2 DEF LeftBefore, Earlier, Those
  <2> QED
    BY <1>6, <2>1 DEF Over, Oversized, Cat
<1>14. ASSUME NEW t \in Turns(LeftBehind)
       PROVE  Oversized(t) /\ IsSuffix(OfTurn(LeftBehind, t), OfTurn(log, t))
  <2>1. Over(a, h, log, t, prompted) /\ Ends(h, m, t)
    BY <1>1, <1>8, <1>14 DEF LeftOver
  <2>2. PICK z \in Seq(Message) : OfTurn(m, t) = Cat(z, OfTurn(h, t))
    BY <2>1 DEF Ends
  <2>3. t \notin Turns(r)
    <3>1. CASE r = <<>>
      BY <3>1 DEF Turns, Range
    <3>2. CASE r # <<>>
      BY <1>8, <1>11, <1>14, <3>2, TurnsApart
    <3> QED
      BY <3>1, <3>2
  <2>4. OfTurn(log, t) = OfTurn(w, t)
    BY <1>2, <2>3, OfTurnOutside
  <2>5. /\ OfTurn(w, t) = Cat(OfTurn(a, t), OfTurn(m, t))
        /\ OfTurn(a, t) \in Seq(Message) /\ OfTurn(h, t) \in Seq(Message)
    BY OfTurnCat DEF w
  <2>6. /\ OfTurn(w, t) = Cat(Cat(OfTurn(a, t), z), OfTurn(h, t))
        /\ Cat(OfTurn(a, t), z) \in Seq(Message)
    BY <2>2, <2>5, CatAssoc, CatTypes
  <2>7. IsSuffix(OfTurn(h, t), OfTurn(w, t))
    BY <2>5, <2>6, SuffixOfCat
  <2> QED
    BY <1>8, <1>13, <2>1, <2>4, <2>7
<1>15. ASSUME FromQuery(Kept) = <<>>, FromQuery(log) # <<>>
       PROVE  \E u \in Turns(log) : Oversized(u) /\ \A t \in Turns(log) : t <= u
  <2>1. r = <<>> /\ b # <<>>
    BY <1>6, <1>7, <1>15
  <2>2. m # <<>>
    <3>1. Cat(m, <<>>) = m
      BY CatEmpty
    <3> QED
      BY <2>1, <3>1 DEF b
  <2>3. LastOver(a, h, log, prompted)
    BY <1>1, <2>1, <2>2
  <2> QED
    BY <1>13, <2>3 DEF LastOver
<1> QED
  BY <1>9, <1>10, <1>12, <1>14, <1>15 DEF KeptWithinLimit

LEMMA WinKeeps ==
  ASSUME policy \in PolicyType, prompted \in BOOLEAN, NEW now \in Nat, NEW running \in BOOLEAN,
         Win(conv, log, running, prompted, now)
  PROVE  WindowKeepsTurns
<1>1. PICK S, K : Holds(S, K, conv, log, running, prompted, now)
  BY DEF Win
<1>2. /\ conv = Cat(PromptPart(prompted), Cat(S, K)) /\ Brief(S, now) /\ K \in Seq(Plain)
  BY <1>1 DEF Holds, Good
<1>3. Kept = K
  <2>1. KeptOf(conv) = K
    BY <1>2, Views
  <2> QED
    BY <2>1 DEF Kept, KeptOf
<1>4. Good(log, now) /\ log \in Seq(Plain)
  BY DEF Win, Good
<1>5. IF prompted THEN conv # <<>> /\ Head(conv) = Prompt /\ Prompt \notin Range(Tail(conv))
      ELSE Prompt \notin Range(conv)
  BY <1>2, PromptFirst
<1>6. Covered = Covers(S)
  <2>1. /\ PromptPart(prompted) \in Seq(Message) /\ S \in Seq(Message) /\ K \in Seq(Message)
        /\ Cat(S, K) \in Seq(Message)
    BY <1>2, PartTypes
  <2>2. Covers(Cat(S, K)) = Covers(S) \cup Covers(K)
    BY <2>1, TurnsOfCat
  <2>3. Covers(Cat(PromptPart(prompted), Cat(S, K))) = Covers(PromptPart(prompted)) \cup Covers(Cat(S, K))
    BY <2>1, TurnsOfCat
  <2>4. Covers(K) = {}
    BY <1>2, PlainCovers
  <2>5. Covers(PromptPart(prompted)) = {}
    <3>1. Prompt.covers = {}
      BY DEF Prompt
    <3> QED
      BY <3>1 DEF Covers, Range, PromptPart
  <2> QED
    BY <1>2, <2>2, <2>3, <2>4, <2>5 DEF Covered, Covers
<1>7. ASSUME policy.strategy # "tokenlimit"
      PROVE  /\ IsSuffix(K, log)
             /\ policy.strategy # "slidingwindow" => \A t \in Turns(K) : OfTurn(K, t) = OfTurn(log, t)
             /\ policy.strategy = "summary" =>
                  /\ Turns(log) \ Turns(K) \subseteq Covers(S) \cup {0}
                  /\ Turns(K) \cap Covers(S) = {}
  <2>1. PICK D \in Seq(Plain) :
          /\ log = Cat(D, K)
          /\ policy.strategy # "slidingwindow" => Before(D, K)
          /\ policy.strategy = "summary" =>
               Turns(D) \subseteq Covers(S) \cup {0} /\ Covers(S) \cap Turns(K) = {}
    BY <1>1, <1>7 DEF Holds, KeptByWindow
  <2>2. IsSuffix(K, log)
    BY <1>2, <2>1, SuffixOfCat
  <2>3. ASSUME policy.strategy # "slidingwindow", NEW t \in Turns(K) PROVE OfTurn(K, t) = OfTurn(log, t)
    BY <1>2, <2>1, <2>3, WindowWhole
  <2>4. Turns(log) = Turns(D) \cup Turns(K)
    BY <1>2, <2>1, TurnsOfCat
  <2> QED
    BY <2>1, <2>2, <2>3, <2>4
<1>8. ASSUME policy.strategy = "tokenlimit" PROVE KeptWithinLimit
  <2>1. PICK a, h, m, r \in Seq(Plain) : Limited(a, h, m, r, K, log, running, prompted, now)
    BY <1>1, <1>8 DEF Holds, KeptByLimit
  <2>2. Good(Kept, now) /\ Limited(a, h, m, r, Kept, log, running, prompted, now)
    BY <1>1, <1>3, <2>1 DEF Holds
  <2> QED
    BY <1>4, <2>2, LimitKeeps
<1> QED
  BY <1>3, <1>5, <1>6, <1>7, <1>8 DEF WindowKeepsTurns

(* Types: the policy, the phase of the turn, its number, why it failed, and *)
(* the messages of the conversations and logs, the ones a turn works on and *)
(* the saved (runtimeRunExecutor, the engine, llm.Message).                 *)
THEOREM WindowTypeCorrect == WindowSpec => []WindowTypeOK
<1>1. WindowInit => WindowInv
  BY WindowInitially
<1>2. WindowInv /\ [WindowNext]_windowVars => WindowInv'
  BY WindowStep
<1>3. WindowInv => WindowTypeOK
  <2> SUFFICES ASSUME WindowInv PROVE WindowTypeOK
    OBVIOUS
  <2>1. TurnTypeOK /\ policy \in PolicyType /\ prompted \in BOOLEAN /\ turnNo \in Nat
    BY WindowTypes DEF WindowInv
  <2>2. Win(saved, savedLog, FALSE, prompted, turnNo)
    BY DEF WindowInv
  <2>3. saved \in Seq(Message) /\ savedLog \in Seq(Plain)
    BY <2>1, <2>2, WinTypes
  <2>4. CASE at = "idle"
    BY <2>1, <2>3, <2>4 DEF WindowInv, WindowTypeOK
  <2>5. CASE at # "idle"
    <3>1. Win(conv, log, TRUE, prompted, turnNo)
      BY <2>5 DEF WindowInv
    <3>2. conv \in Seq(Message) /\ log \in Seq(Plain)
      BY <2>1, <3>1, WinTypes
    <3> QED
      BY <2>1, <2>3, <3>2 DEF WindowTypeOK
  <2> QED
    BY <2>4, <2>5
<1> QED
  BY <1>1, <1>2, <1>3, PTL DEF WindowSpec

(* Whatever is compacted, saved, failed and transferred, the conversation  *)
(* keeps the prompt once and first; the end of the log, in whole turns but *)
(* for slidingwindow, and with summary what is not kept is covered; and    *)
(* with tokenlimit the latest turns, whole, and of a turn that had no room *)
(* at most the end of what it said (the four strategies of                 *)
(* Strategy.Compact, prepareMessagesForRequest, compactConversation,       *)
(* ApplyTransfer).                                                         *)
THEOREM CompactionKeepsTurns == WindowSpec => []WindowKeepsTurns
<1>1. WindowInit => WindowInv
  BY WindowInitially
<1>2. WindowInv /\ [WindowNext]_windowVars => WindowInv'
  BY WindowStep
<1>3. WindowInv => WindowKeepsTurns
  <2> SUFFICES ASSUME WindowInv PROVE WindowKeepsTurns
    OBVIOUS
  <2>1. policy \in PolicyType /\ prompted \in BOOLEAN /\ turnNo \in Nat
    BY WindowTypes DEF WindowInv
  <2>2. CASE at = "idle"
    <3>1. Win(conv, log, FALSE, prompted, turnNo)
      BY <2>2 DEF WindowInv
    <3> QED
      BY <2>1, <3>1, WinKeeps
  <2>3. CASE at # "idle"
    <3>1. Win(conv, log, TRUE, prompted, turnNo)
      BY <2>3 DEF WindowInv
    <3> QED
      BY <2>1, <3>1, WinKeeps
  <2> QED
    BY <2>2, <2>3
<1> QED
  BY <1>1, <1>2, <1>3, PTL DEF WindowSpec
===============================================================================
