---------------------------- MODULE SqlStore_proofs ----------------------------
(***************************************************************************)
(* For every set of callers, conversations and messages, in both dialects: *)
(* the statements of the SQL store, in whatever order the callers' come,   *)
(* implement ConversationStore until a writer has missed the row it locks, *)
(* which with sqlite never happens; the numbers of an Append never collide *)
(* before; and a saved session is replaced by nothing but an operation on  *)
(* sessions.                                                               *)
(***************************************************************************)
EXTENDS SqlStore, SequenceTheorems, FiniteSetTheorems, WellFoundedInduction, TLAPS

-------------------------------------------------------------------------------
(* The inductive invariant.                                                *)

Messages == UNION {{batch[i] : i \in DOMAIN batch} : batch \in Batches}

(* Messages under finitely many numbers: the rows of a conversation, or    *)
(* what a transaction has inserted.                                        *)
Below(S) == \E n \in Nat : \A i \in S : i < n
Numbered == UNION {[S -> Messages] : S \in {T \in SUBSET Nat : Below(T)}}

InTx == {"stub", "lock", "clear", "max", "insert"}
Places == {"idle", "mutex", "begin", "load", "delete", "saveSession", "deleteSession"} \cup InTx
SessionRows == {NoRow, StubRow} \cup {SavedRow(p) : p \in Callers}
Transactions == [open : BOOLEAN, row : {NoRow, StubRow}, gone : SUBSET Nat,
                 new : Numbered, next : Nat, left : Seq(Messages)]

SqlTypes ==
  /\ dialect \in {"sqlite", "postgres"} /\ dialect \in Dialects
  /\ session \in [Convs -> SessionRows]
  /\ rows \in [Convs -> Numbered]
  /\ convLock \in [Convs -> Callers \cup {Nobody}]
  /\ rowLock \in [Convs \cup {Database} -> Callers \cup {Nobody}]
  /\ sqlAt \in [Callers -> Places]
  /\ sqlCall \in [Callers -> StoreCall(ConversationOps \cup SessionOps)]
  /\ sqlOutcome \in [Callers -> Outcome]
  /\ sqlAnswer = [p \in Callers |-> sqlAnswer[p]]
  /\ tx \in [Callers -> Transactions]
  /\ overtaken \in SUBSET Callers
  /\ attempt \in [Callers -> 0 .. (MaxAttempts - 1)]
  /\ missed \in BOOLEAN /\ collided \in BOOLEAN

(* The operations that reach a statement.                                  *)
OpsAt(place) ==
  CASE place = "mutex" -> {"save", "append", "delete"}
    [] place \in {"begin", "stub", "lock", "insert"} -> {"save", "append"}
    [] place = "clear" -> {"save"}
    [] place = "max" -> {"append"}
    [] place = "idle" -> ConversationOps \cup SessionOps
    [] OTHER -> {place}

(* A caller is pending exactly while it is in its call, and its            *)
(* transaction is empty until it inserts.                                  *)
PlaceOK(p) ==
  /\ SqlOp(p) \in OpsAt(sqlAt[p])
  /\ sqlOutcome[p] = "pending" <=> sqlAt[p] # "idle"
  /\ sqlOutcome[p] = "pending" => sqlAnswer[p] = <<>>
  /\ tx[p].open <=> sqlAt[p] \in InTx
  /\ sqlAt[p] \notin InTx => tx[p] = NoTx
  /\ sqlAt[p] \in InTx \ {"insert"} =>
       tx[p] = [NoTx EXCEPT !.open = TRUE, !.row = tx[p].row, !.left = sqlCall[p].msgs]
  /\ sqlAt[p] = "stub" => tx[p].row = NoRow

(* From lockSession on a transaction has the lock of its session, unless   *)
(* the row was missing; one that has inserted the session's row has it     *)
(* too, and there was no such row.                                         *)
HasLock(p) == rowLock[Resource(C(p))] = p
LockOK(p) ==
  /\ sqlAt[p] \in {"clear", "max", "insert"} => missed \/ HasLock(p)
  /\ tx[p].row # NoRow => HasLock(p) /\ session[C(p)] = NoRow

(* sqlite: what a transaction has read of its session is true until it is  *)
(* overtaken.                                                              *)
SqliteOK(p) ==
  Sqlite /\ p \notin overtaken =>
    /\ sqlAt[p] = "stub" => session[C(p)] = NoRow
    /\ sqlAt[p] = "lock" => SeesSession(p)

(* The rows a transaction has inserted are, under consecutive numbers from *)
(* base on, the first of its messages, and the others are left.  A Save    *)
(* has deleted all that was there; base of an Append follows the last row, *)
(* whether or not a Delete has since removed them all.                     *)
InsertedFrom(base, t, msgs) ==
  /\ Len(t.left) <= Len(msgs)
  /\ t.next = base + Len(msgs) - Len(t.left)
  /\ DOMAIN t.new = base .. (t.next - 1)
  /\ \A i \in base .. (t.next - 1) : t.new[i] = msgs[i - base + 1]
  /\ \A i \in 1 .. Len(t.left) : t.left[i] = msgs[Len(msgs) - Len(t.left) + i]
Inserting(p) == \E base \in Nat :
  /\ InsertedFrom(base, tx[p], sqlCall[p].msgs)
  /\ SqlOp(p) = "save" => base = 0 /\ tx[p].gone = DOMAIN rows[C(p)]
  /\ SqlOp(p) = "append" =>
       tx[p].gone = {} /\ \E first \in 0 .. base : DOMAIN rows[C(p)] = first .. (base - 1)

SqlCallerOK(p) ==
  /\ PlaceOK(p) /\ LockOK(p) /\ SqliteOK(p)
  /\ sqlAt[p] = "insert" => missed \/ Inserting(p)

(* The rows of a conversation are numbered without a gap.                  *)
Gapless(S) == \E first, end \in Nat : first <= end /\ S = first .. (end - 1)
GaplessUnlessMissed == missed \/ \A c \in Convs : Gapless(DOMAIN rows[c])

SqlInv ==
  /\ SqlTypes
  /\ \A p \in Callers : SqlCallerOK(p)
  /\ GaplessUnlessMissed
  /\ AppendsNeverCollide /\ SqliteLocksItsSession

-------------------------------------------------------------------------------
(* Facts about numbers, numberings and batches.                            *)

(* Every set of naturals has a least element: strict inclusion of finite   *)
(* sets is well founded.                                                   *)
LEMMA LeastNatural ==
  ASSUME NEW S \in SUBSET Nat, S # {}
  PROVE  \E n \in S : \A m \in S : n <= m
<1> DEFINE T == {0 .. (n - 1) : n \in S}
           R == StrictSubsetOrdering(Nat)
<1>1. IsWellFoundedOn(R, FiniteSubsetsOf(Nat))
  BY FS_StrictSubsetOrderingWellFounded
<1>2. T \subseteq FiniteSubsetsOf(Nat)
  <2> SUFFICES ASSUME NEW n \in S PROVE 0 .. (n - 1) \in FiniteSubsetsOf(Nat)
    OBVIOUS
  <2>1. IsFiniteSet(0 .. (n - 1))
    BY FS_Interval
  <2>2. 0 .. (n - 1) \in SUBSET Nat
    OBVIOUS
  <2> QED
    BY <2>1, <2>2 DEF FiniteSubsetsOf
<1>3. T # {}
  OBVIOUS
<1>4. \A m, n \in S : m < n => <<0 .. (m - 1), 0 .. (n - 1)>> \in R
  <2> TAKE m, n \in S
  <2> HAVE m < n
  <2>1. 0 .. (m - 1) \in SUBSET Nat /\ 0 .. (n - 1) \in SUBSET Nat
    OBVIOUS
  <2>2. 0 .. (m - 1) \subseteq 0 .. (n - 1) /\ m \in 0 .. (n - 1) /\ m \notin 0 .. (m - 1)
    OBVIOUS
  <2> QED
    BY <2>1, <2>2, Zenon DEF StrictSubsetOrdering
<1> HIDE DEF R
<1>5. \E x \in T : \A y \in T : ~(<<y, x>> \in R)
  <2> HIDE DEF T
  <2> QED
    BY <1>1, <1>2, <1>3, WFMin
<1>6. PICK n \in S : \A m \in S : ~(<<0 .. (m - 1), 0 .. (n - 1)>> \in R)
  BY <1>5
<1>7. \A m \in S : ~(m < n)
  BY <1>4, <1>6
<1> QED
  BY <1>7

(* MAX(seq) exists.                                                        *)
LEMMA GreatestNatural ==
  ASSUME NEW S \in SUBSET Nat, S # {}, Below(S)
  PROVE  \E n \in S : \A m \in S : m <= n
<1> DEFINE U == {n \in Nat : \A i \in S : i < n}
<1>1. U \in SUBSET Nat /\ U # {}
  BY DEF Below
<1>2. PICK n \in U : \A m \in U : n <= m
  <2> HIDE DEF U
  <2> QED
    BY <1>1, LeastNatural
<1>3. n # 0 /\ n - 1 \in Nat /\ n - 1 \notin U
  <2>1. n \in Nat /\ \A i \in S : i \in Nat /\ i < n
    OBVIOUS
  <2>2. PICK i \in S : TRUE
    OBVIOUS
  <2>3. n # 0 /\ n - 1 \in Nat
    BY <2>1, <2>2
  <2>4. ~(n <= n - 1)
    BY <2>1
  <2> HIDE DEF U
  <2> QED
    BY <1>2, <2>3, <2>4
<1>4. PICK s \in S : ~(s < n - 1)
  BY <1>3
<1> QED
  BY <1>2, <1>4

LEMMA NumberedIf ==
  ASSUME NEW S \in SUBSET Nat, Below(S), NEW f \in [S -> Messages]
  PROVE  f \in Numbered
BY DEF Numbered

LEMMA NumberedIs ==
  ASSUME NEW f \in Numbered
  PROVE  DOMAIN f \in SUBSET Nat /\ Below(DOMAIN f) /\ f \in [DOMAIN f -> Messages]
<1>1. PICK S \in {T \in SUBSET Nat : Below(T)} : f \in [S -> Messages]
  BY DEF Numbered
<1> QED
  BY <1>1

LEMMA NoRowsNumbered == NoRows \in Numbered /\ DOMAIN NoRows = {}
<1>1. DOMAIN NoRows = {} /\ NoRows \in [{} -> Messages]
  BY DEF NoRows
<1>2. {} \in SUBSET Nat /\ Below({})
  <2>1. \A i \in {} : i < 0
    OBVIOUS
  <2> QED
    BY <2>1 DEF Below
<1> QED
  BY <1>1, <1>2, NumberedIf

LEMMA BatchType ==
  ASSUME NEW batch \in Batches
  PROVE  batch \in Seq(Messages)
<1>1. batch \in Seq({batch[i] : i \in DOMAIN batch})
  BY SqlAssumption
<1>2. {batch[i] : i \in DOMAIN batch} \subseteq Messages
  BY DEF Messages
<1> QED
  BY <1>1, <1>2, SeqMonotonic

(* The order of the rows is the order of their numbers, when these have no *)
(* gap.                                                                    *)
LEMMA NthOfInterval ==
  ASSUME NEW first \in Nat, NEW end \in Nat, NEW i \in 1 .. (end - first)
  PROVE  Nth(first .. (end - 1), i) = first + i - 1
<1> DEFINE S == first .. (end - 1)
<1>1. \A s \in S : Cardinality({t \in S : t < s}) = s - first
  <2> TAKE s \in S
  <2>1. {t \in S : t < s} = first .. (s - 1)
    OBVIOUS
  <2>2. s \in Nat /\ s - 1 \in Int /\ first <= s
    OBVIOUS
  <2>3. Cardinality(first .. (s - 1)) = IF first > s - 1 THEN 0 ELSE s - 1 - first + 1
    BY <2>2, FS_Interval
  <2>4. (IF first > s - 1 THEN 0 ELSE s - 1 - first + 1) = s - first
    BY <2>2
  <2> QED
    BY <2>1, <2>3, <2>4
<1>2. first + i - 1 \in S
  OBVIOUS
<1>3. \A s \in S : (Cardinality({t \in S : t < s}) = i - 1) <=> s = first + i - 1
  BY <1>1
<1> QED
  BY <1>2, <1>3 DEF Nth

LEMMA OrderOfGapless ==
  ASSUME NEW f, NEW first \in Nat, NEW end \in Nat, first <= end,
         DOMAIN f = first .. (end - 1)
  PROVE  InSeqOrder(f) = [i \in 1 .. (end - first) |-> f[first + i - 1]]
<1>1. Cardinality(DOMAIN f) = end - first
  BY FS_Interval
<1>2. \A i \in 1 .. (end - first) : Nth(DOMAIN f, i) = first + i - 1
  BY NthOfInterval
<1> QED
  BY <1>1, <1>2 DEF InSeqOrder

LEMMA OrderOfNone == \A f : DOMAIN f = {} => InSeqOrder(f) = <<>>
<1> SUFFICES ASSUME NEW f, DOMAIN f = {} PROVE InSeqOrder(f) = <<>>
  OBVIOUS
<1>1. DOMAIN f = 0 .. (0 - 1)
  OBVIOUS
<1>2. InSeqOrder(f) = [i \in 1 .. (0 - 0) |-> f[0 + i - 1]]
  BY <1>1, OrderOfGapless
<1> QED
  BY <1>2

-------------------------------------------------------------------------------
(* Every step keeps the invariant.                                         *)

LEMMA SqlCallType ==
  ASSUME SqlTypes, NEW p \in Callers
  PROVE  /\ C(p) \in Convs /\ SqlOp(p) \in ConversationOps \cup SessionOps
         /\ sqlCall[p].msgs \in Seq(Messages)
         /\ Resource(C(p)) \in Convs \cup {Database}
         /\ SqlOp(p) \notin WithMessages => sqlCall[p].msgs = <<>>
<1>1. /\ sqlCall[p] \in [op : ConversationOps \cup SessionOps, conv : Convs, msgs : Batches]
      /\ sqlCall[p].op \in WithMessages \/ sqlCall[p].msgs = <<>>
  BY DEF SqlTypes, StoreCall
<1>2. sqlCall[p].msgs \in Seq(Messages)
  BY <1>1, BatchType
<1> QED
  BY <1>1, <1>2 DEF C, SqlOp, Resource

LEMMA SqlInitInv == SqlInit => SqlInv
<1> SUFFICES ASSUME SqlInit PROVE SqlInv
  OBVIOUS
<1> USE DEF SqlInit
<1>1. (CHOOSE r \in StoreCall({"load"}) : TRUE) \in StoreCall({"load"})
  <2>1. PICK c \in Convs : TRUE
    BY StoreCallsAssumption
  <2>2. [op |-> "load", conv |-> c, msgs |-> <<>>] \in StoreCall({"load"})
    BY StoreCallsAssumption DEF StoreCall
  <2> QED
    BY <2>2
<1>2. \A p \in Callers : sqlCall[p] \in StoreCall(ConversationOps \cup SessionOps)
                         /\ SqlOp(p) \in ConversationOps \cup SessionOps
  BY <1>1 DEF StoreCall, ConversationOps, SqlOp
<1>3. NoTx \in Transactions
  <2>1. <<>> \in Seq(Messages) /\ <<>> \in Numbered
    BY NoRowsNumbered DEF NoRows
  <2> QED
    BY <2>1 DEF NoTx, Transactions
<1>4. SqlTypes
  <2>1. dialect \in {"sqlite", "postgres"} /\ 0 \in 0 .. (MaxAttempts - 1)
    BY SqlAssumption
  <2>2. session \in [Convs -> SessionRows]
    BY DEF SessionRows
  <2>3. rows \in [Convs -> Numbered]
    BY NoRowsNumbered
  <2>4. /\ sqlAt \in [Callers -> Places] /\ sqlOutcome \in [Callers -> Outcome]
        /\ tx \in [Callers -> Transactions]
        /\ sqlCall \in [Callers -> StoreCall(ConversationOps \cup SessionOps)]
        /\ convLock \in [Convs -> Callers \cup {Nobody}]
        /\ rowLock \in [Convs \cup {Database} -> Callers \cup {Nobody}]
        /\ attempt \in [Callers -> 0 .. (MaxAttempts - 1)]
    BY <1>2, <1>3, <2>1 DEF Places, Outcome
  <2> QED
    BY <2>1, <2>2, <2>3, <2>4 DEF SqlTypes
<1>5. \A p \in Callers : SqlCallerOK(p)
  BY <1>2 DEF SqlCallerOK, PlaceOK, LockOK, SqliteOK, OpsAt, InTx, NoTx
<1>6. GaplessUnlessMissed
  <2>1. \A c \in Convs : DOMAIN rows[c] = 0 .. (0 - 1)
    BY NoRowsNumbered
  <2> QED
    BY <2>1 DEF GaplessUnlessMissed, Gapless
<1> QED
  BY <1>4, <1>5, <1>6 DEF SqlInv, AppendsNeverCollide, SqliteLocksItsSession

(* What another caller's step may do to what a caller relies on: its row   *)
(* and its messages only when it has no lock on them, with one exception,  *)
(* a Delete, which waits for the rows it has seen or inserted.             *)
RowKept(q) ==
  session'[C(q)] # session[C(q)] =>
    ~HasLock(q) /\ (Sqlite /\ tx[q].open => q \in overtaken')
RowsKept(q) ==
  \/ rows'[C(q)] = rows[C(q)]
  \/ missed \/ ~HasLock(q)
  \/ /\ DOMAIN rows'[C(q)] = {}
     /\ (tx[q].gone \cup DOMAIN tx[q].new) \cap DOMAIN rows[C(q)] = {}

LEMMA OtherCallerKept ==
  ASSUME SqlInv, NEW q \in Callers, dialect' = dialect,
         sqlAt'[q] = sqlAt[q], sqlCall'[q] = sqlCall[q], tx'[q] = tx[q],
         sqlOutcome'[q] = sqlOutcome[q], sqlAnswer'[q] = sqlAnswer[q],
         missed => missed', HasLock(q) => HasLock(q)',
         Sqlite /\ q \in overtaken => q \in overtaken',
         RowKept(q), RowsKept(q)
  PROVE  SqlCallerOK(q)'
<1>1. /\ C(q)' = C(q) /\ SqlOp(q)' = SqlOp(q) /\ Sqlite' = Sqlite
  BY DEF C, SqlOp, Sqlite
<1>2. PlaceOK(q) /\ LockOK(q) /\ SqliteOK(q) /\ (sqlAt[q] = "insert" => missed \/ Inserting(q))
  BY DEF SqlInv, SqlCallerOK
<1>3. PlaceOK(q)'
  BY <1>1, <1>2 DEF PlaceOK
<1>4. LockOK(q)'
  BY <1>1, <1>2 DEF LockOK, RowKept
<1>5. SqliteOK(q)'
  <2> SUFFICES ASSUME Sqlite, q \notin overtaken', sqlAt[q] \in {"stub", "lock"}
               PROVE  /\ sqlAt[q] = "stub" => session'[C(q)] = NoRow
                      /\ sqlAt[q] = "lock" => tx[q].row # NoRow \/ session'[C(q)] # NoRow
    BY <1>1 DEF SqliteOK, SeesSession
  <2>1. tx[q].open
    BY <1>2 DEF PlaceOK, InTx
  <2>2. session'[C(q)] = session[C(q)]
    BY <2>1 DEF RowKept
  <2> QED
    BY <1>2, <2>2 DEF SqliteOK, SeesSession
<1>6. ASSUME sqlAt[q] = "insert", ~missed' PROVE Inserting(q)'
  <2>1. ~missed /\ HasLock(q) /\ Inserting(q)
    BY <1>2, <1>6 DEF LockOK
  <2>2. PICK base \in Nat :
          /\ InsertedFrom(base, tx[q], sqlCall[q].msgs)
          /\ SqlOp(q) = "save" => base = 0 /\ tx[q].gone = DOMAIN rows[C(q)]
          /\ SqlOp(q) = "append" =>
               tx[q].gone = {} /\ \E first \in 0 .. base : DOMAIN rows[C(q)] = first .. (base - 1)
    BY <2>1 DEF Inserting
  <2>3. InsertedFrom(base, tx'[q], sqlCall'[q].msgs)
    BY <2>2
  <2>4. CASE rows'[C(q)] = rows[C(q)]
    BY <1>1, <2>2, <2>3, <2>4 DEF Inserting
  <2>5. CASE /\ DOMAIN rows'[C(q)] = {}
             /\ (tx[q].gone \cup DOMAIN tx[q].new) \cap DOMAIN rows[C(q)] = {}
    <3>1. SqlOp(q) = "save" => tx[q].gone = DOMAIN rows'[C(q)]
      BY <2>2, <2>5
    <3>2. base \in 0 .. base /\ DOMAIN rows'[C(q)] = base .. (base - 1)
      BY <2>5
    <3> QED
      BY <1>1, <2>2, <2>3, <3>1, <3>2 DEF Inserting
  <2> QED
    BY <2>1, <2>4, <2>5 DEF RowsKept
<1> QED
  BY <1>3, <1>4, <1>5, <1>6 DEF SqlCallerOK

(* A statement inside the transaction of p, after which the call goes on:  *)
(* what is left to show concerns p.                                        *)
StatementOf(p) ==
  /\ convLock' \in [Convs -> Callers \cup {Nobody}]
  /\ rowLock' = rowLock \/ (MayWrite(p) /\ rowLock' = Locked(p))
  /\ tx' = [tx EXCEPT ![p] = tx'[p]] /\ tx'[p] \in Transactions
  /\ overtaken' = overtaken \/ overtaken' = overtaken \ {p}
  /\ missed' \in BOOLEAN /\ (missed => missed') /\ (Sqlite => missed' = missed)
  /\ collided' = collided

LEMMA GotoKeepsInv ==
  ASSUME SqlInv, NEW p \in Callers, NEW place \in Places, SqlGoto(p, place),
         StatementOf(p), SqlCallerOK(p)'
  PROVE  SqlInv'
<1> USE DEF StatementOf
<1>1. /\ sqlAt' = [sqlAt EXCEPT ![p] = place]
      /\ UNCHANGED <<dialect, session, rows, sqlCall, sqlOutcome, sqlAnswer, attempt>>
  BY DEF SqlGoto, database
<1>2. SqlTypes /\ AppendsNeverCollide /\ SqliteLocksItsSession /\ GaplessUnlessMissed
  BY DEF SqlInv
<1>3. rowLock' \in [Convs \cup {Database} -> Callers \cup {Nobody}]
  BY <1>2, SqlCallType DEF SqlTypes, Locked
<1>4. SqlTypes'
  <2>1. tx' \in [Callers -> Transactions] /\ sqlAt' \in [Callers -> Places]
        /\ overtaken' \in SUBSET Callers
    BY <1>1, <1>2 DEF SqlTypes
  <2> QED
    BY <1>1, <1>2, <1>3, <2>1 DEF SqlTypes
<1>5. ASSUME NEW q \in Callers \ {p} PROVE SqlCallerOK(q)'
  <2>1. /\ sqlAt'[q] = sqlAt[q] /\ sqlCall'[q] = sqlCall[q] /\ tx'[q] = tx[q]
        /\ sqlOutcome'[q] = sqlOutcome[q] /\ sqlAnswer'[q] = sqlAnswer[q]
        /\ q \in overtaken => q \in overtaken'
    BY <1>1, <1>2 DEF SqlTypes
  <2>2. HasLock(q) => HasLock(q)'
    <3>1. Resource(C(q))' = Resource(C(q))
      BY <1>1 DEF Resource, C, Sqlite
    <3>2. q # Nobody
      BY StoreCallsAssumption
    <3>3. Resource(C(p)) \in DOMAIN rowLock
      BY <1>2, SqlCallType DEF SqlTypes
    <3>4. rowLock' = rowLock \/ (MayWrite(p) /\ rowLock' = Locked(p))
      BY DEF StatementOf
    <3> HIDE DEF StatementOf
    <3>5. CASE rowLock' = rowLock
      BY <3>1, <3>5 DEF HasLock
    <3>6. CASE MayWrite(p) /\ rowLock' = Locked(p)
      BY <3>1, <3>2, <3>3, <3>6 DEF HasLock, MayWrite, Locked
    <3> QED
      BY <3>4, <3>5, <3>6
  <2>3. RowKept(q) /\ RowsKept(q)
    BY <1>1 DEF RowKept, RowsKept
  <2> QED
    BY <1>1, <2>1, <2>2, <2>3, OtherCallerKept
<1>6. \A q \in Callers : SqlCallerOK(q)'
  BY <1>5
<1>7. AppendsNeverCollide' /\ SqliteLocksItsSession' /\ GaplessUnlessMissed'
  BY <1>1, <1>2 DEF AppendsNeverCollide, SqliteLocksItsSession, GaplessUnlessMissed, Sqlite
<1> QED
  BY <1>4, <1>6, <1>7 DEF SqlInv

(* The return, on every path.                                              *)
LEMMA ReturnKeepsInv ==
  ASSUME SqlInv, NEW p \in Callers, NEW result \in {"ok", "failed"}, NEW found,
         SqlReturn(p, result, found),
         session' \in [Convs -> SessionRows], rows' \in [Convs -> Numbered],
         overtaken' \in SUBSET Callers,
         Sqlite => overtaken \ {p} \subseteq overtaken',
         missed' = missed, collided' \in BOOLEAN, collided' => missed,
         missed \/ \A c \in Convs : Gapless(DOMAIN rows'[c]),
         \A q \in Callers \ {p} : RowKept(q) /\ RowsKept(q)
  PROVE  SqlInv'
<1>1. /\ sqlAt' = [sqlAt EXCEPT ![p] = "idle"]
      /\ sqlOutcome' = [sqlOutcome EXCEPT ![p] = result]
      /\ sqlAnswer' = [sqlAnswer EXCEPT ![p] = found]
      /\ convLock' = [c \in Convs |-> IF convLock[c] = p THEN Nobody ELSE convLock[c]]
      /\ rowLock' = Freed(p)
      /\ tx' = [tx EXCEPT ![p] = NoTx]
      /\ attempt' = [attempt EXCEPT ![p] = 0]
      /\ UNCHANGED <<dialect, sqlCall>>
  BY DEF SqlReturn
<1>2. SqlTypes /\ AppendsNeverCollide /\ SqliteLocksItsSession
  BY DEF SqlInv
<1>3. NoTx \in Transactions
  <2>1. <<>> \in Seq(Messages) /\ <<>> \in Numbered
    BY NoRowsNumbered DEF NoRows
  <2> QED
    BY <2>1 DEF NoTx, Transactions
<1>4. SqlTypes'
  <2>1. rowLock' \in [Convs \cup {Database} -> Callers \cup {Nobody}]
    BY <1>1, <1>2 DEF SqlTypes, Freed
  <2>2. convLock' \in [Convs -> Callers \cup {Nobody}]
    BY <1>1, <1>2 DEF SqlTypes
  <2>3. /\ sqlAt' \in [Callers -> Places] /\ sqlOutcome' \in [Callers -> Outcome]
        /\ sqlAnswer' = [x \in Callers |-> sqlAnswer'[x]]
    BY <1>1, <1>2 DEF SqlTypes, Places, Outcome
  <2>4. attempt' \in [Callers -> 0 .. (MaxAttempts - 1)]
    <3>1. 0 \in 0 .. (MaxAttempts - 1)
      BY SqlAssumption
    <3> QED
      BY <1>1, <1>2, <3>1 DEF SqlTypes
  <2>5. tx' \in [Callers -> Transactions]
    BY <1>1, <1>2, <1>3 DEF SqlTypes
  <2> QED
    BY <1>1, <1>2, <2>1, <2>2, <2>3, <2>4, <2>5 DEF SqlTypes
<1>5. ASSUME NEW q \in Callers \ {p} PROVE SqlCallerOK(q)'
  <2>1. /\ sqlAt'[q] = sqlAt[q] /\ sqlCall'[q] = sqlCall[q] /\ tx'[q] = tx[q]
        /\ sqlOutcome'[q] = sqlOutcome[q] /\ sqlAnswer'[q] = sqlAnswer[q]
        /\ Sqlite /\ q \in overtaken => q \in overtaken'
    BY <1>1, <1>2 DEF SqlTypes
  <2>2. HasLock(q) => HasLock(q)'
    <3>1. Resource(C(q))' = Resource(C(q)) /\ Resource(C(q)) \in DOMAIN rowLock
      BY <1>1, <1>2, SqlCallType DEF Resource, C, Sqlite, SqlTypes
    <3> QED
      BY <1>1, <3>1 DEF HasLock, Freed
  <2> QED
    BY <1>1, <2>1, <2>2, OtherCallerKept
<1>6. SqlCallerOK(p)'
  <2>1. sqlAt'[p] = "idle" /\ sqlOutcome'[p] = result /\ tx'[p] = NoTx
    BY <1>1, <1>2 DEF SqlTypes
  <2>2. SqlOp(p)' \in ConversationOps \cup SessionOps
    BY <1>1, <1>2, SqlCallType DEF SqlOp
  <2> QED
    BY <2>1, <2>2 DEF SqlCallerOK, PlaceOK, LockOK, SqliteOK, OpsAt, InTx, NoTx
<1>7. \A q \in Callers : SqlCallerOK(q)'
  BY <1>5, <1>6
<1>8. AppendsNeverCollide' /\ SqliteLocksItsSession' /\ GaplessUnlessMissed'
  BY <1>1, <1>2 DEF AppendsNeverCollide, SqliteLocksItsSession, GaplessUnlessMissed, Sqlite
<1> QED
  BY <1>4, <1>7, <1>8 DEF SqlInv

(* What a caller may rely on at its statement.                             *)
LEMMA AtStatement ==
  ASSUME SqlInv, NEW p \in Callers
  PROVE  /\ SqlTypes /\ PlaceOK(p) /\ LockOK(p) /\ SqliteOK(p)
         /\ sqlAt[p] \in Places /\ tx[p] \in Transactions
         /\ C(p) \in Convs /\ Resource(C(p)) \in DOMAIN rowLock
         /\ session[C(p)] \in SessionRows /\ rows[C(p)] \in Numbered
         /\ sqlCall[p].msgs \in Seq(Messages)
BY SqlCallType DEF SqlInv, SqlCallerOK, SqlTypes

LEMMA SqlInvokeKeepsInv ==
  ASSUME SqlInv, NEW p \in Callers, NEW r \in StoreCall(ConversationOps \cup SessionOps),
         SqlInvoke(p, r)
  PROVE  SqlInv'
<1> DEFINE place == IF r.op \in {"save", "append", "delete"} THEN "mutex" ELSE r.op
<1>1. /\ sqlAt[p] = "idle"
      /\ sqlAt' = [sqlAt EXCEPT ![p] = place]
      /\ sqlCall' = [sqlCall EXCEPT ![p] = r]
      /\ sqlOutcome' = [sqlOutcome EXCEPT ![p] = "pending"]
      /\ sqlAnswer' = [sqlAnswer EXCEPT ![p] = <<>>]
      /\ UNCHANGED <<dialect, session, rows, convLock, rowLock, tx, overtaken, attempt,
                     missed, collided>>
  BY DEF SqlInvoke, database
<1>2. r.op \in ConversationOps \cup SessionOps
  BY DEF StoreCall
<1>3. /\ SqlTypes /\ AppendsNeverCollide /\ SqliteLocksItsSession /\ GaplessUnlessMissed
      /\ PlaceOK(p) /\ sqlAt[p] = "idle" /\ tx[p] = NoTx
  BY <1>1 DEF SqlInv, SqlCallerOK, PlaceOK, InTx
<1>4. place \in Places \ InTx /\ place # "idle" /\ r.op \in OpsAt(place)
  BY <1>2 DEF Places, InTx, ConversationOps, SessionOps, OpsAt
<1> HIDE DEF place
<1>5. SqlTypes'
  <2>1. /\ sqlAt' \in [Callers -> Places] /\ sqlOutcome' \in [Callers -> Outcome]
        /\ sqlCall' \in [Callers -> StoreCall(ConversationOps \cup SessionOps)]
        /\ sqlAnswer' = [x \in Callers |-> sqlAnswer'[x]]
    BY <1>1, <1>3, <1>4 DEF SqlTypes, Outcome
  <2> QED
    BY <1>1, <1>3, <2>1 DEF SqlTypes
<1>6. ASSUME NEW q \in Callers \ {p} PROVE SqlCallerOK(q)'
  <2>1. /\ sqlAt'[q] = sqlAt[q] /\ sqlCall'[q] = sqlCall[q] /\ tx'[q] = tx[q]
        /\ sqlOutcome'[q] = sqlOutcome[q] /\ sqlAnswer'[q] = sqlAnswer[q]
    BY <1>1, <1>3 DEF SqlTypes
  <2>2. HasLock(q) => HasLock(q)'
    BY <1>1, <2>1 DEF HasLock, Resource, C, Sqlite
  <2>3. RowKept(q) /\ RowsKept(q)
    BY <1>1 DEF RowKept, RowsKept
  <2> QED
    BY <1>1, <2>1, <2>2, <2>3, OtherCallerKept
<1>7. SqlCallerOK(p)'
  <2>1. /\ sqlAt'[p] = place /\ sqlCall'[p] = r /\ sqlOutcome'[p] = "pending"
        /\ sqlAnswer'[p] = <<>> /\ tx'[p] = NoTx
    BY <1>1, <1>3 DEF SqlTypes
  <2>2. SqlOp(p)' = r.op
    BY <2>1 DEF SqlOp
  <2>3. PlaceOK(p)'
    BY <1>4, <2>1, <2>2 DEF PlaceOK, InTx, NoTx
  <2> QED
    BY <1>4, <2>1, <2>3 DEF SqlCallerOK, LockOK, SqliteOK, InTx, NoTx
<1>8. \A q \in Callers : SqlCallerOK(q)'
  BY <1>6, <1>7
<1>9. AppendsNeverCollide' /\ SqliteLocksItsSession' /\ GaplessUnlessMissed'
  BY <1>1, <1>3 DEF AppendsNeverCollide, SqliteLocksItsSession, GaplessUnlessMissed, Sqlite
<1> QED
  BY <1>5, <1>8, <1>9 DEF SqlInv

LEMMA BusyKeepsInv ==
  ASSUME SqlInv, NEW p \in Callers, Busy(p)
  PROVE  SqlInv'
<1>1. /\ sqlAt[p] \in {"begin", "stub", "lock", "insert"}
      /\ attempt[p] + 1 < MaxAttempts
      /\ attempt' = [attempt EXCEPT ![p] = @ + 1]
      /\ sqlAt' = [sqlAt EXCEPT ![p] = "begin"]
      /\ rowLock' = Freed(p)
      /\ tx' = [tx EXCEPT ![p] = NoTx]
      /\ overtaken' = overtaken \ {p}
      /\ UNCHANGED <<dialect, session, rows, convLock, sqlCall, sqlOutcome, sqlAnswer, missed,
                     collided>>
  BY DEF Busy, database
<1>2. /\ SqlTypes /\ AppendsNeverCollide /\ SqliteLocksItsSession /\ GaplessUnlessMissed
      /\ PlaceOK(p)
  BY DEF SqlInv, SqlCallerOK
<1>3. NoTx \in Transactions
  <2>1. <<>> \in Seq(Messages) /\ <<>> \in Numbered
    BY NoRowsNumbered DEF NoRows
  <2> QED
    BY <2>1 DEF NoTx, Transactions
<1>4. SqlTypes'
  <2>1. rowLock' \in [Convs \cup {Database} -> Callers \cup {Nobody}]
    BY <1>1, <1>2 DEF SqlTypes, Freed
  <2>2. sqlAt' \in [Callers -> Places] /\ tx' \in [Callers -> Transactions]
    BY <1>1, <1>2, <1>3 DEF SqlTypes, Places
  <2>3. attempt' \in [Callers -> 0 .. (MaxAttempts - 1)]
    <3>1. attempt[p] + 1 \in 0 .. (MaxAttempts - 1)
      BY <1>1, <1>2, SqlAssumption DEF SqlTypes
    <3> QED
      BY <1>1, <1>2, <3>1 DEF SqlTypes
  <2> QED
    BY <1>1, <1>2, <2>1, <2>2, <2>3 DEF SqlTypes
<1>5. ASSUME NEW q \in Callers \ {p} PROVE SqlCallerOK(q)'
  <2>1. /\ sqlAt'[q] = sqlAt[q] /\ sqlCall'[q] = sqlCall[q] /\ tx'[q] = tx[q]
        /\ sqlOutcome'[q] = sqlOutcome[q] /\ sqlAnswer'[q] = sqlAnswer[q]
        /\ q \in overtaken => q \in overtaken'
    BY <1>1, <1>2 DEF SqlTypes
  <2>2. HasLock(q) => HasLock(q)'
    <3>1. Resource(C(q))' = Resource(C(q)) /\ Resource(C(q)) \in DOMAIN rowLock
      BY <1>1, <1>2, SqlCallType DEF Resource, C, Sqlite, SqlTypes
    <3> QED
      BY <1>1, <3>1 DEF HasLock, Freed
  <2>3. RowKept(q) /\ RowsKept(q)
    BY <1>1 DEF RowKept, RowsKept
  <2> QED
    BY <1>1, <2>1, <2>2, <2>3, OtherCallerKept
<1>6. SqlCallerOK(p)'
  <2>1. sqlAt'[p] = "begin" /\ tx'[p] = NoTx /\ sqlOutcome'[p] = "pending" /\ sqlAnswer'[p] = <<>>
    BY <1>1, <1>2 DEF SqlTypes, PlaceOK
  <2>2. SqlOp(p)' \in {"save", "append"}
    BY <1>1, <1>2 DEF SqlOp, PlaceOK, OpsAt
  <2>3. PlaceOK(p)'
    BY <2>1, <2>2 DEF PlaceOK, InTx, NoTx, OpsAt
  <2> QED
    BY <2>1, <2>3 DEF SqlCallerOK, LockOK, SqliteOK, NoTx
<1>7. \A q \in Callers : SqlCallerOK(q)'
  BY <1>5, <1>6
<1>8. AppendsNeverCollide' /\ SqliteLocksItsSession' /\ GaplessUnlessMissed'
  BY <1>1, <1>2 DEF AppendsNeverCollide, SqliteLocksItsSession, GaplessUnlessMissed, Sqlite
<1> QED
  BY <1>4, <1>7, <1>8 DEF SqlInv

LEMMA LockConversationKeepsInv ==
  ASSUME SqlInv, NEW p \in Callers, LockConversation(p)
  PROVE  SqlInv'
<1> DEFINE place == IF SqlOp(p) = "delete" THEN "delete" ELSE "begin"
<1>1. /\ sqlAt[p] = "mutex" /\ SqlGoto(p, place)
      /\ UNCHANGED <<rowLock, tx, overtaken, missed, collided>>
      /\ sqlAt' = [sqlAt EXCEPT ![p] = place]
      /\ UNCHANGED <<dialect, session, rows, sqlCall, sqlOutcome, sqlAnswer>>
  BY DEF LockConversation, SqlGoto, database
<1>2. SqlTypes /\ PlaceOK(p) /\ tx[p] = NoTx /\ tx[p] \in Transactions
  BY <1>1, AtStatement DEF PlaceOK, InTx
<1>3. convLock' \in [Convs -> Callers \cup {Nobody}]
  BY <1>2 DEF LockConversation, SqlTypes
<1>4. tx' = [tx EXCEPT ![p] = tx'[p]] /\ tx'[p] = NoTx
  BY <1>1, <1>2 DEF SqlTypes
<1>5. SqlCallerOK(p)'
  <2>1. sqlAt'[p] = place /\ sqlOutcome'[p] = "pending" /\ sqlAnswer'[p] = <<>>
    BY <1>1, <1>2 DEF SqlTypes, PlaceOK
  <2>2. SqlOp(p)' = SqlOp(p) /\ SqlOp(p) \in {"save", "append", "delete"}
    BY <1>1, <1>2 DEF SqlOp, PlaceOK, OpsAt
  <2>3. PlaceOK(p)'
    BY <1>4, <2>1, <2>2 DEF PlaceOK, InTx, NoTx, OpsAt
  <2> QED
    BY <1>4, <2>1, <2>3 DEF SqlCallerOK, LockOK, SqliteOK, NoTx
<1>6. place \in Places
  BY DEF Places
<1>7. StatementOf(p)
  BY <1>1, <1>2, <1>3, <1>4 DEF StatementOf, SqlTypes
<1> HIDE DEF place
<1> QED
  BY <1>1, <1>5, <1>6, <1>7, GotoKeepsInv

LEMMA SessionExistsKeepsInv ==
  ASSUME SqlInv, NEW p \in Callers, SessionExists(p)
  PROVE  SqlInv'
<1> DEFINE place == IF session[C(p)] = NoRow THEN "stub" ELSE "lock"
           t == [NoTx EXCEPT !.open = TRUE, !.left = sqlCall[p].msgs]
<1>1. /\ sqlAt[p] = "begin" /\ SqlGoto(p, place)
      /\ tx' = [tx EXCEPT ![p] = t]
      /\ overtaken' = overtaken \ {p}
      /\ UNCHANGED <<convLock, rowLock, missed, collided>>
      /\ sqlAt' = [sqlAt EXCEPT ![p] = place]
      /\ UNCHANGED <<dialect, session, rows, sqlCall, sqlOutcome, sqlAnswer>>
  BY DEF SessionExists, SqlGoto, database
<1>2. SqlTypes /\ PlaceOK(p) /\ C(p) \in Convs /\ sqlCall[p].msgs \in Seq(Messages)
  BY AtStatement
<1>3. t \in Transactions
  BY <1>2, NoRowsNumbered DEF NoTx, Transactions, NoRows
<1>4. tx' = [tx EXCEPT ![p] = tx'[p]] /\ tx'[p] = t
  BY <1>1, <1>2 DEF SqlTypes
<1>5. SqlCallerOK(p)'
  <2>1. sqlAt'[p] = place /\ sqlOutcome'[p] = "pending" /\ sqlAnswer'[p] = <<>>
    BY <1>1, <1>2 DEF SqlTypes, PlaceOK
  <2>2. SqlOp(p)' = SqlOp(p) /\ SqlOp(p) \in {"save", "append"} /\ C(p)' = C(p)
    BY <1>1, <1>2 DEF SqlOp, C, PlaceOK, OpsAt
  <2>3. PlaceOK(p)'
    <3>1. place \in {"stub", "lock"} /\ t.open = TRUE /\ t.row = NoRow
          /\ t = [NoTx EXCEPT !.open = TRUE, !.row = t.row, !.left = sqlCall[p].msgs]
      BY DEF NoTx
    <3>2. SqlOp(p)' \in OpsAt(place)
      BY <2>2, <3>1 DEF OpsAt
    <3> HIDE DEF place, t
    <3> QED
      BY <1>1, <1>4, <2>1, <3>1, <3>2 DEF PlaceOK, InTx
  <2>4. LockOK(p)'
    BY <1>4, <2>1 DEF LockOK, NoTx
  <2>5. SqliteOK(p)'
    BY <1>1, <2>1, <2>2 DEF SqliteOK, SeesSession
  <2> QED
    BY <2>1, <2>3, <2>4, <2>5 DEF SqlCallerOK
<1>6. place \in Places
  BY DEF Places, InTx
<1> HIDE DEF place, t
<1>7. StatementOf(p)
  BY <1>1, <1>2, <1>3, <1>4 DEF StatementOf, SqlTypes
<1> QED
  BY <1>1, <1>5, <1>6, <1>7, GotoKeepsInv

LEMMA EnsureStubKeepsInv ==
  ASSUME SqlInv, NEW p \in Callers, EnsureStub(p)
  PROVE  SqlInv'
<1> DEFINE row == IF session[C(p)] = NoRow THEN StubRow ELSE NoRow
           t == [tx[p] EXCEPT !.row = row]
<1>1. /\ sqlAt[p] = "stub" /\ MayWrite(p) /\ SqlGoto(p, "lock")
      /\ rowLock' = IF Sqlite \/ session[C(p)] = NoRow THEN Locked(p) ELSE rowLock
      /\ UNCHANGED <<convLock, overtaken, missed, collided>>
      /\ sqlAt' = [sqlAt EXCEPT ![p] = "lock"]
      /\ UNCHANGED <<dialect, session, rows, sqlCall, sqlOutcome, sqlAnswer>>
  BY DEF EnsureStub, SqlGoto, database
<1>2. /\ SqlTypes /\ PlaceOK(p) /\ tx[p] \in Transactions /\ C(p) \in Convs
      /\ Resource(C(p)) \in DOMAIN rowLock
  BY AtStatement
<1>3. tx' = [tx EXCEPT ![p] = t]
  BY <1>2 DEF EnsureStub, SqlTypes, Transactions
<1>4. t \in Transactions
  BY <1>2 DEF Transactions
<1>5. tx' = [tx EXCEPT ![p] = tx'[p]] /\ tx'[p] = t
  BY <1>2, <1>3 DEF SqlTypes
<1>6. SqlCallerOK(p)'
  <2>1. sqlAt'[p] = "lock" /\ sqlOutcome'[p] = "pending" /\ sqlAnswer'[p] = <<>>
    BY <1>1, <1>2 DEF SqlTypes, PlaceOK
  <2>2. SqlOp(p)' = SqlOp(p) /\ SqlOp(p) \in {"save", "append"} /\ C(p)' = C(p)
    BY <1>1, <1>2 DEF SqlOp, C, PlaceOK, OpsAt
  <2>3. t = [NoTx EXCEPT !.open = TRUE, !.row = row, !.left = sqlCall[p].msgs] /\ t.row = row
    BY <1>1, <1>2 DEF PlaceOK, InTx, NoTx
  <2>4. PlaceOK(p)'
    BY <1>1, <1>5, <2>1, <2>2, <2>3 DEF PlaceOK, InTx, NoTx, OpsAt
  <2>5. LockOK(p)'
    <3>1. row # NoRow => session[C(p)] = NoRow
      OBVIOUS
    <3>2. row # NoRow => HasLock(p)'
      <4>1. Resource(C(p))' = Resource(C(p))
        BY <1>1, <2>2 DEF Resource, Sqlite
      <4> QED
        BY <1>1, <1>2, <4>1 DEF HasLock, Locked
    <3> QED
      BY <1>1, <1>5, <2>1, <2>2, <2>3, <3>1, <3>2 DEF LockOK
  <2>6. SqliteOK(p)'
    <3>1. row # NoRow \/ session[C(p)] # NoRow
      BY DEF StubRow, NoRow
    <3> QED
      BY <1>1, <1>5, <2>1, <2>2, <2>3, <3>1 DEF SqliteOK, SeesSession
  <2> QED
    BY <2>1, <2>4, <2>5, <2>6 DEF SqlCallerOK
<1>7. "lock" \in Places
  BY DEF Places, InTx
<1> HIDE DEF t
<1>8. StatementOf(p)
  BY <1>1, <1>2, <1>4, <1>5 DEF StatementOf, SqlTypes
<1> QED
  BY <1>1, <1>6, <1>7, <1>8, GotoKeepsInv

LEMMA LockSessionKeepsInv ==
  ASSUME SqlInv, NEW p \in Callers, LockSession(p)
  PROVE  SqlInv'
<1> DEFINE place == IF SqlOp(p) = "save" THEN "clear" ELSE "max"
<1>1. /\ sqlAt[p] = "lock" /\ MayWrite(p) /\ SqlGoto(p, place)
      /\ rowLock' = IF Sqlite \/ SeesSession(p) THEN Locked(p) ELSE rowLock
      /\ missed' = (missed \/ ~SeesSession(p))
      /\ UNCHANGED <<convLock, tx, overtaken, collided>>
      /\ sqlAt' = [sqlAt EXCEPT ![p] = place]
      /\ UNCHANGED <<dialect, session, rows, sqlCall, sqlOutcome, sqlAnswer>>
  BY DEF LockSession, SqlGoto, database
<1>2. /\ SqlTypes /\ PlaceOK(p) /\ LockOK(p) /\ SqliteOK(p) /\ tx[p] \in Transactions
      /\ C(p) \in Convs /\ Resource(C(p)) \in DOMAIN rowLock
  BY AtStatement
<1>3. tx' = [tx EXCEPT ![p] = tx'[p]] /\ tx'[p] = tx[p]
  BY <1>1, <1>2 DEF SqlTypes
<1>4. missed' \in BOOLEAN /\ (missed => missed')
  BY <1>1, <1>2 DEF SqlTypes, SeesSession
<1>5. Sqlite => SeesSession(p)
  BY <1>1, <1>2 DEF SqliteOK, MayWrite
<1>6. SqlCallerOK(p)'
  <2>1. sqlAt'[p] = place /\ sqlOutcome'[p] = "pending" /\ sqlAnswer'[p] = <<>>
    BY <1>1, <1>2 DEF SqlTypes, PlaceOK
  <2>2. SqlOp(p)' = SqlOp(p) /\ SqlOp(p) \in {"save", "append"} /\ C(p)' = C(p)
        /\ Resource(C(p))' = Resource(C(p))
    BY <1>1, <1>2 DEF SqlOp, C, PlaceOK, OpsAt, Resource, Sqlite
  <2>3. tx[p] = [NoTx EXCEPT !.open = TRUE, !.row = tx[p].row, !.left = sqlCall[p].msgs]
    BY <1>1, <1>2 DEF PlaceOK, InTx
  <2>4. PlaceOK(p)'
    <3>1. place \in {"clear", "max"} /\ SqlOp(p)' \in OpsAt(place)
      BY <2>2 DEF OpsAt
    <3>2. tx[p].open = TRUE
      BY <1>1, <1>2 DEF PlaceOK, InTx, Transactions
    <3> HIDE DEF place
    <3> QED
      BY <1>1, <1>3, <2>1, <2>3, <3>1, <3>2 DEF PlaceOK, InTx
  <2>5. LockOK(p)'
    <3>1. missed' \/ HasLock(p)'
      BY <1>1, <1>2, <2>2 DEF HasLock, Locked
    <3>2. HasLock(p) => HasLock(p)'
      BY <1>1, <1>2, <2>2 DEF HasLock, Locked
    <3> QED
      BY <1>1, <1>2, <1>3, <2>1, <2>2, <3>1, <3>2 DEF LockOK
  <2>6. SqliteOK(p)'
    BY <2>1 DEF SqliteOK
  <2> QED
    BY <2>1, <2>4, <2>5, <2>6 DEF SqlCallerOK
<1>7. place \in Places
  BY DEF Places, InTx
<1> HIDE DEF place
<1>8. StatementOf(p)
  BY <1>1, <1>2, <1>3, <1>4, <1>5 DEF StatementOf, SqlTypes
<1> QED
  BY <1>1, <1>6, <1>7, <1>8, GotoKeepsInv

(* A transaction that begins to insert: nothing inserted, all of its       *)
(* messages left.                                                          *)
LEMMA FirstInsert ==
  ASSUME SqlInv, NEW p \in Callers, sqlAt[p] \in {"clear", "max"},
         NEW gone, NEW base \in Nat, NEW t \in Transactions, tx' = [tx EXCEPT ![p] = t],
         t.open = tx[p].open, t.row = tx[p].row, t.gone = gone, t.new = tx[p].new,
         t.next = base, t.left = tx[p].left,
         SqlGoto(p, "insert"), UNCHANGED <<convLock, rowLock, overtaken, missed, collided>>,
         \/ missed
         \/ SqlOp(p) = "save" /\ base = 0 /\ gone = DOMAIN rows[C(p)]
         \/ /\ SqlOp(p) = "append" /\ gone = {}
            /\ \E first \in 0 .. base : DOMAIN rows[C(p)] = first .. (base - 1)
  PROVE  SqlInv'
<1>1. /\ sqlAt' = [sqlAt EXCEPT ![p] = "insert"]
      /\ UNCHANGED <<dialect, session, rows, sqlCall, sqlOutcome, sqlAnswer, rowLock, missed>>
  BY DEF SqlGoto, database
<1>2. /\ SqlTypes /\ PlaceOK(p) /\ LockOK(p) /\ tx[p] \in Transactions
      /\ C(p) \in Convs /\ sqlCall[p].msgs \in Seq(Messages)
  BY AtStatement
<1>3. tx[p] = [NoTx EXCEPT !.open = TRUE, !.row = tx[p].row, !.left = sqlCall[p].msgs]
      /\ tx[p].row \in {NoRow, StubRow}
  BY <1>2 DEF PlaceOK, InTx, Transactions
<1>4. /\ t.open = TRUE /\ t.row = tx[p].row /\ t.gone = gone /\ t.new = <<>> /\ t.next = base
      /\ t.left = sqlCall[p].msgs
  BY <1>3 DEF NoTx
<1>6. tx'[p] = t /\ tx' = [tx EXCEPT ![p] = tx'[p]]
  BY <1>2 DEF SqlTypes
<1>7. /\ sqlAt'[p] = "insert" /\ sqlOutcome'[p] = "pending" /\ sqlAnswer'[p] = <<>>
      /\ SqlOp(p)' = SqlOp(p) /\ SqlOp(p) \in {"save", "append"} /\ C(p)' = C(p)
  BY <1>1, <1>2 DEF SqlTypes, PlaceOK, SqlOp, C, OpsAt
<1>8. PlaceOK(p)'
  BY <1>4, <1>6, <1>7 DEF PlaceOK, InTx, OpsAt
<1>9. LockOK(p)' /\ SqliteOK(p)'
  <2>1. HasLock(p)' = HasLock(p)
    BY <1>1, <1>7 DEF HasLock, Resource, Sqlite
  <2> QED
    BY <1>1, <1>2, <1>4, <1>6, <1>7, <2>1 DEF LockOK, SqliteOK
<1>10. ASSUME ~missed PROVE Inserting(p)'
  <2>1. DOMAIN t.new = base .. (base - 1) /\ Len(t.left) = Len(sqlCall[p].msgs)
        /\ Len(t.left) \in Nat
    BY <1>2, <1>4, LenProperties
  <2>2. sqlCall'[p].msgs = sqlCall[p].msgs
    BY <1>1
  <2>3. InsertedFrom(base, t, sqlCall[p].msgs)
    <3>1. base + Len(sqlCall[p].msgs) - Len(t.left) = base
      BY <2>1
    <3>2. \A i \in base .. (base - 1) : t.new[i] = sqlCall[p].msgs[i - base + 1]
      OBVIOUS
    <3>3. \A i \in 1 .. Len(t.left) : Len(sqlCall[p].msgs) - Len(t.left) + i = i
      BY <2>1
    <3>4. \A i \in 1 .. Len(t.left) :
            t.left[i] = sqlCall[p].msgs[Len(sqlCall[p].msgs) - Len(t.left) + i]
      BY <1>4, <3>3
    <3>5. Len(t.left) <= Len(sqlCall[p].msgs)
      BY <2>1
    <3> QED
      BY <1>4, <2>1, <3>1, <3>2, <3>4, <3>5, Zenon DEF InsertedFrom
  <2> QED
    BY <1>1, <1>4, <1>6, <1>7, <1>10, <2>3 DEF Inserting
<1>11. SqlCallerOK(p)'
  BY <1>1, <1>8, <1>9, <1>10 DEF SqlCallerOK
<1>12. StatementOf(p)
  BY <1>1, <1>2, <1>6 DEF StatementOf, SqlTypes
<1>13. "insert" \in Places
  BY DEF Places, InTx
<1> QED
  BY <1>11, <1>12, <1>13, GotoKeepsInv

LEMMA ClearMessagesKeepsInv ==
  ASSUME SqlInv, NEW p \in Callers, ClearMessages(p)
  PROVE  SqlInv'
<1>1. SqlTypes /\ PlaceOK(p) /\ tx[p] \in Transactions /\ rows[C(p)] \in Numbered
  BY AtStatement
<1>2. DOMAIN rows[C(p)] \in SUBSET Nat
  BY <1>1, NumberedIs
<1> DEFINE t == [tx[p] EXCEPT !.gone = DOMAIN rows[C(p)], !.next = 0]
<1>3. tx' = [tx EXCEPT ![p] = t]
  BY <1>1 DEF ClearMessages, SqlTypes, Transactions
<1>4. sqlAt[p] = "clear" /\ SqlOp(p) = "save"
  BY <1>1 DEF ClearMessages, PlaceOK, OpsAt
<1>5. /\ t \in Transactions /\ t.open = tx[p].open /\ t.row = tx[p].row
      /\ t.gone = DOMAIN rows[C(p)] /\ t.new = tx[p].new /\ t.next = 0 /\ t.left = tx[p].left
  BY <1>1, <1>2 DEF Transactions
<1>6. SqlGoto(p, "insert") /\ UNCHANGED <<convLock, rowLock, overtaken, missed, collided>>
  BY DEF ClearMessages
<1>7. 0 \in Nat /\ sqlAt[p] \in {"clear", "max"}
  BY <1>4
<1> HIDE DEF t
<1> QED
  BY <1>3, <1>4, <1>5, <1>6, <1>7, FirstInsert

LEMMA MaxSeqKeepsInv ==
  ASSUME SqlInv, NEW p \in Callers, MaxSeq(p)
  PROVE  SqlInv'
<1> DEFINE seen == SeesRows(p)
           last == CHOOSE s \in seen : \A t \in seen : t <= s
           base == IF seen = {} THEN 0 ELSE 1 + last
<1>1. /\ SqlTypes /\ PlaceOK(p) /\ tx[p] \in Transactions /\ rows[C(p)] \in Numbered
      /\ C(p) \in Convs /\ sqlAt[p] = "max"
  BY AtStatement DEF MaxSeq
<1>2. SqlOp(p) = "append" /\ tx[p].gone = {} /\ tx[p].new = <<>>
  BY <1>1 DEF PlaceOK, OpsAt, InTx, NoTx
<1>3. seen = DOMAIN rows[C(p)]
  BY <1>2 DEF SeesRows
<1>4. seen # {} => last \in seen /\ \A t \in seen : t <= last
  <2>1. seen \in SUBSET Nat /\ Below(seen)
    BY <1>1, <1>3, NumberedIs
  <2> HIDE DEF seen
  <2> QED
    BY <2>1, GreatestNatural
<1>5. seen \in SUBSET Nat /\ base \in Nat
  BY <1>1, <1>3, <1>4, NumberedIs
<1> DEFINE t == [tx[p] EXCEPT !.next = base]
<1>6. /\ tx' = [tx EXCEPT ![p] = t]
      /\ t \in Transactions /\ t.open = tx[p].open /\ t.row = tx[p].row
      /\ t.gone = {} /\ t.new = tx[p].new /\ t.next = base /\ t.left = tx[p].left
  <2>1. tx' = [tx EXCEPT ![p] = t]
    BY <1>1 DEF MaxSeq, SqlTypes, Transactions
  <2> HIDE DEF base
  <2> QED
    BY <1>1, <1>2, <1>5, <2>1 DEF Transactions
<1>7. missed \/ \E first \in 0 .. base : DOMAIN rows[C(p)] = first .. (base - 1)
  <2> SUFFICES ASSUME ~missed PROVE \E first \in 0 .. base : seen = first .. (base - 1)
    BY <1>3
  <2>1. PICK first, end \in Nat : first <= end /\ seen = first .. (end - 1)
    BY <1>1, <1>3 DEF SqlInv, GaplessUnlessMissed, Gapless
  <2>2. CASE seen = {}
    <3>1. 0 \in 0 .. base /\ seen = 0 .. (base - 1)
      BY <2>2
    <3> QED
      BY <3>1
  <2>3. CASE seen # {}
    <3>1. end - 1 \in seen
      BY <2>1, <2>3
    <3>2. base = end
      <4>1. base = 1 + last
        BY <2>3
      <4> HIDE DEF seen, last, base
      <4>2. last \in Nat /\ last <= end - 1 /\ end - 1 <= last
        BY <1>4, <1>5, <2>1, <2>3, <3>1
      <4> QED
        BY <2>1, <4>1, <4>2
    <3> HIDE DEF base, seen
    <3>3. first \in 0 .. base /\ seen = first .. (base - 1)
      BY <2>1, <3>2
    <3> QED
      BY <3>3
  <2> QED
    BY <2>2, <2>3
<1>8. SqlGoto(p, "insert") /\ UNCHANGED <<convLock, rowLock, overtaken, missed, collided>>
  BY DEF MaxSeq
<1>9. sqlAt[p] \in {"clear", "max"}
  BY <1>1
<1> HIDE DEF base, seen, t
<1> QED
  BY <1>2, <1>5, <1>6, <1>7, <1>8, <1>9, FirstInsert

(* One INSERT moves the next rows from left to new.                        *)
Inserted(t, n) ==
  LET seqs == t.next .. (t.next + n - 1)
  IN  [t EXCEPT !.new = [s \in DOMAIN t.new \cup seqs |->
                           IF s \in seqs THEN t.left[s - t.next + 1] ELSE t.new[s]],
                !.next = t.next + n,
                !.left = SubSeq(t.left, n + 1, Len(t.left))]

LEMMA ChunkOf ==
  ASSUME SqlTypes, NEW p \in Callers, tx[p].left # <<>>
  PROVE  ChunkLen(p) \in 1 .. Len(tx[p].left) /\ Len(tx[p].left) \in Nat
<1>1. tx[p].left \in Seq(Messages)
  BY DEF SqlTypes, Transactions
<1>2. Len(tx[p].left) \in Nat \ {0}
  BY <1>1, EmptySeq
<1> QED
  BY <1>2, SqlAssumption DEF ChunkLen

LEMMA InsertedType ==
  ASSUME NEW t \in Transactions, NEW n \in 1 .. Len(t.left)
  PROVE  /\ Inserted(t, n) \in Transactions
         /\ Inserted(t, n).open = t.open /\ Inserted(t, n).row = t.row
         /\ Inserted(t, n).gone = t.gone /\ Inserted(t, n).next = t.next + n
         /\ Len(Inserted(t, n).left) = Len(t.left) - n
         /\ \A i \in 1 .. (Len(t.left) - n) : Inserted(t, n).left[i] = t.left[n + i]
         /\ DOMAIN Inserted(t, n).new = DOMAIN t.new \cup t.next .. (t.next + n - 1)
         /\ \A s \in t.next .. (t.next + n - 1) : Inserted(t, n).new[s] = t.left[s - t.next + 1]
         /\ \A s \in DOMAIN t.new \ t.next .. (t.next + n - 1) :
              Inserted(t, n).new[s] = t.new[s]
<1> DEFINE seqs == t.next .. (t.next + n - 1)
           new == [s \in DOMAIN t.new \cup seqs |->
                     IF s \in seqs THEN t.left[s - t.next + 1] ELSE t.new[s]]
           left == SubSeq(t.left, n + 1, Len(t.left))
<1>1. /\ t.open \in BOOLEAN /\ t.row \in {NoRow, StubRow} /\ t.gone \in SUBSET Nat
      /\ t.new \in Numbered /\ t.next \in Nat /\ t.left \in Seq(Messages)
  BY DEF Transactions
<1>2. Len(t.left) \in Nat /\ \A i \in 1 .. Len(t.left) : t.left[i] \in Messages
  BY <1>1, LenProperties, ElementOfSeq
<1>3. new \in Numbered
  <2>1. DOMAIN t.new \in SUBSET Nat /\ t.new \in [DOMAIN t.new -> Messages]
    BY <1>1, NumberedIs
  <2>2. PICK b \in Nat : \A i \in DOMAIN t.new : i < b
    BY <1>1, NumberedIs DEF Below
  <2>3. DOMAIN t.new \cup seqs \in SUBSET Nat
    BY <1>1, <1>2, <2>1
  <2>4. \A i \in DOMAIN t.new \cup seqs : i < b + t.next + n
    BY <1>1, <1>2, <2>1, <2>2
  <2>5. Below(DOMAIN t.new \cup seqs)
    BY <1>1, <1>2, <2>4 DEF Below
  <2>6. new \in [DOMAIN t.new \cup seqs -> Messages]
    <3>1. \A s \in seqs : s - t.next + 1 \in 1 .. Len(t.left)
      BY <1>1, <1>2
    <3> QED
      BY <1>2, <2>1, <3>1
  <2> QED
    BY <2>3, <2>5, <2>6, NumberedIf
<1>4. /\ left \in Seq(Messages) /\ Len(left) = Len(t.left) - n
      /\ \A i \in 1 .. (Len(t.left) - n) : left[i] = t.left[n + i]
  <2>1. n + 1 \in Int /\ Len(t.left) \in Int /\ \A i \in n + 1 .. Len(t.left) : t.left[i] \in Messages
    BY <1>2
  <2>2. /\ left \in Seq(Messages)
        /\ Len(left) = IF n + 1 <= Len(t.left) THEN Len(t.left) - (n + 1) + 1 ELSE 0
        /\ \A i \in 1 .. (Len(t.left) - (n + 1) + 1) : left[i] = t.left[n + 1 + i - 1]
    BY <2>1, SubSeqProperties
  <2> HIDE DEF left
  <2> QED
    BY <1>2, <2>2
<1>5. Inserted(t, n) = [t EXCEPT !.new = new, !.next = t.next + n, !.left = left]
  BY DEF Inserted
<1>6. /\ DOMAIN new = DOMAIN t.new \cup seqs
      /\ \A s \in seqs : new[s] = t.left[s - t.next + 1]
      /\ \A s \in DOMAIN t.new \ seqs : new[s] = t.new[s]
  OBVIOUS
<1> HIDE DEF new, left
<1>7. /\ Inserted(t, n).open = t.open /\ Inserted(t, n).row = t.row
      /\ Inserted(t, n).gone = t.gone /\ Inserted(t, n).next = t.next + n
      /\ Inserted(t, n).left = left /\ Inserted(t, n).new = new
  BY <1>5 DEF Transactions
<1>8. Inserted(t, n) \in Transactions
  <2>1. t.next + n \in Nat
    BY <1>1, <1>2
  <2> DEFINE m == t.next + n
  <2> HIDE DEF m
  <2>2. Inserted(t, n) = [t EXCEPT !.new = new, !.next = m, !.left = left] /\ m \in Nat
    BY <1>5, <2>1 DEF m
  <2>3. [t EXCEPT !.new = new, !.next = m, !.left = left] \in Transactions
    BY <1>3, <1>4, <2>2 DEF Transactions
  <2> QED
    BY <2>2, <2>3
<1> QED
  BY <1>4, <1>6, <1>7, <1>8

LEMMA InsertedKeeps ==
  ASSUME NEW t \in Transactions, NEW n \in 1 .. Len(t.left), NEW base \in Nat,
         NEW msgs, Len(msgs) \in Nat, InsertedFrom(base, t, msgs)
  PROVE  InsertedFrom(base, Inserted(t, n), msgs)
<1> DEFINE u == Inserted(t, n)
           k == Len(msgs)
           l == Len(t.left)
<1>1. /\ u.next = t.next + n /\ Len(u.left) = l - n
      /\ \A i \in 1 .. (l - n) : u.left[i] = t.left[n + i]
      /\ DOMAIN u.new = DOMAIN t.new \cup t.next .. (t.next + n - 1)
      /\ \A s \in t.next .. (t.next + n - 1) : u.new[s] = t.left[s - t.next + 1]
      /\ \A s \in DOMAIN t.new \ t.next .. (t.next + n - 1) : u.new[s] = t.new[s]
  BY InsertedType
<1>2. l \in Nat /\ t.next \in Nat
  BY LenProperties DEF Transactions
<1>3. /\ l <= k /\ t.next = base + k - l /\ DOMAIN t.new = base .. (t.next - 1)
      /\ \A i \in base .. (t.next - 1) : t.new[i] = msgs[i - base + 1]
      /\ \A i \in 1 .. l : t.left[i] = msgs[k - l + i]
  BY DEF InsertedFrom
<1> HIDE DEF u, k, l
<1>4. n \in 1 .. l /\ k \in Nat
  BY DEF k, l
<1>5. l - n <= k /\ t.next + n = base + k - (l - n) /\ base <= t.next
  BY <1>2, <1>3, <1>4
<1>6. base .. (t.next - 1) \cup t.next .. (t.next + n - 1) = base .. (t.next + n - 1)
  BY <1>2, <1>4, <1>5
<1>7. ASSUME NEW i \in base .. (t.next + n - 1) PROVE u.new[i] = msgs[i - base + 1]
  <2>1. CASE i < t.next
    <3>1. i \in base .. (t.next - 1) /\ i \notin t.next .. (t.next + n - 1)
      BY <1>2, <2>1
    <3> QED
      BY <1>1, <1>3, <3>1
  <2>2. CASE i >= t.next
    <3>1. i \in t.next .. (t.next + n - 1) /\ i - t.next + 1 \in 1 .. l
          /\ k - l + (i - t.next + 1) = i - base + 1
      BY <1>2, <1>3, <1>4, <2>2
    <3>2. u.new[i] = t.left[i - t.next + 1]
      BY <1>1, <3>1
    <3>3. t.left[i - t.next + 1] = msgs[k - l + (i - t.next + 1)]
      BY <1>3, <3>1
    <3> QED
      BY <3>1, <3>2, <3>3
  <2>3. i < t.next \/ i >= t.next
    BY <1>2
  <2> QED
    BY <2>1, <2>2, <2>3
<1>8. ASSUME NEW i \in 1 .. (l - n) PROVE u.left[i] = msgs[k - (l - n) + i]
  <2>1. n + i \in 1 .. l /\ k - l + (n + i) = k - (l - n) + i
    BY <1>2, <1>4
  <2> QED
    BY <1>1, <1>3, <2>1
<1>9. u.next - 1 = t.next + n - 1
  <2>1. u.next = t.next + n
    BY <1>1
  <2> QED
    BY <1>2, <1>4, <2>1
<1>10. DOMAIN u.new = base .. (u.next - 1)
  <2>1. DOMAIN u.new = base .. (t.next - 1) \cup t.next .. (t.next + n - 1)
    BY <1>1, <1>3, Zenon
  <2> QED
    BY <1>6, <1>9, <2>1, Zenon
<1>11. Len(u.left) <= k /\ u.next = base + k - Len(u.left)
  BY <1>1, <1>5
<1>12. \A i \in base .. (u.next - 1) : u.new[i] = msgs[i - base + 1]
  BY <1>7, <1>9, Zenon
<1>13. \A i \in 1 .. Len(u.left) : u.left[i] = msgs[k - Len(u.left) + i]
  BY <1>1, <1>8
<1>14. InsertedFrom(base, u, msgs)
  BY <1>10, <1>11, <1>12, <1>13, Zenon DEF InsertedFrom, k
<1> QED
  BY <1>14 DEF u

LEMMA InsertChunkKeepsInv ==
  ASSUME SqlInv, NEW p \in Callers, InsertChunk(p)
  PROVE  SqlInv'
<1> DEFINE t == Inserted(tx[p], ChunkLen(p))
<1>1. /\ sqlAt[p] = "insert" /\ tx[p].left # <<>> /\ SqlGoto(p, "insert")
      /\ UNCHANGED <<convLock, rowLock, overtaken, missed, collided>>
      /\ sqlAt' = [sqlAt EXCEPT ![p] = "insert"]
      /\ UNCHANGED <<dialect, session, rows, sqlCall, sqlOutcome, sqlAnswer>>
  BY DEF InsertChunk, SqlGoto, database
<1>2. /\ SqlTypes /\ PlaceOK(p) /\ LockOK(p) /\ tx[p] \in Transactions
      /\ C(p) \in Convs /\ sqlCall[p].msgs \in Seq(Messages)
      /\ missed \/ Inserting(p)
  BY <1>1, AtStatement DEF SqlInv, SqlCallerOK
<1>3. tx' = [tx EXCEPT ![p] = t]
  BY <1>2 DEF InsertChunk, Inserted, ChunkSeqs, SqlTypes, Transactions
<1>4. ChunkLen(p) \in 1 .. Len(tx[p].left)
  BY <1>1, <1>2, ChunkOf
<1>5. t \in Transactions /\ t.open = tx[p].open /\ t.row = tx[p].row /\ t.gone = tx[p].gone
  BY <1>2, <1>4, InsertedType
<1>6. missed \/ \E base \in Nat :
        /\ InsertedFrom(base, t, sqlCall[p].msgs)
        /\ SqlOp(p) = "save" => base = 0 /\ tx[p].gone = DOMAIN rows[C(p)]
        /\ SqlOp(p) = "append" =>
             tx[p].gone = {} /\ \E first \in 0 .. base : DOMAIN rows[C(p)] = first .. (base - 1)
  <2>1. Len(sqlCall[p].msgs) \in Nat
    BY <1>2, LenProperties
  <2> QED
    BY <1>2, <1>4, <2>1, InsertedKeeps DEF Inserting
<1> HIDE DEF t
<1>7. tx'[p] = t /\ tx' = [tx EXCEPT ![p] = tx'[p]]
  BY <1>2, <1>3 DEF SqlTypes
<1>8. /\ sqlAt'[p] = "insert" /\ sqlOutcome'[p] = "pending" /\ sqlAnswer'[p] = <<>>
      /\ SqlOp(p)' = SqlOp(p) /\ SqlOp(p) \in {"save", "append"} /\ C(p)' = C(p)
      /\ tx[p].open = TRUE
  BY <1>1, <1>2 DEF SqlTypes, PlaceOK, SqlOp, C, OpsAt, InTx, Transactions
<1>9. PlaceOK(p)'
  BY <1>5, <1>7, <1>8 DEF PlaceOK, InTx, OpsAt
<1>10. LockOK(p)' /\ SqliteOK(p)'
  <2>1. HasLock(p)' = HasLock(p)
    BY <1>1, <1>8 DEF HasLock, Resource, Sqlite
  <2> QED
    BY <1>1, <1>2, <1>5, <1>7, <1>8, <2>1 DEF LockOK, SqliteOK
<1>11. missed' \/ Inserting(p)'
  BY <1>1, <1>5, <1>6, <1>7, <1>8 DEF Inserting
<1>12. SqlCallerOK(p)'
  BY <1>9, <1>10, <1>11 DEF SqlCallerOK
<1>13. StatementOf(p)
  BY <1>1, <1>2, <1>5, <1>7 DEF StatementOf, SqlTypes
<1>14. "insert" \in Places
  BY DEF Places, InTx
<1> QED
  BY <1>1, <1>12, <1>13, <1>14, GotoKeepsInv

(* A return that leaves the database as it is.                             *)
LEMMA PlainReturnKeepsInv ==
  ASSUME SqlInv, NEW p \in Callers, NEW result \in {"ok", "failed"}, NEW found,
         SqlReturn(p, result, found), UNCHANGED database,
         overtaken' = overtaken \/ overtaken' = overtaken \ {p},
         missed' = missed, collided' \in BOOLEAN, collided' => missed
  PROVE  SqlInv'
<1>1. session' = session /\ rows' = rows
  BY DEF database
<1>2. SqlTypes /\ GaplessUnlessMissed
  BY DEF SqlInv
<1>3. /\ session' \in [Convs -> SessionRows] /\ rows' \in [Convs -> Numbered]
      /\ overtaken' \in SUBSET Callers
  BY <1>1, <1>2 DEF SqlTypes
<1>4. missed \/ \A c \in Convs : Gapless(DOMAIN rows'[c])
  BY <1>1, <1>2 DEF GaplessUnlessMissed
<1>5. \A q \in Callers \ {p} : RowKept(q) /\ RowsKept(q)
  BY <1>1 DEF RowKept, RowsKept
<1>6. Sqlite => overtaken \ {p} \subseteq overtaken'
  OBVIOUS
<1> QED
  BY <1>3, <1>4, <1>5, <1>6, ReturnKeepsInv

LEMMA SelectMessagesKeepsInv ==
  ASSUME SqlInv, NEW p \in Callers, SelectMessages(p)
  PROVE  SqlInv'
<1>1. collided \in BOOLEAN /\ (collided => missed)
  BY DEF SqlInv, SqlTypes, AppendsNeverCollide
<1>2. /\ SqlReturn(p, "ok", InSeqOrder(rows[C(p)])) /\ UNCHANGED database
      /\ overtaken' = overtaken /\ missed' = missed /\ collided' = collided
  BY DEF SelectMessages
<1> QED
  BY <1>1, <1>2, PlainReturnKeepsInv

LEMMA SqlFailsKeepsInv ==
  ASSUME SqlInv, NEW p \in Callers, SqlFails(p)
  PROVE  SqlInv'
<1>1. collided \in BOOLEAN /\ (collided => missed)
  BY DEF SqlInv, SqlTypes, AppendsNeverCollide
<1>2. /\ SqlReturn(p, "failed", <<>>) /\ UNCHANGED database
      /\ overtaken' = overtaken \ {p} /\ missed' = missed /\ collided' = collided
  BY DEF SqlFails
<1> QED
  BY <1>1, <1>2, PlainReturnKeepsInv

(* The numbers of the next rows are beyond all that the transaction sees.  *)
LEMMA SeenBelowNext ==
  ASSUME SqlInv, NEW p \in Callers, sqlAt[p] = "insert", ~missed
  PROVE  \A s \in SeesRows(p) : s \in Nat /\ s < tx[p].next
<1>1. /\ SqlTypes /\ PlaceOK(p) /\ tx[p] \in Transactions /\ Inserting(p)
      /\ SqlOp(p) \in {"save", "append"} /\ sqlCall[p].msgs \in Seq(Messages)
  BY AtStatement DEF SqlInv, SqlCallerOK, PlaceOK, OpsAt
<1>2. PICK base \in Nat :
        /\ InsertedFrom(base, tx[p], sqlCall[p].msgs)
        /\ SqlOp(p) = "save" => base = 0 /\ tx[p].gone = DOMAIN rows[C(p)]
        /\ SqlOp(p) = "append" =>
             tx[p].gone = {} /\ \E first \in 0 .. base : DOMAIN rows[C(p)] = first .. (base - 1)
  BY <1>1 DEF Inserting
<1>3. tx[p].next \in Nat /\ base <= tx[p].next /\ DOMAIN tx[p].new = base .. (tx[p].next - 1)
  <2>1. Len(sqlCall[p].msgs) \in Nat /\ Len(tx[p].left) \in Nat /\ tx[p].next \in Nat
    BY <1>1, LenProperties DEF Transactions
  <2>2. /\ Len(tx[p].left) <= Len(sqlCall[p].msgs)
        /\ tx[p].next = base + Len(sqlCall[p].msgs) - Len(tx[p].left)
        /\ DOMAIN tx[p].new = base .. (tx[p].next - 1)
    BY <1>2 DEF InsertedFrom
  <2>3. base <= tx[p].next
    <3> DEFINE all == Len(sqlCall[p].msgs)
               left == Len(tx[p].left)
               next == tx[p].next
    <3>1. all \in Nat /\ left \in Nat /\ left <= all /\ next = base + all - left
      BY <2>1, <2>2
    <3> HIDE DEF all, left, next
    <3>2. base <= next
      BY <3>1
    <3> QED
      BY <3>2 DEF next
  <2> QED
    BY <2>1, <2>2, <2>3
<1>4. \A s \in DOMAIN tx[p].new : s \in Nat /\ s < tx[p].next
  BY <1>3
<1>5. \A s \in DOMAIN rows[C(p)] \ tx[p].gone : s \in Nat /\ s < tx[p].next
  BY <1>1, <1>2, <1>3
<1> QED
  BY <1>4, <1>5 DEF SeesRows

LEMMA InsertCollidesKeepsInv ==
  ASSUME SqlInv, NEW p \in Callers, InsertCollides(p)
  PROVE  SqlInv'
<1>1. /\ SqlReturn(p, "failed", <<>>) /\ UNCHANGED database /\ sqlAt[p] = "insert"
      /\ overtaken' = overtaken \ {p} /\ missed' = missed /\ collided' = TRUE
      /\ ChunkSeqs(p) \cap SeesRows(p) # {} /\ tx[p].left # <<>>
  BY DEF InsertCollides
<1>2. missed
  <2> SUFFICES ASSUME ~missed PROVE FALSE
    OBVIOUS
  <2>1. PICK s \in SeesRows(p) : s \in ChunkSeqs(p)
    BY <1>1
  <2>2. s \in Nat /\ s < tx[p].next
    BY <1>1, SeenBelowNext
  <2>3. SqlTypes /\ tx[p].next \in Nat
    BY DEF SqlInv, SqlTypes, Transactions
  <2>4. ChunkLen(p) \in Int
    BY <1>1, <2>3, ChunkOf
  <2> QED
    BY <2>1, <2>2, <2>3, <2>4 DEF ChunkSeqs
<1> QED
  BY <1>1, <1>2, PlainReturnKeepsInv

(* A statement or a commit that changes one conversation c, under the lock *)
(* it needs; in sqlite it overtakes every other transaction.               *)
LEMMA ChangeKeepsInv ==
  ASSUME SqlInv, NEW p \in Callers, NEW result \in {"ok", "failed"},
         SqlReturn(p, result, <<>>), UNCHANGED <<missed, collided>>,
         overtaken' = OvertakenBy(p),
         NEW row \in SessionRows, session' = [session EXCEPT ![C(p)] = row],
         NEW f \in Numbered, rows' = [rows EXCEPT ![C(p)] = f],
         missed \/ Gapless(DOMAIN f),
         row # session[C(p)] => \A q \in Callers \ {p} : rowLock[Resource(C(p))] # q,
         \/ f = rows[C(p)] \/ missed
         \/ \A q \in Callers \ {p} : rowLock[Resource(C(p))] # q
         \/ DOMAIN f = {} /\ RowsFree(p, DOMAIN rows[C(p)])
  PROVE  SqlInv'
<1>1. /\ SqlTypes /\ GaplessUnlessMissed /\ AppendsNeverCollide /\ C(p) \in Convs
  BY AtStatement DEF SqlInv
<1>2. session' \in [Convs -> SessionRows] /\ rows' \in [Convs -> Numbered]
  BY <1>1 DEF SqlTypes
<1>3. overtaken' \in SUBSET Callers /\ (Sqlite => overtaken \ {p} \subseteq overtaken')
  BY <1>1 DEF SqlTypes, OvertakenBy
<1>4. missed \/ \A c \in Convs : Gapless(DOMAIN rows'[c])
  BY <1>1 DEF GaplessUnlessMissed, SqlTypes
<1>5. ASSUME NEW q \in Callers \ {p} PROVE RowKept(q) /\ RowsKept(q)
  <2>1. C(q) \in Convs
    BY AtStatement
  <2>2. RowKept(q)
    <3> SUFFICES ASSUME session'[C(q)] # session[C(q)]
                 PROVE  ~HasLock(q) /\ (Sqlite /\ tx[q].open => q \in overtaken')
      BY DEF RowKept
    <3>1. C(q) = C(p) /\ row # session[C(p)]
      BY <1>1, <2>1 DEF SqlTypes
    <3> QED
      BY <3>1 DEF HasLock, OvertakenBy
  <2>3. RowsKept(q)
    <3>1. CASE C(q) # C(p)
      BY <1>1, <2>1, <3>1 DEF RowsKept, SqlTypes
    <3>2. CASE C(q) = C(p)
      <4>1. rows'[C(q)] = f
        BY <1>1, <3>2 DEF SqlTypes
      <4>2. CASE DOMAIN f = {} /\ RowsFree(p, DOMAIN rows[C(p)])
        <5>1. tx[q] \in Others(p)
          BY <3>2 DEF Others
        <5> QED
          BY <3>2, <4>1, <4>2, <5>1 DEF RowsFree, RowsKept
      <4> QED
        BY <3>2, <4>1, <4>2 DEF RowsKept, HasLock
    <3> QED
      BY <3>1, <3>2
  <2> QED
    BY <2>2, <2>3
<1>6. missed' = missed /\ collided' \in BOOLEAN /\ (collided' => missed)
  BY <1>1 DEF AppendsNeverCollide, SqlTypes
<1> QED
  BY <1>2, <1>3, <1>4, <1>5, <1>6, ReturnKeepsInv

(* What a commit makes of the rows of its conversation.                    *)
Merged(t, old) ==
  [s \in (DOMAIN old \ t.gone) \cup DOMAIN t.new |-> IF s \in DOMAIN t.new THEN t.new[s] ELSE old[s]]

LEMMA MergedType ==
  ASSUME NEW t \in Transactions, NEW old \in Numbered
  PROVE  Merged(t, old) \in Numbered
<1> DEFINE S == (DOMAIN old \ t.gone) \cup DOMAIN t.new
<1>1. t.new \in Numbered
  BY DEF Transactions
<1>2. PICK a \in Nat : \A i \in DOMAIN old : i < a
  BY NumberedIs DEF Below
<1>3. PICK b \in Nat : \A i \in DOMAIN t.new : i < b
  BY <1>1, NumberedIs DEF Below
<1>4. DOMAIN old \in SUBSET Nat /\ old \in [DOMAIN old -> Messages]
  BY NumberedIs
<1>5. DOMAIN t.new \in SUBSET Nat /\ t.new \in [DOMAIN t.new -> Messages]
  BY <1>1, NumberedIs
<1>6. S \in SUBSET Nat
  BY <1>4, <1>5
<1>7. \A i \in S : i < a + b
  BY <1>2, <1>3, <1>4, <1>5
<1>8. Below(S)
  BY <1>7 DEF Below
<1>9. Merged(t, old) \in [S -> Messages]
  BY <1>4, <1>5 DEF Merged
<1> QED
  BY <1>6, <1>8, <1>9, NumberedIf

(* A transaction that is about to commit turns the rows of its             *)
(* conversation, read in order, into what its operation makes of them.     *)
LEMMA CommitMakes ==
  ASSUME SqlInv, NEW p \in Callers, sqlAt[p] = "insert", tx[p].left = <<>>, ~missed
  PROVE  /\ Gapless(DOMAIN Merged(tx[p], rows[C(p)]))
         /\ InSeqOrder(Merged(tx[p], rows[C(p)])) = After(sqlCall[p], InSeqOrder(rows[C(p)]))
<1> DEFINE t == tx[p]
           old == rows[C(p)]
           f == Merged(t, old)
           msgs == sqlCall[p].msgs
           k == Len(msgs)
<1>1. /\ Inserting(p) /\ t \in Transactions /\ old \in Numbered
      /\ SqlOp(p) \in {"save", "append"} /\ msgs \in Seq(Messages)
  BY AtStatement DEF SqlInv, SqlCallerOK, PlaceOK, OpsAt
<1>2. PICK base \in Nat :
        /\ InsertedFrom(base, t, msgs)
        /\ SqlOp(p) = "save" => base = 0 /\ t.gone = DOMAIN old
        /\ SqlOp(p) = "append" =>
             t.gone = {} /\ \E first \in 0 .. base : DOMAIN old = first .. (base - 1)
  BY <1>1 DEF Inserting
<1>3. k \in Nat /\ Len(t.left) = 0 /\ msgs = [i \in 1 .. k |-> msgs[i]]
  BY <1>1, LenProperties
<1> HIDE DEF k
<1>4. /\ t.next = base + k /\ DOMAIN t.new = base .. (base + k - 1)
      /\ \A i \in base .. (base + k - 1) : t.new[i] = msgs[i - base + 1]
  <2>1. t.next = base + k - 0
    <3>1. t.next = base + Len(msgs) - Len(t.left)
      BY <1>2 DEF InsertedFrom
    <3> QED
      BY <1>3, <3>1 DEF k
  <2>2. t.next = base + k /\ t.next - 1 = base + k - 1
    BY <1>3, <2>1
  <2> QED
    BY <1>2, <2>2, Zenon DEF InsertedFrom
<1>5. DOMAIN f = (DOMAIN old \ t.gone) \cup DOMAIN t.new
  BY DEF Merged
<1>6. \A s \in DOMAIN f : f[s] = IF s \in DOMAIN t.new THEN t.new[s] ELSE old[s]
  BY DEF Merged
<1> HIDE DEF f, t, old, msgs
<1>7. CASE SqlOp(p) = "save"
  <2>1. DOMAIN f = 0 .. (k - 1)
    <3>1. base = 0 /\ DOMAIN f = DOMAIN t.new
      BY <1>2, <1>5, <1>7
    <3>2. base + k - 1 = k - 1
      BY <1>3, <3>1
    <3> QED
      BY <1>4, <3>1, <3>2
  <2>2. InSeqOrder(f) = [i \in 1 .. (k - 0) |-> f[0 + i - 1]]
    <3>1. 0 \in Nat /\ k \in Nat /\ 0 <= k
      BY <1>3
    <3> QED
      BY <2>1, <3>1, OrderOfGapless
  <2>3. \A i \in 1 .. k : f[0 + i - 1] = msgs[i]
    <3> SUFFICES ASSUME NEW i \in 1 .. k PROVE f[0 + i - 1] = msgs[i]
      OBVIOUS
    <3>1. 0 + i - 1 = i - 1 /\ i - 1 \in base .. (base + k - 1) /\ i - 1 - base + 1 = i
      BY <1>2, <1>3, <1>7
    <3> QED
      BY <1>4, <1>5, <1>6, <3>1
  <2>4. InSeqOrder(f) = msgs
    <3>1. k - 0 = k
      BY <1>3
    <3> QED
      BY <1>3, <2>2, <2>3, <3>1
  <2>5. After(sqlCall[p], InSeqOrder(old)) = msgs
    BY <1>7 DEF After, SqlOp, msgs
  <2>6. Gapless(DOMAIN f)
    BY <1>3, <2>1, SMTT(30) DEF Gapless
  <2> QED
    BY <2>4, <2>5, <2>6 DEF f, t, old
<1>8. CASE SqlOp(p) = "append"
  <2>1. PICK first \in 0 .. base : DOMAIN old = first .. (base - 1)
    BY <1>2, <1>8
  <2> DEFINE stored == InSeqOrder(old)
             end == base + k
  <2>2. first \in Nat /\ first <= base /\ end \in Nat /\ first <= end
    BY <1>3, <2>1
  <2>3. stored = [i \in 1 .. (base - first) |-> old[first + i - 1]]
    BY <2>1, <2>2, OrderOfGapless
  <2>4. stored \in Seq(Messages) /\ Len(stored) = base - first
    <3>1. \A i \in 1 .. (base - first) : first + i - 1 \in DOMAIN old
      BY <2>1, <2>2
    <3>2. stored \in [1 .. (base - first) -> Messages]
      BY <1>1, <2>3, <3>1, NumberedIs DEF old
    <3>3. base - first \in Nat
      BY <2>2
    <3> QED
      BY <3>2, <3>3
  <2>5. DOMAIN f = first .. (end - 1)
    <3>1. DOMAIN f = first .. (base - 1) \cup base .. (base + k - 1)
      BY <1>2, <1>4, <1>5, <1>8, <2>1
    <3> QED
      BY <1>3, <2>2, <3>1
  <2>6. InSeqOrder(f) = [i \in 1 .. (end - first) |-> f[first + i - 1]]
    BY <2>2, <2>5, OrderOfGapless
  <2> HIDE DEF stored
  <2>7. /\ stored \o msgs \in Seq(Messages) /\ Len(stored \o msgs) = end - first
        /\ \A i \in 1 .. (end - first) : (stored \o msgs)[i] =
             IF i <= base - first THEN stored[i] ELSE msgs[i - (base - first)]
    <3>1. base - first + k = end - first
      BY <1>3, <2>2
    <3>2. /\ stored \o msgs \in Seq(Messages) /\ Len(stored \o msgs) = Len(stored) + k
          /\ \A i \in 1 .. Len(stored) + k : (stored \o msgs)[i] =
               IF i <= Len(stored) THEN stored[i] ELSE msgs[i - Len(stored)]
      <4> HIDE DEF end
      <4> QED
        BY <1>1, <2>4, ConcatProperties, Zenon DEF k
    <3>3. Len(stored) + k = end - first
      BY <2>4, <3>1
    <3> QED
      BY <2>4, <3>2, <3>3, Zenon
  <2>8. \A i \in 1 .. (end - first) : f[first + i - 1] = (stored \o msgs)[i]
    <3> SUFFICES ASSUME NEW i \in 1 .. (end - first) PROVE f[first + i - 1] = (stored \o msgs)[i]
      OBVIOUS
    <3>1. CASE i <= base - first
      <4>1. first + i - 1 \in first .. (base - 1) /\ first + i - 1 \notin base .. (base + k - 1)
            /\ i \in 1 .. (base - first) /\ first + i - 1 \in first .. (end - 1)
        BY <1>3, <2>2, <3>1
      <4>2. f[first + i - 1] = old[first + i - 1]
        BY <1>4, <1>6, <2>5, <4>1
      <4> QED
        BY <2>3, <2>7, <3>1, <4>1, <4>2
    <3>2. CASE i > base - first
      <4>1. first + i - 1 \in base .. (base + k - 1) /\ ~(i <= base - first)
            /\ first + i - 1 - base + 1 = i - (base - first) /\ first + i - 1 \in first .. (end - 1)
        BY <1>3, <2>2, <3>2
      <4>2. f[first + i - 1] = msgs[first + i - 1 - base + 1]
        BY <1>4, <1>6, <2>5, <4>1
      <4> QED
        BY <2>7, <4>1, <4>2
    <3>3. i <= base - first \/ i > base - first
      BY <2>2
    <3> QED
      BY <3>1, <3>2, <3>3
  <2>9. InSeqOrder(f) = stored \o msgs
    <3>1. stored \o msgs = [i \in 1 .. (end - first) |-> (stored \o msgs)[i]]
      BY <2>7, LenProperties
    <3> HIDE DEF end
    <3> QED
      BY <2>6, <2>8, <3>1, Zenon
  <2>10. After(sqlCall[p], stored) = stored \o msgs
    BY <1>8 DEF After, SqlOp, msgs
  <2>11. Gapless(DOMAIN f)
    BY <2>2, <2>5 DEF Gapless
  <2> QED
    BY <2>9, <2>10, <2>11 DEF f, t, old, stored
<1> QED
  BY <1>1, <1>7, <1>8

LEMMA CommitKeepsInv ==
  ASSUME SqlInv, NEW p \in Callers, NEW reported \in {"ok", "failed"}, Commit(p, reported)
  PROVE  SqlInv'
<1> DEFINE row == IF tx[p].row = NoRow THEN session[C(p)] ELSE tx[p].row
           f == Merged(tx[p], rows[C(p)])
<1>1. /\ SqlTypes /\ LockOK(p) /\ tx[p] \in Transactions /\ C(p) \in Convs
      /\ session[C(p)] \in SessionRows /\ rows[C(p)] \in Numbered
  BY AtStatement
<1>2. /\ sqlAt[p] = "insert" /\ tx[p].left = <<>>
      /\ overtaken' = OvertakenBy(p) /\ SqlReturn(p, reported, <<>>)
      /\ UNCHANGED <<missed, collided>>
  BY DEF Commit
<1>3. row \in SessionRows
  BY <1>1 DEF Transactions, SessionRows
<1>4. session' = [session EXCEPT ![C(p)] = row]
  BY <1>1 DEF Commit, SqlTypes
<1>5. f \in Numbered
  BY <1>1, MergedType
<1>6. rows' = [rows EXCEPT ![C(p)] = f]
  BY <1>1 DEF Commit, Merged, SqlTypes
<1>7. missed \/ Gapless(DOMAIN f)
  BY <1>2, CommitMakes
<1>8. row # session[C(p)] => HasLock(p)
  BY <1>1 DEF LockOK
<1>9. missed \/ HasLock(p)
  BY <1>1, <1>2 DEF LockOK
<1>10. HasLock(p) => \A q \in Callers \ {p} : rowLock[Resource(C(p))] # q
  BY DEF HasLock
<1> HIDE DEF row, f
<1> QED
  BY <1>2, <1>3, <1>4, <1>5, <1>6, <1>7, <1>8, <1>9, <1>10, ChangeKeepsInv

LEMMA GaplessNone == NoRows \in Numbered /\ DOMAIN NoRows = {} /\ Gapless(DOMAIN NoRows)
<1>1. DOMAIN NoRows = 0 .. (0 - 1)
  BY NoRowsNumbered
<1> QED
  BY <1>1, NoRowsNumbered DEF Gapless

LEMMA DeleteMessagesKeepsInv ==
  ASSUME SqlInv, NEW p \in Callers, NEW reported \in {"ok", "failed"}, DeleteMessages(p, reported)
  PROVE  SqlInv'
<1>1. SqlTypes /\ C(p) \in Convs /\ session[C(p)] \in SessionRows
  BY AtStatement
<1>2. session' = [session EXCEPT ![C(p)] = session[C(p)]]
  BY <1>1 DEF DeleteMessages, SqlTypes
<1>3. /\ overtaken' = OvertakenBy(p) /\ SqlReturn(p, reported, <<>>)
      /\ UNCHANGED <<missed, collided>> /\ rows' = [rows EXCEPT ![C(p)] = NoRows]
      /\ RowsFree(p, DOMAIN rows[C(p)])
  BY DEF DeleteMessages
<1> QED
  BY <1>1, <1>2, <1>3, GaplessNone, ChangeKeepsInv

(* The session operations have the lock for the moment they take.          *)
LEMMA NobodyElseHas ==
  ASSUME NEW p \in Callers, MayWrite(p)
  PROVE  \A q \in Callers \ {p} : rowLock[Resource(C(p))] # q
BY StoreCallsAssumption DEF MayWrite

LEMMA DeleteSessionKeepsInv ==
  ASSUME SqlInv, NEW p \in Callers, NEW reported \in {"ok", "failed"}, DeleteSession(p, reported)
  PROVE  SqlInv'
<1>1. NoRow \in SessionRows
  BY DEF SessionRows
<1>2. /\ overtaken' = OvertakenBy(p) /\ SqlReturn(p, reported, <<>>)
      /\ UNCHANGED <<missed, collided>> /\ rows' = [rows EXCEPT ![C(p)] = NoRows]
      /\ session' = [session EXCEPT ![C(p)] = NoRow] /\ MayWrite(p)
  BY DEF DeleteSession
<1> QED
  BY <1>1, <1>2, GaplessNone, NobodyElseHas, ChangeKeepsInv

LEMMA UpsertSessionKeepsInv ==
  ASSUME SqlInv, NEW p \in Callers, NEW reported \in {"ok", "failed"}, UpsertSession(p, reported)
  PROVE  SqlInv'
<1>1. SavedRow(p) \in SessionRows
  BY DEF SessionRows
<1>2. SqlTypes /\ C(p) \in Convs /\ rows[C(p)] \in Numbered
      /\ (missed \/ Gapless(DOMAIN rows[C(p)]))
  BY AtStatement DEF SqlInv, GaplessUnlessMissed
<1>3. rows' = [rows EXCEPT ![C(p)] = rows[C(p)]]
  BY <1>2 DEF UpsertSession, SqlTypes
<1>4. /\ overtaken' = OvertakenBy(p) /\ SqlReturn(p, reported, <<>>)
      /\ UNCHANGED <<missed, collided>>
      /\ session' = [session EXCEPT ![C(p)] = SavedRow(p)] /\ MayWrite(p)
  BY DEF UpsertSession
<1> QED
  BY <1>1, <1>2, <1>3, <1>4, NobodyElseHas, ChangeKeepsInv

LEMMA SqlNextInv == SqlInv /\ [SqlNext]_sqlVars => SqlInv'
<1> SUFFICES ASSUME SqlInv, [SqlNext]_sqlVars PROVE SqlInv'
  OBVIOUS
<1>1. ASSUME NEW p \in Callers, SqlStep(p) PROVE SqlInv'
  <2>1. CASE LockConversation(p)
    BY <2>1, LockConversationKeepsInv
  <2>2. CASE SessionExists(p)
    BY <2>2, SessionExistsKeepsInv
  <2>3. CASE EnsureStub(p)
    BY <2>3, EnsureStubKeepsInv
  <2>4. CASE LockSession(p)
    BY <2>4, LockSessionKeepsInv
  <2>5. CASE ClearMessages(p)
    BY <2>5, ClearMessagesKeepsInv
  <2>6. CASE MaxSeq(p)
    BY <2>6, MaxSeqKeepsInv
  <2>7. CASE InsertChunk(p)
    BY <2>7, InsertChunkKeepsInv
  <2>8. CASE InsertCollides(p)
    BY <2>8, InsertCollidesKeepsInv
  <2>9. CASE Commit(p, "ok")
    BY <2>9, CommitKeepsInv
  <2>10. CASE Unanswered(p)
    BY <2>10, CommitKeepsInv, DeleteMessagesKeepsInv, DeleteSessionKeepsInv,
       UpsertSessionKeepsInv DEF Unanswered, TakesEffect
  <2>11. CASE SelectMessages(p)
    BY <2>11, SelectMessagesKeepsInv
  <2>12. CASE DeleteMessages(p, "ok")
    BY <2>12, DeleteMessagesKeepsInv
  <2>13. CASE DeleteSession(p, "ok")
    BY <2>13, DeleteSessionKeepsInv
  <2>14. CASE UpsertSession(p, "ok")
    BY <2>14, UpsertSessionKeepsInv
  <2>15. CASE SqlFails(p)
    BY <2>15, SqlFailsKeepsInv
  <2>16. CASE Busy(p)
    BY <2>16, BusyKeepsInv
  <2> QED
    BY <1>1, <2>1, <2>2, <2>3, <2>4, <2>5, <2>6, <2>7, <2>8, <2>9, <2>10, <2>11, <2>12, <2>13,
       <2>14, <2>15, <2>16 DEF SqlStep
<1>2. ASSUME NEW p \in Callers, NEW r \in StoreCall(ConversationOps \cup SessionOps),
             SqlInvoke(p, r)
      PROVE  SqlInv'
  BY <1>2, SqlInvokeKeepsInv
<1>3. CASE UNCHANGED sqlVars
  <2> USE <1>3 DEF sqlVars
  <2>1. ASSUME NEW p \in Callers PROVE SqlCallerOK(p)'
    <3>1. C(p)' = C(p) /\ Sqlite' = Sqlite
      BY DEF C, Sqlite
    <3>2. RowKept(p) /\ RowsKept(p) /\ (HasLock(p) => HasLock(p)')
      BY <3>1 DEF RowKept, RowsKept, HasLock, Resource
    <3> QED
      BY <3>2, OtherCallerKept
  <2> QED
    BY <2>1 DEF SqlInv, SqlTypes, GaplessUnlessMissed, AppendsNeverCollide,
                SqliteLocksItsSession, Sqlite
<1> QED
  BY <1>1, <1>2, <1>3 DEF SqlNext

LEMMA SqlSpecInv == SqlSpec => []SqlInv
BY SqlInitInv, SqlNextInv, PTL DEF SqlSpec

(* The values of the SQL store have their types (store/sql: Store).        *)
THEOREM SqlTypeCorrect == SqlSpec => []SqlTypeOK
<1>1. SqlInv => SqlTypeOK
  <2> SUFFICES ASSUME SqlInv PROVE SqlTypeOK
    OBVIOUS
  <2>1. SqlTypes
    BY DEF SqlInv
  <2>2. \A c \in Convs : DOMAIN rows[c] \subseteq Nat
    BY <2>1, NumberedIs DEF SqlTypes
  <2> QED
    BY <2>1, <2>2 DEF SqlTypes, SqlTypeOK, SessionRows, Places, InTx
<1> QED
  BY <1>1, SqlSpecInv, PTL

(* As long as no writer has missed the row it locks, the unique index      *)
(* never refuses an INSERT: MAX(seq) and the chunks that follow it are     *)
(* under the lock of the session (appendMessagesTx).                       *)
THEOREM NumbersNeverCollide == SqlSpec => []AppendsNeverCollide
<1>1. SqlInv => AppendsNeverCollide
  BY DEF SqlInv
<1> QED
  BY <1>1, SqlSpecInv, PTL

(* With sqlite no writer ever misses its row: whatever was committed since *)
(* the transaction read it, its first write is refused (lockSession).      *)
THEOREM SqliteNeverMisses == SqlSpec => []SqliteLocksItsSession
<1>1. SqlInv => SqliteLocksItsSession
  BY DEF SqlInv
<1> QED
  BY <1>1, SqlSpecInv, PTL

-------------------------------------------------------------------------------
(* A saved session stays.                                                  *)

SavedStays == \A user \in Callers : \A c \in ListSessions(user) :
  \/ c \in ListSessions(user)'
  \/ \E q \in Callers : /\ sqlCall[q].conv = c /\ sqlCall[q].op \in SessionOps
                        /\ sqlOutcome[q] = "pending" /\ sqlOutcome'[q] \in Reports

LEMMA RowUntouched == UNCHANGED session => SavedStays
BY DEF SavedStays, ListSessions

LEMMA SessionOpMayEnd ==
  ASSUME SqlInv, NEW p \in Callers, NEW reported \in Reports, SqlReturn(p, reported, <<>>),
         SqlOp(p) \in SessionOps, sqlAt[p] # "idle", NEW row,
         session' = [session EXCEPT ![C(p)] = row]
  PROVE  SavedStays
<1>1. SqlTypes /\ PlaceOK(p) /\ C(p) \in Convs
  BY AtStatement
<1>2. sqlOutcome[p] = "pending" /\ sqlOutcome'[p] = reported
  BY <1>1 DEF PlaceOK, SqlReturn, SqlTypes
<1>3. \A c \in Convs : c # C(p) => session'[c] = session[c]
  BY <1>1 DEF SqlTypes
<1> QED
  BY <1>2, <1>3 DEF SavedStays, ListSessions, C, SqlOp

LEMMA CommitSparesSaved ==
  ASSUME SqlInv, NEW p \in Callers, NEW reported, Commit(p, reported)
  PROVE  SavedStays
<1>1. SqlTypes /\ LockOK(p) /\ C(p) \in Convs
  BY AtStatement
<1>2. session' = IF tx[p].row = NoRow THEN session ELSE [session EXCEPT ![C(p)] = tx[p].row]
  BY DEF Commit
<1>3. tx[p].row # NoRow => session[C(p)] = NoRow
  BY <1>1 DEF LockOK
<1>4. \A user \in Callers : SavedRow(user) # NoRow
  BY DEF SavedRow, NoRow
<1>5. \A user \in Callers : \A c \in ListSessions(user) : session'[c] = session[c]
  BY <1>1, <1>2, <1>3, <1>4 DEF ListSessions, SqlTypes
<1> QED
  BY <1>5 DEF SavedStays, ListSessions

LEMMA SessionOpSparesSaved ==
  ASSUME SqlInv, NEW p \in Callers, NEW reported \in Reports,
         DeleteSession(p, reported) \/ UpsertSession(p, reported)
  PROVE  SavedStays
<1>1. SqlReturn(p, reported, <<>>) /\ sqlAt[p] \in {"deleteSession", "saveSession"}
  BY DEF DeleteSession, UpsertSession
<1>2. SqlOp(p) \in SessionOps
  BY <1>1, AtStatement DEF PlaceOK, OpsAt, SessionOps
<1>3. PICK row : session' = [session EXCEPT ![C(p)] = row]
  BY DEF DeleteSession, UpsertSession
<1> QED
  BY <1>1, <1>2, <1>3, SessionOpMayEnd

LEMMA EffectSparesSaved ==
  ASSUME SqlInv, NEW p \in Callers, NEW reported \in Reports, TakesEffect(p, reported)
  PROVE  SavedStays
<1>1. CASE Commit(p, reported)
  BY <1>1, CommitSparesSaved
<1>2. CASE DeleteMessages(p, reported)
  BY <1>2, RowUntouched DEF DeleteMessages
<1>3. CASE DeleteSession(p, reported) \/ UpsertSession(p, reported)
  BY <1>3, SessionOpSparesSaved
<1> QED
  BY <1>1, <1>2, <1>3 DEF TakesEffect

LEMMA StepSparesSaved == SqlInv /\ [SqlNext]_sqlVars => SavedStays
<1> SUFFICES ASSUME SqlInv, [SqlNext]_sqlVars PROVE SavedStays
  OBVIOUS
<1>1. ASSUME NEW p \in Callers, SqlStep(p) PROVE SavedStays
  <2>1. CASE \/ LockConversation(p) \/ SessionExists(p) \/ EnsureStub(p) \/ LockSession(p)
             \/ ClearMessages(p) \/ MaxSeq(p) \/ InsertChunk(p)
    <3>1. UNCHANGED session
      BY <2>1 DEF LockConversation, SessionExists, EnsureStub, LockSession, ClearMessages,
                  MaxSeq, InsertChunk, SqlGoto, database
    <3> QED
      BY <3>1, RowUntouched
  <2>2. CASE InsertCollides(p) \/ SelectMessages(p) \/ SqlFails(p) \/ Busy(p)
    <3>1. UNCHANGED session
      BY <2>2 DEF InsertCollides, SelectMessages, SqlFails, Busy, database
    <3> QED
      BY <3>1, RowUntouched
  <2>3. CASE TakesEffect(p, "ok")
    BY <2>3, EffectSparesSaved DEF Reports
  <2>4. CASE Unanswered(p)
    BY <2>4, EffectSparesSaved DEF Unanswered, Reports
  <2> QED
    BY <1>1, <2>1, <2>2, <2>3, <2>4 DEF SqlStep, TakesEffect
<1>2. ASSUME NEW p \in Callers, NEW r \in StoreCall(ConversationOps \cup SessionOps),
             SqlInvoke(p, r)
      PROVE  SavedStays
  BY <1>2, RowUntouched DEF SqlInvoke, database
<1>3. CASE UNCHANGED sqlVars
  BY <1>3, RowUntouched DEF sqlVars
<1> QED
  BY <1>1, <1>2, <1>3 DEF SqlNext

(* A saved session stays listed under its user until an operation on       *)
(* sessions succeeds: a Save or Append commits its stub only where, under  *)
(* the lock, there was no row (ensureSessionStubExec).                     *)
THEOREM SavedSessionsStay == SqlSpec => SavedSessionStays
<1>1. SqlInv /\ [SqlNext]_sqlVars => [SavedStays]_sqlVars
  BY StepSparesSaved
<1>2. SqlSpec => [][SavedStays]_sqlVars
  BY <1>1, SqlSpecInv, PTL DEF SqlSpec
<1> QED
  BY <1>2 DEF SavedSessionStays, SavedStays

-------------------------------------------------------------------------------
(* The SQL store implements the abstract store.                            *)

LEMMA ViewKept ==
  ASSUME UNCHANGED <<rows, sqlCall, sqlOutcome, sqlAnswer>>
  PROVE  UNCHANGED SqlAbstract(TRUE)!storeVars
BY DEF SqlAbstract!storeVars

LEMMA FailureImplements ==
  ASSUME SqlInv, NEW p \in Callers, SqlReturn(p, "failed", <<>>), UNCHANGED database,
         sqlAt[p] # "idle", NEW clean \in BOOLEAN
  PROVE  SqlAbstract(clean)!StoreNext
<1>1. SqlTypes /\ PlaceOK(p)
  BY AtStatement
<1>2. sqlOutcome[p] = "pending" /\ sqlAnswer[p] = <<>>
  BY <1>1 DEF PlaceOK
<1>3. sqlOutcome' = [x \in Callers |-> IF x \in {p} THEN "failed" ELSE sqlOutcome[x]]
  BY <1>1 DEF SqlReturn, SqlTypes
<1>4. sqlAnswer' = sqlAnswer /\ sqlCall' = sqlCall /\ rows' = rows
  <2>1. sqlAnswer' = [sqlAnswer EXCEPT ![p] = <<>>] /\ sqlAnswer = [x \in Callers |-> sqlAnswer[x]]
    BY <1>1 DEF SqlReturn, SqlTypes
  <2>2. sqlAnswer' = sqlAnswer
    BY <1>2, <2>1
  <2> QED
    BY <2>2 DEF SqlReturn, database
<1>5. SqlAbstract(clean)!FailAll({p})
  BY <1>2, <1>3, <1>4 DEF SqlAbstract!FailAll
<1> QED
  BY <1>5 DEF SqlAbstract!StoreNext

LEMMA EffectImplements ==
  ASSUME SqlInv, NEW p \in Callers, NEW reported \in {"ok", "failed"}, NEW clean \in BOOLEAN,
         reported = "ok" \/ ~clean, sqlAt[p] # "idle",
         SqlReturn(p, reported, IF SqlOp(p) = "load" THEN InSeqOrder(rows[C(p)]) ELSE <<>>),
         \A c \in Convs : InSeqOrder(rows'[c]) =
           IF c = C(p) THEN After(sqlCall[p], InSeqOrder(rows[c])) ELSE InSeqOrder(rows[c])
  PROVE  SqlAbstract(clean)!StoreNext
<1>1. SqlTypes /\ PlaceOK(p) /\ C(p) \in Convs
  BY AtStatement
<1>2. sqlOutcome[p] = "pending"
  BY <1>1 DEF PlaceOK
<1>3. /\ sqlOutcome' = [sqlOutcome EXCEPT ![p] = reported]
      /\ sqlAnswer' = [sqlAnswer EXCEPT ![p] =
           IF SqlOp(p) = "load" THEN InSeqOrder(rows[C(p)]) ELSE <<>>]
      /\ sqlCall' = sqlCall
  BY DEF SqlReturn
<1>4. [c \in Convs |-> InSeqOrder(rows[c])]' =
        [[c \in Convs |-> InSeqOrder(rows[c])] EXCEPT ![sqlCall[p].conv] = After(sqlCall[p], @)]
  BY <1>1 DEF C
<1>5. [c \in Convs |-> InSeqOrder(rows[c])][sqlCall[p].conv] = InSeqOrder(rows[C(p)])
  BY <1>1 DEF C
<1>6. SqlAbstract(clean)!TakeEffect(p, reported)
  <2>1. sqlAnswer' = [sqlAnswer EXCEPT ![p] =
          IF sqlCall[p].op = "load" THEN [c \in Convs |-> InSeqOrder(rows[c])][sqlCall[p].conv]
          ELSE <<>>]
    BY <1>3, <1>5 DEF SqlOp
  <2>2. \A r, stored : SqlAbstract(clean)!After(r, stored) = After(r, stored)
    BY DEF SqlAbstract!After, After
  <2>3. [c \in Convs |-> InSeqOrder(rows[c])]' =
          [[c \in Convs |-> InSeqOrder(rows[c])] EXCEPT ![sqlCall[p].conv] =
             SqlAbstract(clean)!After(sqlCall[p], [c \in Convs |-> InSeqOrder(rows[c])][sqlCall[p].conv])]
    BY <1>4, <2>2, ZenonT(30)
  <2> QED
    BY <1>2, <1>3, <2>1, <2>3, Zenon DEF SqlAbstract!TakeEffect
<1> QED
  BY <1>6 DEF SqlAbstract!StoreNext

LEMMA InvokeImplements ==
  ASSUME SqlInv, NEW p \in Callers, NEW r \in StoreCall(ConversationOps \cup SessionOps),
         SqlInvoke(p, r), NEW clean \in BOOLEAN
  PROVE  SqlAbstract(clean)!StoreNext
<1>1. SqlTypes /\ PlaceOK(p)
  BY AtStatement
<1>2. /\ sqlOutcome[p] # "pending" /\ sqlCall' = [sqlCall EXCEPT ![p] = r]
      /\ sqlOutcome' = [sqlOutcome EXCEPT ![p] = "pending"]
      /\ sqlAnswer' = [sqlAnswer EXCEPT ![p] = <<>>] /\ rows' = rows
  BY <1>1 DEF SqlInvoke, database, PlaceOK
<1>3. r \in SqlAbstract(clean)!StoreCall(ConversationOps \cup SessionOps)
  BY DEF SqlAbstract!StoreCall, StoreCall, SqlAbstract!WithMessages, WithMessages
<1>4. SqlAbstract(clean)!Invoke(p, r)
  BY <1>2 DEF SqlAbstract!Invoke
<1> QED
  BY <1>3, <1>4 DEF SqlAbstract!StoreNext

LEMMA LoadImplements ==
  ASSUME SqlInv, NEW p \in Callers, SelectMessages(p), NEW clean \in BOOLEAN
  PROVE  SqlAbstract(clean)!StoreNext
<1>1. /\ sqlAt[p] = "load" /\ SqlReturn(p, "ok", InSeqOrder(rows[C(p)])) /\ rows' = rows
  BY DEF SelectMessages, database
<1>2. SqlOp(p) = "load"
  BY <1>1, AtStatement DEF PlaceOK, OpsAt
<1>3. \A s : After(sqlCall[p], s) = s
  BY <1>2 DEF After, SqlOp
<1> QED
  BY <1>1, <1>2, <1>3, EffectImplements

LEMMA DeleteImplements ==
  ASSUME SqlInv, NEW p \in Callers, NEW reported \in {"ok", "failed"},
         DeleteMessages(p, reported) \/ DeleteSession(p, reported),
         NEW clean \in BOOLEAN, reported = "ok" \/ ~clean
  PROVE  SqlAbstract(clean)!StoreNext
<1>1. /\ sqlAt[p] \in {"delete", "deleteSession"} /\ SqlReturn(p, reported, <<>>)
      /\ rows' = [rows EXCEPT ![C(p)] = NoRows]
  BY DEF DeleteMessages, DeleteSession
<1>2. SqlOp(p) \in {"delete", "deleteSession"} /\ SqlTypes
  BY <1>1, AtStatement DEF PlaceOK, OpsAt
<1>3. \A s : After(sqlCall[p], s) = <<>>
  BY <1>2 DEF After, SqlOp
<1>4. InSeqOrder(NoRows) = <<>>
  BY OrderOfNone, NoRowsNumbered
<1>5. \A c \in Convs : InSeqOrder(rows'[c]) =
        IF c = C(p) THEN After(sqlCall[p], InSeqOrder(rows[c])) ELSE InSeqOrder(rows[c])
  BY <1>1, <1>2, <1>3, <1>4 DEF SqlTypes
<1> QED
  BY <1>1, <1>2, <1>5, EffectImplements

LEMMA UpsertImplements ==
  ASSUME SqlInv, NEW p \in Callers, NEW reported \in {"ok", "failed"},
         UpsertSession(p, reported), NEW clean \in BOOLEAN, reported = "ok" \/ ~clean
  PROVE  SqlAbstract(clean)!StoreNext
<1>1. sqlAt[p] = "saveSession" /\ SqlReturn(p, reported, <<>>) /\ rows' = rows
  BY DEF UpsertSession
<1>2. SqlOp(p) = "saveSession"
  BY <1>1, AtStatement DEF PlaceOK, OpsAt
<1>3. \A s : After(sqlCall[p], s) = s
  BY <1>2 DEF After, SqlOp
<1> QED
  BY <1>1, <1>2, <1>3, EffectImplements

LEMMA CommitImplements ==
  ASSUME SqlInv, ~missed, NEW p \in Callers, NEW reported \in {"ok", "failed"},
         Commit(p, reported), NEW clean \in BOOLEAN, reported = "ok" \/ ~clean
  PROVE  SqlAbstract(clean)!StoreNext
<1>1. sqlAt[p] = "insert" /\ tx[p].left = <<>> /\ SqlReturn(p, reported, <<>>)
  BY DEF Commit
<1>2. SqlOp(p) \in {"save", "append"} /\ SqlTypes /\ C(p) \in Convs
  BY <1>1, AtStatement DEF PlaceOK, OpsAt
<1>3. rows' = [rows EXCEPT ![C(p)] = Merged(tx[p], rows[C(p)])]
  BY <1>2 DEF Commit, Merged, SqlTypes
<1>4. InSeqOrder(Merged(tx[p], rows[C(p)])) = After(sqlCall[p], InSeqOrder(rows[C(p)]))
  BY <1>1, CommitMakes
<1>5. \A c \in Convs : InSeqOrder(rows'[c]) =
        IF c = C(p) THEN After(sqlCall[p], InSeqOrder(rows[c])) ELSE InSeqOrder(rows[c])
  BY <1>2, <1>3, <1>4 DEF SqlTypes
<1> QED
  BY <1>1, <1>2, <1>5, EffectImplements

LEMMA EffectOfAny ==
  ASSUME SqlInv, ~missed', NEW p \in Callers, NEW reported \in {"ok", "failed"},
         TakesEffect(p, reported), NEW clean \in BOOLEAN, reported = "ok" \/ ~clean
  PROVE  SqlAbstract(clean)!StoreNext
<1>1. ~missed
  BY DEF TakesEffect, Commit, DeleteMessages, DeleteSession, UpsertSession
<1>2. CASE Commit(p, reported)
  BY <1>1, <1>2, CommitImplements
<1>3. CASE DeleteMessages(p, reported) \/ DeleteSession(p, reported)
  BY <1>3, DeleteImplements
<1>4. CASE UpsertSession(p, reported)
  BY <1>4, UpsertImplements
<1> QED
  BY <1>2, <1>3, <1>4 DEF TakesEffect

LEMMA SqlStepImplements == SqlInv /\ [SqlNext]_sqlVars => missed' \/ SqlAbstractStep
<1> SUFFICES ASSUME SqlInv, [SqlNext]_sqlVars, ~missed' PROVE SqlAbstractStep
  OBVIOUS
<1>1. ASSUME NEW p \in Callers, SqlStep(p) PROVE SqlAbstractStep
  <2>1. CASE \/ LockConversation(p) \/ SessionExists(p) \/ EnsureStub(p) \/ LockSession(p)
             \/ ClearMessages(p) \/ MaxSeq(p) \/ InsertChunk(p) \/ Busy(p)
    <3>1. UNCHANGED <<rows, sqlCall, sqlOutcome, sqlAnswer>>
      BY <2>1 DEF LockConversation, SessionExists, EnsureStub, LockSession, ClearMessages,
                  MaxSeq, InsertChunk, Busy, SqlGoto, database
    <3> QED
      BY <3>1, ViewKept DEF SqlAbstractStep
  <2>2. CASE InsertCollides(p) \/ SqlFails(p)
    <3>1. SqlReturn(p, "failed", <<>>) /\ UNCHANGED database /\ sqlAt[p] # "idle"
      BY <2>2 DEF InsertCollides, SqlFails
    <3> QED
      BY <3>1, FailureImplements DEF SqlAbstractStep
  <2>3. CASE SelectMessages(p)
    BY <2>3, LoadImplements DEF SqlAbstractStep
  <2>4. CASE TakesEffect(p, "ok")
    BY <2>4, EffectOfAny DEF SqlAbstractStep
  <2>5. CASE Unanswered(p)
    BY <2>5, EffectOfAny DEF Unanswered, SqlAbstractStep
  <2> QED
    BY <1>1, <2>1, <2>2, <2>3, <2>4, <2>5 DEF SqlStep, TakesEffect
<1>2. ASSUME NEW p \in Callers, NEW r \in StoreCall(ConversationOps \cup SessionOps),
             SqlInvoke(p, r)
      PROVE  SqlAbstractStep
  BY <1>2, InvokeImplements DEF SqlAbstractStep
<1>3. CASE UNCHANGED sqlVars
  BY <1>3, ViewKept DEF sqlVars, SqlAbstractStep
<1> QED
  BY <1>1, <1>2, <1>3 DEF SqlNext

LEMMA SqlInitImplements == SqlInit => SqlAbstract(TRUE)!StoreInit
<1> SUFFICES ASSUME SqlInit PROVE SqlAbstract(TRUE)!StoreInit
  OBVIOUS
<1>1. \A c \in Convs : InSeqOrder(rows[c]) = <<>>
  BY OrderOfNone, NoRowsNumbered DEF SqlInit
<1>2. SqlTypes
  BY SqlInitInv DEF SqlInv
<1>3. sqlCall \in [Callers -> SqlAbstract(TRUE)!StoreCall(ConversationOps \cup SessionOps)]
  BY <1>2 DEF SqlTypes, SqlAbstract!StoreCall, StoreCall, SqlAbstract!WithMessages, WithMessages
<1> QED
  BY <1>1, <1>3 DEF SqlAbstract!StoreInit, SqlInit

(* Every behaviour of the SQL store is one of the abstract store: a        *)
(* commit, a DELETE or a SELECT is the moment an operation takes effect,   *)
(* for as long as no writer has missed the row it locks.  Under sqlite     *)
(* that is for ever and a failed call has changed nothing; under postgres  *)
(* a call that was not answered may have (Unanswered).                     *)
THEOREM SqlStoreImplements == SqlSpec => SqlImplementsStore
<1>1. SqlInv /\ [SqlNext]_sqlVars => [missed' \/ SqlAbstractStep]_sqlVars
  BY SqlStepImplements
<1>2. SqlSpec => [][missed' \/ SqlAbstractStep]_sqlVars
  BY <1>1, SqlSpecInv, PTL DEF SqlSpec
<1>3. SqlSpec => SqlAbstract(TRUE)!StoreInit
  BY SqlInitImplements DEF SqlSpec
<1> QED
  BY <1>2, <1>3 DEF SqlImplementsStore
================================================================================
