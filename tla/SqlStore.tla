-------------------------------- MODULE SqlStore --------------------------------
(***************************************************************************)
(* store/sql: conversations and sessions in a SQL database, one action per *)
(* statement.  Two dialects, chosen by NewStore for good:                  *)
(*   sqlite    callers of one process take a mutex per conversation; the   *)
(*             database has one writer, a transaction that has read may    *)
(*             find itself overtaken, and "busy" is retried;               *)
(*   postgres  no mutex and no retry; statements see what is committed     *)
(*             (READ COMMITTED) and the row of the session is the lock.    *)
(* What the databases themselves do is modelled as their documentation     *)
(* has it, a statement being atomic once the locks it needs are free.      *)
(***************************************************************************)
EXTENDS StoreCalls, Integers, FiniteSets

CONSTANTS
  Dialects,      \* the dialects considered
  Database,      \* the lock of a whole sqlite database
  ChunkRows,     \* maxMessageInsertRows: rows per INSERT (100)
  MaxAttempts,   \* attempts of withBusyRetry (20)
  MaxSqlCalls    \* bound on the calls of a behaviour

ASSUME SqlAssumption ==
  /\ Dialects \subseteq {"sqlite", "postgres"}
  /\ Database \notin Convs
  /\ \A batch \in Batches : batch \in Seq({batch[i] : i \in DOMAIN batch})
  /\ ChunkRows \in Nat \ {0} /\ MaxAttempts \in Nat \ {0} /\ MaxSqlCalls \in Nat

VARIABLES
  dialect,
  session,     \* the committed row of each session
  rows,        \* the committed messages of each session, by seq
  convLock,    \* s.locks: the mutexes of the conversations
  rowLock,     \* who has the database, or the row of the session, locked
  sqlAt,       \* the statement each caller is about to execute
  sqlCall, sqlOutcome, sqlAnswer,
  tx,          \* what its transaction has done so far
  overtaken,   \* sqlite: open transactions that have read what is no longer current
  attempt,     \* withBusyRetry's counter
  missed,      \* history: an UPDATE that locks a session has matched no row
  collided,    \* history: an INSERT has met the unique index on (session_id, seq)
  sqlCalls     \* the calls made so far

database == <<session, rows>>
sqlVars == <<dialect, session, rows, convLock, rowLock, sqlAt, sqlCall, sqlOutcome,
             sqlAnswer, tx, overtaken, attempt, missed, collided, sqlCalls>>

NoRow == [is |-> "none", by |-> Nobody]
StubRow == [is |-> "stub", by |-> Nobody]
SavedRow(p) == [is |-> "saved", by |-> p]

Sqlite == dialect = "sqlite"

\* No transaction: nothing inserted, deleted or left to insert.
NoTx == [open |-> FALSE, row |-> NoRow, gone |-> {}, new |-> <<>>, next |-> 0, left |-> <<>>]

C(p) == sqlCall[p].conv
SqlOp(p) == sqlCall[p].op
Resource(c) == IF Sqlite THEN Database ELSE c

\* ORDER BY seq.
Nth(S, i) == CHOOSE s \in S : Cardinality({t \in S : t < s}) = i - 1
InSeqOrder(f) == [i \in 1..Cardinality(DOMAIN f) |-> f[Nth(DOMAIN f, i)]]

NoRows == <<>>   \* the function with an empty domain

SqlInit ==
  /\ dialect \in Dialects
  /\ session \in [Convs -> {NoRow, StubRow}]
  /\ rows = [c \in Convs |-> NoRows]
  /\ convLock = [c \in Convs |-> Nobody]
  /\ rowLock = [r \in Convs \cup {Database} |-> Nobody]
  /\ sqlAt = [p \in Callers |-> "idle"]
  /\ sqlCall = [p \in Callers |-> CHOOSE r \in StoreCall({"load"}) : TRUE]
  /\ sqlOutcome = [p \in Callers |-> "none"]
  /\ sqlAnswer = [p \in Callers |-> <<>>]
  /\ tx = [p \in Callers |-> NoTx]
  /\ overtaken = {}
  /\ attempt = [p \in Callers |-> 0]
  /\ missed = FALSE
  /\ collided = FALSE
  /\ sqlCalls = 0

-------------------------------------------------------------------------------
\* How a step ends.

\* COMMIT or ROLLBACK gives back the locks of the transaction.
Freed(p) == [r \in DOMAIN rowLock |-> IF rowLock[r] = p THEN Nobody ELSE rowLock[r]]

\* The deferred unlock, and the return to the caller.
SqlReturn(p, result, found) ==
  /\ sqlAt' = [sqlAt EXCEPT ![p] = "idle"]
  /\ sqlOutcome' = [sqlOutcome EXCEPT ![p] = result]
  /\ sqlAnswer' = [sqlAnswer EXCEPT ![p] = found]
  /\ convLock' = [c \in Convs |-> IF convLock[c] = p THEN Nobody ELSE convLock[c]]
  /\ rowLock' = Freed(p)
  /\ tx' = [tx EXCEPT ![p] = NoTx]
  /\ attempt' = [attempt EXCEPT ![p] = 0]
  /\ UNCHANGED <<dialect, sqlCall, sqlCalls>>

\* The next statement of the same transaction, or of none.
SqlGoto(p, place) ==
  /\ sqlAt' = [sqlAt EXCEPT ![p] = place]
  /\ UNCHANGED <<dialect, database, sqlCall, sqlOutcome, sqlAnswer, attempt, sqlCalls>>

\* Another transaction's commit: every open sqlite transaction is overtaken.
OvertakenBy(p) ==
  IF Sqlite THEN (overtaken \cup {q \in Callers : tx[q].open}) \ {p} ELSE {}

\* A write statement of p can execute now: the lock is free or its own.
MayWrite(p) ==
  /\ rowLock[Resource(C(p))] \in {Nobody, p}
  /\ p \notin overtaken

Locked(p) == [rowLock EXCEPT ![Resource(C(p))] = p]

Others(p) == {tx[q] : q \in {q \in Callers \ {p} : C(q) = C(p)}}

\* postgres: a row that another transaction has deleted, or inserted, is waited for.
RowsFree(p, S) == \A t \in Others(p) : (t.gone \cup DOMAIN t.new) \cap S = {}

\* The session row, and the messages, that a statement of p's transaction sees.
SeesSession(p) == tx[p].row # NoRow \/ session[C(p)] # NoRow
SeesRows(p) == (DOMAIN rows[C(p)] \ tx[p].gone) \cup DOMAIN tx[p].new

-------------------------------------------------------------------------------
\* Calls.  Save, Append and Delete lock the conversation first, sqlite only.

SqlInvoke(p, r) ==
  /\ sqlAt[p] = "idle"
  /\ sqlCalls < MaxSqlCalls
  /\ sqlCalls' = sqlCalls + 1
  /\ sqlAt' = [sqlAt EXCEPT ![p] =
       IF r.op \in {"save", "append", "delete"} THEN "mutex" ELSE r.op]
  /\ sqlCall' = [sqlCall EXCEPT ![p] = r]
  /\ sqlOutcome' = [sqlOutcome EXCEPT ![p] = "pending"]
  /\ sqlAnswer' = [sqlAnswer EXCEPT ![p] = <<>>]
  /\ UNCHANGED <<dialect, database, convLock, rowLock, tx, overtaken, attempt, missed,
                 collided>>

LockConversation(p) ==
  /\ sqlAt[p] = "mutex"
  /\ IF Sqlite
     THEN convLock[C(p)] = Nobody /\ convLock' = [convLock EXCEPT ![C(p)] = p]
     ELSE UNCHANGED convLock
  /\ SqlGoto(p, IF SqlOp(p) = "delete" THEN "delete" ELSE "begin")
  /\ UNCHANGED <<rowLock, tx, overtaken, missed, collided>>

\* Mutant: the session is looked up before the transaction begins.
MutantSessionExists(p) ==
  /\ sqlAt[p] = "begin"
  /\ tx' = [tx EXCEPT ![p] = [NoTx EXCEPT !.left = sqlCall[p].msgs]]
  /\ SqlGoto(p, IF session[C(p)] = NoRow THEN "stub" ELSE "lock")
  /\ UNCHANGED <<convLock, rowLock, overtaken, missed, collided>>

\* BeginTx and sessionExists: the first read of the transaction.
SessionExists(p) ==
  /\ sqlAt[p] = "begin"
  /\ tx' = [tx EXCEPT ![p] = [NoTx EXCEPT !.open = TRUE, !.left = sqlCall[p].msgs]]
  /\ overtaken' = overtaken \ {p}
  /\ SqlGoto(p, IF session[C(p)] = NoRow THEN "stub" ELSE "lock")
  /\ UNCHANGED <<convLock, rowLock, missed, collided>>

\* Mutant: the stub replaces the row it conflicts with.
MutantEnsureStub(p) ==
  /\ sqlAt[p] = "stub"
  /\ MayWrite(p)
  /\ tx' = [tx EXCEPT ![p].row = StubRow]
  /\ rowLock' = Locked(p)
  /\ SqlGoto(p, "lock")
  /\ UNCHANGED <<convLock, overtaken, missed, collided>>

\* ensureSessionStubExec: INSERT ... ON CONFLICT DO NOTHING into users, agents
\* and sessions, under ids of this conversation's own.
EnsureStub(p) ==
  /\ sqlAt[p] = "stub"
  /\ MayWrite(p)
  /\ tx' = [tx EXCEPT ![p].row = IF session[C(p)] = NoRow THEN StubRow ELSE NoRow]
  /\ rowLock' = IF Sqlite \/ session[C(p)] = NoRow THEN Locked(p) ELSE rowLock
  /\ SqlGoto(p, "lock")
  /\ UNCHANGED <<convLock, overtaken, missed, collided>>

\* Mutant: the transaction does not take the lock of the session.
MutantLockSession(p) ==
  /\ sqlAt[p] = "lock"
  /\ UNCHANGED rowLock
  /\ SqlGoto(p, IF SqlOp(p) = "save" THEN "clear" ELSE "max")
  /\ UNCHANGED <<convLock, tx, overtaken, missed, collided>>

\* lockSession: UPDATE sessions SET updated_at = updated_at.  That it matched a
\* row is not looked at.
LockSession(p) ==
  /\ sqlAt[p] = "lock"
  /\ MayWrite(p)
  /\ rowLock' = IF Sqlite \/ SeesSession(p) THEN Locked(p) ELSE rowLock
  /\ missed' = (missed \/ ~SeesSession(p))
  /\ SqlGoto(p, IF SqlOp(p) = "save" THEN "clear" ELSE "max")
  /\ UNCHANGED <<convLock, tx, overtaken, collided>>

\* Mutant: the messages are deleted outside the transaction.
MutantClearMessages(p) ==
  /\ sqlAt[p] = "clear"
  /\ RowsFree(p, DOMAIN rows[C(p)])
  /\ rows' = [rows EXCEPT ![C(p)] = NoRows]
  /\ sqlAt' = [sqlAt EXCEPT ![p] = "insert"]
  /\ UNCHANGED <<dialect, session, convLock, rowLock, sqlCall, sqlOutcome, sqlAnswer, tx,
                 overtaken, attempt, missed, collided, sqlCalls>>

\* Save: the messages it replaces are deleted in the same transaction.
ClearMessages(p) ==
  /\ sqlAt[p] = "clear"
  /\ RowsFree(p, DOMAIN rows[C(p)])
  /\ tx' = [tx EXCEPT ![p].gone = DOMAIN rows[C(p)], ![p].next = 0]
  /\ SqlGoto(p, "insert")
  /\ UNCHANGED <<convLock, rowLock, overtaken, missed, collided>>

\* Append: SELECT COALESCE(MAX(seq), -1).
MaxSeq(p) ==
  /\ sqlAt[p] = "max"
  /\ tx' = [tx EXCEPT ![p].next =
       IF SeesRows(p) = {} THEN 0
       ELSE 1 + CHOOSE s \in SeesRows(p) : \A t \in SeesRows(p) : t <= s]
  /\ SqlGoto(p, "insert")
  /\ UNCHANGED <<convLock, rowLock, overtaken, missed, collided>>

\* The rows of the next INSERT statement, at most ChunkRows of them.
ChunkLen(p) == IF Len(tx[p].left) < ChunkRows THEN Len(tx[p].left) ELSE ChunkRows
ChunkSeqs(p) == tx[p].next .. (tx[p].next + ChunkLen(p) - 1)

InsertChunk(p) ==
  LET t == tx[p]
      seqs == ChunkSeqs(p)
  IN
  /\ sqlAt[p] = "insert"
  /\ t.left # <<>>
  /\ SeesSession(p)
  /\ \A o \in Others(p) : DOMAIN o.new \cap seqs = {}
  /\ seqs \cap SeesRows(p) = {}
  /\ tx' = [tx EXCEPT
       ![p].new = [s \in DOMAIN t.new \cup seqs |->
                     IF s \in seqs THEN t.left[s - t.next + 1] ELSE t.new[s]],
       ![p].next = t.next + ChunkLen(p),
       ![p].left = SubSeq(t.left, ChunkLen(p) + 1, Len(t.left))]
  /\ SqlGoto(p, "insert")
  /\ UNCHANGED <<convLock, rowLock, overtaken, missed, collided>>

\* The unique index refuses a chunk: an error that is not retried.
InsertCollides(p) ==
  /\ sqlAt[p] = "insert"
  /\ tx[p].left # <<>>
  /\ ChunkSeqs(p) \cap SeesRows(p) # {}
  /\ collided' = TRUE
  /\ overtaken' = overtaken \ {p}
  /\ SqlReturn(p, "failed", <<>>)
  /\ UNCHANGED <<database, missed>>

\* Everything a transaction has done becomes visible at once.
Commit(p, reported) ==
  LET t == tx[p] IN
  /\ sqlAt[p] = "insert"
  /\ t.left = <<>>
  /\ session' = IF t.row = NoRow THEN session ELSE [session EXCEPT ![C(p)] = t.row]
  /\ rows' = [rows EXCEPT ![C(p)] =
       [s \in (DOMAIN @ \ t.gone) \cup DOMAIN t.new |->
          IF s \in DOMAIN t.new THEN t.new[s] ELSE @[s]]]
  /\ overtaken' = OvertakenBy(p)
  /\ SqlReturn(p, reported, <<>>)
  /\ UNCHANGED <<missed, collided>>

-------------------------------------------------------------------------------
\* Operations of one statement, and SaveSession, whose transaction takes its
\* locks with its first statement and needs no other.

\* Load: one SELECT.
SelectMessages(p) ==
  /\ sqlAt[p] = "load"
  /\ SqlReturn(p, "ok", InSeqOrder(rows[C(p)]))
  /\ UNCHANGED <<database, overtaken, missed, collided>>

DeleteMessages(p, reported) ==
  /\ sqlAt[p] = "delete"
  /\ Sqlite => MayWrite(p)
  /\ RowsFree(p, DOMAIN rows[C(p)])
  /\ rows' = [rows EXCEPT ![C(p)] = NoRows]
  /\ overtaken' = OvertakenBy(p)
  /\ SqlReturn(p, reported, <<>>)
  /\ UNCHANGED <<session, missed, collided>>

\* Deleting the session deletes its messages (ON DELETE CASCADE), and waits for
\* transactions that have inserted some.
DeleteSession(p, reported) ==
  /\ sqlAt[p] = "deleteSession"
  /\ MayWrite(p)
  /\ RowsFree(p, DOMAIN rows[C(p)])
  /\ \A t \in Others(p) : DOMAIN t.new = {}
  /\ session' = [session EXCEPT ![C(p)] = NoRow]
  /\ rows' = [rows EXCEPT ![C(p)] = NoRows]
  /\ overtaken' = OvertakenBy(p)
  /\ SqlReturn(p, reported, <<>>)
  /\ UNCHANGED <<missed, collided>>

\* SaveSession: users and agents are only added to, the session row is replaced.
UpsertSession(p, reported) ==
  /\ sqlAt[p] = "saveSession"
  /\ MayWrite(p)
  /\ session' = [session EXCEPT ![C(p)] = SavedRow(p)]
  /\ overtaken' = OvertakenBy(p)
  /\ SqlReturn(p, reported, <<>>)
  /\ UNCHANGED <<rows, missed, collided>>

\* The steps that change what is committed, and what their callers may be told.
TakesEffect(p, reported) ==
  \/ Commit(p, reported) \/ DeleteMessages(p, reported)
  \/ DeleteSession(p, reported) \/ UpsertSession(p, reported)

Reports == IF Sqlite THEN {"ok"} ELSE {"ok", "failed"}

-------------------------------------------------------------------------------
\* Failures: the deferred Rollback undoes the transaction.

\* postgres: the connection is lost, or the context ends, before the answer is in.
Unanswered(p) == ~Sqlite /\ TakesEffect(p, "failed")

\* A context that ends, a lost connection, a failed statement or constraint.
SqlFails(p) ==
  /\ sqlAt[p] \notin {"idle", "mutex"}
  /\ overtaken' = overtaken \ {p}
  /\ SqlReturn(p, "failed", <<>>)
  /\ UNCHANGED <<database, missed, collided>>

Contended(p) == ~MayWrite(p) \/ \E q \in Callers \ {p} : tx[q].open

\* Mutant: the attempts are not counted.
MutantBusy(p) ==
  /\ Sqlite
  /\ sqlAt[p] \in {"begin", "stub", "lock", "insert"}
  /\ Contended(p)
  /\ attempt' = [attempt EXCEPT ![p] = @ + 1]
  /\ sqlAt' = [sqlAt EXCEPT ![p] = "begin"]
  /\ rowLock' = Freed(p)
  /\ tx' = [tx EXCEPT ![p] = NoTx]
  /\ overtaken' = overtaken \ {p}
  /\ UNCHANGED <<dialect, database, convLock, sqlCall, sqlOutcome, sqlAnswer, missed,
                 collided, sqlCalls>>

\* SQLITE_BUSY: another writer, a snapshot that was overtaken, or a reader in the
\* way of the commit; the first read, too, may find the database locked.  Save and Append
\* begin anew after a pause, Delete and the session operations return the error
\* (SqlFails).
Busy(p) ==
  /\ Sqlite
  /\ sqlAt[p] \in {"begin", "stub", "lock", "insert"}
  /\ Contended(p)
  /\ attempt[p] + 1 < MaxAttempts
  /\ attempt' = [attempt EXCEPT ![p] = @ + 1]
  /\ sqlAt' = [sqlAt EXCEPT ![p] = "begin"]
  /\ rowLock' = Freed(p)
  /\ tx' = [tx EXCEPT ![p] = NoTx]
  /\ overtaken' = overtaken \ {p}
  /\ UNCHANGED <<dialect, database, convLock, sqlCall, sqlOutcome, sqlAnswer, missed,
                 collided, sqlCalls>>

SqlStep(p) ==
  \/ LockConversation(p) \/ SessionExists(p) \/ EnsureStub(p) \/ LockSession(p)
  \/ ClearMessages(p) \/ MaxSeq(p) \/ InsertChunk(p) \/ InsertCollides(p)
  \/ Commit(p, "ok") \/ SelectMessages(p)
  \/ DeleteMessages(p, "ok") \/ DeleteSession(p, "ok") \/ UpsertSession(p, "ok")
  \/ Unanswered(p) \/ SqlFails(p) \/ Busy(p)

SqlNext ==
  \/ \E p \in Callers : SqlStep(p)
  \/ \E p \in Callers, r \in StoreCall(ConversationOps \cup SessionOps) : SqlInvoke(p, r)

SqlSpec == SqlInit /\ [][SqlNext]_sqlVars

\* The mutexes and the database's locks are granted to every waiter in the end.
SqlFairness == \A p \in Callers : SF_sqlVars(SqlStep(p))

-------------------------------------------------------------------------------

\* Type invariant.
SqlTypeOK ==
  /\ dialect \in Dialects
  /\ session \in [Convs -> {NoRow, StubRow} \cup {SavedRow(p) : p \in Callers}]
  /\ \A c \in Convs : DOMAIN rows[c] \subseteq Nat
  /\ convLock \in [Convs -> Callers \cup {Nobody}]
  /\ rowLock \in [Convs \cup {Database} -> Callers \cup {Nobody}]
  /\ sqlAt \in [Callers -> {"idle", "mutex", "begin", "stub", "lock", "clear", "max",
                "insert", "load", "delete", "saveSession", "deleteSession"}]
  /\ sqlCall \in [Callers -> StoreCall(ConversationOps \cup SessionOps)]
  /\ sqlOutcome \in [Callers -> Outcome]
  /\ overtaken \in SUBSET Callers
  /\ attempt \in [Callers -> 0..(MaxAttempts - 1)]
  /\ missed \in BOOLEAN /\ collided \in BOOLEAN

\* ListSessions with a user: its sessions, a stub being nobody's.
ListSessions(user) == {c \in Convs : session[c] = SavedRow(user)}

SqlAbstract(clean) == INSTANCE ConversationStore WITH
  contents <- [c \in Convs |-> InSeqOrder(rows[c])],
  request <- sqlCall, outcome <- sqlOutcome, answer <- sqlAnswer,
  Operations <- ConversationOps \cup SessionOps, FailureIsClean <- clean

\* A commit of sqlite is answered; one of postgres may not be.
SqlAbstractStep ==
  \/ Sqlite /\ SqlAbstract(TRUE)!StoreNext
  \/ ~Sqlite /\ SqlAbstract(FALSE)!StoreNext
  \/ UNCHANGED SqlAbstract(TRUE)!storeVars

\* As long as every writer has locked the row of its session, the operations are
\* atomic: chunks, retries, rollbacks and concurrent writers never lose, repeat,
\* split or reorder messages.  (A session deleted between sessionExists and
\* lockSession leaves postgres' writers without a lock: missed.)
SqlImplementsStore ==
  /\ SqlAbstract(TRUE)!StoreInit
  /\ [][missed' \/ SqlAbstractStep]_sqlVars

\* The numbering of an Append is never refused by the unique index, again unless
\* a session was deleted under a postgres writer.
AppendsNeverCollide == collided => missed

\* With sqlite a writer always finds the row it locks: DeleteSession, which takes
\* no conversation lock, cannot come between.
SqliteLocksItsSession == Sqlite => ~missed

\* A saved session stays listed under its user until a session operation that saves
\* or deletes it returns (with success; with postgres perhaps without an answer): the
\* stub of a concurrent Save or Append never replaces it.
SavedSessionStays == [][\A user \in Callers : \A c \in ListSessions(user) :
  \/ c \in ListSessions(user)'
  \/ \E q \in Callers : /\ sqlCall[q].conv = c /\ sqlCall[q].op \in SessionOps
                        /\ sqlOutcome[q] = "pending" /\ sqlOutcome'[q] \in Reports]_sqlVars
===============================================================================
