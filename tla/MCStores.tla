------------------------------- MODULE MCStores -------------------------------
(* The stores for TLC.  A behaviour is one of the file store, the in-memory   *)
(* store, the SQL store or the SQL schema; the variables of the others rest.  *)
EXTENDS FileStore, InMemStore, SqlStore, SqlMigration

CONSTANTS m1, m2   \* messages

VARIABLE part

allVars == <<part, fileVars, memVars, sqlVars, schemaVars>>

MCBatches == {<<>>, <<m1>>, <<m2, m1>>}
MCDialects == {"sqlite", "postgres"}
MCSchemaDialects == MCDialects \cup {"mysql"}

Init ==
  /\ FileInit /\ MemInit /\ SqlInit /\ SchemaInit
  /\ part \in {"file", "mem", "sql", "schema"}
  /\ part # "sql" => dialect = "sqlite" /\ session = [c \in Convs |-> NoRow]
  /\ part # "schema" => server = "sqlite"

File(A) == part = "file" /\ A /\ UNCHANGED <<part, memVars, sqlVars, schemaVars>>
Mem(A) == part = "mem" /\ A /\ UNCHANGED <<part, fileVars, sqlVars, schemaVars>>
Sql(A) == part = "sql" /\ A /\ UNCHANGED <<part, fileVars, memVars, schemaVars>>
Schema(A) == part = "schema" /\ A /\ UNCHANGED <<part, fileVars, memVars, sqlVars>>

Next == File(FileNext) \/ Mem(MemNext) \/ Sql(SqlNext) \/ Schema(SchemaNext)

\* FileFairness and SqlFairness, each for the behaviours of its part.
Fairness == \A p \in Callers :
  /\ WF_allVars(File(FileStep(p)))
  /\ SF_allVars(File(FileLock(p)))
  /\ SF_allVars(Sql(SqlStep(p)))

Spec == Init /\ [][Next]_allVars /\ Fairness

InCall(p) == fileAt[p] # "idle" \/ sqlAt[p] # "idle"

\* Every call of a file or SQL store returns: no path, of success, refusal, error
\* or retry, keeps a lock another call waits for.
CallsReturn == \A p \in Callers : InCall(p) ~> ~InCall(p)

\* The type invariants of the parts.
StoresTypeOK == FileTypeOK /\ SqlTypeOK
===============================================================================
