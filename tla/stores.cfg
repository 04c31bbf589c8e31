SPECIFICATION Spec
CONSTANTS
  Callers = {p1, p2}
  Convs = {c1}
  InvalidConvs = {}
  Nobody = nobody
  m1 = m1
  m2 = m2
  Batches <- MCBatches
  MaxFileCalls = 2
  MaxCrashes = 1
  Inputs = {m1, m2}
  MaxCells = 4
  Database = db
  Dialects <- MCDialects
  ChunkRows = 1
  MaxAttempts = 2
  MaxSqlCalls = 3
  Openers = {p1, p2}
  SchemaDialects <- MCSchemaDialects
  MaxOpens = 3
INVARIANTS
  StoresTypeOK
  AppendsNeverCollide
  SqliteLocksItsSession
  MigrationResumes
PROPERTIES
  FileImplementsStore
  MemImplementsStore
  SqlImplementsStore
  SavedSessionStays
  CallsReturn
CHECK_DEADLOCK FALSE
