------------------------------- MODULE FileStore -------------------------------
(***************************************************************************)
(* store/file.ConversationStore: one JSON file per conversation under one  *)
(* read-write lock, replaced through a temporary file.  Any call may be    *)
(* cancelled by its context, any file operation may fail, and the process  *)
(* may crash between two of them and come back with the directory as it    *)
(* was left.                                                               *)
(***************************************************************************)
EXTENDS StoreCalls, FiniteSets

CONSTANTS
  InvalidConvs,  \* ids filePath refuses: empty, absolute, with a separator
  MaxFileCalls,  \* bound on the calls of a behaviour
  MaxCrashes     \* bound on its crashes

ASSUME FileStoreAssumption ==
  InvalidConvs \subseteq Convs /\ {MaxFileCalls, MaxCrashes} \subseteq Nat

VARIABLES
  file,       \* path(c): what os.ReadFile finds
  temp,       \* path(c) + ".tmp"
  writer,     \* the holder of the write lock
  readers,    \* the holders of the read lock
  fileAt,     \* where each caller is
  cancelled,  \* the callers whose context is done
  fileCall,   \* the call a caller is in, or made last
  data,       \* the bytes it is going to write
  fileOutcome,
  fileAnswer,
  fileCalls,  \* the calls made so far
  crashes

fileVars == <<file, temp, writer, readers, fileAt, cancelled, fileCall, data,
              fileOutcome, fileAnswer, fileCalls, crashes>>
disk == <<file, temp>>
locks == <<writer, readers>>

Absent == [is |-> "absent", msgs |-> <<>>]
Torn == [is |-> "torn", msgs |-> <<>>]
Json(msgs) == [is |-> "json", msgs |-> msgs]

FileInit ==
  /\ file = [c \in Convs |-> Absent]
  /\ temp = [c \in Convs |-> Absent]
  /\ writer = Nobody
  /\ readers = {}
  /\ fileAt = [p \in Callers |-> "idle"]
  /\ cancelled = {}
  /\ fileCall = [p \in Callers |-> CHOOSE r \in StoreCall({"load"}) : TRUE]
  /\ data = [p \in Callers |-> <<>>]
  /\ fileOutcome = [p \in Callers |-> "none"]
  /\ fileAnswer = [p \in Callers |-> <<>>]
  /\ fileCalls = 0
  /\ crashes = 0

Conv(p) == fileCall[p].conv
Op(p) == fileCall[p].op

\* Mutant: a call that fails returns without unlocking.
MutantFileReturn(p, result, found) ==
  /\ fileAt' = [fileAt EXCEPT ![p] = "idle"]
  /\ fileOutcome' = [fileOutcome EXCEPT ![p] = result]
  /\ fileAnswer' = [fileAnswer EXCEPT ![p] = found]
  /\ writer' = IF writer = p /\ result = "ok" THEN Nobody ELSE writer
  /\ readers' = IF result = "ok" THEN readers \ {p} ELSE readers
  /\ cancelled' = cancelled \ {p}
  /\ data' = [data EXCEPT ![p] = <<>>]
  /\ UNCHANGED <<fileCall, fileCalls, crashes>>

\* The deferred unlock and the return, on every path.
FileReturn(p, result, found) ==
  /\ fileAt' = [fileAt EXCEPT ![p] = "idle"]
  /\ fileOutcome' = [fileOutcome EXCEPT ![p] = result]
  /\ fileAnswer' = [fileAnswer EXCEPT ![p] = found]
  /\ writer' = IF writer = p THEN Nobody ELSE writer
  /\ readers' = readers \ {p}
  /\ cancelled' = cancelled \ {p}
  /\ data' = [data EXCEPT ![p] = <<>>]
  /\ UNCHANGED <<fileCall, fileCalls, crashes>>

FileGoto(p, place) ==
  /\ fileAt' = [fileAt EXCEPT ![p] = place]
  /\ UNCHANGED <<cancelled, fileCall, fileOutcome, fileAnswer, fileCalls, crashes>>

-------------------------------------------------------------------------------

FileInvoke(p, r) ==
  /\ fileAt[p] = "idle"
  /\ fileCalls < MaxFileCalls
  /\ fileCalls' = fileCalls + 1
  /\ fileAt' = [fileAt EXCEPT ![p] = "entry"]
  /\ fileCall' = [fileCall EXCEPT ![p] = r]
  /\ fileOutcome' = [fileOutcome EXCEPT ![p] = "pending"]
  /\ fileAnswer' = [fileAnswer EXCEPT ![p] = <<>>]
  /\ UNCHANGED <<disk, locks, cancelled, data, crashes>>

ContextEnds(p) ==
  /\ fileAt[p] # "idle"
  /\ cancelled' = cancelled \cup {p}
  /\ UNCHANGED <<disk, locks, fileAt, fileCall, data, fileOutcome, fileAnswer, fileCalls,
                 crashes>>

\* The first look at the context; the wait for the lock does not watch it.
CheckContext(p) ==
  /\ fileAt[p] = "entry"
  /\ IF p \in cancelled THEN FileReturn(p, "failed", <<>>)
     ELSE FileGoto(p, "lock") /\ UNCHANGED <<locks, data>>
  /\ UNCHANGED disk

\* A context that has ended, or a file operation that fails and leaves no trace.
FileRefuse(p) ==
  /\ fileAt[p] \in {"read", "remove", "write"}
  /\ FileReturn(p, "failed", <<>>)
  /\ UNCHANGED disk

\* What follows the lock and the checks under it.
FirstStep(op) ==
  CASE op \in {"load", "append"} -> "read"
    [] op = "save"               -> "write"
    [] op = "delete"             -> "remove"

LockWriter(p) ==
  /\ fileAt[p] = "lock"
  /\ Op(p) # "load"
  /\ p \notin cancelled
  /\ Conv(p) \notin InvalidConvs
  /\ writer = Nobody /\ readers = {}
  /\ writer' = p
  /\ data' = [data EXCEPT ![p] = fileCall[p].msgs]
  /\ FileGoto(p, FirstStep(Op(p)))
  /\ UNCHANGED <<disk, readers>>

LockReader(p) ==
  /\ fileAt[p] = "lock"
  /\ Op(p) = "load"
  /\ p \notin cancelled
  /\ Conv(p) \notin InvalidConvs
  /\ writer = Nobody
  /\ readers' = readers \cup {p}
  /\ FileGoto(p, FirstStep(Op(p)))
  /\ UNCHANGED <<disk, writer, data>>

\* The context is looked at again under the lock, then the id.
RefuseUnderLock(p) ==
  /\ fileAt[p] = "lock"
  /\ p \in cancelled \/ Conv(p) \in InvalidConvs
  /\ writer = Nobody
  /\ Op(p) = "load" \/ readers = {}
  /\ FileReturn(p, "failed", <<>>)
  /\ UNCHANGED disk

\* A file that cannot be decoded fails the call; a missing one is empty.
ReadFile(p) ==
  /\ fileAt[p] = "read"
  /\ p \notin cancelled
  /\ IF file[Conv(p)] = Torn THEN FileReturn(p, "failed", <<>>)
     ELSE IF Op(p) = "load" THEN FileReturn(p, "ok", file[Conv(p)].msgs)
     ELSE /\ data' = [data EXCEPT ![p] = file[Conv(p)].msgs \o fileCall[p].msgs]
          /\ FileGoto(p, "write")
          /\ UNCHANGED locks
  /\ UNCHANGED disk

\* Mutant: the file itself is opened for writing.
MutantTruncateTemp(p) ==
  /\ fileAt[p] = "write"
  /\ p \notin cancelled
  /\ file' = [file EXCEPT ![Conv(p)] = Torn]
  /\ FileGoto(p, "writing")
  /\ UNCHANGED <<temp, locks, data>>

\* os.WriteFile: the file is truncated first and complete only later.
TruncateTemp(p) ==
  /\ fileAt[p] = "write"
  /\ p \notin cancelled
  /\ temp' = [temp EXCEPT ![Conv(p)] = Torn]
  /\ FileGoto(p, "writing")
  /\ UNCHANGED <<file, locks, data>>

WriteTemp(p) ==
  /\ fileAt[p] = "writing"
  /\ temp' = [temp EXCEPT ![Conv(p)] = Json(data[p])]
  /\ FileGoto(p, "rename")
  /\ UNCHANGED <<file, locks, data>>

\* A write that fails leaves its part of the temporary file behind.
WriteTempFails(p) ==
  /\ fileAt[p] = "writing"
  /\ FileReturn(p, "failed", <<>>)
  /\ UNCHANGED disk

Rename(p) ==
  /\ fileAt[p] = "rename"
  /\ p \notin cancelled
  /\ file' = [file EXCEPT ![Conv(p)] = temp[Conv(p)]]
  /\ temp' = [temp EXCEPT ![Conv(p)] = Absent]
  /\ FileReturn(p, "ok", <<>>)

\* Cancelled, or the rename fails: the temporary file is removed, if it can be.
RemoveTemp(p) ==
  /\ fileAt[p] = "rename"
  /\ temp' \in {temp, [temp EXCEPT ![Conv(p)] = Absent]}
  /\ FileReturn(p, "failed", <<>>)
  /\ UNCHANGED file

RemoveFile(p) ==
  /\ fileAt[p] = "remove"
  /\ p \notin cancelled
  /\ file' = [file EXCEPT ![Conv(p)] = Absent]
  /\ FileReturn(p, "ok", <<>>)
  /\ UNCHANGED temp

\* The process ends; the next one starts with a free lock and the same files.
FileCrash ==
  /\ crashes < MaxCrashes
  /\ crashes' = crashes + 1
  /\ writer' = Nobody
  /\ readers' = {}
  /\ fileAt' = [p \in Callers |-> "idle"]
  /\ fileOutcome' = [p \in Callers |->
       IF fileAt[p] # "idle" THEN "failed" ELSE fileOutcome[p]]
  /\ cancelled' = {}
  /\ data' = [p \in Callers |-> <<>>]
  /\ UNCHANGED <<disk, fileCall, fileAnswer, fileCalls>>

FileLock(p) == LockWriter(p) \/ LockReader(p) \/ RefuseUnderLock(p)

FileStep(p) ==
  \/ CheckContext(p) \/ FileLock(p) \/ FileRefuse(p) \/ ReadFile(p)
  \/ TruncateTemp(p) \/ WriteTemp(p) \/ WriteTempFails(p) \/ Rename(p)
  \/ RemoveTemp(p) \/ RemoveFile(p)

FileNext ==
  \/ \E p \in Callers : FileStep(p) \/ ContextEnds(p)
  \/ \E p \in Callers, r \in StoreCall(ConversationOps) : FileInvoke(p, r)
  \/ FileCrash

FileSpec == FileInit /\ [][FileNext]_fileVars

\* A goroutine in a call goes on; a lock that is free again and again is given to
\* every waiter (sync.RWMutex starves neither readers nor writers).
FileFairness == \A p \in Callers :
  WF_fileVars(FileStep(p)) /\ SF_fileVars(FileLock(p))

-------------------------------------------------------------------------------

\* Type invariant: also, what a Load finds is never half-written, however a write of
\* the temporary file ends.
FileTypeOK ==
  /\ \A c \in Convs : file[c].is \in {"absent", "json"} /\ temp[c].is \in {"absent", "torn", "json"}
  /\ writer \in Callers \cup {Nobody}
  /\ readers \in SUBSET Callers
  /\ fileAt \in [Callers -> {"idle", "entry", "lock", "read", "write", "writing",
                            "rename", "remove"}]
  /\ cancelled \in SUBSET Callers
  /\ fileCall \in [Callers -> StoreCall(ConversationOps)]
  /\ fileOutcome \in [Callers -> Outcome]
  /\ fileCalls \in 0..MaxFileCalls /\ crashes \in 0..MaxCrashes

FileAbstract == INSTANCE ConversationStore WITH
  contents <- [c \in Convs |-> file[c].msgs],
  request <- fileCall, outcome <- fileOutcome, answer <- fileAnswer,
  Operations <- ConversationOps, FailureIsClean <- TRUE

\* Every operation is atomic, an interrupted Save or Append leaves the previous
\* messages, no Append is lost to another, and a call that reports failure has
\* changed nothing, whatever fails, is cancelled or crashes half-way.
FileImplementsStore == FileAbstract!StoreSpec
===============================================================================
