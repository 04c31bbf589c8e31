----------------------------- MODULE Stores_proofs -----------------------------
(***************************************************************************)
(* For every set of callers, conversations and messages: the file store    *)
(* implements ConversationStore, whatever fails, is cancelled or crashes   *)
(* between two file operations; the in-memory store does, whatever callers *)
(* do to the messages they share with it; and the migration of a SQL       *)
(* schema can always be resumed.                                           *)
(***************************************************************************)
EXTENDS FileStore, InMemStore, SqlMigration, SequenceTheorems, TLAPS

-------------------------------------------------------------------------------
(* The inductive invariant of the file store.                              *)

Places == {"idle", "entry", "lock", "read", "write", "writing", "rename", "remove"}

FileTypes ==
  /\ file = [c \in Convs |-> file[c]]
  /\ temp = [c \in Convs |-> temp[c]]
  /\ \A c \in Convs : file[c].is \in {"absent", "json"}
  /\ \A c \in Convs : temp[c].is \in {"absent", "torn", "json"}
  /\ writer \in Callers \cup {Nobody}
  /\ readers \in SUBSET Callers
  /\ fileAt \in [Callers -> Places]
  /\ cancelled \in SUBSET Callers
  /\ fileCall \in [Callers -> StoreCall(ConversationOps)]
  /\ data = [p \in Callers |-> data[p]]
  /\ fileOutcome \in [Callers -> Outcome]
  /\ fileAnswer = [p \in Callers |-> fileAnswer[p]]
  /\ fileCalls \in 0 .. MaxFileCalls /\ crashes \in 0 .. MaxCrashes

(* Where a caller holds the write lock.                                    *)
Writing(p) ==
  \/ fileAt[p] \in {"write", "writing", "rename", "remove"}
  \/ fileAt[p] = "read" /\ Op(p) # "load"

(* A caller is pending exactly while it is in its call; it holds a lock    *)
(* exactly where the code has it; from the moment it may write, what it is *)
(* going to write is what its operation makes of the file as it is; and    *)
(* what it is about to rename is whole.                                    *)
CallerOK(p) ==
  /\ fileOutcome[p] = "pending" <=> fileAt[p] # "idle"
  /\ fileOutcome[p] = "pending" => fileAnswer[p] = <<>>
  /\ writer = p <=> Writing(p)
  /\ p \in readers <=> fileAt[p] = "read" /\ Op(p) = "load"
  /\ fileAt[p] = "read" => Op(p) \in {"load", "append"}
  /\ fileAt[p] \in {"write", "writing", "rename"} =>
       /\ Op(p) \in {"save", "append"}
       /\ data[p] = After(fileCall[p], file[Conv(p)].msgs)
  /\ fileAt[p] = "rename" => temp[Conv(p)] = Json(data[p])
  /\ fileAt[p] = "remove" => Op(p) = "delete"

FileInv == FileTypes /\ \A p \in Callers : CallerOK(p)

LEMMA LoadCallExists == (CHOOSE r \in StoreCall({"load"}) : TRUE) \in StoreCall(ConversationOps)
<1>1. PICK c \in Convs : TRUE
  BY StoreCallsAssumption
<1>2. [op |-> "load", conv |-> c, msgs |-> <<>>] \in StoreCall({"load"})
  BY StoreCallsAssumption DEF StoreCall
<1>3. (CHOOSE r \in StoreCall({"load"}) : TRUE) \in StoreCall({"load"})
  BY <1>2
<1>4. StoreCall({"load"}) \subseteq StoreCall(ConversationOps)
  BY DEF StoreCall, ConversationOps
<1> QED
  BY <1>3, <1>4

LEMMA CallType ==
  ASSUME FileTypes, NEW p \in Callers
  PROVE  Conv(p) \in Convs /\ Op(p) \in ConversationOps /\ (Op(p) \in {"load", "delete"} => fileCall[p].msgs = <<>>)
BY DEF FileTypes, StoreCall, Conv, Op, ConversationOps, WithMessages

LEMMA FileInitInv == FileInit => FileInv
<1> SUFFICES ASSUME FileInit PROVE FileInv
  OBVIOUS
<1> USE DEF FileInit
<1>1. FileTypes
  <2>1. /\ fileCall \in [Callers -> StoreCall(ConversationOps)]
        /\ fileOutcome \in [Callers -> Outcome] /\ fileAt \in [Callers -> Places]
    BY LoadCallExists DEF Places, Outcome
  <2>2. fileCalls \in 0 .. MaxFileCalls /\ crashes \in 0 .. MaxCrashes
    BY FileStoreAssumption
  <2>3. \A c \in Convs : file[c].is = "absent" /\ temp[c].is = "absent"
    BY DEF Absent
  <2> QED
    BY <2>1, <2>2, <2>3 DEF FileTypes
<1>2. \A p \in Callers : CallerOK(p)
  BY StoreCallsAssumption DEF CallerOK, Writing
<1> QED
  BY <1>1, <1>2 DEF FileInv

(* A step of another caller leaves a caller's own state alone, and the     *)
(* files too when it has the write lock.                                   *)
LEMMA OtherCallerKept ==
  ASSUME FileInv, NEW q \in Callers,
         fileAt'[q] = fileAt[q], fileCall'[q] = fileCall[q], data'[q] = data[q],
         fileOutcome'[q] = fileOutcome[q], fileAnswer'[q] = fileAnswer[q],
         writer' = q <=> writer = q, q \in readers' <=> q \in readers,
         writer = q => UNCHANGED disk
  PROVE  CallerOK(q)'
<1>1. Op(q)' = Op(q) /\ Conv(q)' = Conv(q) /\ (Writing(q)' <=> Writing(q))
  BY DEF Op, Conv, Writing
<1>2. CallerOK(q)
  BY DEF FileInv
<1>3. Writing(q) => file' = file /\ temp' = temp
  BY <1>2 DEF CallerOK, disk
<1>4. fileAt[q] \in {"write", "writing", "rename"} => Writing(q)
  BY DEF Writing
<1> QED
  BY <1>1, <1>2, <1>3, <1>4 DEF CallerOK

(* A step of p alone; what is left to show concerns p.                     *)
LEMMA StepOfCaller ==
  ASSUME FileInv, NEW p \in Callers, FileTypes', CallerOK(p)',
         \A q \in Callers \ {p} :
           /\ fileAt'[q] = fileAt[q] /\ fileCall'[q] = fileCall[q] /\ data'[q] = data[q]
           /\ fileOutcome'[q] = fileOutcome[q] /\ fileAnswer'[q] = fileAnswer[q]
           /\ writer' = q <=> writer = q
           /\ q \in readers' <=> q \in readers,
         writer \in Callers \ {p} => UNCHANGED disk
  PROVE  FileInv'
<1>1. ASSUME NEW q \in Callers \ {p} PROVE CallerOK(q)'
  BY <1>1, OtherCallerKept
<1> QED
  BY <1>1 DEF FileInv

(* The return, on every path: the locks the caller has are given back.     *)
LEMMA ReturnKeepsInv ==
  ASSUME FileInv, NEW p \in Callers, NEW result \in {"ok", "failed"}, NEW found,
         FileReturn(p, result, found),
         file' = [c \in Convs |-> file'[c]], temp' = [c \in Convs |-> temp'[c]],
         \A c \in Convs : file'[c].is \in {"absent", "json"},
         \A c \in Convs : temp'[c].is \in {"absent", "torn", "json"},
         UNCHANGED disk \/ writer = p
  PROVE  FileInv'
<1> USE DEF FileInv
<1>1. /\ fileAt' = [fileAt EXCEPT ![p] = "idle"]
      /\ fileOutcome' = [fileOutcome EXCEPT ![p] = result]
      /\ fileAnswer' = [fileAnswer EXCEPT ![p] = found]
      /\ writer' = IF writer = p THEN Nobody ELSE writer
      /\ readers' = readers \ {p} /\ cancelled' = cancelled \ {p}
      /\ data' = [data EXCEPT ![p] = <<>>]
      /\ UNCHANGED <<fileCall, fileCalls, crashes>>
  BY DEF FileReturn
<1>2. FileTypes'
  <2>1. /\ fileAt' \in [Callers -> Places] /\ fileOutcome' \in [Callers -> Outcome]
        /\ writer' \in Callers \cup {Nobody} /\ readers' \in SUBSET Callers
        /\ cancelled' \in SUBSET Callers
    BY <1>1 DEF FileTypes, Places, Outcome
  <2>2. data' = [q \in Callers |-> data'[q]] /\ fileAnswer' = [q \in Callers |-> fileAnswer'[q]]
    BY <1>1 DEF FileTypes
  <2>3. UNCHANGED <<fileCall, fileCalls, crashes>>
    BY <1>1
  <2> QED
    BY <2>1, <2>2, <2>3 DEF FileTypes
<1>3. CallerOK(p)'
  <2>1. /\ fileAt'[p] = "idle" /\ fileOutcome'[p] # "pending"
        /\ writer' # p /\ p \notin readers'
    BY <1>1, StoreCallsAssumption DEF FileTypes
  <2> QED
    BY <2>1 DEF CallerOK, Writing
<1>4. \A q \in Callers \ {p} :
        /\ fileAt'[q] = fileAt[q] /\ fileCall'[q] = fileCall[q] /\ data'[q] = data[q]
        /\ fileOutcome'[q] = fileOutcome[q] /\ fileAnswer'[q] = fileAnswer[q]
        /\ writer' = q <=> writer = q
        /\ q \in readers' <=> q \in readers
  BY <1>1, StoreCallsAssumption DEF FileTypes
<1>5. writer \in Callers \ {p} => UNCHANGED disk
  OBVIOUS
<1> QED
  BY <1>2, <1>3, <1>4, <1>5, StepOfCaller

LEMMA InvokeKeepsInv ==
  ASSUME FileInv, NEW p \in Callers, NEW r \in StoreCall(ConversationOps), FileInvoke(p, r)
  PROVE  FileInv'
<1> USE DEF FileInv, FileInvoke
<1>1. FileTypes'
  <2>1. /\ fileAt' \in [Callers -> Places] /\ fileOutcome' \in [Callers -> Outcome]
        /\ fileCall' \in [Callers -> StoreCall(ConversationOps)]
        /\ fileAnswer' = [q \in Callers |-> fileAnswer'[q]]
    BY DEF FileTypes, Places, Outcome
  <2>2. fileCalls' \in 0 .. MaxFileCalls
    BY FileStoreAssumption DEF FileTypes
  <2> QED
    BY <2>1, <2>2 DEF FileTypes, disk, locks
<1>2. CallerOK(p)'
  <2>1. fileAt'[p] = "entry" /\ fileOutcome'[p] = "pending" /\ fileAnswer'[p] = <<>>
    BY DEF FileTypes
  <2>2. writer' # p /\ p \notin readers'
    BY DEF CallerOK, Writing, locks
  <2> QED
    BY <2>1, <2>2 DEF CallerOK, Writing
<1>3. \A q \in Callers \ {p} :
        /\ fileAt'[q] = fileAt[q] /\ fileCall'[q] = fileCall[q] /\ data'[q] = data[q]
        /\ fileOutcome'[q] = fileOutcome[q] /\ fileAnswer'[q] = fileAnswer[q]
        /\ writer' = q <=> writer = q
        /\ q \in readers' <=> q \in readers
  BY DEF FileTypes, locks
<1> QED
  BY <1>1, <1>2, <1>3, StepOfCaller DEF disk

(* p goes on to another place of the same call; what the caller holds and  *)
(* is going to write stays as it is for everybody else.                    *)
LEMMA GotoKeepsInv ==
  ASSUME FileInv, NEW p \in Callers, NEW place \in Places \ {"idle"}, FileGoto(p, place),
         fileAt[p] # "idle",
         file' = file, temp' = [c \in Convs |-> temp'[c]],
         \A c \in Convs : temp'[c].is \in {"absent", "torn", "json"},
         data' = [q \in Callers |-> IF q = p THEN data'[p] ELSE data[q]],
         writer' \in {writer, p},
         writer \in {Nobody, p} \/ UNCHANGED <<temp, writer>>,
         readers' \in {readers, readers \cup {p}},
         writer' = p <=> Writing(p)',
         p \in readers' <=> place = "read" /\ Op(p) = "load",
         place = "read" => Op(p) \in {"load", "append"},
         place \in {"write", "writing", "rename"} =>
           Op(p) \in {"save", "append"} /\ data'[p] = After(fileCall[p], file[Conv(p)].msgs),
         place = "rename" => temp'[Conv(p)] = Json(data'[p]),
         place = "remove" => Op(p) = "delete"
  PROVE  FileInv'
<1> USE DEF FileInv, FileGoto
<1>1. FileTypes'
  BY DEF FileTypes, Places
<1>2. CallerOK(p)'
  <2>1. /\ fileAt'[p] = place /\ fileOutcome'[p] = fileOutcome[p]
        /\ fileAnswer'[p] = fileAnswer[p] /\ Op(p)' = Op(p) /\ Conv(p)' = Conv(p)
        /\ fileCall'[p] = fileCall[p]
    BY DEF FileTypes, Op, Conv
  <2>2. fileOutcome[p] = "pending" /\ fileAnswer[p] = <<>>
    BY DEF CallerOK
  <2> QED
    BY <2>1, <2>2 DEF CallerOK
<1>3. \A q \in Callers \ {p} :
        /\ fileAt'[q] = fileAt[q] /\ fileCall'[q] = fileCall[q] /\ data'[q] = data[q]
        /\ fileOutcome'[q] = fileOutcome[q] /\ fileAnswer'[q] = fileAnswer[q]
        /\ writer' = q <=> writer = q
        /\ q \in readers' <=> q \in readers
  BY StoreCallsAssumption DEF FileTypes
<1>4. writer \in Callers \ {p} => UNCHANGED disk
  BY StoreCallsAssumption DEF disk
<1> QED
  BY <1>1, <1>2, <1>3, <1>4, StepOfCaller

(* A return that leaves the directory as it is.                            *)
LEMMA PlainReturnKeepsInv ==
  ASSUME FileInv, NEW p \in Callers, NEW result \in {"ok", "failed"}, NEW found,
         FileReturn(p, result, found), UNCHANGED disk
  PROVE  FileInv'
<1>1. file' = file /\ temp' = temp
  BY DEF disk
<1>2. /\ file' = [c \in Convs |-> file'[c]] /\ temp' = [c \in Convs |-> temp'[c]]
      /\ \A c \in Convs : file'[c].is \in {"absent", "json"}
      /\ \A c \in Convs : temp'[c].is \in {"absent", "torn", "json"}
  BY <1>1 DEF FileInv, FileTypes
<1> QED
  BY <1>2, ReturnKeepsInv

(* A step to another place that touches neither files, locks nor data.     *)
LEMMA LockKeepsInv ==
  ASSUME FileInv, NEW p \in Callers, FileLock(p)
  PROVE  FileInv'
<1> USE DEF FileInv
<1>0. Op(p) \in ConversationOps /\ (Op(p) \in {"load", "delete"} => fileCall[p].msgs = <<>>)
  BY CallType
<1>1. CASE RefuseUnderLock(p)
  BY <1>1, PlainReturnKeepsInv DEF RefuseUnderLock
<1>2. CASE LockWriter(p)
  <2> DEFINE place == FirstStep(Op(p))
  <2>1. /\ fileAt[p] = "lock" /\ writer = Nobody /\ writer' = p /\ readers' = readers
        /\ data' = [data EXCEPT ![p] = fileCall[p].msgs] /\ UNCHANGED disk
        /\ FileGoto(p, place) /\ Op(p) \in {"save", "append", "delete"}
    BY <1>0, <1>2 DEF LockWriter, ConversationOps
  <2>2. /\ place \in {"read", "write", "remove"}
        /\ place = "read" <=> Op(p) = "append"
        /\ place = "write" <=> Op(p) = "save"
        /\ place = "remove" <=> Op(p) = "delete"
    BY <2>1 DEF FirstStep
  <2> HIDE DEF place
  <2>3. data'[p] = fileCall[p].msgs
    BY <2>1 DEF FileTypes
  <2>4. place = "write" => data'[p] = After(fileCall[p], file[Conv(p)].msgs)
    BY <2>2, <2>3 DEF After, Op
  <2>5. Writing(p)'
    BY <2>1, <2>2 DEF Writing, FileGoto, FileTypes, Op
  <2>6. p \notin readers
    BY <2>1 DEF CallerOK
  <2>7. data' = [q \in Callers |-> IF q = p THEN data'[p] ELSE data[q]]
    BY <2>1 DEF FileTypes
  <2>8. place \in Places \ {"idle"}
    BY <2>2 DEF Places
  <2> QED
    BY <2>1, <2>2, <2>4, <2>5, <2>6, <2>7, <2>8, GotoKeepsInv DEF disk, FileTypes
<1>3. CASE LockReader(p)
  <2>1. /\ fileAt[p] = "lock" /\ writer = Nobody /\ readers' = readers \cup {p}
        /\ UNCHANGED <<disk, writer, data>> /\ FileGoto(p, "read") /\ Op(p) = "load"
    BY <1>3 DEF LockReader, FirstStep
  <2>2. ~Writing(p)' /\ writer' # p
    BY <2>1, StoreCallsAssumption DEF Writing, FileGoto, FileTypes, Op
  <2> QED
    BY <2>1, <2>2, GotoKeepsInv DEF disk, FileTypes, Places
<1> QED
  BY <1>1, <1>2, <1>3 DEF FileLock

LEMMA CheckContextKeepsInv ==
  ASSUME FileInv, NEW p \in Callers, CheckContext(p)
  PROVE  FileInv'
<1> USE DEF FileInv
<1>1. CASE p \in cancelled
  BY <1>1, PlainReturnKeepsInv DEF CheckContext
<1>2. CASE p \notin cancelled
  <2>1. /\ fileAt[p] = "entry" /\ FileGoto(p, "lock") /\ UNCHANGED <<locks, data, disk>>
    BY <1>2 DEF CheckContext
  <2>2. ~Writing(p)' /\ writer' # p /\ p \notin readers'
    BY <2>1 DEF Writing, CallerOK, FileGoto, FileTypes, locks
  <2> QED
    BY <2>1, <2>2, GotoKeepsInv DEF disk, locks, FileTypes, Places
<1> QED
  BY <1>1, <1>2

LEMMA ReadFileKeepsInv ==
  ASSUME FileInv, NEW p \in Callers, ReadFile(p)
  PROVE  FileInv'
<1> USE DEF FileInv
<1>1. CASE FileReturn(p, "failed", <<>>) \/ FileReturn(p, "ok", file[Conv(p)].msgs)
  BY <1>1, PlainReturnKeepsInv DEF ReadFile
<1>2. CASE /\ data' = [data EXCEPT ![p] = file[Conv(p)].msgs \o fileCall[p].msgs]
           /\ FileGoto(p, "write") /\ UNCHANGED locks /\ Op(p) # "load"
  <2>1. fileAt[p] = "read" /\ UNCHANGED disk /\ Op(p) = "append"
    BY <1>2 DEF ReadFile, CallerOK
  <2>2. data'[p] = After(fileCall[p], file[Conv(p)].msgs)
    BY <1>2, <2>1 DEF After, Op, FileTypes
  <2>3. Writing(p)' /\ writer' = p /\ p \notin readers'
    BY <1>2, <2>1 DEF Writing, CallerOK, FileGoto, FileTypes, locks
  <2>4. data' = [q \in Callers |-> IF q = p THEN data'[p] ELSE data[q]]
    BY <1>2 DEF FileTypes
  <2> QED
    BY <1>2, <2>1, <2>2, <2>3, <2>4, GotoKeepsInv DEF disk, locks, FileTypes, Places
<1> QED
  BY <1>1, <1>2 DEF ReadFile

LEMMA WriteKeepsInv ==
  ASSUME FileInv, NEW p \in Callers, TruncateTemp(p) \/ WriteTemp(p)
  PROVE  FileInv'
<1> USE DEF FileInv
<1> DEFINE place == IF TruncateTemp(p) THEN "writing" ELSE "rename"
<1>1. /\ fileAt[p] \in {"write", "writing"} /\ FileGoto(p, place)
      /\ UNCHANGED <<file, locks, data>>
      /\ place = "writing" => temp' = [temp EXCEPT ![Conv(p)] = Torn]
      /\ place = "rename" => temp' = [temp EXCEPT ![Conv(p)] = Json(data[p])]
  BY DEF TruncateTemp, WriteTemp
<1>2. place \in {"writing", "rename"} /\ place \in Places \ {"idle"}
  BY DEF Places
<1> HIDE DEF place
<1>3. /\ Op(p) \in {"save", "append"} /\ writer = p /\ p \notin readers
      /\ data[p] = After(fileCall[p], file[Conv(p)].msgs)
  BY <1>1 DEF CallerOK, Writing
<1>4. Writing(p)'
  BY <1>1, <1>2 DEF Writing, FileGoto, FileTypes
<1>5. /\ temp' = [c \in Convs |-> temp'[c]]
      /\ \A c \in Convs : temp'[c].is \in {"absent", "torn", "json"}
      /\ place = "rename" => temp'[Conv(p)] = Json(data[p])
  <2>1. Conv(p) \in Convs
    BY CallType
  <2>2. Torn.is = "torn" /\ Json(data[p]).is = "json"
    BY DEF Torn, Json
  <2> QED
    BY <1>1, <1>2, <2>1, <2>2 DEF FileTypes
<1>6. data' = [q \in Callers |-> IF q = p THEN data'[p] ELSE data[q]]
  BY <1>1 DEF FileTypes
<1> QED
  BY <1>1, <1>2, <1>3, <1>4, <1>5, <1>6, GotoKeepsInv DEF locks

(* What a call does last, with the write lock.                             *)
LEMMA FinishKeepsInv ==
  ASSUME FileInv, NEW p \in Callers, Rename(p) \/ RemoveTemp(p) \/ RemoveFile(p)
  PROVE  FileInv'
<1> USE DEF FileInv
<1>1. writer = p /\ Conv(p) \in Convs
  BY CallType DEF Rename, RemoveTemp, RemoveFile, CallerOK, Writing
<1>2. Absent.is = "absent" /\ \A m : Json(m).is = "json"
  BY DEF Absent, Json
<1>3. CASE Rename(p)
  <2>1. temp[Conv(p)].is = "json"
    BY <1>2, <1>3 DEF Rename, CallerOK
  <2>2. /\ file' = [file EXCEPT ![Conv(p)] = temp[Conv(p)]]
        /\ temp' = [temp EXCEPT ![Conv(p)] = Absent] /\ FileReturn(p, "ok", <<>>)
    BY <1>3 DEF Rename
  <2>3. /\ file' = [c \in Convs |-> file'[c]] /\ temp' = [c \in Convs |-> temp'[c]]
        /\ \A c \in Convs : file'[c].is \in {"absent", "json"}
        /\ \A c \in Convs : temp'[c].is \in {"absent", "torn", "json"}
    BY <1>1, <1>2, <2>1, <2>2 DEF FileTypes
  <2> QED
    BY <1>1, <2>2, <2>3, ReturnKeepsInv
<1>4. CASE RemoveTemp(p)
  <2>1. /\ temp' \in {temp, [temp EXCEPT ![Conv(p)] = Absent]} /\ file' = file
        /\ FileReturn(p, "failed", <<>>)
    BY <1>4 DEF RemoveTemp
  <2>2. /\ file' = [c \in Convs |-> file'[c]] /\ temp' = [c \in Convs |-> temp'[c]]
        /\ \A c \in Convs : file'[c].is \in {"absent", "json"}
        /\ \A c \in Convs : temp'[c].is \in {"absent", "torn", "json"}
    BY <1>1, <1>2, <2>1 DEF FileTypes
  <2> QED
    BY <1>1, <2>1, <2>2, ReturnKeepsInv
<1>5. CASE RemoveFile(p)
  <2>1. /\ file' = [file EXCEPT ![Conv(p)] = Absent] /\ temp' = temp
        /\ FileReturn(p, "ok", <<>>)
    BY <1>5 DEF RemoveFile
  <2>2. /\ file' = [c \in Convs |-> file'[c]] /\ temp' = [c \in Convs |-> temp'[c]]
        /\ \A c \in Convs : file'[c].is \in {"absent", "json"}
        /\ \A c \in Convs : temp'[c].is \in {"absent", "torn", "json"}
    BY <1>1, <1>2, <2>1 DEF FileTypes
  <2> QED
    BY <1>1, <2>1, <2>2, ReturnKeepsInv
<1> QED
  BY <1>3, <1>4, <1>5

(* A crash frees the lock and leaves a temporary file at worst.            *)
LEMMA CrashKeepsInv ==
  ASSUME FileInv, FileCrash
  PROVE  FileInv'
<1> USE DEF FileInv, FileCrash
<1>1. FileTypes'
  <2>1. crashes' \in 0 .. MaxCrashes
    BY FileStoreAssumption DEF FileTypes
  <2>2. fileAt' \in [Callers -> Places] /\ fileOutcome' \in [Callers -> Outcome]
    BY DEF FileTypes, Places, Outcome
  <2> QED
    BY <2>1, <2>2 DEF FileTypes, disk
<1>2. ASSUME NEW p \in Callers PROVE CallerOK(p)'
  <2>1. fileAt'[p] = "idle" /\ writer' # p /\ p \notin readers'
    BY StoreCallsAssumption
  <2>2. fileOutcome'[p] # "pending"
    BY DEF CallerOK
  <2> QED
    BY <2>1, <2>2 DEF CallerOK, Writing
<1> QED
  BY <1>1, <1>2

LEMMA FileNextInv == FileInv /\ [FileNext]_fileVars => FileInv'
<1> SUFFICES ASSUME FileInv, [FileNext]_fileVars PROVE FileInv'
  OBVIOUS
<1>1. ASSUME NEW p \in Callers, FileRefuse(p) \/ WriteTempFails(p) PROVE FileInv'
  BY <1>1, PlainReturnKeepsInv DEF FileRefuse, WriteTempFails
<1>2. ASSUME NEW p \in Callers, FileStep(p) PROVE FileInv'
  BY <1>1, <1>2, CheckContextKeepsInv, LockKeepsInv, ReadFileKeepsInv, WriteKeepsInv,
     FinishKeepsInv DEF FileStep
<1>3. ASSUME NEW p \in Callers, ContextEnds(p) PROVE FileInv'
  BY <1>3 DEF ContextEnds, disk, locks, FileInv, FileTypes, CallerOK, Writing, Op, Conv
<1>4. CASE UNCHANGED fileVars
  BY <1>4 DEF fileVars, disk, locks, FileInv, FileTypes, CallerOK, Writing, Op, Conv
<1> QED
  BY <1>2, <1>3, <1>4, InvokeKeepsInv, CrashKeepsInv DEF FileNext

LEMMA FileSpecInv == FileSpec => []FileInv
BY FileInitInv, FileNextInv, PTL DEF FileSpec

(* Type correctness of the file store; what a Load finds is never          *)
(* half-written, whatever fails, is cancelled or crashes during a write.   *)
THEOREM FileTypeCorrect == FileSpec => []FileTypeOK
<1>1. FileInv => FileTypeOK
  BY DEF FileInv, FileTypes, FileTypeOK, Places
<1> QED
  BY <1>1, FileSpecInv, PTL

-------------------------------------------------------------------------------
(* The file store implements ConversationStore.  A call is invoked when it *)
(* enters; it takes effect with the rename, the removal of the file or, a  *)
(* Load, with the read; a failure before that is an abstract failure; and  *)
(* every other step is invisible.                                          *)

LEMMA FileViewUnchanged ==
  ASSUME UNCHANGED <<file, fileCall, fileOutcome, fileAnswer>>
  PROVE  UNCHANGED FileAbstract!storeVars
BY DEF FileAbstract!storeVars

LEMMA FileFailureImplements ==
  ASSUME FileInv, NEW p \in Callers, fileAt[p] # "idle", FileReturn(p, "failed", <<>>),
         file' = file
  PROVE  FileAbstract!FailAll({p})
<1>1. fileOutcome[p] = "pending" /\ fileAnswer[p] = <<>>
  BY DEF FileInv, CallerOK
<1>2. fileOutcome' = [q \in Callers |-> IF q \in {p} THEN "failed" ELSE fileOutcome[q]]
  BY DEF FileReturn, FileInv, FileTypes
<1>3. fileAnswer' = fileAnswer /\ fileCall' = fileCall
  BY <1>1 DEF FileReturn, FileInv, FileTypes
<1> QED
  BY <1>1, <1>2, <1>3 DEF FileAbstract!FailAll

(* A successful return, with what it has made of the file of its call.     *)
LEMMA FileEffectImplements ==
  ASSUME FileInv, NEW p \in Callers, fileAt[p] # "idle", NEW found,
         FileReturn(p, "ok", found), NEW made,
         file' = [file EXCEPT ![Conv(p)] = made],
         made.msgs = After(fileCall[p], file[Conv(p)].msgs),
         found = IF Op(p) = "load" THEN file[Conv(p)].msgs ELSE <<>>
  PROVE  FileAbstract!TakeEffect(p, "ok")
<1>1. fileOutcome[p] = "pending" /\ Conv(p) \in Convs
  BY CallType DEF FileInv, CallerOK
<1>2. FileAbstract!After(fileCall[p], file[Conv(p)].msgs) =
        After(fileCall[p], file[Conv(p)].msgs)
  BY DEF FileAbstract!After, After
<1>3. [c \in Convs |-> file'[c].msgs] =
        [[c \in Convs |-> file[c].msgs] EXCEPT
           ![Conv(p)] = FileAbstract!After(fileCall[p], file[Conv(p)].msgs)]
  <2>1. ASSUME NEW c \in Convs
        PROVE  file'[c].msgs = IF c = Conv(p) THEN After(fileCall[p], file[Conv(p)].msgs)
                               ELSE file[c].msgs
    BY DEF FileInv, FileTypes
  <2> QED
    BY <1>1, <1>2, <2>1
<1>4. /\ fileOutcome' = [fileOutcome EXCEPT ![p] = "ok"]
      /\ fileAnswer' = [fileAnswer EXCEPT ![p] = found] /\ fileCall' = fileCall
  BY DEF FileReturn
<1>5. /\ fileCall[p].conv = Conv(p) /\ fileCall[p].op = Op(p)
      /\ [c \in Convs |-> file[c].msgs][Conv(p)] = file[Conv(p)].msgs
  BY <1>1 DEF Conv, Op
<1> QED
  BY <1>1, <1>3, <1>4, <1>5 DEF FileAbstract!TakeEffect

LEMMA FileInvokeImplements ==
  ASSUME FileInv, NEW p \in Callers, NEW r \in StoreCall(ConversationOps), FileInvoke(p, r)
  PROVE  FileAbstract!Invoke(p, r)
BY DEF FileInvoke, FileAbstract!Invoke, FileInv, CallerOK, disk

LEMMA FileCrashImplements ==
  ASSUME FileInv, FileCrash
  PROVE  \E P \in SUBSET Callers : FileAbstract!FailAll(P)
<1> DEFINE P == {p \in Callers : fileAt[p] # "idle"}
<1>1. \A p \in P : fileOutcome[p] = "pending"
  BY DEF FileInv, CallerOK
<1>2. fileOutcome' = [q \in Callers |-> IF q \in P THEN "failed" ELSE fileOutcome[q]]
  BY DEF FileCrash
<1>3. UNCHANGED <<file, fileCall, fileAnswer>>
  BY DEF FileCrash, disk
<1>4. FileAbstract!FailAll(P)
  BY <1>1, <1>2, <1>3 DEF FileAbstract!FailAll
<1> QED
  BY <1>4

LEMMA FileStepImplements ==
  ASSUME FileInv, NEW p \in Callers, FileStep(p)
  PROVE  \/ FileAbstract!TakeEffect(p, "ok") \/ FileAbstract!FailAll({p})
         \/ UNCHANGED FileAbstract!storeVars
<1> USE DEF FileInv
<1>1. CASE FileReturn(p, "failed", <<>>) /\ fileAt[p] # "idle" /\ file' = file
  BY <1>1, FileFailureImplements
<1>2. CASE (\E place \in Places : FileGoto(p, place)) /\ file' = file
  BY <1>2, FileViewUnchanged DEF FileGoto
<1>3. CASE CheckContext(p)
  BY <1>1, <1>2, <1>3 DEF CheckContext, disk, Places
<1>4. CASE FileLock(p)
  <2>1. CallerOK(p) /\ Op(p) \in ConversationOps
    BY CallType
  <2>2. Op(p) \in ConversationOps => FirstStep(Op(p)) \in Places
    BY DEF FirstStep, ConversationOps, Places
  <2> QED
    BY <1>1, <1>2, <1>4, <2>1, <2>2
    DEF FileLock, LockWriter, LockReader, RefuseUnderLock, disk
<1>5. CASE FileRefuse(p) \/ WriteTempFails(p) \/ RemoveTemp(p)
  BY <1>1, <1>5 DEF FileRefuse, WriteTempFails, RemoveTemp, disk
<1>6. CASE TruncateTemp(p) \/ WriteTemp(p)
  BY <1>2, <1>6 DEF TruncateTemp, WriteTemp, Places
<1>7. CASE ReadFile(p)
  <2>1. fileAt[p] = "read" /\ file' = file
    BY <1>7 DEF ReadFile, disk
  <2>2. CASE FileReturn(p, "failed", <<>>)
    BY <1>1, <2>1, <2>2
  <2>3. CASE Op(p) = "load" /\ FileReturn(p, "ok", file[Conv(p)].msgs)
    <3> DEFINE made == file[Conv(p)]
    <3>1. file' = [file EXCEPT ![Conv(p)] = made]
      BY <2>1 DEF FileTypes
    <3>2. made.msgs = After(fileCall[p], file[Conv(p)].msgs)
      BY <2>3 DEF After, Op
    <3> QED
      BY <2>1, <2>3, <3>1, <3>2, FileEffectImplements
  <2>4. CASE FileGoto(p, "write")
    BY <1>2, <2>1, <2>4 DEF Places
  <2> QED
    BY <1>7, <2>2, <2>3, <2>4 DEF ReadFile
<1>8. CASE Rename(p)
  <2>1. /\ file' = [file EXCEPT ![Conv(p)] = temp[Conv(p)]] /\ fileAt[p] = "rename"
        /\ FileReturn(p, "ok", <<>>)
    BY <1>8 DEF Rename
  <2>2. /\ Op(p) \in {"save", "append"}
        /\ temp[Conv(p)].msgs = After(fileCall[p], file[Conv(p)].msgs)
    <3>1. /\ Op(p) \in {"save", "append"} /\ temp[Conv(p)] = Json(data[p])
          /\ data[p] = After(fileCall[p], file[Conv(p)].msgs)
      BY <2>1 DEF CallerOK
    <3>2. Json(data[p]).msgs = data[p]
      BY DEF Json
    <3> QED
      BY <3>1, <3>2
  <2> QED
    BY <2>1, <2>2, FileEffectImplements
<1>9. CASE RemoveFile(p)
  <2>1. /\ file' = [file EXCEPT ![Conv(p)] = Absent] /\ fileAt[p] = "remove"
        /\ FileReturn(p, "ok", <<>>)
    BY <1>9 DEF RemoveFile
  <2>2. Op(p) = "delete" /\ Absent.msgs = After(fileCall[p], file[Conv(p)].msgs)
    BY <2>1 DEF CallerOK, Absent, After, Op
  <2> QED
    BY <2>1, <2>2, FileEffectImplements
<1> QED
  BY <1>3, <1>4, <1>5, <1>6, <1>7, <1>8, <1>9 DEF FileStep

(* The refinement: every operation is atomic, an interrupted Save or       *)
(* Append leaves the previous messages, no Append is lost to another, and  *)
(* a call that reports failure has changed nothing, whatever fails, is     *)
(* cancelled or crashes half-way.                                          *)
THEOREM FileStoreImplements == FileSpec => FileImplementsStore
<1>1. FileInit => FileAbstract!StoreInit
  <2> SUFFICES ASSUME FileInit PROVE FileAbstract!StoreInit
    OBVIOUS
  <2>1. [c \in Convs |-> file[c].msgs] = [c \in Convs |-> <<>>]
    BY DEF FileInit, Absent
  <2>2. fileCall \in [Callers -> FileAbstract!StoreCall(ConversationOps)]
    BY FileInitInv DEF FileInv, FileTypes, FileAbstract!StoreCall, StoreCall,
       FileAbstract!WithMessages, WithMessages
  <2> QED
    BY <2>1, <2>2 DEF FileInit, FileAbstract!StoreInit
<1>2. FileInv /\ [FileNext]_fileVars => [FileAbstract!StoreNext]_(FileAbstract!storeVars)
  <2> SUFFICES ASSUME FileInv, [FileNext]_fileVars
               PROVE  FileAbstract!StoreNext \/ UNCHANGED FileAbstract!storeVars
    OBVIOUS
  <2>1. ASSUME NEW p \in Callers, FileStep(p)
        PROVE  FileAbstract!StoreNext \/ UNCHANGED FileAbstract!storeVars
    BY <2>1, FileStepImplements DEF FileAbstract!StoreNext
  <2>2. ASSUME NEW p \in Callers, NEW r \in StoreCall(ConversationOps), FileInvoke(p, r)
        PROVE  FileAbstract!StoreNext
    <3>1. r \in FileAbstract!StoreCall(ConversationOps)
      BY DEF FileAbstract!StoreCall, StoreCall, FileAbstract!WithMessages, WithMessages
    <3> QED
      BY <2>2, <3>1, FileInvokeImplements DEF FileAbstract!StoreNext
  <2>3. CASE FileCrash
    BY <2>3, FileCrashImplements DEF FileAbstract!StoreNext
  <2>4. CASE (\E p \in Callers : ContextEnds(p)) \/ UNCHANGED fileVars
    BY <2>4, FileViewUnchanged DEF ContextEnds, disk, fileVars
  <2> QED
    BY <2>1, <2>2, <2>3, <2>4 DEF FileNext
<1> QED
  BY <1>1, <1>2, FileSpecInv, PTL DEF FileSpec, FileImplementsStore, FileAbstract!StoreSpec

-------------------------------------------------------------------------------
(* Reading cells of a heap.                                                *)

ReadAt(heap, refs) == [i \in 1 .. Len(refs) |-> heap[refs[i]]]
FreshRefs(heap, n) == [i \in 1 .. n |-> Len(heap) + i]
Apart(refs, others) == \A i \in 1 .. Len(refs), j \in 1 .. Len(others) : refs[i] # others[j]

LEMMA ReadType ==
  ASSUME NEW heap \in Seq(Inputs), NEW refs \in Seq(1 .. Len(heap))
  PROVE  /\ ReadAt(heap, refs) \in Seq(Inputs)
         /\ Len(ReadAt(heap, refs)) = Len(refs)
         /\ \A i \in 1 .. Len(refs) : ReadAt(heap, refs)[i] = heap[refs[i]]
BY DEF ReadAt

LEMMA FreshType ==
  ASSUME NEW heap \in Seq(Inputs), NEW more \in Seq(Inputs)
  PROVE  LET fresh == FreshRefs(heap, Len(more))
         IN  /\ fresh \in Seq(1 .. Len(heap \o more)) /\ Len(fresh) = Len(more)
             /\ \A i \in 1 .. Len(more) : fresh[i] = Len(heap) + i
             /\ \A refs \in Seq(1 .. Len(heap)) : Apart(fresh, refs) /\ Apart(refs, fresh)
<1> DEFINE fresh == FreshRefs(heap, Len(more))
<1>1. Len(heap) \in Nat /\ Len(more) \in Nat /\ Len(heap \o more) = Len(heap) + Len(more)
  BY ConcatProperties
<1>2. /\ fresh \in Seq(1 .. Len(heap \o more)) /\ Len(fresh) = Len(more)
      /\ \A i \in 1 .. Len(more) : fresh[i] = Len(heap) + i
  BY <1>1 DEF FreshRefs
<1> HIDE DEF fresh
<1>3. ASSUME NEW refs \in Seq(1 .. Len(heap)) PROVE Apart(fresh, refs) /\ Apart(refs, fresh)
  <2>1. ASSUME NEW i \in 1 .. Len(refs), NEW j \in 1 .. Len(more)
        PROVE  refs[i] # fresh[j]
    <3>1. refs[i] \in 1 .. Len(heap)
      OBVIOUS
    <3>2. fresh[j] = Len(heap) + j
      BY <1>2
    <3> QED
      BY <1>1, <3>1, <3>2
  <2>2. Len(fresh) = Len(more)
    BY <1>2
  <2> HIDE DEF Apart
  <2> QED
    BY <2>1, <2>2 DEF Apart
<1> QED
  BY <1>2, <1>3 DEF fresh

LEMMA RefsGrow ==
  ASSUME NEW heap \in Seq(Inputs), NEW more \in Seq(Inputs), NEW refs \in Seq(1 .. Len(heap))
  PROVE  refs \in Seq(1 .. Len(heap \o more))
<1>1. Len(heap \o more) = Len(heap) + Len(more) /\ Len(heap) \in Nat /\ Len(more) \in Nat
  BY ConcatProperties
<1>2. 1 .. Len(heap) \subseteq 1 .. Len(heap \o more)
  BY <1>1
<1> QED
  BY <1>2, SeqMonotonic

(* Old cells keep their values when the heap grows, new ones have theirs.  *)
LEMMA ReadGrown ==
  ASSUME NEW heap \in Seq(Inputs), NEW more \in Seq(Inputs), NEW refs \in Seq(1 .. Len(heap))
  PROVE  ReadAt(heap \o more, refs) = ReadAt(heap, refs)
<1>1. \A i \in 1 .. Len(refs) : (heap \o more)[refs[i]] = heap[refs[i]]
  BY ConcatProperties
<1> QED
  BY <1>1 DEF ReadAt

LEMMA ReadFresh ==
  ASSUME NEW heap \in Seq(Inputs), NEW more \in Seq(Inputs)
  PROVE  ReadAt(heap \o more, FreshRefs(heap, Len(more))) = more
<1> DEFINE fresh == FreshRefs(heap, Len(more))
           read == ReadAt(heap \o more, fresh)
<1>1. /\ fresh \in Seq(1 .. Len(heap \o more)) /\ Len(fresh) = Len(more)
      /\ \A i \in 1 .. Len(more) : fresh[i] = Len(heap) + i
  BY FreshType
<1>2. heap \o more \in Seq(Inputs) /\ Len(heap) \in Nat /\ Len(more) \in Nat
  BY ConcatProperties
<1>3. \A i \in 1 .. Len(more) : (heap \o more)[Len(heap) + i] = more[i]
  BY <1>2, ConcatProperties
<1> HIDE DEF fresh
<1>4. /\ read \in Seq(Inputs) /\ Len(read) = Len(more)
      /\ \A i \in 1 .. Len(more) : read[i] = (heap \o more)[fresh[i]]
  BY <1>1, <1>2, ReadType
<1> HIDE DEF read
<1>5. \A i \in 1 .. Len(more) : read[i] = more[i]
  BY <1>1, <1>3, <1>4
<1> QED
  BY <1>4, <1>5, SeqEqual DEF read, fresh

LEMMA ReadConcat ==
  ASSUME NEW heap \in Seq(Inputs), NEW r \in Seq(1 .. Len(heap)), NEW s \in Seq(1 .. Len(heap))
  PROVE  ReadAt(heap, r \o s) = ReadAt(heap, r) \o ReadAt(heap, s)
<1> DEFINE both == ReadAt(heap, r \o s)
           a == ReadAt(heap, r)
           b == ReadAt(heap, s)
<1>1. /\ r \o s \in Seq(1 .. Len(heap)) /\ Len(r \o s) = Len(r) + Len(s)
      /\ Len(r) \in Nat /\ Len(s) \in Nat
      /\ \A i \in 1 .. Len(r) + Len(s) : (r \o s)[i] = IF i <= Len(r) THEN r[i] ELSE s[i - Len(r)]
  BY ConcatProperties
<1>2. /\ both \in Seq(Inputs) /\ Len(both) = Len(r) + Len(s)
      /\ \A i \in 1 .. Len(r) + Len(s) : both[i] = heap[(r \o s)[i]]
  BY <1>1, ReadType
<1>3. /\ a \in Seq(Inputs) /\ Len(a) = Len(r) /\ \A i \in 1 .. Len(r) : a[i] = heap[r[i]]
      /\ b \in Seq(Inputs) /\ Len(b) = Len(s) /\ \A i \in 1 .. Len(s) : b[i] = heap[s[i]]
  BY ReadType
<1> HIDE DEF both, a, b
<1>4. /\ a \o b \in Seq(Inputs) /\ Len(a \o b) = Len(r) + Len(s)
      /\ \A i \in 1 .. Len(r) + Len(s) : (a \o b)[i] = IF i <= Len(r) THEN a[i] ELSE b[i - Len(r)]
  <2>1. /\ a \o b \in Seq(Inputs) /\ Len(a \o b) = Len(a) + Len(b)
        /\ \A i \in 1 .. Len(a) + Len(b) : (a \o b)[i] =
             IF i <= Len(a) THEN a[i] ELSE b[i - Len(a)]
    <3>1. a \in Seq(Inputs) /\ b \in Seq(Inputs)
      BY <1>3
    <3> QED
      BY <3>1, ConcatProperties
  <2>2. Len(a) = Len(r) /\ Len(b) = Len(s)
    BY <1>3
  <2> QED
    BY <2>1, <2>2
<1>5. ASSUME NEW i \in 1 .. Len(r) + Len(s) PROVE both[i] = (a \o b)[i]
  <2>1. CASE i <= Len(r)
    BY <1>1, <1>2, <1>3, <1>4, <2>1
  <2>2. CASE i > Len(r)
    <3>1. i - Len(r) \in 1 .. Len(s)
      BY <1>1, <2>2
    <3>2. ~(i <= Len(r))
      BY <1>1, <2>2
    <3>3. (r \o s)[i] = s[i - Len(r)]
      BY <1>1, <3>2, Zenon
    <3>4. (a \o b)[i] = b[i - Len(r)]
      BY <1>4, <3>2, Zenon
    <3> QED
      BY <1>2, <1>3, <3>1, <3>3, <3>4
  <2>3. i <= Len(r) \/ i > Len(r)
    BY <1>1
  <2> QED
    BY <2>1, <2>2, <2>3
<1> QED
  BY <1>2, <1>4, <1>5, SeqEqual DEF both, a, b

LEMMA ReadWritten ==
  ASSUME NEW heap \in Seq(Inputs), NEW refs \in Seq(1 .. Len(heap)), NEW k \in 1 .. Len(heap),
         NEW v, \A i \in 1 .. Len(refs) : refs[i] # k
  PROVE  ReadAt([heap EXCEPT ![k] = v], refs) = ReadAt(heap, refs)
<1>1. \A i \in 1 .. Len(refs) : [heap EXCEPT ![k] = v][refs[i]] = heap[refs[i]]
  OBVIOUS
<1> QED
  BY <1>1 DEF ReadAt

-------------------------------------------------------------------------------
(* The inductive invariant of the in-memory store.                         *)

MemTypes ==
  /\ cells \in Seq(Inputs)
  /\ kept \in [Convs -> Seq(1 .. Len(cells))]
  /\ held \in [Callers -> Seq(1 .. Len(cells))]
  /\ memCall \in [Callers -> StoreCall(ConversationOps)]
  /\ memOutcome \in [Callers -> Outcome]
  /\ memAnswer = [p \in Callers |-> memAnswer[p]]

(* What is stored shares no cell with what a caller holds, nor does what   *)
(* two callers hold.                                                       *)
NothingShared ==
  /\ \A p \in Callers, c \in Convs : Apart(held[p], kept[c])
  /\ \A p, q \in Callers : p # q => Apart(held[p], held[q])

(* While a call is in progress the messages it has passed are those the    *)
(* caller gave it.                                                         *)
PassedIntact ==
  \A p \in Callers : memOutcome[p] = "pending" =>
    ReadAt(cells, held[p]) = memCall[p].msgs /\ memAnswer[p] = <<>>

MemInv == MemTypes /\ NothingShared /\ PassedIntact

LEMMA MemCallType ==
  ASSUME MemTypes, NEW p \in Callers
  PROVE  /\ memCall[p].conv \in Convs /\ memCall[p].op \in ConversationOps
         /\ memCall[p].msgs \in Seq(Inputs)
BY InMemAssumption DEF MemTypes, StoreCall

LEMMA ValuesRead ==
  ASSUME NEW refs
  PROVE  Values(refs) = ReadAt(cells, refs)
BY DEF Values, ReadAt

LEMMA MemInitInv == MemInit => MemInv
<1> SUFFICES ASSUME MemInit PROVE MemInv
  OBVIOUS
<1> USE DEF MemInit
<1>1. MemTypes
  <2>1. cells \in Seq(Inputs) /\ <<>> \in Seq(1 .. Len(cells))
    OBVIOUS
  <2>2. /\ memCall \in [Callers -> StoreCall(ConversationOps)]
        /\ memOutcome \in [Callers -> Outcome]
    BY LoadCallExists DEF Outcome
  <2> QED
    BY <2>1, <2>2 DEF MemTypes
<1>2. NothingShared
  BY DEF NothingShared, Apart
<1>3. PassedIntact
  BY DEF PassedIntact
<1> QED
  BY <1>1, <1>2, <1>3 DEF MemInv

LEMMA MemInvokeKeepsInv ==
  ASSUME MemInv, NEW p \in Callers, NEW r \in StoreCall(ConversationOps), MemInvoke(p, r)
  PROVE  MemInv'
<1> USE DEF MemInv
<1> DEFINE fresh == FreshRefs(cells, Len(r.msgs))
<1>1. /\ cells' = cells \o r.msgs /\ held' = [held EXCEPT ![p] = fresh]
      /\ memCall' = [memCall EXCEPT ![p] = r] /\ kept' = kept
      /\ memOutcome' = [memOutcome EXCEPT ![p] = "pending"]
      /\ memAnswer' = [memAnswer EXCEPT ![p] = <<>>]
  BY DEF MemInvoke, Fresh, FreshRefs
<1>2. r.msgs \in Seq(Inputs) /\ cells \in Seq(Inputs) /\ cells' \in Seq(Inputs)
  BY <1>1, InMemAssumption, ConcatProperties DEF MemTypes, StoreCall
<1>3. /\ fresh \in Seq(1 .. Len(cells'))
      /\ \A refs \in Seq(1 .. Len(cells)) : Apart(fresh, refs) /\ Apart(refs, fresh)
  BY <1>1, <1>2, FreshType
<1>4. ReadAt(cells', fresh) = r.msgs
  BY <1>1, <1>2, ReadFresh
<1> HIDE DEF fresh
<1>5. \A refs \in Seq(1 .. Len(cells)) :
        refs \in Seq(1 .. Len(cells')) /\ ReadAt(cells', refs) = ReadAt(cells, refs)
  BY <1>1, <1>2, RefsGrow, ReadGrown
<1>6. MemTypes'
  BY <1>1, <1>2, <1>3, <1>5 DEF MemTypes, Outcome
<1>7. NothingShared'
  BY <1>1, <1>3 DEF NothingShared, MemTypes
<1>8. PassedIntact'
  BY <1>1, <1>4, <1>5 DEF PassedIntact, MemTypes
<1> QED
  BY <1>6, <1>7, <1>8

(* cloneMessages on the way in.                                            *)
LEMMA MemWriteKeepsInv ==
  ASSUME MemInv, NEW p \in Callers, MemWrite(p)
  PROVE  MemInv'
<1> USE DEF MemInv
<1> DEFINE c == memCall[p].conv
           passed == ReadAt(cells, held[p])
           copies == FreshRefs(cells, Len(passed))
<1>1. held[p] \in Seq(1 .. Len(cells)) /\ cells \in Seq(Inputs) /\ c \in Convs
  BY MemCallType DEF MemTypes
<1>2. passed \in Seq(Inputs) /\ Len(passed) = Len(held[p])
  BY <1>1, ReadType
<1>3. /\ cells' = cells \o passed /\ UNCHANGED <<held, memCall>>
      /\ kept' \in {[kept EXCEPT ![c] = copies], [kept EXCEPT ![c] = @ \o copies],
                    [kept EXCEPT ![c] = <<>>]}
      /\ memOutcome' = [memOutcome EXCEPT ![p] = "ok"]
      /\ memAnswer' = [memAnswer EXCEPT ![p] = <<>>]
  <2>1. Values(held[p]) = passed /\ Cloned(held[p]) = copies
    BY <1>2, ValuesRead DEF Cloned, Fresh, FreshRefs
  <2>2. memCall[p].op \in {"save", "append", "delete"}
    BY MemCallType DEF MemWrite, ConversationOps
  <2> HIDE DEF copies, passed
  <2> QED
    BY <2>1, <2>2 DEF MemWrite, MemReturn
<1>4. /\ copies \in Seq(1 .. Len(cells')) /\ cells' \in Seq(Inputs)
      /\ \A refs \in Seq(1 .. Len(cells)) : Apart(refs, copies)
  BY <1>1, <1>2, <1>3, FreshType, ConcatProperties
<1> HIDE DEF copies, passed
<1>5. \A refs \in Seq(1 .. Len(cells)) :
        refs \in Seq(1 .. Len(cells')) /\ ReadAt(cells', refs) = ReadAt(cells, refs)
  BY <1>1, <1>2, <1>3, RefsGrow, ReadGrown
<1>6. \A d \in Convs : kept'[d] \in {kept[d], copies, kept[d] \o copies, <<>>}
  BY <1>3 DEF MemTypes
<1>7. \A d \in Convs : kept'[d] \in Seq(1 .. Len(cells'))
  <2>1. \A d \in Convs : kept[d] \in Seq(1 .. Len(cells'))
    BY <1>5 DEF MemTypes
  <2>2. \A d \in Convs : kept[d] \o copies \in Seq(1 .. Len(cells'))
    BY <1>4, <2>1, ConcatProperties
  <2>3. <<>> \in Seq(1 .. Len(cells'))
    OBVIOUS
  <2> QED
    BY <1>4, <1>6, <2>1, <2>2, <2>3
<1>8. MemTypes'
  <2>1. kept' \in [Convs -> Seq(1 .. Len(cells'))]
    BY <1>3, <1>7 DEF MemTypes
  <2>2. held' \in [Callers -> Seq(1 .. Len(cells'))]
    BY <1>3, <1>5 DEF MemTypes
  <2> QED
    BY <1>3, <1>4, <2>1, <2>2 DEF MemTypes, Outcome
<1>9. NothingShared'
  <2>1. ASSUME NEW q \in Callers, NEW d \in Convs PROVE Apart(held[q], kept'[d])
    <3>1. Apart(held[q], kept[d]) /\ Apart(held[q], copies)
      BY <1>4 DEF NothingShared, MemTypes
    <3>2. Apart(held[q], kept[d] \o copies)
      <4>1. kept[d] \in Seq(1 .. Len(cells'))
        BY <1>5 DEF MemTypes
      <4> QED
        BY <1>4, <3>1, <4>1, ConcatProperties, SMTT(30) DEF Apart
    <3>3. Apart(held[q], <<>>)
      BY DEF Apart
    <3> QED
      BY <1>6, <3>1, <3>2, <3>3
  <2> QED
    BY <1>3, <2>1 DEF NothingShared
<1>10. PassedIntact'
  BY <1>3, <1>5 DEF PassedIntact, MemTypes
<1> QED
  BY <1>8, <1>9, <1>10

(* cloneMessages on the way out.                                           *)
LEMMA MemLoadKeepsInv ==
  ASSUME MemInv, NEW p \in Callers, MemLoad(p)
  PROVE  MemInv'
<1> USE DEF MemInv
<1> DEFINE stored == kept[memCall[p].conv]
           found == ReadAt(cells, stored)
           copies == FreshRefs(cells, Len(found))
<1>1. stored \in Seq(1 .. Len(cells)) /\ cells \in Seq(Inputs)
  BY MemCallType DEF MemTypes
<1>2. found \in Seq(Inputs) /\ Len(found) = Len(stored)
  BY <1>1, ReadType
<1>3. /\ cells' = cells \o found /\ held' = [held EXCEPT ![p] = copies]
      /\ UNCHANGED <<kept, memCall>>
      /\ memOutcome' = [memOutcome EXCEPT ![p] = "ok"]
      /\ memAnswer' = [memAnswer EXCEPT ![p] = found]
  <2>1. Values(stored) = found /\ Cloned(stored) = copies
    BY <1>2, ValuesRead DEF Cloned, Fresh, FreshRefs
  <2> HIDE DEF copies, found
  <2> QED
    BY <2>1 DEF MemLoad, MemReturn
<1>4. /\ copies \in Seq(1 .. Len(cells')) /\ cells' \in Seq(Inputs)
      /\ \A refs \in Seq(1 .. Len(cells)) : Apart(refs, copies) /\ Apart(copies, refs)
  BY <1>1, <1>2, <1>3, FreshType, ConcatProperties
<1> HIDE DEF copies, found
<1>5. \A refs \in Seq(1 .. Len(cells)) :
        refs \in Seq(1 .. Len(cells')) /\ ReadAt(cells', refs) = ReadAt(cells, refs)
  BY <1>1, <1>2, <1>3, RefsGrow, ReadGrown
<1>6. MemTypes'
  BY <1>3, <1>4, <1>5 DEF MemTypes, Outcome
<1>7. NothingShared'
  BY <1>3, <1>4 DEF NothingShared, MemTypes
<1>8. PassedIntact'
  BY <1>3, <1>5 DEF PassedIntact, MemTypes
<1> QED
  BY <1>6, <1>7, <1>8

(* A caller changes a cell of its own, which nobody else reads.            *)
LEMMA CallerWritesKeepsInv ==
  ASSUME MemInv, NEW p \in Callers, NEW i \in 1 .. MaxCells, NEW v \in Inputs,
         CallerWrites(p, i, v)
  PROVE  MemInv' /\ \A c \in Convs : ReadAt(cells', kept[c]) = ReadAt(cells, kept[c])
<1> USE DEF MemInv
<1> DEFINE k == held[p][i]
<1>1. /\ memOutcome[p] # "pending" /\ i \in 1 .. Len(held[p])
      /\ cells' = [cells EXCEPT ![k] = v]
      /\ UNCHANGED <<kept, held, memCall, memOutcome, memAnswer>>
  BY DEF CallerWrites
<1>2. k \in 1 .. Len(cells) /\ cells \in Seq(Inputs)
  BY <1>1 DEF MemTypes
<1> HIDE DEF k
<1>3. cells' \in Seq(Inputs) /\ Len(cells') = Len(cells)
  BY <1>1, <1>2, ExceptSeq
<1>4. MemTypes' /\ NothingShared'
  BY <1>1, <1>3 DEF MemTypes, NothingShared
<1>5. ASSUME NEW c \in Convs PROVE ReadAt(cells', kept[c]) = ReadAt(cells, kept[c])
  <2>1. \A j \in 1 .. Len(kept[c]) : kept[c][j] # k
    BY <1>1 DEF NothingShared, Apart, k
  <2> QED
    BY <1>1, <1>2, <2>1, ReadWritten DEF MemTypes
<1>6. ASSUME NEW q \in Callers, memOutcome[q] = "pending"
      PROVE  ReadAt(cells', held[q]) = ReadAt(cells, held[q])
  <2>1. q # p
    BY <1>1, <1>6
  <2>2. \A j \in 1 .. Len(held[q]) : held[q][j] # k
    BY <1>1, <2>1 DEF NothingShared, Apart, k
  <2> QED
    BY <1>1, <1>2, <2>2, ReadWritten DEF MemTypes
<1>7. PassedIntact'
  BY <1>1, <1>6 DEF PassedIntact
<1> QED
  BY <1>4, <1>5, <1>7

LEMMA MemNextInv == MemInv /\ [MemNext]_memVars => MemInv'
<1> SUFFICES ASSUME MemInv, [MemNext]_memVars PROVE MemInv'
  OBVIOUS
<1>1. ASSUME NEW p \in Callers, MemRefuse(p) PROVE MemInv'
  BY <1>1 DEF MemRefuse, MemReturn, MemInv, MemTypes, NothingShared, PassedIntact, Outcome
<1>2. CASE UNCHANGED memVars
  BY <1>2 DEF memVars, MemInv, MemTypes, NothingShared, PassedIntact
<1> QED
  BY <1>1, <1>2, MemInvokeKeepsInv, MemWriteKeepsInv, MemLoadKeepsInv, CallerWritesKeepsInv
  DEF MemNext

LEMMA MemSpecInv == MemSpec => []MemInv
BY MemInitInv, MemNextInv, PTL DEF MemSpec

-------------------------------------------------------------------------------
(* The in-memory store implements ConversationStore.                       *)

LEMMA MemInvokeImplements ==
  ASSUME MemInv, NEW p \in Callers, NEW r \in StoreCall(ConversationOps), MemInvoke(p, r)
  PROVE  MemAbstract!Invoke(p, r)
<1> USE DEF MemInv
<1>1. r.msgs \in Seq(Inputs)
  BY InMemAssumption DEF StoreCall
<1>2. cells' = cells \o r.msgs /\ kept' = kept
  BY DEF MemInvoke
<1>3. ASSUME NEW c \in Convs PROVE Values(kept[c])' = Values(kept[c])
  <2>1. ReadAt(cells', kept[c]) = ReadAt(cells, kept[c])
    BY <1>1, <1>2, ReadGrown DEF MemTypes
  <2> QED
    BY <1>2, <2>1 DEF Values, ReadAt
<1>4. [c \in Convs |-> Values(kept[c])]' = [c \in Convs |-> Values(kept[c])]
  BY <1>3
<1> QED
  BY <1>4 DEF MemInvoke, MemAbstract!Invoke

LEMMA MemWriteImplements ==
  ASSUME MemInv, NEW p \in Callers, MemWrite(p)
  PROVE  MemAbstract!TakeEffect(p, "ok")
<1> USE DEF MemInv
<1> DEFINE c == memCall[p].conv
           passed == memCall[p].msgs
           copies == FreshRefs(cells, Len(passed))
<1>1. /\ c \in Convs /\ cells \in Seq(Inputs) /\ passed \in Seq(Inputs)
      /\ memCall[p].op \in ConversationOps
  BY MemCallType DEF MemTypes
<1>2. ReadAt(cells, held[p]) = passed /\ Len(passed) = Len(held[p])
  BY ReadType DEF MemWrite, PassedIntact, MemTypes
<1>3. /\ cells' = cells \o passed
      /\ memOutcome' = [memOutcome EXCEPT ![p] = "ok"]
      /\ memAnswer' = [memAnswer EXCEPT ![p] = <<>>] /\ memCall' = memCall
      /\ memOutcome[p] = "pending" /\ memCall[p].op # "load"
  BY <1>2, ValuesRead DEF MemWrite, MemReturn
<1>4. kept' = [kept EXCEPT ![c] = CASE memCall[p].op = "save"   -> copies
                                    [] memCall[p].op = "append" -> @ \o copies
                                    [] memCall[p].op = "delete" -> <<>>]
  BY <1>2 DEF MemWrite, Cloned, Fresh, FreshRefs
<1>5. ReadAt(cells', copies) = passed /\ copies \in Seq(1 .. Len(cells'))
  BY <1>1, <1>3, ReadFresh, FreshType
<1>6. cells' \in Seq(Inputs)
  BY <1>1, <1>3, ConcatProperties
<1> HIDE DEF copies
<1>7. \A d \in Convs : /\ kept[d] \in Seq(1 .. Len(cells'))
                       /\ ReadAt(cells', kept[d]) = ReadAt(cells, kept[d])
  BY <1>1, <1>3, RefsGrow, ReadGrown DEF MemTypes
<1>8. ReadAt(cells', kept'[c]) = After(memCall[p], ReadAt(cells, kept[c]))
  <2>1. CASE memCall[p].op = "save"
    BY <1>1, <1>4, <1>5, <2>1 DEF After, MemTypes
  <2>2. CASE memCall[p].op = "append"
    <3>1. kept'[c] = kept[c] \o copies
      BY <1>1, <1>4, <2>2 DEF MemTypes
    <3>2. ReadAt(cells', kept[c] \o copies) = ReadAt(cells', kept[c]) \o ReadAt(cells', copies)
      BY <1>1, <1>5, <1>6, <1>7, ReadConcat
    <3> QED
      BY <1>1, <1>5, <1>7, <2>2, <3>1, <3>2 DEF After
  <2>3. CASE memCall[p].op = "delete"
    <3>1. kept'[c] = <<>>
      BY <1>1, <1>4, <2>3 DEF MemTypes
    <3>2. ReadAt(cells', <<>>) = <<>>
      BY DEF ReadAt
    <3> QED
      BY <2>3, <3>1, <3>2 DEF After
  <2> QED
    BY <1>1, <1>3, <2>1, <2>2, <2>3 DEF ConversationOps
<1>9. \A d \in Convs : d # c => ReadAt(cells', kept'[d]) = ReadAt(cells, kept[d])
  BY <1>4, <1>7 DEF MemTypes
<1>10. \A d \in Convs : /\ Values(kept[d]) = ReadAt(cells, kept[d])
                        /\ Values(kept[d])' = ReadAt(cells', kept'[d])
  BY DEF Values, ReadAt
<1>11. MemAbstract!After(memCall[p], Values(kept[c])) = After(memCall[p], Values(kept[c]))
  BY DEF MemAbstract!After, After
<1>12. [d \in Convs |-> Values(kept[d])]' =
         [[d \in Convs |-> Values(kept[d])] EXCEPT
            ![c] = MemAbstract!After(memCall[p], Values(kept[c]))]
  BY <1>1, <1>8, <1>9, <1>10, <1>11
<1>13. [d \in Convs |-> Values(kept[d])][c] = Values(kept[c])
  BY <1>1
<1> HIDE DEF passed
<1> QED
  BY <1>1, <1>3, <1>12, <1>13 DEF MemAbstract!TakeEffect

LEMMA MemLoadImplements ==
  ASSUME MemInv, NEW p \in Callers, MemLoad(p)
  PROVE  MemAbstract!TakeEffect(p, "ok")
<1> USE DEF MemInv
<1> DEFINE c == memCall[p].conv
           found == Values(kept[c])
<1>1. c \in Convs /\ cells \in Seq(Inputs)
  BY MemCallType DEF MemTypes
<1>2. /\ cells' = cells \o found /\ memCall[p].op = "load" /\ memOutcome[p] = "pending"
      /\ memOutcome' = [memOutcome EXCEPT ![p] = "ok"]
      /\ memAnswer' = [memAnswer EXCEPT ![p] = found]
      /\ UNCHANGED <<memCall, kept>>
  BY DEF MemLoad, MemReturn
<1>3. found \in Seq(Inputs)
  BY <1>1, ReadType, ValuesRead DEF MemTypes
<1>4. ASSUME NEW d \in Convs PROVE Values(kept[d])' = Values(kept[d])
  <2>1. ReadAt(cells', kept[d]) = ReadAt(cells, kept[d])
    BY <1>1, <1>2, <1>3, ReadGrown DEF MemTypes
  <2> QED
    BY <1>2, <2>1 DEF Values, ReadAt
<1>5. MemAbstract!After(memCall[p], found) = found
  BY <1>2 DEF MemAbstract!After
<1>6. [d \in Convs |-> Values(kept[d])]' =
        [[d \in Convs |-> Values(kept[d])] EXCEPT ![c] = MemAbstract!After(memCall[p], found)]
  BY <1>1, <1>4, <1>5
<1>7. [d \in Convs |-> Values(kept[d])][c] = found
  BY <1>1
<1> HIDE DEF found
<1> QED
  BY <1>1, <1>2, <1>6, <1>7 DEF MemAbstract!TakeEffect

LEMMA MemRefuseImplements ==
  ASSUME MemInv, NEW p \in Callers, MemRefuse(p)
  PROVE  MemAbstract!FailAll({p})
<1>1. /\ memOutcome[p] = "pending" /\ memAnswer[p] = <<>>
      /\ UNCHANGED <<cells, kept, memCall>>
  BY DEF MemRefuse, MemReturn, MemInv, PassedIntact
<1>2. memOutcome' = [q \in Callers |-> IF q \in {p} THEN "failed" ELSE memOutcome[q]]
  BY DEF MemRefuse, MemReturn, MemInv, MemTypes
<1>3. memAnswer' = memAnswer
  BY <1>1 DEF MemRefuse, MemReturn, MemInv, MemTypes
<1>4. [d \in Convs |-> Values(kept[d])]' = [d \in Convs |-> Values(kept[d])]
  BY <1>1 DEF Values
<1> QED
  BY <1>1, <1>2, <1>3, <1>4 DEF MemAbstract!FailAll

LEMMA CallerWritesImplements ==
  ASSUME MemInv, NEW p \in Callers, NEW i \in 1 .. MaxCells, NEW v \in Inputs,
         CallerWrites(p, i, v)
  PROVE  UNCHANGED MemAbstract!storeVars
<1>1. UNCHANGED <<kept, held, memCall, memOutcome, memAnswer>>
  BY DEF CallerWrites
<1>2. \A c \in Convs : ReadAt(cells', kept[c]) = ReadAt(cells, kept[c])
  BY CallerWritesKeepsInv
<1>3. \A c \in Convs : Values(kept[c])' = Values(kept[c])
  BY <1>1, <1>2 DEF Values, ReadAt
<1> QED
  BY <1>1, <1>3 DEF MemAbstract!storeVars

(* The refinement: what is stored changes by Save, Append and Delete only, *)
(* and a Load returns what is stored, whatever callers do meanwhile to the *)
(* messages they have passed or received.                                  *)
THEOREM MemStoreImplements == MemSpec => MemImplementsStore
<1>1. MemInit => MemAbstract!StoreInit
  <2> SUFFICES ASSUME MemInit PROVE MemAbstract!StoreInit
    OBVIOUS
  <2>1. [c \in Convs |-> Values(kept[c])] = [c \in Convs |-> <<>>]
    BY DEF MemInit, Values
  <2>2. memCall \in [Callers -> MemAbstract!StoreCall(ConversationOps)]
    BY MemInitInv DEF MemInv, MemTypes, MemAbstract!StoreCall, StoreCall,
       MemAbstract!WithMessages, WithMessages
  <2> QED
    BY <2>1, <2>2 DEF MemInit, MemAbstract!StoreInit
<1>2. MemInv /\ [MemNext]_memVars => [MemAbstract!StoreNext]_(MemAbstract!storeVars)
  <2> SUFFICES ASSUME MemInv, [MemNext]_memVars
               PROVE  MemAbstract!StoreNext \/ UNCHANGED MemAbstract!storeVars
    OBVIOUS
  <2>1. ASSUME NEW p \in Callers, NEW r \in StoreCall(ConversationOps), MemInvoke(p, r)
        PROVE  MemAbstract!StoreNext
    <3>1. r \in MemAbstract!StoreCall(ConversationOps)
      BY DEF MemAbstract!StoreCall, StoreCall, MemAbstract!WithMessages, WithMessages
    <3> QED
      BY <2>1, <3>1, MemInvokeImplements DEF MemAbstract!StoreNext
  <2>2. ASSUME NEW p \in Callers, MemWrite(p) \/ MemLoad(p) \/ MemRefuse(p)
        PROVE  MemAbstract!StoreNext
    <3>1. MemAbstract!TakeEffect(p, "ok") \/ MemAbstract!FailAll({p})
      BY <2>2, MemWriteImplements, MemLoadImplements, MemRefuseImplements
    <3> QED
      BY <3>1 DEF MemAbstract!StoreNext
  <2>3. CASE UNCHANGED memVars
    BY <2>3 DEF memVars, MemAbstract!storeVars, Values
  <2> QED
    BY <2>1, <2>2, <2>3, CallerWritesImplements DEF MemNext
<1> QED
  BY <1>1, <1>2, MemSpecInv, PTL DEF MemSpec, MemImplementsStore, MemAbstract!StoreSpec

-------------------------------------------------------------------------------
(* The migration of a SQL schema.                                          *)

LEMMA StatementsKnown ==
  /\ Len(Statements) = 12
  /\ \A i \in 1 .. 12 : Statements[i] \notin {"closed", "ready"}
  /\ \A i, j \in 1 .. 12 : Statements[i] = Statements[j] => i = j
BY DEF Statements

(* A statement needs only what statements before it have created.          *)
LEMMA NeedsEarlier ==
  ASSUME NEW k \in 1 .. 12
  PROVE  \A object \in Needs(Statements[k]) : \E i \in 1 .. k - 1 : object = Statements[i]
<1>1. Statements[1] = "schema_migrations" /\ Statements[2] = "users"
      /\ Statements[3] = "agents" /\ Statements[5] = "sessions" /\ Statements[8] = "messages"
  BY DEF Statements
<1>2. k \in {1, 2, 3, 4, 5, 6, 7, 8, 9, 10, 11, 12}
  OBVIOUS
<1>3. CASE k = 1
  BY <1>3 DEF Statements, Needs
<1>4. CASE k = 2
  BY <1>4 DEF Statements, Needs
<1>5. CASE k = 3
  <2>1. Needs(Statements[k]) = {"users"}
    BY <1>5 DEF Statements, Needs
  <2> QED
    BY <1>1, <1>5, <2>1
<1>6. CASE k = 4
  <2>1. Needs(Statements[k]) = {"agents"}
    BY <1>6 DEF Statements, Needs
  <2> QED
    BY <1>1, <1>6, <2>1
<1>7. CASE k = 5
  <2>1. Needs(Statements[k]) = {"users", "agents"}
    BY <1>7 DEF Statements, Needs
  <2> QED
    BY <1>1, <1>7, <2>1
<1>8. CASE k \in {6, 7, 8, 11}
  <2>1. Needs(Statements[k]) = {"sessions"}
    BY <1>8 DEF Statements, Needs
  <2> QED
    BY <1>1, <1>8, <2>1
<1>9. CASE k \in {9, 10}
  <2>1. Needs(Statements[k]) = {"messages"}
    BY <1>9 DEF Statements, Needs
  <2> QED
    BY <1>1, <1>9, <2>1
<1>10. CASE k = 12
  <2>1. Needs(Statements[k]) = {"schema_migrations"}
    BY <1>10 DEF Statements, Needs
  <2> QED
    BY <1>1, <1>10, <2>1
<1> QED
  BY <1>2, <1>3, <1>4, <1>5, <1>6, <1>7, <1>8, <1>9, <1>10

(* An opener before its k-th statement, 13 being the end.                  *)
Before(o, k) ==
  /\ openAt[o] = IF k = 13 THEN "ready" ELSE Statements[k]
  /\ \A i \in 1 .. k - 1 : Statements[i] \in schema

(* The inductive invariant: wherever an opener stands, everything before   *)
(* it exists, whoever created it.                                          *)
SchemaInv ==
  /\ refused = {}
  /\ openAt = [o \in Openers |-> openAt[o]]
  /\ \A o \in Openers : openAt[o] = "closed" \/ \E k \in 1 .. 13 : Before(o, k)

LEMMA MigrateKeepsSchemaInv ==
  ASSUME SchemaInv, NEW o \in Openers, Migrate(o)
  PROVE  SchemaInv'
<1> DEFINE object == openAt[o]
<1>1. object \notin {"closed", "ready"}
  BY DEF Migrate
<1>2. PICK k \in 1 .. 12 : Before(o, k) /\ object = Statements[k]
  <2>1. PICK j \in 1 .. 13 : Before(o, j)
    BY <1>1 DEF SchemaInv
  <2>2. j # 13
    BY <1>1, <2>1 DEF Before
  <2> QED
    BY <2>1, <2>2 DEF Before
<1>3. Position(o) = k
  BY <1>2, StatementsKnown DEF Position
<1>4. Needs(object) \subseteq schema
  BY <1>2, NeedsEarlier DEF Before
<1>5. Repeatable(object)
  BY <1>2, StatementsKnown DEF Repeatable
<1>6. /\ schema' = schema \cup {object} /\ refused' = refused
      /\ openAt' = [openAt EXCEPT ![o] = FollowingStatement(k)]
  BY <1>3, <1>4, <1>5 DEF Migrate
<1>7. Before(o, k + 1)'
  <2>1. FollowingStatement(k) = IF k + 1 = 13 THEN "ready" ELSE Statements[k + 1]
    BY StatementsKnown DEF FollowingStatement
  <2>2. openAt'[o] = FollowingStatement(k)
    BY <1>6 DEF SchemaInv
  <2>3. \A i \in 1 .. k : Statements[i] \in schema'
    BY <1>2, <1>6 DEF Before
  <2> QED
    BY <2>1, <2>2, <2>3 DEF Before
<1>8. ASSUME NEW q \in Openers, q # o
      PROVE  openAt'[q] = "closed" \/ \E j \in 1 .. 13 : Before(q, j)'
  BY <1>6, <1>8 DEF SchemaInv, Before
<1> QED
  BY <1>6, <1>7, <1>8 DEF SchemaInv

(* A schema left half-made, by a failure, a crash or an opener still at    *)
(* work, is completed by the next: nobody is refused for what exists, and  *)
(* whoever is ready has every object.                                      *)
THEOREM MigrationAlwaysResumes == SchemaSpec => []MigrationResumes
<1>1. SchemaInit => SchemaInv
  BY DEF SchemaInit, SchemaInv
<1>2. SchemaInv /\ [SchemaNext]_schemaVars => SchemaInv'
  <2> SUFFICES ASSUME SchemaInv, [SchemaNext]_schemaVars PROVE SchemaInv'
    OBVIOUS
  <2>1. ASSUME NEW o \in Openers, Open(o) PROVE SchemaInv'
    <3>1. UNCHANGED <<schema, refused>>
      BY <2>1 DEF Open
    <3>2. openAt'[o] = "closed" \/ Before(o, 1)'
      BY <2>1 DEF Open, SchemaInv, Before
    <3>3. ASSUME NEW q \in Openers, q # o
          PROVE  openAt'[q] = "closed" \/ \E j \in 1 .. 13 : Before(q, j)'
      BY <2>1, <3>1, <3>3 DEF Open, SchemaInv, Before
    <3>4. openAt' = [q \in Openers |-> openAt'[q]]
      BY <2>1 DEF Open, SchemaInv
    <3> QED
      BY <3>1, <3>2, <3>3, <3>4 DEF SchemaInv
  <2>2. ASSUME NEW o \in Openers, MigrateFails(o) PROVE SchemaInv'
    BY <2>2 DEF MigrateFails, SchemaInv, Before
  <2>3. CASE UNCHANGED schemaVars
    BY <2>3 DEF schemaVars, SchemaInv, Before
  <2> QED
    BY <2>1, <2>2, <2>3, MigrateKeepsSchemaInv DEF SchemaNext
<1>3. SchemaInv => MigrationResumes
  <2> SUFFICES ASSUME SchemaInv, NEW o \in Openers, openAt[o] = "ready"
               PROVE  \A i \in 1 .. Len(Statements) : Statements[i] \in schema
    BY DEF MigrationResumes, SchemaInv
  <2>1. PICK k \in 1 .. 13 : Before(o, k)
    BY DEF SchemaInv
  <2>2. k = 13
    BY <2>1, StatementsKnown DEF Before
  <2> QED
    BY <2>1, <2>2, StatementsKnown DEF Before
<1> QED
  BY <1>1, <1>2, <1>3, PTL DEF SchemaSpec
===============================================================================
