------------------------- MODULE DataIngestion_proofs -------------------------
(***************************************************************************)
(* Proofs about DataIngestion for any number of ingestion jobs, rows,      *)
(* revisions of the document and failures.                                 *)
(***************************************************************************)
EXTENDS DataIngestion, TLAPS

-------------------------------------------------------------------------------
(* The inductive invariant                                                   *)

\* Jobs that have not begun have no row and have committed nothing.
Fresh ==
  \A r \in Runs : r > run => jobs[r].status = "absent" /\ committed[r] = 0

\* Rows that the helper of the current stream has committed and not returned.
Unreturned == IF stream \in Batched THEN local ELSE 0

\* Every committed row of the job is counted, or will be when the helper returns.
CountsOfRun ==
  /\ pc \in Ingesting => written + Unreturned = committed[run]
  /\ pc = "closing" => written <= committed[run]
  /\ pc \in Ingesting \union {"closing"} => jobs[run].status = "running"

\* How far the document that was delivered has been stored.
PartsOfDocument ==
  /\ pc \in Document => stream = "documents" /\ local = 1
  /\ pc \in {"document", "event", "head", "tail"} => raw = version
  /\ pc \in {"event", "head", "tail"} => text = version
  /\ pc = "tail" => chunks[Head] # "absent"
  /\ pc \in {"streaming"} \union Indexing \union {"collected"} =>
       (stream = "documents" /\ local = 1 =>
          /\ version \in Versions
          /\ raw = version /\ text = version
          /\ \A c \in Chunks(version) : chunks[c] # "absent")

\* Without a directory nothing was ever persisted, and so no chunk was indexed.
NoDirectory ==
  ~disk.dir => /\ disk.has = {} /\ disk.index = {} /\ disk.meta = {}
               /\ ~loaded /\ cache = {} /\ file = "none"
               /\ \A c \in Ids : chunks[c] # "indexed"

\* What _persist has replaced so far is the image, and that is what is cached.
PersistPhase ==
  /\ file \in {"meta", "manifest"} => disk.index = image
  /\ file = "manifest" => disk.meta = image
  /\ file # "none" => image = cache
  /\ pc \in Persisting \union {"marking"} => loaded

\* The chunk that is being indexed is pending, and has its vector when it is marked.
ChunkInHand ==
  /\ todo \subseteq Pending
  /\ chunk # 0 => chunk \in todo
  /\ pc \in {"adding", "marking"} => chunk \in cache

\* What this process has cached a restarted one would read, but for the vector
\* that is being added.
CacheIsOnDisk ==
  loaded /\ Loadable(disk) =>
    \A c \in cache : c \in disk.index \/ (pc = "adding" /\ c = chunk)

\* The vector of an indexed chunk is in whatever _persist is writing.
Vector(c) ==
  /\ chunks[c] = "indexed" =>
       /\ loaded => c \in cache
       /\ Loadable(disk) => c \in disk.index
       /\ file # "none" => c \in image
  /\ c \in cache \union disk.index \union disk.meta \union image => chunks[c] # "absent"

VectorsHold == \A c \in Ids : Vector(c)

IInv ==
  /\ TypeOK /\ Fresh /\ CountsOfRun /\ RowsAreCommitted /\ PartsOfDocument
  /\ NoDirectory /\ PersistPhase /\ ChunkInHand /\ CacheIsOnDisk /\ VectorsHold

-------------------------------------------------------------------------------
(* What the helpers do                                                       *)

\* The directory exists and its files are what they were.
LEMMA BeginPersistIs ==
  ASSUME VectorTypeOK, NEW ids, BeginPersist(ids)
  PROVE  /\ disk' \in Disk /\ disk'.dir
         /\ disk'.has = disk.has /\ disk'.index = disk.index /\ disk'.meta = disk.meta
         /\ file' = "index" /\ image' = ids
  BY DEF BeginPersist, VectorTypeOK, Disk

\* One file has the image and the others are what they were.
LEMMA ReplaceIs ==
  ASSUME VectorTypeOK, Replace
  PROVE  /\ disk' \in Disk /\ disk'.dir = disk.dir
         /\ disk'.has = disk.has \union {file}
         /\ disk'.index = IF file = "index" THEN image ELSE disk.index
         /\ disk'.meta  = IF file = "meta"  THEN image ELSE disk.meta
         /\ image' = image
         /\ file \in Files
         /\ file' = IF file = "index" THEN "meta"
                    ELSE IF file = "meta" THEN "manifest" ELSE "none"
<1>1. file \in Files
  BY DEF VectorTypeOK, Replace
<1>2. disk' \in Disk /\ disk'.dir = disk.dir /\ disk'.has = disk.has \union {file}
  BY <1>1 DEF Replace, VectorTypeOK, Disk
<1>3. /\ disk'.index = IF file = "index" THEN image ELSE disk.index
      /\ disk'.meta  = IF file = "meta"  THEN image ELSE disk.meta
  BY DEF Replace, VectorTypeOK, Disk
<1>4. /\ image' = image
      /\ file' = IF file = "index" THEN "meta"
                 ELSE IF file = "meta" THEN "manifest" ELSE "none"
  BY <1>1 DEF Replace, NextFile, Files
<1>5. QED
  BY <1>1, <1>2, <1>3, <1>4

\* What the process knows is a set of ids.
LEMMA KnownIdsType == VectorTypeOK => KnownIds \in SUBSET Ids
  BY DEF VectorTypeOK, KnownIds, Disk

\* A step that leaves the namespace alone keeps its type.
LEMMA VectorKept == VectorTypeOK /\ UNCHANGED vectorVars => VectorTypeOK'
  BY DEF VectorTypeOK, vectorVars

\* A failure that happens was within the bound.
LEMMA FaultIsBounded == TypeOK /\ Fault => faults' \in 0..MaxFaults
  BY IngestionBounds DEF TypeOK, Fault

\* The next job is numbered within the bound.
LEMMA NextRun ==
  TypeOK /\ run < MaxRuns => run + 1 \in 0..MaxRuns /\ run + 1 \in Runs
<1> SUFFICES ASSUME TypeOK, run < MaxRuns
             PROVE  run + 1 \in 0..MaxRuns /\ run + 1 \in Runs
  OBVIOUS
<1>1. run \in 0..MaxRuns
  BY DEF TypeOK
<1>2. QED
  BY <1>1, IngestionBounds DEF Runs

\* The head and the tail of every version are chunks.
LEMMA ChunkIds ==
  ASSUME NEW v \in Versions
  PROVE  Head \in Ids /\ Tail(v) \in Ids /\ Chunks(v) = {Head, Tail(v)} /\ Tail(v) # Head
  BY IngestionBounds DEF Head, Tail, Versions, Chunks

\* One more row is committed and counted.
LEMMA CountedIs ==
  ASSUME committed \in [Runs -> Nat], written \in Nat, Counted
  PROVE  /\ committed' \in [Runs -> Nat] /\ written' \in Nat
         /\ written' = written + 1
         /\ run \in Runs => committed'[run] = committed[run] + 1
         /\ \A r \in Runs : r # run => committed'[r] = committed[r]
<1>1. committed' = [committed EXCEPT ![run] = committed[run] + 1]
  BY DEF Counted
<1>2. run \in Runs => committed[run] + 1 \in Nat
  OBVIOUS
<1>3. committed' \in [Runs -> Nat]
  BY <1>1, <1>2
<1>4. /\ run \in Runs => committed'[run] = committed[run] + 1
      /\ \A r \in Runs : r # run => committed'[r] = committed[r]
  BY <1>1
<1>5. QED
  BY <1>3, <1>4 DEF Counted

-------------------------------------------------------------------------------
(* Types                                                                     *)

LEMMA InitTypeOK == Init => TypeOK
<1> SUFFICES ASSUME Init PROVE TypeOK
  OBVIOUS
<1>1. VectorTypeOK /\ file = "none"
  BY DEF Init, VectorInit, VectorTypeOK, Disk
<1>2. QED
  BY <1>1, IngestionBounds
     DEF Init, TypeOK, Job, Torn, Streams, NextStream, Ingesting, Document, Indexing,
         Persisting

\* The steps of DataIngestionService.run and of index_document.
IngestStep ==
  \/ StartProcess \/ Run \/ RunFails \/ UpsertRow \/ EndStream \/ ReadDocument
  \/ UpsertNews \/ WriteRaw \/ UpsertDocument \/ UpsertEvent \/ UpsertChunk
  \/ SaveCompleted \/ SaveCompletedFails \/ StreamFails \/ SaveFailed
  \/ SaveFailedFails

IndexStep ==
  \/ ListChunks \/ EmbedFails \/ Add \/ AddRefused \/ PersistFile \/ PersistFails
  \/ Mark \/ MarkFails \/ Collect \/ EndGeneration \/ Crash

LEMMA IngestStepTypeOK ==
  ASSUME TypeOK, IngestStep
  PROVE  TypeOK'
<1> USE IngestionBounds DEF TypeOK, Ingesting, Document, Indexing, Persisting
<1>1. CASE StartProcess
  BY <1>1, VectorKept DEF StartProcess, Goto, vectorVars, storeVars, runVars,
     indexVars, VectorTypeOK
<1>2. CASE Run
  <2>1. run + 1 \in Runs /\ run + 1 \in 0..MaxRuns
    BY <1>2, NextRun DEF Run
  <2>2. jobs' \in [Runs -> [status : {"absent", "running", "completed", "failed"},
                          written : Nat]]
    BY <1>2, <2>1 DEF Run, Job
  <2>3. VectorTypeOK' /\ file' = file
    BY <1>2, VectorKept DEF Run, vectorVars
  <2>4. QED
    BY <1>2, <2>1, <2>2, <2>3 DEF Run, Goto, Streams, NextStream, indexVars
<1>3. CASE RunFails
  BY <1>3, VectorKept DEF RunFails, Fault, vectorVars, storeVars, runVars,
     indexVars, VectorTypeOK
<1>4. CASE UpsertRow
  BY <1>4, VectorKept DEF UpsertRow, vectorVars, storeVars, runVars, indexVars,
     VectorTypeOK
<1>5. CASE EndStream
  BY <1>5, VectorKept, FaultIsBounded DEF EndStream, NextStream, vectorVars,
     storeVars, runVars, indexVars, VectorTypeOK, Runs, Versions, Torn, Streams
<1>6. CASE ReadDocument
  BY <1>6, VectorKept, FaultIsBounded DEF ReadDocument, vectorVars, storeVars,
     runVars, indexVars, VectorTypeOK, Runs, Versions, Torn, Streams, NextStream
<1>7. CASE UpsertNews
  BY <1>7, VectorKept DEF UpsertNews, Goto, Counted, vectorVars, storeVars, runVars,
     indexVars, VectorTypeOK
<1>8. CASE WriteRaw
  BY <1>8, VectorKept, FaultIsBounded DEF WriteRaw, Goto, vectorVars, storeVars,
     runVars, indexVars, VectorTypeOK, Runs, Versions, Torn, Streams, NextStream
<1>9. CASE UpsertDocument
  BY <1>9, VectorKept DEF UpsertDocument, Counted, vectorVars, storeVars, runVars,
     indexVars, VectorTypeOK
<1>10. CASE UpsertEvent
  BY <1>10, VectorKept DEF UpsertEvent, Goto, Counted, vectorVars, storeVars,
     runVars, indexVars, VectorTypeOK
<1>11. CASE UpsertChunk
  <2>1. chunks' \in [Ids -> {"absent", "pending", "indexed"}]
    BY <1>11 DEF UpsertChunk
  <2>2. committed' \in [Runs -> Nat] /\ written' \in Nat
    BY <1>11, CountedIs DEF UpsertChunk
  <2>3. VectorTypeOK' /\ file' = file
    BY <1>11, VectorKept DEF UpsertChunk, vectorVars
  <2>4. /\ pc' = "tail" \/ pc' = "streaming"
        /\ pc \in Document /\ pc \notin Persisting \union {"marking"}
    BY <1>11 DEF UpsertChunk, Goto
  <2>5. QED
    BY <1>11, <2>1, <2>2, <2>3, <2>4 DEF UpsertChunk, indexVars
<1>12. CASE SaveCompleted
  <2>1. jobs' \in [Runs -> [status : {"absent", "running", "completed", "failed"},
                          written : Nat]]
    BY <1>12 DEF SaveCompleted, Job
  <2>2. VectorTypeOK' /\ file' = file
    BY <1>12, VectorKept DEF SaveCompleted, vectorVars
  <2>3. QED
    BY <1>12, <2>1, <2>2 DEF SaveCompleted, Goto, runVars, indexVars
<1>13. CASE SaveCompletedFails
  BY <1>13, VectorKept DEF SaveCompletedFails, Goto, Fault, vectorVars, storeVars,
     runVars, indexVars, VectorTypeOK
<1>14. CASE StreamFails
  BY <1>14, VectorKept, FaultIsBounded DEF StreamFails, Fault, CutShort, vectorVars,
     storeVars, runVars, indexVars, VectorTypeOK, Runs, Versions, Torn, Streams,
     NextStream
<1>15. CASE SaveFailed
  <2>1. jobs' \in [Runs -> [status : {"absent", "running", "completed", "failed"},
                          written : Nat]]
    BY <1>15 DEF SaveFailed, Job
  <2>2. VectorTypeOK' /\ file' = file
    BY <1>15, VectorKept DEF SaveFailed, vectorVars
  <2>3. QED
    BY <1>15, <2>1, <2>2 DEF SaveFailed, Goto, runVars, indexVars
<1>16. CASE SaveFailedFails
  BY <1>16, VectorKept DEF SaveFailedFails, Goto, Fault, vectorVars, storeVars,
     runVars, indexVars, VectorTypeOK
<1>17. QED
  BY <1>1, <1>2, <1>3, <1>4, <1>5, <1>6, <1>7, <1>8, <1>9, <1>10, <1>11, <1>12,
     <1>13, <1>14, <1>15, <1>16 DEF IngestStep

LEMMA IndexStepTypeOK ==
  ASSUME TypeOK, IndexStep
  PROVE  TypeOK'
<1> USE IngestionBounds DEF TypeOK, Ingesting, Document, Indexing, Persisting
<1>1. CASE ListChunks
  <2>1. VectorTypeOK' /\ file' = file
    BY <1>1, VectorKept DEF ListChunks, vectorVars
  <2>2. Pending \subseteq Ids
    BY DEF Pending
  <2>3. QED
    BY <1>1, <2>1, <2>2 DEF ListChunks, storeVars, runVars
<1>2. CASE EmbedFails
  BY <1>2, VectorKept DEF EmbedFails, Goto, Fault, vectorVars, storeVars, runVars,
     indexVars, VectorTypeOK
<1>3. CASE Add
  <2> PICK c \in Ids :
         /\ chunk' = c
         /\ loaded' = TRUE /\ cache' = KnownIds \union {c}
         /\ IF c \in KnownIds
            THEN pc' = "marking" /\ UNCHANGED <<disk, file, image>>
            ELSE pc' = "adding" /\ BeginPersist(KnownIds \union {c})
    BY <1>3 DEF Add
  <2>1. KnownIds \union {c} \in SUBSET Ids
    BY KnownIdsType
  <2>2. VectorTypeOK' /\ (pc' = "adding" => file' = "index")
        /\ (pc' = "marking" => file' = file)
    BY <2>1, BeginPersistIs DEF VectorTypeOK, Files
  <2>3. c # 0 /\ pc = "next"
    BY <1>3, IngestionBounds DEF Add
  <2>4. QED
    BY <1>3, <2>2, <2>3 DEF Add, storeVars, runVars
<1>4. CASE AddRefused
  BY <1>4, VectorKept DEF AddRefused, GiveUp, vectorVars, storeVars, runVars,
     indexVars, VectorTypeOK
<1>5. CASE PersistFile
  <2>1. VectorTypeOK' /\ (file # "none")
        /\ file' = IF file = "index" THEN "meta"
                   ELSE IF file = "meta" THEN "manifest" ELSE "none"
    BY <1>5, ReplaceIs DEF PersistFile, VectorTypeOK, Files
  <2>2. file \in {"index", "meta", "manifest"}
    BY <1>5, ReplaceIs DEF PersistFile, Files
  <2>3. QED
    BY <1>5, <2>1, <2>2 DEF PersistFile, GiveUp, storeVars, runVars
<1>6. CASE PersistFails
  BY <1>6, VectorKept DEF PersistFails, Fault, StopPersist, GiveUp, vectorVars,
     storeVars, runVars, indexVars, VectorTypeOK
<1>7. CASE Mark
  BY <1>7, VectorKept DEF Mark, Goto, vectorVars, storeVars, runVars, indexVars,
     VectorTypeOK
<1>8. CASE MarkFails
  <2>1. BeginPersist(cache \ {chunk}) /\ VectorTypeOK /\ cache \ {chunk} \in SUBSET Ids
    BY <1>8 DEF MarkFails, VectorTypeOK
  <2>2. VectorTypeOK' /\ file' = "index"
    BY <1>8, <2>1, BeginPersistIs DEF MarkFails, VectorTypeOK, Files
  <2>3. QED
    BY <1>8, <2>2, FaultIsBounded DEF MarkFails, Goto, storeVars, runVars, indexVars
<1>9. CASE Collect
  BY <1>9, VectorKept DEF Collect, Goto, vectorVars, storeVars, runVars, indexVars,
     VectorTypeOK
<1>10. CASE EndGeneration
  BY <1>10, VectorKept DEF EndGeneration, Goto, vectorVars, storeVars, runVars,
     indexVars, VectorTypeOK
<1>11. CASE Crash
  <2>1. VectorTypeOK' /\ file' = "none"
    BY <1>11 DEF Crash, Unload, StopPersist, VectorTypeOK
  <2>2. raw' \in 0..Torn
    BY <1>11 DEF Crash, CutShort, Torn
  <2>3. QED
    BY <1>11, <2>1, <2>2, FaultIsBounded DEF Crash, runVars
<1>12. QED
  BY <1>1, <1>2, <1>3, <1>4, <1>5, <1>6, <1>7, <1>8, <1>9, <1>10, <1>11 DEF
     IndexStep

\* Types are inductive on their own.
LEMMA NextTypeOK == TypeOK /\ [Next]_vars => TypeOK'
<1> SUFFICES ASSUME TypeOK, [Next]_vars PROVE TypeOK'
  OBVIOUS
<1>1. CASE IngestStep
  BY <1>1, IngestStepTypeOK
<1>2. CASE IndexStep
  BY <1>2, IndexStepTypeOK
<1>3. CASE UNCHANGED vars
  BY <1>3 DEF vars, vectorVars, storeVars, runVars, indexVars, TypeOK, VectorTypeOK
<1>4. QED
  BY <1>1, <1>2, <1>3 DEF Next, IngestStep, IndexStep

-------------------------------------------------------------------------------
(* Counts                                                                    *)

Counts == Fresh /\ CountsOfRun /\ RowsAreCommitted

\* Outside run() nothing is counted.
LEMMA CountsKept ==
  ASSUME Counts, UNCHANGED <<jobs, committed, run>>, pc' \notin Ingesting \union {"closing"}
  PROVE  Counts'
  BY DEF Counts, Fresh, CountsOfRun, RowsAreCommitted

\* Indexing counts nothing, and neither does a process that dies.
LEMMA IndexStepCounts ==
  ASSUME Counts, TypeOK, IndexStep
  PROVE  Counts'
<1>1. UNCHANGED <<jobs, committed, run>>
  BY DEF IndexStep, ListChunks, EmbedFails, Add, AddRefused, PersistFile, PersistFails,
         Mark, MarkFails, Collect, EndGeneration, Crash, storeVars, runVars
<1>2. pc' \notin Ingesting \union {"closing"}
  BY DEF IndexStep, ListChunks, EmbedFails, Add, AddRefused, PersistFile, PersistFails,
         Mark, MarkFails, Collect, EndGeneration, Crash, GiveUp, Goto, Ingesting, Document,
         Persisting
<1>3. QED
  BY <1>1, <1>2, CountsKept

\* What a row adds: to the rows of the job, and to what is counted of them.
LEMMA RowIsCounted ==
  ASSUME Counts, TypeOK, pc \in Ingesting, UNCHANGED <<jobs, run>>,
         committed' \in [Runs -> Nat], committed'[run] = committed[run] + 1,
         \A r \in Runs : r # run => committed'[r] = committed[r],
         (written + Unreturned)' = written + Unreturned + 1, pc' \in Ingesting
  PROVE  Counts'
<1>1. run \in Runs /\ written + Unreturned = committed[run] /\ jobs[run].status = "running"
  BY DEF TypeOK, Counts, CountsOfRun, Ingesting, Document
<1>2. Fresh'
  BY <1>1, IngestionBounds DEF Counts, Fresh, TypeOK, Runs
<1>3. CountsOfRun'
  BY <1>1 DEF CountsOfRun, Ingesting, Document
<1>4. RowsAreCommitted'
  BY <1>1 DEF Counts, RowsAreCommitted
<1>5. QED
  BY <1>2, <1>3, <1>4 DEF Counts

\* Each step of run() counts what it commits.
LEMMA IngestStepCounts ==
  ASSUME Counts, TypeOK, IngestStep
  PROVE  Counts'
<1> USE DEF Counts, Ingesting, Document
<1>1. CASE StartProcess
  BY <1>1, CountsKept DEF StartProcess, Goto, storeVars, runVars
<1>2. CASE Run
  <2>1. run' = run + 1 /\ run + 1 \in Runs /\ run \in Int
    BY <1>2, NextRun, IngestionBounds DEF Run, TypeOK
  <2>2. jobs'[run + 1] = Job("running", 0) /\ committed' = committed
    BY <1>2, <2>1 DEF Run, TypeOK
  <2>3. \A r \in Runs : r # run + 1 => jobs'[r] = jobs[r]
    BY <1>2 DEF Run, TypeOK
  <2>4. committed[run + 1] = 0
    BY <2>1 DEF Fresh
  <2>5. Fresh'
    BY <2>1, <2>2, <2>3, IngestionBounds DEF Fresh, Runs
  <2>6. CountsOfRun'
    BY <1>2, <2>1, <2>2, <2>4 DEF Run, CountsOfRun, Job, Unreturned, Batched
  <2>7. RowsAreCommitted'
    BY <2>2, <2>3 DEF RowsAreCommitted, Job
  <2>8. QED
    BY <2>5, <2>6, <2>7
<1>3. CASE RunFails
  <2>1. run' = run + 1 /\ run \in Int /\ UNCHANGED <<jobs, committed>> /\ pc' = "idle"
    BY <1>3, IngestionBounds DEF RunFails, TypeOK, storeVars
  <2>2. Fresh'
    BY <2>1, IngestionBounds DEF Fresh, Runs
  <2>3. QED
    BY <2>1, <2>2 DEF CountsOfRun, RowsAreCommitted
<1>4. CASE UpsertRow
  <2>1. /\ committed' = [committed EXCEPT ![run] = committed[run] + 1]
        /\ run \in Runs /\ pc' = "streaming" /\ pc = "streaming"
    BY <1>4 DEF UpsertRow, TypeOK
  <2>2. /\ committed' \in [Runs -> Nat] /\ committed'[run] = committed[run] + 1
        /\ \A r \in Runs : r # run => committed'[r] = committed[r]
    BY <2>1 DEF TypeOK
  <2>3. (written + Unreturned)' = written + Unreturned + 1
    BY <1>4, IngestionBounds DEF UpsertRow, Unreturned, TypeOK
  <2>4. QED
    BY <1>4, <2>1, <2>2, <2>3, RowIsCounted DEF UpsertRow
<1>5. CASE EndStream
  BY <1>5 DEF EndStream, NextStream, Fresh, CountsOfRun, RowsAreCommitted,
     storeVars, runVars, Unreturned
<1>6. CASE ReadDocument
  <2>1. Unreturned = 0 /\ Unreturned' = 0
    BY <1>6 DEF ReadDocument, Unreturned, Batched
  <2>2. pc = "streaming" /\ pc' \in Document /\ UNCHANGED <<jobs, committed, run, written>>
    BY <1>6 DEF ReadDocument, storeVars
  <2>3. QED
    BY <2>1, <2>2 DEF Fresh, CountsOfRun, RowsAreCommitted
<1>7. CASE UpsertNews
  <2>1. pc \in Document /\ pc' \in Ingesting /\ run \in Runs
    BY <1>7 DEF UpsertNews, Goto, TypeOK
  <2>2. /\ committed' \in [Runs -> Nat] /\ committed'[run] = committed[run] + 1
        /\ \A r \in Runs : r # run => committed'[r] = committed[r]
        /\ written' = written + 1
    BY <1>7, <2>1, CountedIs DEF UpsertNews, TypeOK
  <2>3. (written + Unreturned)' = written + Unreturned + 1
    BY <1>7, <2>2, IngestionBounds DEF UpsertNews, Unreturned, TypeOK
  <2>4. QED
    BY <1>7, <2>1, <2>2, <2>3, RowIsCounted DEF UpsertNews
<1>8. CASE WriteRaw
  BY <1>8 DEF WriteRaw, Goto, Fresh, CountsOfRun, RowsAreCommitted, storeVars,
     runVars, Unreturned
<1>9. CASE UpsertDocument
  <2>1. pc \in Document /\ pc' \in Ingesting /\ run \in Runs
    BY <1>9 DEF UpsertDocument, TypeOK
  <2>2. /\ committed' \in [Runs -> Nat] /\ committed'[run] = committed[run] + 1
        /\ \A r \in Runs : r # run => committed'[r] = committed[r]
        /\ written' = written + 1
    BY <1>9, <2>1, CountedIs DEF UpsertDocument, TypeOK
  <2>3. (written + Unreturned)' = written + Unreturned + 1
    BY <1>9, <2>2, IngestionBounds DEF UpsertDocument, Unreturned, TypeOK
  <2>4. QED
    BY <1>9, <2>1, <2>2, <2>3, RowIsCounted DEF UpsertDocument
<1>10. CASE UpsertEvent
  <2>1. pc \in Document /\ pc' \in Ingesting /\ run \in Runs
    BY <1>10 DEF UpsertEvent, Goto, TypeOK
  <2>2. /\ committed' \in [Runs -> Nat] /\ committed'[run] = committed[run] + 1
        /\ \A r \in Runs : r # run => committed'[r] = committed[r]
        /\ written' = written + 1
    BY <1>10, <2>1, CountedIs DEF UpsertEvent, TypeOK
  <2>3. (written + Unreturned)' = written + Unreturned + 1
    BY <1>10, <2>2, IngestionBounds DEF UpsertEvent, Unreturned, TypeOK
  <2>4. QED
    BY <1>10, <2>1, <2>2, <2>3, RowIsCounted DEF UpsertEvent
<1>11. CASE UpsertChunk
  <2>1. pc \in Document /\ pc' \in Ingesting /\ run \in Runs
    BY <1>11 DEF UpsertChunk, Goto, TypeOK
  <2>2. /\ committed' \in [Runs -> Nat] /\ committed'[run] = committed[run] + 1
        /\ \A r \in Runs : r # run => committed'[r] = committed[r]
        /\ written' = written + 1
    BY <1>11, <2>1, CountedIs DEF UpsertChunk, TypeOK
  <2>3. (written + Unreturned)' = written + Unreturned + 1
    BY <1>11, <2>2, IngestionBounds DEF UpsertChunk, Unreturned, TypeOK
  <2>4. QED
    BY <1>11, <2>1, <2>2, <2>3, RowIsCounted DEF UpsertChunk
<1>12. CASE SaveCompleted
  <2>1. /\ run \in Runs /\ written = committed[run]
        /\ UNCHANGED <<committed, run>> /\ pc' = "indexing"
    BY <1>12 DEF SaveCompleted, Goto, CountsOfRun, Unreturned, Batched, TypeOK, runVars
  <2>2. /\ jobs'[run] = Job("completed", written)
        /\ \A r \in Runs : r # run => jobs'[r] = jobs[r]
    BY <1>12, <2>1 DEF SaveCompleted, TypeOK
  <2>3. Fresh'
    BY <2>1, <2>2, IngestionBounds DEF Fresh, TypeOK, Runs
  <2>4. QED
    BY <2>1, <2>2, <2>3 DEF CountsOfRun, RowsAreCommitted, Job
<1>13. CASE SaveCompletedFails
  BY <1>13, CountsKept DEF SaveCompletedFails, Goto, storeVars, runVars
<1>14. CASE StreamFails
  BY <1>14 DEF StreamFails, CutShort, Fresh, CountsOfRun, RowsAreCommitted,
     storeVars, runVars, Unreturned, TypeOK
<1>15. CASE SaveFailed
  BY <1>15 DEF SaveFailed, Goto, Job, Fresh, CountsOfRun, RowsAreCommitted,
     storeVars, runVars
<1>16. CASE SaveFailedFails
  BY <1>16, CountsKept DEF SaveFailedFails, Goto, storeVars, runVars
<1>17. QED
  BY <1>1, <1>2, <1>3, <1>4, <1>5, <1>6, <1>7, <1>8, <1>9, <1>10, <1>11, <1>12,
     <1>13, <1>14, <1>15, <1>16 DEF IngestStep

-------------------------------------------------------------------------------
(* The document                                                              *)

\* Indexing, and every step outside a delivery, leaves a stored document stored.
LEMMA DocumentKept ==
  ASSUME PartsOfDocument, UNCHANGED <<raw, text, version, stream, local>>,
         pc' \in {"streaming"} \union Indexing \union {"collected"} =>
           pc \in {"streaming"} \union Indexing \union {"collected"},
         pc' \notin Document,
         \A c \in Ids : chunks[c] # "absent" => chunks'[c] # "absent"
  PROVE  PartsOfDocument'
  BY ChunkIds DEF PartsOfDocument, Document

\* No step of indexing forgets a chunk.
LEMMA IndexStepDocument ==
  ASSUME PartsOfDocument, TypeOK, IndexStep
  PROVE  PartsOfDocument'
<1>1. CASE Crash
  BY <1>1 DEF Crash, PartsOfDocument, Document, Indexing, Persisting
<1>2. CASE Mark
  <2>1. \A c \in Ids : chunks[c] # "absent" => chunks'[c] # "absent"
    BY <1>2 DEF Mark, TypeOK
  <2>2. QED
    BY <1>2, <2>1, DocumentKept DEF Mark, Goto, Document, Indexing, Persisting, runVars
<1>3. CASE IndexStep /\ ~Crash /\ ~Mark
  <2>1. UNCHANGED <<storeVars, runVars>>
    BY <1>3 DEF IndexStep, ListChunks, EmbedFails, Add, AddRefused, PersistFile,
       PersistFails, MarkFails, Collect, EndGeneration
  <2>2. pc \in Indexing \union {"collected"} /\ pc' \notin Document
    BY <1>3 DEF IndexStep, ListChunks, EmbedFails, Add, AddRefused, PersistFile,
       PersistFails, MarkFails, Collect, EndGeneration, GiveUp, Goto, Document, Indexing,
       Persisting
  <2>3. QED
    BY <2>1, <2>2, DocumentKept DEF storeVars, runVars
<1>4. QED
  BY <1>1, <1>2, <1>3

\* Each step of run() stores its part of the document that was delivered.
LEMMA IngestStepDocument ==
  ASSUME PartsOfDocument, TypeOK, IngestStep
  PROVE  PartsOfDocument'
<1> USE DEF PartsOfDocument, Document, Indexing, Persisting
<1>1. CASE StartProcess
  BY <1>1 DEF StartProcess, Goto, storeVars, runVars
<1>2. CASE Run
  BY <1>2 DEF Run, Goto, storeVars, runVars
<1>3. CASE RunFails
  BY <1>3 DEF RunFails, storeVars, runVars
<1>4. CASE UpsertRow
  BY <1>4 DEF UpsertRow, storeVars, runVars
<1>5. CASE EndStream
  BY <1>5 DEF EndStream, NextStream, storeVars, runVars
<1>6. CASE ReadDocument
  BY <1>6 DEF ReadDocument, storeVars, runVars
<1>7. CASE UpsertNews
  BY <1>7 DEF UpsertNews, Goto, storeVars, runVars
<1>8. CASE WriteRaw
  BY <1>8 DEF WriteRaw, Goto, storeVars, runVars
<1>9. CASE UpsertDocument
  BY <1>9 DEF UpsertDocument, storeVars, runVars
<1>10. CASE UpsertEvent
  BY <1>10 DEF UpsertEvent, Goto, storeVars, runVars
<1>11. CASE UpsertChunk
  BY <1>11, ChunkIds DEF UpsertChunk, Goto, storeVars, runVars, TypeOK
<1>12. CASE SaveCompleted
  BY <1>12 DEF SaveCompleted, Goto, storeVars, runVars
<1>13. CASE SaveCompletedFails
  BY <1>13 DEF SaveCompletedFails, Goto, storeVars, runVars
<1>14. CASE StreamFails
  BY <1>14 DEF StreamFails, CutShort, storeVars, runVars
<1>15. CASE SaveFailed
  BY <1>15 DEF SaveFailed, Goto, storeVars, runVars
<1>16. CASE SaveFailedFails
  BY <1>16 DEF SaveFailedFails, Goto, storeVars, runVars
<1>17. QED
  BY <1>1, <1>2, <1>3, <1>4, <1>5, <1>6, <1>7, <1>8, <1>9, <1>10, <1>11, <1>12,
     <1>13, <1>14, <1>15, <1>16 DEF IngestStep

-------------------------------------------------------------------------------
(* The vectors                                                               *)

Vectors == NoDirectory /\ PersistPhase /\ ChunkInHand /\ CacheIsOnDisk /\ VectorsHold

\* run() leaves the namespace alone; the chunks it stores are pending.
LEMMA IngestStepVectors ==
  ASSUME Vectors, TypeOK, IngestStep
  PROVE  Vectors'
<1>1. /\ UNCHANGED <<vectorVars, indexVars>>
      /\ pc \notin Persisting \union {"marking"} /\ pc' \notin Persisting \union {"marking"}
  BY DEF IngestStep, StartProcess, Run, RunFails, UpsertRow, EndStream, ReadDocument,
     UpsertNews, WriteRaw, UpsertDocument, UpsertEvent, UpsertChunk, SaveCompleted,
     SaveCompletedFails, StreamFails, SaveFailed, SaveFailedFails, Goto, Ingesting, Document,
     Persisting
<1>2. \A c \in Ids : chunks'[c] = chunks[c] \/ chunks'[c] = "pending"
  <2>1. CASE UpsertChunk
    BY <2>1 DEF UpsertChunk, TypeOK
  <2>2. CASE IngestStep /\ ~UpsertChunk
    BY <2>2 DEF IngestStep, StartProcess, Run, RunFails, UpsertRow, EndStream,
       ReadDocument, UpsertNews, WriteRaw, UpsertDocument, UpsertEvent, SaveCompleted,
       SaveCompletedFails, StreamFails, SaveFailed, SaveFailedFails, storeVars
  <2>3. QED
    BY <2>1, <2>2
<1>3. chunk = 0 /\ chunk' = 0 /\ file = "none" /\ file' = "none"
  BY <1>1 DEF TypeOK, vectorVars, indexVars
<1> USE DEF Vectors, vectorVars, indexVars
<1>4. NoDirectory' /\ PersistPhase'
  BY <1>1, <1>2, <1>3 DEF NoDirectory, PersistPhase
<1>5. ChunkInHand'
  BY <1>1, <1>2, <1>3 DEF ChunkInHand, Pending, Persisting
<1>6. CacheIsOnDisk'
  BY <1>1, <1>3 DEF CacheIsOnDisk, Loadable, Persisting
<1>7. VectorsHold'
  BY <1>1, <1>2, <1>3 DEF VectorsHold, Vector, Loadable
<1>8. QED
  BY <1>4, <1>5, <1>6, <1>7

\* Each step of indexing, each way it fails, and the death of the process.
LEMMA IndexStepVectors ==
  ASSUME Vectors, TypeOK, TypeOK', IndexStep
  PROVE  Vectors'
<1> USE DEF Vectors, vectorVars, Persisting
<1>1. CASE ListChunks
  <2>1. NoDirectory'
    BY <1>1 DEF NoDirectory, ListChunks, storeVars, indexVars
  <2>2. PersistPhase'
    BY <1>1 DEF PersistPhase, ListChunks, storeVars, indexVars
  <2>3. ChunkInHand'
    BY <1>1 DEF ChunkInHand, ListChunks, storeVars, indexVars, Pending, TypeOK,
       VectorTypeOK, Opens, KnownIds, Loadable
  <2>4. CacheIsOnDisk'
    BY <1>1 DEF CacheIsOnDisk, ListChunks, storeVars, indexVars
  <2>5. VectorsHold'
    BY <1>1 DEF VectorsHold, ListChunks, storeVars, indexVars, Vector, Loadable
  <2>6. QED
    BY <2>1, <2>2, <2>3, <2>4, <2>5
<1>2. CASE EmbedFails
  <2>1. NoDirectory'
    BY <1>2 DEF NoDirectory, EmbedFails, Goto, storeVars, indexVars
  <2>2. PersistPhase'
    BY <1>2 DEF PersistPhase, EmbedFails, Goto, storeVars, indexVars
  <2>3. ChunkInHand'
    BY <1>2 DEF ChunkInHand, EmbedFails, Goto, storeVars, indexVars, Pending
  <2>4. CacheIsOnDisk'
    BY <1>2 DEF CacheIsOnDisk, EmbedFails, Goto, storeVars, indexVars
  <2>5. VectorsHold'
    BY <1>2 DEF VectorsHold, EmbedFails, Goto, storeVars, indexVars, Vector,
       Loadable
  <2>6. QED
    BY <2>1, <2>2, <2>3, <2>4, <2>5
<1>3. CASE Add
  <2> PICK c \in Ids :
         /\ c \in todo /\ chunk' = c
         /\ loaded' = TRUE /\ cache' = KnownIds \union {c}
         /\ IF c \in KnownIds
            THEN pc' = "marking" /\ UNCHANGED <<disk, file, image>>
            ELSE pc' = "adding" /\ BeginPersist(KnownIds \union {c})
    BY <1>3 DEF Add, IsNext
  <2>p. /\ disk'.has = disk.has /\ disk'.index = disk.index /\ disk'.meta = disk.meta
        /\ pc' = "adding" => disk'.dir /\ file' = "index" /\ image' = cache'
        /\ pc' = "marking" => disk' = disk /\ file' = file /\ image' = image
        /\ pc' \in {"adding", "marking"} /\ file = "none" /\ todo' = todo /\ chunks' = chunks
        /\ Opens
    BY <1>3, BeginPersistIs DEF Add, TypeOK, storeVars
  <2>1. NoDirectory'
    BY <1>3, <2>p DEF NoDirectory, Add, storeVars, indexVars, TypeOK, VectorTypeOK,
       Opens, KnownIds, Loadable
  <2>2. PersistPhase'
    BY <1>3, <2>p DEF PersistPhase, Add, storeVars, indexVars
  <2>3. ChunkInHand'
    BY <1>3, <2>p DEF ChunkInHand, Add, storeVars, indexVars, Pending
  <2>4. CacheIsOnDisk'
    BY <1>3, <2>p DEF CacheIsOnDisk, Add, storeVars, indexVars, Loadable, TypeOK,
       VectorTypeOK, Opens, KnownIds
  <2>5. VectorsHold'
    <3> SUFFICES ASSUME NEW d \in Ids PROVE Vector(d)'
      BY DEF VectorsHold
    <3>1. Vector(d) /\ chunks[c] = "pending"
      BY DEF VectorsHold, ChunkInHand, Pending
    <3>2. chunks[d] = "indexed" => d \in KnownIds
      BY <2>p, <3>1 DEF Vector, KnownIds, NoDirectory, Opens
    <3>3. d \in KnownIds \union {c} => chunks[d] # "absent"
      BY <3>1 DEF Vector, KnownIds
    <3>4. /\ Loadable(disk') <=> Loadable(disk)
          /\ file' # "none" => image' = KnownIds \union {c}
          /\ image' = image \/ image' = KnownIds \union {c}
      BY <2>p DEF Loadable
    <3>5. QED
      BY <2>p, <3>1, <3>2, <3>3, <3>4 DEF Vector
  <2>6. QED
    BY <2>1, <2>2, <2>3, <2>4, <2>5
<1>4. CASE AddRefused
  <2>1. NoDirectory'
    BY <1>4 DEF NoDirectory, AddRefused, GiveUp, storeVars, indexVars
  <2>2. PersistPhase'
    BY <1>4 DEF PersistPhase, AddRefused, GiveUp, storeVars, indexVars
  <2>3. ChunkInHand'
    BY <1>4 DEF ChunkInHand, AddRefused, GiveUp, storeVars, indexVars
  <2>4. CacheIsOnDisk'
    BY <1>4 DEF CacheIsOnDisk, AddRefused, GiveUp, storeVars, indexVars
  <2>5. VectorsHold'
    BY <1>4 DEF VectorsHold, AddRefused, GiveUp, storeVars, indexVars, Vector,
       Loadable
  <2>6. QED
    BY <2>1, <2>2, <2>3, <2>4, <2>5
<1>5. CASE PersistFile
  <2>p. /\ disk'.dir = disk.dir /\ disk'.has = disk.has \union {file}
        /\ disk'.index = image
        /\ disk'.meta  = IF file = "meta"  THEN image ELSE disk.meta
        /\ image' = image /\ file # "none" /\ disk.dir
        /\ file' = IF file = "index" THEN "meta"
                   ELSE IF file = "meta" THEN "manifest" ELSE "none"
    BY <1>5, ReplaceIs DEF PersistFile, TypeOK, NoDirectory, PersistPhase, Files
  <2>1. NoDirectory'
    BY <1>5, <2>p DEF NoDirectory, PersistFile, GiveUp, storeVars, indexVars
  <2>2. PersistPhase'
    BY <1>5, <2>p DEF PersistPhase, PersistFile, GiveUp, storeVars, indexVars
  <2>3. ChunkInHand'
    BY <1>5, <2>p DEF ChunkInHand, PersistFile, GiveUp, storeVars, indexVars,
       Pending
  <2>4. CacheIsOnDisk'
    BY <1>5, <2>p DEF CacheIsOnDisk, PersistFile, GiveUp, storeVars, indexVars,
       Loadable, TypeOK, VectorTypeOK, Opens, KnownIds, NoDirectory, ChunkInHand,
       PersistPhase
  <2>5. VectorsHold'
    BY <1>5, <2>p DEF VectorsHold, PersistFile, GiveUp, storeVars, indexVars,
       Vector, Loadable
  <2>6. QED
    BY <2>1, <2>2, <2>3, <2>4, <2>5
<1>6. CASE PersistFails
  <2>1. NoDirectory'
    BY <1>6 DEF NoDirectory, PersistFails, StopPersist, GiveUp, storeVars, indexVars
  <2>2. PersistPhase'
    BY <1>6 DEF PersistPhase, PersistFails, StopPersist, GiveUp, storeVars,
       indexVars
  <2>3. ChunkInHand'
    BY <1>6 DEF ChunkInHand, PersistFails, StopPersist, GiveUp, storeVars, indexVars
  <2>4. CacheIsOnDisk'
    BY <1>6 DEF CacheIsOnDisk, PersistFails, StopPersist, GiveUp, storeVars,
       indexVars
  <2>5. VectorsHold'
    <3>1. chunk \in Ids /\ chunks[chunk] = "pending"
      BY <1>6 DEF PersistFails, TypeOK, ChunkInHand, Pending
    <3>2. /\ chunks' = chunks /\ loaded' = loaded /\ cache' = cache \ {chunk}
          /\ disk' = disk /\ image' = image /\ file' = "none"
      BY <1>6 DEF PersistFails, StopPersist, storeVars
    <3>3. QED
      BY <3>1, <3>2 DEF VectorsHold, Vector
  <2>6. QED
    BY <2>1, <2>2, <2>3, <2>4, <2>5
<1>7. CASE Mark
  <2>1. NoDirectory'
    BY <1>7 DEF NoDirectory, Mark, Goto, storeVars, indexVars, TypeOK, VectorTypeOK,
       Opens, KnownIds, Loadable, ChunkInHand, PersistPhase, CacheIsOnDisk
  <2>2. PersistPhase'
    BY <1>7 DEF PersistPhase, Mark, Goto, storeVars, indexVars
  <2>3. ChunkInHand'
    BY <1>7 DEF ChunkInHand, Mark, Goto, storeVars, indexVars, Pending
  <2>4. CacheIsOnDisk'
    BY <1>7 DEF CacheIsOnDisk, Mark, Goto, storeVars, indexVars
  <2>5. VectorsHold'
    BY <1>7 DEF VectorsHold, Mark, Goto, storeVars, indexVars, Vector, Loadable,
       TypeOK, VectorTypeOK, Opens, KnownIds, NoDirectory, ChunkInHand, PersistPhase,
       CacheIsOnDisk
  <2>6. QED
    BY <2>1, <2>2, <2>3, <2>4, <2>5
<1>8. CASE MarkFails
  <2>p. /\ disk'.dir /\ file' = "index" /\ image' = cache \ {chunk}
        /\ disk'.has = disk.has /\ disk'.index = disk.index /\ disk'.meta = disk.meta
    BY <1>8, BeginPersistIs DEF MarkFails, TypeOK
  <2>1. NoDirectory'
    BY <1>8, <2>p DEF NoDirectory, MarkFails, Goto, storeVars, indexVars
  <2>2. PersistPhase'
    BY <1>8, <2>p DEF PersistPhase, MarkFails, Goto, storeVars, indexVars
  <2>3. ChunkInHand'
    BY <1>8, <2>p DEF ChunkInHand, MarkFails, Goto, storeVars, indexVars, Pending
  <2>4. CacheIsOnDisk'
    BY <1>8, <2>p DEF CacheIsOnDisk, MarkFails, Goto, storeVars, indexVars, Loadable
  <2>5. VectorsHold'
    <3>1. chunk \in Ids /\ chunks[chunk] = "pending" /\ loaded
      BY <1>8 DEF MarkFails, Goto, TypeOK, ChunkInHand, Pending, PersistPhase
    <3>2. /\ chunks' = chunks /\ loaded' = loaded /\ cache' = cache \ {chunk}
          /\ Loadable(disk') <=> Loadable(disk)
      BY <1>8, <2>p DEF MarkFails, storeVars, Loadable
    <3>3. QED
      BY <2>p, <3>1, <3>2 DEF VectorsHold, Vector
  <2>6. QED
    BY <2>1, <2>2, <2>3, <2>4, <2>5
<1>9. CASE Collect
  <2>1. NoDirectory'
    BY <1>9 DEF NoDirectory, Collect, Goto, storeVars, indexVars
  <2>2. PersistPhase'
    BY <1>9 DEF PersistPhase, Collect, Goto, storeVars, indexVars
  <2>3. ChunkInHand'
    BY <1>9 DEF ChunkInHand, Collect, Goto, storeVars, indexVars
  <2>4. CacheIsOnDisk'
    BY <1>9 DEF CacheIsOnDisk, Collect, Goto, storeVars, indexVars
  <2>5. VectorsHold'
    BY <1>9 DEF VectorsHold, Collect, Goto, storeVars, indexVars, Vector, Loadable
  <2>6. QED
    BY <2>1, <2>2, <2>3, <2>4, <2>5
<1>10. CASE EndGeneration
  <2>1. NoDirectory'
    BY <1>10 DEF NoDirectory, EndGeneration, Goto, storeVars, indexVars
  <2>2. PersistPhase'
    BY <1>10 DEF PersistPhase, EndGeneration, Goto, storeVars, indexVars
  <2>3. ChunkInHand'
    BY <1>10 DEF ChunkInHand, EndGeneration, Goto, storeVars, indexVars, Pending
  <2>4. CacheIsOnDisk'
    BY <1>10 DEF CacheIsOnDisk, EndGeneration, Goto, storeVars, indexVars
  <2>5. VectorsHold'
    BY <1>10 DEF VectorsHold, EndGeneration, Goto, storeVars, indexVars, Vector,
       Loadable
  <2>6. QED
    BY <2>1, <2>2, <2>3, <2>4, <2>5
<1>11. CASE Crash
  <2>1. NoDirectory'
    BY <1>11 DEF NoDirectory, Crash, CutShort, Unload, StopPersist, storeVars,
       indexVars
  <2>2. PersistPhase'
    BY <1>11 DEF PersistPhase, Crash, CutShort, Unload, StopPersist, storeVars,
       indexVars
  <2>3. ChunkInHand'
    BY <1>11 DEF ChunkInHand, Crash, CutShort, Unload, StopPersist, storeVars,
       indexVars
  <2>4. CacheIsOnDisk'
    BY <1>11 DEF CacheIsOnDisk, Crash, CutShort, Unload, StopPersist, storeVars,
       indexVars
  <2>5. VectorsHold'
    BY <1>11 DEF VectorsHold, Crash, CutShort, Unload, StopPersist, storeVars,
       indexVars, Vector, Loadable
  <2>6. QED
    BY <2>1, <2>2, <2>3, <2>4, <2>5
<1>12. QED
  BY <1>1, <1>2, <1>3, <1>4, <1>5, <1>6, <1>7, <1>8, <1>9, <1>10, <1>11 DEF
     IndexStep

-------------------------------------------------------------------------------
(* Theorems                                                                  *)

LEMMA InitIInv == Init => IInv
<1> SUFFICES ASSUME Init PROVE IInv
  OBVIOUS
<1>1. TypeOK
  BY InitTypeOK
<1>2. Fresh /\ CountsOfRun /\ RowsAreCommitted
  BY DEF Init, Fresh, CountsOfRun, RowsAreCommitted, Job, Ingesting, Document
<1>3. PartsOfDocument
  BY DEF Init, PartsOfDocument, Document, Indexing, Persisting
<1>4. NoDirectory /\ PersistPhase /\ ChunkInHand /\ CacheIsOnDisk /\ VectorsHold
  BY DEF Init, VectorInit, NoDirectory, PersistPhase, ChunkInHand, Pending, CacheIsOnDisk,
         VectorsHold, Vector, Persisting
<1>5. QED
  BY <1>1, <1>2, <1>3, <1>4 DEF IInv

LEMMA NextIInv == IInv /\ [Next]_vars => IInv'
<1> SUFFICES ASSUME IInv, [Next]_vars PROVE IInv'
  OBVIOUS
<1>1. TypeOK /\ TypeOK' /\ Counts /\ PartsOfDocument /\ Vectors
  BY NextTypeOK DEF IInv, Counts, Vectors
<1>2. CASE IngestStep
  BY <1>1, <1>2, IngestStepCounts, IngestStepDocument, IngestStepVectors
     DEF IInv, Counts, Vectors
<1>3. CASE IndexStep
  BY <1>1, <1>3, IndexStepCounts, IndexStepDocument, IndexStepVectors
     DEF IInv, Counts, Vectors
<1>4. CASE UNCHANGED vars
  <2> USE <1>1, <1>4 DEF vars, vectorVars, storeVars, runVars, indexVars
  <2>1. Counts'
    BY DEF Counts, Fresh, CountsOfRun, RowsAreCommitted, Unreturned
  <2>2. PartsOfDocument'
    BY DEF PartsOfDocument
  <2>3. Vectors'
    BY DEF Vectors, NoDirectory, PersistPhase, ChunkInHand, Pending, CacheIsOnDisk,
           VectorsHold, Vector
  <2>4. QED
    BY <2>1, <2>2, <2>3 DEF IInv, Counts, Vectors
<1>5. QED
  BY <1>2, <1>3, <1>4 DEF Next, IngestStep, IndexStep

\* The stores, the counters and the control of DataIngestionService.run and
\* DocumentEmbeddingService.index_document have their types, and the control
\* variables are set exactly where the control is, whatever fails.
THEOREM TypeCorrect == Spec => []TypeOK
<1>1. QED
  BY InitTypeOK, NextTypeOK, PTL DEF Spec

\* Every step of run() and of index_document, every failure and the death of the
\* process keep the counts, the parts of the document and the vectors.
THEOREM Inductive == Spec => []IInv
<1>1. QED
  BY InitIInv, NextIInv, PTL DEF Spec

\* DataIngestionService.run: rows_written of a FAILED job claims no row that was
\* not committed, and a COMPLETED job counts the rows it committed exactly.
THEOREM JobsCountCommittedRows == Spec => []RowsAreCommitted
<1>1. IInv => RowsAreCommitted
  BY DEF IInv
<1>2. QED
  BY <1>1, Inductive, PTL

\* _persist_text: after a run that delivered the document returns, raw file,
\* checksum and chunks are those of the delivered text, whatever version an
\* earlier run stored and wherever it failed.
THEOREM DeliveredDocumentIsWhole == Spec => []IngestedDocumentIsWhole
<1>1. IInv => IngestedDocumentIsWhole
  BY DEF IInv, PartsOfDocument, IngestedDocumentIsWhole
<1>2. QED
  BY <1>1, Inductive, PTL

\* index_document and FaissVectorRepository: a chunk marked indexed has its vector
\* in this process and after a restart, and no vector is without its chunk row.
THEOREM IndexedChunksHaveVectors == Spec => []VectorsMatchChunks
<1>1. IInv => VectorsMatchChunks
  BY DEF IInv, VectorsHold, Vector, VectorsMatchChunks
<1>2. QED
  BY <1>1, Inductive, PTL
===============================================================================
