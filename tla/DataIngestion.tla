----------------------------- MODULE DataIngestion -----------------------------
(***************************************************************************)
(* How one generation acquires its evidence: DataIngestionService.run      *)
(* streams provider rows into DuckDB, one transaction per row, and keeps   *)
(* the count in an ingestion job; DocumentEmbeddingService.index_document  *)
(* then gives every pending chunk its vector in the namespace docs_v1 and  *)
(* marks it indexed.  One Worker process does both, one generation after   *)
(* the other, and may die between any two steps.                           *)
(*                                                                         *)
(* One document is enough: rows of others only add to the counts.  Its     *)
(* provider may revise it; version v has two chunks, the head, which no    *)
(* revision touches, and a tail of its own.  A chunk's id is a hash of its *)
(* text, and so is its vector id.                                          *)
(***************************************************************************)
EXTENDS VectorNamespace

CONSTANTS
  MaxRuns,      \* bound: how many ingestion jobs are begun
  MaxVersions,  \* bound: how many texts the provider publishes
  MaxRows,      \* bound: how many rows a stream delivers
  MaxFaults     \* bound: how many calls fail or processes die

ASSUME IngestionBounds ==
  /\ MaxRuns \in Nat /\ MaxVersions \in Nat \ {0}
  /\ MaxRows \in Nat \ {0} /\ MaxFaults \in Nat
  /\ Ids = 1..MaxVersions + 1

VARIABLES
  jobs,       \* DuckDB table ingestion_jobs: status and rows_written
  committed,  \* how many rows each job committed (history)
  raw,        \* the version in the raw text file, Torn if it was cut short
  text,       \* the version whose checksum is in text_documents, 0 for no row
  chunks,     \* DuckDB table document_chunks: metadata.embedding_status
  pc,         \* where the Worker process is
  run,        \* the job it executes; the number of jobs begun
  stream,     \* the provider stream it reads
  local,      \* how many records of that stream it has persisted
  written,    \* rows_written in run()
  version,    \* the version the provider publishes
  todo,       \* the chunks index_document has still to index
  chunk,      \* the one it is at, 0 for none
  faults      \* how many failures have happened

storeVars == <<jobs, committed, raw, text, chunks>>
runVars   == <<run, stream, local, written, version>>
indexVars == <<todo, chunk>>
vars == <<vectorVars, storeVars, pc, runVars, indexVars, faults>>

Runs     == 1..MaxRuns
Versions == 1..MaxVersions
Torn     == MaxVersions + 1

Head      == 1
Tail(v)   == v + 1
Chunks(v) == {Head, Tail(v)}

Job(status, rows) == [status |-> status, written |-> rows]

\* The order of the streams in run().  EOD bars and fundamentals are persisted
\* by helpers that return their count at the end; run() counts the others.
NextStream == [instruments |-> "eod", eod |-> "fundamentals",
               fundamentals |-> "macro", macro |-> "sentiment",
               sentiment |-> "documents"]
Streams == DOMAIN NextStream \union {"documents"}
Batched == {"eod", "fundamentals"}

Document   == {"news", "raw", "document", "event", "head", "tail"}  \* one record
Ingesting  == {"streaming"} \union Document    \* inside the try block
Persisting == {"adding", "undoing"}            \* inside _persist
Indexing   == {"indexing", "next", "marking"} \union Persisting

Init ==
  /\ VectorInit
  /\ jobs = [r \in Runs |-> Job("absent", 0)]
  /\ committed = [r \in Runs |-> 0]
  /\ raw = 0 /\ text = 0
  /\ chunks = [c \in Ids |-> "absent"]
  /\ pc = "down"
  /\ run = 0 /\ stream = "instruments" /\ local = 0 /\ written = 0 /\ version = 0
  /\ todo = {} /\ chunk = 0
  /\ faults = 0

Fault == faults < MaxFaults /\ faults' = faults + 1

Goto(from, to) == pc = from /\ pc' = to

\* A row of the current job is committed and counted at once.
Counted ==
  /\ committed' = [committed EXCEPT ![run] = @ + 1]
  /\ written' = written + 1

-------------------------------------------------------------------------------
(* DataIngestionService.run                                                  *)

StartProcess ==
  /\ Goto("down", "idle")
  /\ UNCHANGED <<vectorVars, storeVars, runVars, indexVars, faults>>

\* The next generation begins with a job row that is RUNNING.
Run ==
  /\ Goto("idle", "streaming") /\ run < MaxRuns
  /\ run' = run + 1
  /\ jobs' = [jobs EXCEPT ![run + 1] = Job("running", 0)]
  /\ stream' = "instruments" /\ local' = 0 /\ written' = 0
  /\ UNCHANGED <<vectorVars, committed, raw, text, chunks, version, indexVars, faults>>

\* That first save raises and run() with it.
RunFails ==
  /\ pc = "idle" /\ run < MaxRuns
  /\ Fault
  /\ run' = run + 1
  /\ UNCHANGED <<vectorVars, storeVars, pc, stream, local, written, version, indexVars>>

\* One record of a stream is normalized and upserted.
UpsertRow ==
  /\ pc = "streaming" /\ stream # "documents" /\ local < MaxRows
  /\ local' = local + 1
  /\ committed' = [committed EXCEPT ![run] = @ + 1]
  /\ written' = IF stream \in Batched THEN written ELSE written + 1
  /\ UNCHANGED <<vectorVars, jobs, raw, text, chunks, pc, run, stream, version,
                 indexVars, faults>>

\* Mutant of EndStream: the count of a helper is not added.
EndStreamUncounted ==
  /\ pc = "streaming" /\ stream # "documents"
  /\ stream' = NextStream[stream]
  /\ local' = 0
  /\ UNCHANGED <<vectorVars, storeVars, pc, run, written, version, indexVars, faults>>

\* A stream ends, also one that was not requested; a helper returns its count.
EndStream ==
  /\ pc = "streaming" /\ stream # "documents"
  /\ stream' = NextStream[stream]
  /\ local' = 0
  /\ written' = IF stream \in Batched THEN written + local ELSE written
  /\ UNCHANGED <<vectorVars, storeVars, pc, run, version, indexVars, faults>>

\* The provider delivers the document, in the text it has now.  News records
\* persist an evidence row first.
ReadDocument ==
  /\ pc = "streaming" /\ stream = "documents" /\ local = 0
  /\ local' = 1
  /\ version' \in {v \in Versions : v >= version}
  /\ pc' \in {"news", "raw"}
  /\ UNCHANGED <<vectorVars, storeVars, run, stream, written, indexVars, faults>>

UpsertNews ==
  /\ Goto("news", "raw")
  /\ Counted
  /\ UNCHANGED <<vectorVars, jobs, raw, text, chunks, run, stream, local, version,
                 indexVars, faults>>

\* Mutant of WriteRaw: a file that exists is kept.
WriteRawOnce ==
  /\ Goto("raw", "document")
  /\ raw' = IF raw = 0 THEN version ELSE raw
  /\ UNCHANGED <<vectorVars, jobs, committed, text, chunks, runVars, indexVars, faults>>

\* RawTextStore.write overwrites the file of the document.
WriteRaw ==
  /\ Goto("raw", "document")
  /\ raw' = version
  /\ UNCHANGED <<vectorVars, jobs, committed, text, chunks, runVars, indexVars, faults>>

\* upsert_document; a dated document of an asset is also a corporate event.
UpsertDocument ==
  /\ pc = "document" /\ pc' \in {"event", "head"}
  /\ text' = version
  /\ Counted
  /\ UNCHANGED <<vectorVars, jobs, raw, chunks, run, stream, local, version,
                 indexVars, faults>>

UpsertEvent ==
  /\ Goto("event", "head")
  /\ Counted
  /\ UNCHANGED <<vectorVars, jobs, raw, text, chunks, run, stream, local, version,
                 indexVars, faults>>

\* The chunks of the text are upserted in order, pending whatever they were.
UpsertChunk ==
  /\ \/ Goto("head", "tail") /\ chunks' = [chunks EXCEPT ![Head] = "pending"]
     \/ Goto("tail", "streaming") /\ chunks' = [chunks EXCEPT ![Tail(version)] = "pending"]
  /\ Counted
  /\ UNCHANGED <<vectorVars, jobs, raw, text, run, stream, local, version,
                 indexVars, faults>>

\* All streams have ended: the job is COMPLETED and run() returns.
SaveCompleted ==
  /\ Goto("streaming", "indexing")
  /\ stream = "documents"
  /\ jobs' = [jobs EXCEPT ![run] = Job("completed", written)]
  /\ UNCHANGED <<vectorVars, committed, raw, text, chunks, runVars, indexVars, faults>>

\* The save is outside the try block: it raises and the row stays RUNNING.
SaveCompletedFails ==
  /\ Goto("streaming", "idle")
  /\ stream = "documents"
  /\ Fault
  /\ UNCHANGED <<vectorVars, storeVars, runVars, indexVars>>

\* Where write_text may be cut short.
CutShort == IF pc = "raw" THEN raw' \in {raw, Torn} ELSE raw' = raw

\* The provider, the normalizer, the file system or a repository raises.
StreamFails ==
  /\ pc \in Ingesting
  /\ Fault
  /\ pc' = "closing"
  /\ CutShort
  /\ UNCHANGED <<vectorVars, jobs, committed, text, chunks, runVars, indexVars>>

\* The handler saves FAILED with rows_written and raises IngestionRunError.
SaveFailed ==
  /\ Goto("closing", "idle")
  /\ jobs' = [jobs EXCEPT ![run] = Job("failed", written)]
  /\ UNCHANGED <<vectorVars, committed, raw, text, chunks, runVars, indexVars, faults>>

SaveFailedFails ==
  /\ Goto("closing", "idle")
  /\ Fault
  /\ UNCHANGED <<vectorVars, storeVars, runVars, indexVars>>

-------------------------------------------------------------------------------
(* DocumentEmbeddingService.index_document                                   *)

Pending == {c \in Ids : chunks[c] = "pending"}

\* list_chunks reads the chunks of every version and the pending ones are
\* embedded in one batch.  Without a document the generation ends.
ListChunks ==
  /\ pc = "indexing"
  /\ IF text = 0 THEN pc' = "idle" /\ todo' = {}
                 ELSE pc' = "next" /\ todo' = Pending
  /\ UNCHANGED <<vectorVars, storeVars, runVars, chunk, faults>>

EmbedFails ==
  /\ Goto("indexing", "idle")
  /\ Fault
  /\ UNCHANGED <<vectorVars, storeVars, runVars, indexVars>>

\* Chunks are taken by index: the head first, then the tails.
IsNext(c) == c \in todo /\ (Head \in todo => c = Head)

GiveUp == pc' = "idle" /\ todo' = {} /\ chunk' = 0

\* FaissVectorRepository.add: a vector that is there already is not written again.
Add ==
  /\ pc = "next" /\ Opens
  /\ \E c \in Ids :
       /\ IsNext(c)
       /\ chunk' = c
       /\ loaded' = TRUE /\ cache' = KnownIds \union {c}
       /\ IF c \in KnownIds
          THEN pc' = "marking" /\ UNCHANGED <<disk, file, image>>
          ELSE pc' = "adding" /\ BeginPersist(KnownIds \union {c})
  /\ UNCHANGED <<storeVars, runVars, todo, faults>>

\* The namespace on disk is incomplete or inconsistent and _load raises.
AddRefused ==
  /\ pc = "next" /\ ~Opens /\ todo # {}
  /\ GiveUp
  /\ UNCHANGED <<vectorVars, storeVars, runVars, faults>>

\* One file of the namespace is replaced; after the last one _persist returns,
\* and a compensated chunk ends the generation.
PersistFile ==
  /\ pc \in Persisting
  /\ Replace
  /\ IF file # "manifest" THEN UNCHANGED <<pc, todo, chunk>>
     ELSE IF pc = "adding" THEN pc' = "marking" /\ UNCHANGED <<todo, chunk>>
     ELSE GiveUp
  /\ UNCHANGED <<loaded, cache, storeVars, runVars, faults>>

\* Mutant of PersistFails: the error of add is swallowed.
PersistErrorIgnored ==
  /\ pc \in Persisting
  /\ Fault
  /\ StopPersist
  /\ cache' = cache \ {chunk}
  /\ IF pc = "adding" THEN pc' = "marking" /\ UNCHANGED <<todo, chunk>> ELSE GiveUp
  /\ UNCHANGED <<loaded, storeVars, runVars>>

\* _persist raises.  add takes the vector out of the cached state again; remove
\* has taken it out and leaves it out.
PersistFails ==
  /\ pc \in Persisting
  /\ Fault
  /\ StopPersist
  /\ cache' = cache \ {chunk}
  /\ GiveUp
  /\ UNCHANGED <<loaded, storeVars, runVars>>

\* upsert_chunk marks the chunk indexed.
Mark ==
  /\ Goto("marking", "next")
  /\ chunks' = [chunks EXCEPT ![chunk] = "indexed"]
  /\ todo' = todo \ {chunk} /\ chunk' = 0
  /\ UNCHANGED <<vectorVars, jobs, committed, raw, text, runVars, faults>>

\* It raises and the vector is removed.
MarkFails ==
  /\ Goto("marking", "undoing")
  /\ Fault
  /\ cache' = cache \ {chunk}
  /\ BeginPersist(cache \ {chunk})
  /\ UNCHANGED <<loaded, storeVars, runVars, indexVars>>

\* Every chunk is done; the generation goes on with them, and ends.
Collect ==
  /\ Goto("next", "collected") /\ todo = {}
  /\ UNCHANGED <<vectorVars, storeVars, runVars, indexVars, faults>>

EndGeneration ==
  /\ Goto("collected", "idle")
  /\ UNCHANGED <<vectorVars, storeVars, runVars, indexVars, faults>>

Crash ==
  /\ pc # "down"
  /\ Fault
  /\ pc' = "down"
  /\ CutShort
  /\ Unload /\ StopPersist
  /\ todo' = {} /\ chunk' = 0
  /\ UNCHANGED <<jobs, committed, text, chunks, runVars>>

-------------------------------------------------------------------------------
Next ==
  \/ StartProcess \/ Run \/ RunFails \/ UpsertRow \/ EndStream
  \/ ReadDocument \/ UpsertNews \/ WriteRaw \/ UpsertDocument \/ UpsertEvent
  \/ UpsertChunk \/ SaveCompleted \/ SaveCompletedFails \/ StreamFails
  \/ SaveFailed \/ SaveFailedFails
  \/ ListChunks \/ EmbedFails \/ Add \/ AddRefused \/ PersistFile \/ PersistFails
  \/ Mark \/ MarkFails \/ Collect \/ EndGeneration \/ Crash

Spec == Init /\ [][Next]_vars

-------------------------------------------------------------------------------
(* Properties                                                                *)

\* Types, and where the control variables are set.
TypeOK ==
  /\ VectorTypeOK
  /\ jobs \in [Runs -> [status : {"absent", "running", "completed", "failed"},
                        written : Nat]]
  /\ committed \in [Runs -> Nat]
  /\ raw \in 0..Torn /\ text \in 0..MaxVersions
  /\ chunks \in [Ids -> {"absent", "pending", "indexed"}]
  /\ pc \in {"down", "idle", "closing", "collected"} \union Ingesting \union Indexing
  /\ run \in 0..MaxRuns
  /\ pc \notin {"down", "idle"} => run \in Runs
  /\ stream \in Streams
  /\ local \in 0..MaxRows /\ written \in Nat
  /\ version \in 0..MaxVersions
  /\ pc \in Document => version \in Versions
  /\ todo \subseteq Ids /\ chunk \in Ids \union {0}
  /\ chunk # 0 <=> pc \in Persisting \union {"marking"}
  /\ pc \in Persisting <=> file # "none"
  /\ faults \in 0..MaxFaults

\* rows_written of a finished job never claims a row that was not committed, and
\* that of a COMPLETED job is the number of rows it committed.
RowsAreCommitted ==
  \A r \in Runs :
    /\ jobs[r].status = "failed"    => jobs[r].written <= committed[r]
    /\ jobs[r].status = "completed" => jobs[r].written = committed[r]

\* After a run that delivered the document returns, the raw text file, the
\* checksum and the chunks all belong to that text, whatever earlier runs left.
IngestedDocumentIsWhole ==
  pc \in Indexing \union {"collected"} /\ stream = "documents" /\ local = 1 =>
    /\ raw = version /\ text = version
    /\ \A c \in Chunks(version) : chunks[c] # "absent"

\* A chunk marked indexed has its vector, in this process and after a restart
\* whenever the namespace opens, and no vector is without its chunk row.
VectorsMatchChunks ==
  \A c \in Ids :
    /\ chunks[c] = "indexed" =>
         /\ loaded => c \in cache
         /\ Loadable(disk) => c \in disk.index
    /\ c \in cache \union disk.index \union disk.meta => chunks[c] # "absent"

\* services/data_ingestion.py, run: "the final job record reports ``failed`` and
\* the exact number of committed rows."
FailedJobIsExact ==
  \A r \in Runs : jobs[r].status = "failed" => jobs[r].written = committed[r]
===============================================================================
