----------------------------- MODULE ReportMemory -----------------------------
(***************************************************************************)
(* What one generation of a report does to the two stores: DuckDB (reports *)
(* and memory_items) and the L3 vector namespace.  The single Worker       *)
(* process retrieves earlier traces as evidence, saves the report RUNNING, *)
(* writes its L3 trace (vector first, then the DuckDB sidecar) and saves   *)
(* the report COMPLETED; every failure is compensated by hand.  The        *)
(* process may die between any two steps.  Besides it an operator rebuilds *)
(* the namespace from DuckDB, and a backup process copies both stores.     *)
(*                                                                         *)
(* Report n writes trace n under vector id n: report, memory and vector    *)
(* ids are fresh in every execution, also when a job is executed again.    *)
(***************************************************************************)
EXTENDS VectorNamespace

CONSTANTS
  MaxReports,  \* bound: how many generations reach the retrieval of evidence
  MaxFaults,   \* bound: how many calls fail or processes die
  MaxBundles   \* bound: how many backups are made

ASSUME ReportBounds ==
  /\ MaxReports \in Nat /\ MaxFaults \in Nat /\ MaxBundles \in Nat
  /\ Ids = 1..MaxReports

VARIABLES
  reports,   \* DuckDB table reports: the status of each report
  items,     \* DuckDB table memory_items: the traces that have a sidecar
  pc,        \* where the Worker process is
  cur,       \* the report it generates; the number of reports begun
  evidence,  \* the traces that were candidates for report cur, before any filter
  told,      \* what MemoryService.write and delete reported (history)
  bpc,       \* where the backup process is
  bundle,    \* what it has copied: the DuckDB rows and the namespace files
  bundles,   \* how many backups were begun
  faults     \* how many failures have happened

workerVars == <<reports, items, pc, cur, evidence, told>>
backupVars == <<bpc, bundle, bundles>>
vars == <<vectorVars, workerVars, backupVars, faults>>

Statuses == {"absent", "running", "completed", "failed"}
Outcomes == {"none", "written", "vector write failed", "rolled back",
             "inconsistent", "deleted"}
Persisting == {"adding", "undoing", "removing", "rebuilding"}  \* inside _persist
Between == {"saving", "embedding", "inserting", "finishing", "compensating",
            "deleting", "recording"}
Working == Persisting \union Between
BackupSteps == {"idle", "listing", "index", "manifest", "meta", "published"}

NoBundle == [items |-> {}, completed |-> {}, files |-> {},
             disk |-> [dir |-> FALSE, has |-> {}, index |-> {}, meta |-> {}]]

Init ==
  /\ VectorInit
  /\ reports = [n \in Ids |-> "absent"]
  /\ items = {}
  /\ pc = "down" /\ cur = 0 /\ evidence = {}
  /\ told = [n \in Ids |-> "none"]
  /\ bpc = "idle" /\ bundle = NoBundle /\ bundles = 0
  /\ faults = 0

With(status) == {n \in Ids : reports[n] = status}

Fault == faults < MaxFaults /\ faults' = faults + 1

\* Every DuckDB connection, read or write, waits for the file lock; a backup
\* holds it from before the database copy to after the last namespace file.
Unlocked == bpc \in {"idle", "published"}

Goto(from, to) == pc = from /\ pc' = to
Tell(what) == told' = [told EXCEPT ![cur] = what]
Save(status) == reports' = [reports EXCEPT ![cur] = status]

-------------------------------------------------------------------------------
(* ResearchWorkflowService.generate and ResearchReportPipeline.execute       *)

StartProcess ==
  /\ Goto("down", "idle")
  /\ UNCHANGED <<vectorVars, reports, items, cur, evidence, told, backupVars, faults>>

\* Mutant of Retrieve: an index that does not open or resolve is less evidence.
RetrieveUnchecked ==
  /\ pc = "idle" /\ cur < MaxReports /\ Unlocked
  /\ cur' = cur + 1
  /\ IF Opens
     THEN Load /\ evidence' = KnownIds \intersect items /\ pc' = "saving"
     ELSE UNCHANGED <<loaded, cache>> /\ evidence' = {} /\ pc' = "saving"
  /\ UNCHANGED <<disk, file, image, reports, items, told, backupVars, faults>>

\* build_research_context: the namespace opens and every candidate resolves to a
\* sidecar, or the whole generation fails and nothing is saved.
Retrieve ==
  /\ pc = "idle" /\ cur < MaxReports /\ Unlocked
  /\ cur' = cur + 1
  /\ IF Opens THEN Load ELSE UNCHANGED <<loaded, cache>>
  /\ IF Opens /\ KnownIds \subseteq items
     THEN evidence' = KnownIds /\ pc' = "saving"
     ELSE evidence' = {} /\ pc' = "idle"
  /\ UNCHANGED <<disk, file, image, reports, items, told, backupVars, faults>>

\* execute saves the report RUNNING; when that raises, nothing else happens.
SaveRunning ==
  /\ Goto("saving", "embedding") /\ Unlocked
  /\ Save("running")
  /\ UNCHANGED <<vectorVars, items, cur, evidence, told, backupVars, faults>>

SaveRunningFails ==
  /\ Goto("saving", "idle")
  /\ Fault
  /\ UNCHANGED <<vectorVars, reports, items, cur, evidence, told, backupVars>>

\* write embeds the summary and FaissVectorRepository.add puts the vector into
\* the cached state (created when there is none) before it persists it.
Add ==
  /\ Goto("embedding", "adding")
  /\ loaded' = TRUE /\ cache' = KnownIds \union {cur}
  /\ BeginPersist(KnownIds \union {cur})
  /\ UNCHANGED <<reports, items, cur, evidence, told, backupVars, faults>>

EmbedFails ==
  /\ Goto("embedding", "recording")
  /\ Fault
  /\ UNCHANGED <<vectorVars, reports, items, cur, evidence, told, backupVars>>

\* Where each caller of _persist goes on when it returns.
Continue == [adding |-> "inserting", undoing |-> "recording",
             removing |-> "deleting", rebuilding |-> "idle"]

\* One file is replaced; after the last one the caller goes on.  Compensating a
\* failed insert reports MemoryWriteError, and rebuild adopts the new state.
PersistFile ==
  /\ pc \in Persisting
  /\ Replace
  /\ pc' = IF file = "manifest" THEN Continue[pc] ELSE pc
  /\ IF file = "manifest" /\ pc = "undoing" THEN Tell("rolled back") ELSE told' = told
  /\ IF file = "manifest" /\ pc = "rebuilding"
     THEN loaded' = TRUE /\ cache' = image
     ELSE UNCHANGED <<loaded, cache>>
  /\ UNCHANGED <<reports, items, cur, evidence, backupVars, faults>>

\* _persist raises.  add takes the vector out of the cached state again and
\* write reports MemoryWriteError; remove leaves the state without the vector
\* and reports an inconsistency; a failed rebuild changes nothing in memory.
PersistFails ==
  /\ pc \in Persisting
  /\ Fault
  /\ StopPersist
  /\ cache' = IF pc = "adding" THEN cache \ {cur} ELSE cache
  /\ CASE pc = "adding" -> Tell("vector write failed")
       [] pc \in {"undoing", "removing"} -> Tell("inconsistent")
       [] pc = "rebuilding" -> told' = told
  /\ pc' = IF pc = "rebuilding" THEN "idle" ELSE "recording"
  /\ UNCHANGED <<loaded, reports, items, cur, evidence, backupVars>>

\* The sidecar is inserted and write returns.
Insert ==
  /\ Goto("inserting", "finishing") /\ Unlocked
  /\ items' = items \union {cur}
  /\ Tell("written")
  /\ UNCHANGED <<vectorVars, reports, cur, evidence, backupVars, faults>>

\* Mutant of InsertFails: the vector and the report stay when the sidecar fails.
InsertErrorIgnored ==
  /\ Goto("inserting", "finishing")
  /\ Fault
  /\ Tell("rolled back")
  /\ UNCHANGED <<vectorVars, reports, items, cur, evidence, backupVars>>

\* DuckDB rejects the sidecar: write removes the vector it has just added.
InsertFails ==
  /\ Goto("inserting", "undoing")
  /\ Fault
  /\ cache' = cache \ {cur}
  /\ BeginPersist(cache \ {cur})
  /\ UNCHANGED <<loaded, reports, items, cur, evidence, told, backupVars>>

SaveCompleted ==
  /\ Goto("finishing", "idle") /\ Unlocked
  /\ Save("completed")
  /\ UNCHANGED <<vectorVars, items, cur, evidence, told, backupVars, faults>>

\* The final save raises and delete is called; until it returns nothing is known
\* of the trace.
SaveCompletedFails ==
  /\ Goto("finishing", "compensating")
  /\ Fault
  /\ Tell("none")
  /\ UNCHANGED <<vectorVars, reports, items, cur, evidence, backupVars>>

\* delete finds the sidecar and removes the vector it names.
Remove ==
  /\ Goto("compensating", "removing") /\ Unlocked
  /\ cache' = cache \ {cur}
  /\ BeginPersist(cache \ {cur})
  /\ UNCHANGED <<loaded, reports, items, cur, evidence, told, backupVars, faults>>

\* The lookup raises: nothing is removed.
LookupFails ==
  /\ Goto("compensating", "recording")
  /\ Fault
  /\ Tell("inconsistent")
  /\ UNCHANGED <<vectorVars, reports, items, cur, evidence, backupVars>>

\* Mutant of DeleteItem: only the vector is deleted.
DeleteItemSkipped ==
  /\ Goto("deleting", "recording") /\ Unlocked
  /\ Tell("deleted")
  /\ UNCHANGED <<vectorVars, reports, items, cur, evidence, backupVars, faults>>

\* delete removes the sidecar after the vector.
DeleteItem ==
  /\ Goto("deleting", "recording") /\ Unlocked
  /\ items' = items \ {cur}
  /\ Tell("deleted")
  /\ UNCHANGED <<vectorVars, reports, cur, evidence, backupVars, faults>>

DeleteItemFails ==
  /\ Goto("deleting", "recording")
  /\ Fault
  /\ Tell("inconsistent")
  /\ UNCHANGED <<vectorVars, reports, items, cur, evidence, backupVars>>

\* _record_failed is best effort: its own failure is swallowed.
RecordFailed ==
  /\ Goto("recording", "idle") /\ Unlocked
  /\ Save("failed")
  /\ UNCHANGED <<vectorVars, items, cur, evidence, told, backupVars, faults>>

RecordFailedFails ==
  /\ Goto("recording", "idle")
  /\ Fault
  /\ UNCHANGED <<vectorVars, reports, items, cur, evidence, told, backupVars>>

\* An operator calls MemoryService.rebuild_level in the single writer process,
\* between two generations: all sidecars are read, embedded and persisted.
Rebuild ==
  /\ Goto("idle", "rebuilding") /\ Unlocked
  /\ ~(loaded /\ Loadable(disk) /\ cache = items /\ disk.index = items)
  /\ BeginPersist(items)
  /\ UNCHANGED <<loaded, cache, reports, items, cur, evidence, told, backupVars, faults>>

\* The process dies anywhere; what os.replace and DuckDB have done stays done.
Crash ==
  /\ pc # "down"
  /\ Fault
  /\ pc' = "down"
  /\ Unload /\ StopPersist
  /\ UNCHANGED <<reports, items, cur, evidence, told, backupVars>>

-------------------------------------------------------------------------------
(* operations.artifacts._create_bundle, run by an operator while the services  *)
(* are up: it takes DuckDB's file lock, which the vector files are not under. *)

\* The lock is taken and the database file copied.
CopyDatabase ==
  /\ bpc \in {"idle", "published"} /\ bundles < MaxBundles
  /\ bpc' = "listing"
  /\ bundles' = bundles + 1
  /\ bundle' = [NoBundle EXCEPT !.items = items, !.completed = With("completed")]
  /\ UNCHANGED <<vectorVars, workerVars, faults>>

\* tarfile lists the namespace directory, and adds its files in name order.
ListFiles ==
  /\ bpc = "listing"
  /\ bpc' = "index"
  /\ bundle' = [bundle EXCEPT !.files = disk.has, !.disk.dir = disk.dir]
  /\ UNCHANGED <<vectorVars, workerVars, bundles, faults>>

AfterCopy == [index |-> "manifest", manifest |-> "meta", meta |-> "published"]

\* One file is read; after the last one the lock is released and the bundle
\* published.
CopyFile ==
  /\ bpc \in DOMAIN AfterCopy
  /\ bpc' = AfterCopy[bpc]
  /\ bundle' =
       IF bpc \notin bundle.files THEN bundle
       ELSE [bundle EXCEPT
               !.disk.has   = @ \union {bpc},
               !.disk.index = IF bpc = "index" THEN disk.index ELSE @,
               !.disk.meta  = IF bpc = "meta"  THEN disk.meta  ELSE @]
  /\ UNCHANGED <<vectorVars, workerVars, bundles, faults>>

\* An I/O error, or a temporary file of _persist that was listed and is gone.
BundleFails ==
  /\ bpc \notin {"idle", "published"}
  /\ Fault
  /\ bpc' = "idle" /\ bundle' = NoBundle
  /\ UNCHANGED <<vectorVars, workerVars, bundles>>

-------------------------------------------------------------------------------
Next ==
  \/ StartProcess \/ Retrieve \/ SaveRunning \/ SaveRunningFails
  \/ Add \/ EmbedFails \/ PersistFile \/ PersistFails
  \/ Insert \/ InsertFails \/ SaveCompleted \/ SaveCompletedFails
  \/ Remove \/ LookupFails \/ DeleteItem \/ DeleteItemFails
  \/ RecordFailed \/ RecordFailedFails \/ Rebuild \/ Crash
  \/ CopyDatabase \/ ListFiles \/ CopyFile \/ BundleFails

Spec == Init /\ [][Next]_vars

-------------------------------------------------------------------------------
(* Properties                                                                *)

TypeOK ==
  /\ VectorTypeOK
  /\ reports \in [Ids -> Statuses]
  /\ items \in SUBSET Ids
  /\ pc \in {"down", "idle"} \union Working
  /\ cur \in 0..MaxReports
  /\ pc \in Working \ {"rebuilding"} => cur \in Ids
  /\ pc \in Persisting <=> file # "none"
  /\ evidence \in SUBSET Ids
  /\ told \in [Ids -> Outcomes]
  /\ bpc \in BackupSteps
  /\ bundle \in [items : SUBSET Ids, completed : SUBSET Ids, files : SUBSET Files,
                 disk : Disk]
  /\ bundles \in 0..MaxBundles
  /\ faults \in 0..MaxFaults

\* Where trace n can be found: by this process, and by one that starts now.
Cached(n)   == loaded => n \in cache
OnDisk(n)   == Loadable(disk) => n \in disk.index
Uncached(n) == loaded => n \notin cache
OffDisk(n)  == Loadable(disk) => n \notin disk.index

\* A COMPLETED report has its trace: the sidecar always, and the vector whenever
\* the namespace opens, in this process or after any restart.
CompletedHasTrace ==
  \A n \in With("completed") : n \in items /\ Cached(n) /\ OnDisk(n)

\* What MemoryService reported stays true: a written trace is in both stores, a
\* write that was rolled back and a deleted trace are in neither.
OutcomesHold ==
  \A n \in Ids :
    /\ told[n] = "written" => n \in items /\ Cached(n) /\ OnDisk(n)
    /\ told[n] \in {"rolled back", "deleted"} =>
         n \notin items /\ Uncached(n) /\ OffDisk(n)

\* A report is written from all the completed research there is, never from a
\* namespace that was partially written and taken for a smaller one, and every
\* trace it used can be attributed to a sidecar.
EvidenceComplete ==
  pc \in {"saving", "embedding", "adding", "inserting", "finishing"} =>
    /\ With("completed") \subseteq evidence
    /\ evidence \subseteq items
    /\ cur \notin evidence

\* memory/service.py, MemoryWriteError: "Raised when a Memory write fails without
\* leaving a hidden partial write."
NoHiddenPartialWrite ==
  \A n \in Ids : told[n] \in {"vector write failed", "rolled back"} =>
    n \notin items \union disk.index \union disk.meta

\* DECISIONS ADR-0015 calls the file lock of a bundle "a local single-machine
\* consistency boundary": its namespace opens and its vectors resolve.
BundleIsConsistent ==
  bpc = "published" /\ bundle.completed # {} =>
    Loadable(bundle.disk) /\ bundle.disk.index \subseteq bundle.items
===============================================================================
