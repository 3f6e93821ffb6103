------------------------- MODULE ReportMemory_proofs -------------------------
(***************************************************************************)
(* Proofs about ReportMemory for any number of generations, failures and   *)
(* backups.                                                                *)
(***************************************************************************)
EXTENDS ReportMemory, TLAPS

-------------------------------------------------------------------------------
(* The inductive invariant                                                   *)

\* Where trace cur has not been inserted, and where nothing is said of it.
Uninserted == {"saving", "embedding", "adding", "inserting", "undoing"}
Untold     == Uninserted \union {"compensating", "removing", "deleting"}
Evidenced  == {"saving", "embedding", "adding", "inserting", "finishing"}

\* Without a directory nothing was ever persisted, and so nothing inserted.
NoDirectory ==
  ~disk.dir => /\ disk.has = {} /\ disk.index = {} /\ disk.meta = {}
               /\ ~loaded /\ items = {} /\ file = "none"

\* What _persist has replaced so far is the image, which is what the process has
\* cached, or the sidecars when it rebuilds.
PersistPhase ==
  /\ file \in {"meta", "manifest"} => disk.index = image
  /\ file = "manifest" => disk.meta = image
  /\ pc \in {"adding", "undoing", "removing"} => loaded /\ image = cache
  /\ pc = "rebuilding" => image = items

\* How far the write or the removal of trace cur has come.
TraceOfCur ==
  /\ pc \in {"saving", "embedding"} => loaded \/ ~disk.dir
  /\ pc \in {"inserting", "finishing", "compensating", "deleting"} => loaded
  /\ pc \in {"adding", "inserting"} => cur \in cache
  /\ pc = "inserting" => OnDisk(cur)
  /\ pc \in {"undoing", "removing", "deleting"} => cur \notin cache
  /\ pc = "deleting" => OffDisk(cur)
  /\ pc \in Uninserted => cur \notin items
  /\ pc \in Untold => told[cur] = "none"
  /\ pc = "finishing" => told[cur] = "written"
  /\ pc \in Untold \union {"finishing"} => reports[cur] # "completed"

\* A generation that has not begun has left nothing anywhere.
Fresh ==
  \A n \in Ids : n > cur =>
    /\ reports[n] = "absent" /\ told[n] = "none"
    /\ n \notin items \union cache \union image \union disk.index \union disk.meta

\* A trace that is written is in whatever _persist is writing, and one that is
\* removed is not.
Kept(n) ==
  n \in items /\ Cached(n) /\ OnDisk(n) /\ (file # "none" => n \in image)

Gone(n) ==
  n \notin items /\ Uncached(n) /\ OffDisk(n) /\ (file # "none" => n \notin image)

Trace(n) ==
  /\ reports[n] = "completed" => told[n] = "written"
  /\ told[n] = "written" => Kept(n)
  /\ told[n] \in {"rolled back", "deleted"} => Gone(n)

TracesHold == \A n \in Ids : Trace(n)

IInv ==
  /\ TypeOK /\ NoDirectory /\ PersistPhase /\ TraceOfCur /\ Fresh /\ TracesHold
  /\ EvidenceComplete

-------------------------------------------------------------------------------
(* What the helpers of VectorNamespace do                                    *)

\* The directory exists and its files are what they were.
LEMMA BeginPersistIs ==
  ASSUME VectorTypeOK, NEW ids, BeginPersist(ids)
  PROVE  /\ disk' \in Disk /\ disk'.dir
         /\ disk'.has = disk.has /\ disk'.index = disk.index /\ disk'.meta = disk.meta
         /\ file' = "index" /\ image' = ids
  BY DEF BeginPersist, VectorTypeOK, Disk

\* One file has the image and the others are what they were.
LEMMA ReplaceIs ==
  ASSUME VectorTypeOK, Replace
  PROVE  /\ disk' \in Disk /\ disk'.dir = disk.dir
         /\ disk'.has = disk.has \union {file}
         /\ disk'.index = IF file = "index" THEN image ELSE disk.index
         /\ disk'.meta  = IF file = "meta"  THEN image ELSE disk.meta
         /\ image' = image
         /\ file \in Files
         /\ file' = IF file = "index" THEN "meta"
                    ELSE IF file = "meta" THEN "manifest" ELSE "none"
<1>1. file \in Files
  BY DEF VectorTypeOK, Replace
<1>2. disk' \in Disk /\ disk'.dir = disk.dir /\ disk'.has = disk.has \union {file}
  BY <1>1 DEF Replace, VectorTypeOK, Disk
<1>3. /\ disk'.index = IF file = "index" THEN image ELSE disk.index
      /\ disk'.meta  = IF file = "meta"  THEN image ELSE disk.meta
  BY DEF Replace, VectorTypeOK, Disk
<1>4. /\ image' = image
      /\ file' = IF file = "index" THEN "meta"
                 ELSE IF file = "meta" THEN "manifest" ELSE "none"
  BY <1>1 DEF Replace, NextFile, Files
<1>5. QED
  BY <1>1, <1>2, <1>3, <1>4

\* What the process knows is a set of ids.
LEMMA KnownIdsType == VectorTypeOK => KnownIds \in SUBSET Ids
  BY DEF VectorTypeOK, KnownIds, Disk

\* A failure that happens was within the bound.
LEMMA FaultIsBounded == TypeOK /\ Fault => faults' \in 0..MaxFaults
  BY ReportBounds DEF TypeOK, Fault

\* The next generation is numbered within the bound.
LEMMA NextReport ==
  TypeOK /\ cur < MaxReports => cur + 1 \in 0..MaxReports /\ cur + 1 \in Ids
<1> SUFFICES ASSUME TypeOK, cur < MaxReports
             PROVE  cur + 1 \in 0..MaxReports /\ cur + 1 \in Ids
  OBVIOUS
<1>1. cur \in 0..MaxReports
  BY DEF TypeOK
<1>2. QED
  BY <1>1, ReportBounds

\* Where _persist returns to, for each of its callers.
LEMMA ContinueIs ==
  /\ Continue["adding"] = "inserting" /\ Continue["undoing"] = "recording"
  /\ Continue["removing"] = "deleting" /\ Continue["rebuilding"] = "idle"
  BY DEF Continue

-------------------------------------------------------------------------------
(* Types                                                                     *)

LEMMA InitTypeOK == Init => TypeOK
<1> SUFFICES ASSUME Init PROVE TypeOK
  OBVIOUS
<1>1. VectorTypeOK
  BY DEF Init, VectorInit, VectorTypeOK, Disk
<1>2. bundle \in [items : SUBSET Ids, completed : SUBSET Ids, files : SUBSET Files,
                  disk : Disk]
  BY DEF Init, NoBundle, Disk
<1>3. /\ pc \in {"down", "idle"} \union Working
      /\ pc \in Working \ {"rebuilding"} => cur \in Ids
      /\ pc \in Persisting <=> file # "none"
  BY DEF Init, VectorInit, Working, Persisting, Between
<1>4. QED
  BY <1>1, <1>2, <1>3, ReportBounds DEF Init, TypeOK, Statuses, Outcomes, BackupSteps

\* The types of the backup's variables.
BackupTypeOK ==
  /\ bpc \in BackupSteps
  /\ bundle \in [items : SUBSET Ids, completed : SUBSET Ids, files : SUBSET Files,
                 disk : Disk]
  /\ bundles \in 0..MaxBundles

BackupStep == CopyDatabase \/ ListFiles \/ CopyFile \/ BundleFails

LEMMA BackupStepTypeOK ==
  ASSUME TypeOK, BackupStep
  PROVE  BackupTypeOK' /\ faults' \in 0..MaxFaults /\ UNCHANGED <<vectorVars, workerVars>>
<1>1. CASE CopyDatabase
  <2>1. With("completed") \in SUBSET Ids
    BY DEF With
  <2>2. bundle' \in [items : SUBSET Ids, completed : SUBSET Ids, files : SUBSET Files,
                     disk : Disk]
    BY <1>1, <2>1 DEF CopyDatabase, TypeOK, NoBundle, Disk
  <2>3. QED
    BY <1>1, <2>2, ReportBounds DEF CopyDatabase, TypeOK, BackupTypeOK, BackupSteps
<1>2. CASE ListFiles
  <2>1. bundle' \in [items : SUBSET Ids, completed : SUBSET Ids, files : SUBSET Files,
                     disk : Disk]
    BY <1>2 DEF ListFiles, TypeOK, VectorTypeOK, Disk
  <2>2. QED
    BY <1>2, <2>1 DEF ListFiles, TypeOK, BackupTypeOK, BackupSteps
<1>3. CASE CopyFile
  <2>1. bpc \in {"index", "manifest", "meta"} /\ bpc' \in BackupSteps
    BY <1>3 DEF CopyFile, AfterCopy, BackupSteps
  <2>2. bundle' \in [items : SUBSET Ids, completed : SUBSET Ids, files : SUBSET Files,
                     disk : Disk]
    BY <1>3, <2>1 DEF CopyFile, TypeOK, VectorTypeOK, Disk, Files
  <2>3. QED
    BY <1>3, <2>1, <2>2 DEF CopyFile, TypeOK, BackupTypeOK
<1>4. CASE BundleFails
  <2>1. bundle' \in [items : SUBSET Ids, completed : SUBSET Ids, files : SUBSET Files,
                     disk : Disk]
    BY <1>4 DEF BundleFails, NoBundle, Disk
  <2>2. QED
    BY <1>4, <2>1, FaultIsBounded DEF BundleFails, TypeOK, BackupTypeOK, BackupSteps
<1>5. QED
  BY <1>1, <1>2, <1>3, <1>4 DEF BackupStep

\* The types of the Worker's variables: each step goes where the control may be.
WorkerTypeOK ==
  /\ reports \in [Ids -> Statuses]
  /\ items \in SUBSET Ids
  /\ pc \in {"down", "idle"} \union Working
  /\ cur \in 0..MaxReports
  /\ pc \in Working \ {"rebuilding"} => cur \in Ids
  /\ pc \in Persisting <=> file # "none"
  /\ evidence \in SUBSET Ids
  /\ told \in [Ids -> Outcomes]

WorkerStep ==
  \/ StartProcess \/ Retrieve \/ SaveRunning \/ SaveRunningFails
  \/ Add \/ EmbedFails \/ PersistFile \/ PersistFails
  \/ Insert \/ InsertFails \/ SaveCompleted \/ SaveCompletedFails
  \/ Remove \/ LookupFails \/ DeleteItem \/ DeleteItemFails
  \/ RecordFailed \/ RecordFailedFails \/ Rebuild \/ Crash

LEMMA WorkerStepTypeOK ==
  ASSUME TypeOK, WorkerStep
  PROVE  VectorTypeOK' /\ WorkerTypeOK' /\ faults' \in 0..MaxFaults /\ UNCHANGED backupVars
<1>0. /\ VectorTypeOK /\ faults \in 0..MaxFaults /\ WorkerTypeOK
      /\ Fault => faults' \in 0..MaxFaults
      /\ KnownIds \in SUBSET Ids
  BY FaultIsBounded, KnownIdsType DEF TypeOK, WorkerTypeOK
<1> USE <1>0, ReportBounds DEF VectorTypeOK, WorkerTypeOK, vectorVars, Statuses,
        Outcomes, Working, Persisting, Between, Files
<1>1. CASE StartProcess
  BY <1>1 DEF StartProcess, Goto
<1>2. CASE Retrieve
  <2>1. cur' \in 0..MaxReports /\ cur' \in Ids
    BY <1>2, NextReport DEF Retrieve
  <2>2. VectorTypeOK'
    BY <1>2 DEF Retrieve, Load
  <2>3. evidence' \in SUBSET Ids
    BY <1>2 DEF Retrieve
  <2>4. QED
    BY <1>2, <2>1, <2>2, <2>3 DEF Retrieve
<1>3. CASE SaveRunning
  BY <1>3 DEF SaveRunning, Goto, Save
<1>4. CASE SaveRunningFails
  BY <1>4 DEF SaveRunningFails, Goto
<1>5. CASE Add
  <2>1. cur \in Ids
    BY <1>5 DEF Add, Goto
  <2>2. disk' \in Disk /\ file' = "index" /\ image' = KnownIds \union {cur}
    BY <1>5, BeginPersistIs DEF Add
  <2>3. VectorTypeOK'
    BY <1>5, <2>1, <2>2 DEF Add
  <2>4. QED
    BY <1>5, <2>2, <2>3 DEF Add, Goto
<1>6. CASE EmbedFails
  BY <1>6 DEF EmbedFails, Goto
<1>7. CASE PersistFile
  <2>1. /\ disk' \in Disk /\ image' = image
        /\ file' = IF file = "index" THEN "meta"
                   ELSE IF file = "meta" THEN "manifest" ELSE "none"
    BY <1>7, ReplaceIs DEF PersistFile
  <2>2. VectorTypeOK'
    BY <1>7, <2>1 DEF PersistFile
  <2>3. told' \in [Ids -> Outcomes]
    BY <1>7 DEF PersistFile, Tell
  <2>4. /\ pc' = IF file = "manifest" THEN Continue[pc] ELSE pc
        /\ Continue[pc] \in {"inserting", "recording", "deleting", "idle"}
        /\ Continue[pc] # "idle" => pc # "rebuilding"
    BY <1>7, ContinueIs DEF PersistFile
  <2>5. file \in Files
    BY <1>7, ReplaceIs DEF PersistFile
  <2>6. /\ pc' \in {"down", "idle"} \union Working
        /\ pc' \in Working \ {"rebuilding"} => cur \in Ids
        /\ pc' \in Persisting <=> file' # "none"
    BY <1>7, <2>1, <2>4, <2>5 DEF PersistFile
  <2>7. QED
    BY <1>7, <2>2, <2>3, <2>6 DEF PersistFile
<1>8. CASE PersistFails
  BY <1>8 DEF PersistFails, StopPersist, Tell
<1>9. CASE Insert
  BY <1>9 DEF Insert, Goto, Tell
<1>10. CASE InsertFails
  <2>1. disk' \in Disk /\ file' = "index" /\ image' = cache \ {cur}
    BY <1>10, BeginPersistIs DEF InsertFails
  <2>2. VectorTypeOK'
    BY <1>10, <2>1 DEF InsertFails
  <2>3. QED
    BY <1>10, <2>1, <2>2 DEF InsertFails, Goto
<1>11. CASE SaveCompleted
  BY <1>11 DEF SaveCompleted, Goto, Save
<1>12. CASE SaveCompletedFails
  BY <1>12 DEF SaveCompletedFails, Goto, Tell
<1>13. CASE Remove
  <2>1. disk' \in Disk /\ file' = "index" /\ image' = cache \ {cur}
    BY <1>13, BeginPersistIs DEF Remove
  <2>2. VectorTypeOK'
    BY <1>13, <2>1 DEF Remove
  <2>3. QED
    BY <1>13, <2>1, <2>2 DEF Remove, Goto
<1>14. CASE LookupFails
  BY <1>14 DEF LookupFails, Goto, Tell
<1>15. CASE DeleteItem
  BY <1>15 DEF DeleteItem, Goto, Tell
<1>16. CASE DeleteItemFails
  BY <1>16 DEF DeleteItemFails, Goto, Tell
<1>17. CASE RecordFailed
  BY <1>17 DEF RecordFailed, Goto, Save
<1>18. CASE RecordFailedFails
  BY <1>18 DEF RecordFailedFails, Goto
<1>19. CASE Rebuild
  BY <1>19, BeginPersistIs DEF Rebuild, Goto
<1>20. CASE Crash
  BY <1>20 DEF Crash, Unload, StopPersist
<1>21. QED
  BY <1>1, <1>2, <1>3, <1>4, <1>5, <1>6, <1>7, <1>8, <1>9, <1>10, <1>11, <1>12,
     <1>13, <1>14, <1>15, <1>16, <1>17, <1>18, <1>19, <1>20 DEF WorkerStep

\* Types are inductive on their own.
LEMMA NextTypeOK == TypeOK /\ [Next]_vars => TypeOK'
<1> SUFFICES ASSUME TypeOK, [Next]_vars PROVE TypeOK'
  OBVIOUS
<1>1. CASE WorkerStep
  BY <1>1, WorkerStepTypeOK DEF TypeOK, WorkerTypeOK, backupVars
<1>2. CASE BackupStep
  BY <1>2, BackupStepTypeOK DEF TypeOK, BackupTypeOK, workerVars, vectorVars,
     VectorTypeOK
<1>3. CASE UNCHANGED vars
  BY <1>3 DEF vars, vectorVars, workerVars, backupVars, TypeOK, VectorTypeOK
<1>4. QED
  BY <1>1, <1>2, <1>3 DEF Next, WorkerStep, BackupStep

-------------------------------------------------------------------------------
(* The inductive invariant is kept by every step                             *)

\* Every step of the Worker: a save, a write or a removal of the trace, each way
\* it fails, a rebuild, and the death of the process.
LEMMA WorkerStepIInv ==
  ASSUME IInv, WorkerStep
  PROVE  IInv'
<1>0. /\ TypeOK /\ NoDirectory /\ PersistPhase /\ TraceOfCur /\ Fresh /\ TracesHold
      /\ EvidenceComplete
  BY DEF IInv
<1>t. TypeOK'
  BY <1>0, WorkerStepTypeOK DEF TypeOK, WorkerTypeOK, backupVars
<1> USE <1>0 DEF vectorVars, Working, Persisting, Between, Uninserted, Untold,
        Evidenced
<1>1. CASE StartProcess
  <2>1. NoDirectory'
    BY <1>1 DEF NoDirectory, StartProcess, Goto
  <2>2. PersistPhase'
    BY <1>1 DEF PersistPhase, StartProcess, Goto
  <2>3. TraceOfCur'
    BY <1>1 DEF TraceOfCur, StartProcess, Goto
  <2>4. Fresh'
    BY <1>1 DEF Fresh, StartProcess, Goto
  <2>5. TracesHold'
    BY <1>1 DEF TracesHold, StartProcess, Goto, Trace, Kept, Gone, Cached, Uncached,
       OnDisk, OffDisk, Loadable, Opens
  <2>6. EvidenceComplete'
    BY <1>1 DEF EvidenceComplete, StartProcess, Goto
  <2>7. QED
    BY <1>t, <2>1, <2>2, <2>3, <2>4, <2>5, <2>6 DEF IInv
<1>2. CASE Retrieve
  <2>a. cur' = cur + 1 /\ cur \in Int /\ cur + 1 \in Ids
    BY <1>2, NextReport, ReportBounds DEF Retrieve, TypeOK
  <2>b. /\ reports[cur + 1] = "absent" /\ told[cur + 1] = "none"
        /\ cur + 1 \notin items \union KnownIds
    BY <2>a DEF Fresh, KnownIds
  <2>1. NoDirectory'
    BY <1>2 DEF NoDirectory, Retrieve, Load
  <2>2. PersistPhase'
    BY <1>2 DEF PersistPhase, Retrieve, Unlocked, Load, KnownIds
  <2>3. TraceOfCur'
    BY <1>2, <2>a, <2>b DEF TraceOfCur, Retrieve, Load
  <2>4. Fresh'
    <3> SUFFICES ASSUME NEW n \in Ids, n > cur'
                 PROVE  (/\ reports[n] = "absent" /\ told[n] = "none"
                         /\ n \notin items \union cache \union image
                                     \union disk.index \union disk.meta)'
      BY DEF Fresh
    <3>1. n \in Int /\ n > cur
      BY <2>a, ReportBounds
    <3>2. n \notin KnownIds
      BY <3>1 DEF Fresh, KnownIds
    <3>3. QED
      BY <1>2, <3>1, <3>2 DEF Fresh, Retrieve, Load
  <2>5. TracesHold'
    BY <1>2 DEF TracesHold, Retrieve, Unlocked, Load, KnownIds, Trace, Kept, Gone,
       Cached, Uncached, OnDisk, OffDisk, Loadable, Opens
  <2>6. EvidenceComplete'
    <3>1. \A n \in With("completed") : n \in items /\ Cached(n) /\ OnDisk(n)
      BY DEF With, TracesHold, Trace, Kept
    <3>2. Opens => With("completed") \subseteq KnownIds
      BY <3>1 DEF Opens, KnownIds, Cached, OnDisk, NoDirectory
    <3>3. QED
      BY <1>2, <2>a, <2>b, <3>2 DEF EvidenceComplete, Retrieve, With
  <2>7. QED
    BY <1>t, <2>1, <2>2, <2>3, <2>4, <2>5, <2>6 DEF IInv
<1>3. CASE SaveRunning
  <2>1. NoDirectory'
    BY <1>3 DEF NoDirectory, SaveRunning, Goto, Save
  <2>2. PersistPhase'
    BY <1>3 DEF PersistPhase, SaveRunning, Goto, Save
  <2>3. TraceOfCur'
    BY <1>3 DEF TraceOfCur, SaveRunning, Goto, Save
  <2>4. Fresh'
    BY <1>3 DEF Fresh, SaveRunning, Goto, Save, TypeOK, VectorTypeOK
  <2>5. TracesHold'
    BY <1>3 DEF TracesHold, SaveRunning, Goto, Save, Trace, Kept, Gone, Cached,
       Uncached, OnDisk, OffDisk, Loadable, Opens, TypeOK, VectorTypeOK
  <2>6. EvidenceComplete'
    BY <1>3 DEF EvidenceComplete, SaveRunning, Goto, Save, With, Opens, Loadable
  <2>7. QED
    BY <1>t, <2>1, <2>2, <2>3, <2>4, <2>5, <2>6 DEF IInv
<1>4. CASE SaveRunningFails
  <2>1. NoDirectory'
    BY <1>4 DEF NoDirectory, SaveRunningFails, Goto, Fault
  <2>2. PersistPhase'
    BY <1>4 DEF PersistPhase, SaveRunningFails, Goto, Fault
  <2>3. TraceOfCur'
    BY <1>4 DEF TraceOfCur, SaveRunningFails, Goto, Fault
  <2>4. Fresh'
    BY <1>4 DEF Fresh, SaveRunningFails, Goto, Fault
  <2>5. TracesHold'
    BY <1>4 DEF TracesHold, SaveRunningFails, Goto, Fault, Trace, Kept, Gone,
       Cached, Uncached, OnDisk, OffDisk, Loadable, Opens
  <2>6. EvidenceComplete'
    BY <1>4 DEF EvidenceComplete, SaveRunningFails, Goto, Fault
  <2>7. QED
    BY <1>t, <2>1, <2>2, <2>3, <2>4, <2>5, <2>6 DEF IInv
<1>5. CASE Add
  <2>1. NoDirectory'
    BY <1>5, BeginPersistIs DEF NoDirectory, Add, Goto, KnownIds, Opens, Loadable,
       Files, TypeOK, VectorTypeOK
  <2>2. PersistPhase'
    BY <1>5, BeginPersistIs DEF PersistPhase, Add, Goto, KnownIds, TypeOK,
       VectorTypeOK
  <2>3. TraceOfCur'
    BY <1>5, BeginPersistIs DEF TraceOfCur, Add, Goto, KnownIds
  <2>4. Fresh'
    BY <1>5, BeginPersistIs DEF Fresh, Add, Goto, KnownIds, TypeOK, VectorTypeOK
  <2>p. /\ disk'.dir /\ file' = "index" /\ image' = KnownIds \union {cur}
        /\ disk'.has = disk.has /\ disk'.index = disk.index /\ disk'.meta = disk.meta
    BY <1>5, BeginPersistIs DEF Add, TypeOK
  <2>a. cur \in Ids /\ cur' = cur
    BY <1>5 DEF Add, Goto, TypeOK
  <2>b. ASSUME NEW n \in Ids, n # cur PROVE Trace(n)'
    <3>1. Trace(n)
      BY <2>b DEF TracesHold
    <3>2. /\ reports'[n] = reports[n] /\ told'[n] = told[n] /\ items' = items
          /\ loaded' /\ cache' = image'
          /\ n \in image' <=> n \in KnownIds
      BY <1>5, <2>b, <2>p DEF Add
    <3>3. CASE loaded
      BY <3>1, <3>2, <3>3, <2>p DEF Trace, Kept, Gone, KnownIds, Cached,
         Uncached, OnDisk,
         OffDisk, Loadable
    <3>4. CASE ~loaded
      <4>1. ~disk.dir
        BY <1>5, <3>4 DEF Add, Goto, TraceOfCur
      <4>2. QED
        BY <3>1, <3>2, <3>4, <4>1, <2>p DEF Trace, Kept, Gone, KnownIds, NoDirectory,
           Uncached, OffDisk, Loadable
    <3>5. QED
      BY <3>3, <3>4
  <2>c. Trace(cur)'
    BY <1>5, <2>a DEF Trace, Add, Goto, TraceOfCur
  <2>5. TracesHold'
    BY <2>a, <2>b, <2>c DEF TracesHold
  <2>6. EvidenceComplete'
    BY <1>5, BeginPersistIs DEF EvidenceComplete, Add, Goto, KnownIds, With, Opens,
       Loadable
  <2>7. QED
    BY <1>t, <2>1, <2>2, <2>3, <2>4, <2>5, <2>6 DEF IInv
<1>6. CASE EmbedFails
  <2>1. NoDirectory'
    BY <1>6 DEF NoDirectory, EmbedFails, Goto, Fault
  <2>2. PersistPhase'
    BY <1>6 DEF PersistPhase, EmbedFails, Goto, Fault
  <2>3. TraceOfCur'
    BY <1>6 DEF TraceOfCur, EmbedFails, Goto, Fault
  <2>4. Fresh'
    BY <1>6 DEF Fresh, EmbedFails, Goto, Fault
  <2>5. TracesHold'
    BY <1>6 DEF TracesHold, EmbedFails, Goto, Fault, Trace, Kept, Gone, Cached,
       Uncached, OnDisk, OffDisk, Loadable, Opens
  <2>6. EvidenceComplete'
    BY <1>6 DEF EvidenceComplete, EmbedFails, Goto, Fault
  <2>7. QED
    BY <1>t, <2>1, <2>2, <2>3, <2>4, <2>5, <2>6 DEF IInv
<1>7. CASE PersistFile
  <2>r. /\ disk'.dir = disk.dir /\ disk'.has = disk.has \union {file}
        /\ disk'.index = IF file = "index" THEN image ELSE disk.index
        /\ disk'.meta  = IF file = "meta"  THEN image ELSE disk.meta
        /\ image' = image /\ file # "none" /\ disk.dir
        /\ file' = IF file = "index" THEN "meta"
                   ELSE IF file = "meta" THEN "manifest" ELSE "none"
    BY <1>7, ReplaceIs DEF PersistFile, TypeOK, NoDirectory, Files
  <2>d. file = "manifest" => disk'.index = image /\ disk'.meta = image
    BY <2>r DEF PersistPhase
  <2>x. disk'.index = image
    BY <1>7, <2>r, ReplaceIs DEF PersistFile, PersistPhase, TypeOK, Files
  <2>k. \A n \in Ids : n \in image => OnDisk(n)'
    BY <2>x DEF OnDisk
  <2>g. \A n \in Ids : n \notin image => OffDisk(n)'
    BY <2>x DEF OffDisk
  <2>1. NoDirectory'
    BY <2>r DEF NoDirectory
  <2>2. PersistPhase'
    BY <1>7, ReplaceIs, <1>t DEF PersistPhase, PersistFile, Continue, Tell, TypeOK,
       VectorTypeOK
  <2>s. /\ cur' = cur /\ items' = items /\ reports' = reports
        /\ pc = "rebuilding" \/ (loaded' = loaded /\ cache' = cache)
    BY <1>7 DEF PersistFile
  <2>3. TraceOfCur'
    <3>1. CASE file # "manifest"
      <4>1. pc' = pc /\ told' = told /\ loaded' = loaded /\ cache' = cache
        BY <1>7, <3>1 DEF PersistFile
      <4>2. pc \in {"adding", "undoing", "removing", "rebuilding"}
        BY <1>7 DEF PersistFile
      <4>3. QED
        BY <4>1, <4>2, <2>s DEF TraceOfCur
    <3>2. CASE file = "manifest" /\ pc = "adding"
      <4>1. pc' = "inserting" /\ told' = told /\ loaded /\ image = cache
        BY <1>7, <3>2, ContinueIs DEF PersistFile, PersistPhase
      <4>2. OnDisk(cur)'
        BY <3>2, <2>d, <2>s, <4>1 DEF TraceOfCur, OnDisk
      <4>3. QED
        BY <3>2, <2>s, <4>1, <4>2 DEF TraceOfCur
    <3>3. CASE file = "manifest" /\ pc = "undoing"
      <4>1. pc' = "recording"
        BY <1>7, <3>3, ContinueIs DEF PersistFile
      <4>2. QED
        BY <4>1 DEF TraceOfCur
    <3>4. CASE file = "manifest" /\ pc = "removing"
      <4>1. pc' = "deleting" /\ told' = told /\ loaded /\ image = cache
        BY <1>7, <3>4, ContinueIs DEF PersistFile, PersistPhase
      <4>2. OffDisk(cur)'
        BY <3>4, <2>d, <2>s, <4>1 DEF TraceOfCur, OffDisk
      <4>3. QED
        BY <3>4, <2>s, <4>1, <4>2 DEF TraceOfCur
    <3>5. CASE file = "manifest" /\ pc = "rebuilding"
      <4>1. pc' = "idle"
        BY <1>7, <3>5, ContinueIs DEF PersistFile
      <4>2. QED
        BY <4>1 DEF TraceOfCur
    <3>6. QED
      BY <1>7, <3>1, <3>2, <3>3, <3>4, <3>5 DEF PersistFile
  <2>4. Fresh'
    <3> SUFFICES ASSUME NEW n \in Ids, n > cur'
                 PROVE  (/\ reports[n] = "absent" /\ told[n] = "none"
                         /\ n \notin items \union cache \union image
                                     \union disk.index \union disk.meta)'
      BY DEF Fresh
    <3>1. /\ reports[n] = "absent" /\ told[n] = "none"
          /\ n \notin items \union cache \union image \union disk.index \union disk.meta
      BY <2>s DEF Fresh
    <3>2. told'[n] = told[n]
      <4>1. n # cur
        BY <2>s, ReportBounds DEF TypeOK
      <4>2. QED
        BY <1>7, <4>1 DEF PersistFile, Tell, TypeOK
    <3>3. cache' \in {cache, image}
      BY <1>7 DEF PersistFile
    <3>4. QED
      BY <2>r, <2>s, <3>1, <3>2, <3>3
  <2>5. TracesHold'
    <3> SUFFICES ASSUME NEW n \in Ids PROVE Trace(n)'
      BY DEF TracesHold
    <3>1. Trace(n)
      BY DEF TracesHold
    <3>2. CASE told'[n] = told[n]
      <4>1. CASE cache' = cache /\ loaded' = loaded
        BY <2>k, <2>g, <2>r, <2>s, <3>1, <3>2, <4>1
           DEF Trace, Kept, Gone, Cached, Uncached
      <4>2. CASE cache' = image
        BY <2>k, <2>g, <2>r, <2>s, <3>1, <3>2, <4>2
           DEF Trace, Kept, Gone, Cached, Uncached
      <4>3. QED
        BY <1>7, <4>1, <4>2 DEF PersistFile
    <3>3. CASE told'[n] # told[n]
      <4>1. /\ n = cur /\ pc = "undoing" /\ file = "manifest"
            /\ told'[n] = "rolled back"
        BY <1>7, <3>3 DEF PersistFile, Tell, TypeOK
      <4>2. n \notin items /\ n \notin cache /\ image = cache /\ reports[n] # "completed"
        BY <4>1 DEF TraceOfCur, PersistPhase
      <4>3. QED
        BY <2>d, <2>r, <2>s, <4>1, <4>2 DEF Trace, Gone, Uncached, OffDisk
    <3>4. QED
      BY <3>2, <3>3
  <2>6. EvidenceComplete'
    <3>1. pc' = "adding" \/ pc' = "inserting" => pc = "adding"
      BY <1>7, ContinueIs DEF PersistFile
    <3>2. pc' \in {"adding", "inserting", "undoing", "recording", "removing", "deleting",
                   "rebuilding", "idle"}
      BY <1>7, ContinueIs DEF PersistFile
    <3>3. evidence' = evidence
      BY <1>7 DEF PersistFile
    <3>4. QED
      BY <2>s, <3>1, <3>2, <3>3 DEF EvidenceComplete, With
  <2>7. QED
    BY <1>t, <2>1, <2>2, <2>3, <2>4, <2>5, <2>6 DEF IInv
<1>8. CASE PersistFails
  <2>s. /\ cur' = cur /\ items' = items /\ reports' = reports /\ disk' = disk
        /\ loaded' = loaded /\ image' = image /\ file' = "none"
        /\ cache' = IF pc = "adding" THEN cache \ {cur} ELSE cache
    BY <1>8 DEF PersistFails, StopPersist
  <2>w. \/ told' = told /\ pc = "rebuilding"
        \/ /\ pc \in {"adding", "undoing", "removing"} /\ cur \in Ids
           /\ \E what \in {"vector write failed", "inconsistent"} :
                told' = [told EXCEPT ![cur] = what]
    <3>1. CASE pc = "adding"
      BY <1>8, <3>1 DEF PersistFails, Tell, TypeOK
    <3>2. CASE pc \in {"undoing", "removing"}
      BY <1>8, <3>2 DEF PersistFails, Tell, TypeOK
    <3>3. CASE pc = "rebuilding"
      BY <1>8, <3>3 DEF PersistFails
    <3>4. QED
      BY <1>8, <3>1, <3>2, <3>3 DEF PersistFails
  <2>1. NoDirectory'
    BY <2>s DEF NoDirectory
  <2>2. PersistPhase'
    BY <1>8 DEF PersistPhase, PersistFails, Fault, StopPersist, Tell
  <2>3. TraceOfCur'
    BY <1>8 DEF TraceOfCur, PersistFails, Fault, StopPersist, Tell
  <2>4. Fresh'
    <3> SUFFICES ASSUME NEW n \in Ids, n > cur
                 PROVE  (/\ reports[n] = "absent" /\ told[n] = "none"
                         /\ n \notin items \union cache \union image
                                     \union disk.index \union disk.meta)'
      BY <2>s DEF Fresh
    <3>1. n # cur
      BY ReportBounds DEF TypeOK
    <3>2. told'[n] = told[n]
      BY <2>w, <3>1 DEF TypeOK
    <3>3. QED
      BY <2>s, <3>2 DEF Fresh
  <2>5. TracesHold'
    <3> SUFFICES ASSUME NEW n \in Ids PROVE Trace(n)'
      BY DEF TracesHold
    <3>1. Trace(n)
      BY DEF TracesHold
    <3>2. CASE n = cur /\ pc # "rebuilding"
      <4>1. told'[n] \in {"vector write failed", "inconsistent"}
        BY <2>w, <3>2 DEF TypeOK
      <4>2. reports[n] # "completed"
        BY <2>w, <3>2 DEF TraceOfCur
      <4>3. QED
        BY <2>s, <4>1, <4>2 DEF Trace
    <3>3. CASE n # cur \/ pc = "rebuilding"
      <4>1. told'[n] = told[n]
        BY <2>w, <3>3 DEF TypeOK
      <4>2. n \in cache' <=> n \in cache
        BY <2>s, <3>3
      <4>3. QED
        BY <2>s, <3>1, <4>1, <4>2 DEF Trace, Kept, Gone, Cached, Uncached,
           OnDisk, OffDisk,
           Loadable
    <3>4. QED
      BY <3>2, <3>3
  <2>6. EvidenceComplete'
    BY <1>8 DEF EvidenceComplete, PersistFails, Fault, StopPersist, Tell
  <2>7. QED
    BY <1>t, <2>1, <2>2, <2>3, <2>4, <2>5, <2>6 DEF IInv
<1>9. CASE Insert
  <2>1. NoDirectory'
    BY <1>9 DEF NoDirectory, Insert, Goto, TraceOfCur
  <2>2. PersistPhase'
    BY <1>9 DEF PersistPhase, Insert, Goto, Tell
  <2>3. TraceOfCur'
    BY <1>9 DEF TraceOfCur, Insert, Goto, Tell, OnDisk, OffDisk, Loadable, Opens,
       TypeOK, VectorTypeOK
  <2>4. Fresh'
    BY <1>9 DEF Fresh, Insert, Goto, Tell, TypeOK, VectorTypeOK
  <2>a. cur \in Ids /\ cur' = cur
    BY <1>9 DEF Insert, Goto, TypeOK
  <2>b. ASSUME NEW n \in Ids, n # cur PROVE Trace(n)'
    <3>1. Trace(n)
      BY <2>b DEF TracesHold
    <3>2. QED
      BY <1>9, <2>b, <3>1 DEF Trace, Insert, Goto, Tell, Kept, Gone, Cached,
         Uncached, OnDisk, OffDisk, Loadable, Opens, TypeOK, VectorTypeOK
  <2>c. Trace(cur)'
    <3>1. Trace(cur)
      BY <2>a DEF TracesHold
    <3>2. QED
      BY <1>9, <2>a, <3>1 DEF Trace, TraceOfCur, Insert, Goto, Tell, Kept, Gone,
         Cached, Uncached, OnDisk, OffDisk, Loadable, Opens, TypeOK, VectorTypeOK
  <2>5. TracesHold'
    BY <2>a, <2>b, <2>c DEF TracesHold
  <2>6. EvidenceComplete'
    BY <1>9 DEF EvidenceComplete, Insert, Goto, Tell, With, Opens, Loadable
  <2>7. QED
    BY <1>t, <2>1, <2>2, <2>3, <2>4, <2>5, <2>6 DEF IInv
<1>10. CASE InsertFails
  <2>p. /\ disk'.dir /\ file' = "index" /\ image' = cache \ {cur}
        /\ disk'.has = disk.has /\ disk'.index = disk.index /\ disk'.meta = disk.meta
    BY <1>10, BeginPersistIs DEF InsertFails, TypeOK
  <2>1. NoDirectory'
    BY <2>p DEF NoDirectory
  <2>2. PersistPhase'
    BY <1>10, <2>p DEF PersistPhase, TraceOfCur, InsertFails, Goto
  <2>3. TraceOfCur'
    BY <1>10, BeginPersistIs DEF TraceOfCur, InsertFails, Goto, Fault
  <2>4. Fresh'
    BY <1>10, BeginPersistIs DEF Fresh, InsertFails, Goto, Fault, TypeOK,
       VectorTypeOK
  <2>a. cur \in Ids /\ cur' = cur
    BY <1>10 DEF InsertFails, Goto, TypeOK
  <2>b. ASSUME NEW n \in Ids, n # cur PROVE Trace(n)'
    <3>1. Trace(n)
      BY <2>b DEF TracesHold
    <3>2. /\ reports'[n] = reports[n] /\ told'[n] = told[n] /\ items' = items
          /\ loaded /\ loaded' /\ cache' = image' /\ (n \in image' <=> n \in cache)
      BY <1>10, <2>b, <2>p DEF InsertFails, Goto, TraceOfCur
    <3>3. QED
      BY <3>1, <3>2, <2>p DEF Trace, Kept, Gone, Cached, Uncached, OnDisk,
         OffDisk, Loadable
  <2>c. Trace(cur)'
    BY <1>10, <2>a DEF Trace, InsertFails, Goto, TraceOfCur
  <2>5. TracesHold'
    BY <2>a, <2>b, <2>c DEF TracesHold
  <2>6. EvidenceComplete'
    BY <1>10, BeginPersistIs DEF EvidenceComplete, InsertFails, Goto, Fault
  <2>7. QED
    BY <1>t, <2>1, <2>2, <2>3, <2>4, <2>5, <2>6 DEF IInv
<1>11. CASE SaveCompleted
  <2>1. NoDirectory'
    BY <1>11 DEF NoDirectory, SaveCompleted, Goto, Save
  <2>2. PersistPhase'
    BY <1>11 DEF PersistPhase, SaveCompleted, Goto, Save
  <2>3. TraceOfCur'
    BY <1>11 DEF TraceOfCur, SaveCompleted, Goto, Save
  <2>4. Fresh'
    BY <1>11 DEF Fresh, SaveCompleted, Goto, Save, TypeOK, VectorTypeOK
  <2>a. cur \in Ids /\ cur' = cur
    BY <1>11 DEF SaveCompleted, Goto, TypeOK
  <2>b. ASSUME NEW n \in Ids, n # cur PROVE Trace(n)'
    <3>1. Trace(n)
      BY <2>b DEF TracesHold
    <3>2. QED
      BY <1>11, <2>b, <3>1 DEF Trace, SaveCompleted, Goto, Save, Kept, Gone, Cached,
         Uncached, OnDisk, OffDisk, Loadable, Opens, TypeOK, VectorTypeOK
  <2>c. Trace(cur)'
    <3>1. Trace(cur)
      BY <2>a DEF TracesHold
    <3>2. QED
      BY <1>11, <2>a, <3>1 DEF Trace, TraceOfCur, SaveCompleted, Goto, Save, Kept,
         Gone, Cached, Uncached, OnDisk, OffDisk, Loadable, Opens
  <2>5. TracesHold'
    BY <2>a, <2>b, <2>c DEF TracesHold
  <2>6. EvidenceComplete'
    BY <1>11 DEF EvidenceComplete, SaveCompleted, Goto, Save
  <2>7. QED
    BY <1>t, <2>1, <2>2, <2>3, <2>4, <2>5, <2>6 DEF IInv
<1>12. CASE SaveCompletedFails
  <2>1. NoDirectory'
    BY <1>12 DEF NoDirectory, SaveCompletedFails, Goto, Fault, Tell
  <2>2. PersistPhase'
    BY <1>12 DEF PersistPhase, SaveCompletedFails, Goto, Fault, Tell
  <2>3. TraceOfCur'
    BY <1>12 DEF TraceOfCur, SaveCompletedFails, Goto, Fault, Tell, OnDisk, OffDisk,
       Loadable, Opens, TypeOK, VectorTypeOK
  <2>4. Fresh'
    BY <1>12 DEF Fresh, SaveCompletedFails, Goto, Fault, Tell
  <2>a. cur \in Ids /\ cur' = cur
    BY <1>12 DEF SaveCompletedFails, Goto, TypeOK
  <2>b. ASSUME NEW n \in Ids, n # cur PROVE Trace(n)'
    <3>1. Trace(n)
      BY <2>b DEF TracesHold
    <3>2. QED
      BY <1>12, <2>b, <3>1 DEF Trace, SaveCompletedFails, Goto, Fault, Tell, Kept,
         Gone, Cached, Uncached, OnDisk, OffDisk, Loadable, Opens, TypeOK, VectorTypeOK
  <2>c. Trace(cur)'
    <3>1. Trace(cur)
      BY <2>a DEF TracesHold
    <3>2. QED
      BY <1>12, <2>a, <3>1 DEF Trace, TraceOfCur, SaveCompletedFails, Goto, Fault,
         Tell, Kept, Gone, Cached, Uncached, OnDisk, OffDisk, Loadable, Opens, TypeOK,
         VectorTypeOK
  <2>5. TracesHold'
    BY <2>a, <2>b, <2>c DEF TracesHold
  <2>6. EvidenceComplete'
    BY <1>12 DEF EvidenceComplete, SaveCompletedFails, Goto, Fault, Tell
  <2>7. QED
    BY <1>t, <2>1, <2>2, <2>3, <2>4, <2>5, <2>6 DEF IInv
<1>13. CASE Remove
  <2>p. /\ disk'.dir /\ file' = "index" /\ image' = cache \ {cur}
        /\ disk'.has = disk.has /\ disk'.index = disk.index /\ disk'.meta = disk.meta
    BY <1>13, BeginPersistIs DEF Remove, TypeOK
  <2>1. NoDirectory'
    BY <2>p DEF NoDirectory
  <2>2. PersistPhase'
    BY <1>13, <2>p DEF PersistPhase, TraceOfCur, Remove, Goto
  <2>3. TraceOfCur'
    BY <1>13, BeginPersistIs DEF TraceOfCur, Remove, Goto
  <2>4. Fresh'
    BY <1>13, BeginPersistIs DEF Fresh, Remove, Goto, TypeOK, VectorTypeOK
  <2>a. cur \in Ids /\ cur' = cur
    BY <1>13 DEF Remove, Goto, TypeOK
  <2>b. ASSUME NEW n \in Ids, n # cur PROVE Trace(n)'
    <3>1. Trace(n)
      BY <2>b DEF TracesHold
    <3>2. /\ reports'[n] = reports[n] /\ told'[n] = told[n] /\ items' = items
          /\ loaded /\ loaded' /\ cache' = image' /\ (n \in image' <=> n \in cache)
      BY <1>13, <2>b, <2>p DEF Remove, Goto, TraceOfCur
    <3>3. QED
      BY <3>1, <3>2, <2>p DEF Trace, Kept, Gone, Cached, Uncached, OnDisk,
         OffDisk, Loadable
  <2>c. Trace(cur)'
    BY <1>13, <2>a DEF Trace, Remove, Goto, TraceOfCur
  <2>5. TracesHold'
    BY <2>a, <2>b, <2>c DEF TracesHold
  <2>6. EvidenceComplete'
    BY <1>13, BeginPersistIs DEF EvidenceComplete, Remove, Goto
  <2>7. QED
    BY <1>t, <2>1, <2>2, <2>3, <2>4, <2>5, <2>6 DEF IInv
<1>14. CASE LookupFails
  <2>1. NoDirectory'
    BY <1>14 DEF NoDirectory, LookupFails, Goto, Fault, Tell
  <2>2. PersistPhase'
    BY <1>14 DEF PersistPhase, LookupFails, Goto, Fault, Tell
  <2>3. TraceOfCur'
    BY <1>14 DEF TraceOfCur, LookupFails, Goto, Fault, Tell
  <2>4. Fresh'
    BY <1>14 DEF Fresh, LookupFails, Goto, Fault, Tell, TypeOK, VectorTypeOK
  <2>a. cur \in Ids /\ cur' = cur
    BY <1>14 DEF LookupFails, Goto, TypeOK
  <2>b. ASSUME NEW n \in Ids, n # cur PROVE Trace(n)'
    <3>1. Trace(n)
      BY <2>b DEF TracesHold
    <3>2. QED
      BY <1>14, <2>b, <3>1 DEF Trace, LookupFails, Goto, Fault, Tell, Kept, Gone,
         Cached, Uncached, OnDisk, OffDisk, Loadable, Opens, TypeOK, VectorTypeOK
  <2>c. Trace(cur)'
    <3>1. Trace(cur)
      BY <2>a DEF TracesHold
    <3>2. QED
      BY <1>14, <2>a, <3>1 DEF Trace, TraceOfCur, LookupFails, Goto, Fault, Tell,
         Kept, Gone, Cached, Uncached, OnDisk, OffDisk, Loadable, Opens, TypeOK,
         VectorTypeOK
  <2>5. TracesHold'
    BY <2>a, <2>b, <2>c DEF TracesHold
  <2>6. EvidenceComplete'
    BY <1>14 DEF EvidenceComplete, LookupFails, Goto, Fault, Tell
  <2>7. QED
    BY <1>t, <2>1, <2>2, <2>3, <2>4, <2>5, <2>6 DEF IInv
<1>15. CASE DeleteItem
  <2>1. NoDirectory'
    BY <1>15 DEF NoDirectory, DeleteItem, Goto, Tell
  <2>2. PersistPhase'
    BY <1>15 DEF PersistPhase, DeleteItem, Goto, Tell
  <2>3. TraceOfCur'
    BY <1>15 DEF TraceOfCur, DeleteItem, Goto, Tell
  <2>4. Fresh'
    BY <1>15 DEF Fresh, DeleteItem, Goto, Tell, TypeOK, VectorTypeOK
  <2>a. cur \in Ids /\ cur' = cur
    BY <1>15 DEF DeleteItem, Goto, TypeOK
  <2>b. ASSUME NEW n \in Ids, n # cur PROVE Trace(n)'
    <3>1. Trace(n)
      BY <2>b DEF TracesHold
    <3>2. QED
      BY <1>15, <2>b, <3>1 DEF Trace, DeleteItem, Goto, Tell, Kept, Gone, Cached,
         Uncached, OnDisk, OffDisk, Loadable, Opens, TypeOK, VectorTypeOK
  <2>c. Trace(cur)'
    <3>1. Trace(cur)
      BY <2>a DEF TracesHold
    <3>2. QED
      BY <1>15, <2>a, <3>1 DEF Trace, TraceOfCur, DeleteItem, Goto, Tell, Kept,
         Gone, Cached, Uncached, OnDisk, OffDisk, Loadable, Opens, TypeOK, VectorTypeOK
  <2>5. TracesHold'
    BY <2>a, <2>b, <2>c DEF TracesHold
  <2>6. EvidenceComplete'
    BY <1>15 DEF EvidenceComplete, DeleteItem, Goto, Tell
  <2>7. QED
    BY <1>t, <2>1, <2>2, <2>3, <2>4, <2>5, <2>6 DEF IInv
<1>16. CASE DeleteItemFails
  <2>1. NoDirectory'
    BY <1>16 DEF NoDirectory, DeleteItemFails, Goto, Fault, Tell
  <2>2. PersistPhase'
    BY <1>16 DEF PersistPhase, DeleteItemFails, Goto, Fault, Tell
  <2>3. TraceOfCur'
    BY <1>16 DEF TraceOfCur, DeleteItemFails, Goto, Fault, Tell
  <2>4. Fresh'
    BY <1>16 DEF Fresh, DeleteItemFails, Goto, Fault, Tell, TypeOK, VectorTypeOK
  <2>a. cur \in Ids /\ cur' = cur
    BY <1>16 DEF DeleteItemFails, Goto, TypeOK
  <2>b. ASSUME NEW n \in Ids, n # cur PROVE Trace(n)'
    <3>1. Trace(n)
      BY <2>b DEF TracesHold
    <3>2. QED
      BY <1>16, <2>b, <3>1 DEF Trace, DeleteItemFails, Goto, Fault, Tell, Kept,
         Gone, Cached, Uncached, OnDisk, OffDisk, Loadable, Opens, TypeOK, VectorTypeOK
  <2>c. Trace(cur)'
    <3>1. Trace(cur)
      BY <2>a DEF TracesHold
    <3>2. QED
      BY <1>16, <2>a, <3>1 DEF Trace, TraceOfCur, DeleteItemFails, Goto, Fault,
         Tell, Kept, Gone, Cached, Uncached, OnDisk, OffDisk, Loadable, Opens, TypeOK,
         VectorTypeOK
  <2>5. TracesHold'
    BY <2>a, <2>b, <2>c DEF TracesHold
  <2>6. EvidenceComplete'
    BY <1>16 DEF EvidenceComplete, DeleteItemFails, Goto, Fault, Tell
  <2>7. QED
    BY <1>t, <2>1, <2>2, <2>3, <2>4, <2>5, <2>6 DEF IInv
<1>17. CASE RecordFailed
  <2>1. NoDirectory'
    BY <1>17 DEF NoDirectory, RecordFailed, Goto, Save
  <2>2. PersistPhase'
    BY <1>17 DEF PersistPhase, RecordFailed, Goto, Save
  <2>3. TraceOfCur'
    BY <1>17 DEF TraceOfCur, RecordFailed, Goto, Save
  <2>4. Fresh'
    BY <1>17 DEF Fresh, RecordFailed, Goto, Save, TypeOK, VectorTypeOK
  <2>5. TracesHold'
    BY <1>17 DEF TracesHold, RecordFailed, Goto, Save, Trace, Kept, Gone, Cached,
       Uncached, OnDisk, OffDisk, Loadable, Opens, TypeOK, VectorTypeOK
  <2>6. EvidenceComplete'
    BY <1>17 DEF EvidenceComplete, RecordFailed, Goto, Save
  <2>7. QED
    BY <1>t, <2>1, <2>2, <2>3, <2>4, <2>5, <2>6 DEF IInv
<1>18. CASE RecordFailedFails
  <2>1. NoDirectory'
    BY <1>18 DEF NoDirectory, RecordFailedFails, Goto, Fault
  <2>2. PersistPhase'
    BY <1>18 DEF PersistPhase, RecordFailedFails, Goto, Fault
  <2>3. TraceOfCur'
    BY <1>18 DEF TraceOfCur, RecordFailedFails, Goto, Fault
  <2>4. Fresh'
    BY <1>18 DEF Fresh, RecordFailedFails, Goto, Fault
  <2>5. TracesHold'
    BY <1>18 DEF TracesHold, RecordFailedFails, Goto, Fault, Trace, Kept, Gone,
       Cached, Uncached, OnDisk, OffDisk, Loadable, Opens
  <2>6. EvidenceComplete'
    BY <1>18 DEF EvidenceComplete, RecordFailedFails, Goto, Fault
  <2>7. QED
    BY <1>t, <2>1, <2>2, <2>3, <2>4, <2>5, <2>6 DEF IInv
<1>19. CASE Rebuild
  <2>1. NoDirectory'
    BY <1>19, BeginPersistIs DEF NoDirectory, Rebuild, Goto, Opens, Loadable, Files,
       TypeOK, VectorTypeOK
  <2>2. PersistPhase'
    BY <1>19, BeginPersistIs DEF PersistPhase, Rebuild, Goto, TypeOK, VectorTypeOK
  <2>3. TraceOfCur'
    BY <1>19, BeginPersistIs DEF TraceOfCur, Rebuild, Goto
  <2>4. Fresh'
    BY <1>19, BeginPersistIs DEF Fresh, Rebuild, Goto, TypeOK, VectorTypeOK
  <2>p. /\ disk'.dir /\ file' = "index" /\ image' = items
        /\ disk'.has = disk.has /\ disk'.index = disk.index /\ disk'.meta = disk.meta
    BY <1>19, BeginPersistIs DEF Rebuild, TypeOK
  <2>5. TracesHold'
    <3> SUFFICES ASSUME NEW n \in Ids PROVE Trace(n)'
      BY DEF TracesHold
    <3>1. Trace(n)
      BY DEF TracesHold
    <3>2. /\ reports' = reports /\ told' = told /\ items' = items
          /\ loaded' = loaded /\ cache' = cache
      BY <1>19 DEF Rebuild
    <3>3. QED
      BY <3>1, <3>2, <2>p DEF Trace, Kept, Gone, Cached, Uncached, OnDisk,
         OffDisk, Loadable
  <2>6. EvidenceComplete'
    BY <1>19, BeginPersistIs DEF EvidenceComplete, Rebuild, Goto
  <2>7. QED
    BY <1>t, <2>1, <2>2, <2>3, <2>4, <2>5, <2>6 DEF IInv
<1>20. CASE Crash
  <2>1. NoDirectory'
    BY <1>20 DEF NoDirectory, Crash, Fault, Unload, StopPersist
  <2>2. PersistPhase'
    BY <1>20 DEF PersistPhase, Crash, Fault, Unload, StopPersist
  <2>3. TraceOfCur'
    BY <1>20 DEF TraceOfCur, Crash, Fault, Unload, StopPersist
  <2>4. Fresh'
    BY <1>20 DEF Fresh, Crash, Fault, Unload, StopPersist
  <2>5. TracesHold'
    BY <1>20 DEF TracesHold, Crash, Fault, Unload, StopPersist, Trace, Kept, Gone,
       Cached, Uncached, OnDisk, OffDisk, Loadable, Opens
  <2>6. EvidenceComplete'
    BY <1>20 DEF EvidenceComplete, Crash, Fault, Unload, StopPersist
  <2>7. QED
    BY <1>t, <2>1, <2>2, <2>3, <2>4, <2>5, <2>6 DEF IInv
<1>21. QED
  BY <1>1, <1>2, <1>3, <1>4, <1>5, <1>6, <1>7, <1>8, <1>9, <1>10, <1>11, <1>12,
     <1>13, <1>14, <1>15, <1>16, <1>17, <1>18, <1>19, <1>20 DEF WorkerStep

\* The invariant speaks of the namespace and the Worker only.
LEMMA UnchangedIInv ==
  ASSUME IInv, TypeOK', UNCHANGED <<vectorVars, workerVars>>
  PROVE  IInv'
<1> USE DEF IInv, vectorVars, workerVars
<1>1. NoDirectory' /\ PersistPhase'
  BY DEF NoDirectory, PersistPhase
<1>2. TraceOfCur'
  BY DEF TraceOfCur, OnDisk, OffDisk
<1>3. Fresh'
  BY DEF Fresh
<1>4. TracesHold'
  BY DEF TracesHold, Trace, Kept, Gone, Cached, Uncached, OnDisk, OffDisk
<1>5. EvidenceComplete'
  BY DEF EvidenceComplete, With
<1>6. QED
  BY <1>1, <1>2, <1>3, <1>4, <1>5

\* A backup only reads what the Worker writes.
LEMMA BackupStepIInv ==
  ASSUME IInv, BackupStep
  PROVE  IInv'
<1>1. UNCHANGED <<vectorVars, workerVars>> /\ TypeOK'
  BY BackupStepTypeOK, NextTypeOK DEF IInv, Next, BackupStep
<1>2. QED
  BY <1>1, UnchangedIInv DEF IInv

LEMMA InitIInv == Init => IInv
<1> SUFFICES ASSUME Init PROVE IInv
  OBVIOUS
<1>1. TypeOK
  BY InitTypeOK
<1>2. NoDirectory /\ PersistPhase /\ TraceOfCur /\ EvidenceComplete
  BY DEF Init, VectorInit, NoDirectory, PersistPhase, TraceOfCur, EvidenceComplete,
         Uninserted, Untold
<1>3. Fresh /\ TracesHold
  BY DEF Init, VectorInit, Fresh, TracesHold, Trace
<1>4. QED
  BY <1>1, <1>2, <1>3 DEF IInv

LEMMA NextIInv == IInv /\ [Next]_vars => IInv'
<1> SUFFICES ASSUME IInv, [Next]_vars PROVE IInv'
  OBVIOUS
<1>1. CASE WorkerStep
  BY <1>1, WorkerStepIInv
<1>2. CASE BackupStep
  BY <1>2, BackupStepIInv
<1>3. CASE UNCHANGED vars
  BY <1>3, NextTypeOK, UnchangedIInv DEF IInv, vars
<1>4. QED
  BY <1>1, <1>2, <1>3 DEF Next, WorkerStep, BackupStep

-------------------------------------------------------------------------------
(* Theorems                                                                  *)

\* The state of both stores, of the Worker and of the backup has its type
\* whatever fails and wherever the process dies (ResearchReportPipeline.execute,
\* MemoryService.write, FaissVectorRepository, operations.artifacts).
THEOREM TypeCorrect == Spec => []TypeOK
<1>1. Init => TypeOK
  BY InitTypeOK
<1>2. TypeOK /\ [Next]_vars => TypeOK'
  BY NextTypeOK
<1>3. QED
  BY <1>1, <1>2, PTL DEF Spec

\* Every step of a generation, a rebuild and a backup keeps how far the write or
\* the removal of the current trace has come.
THEOREM Inductive == Spec => []IInv
<1>1. QED
  BY InitIInv, NextIInv, PTL DEF Spec

\* A COMPLETED report has its sidecar, and its vector wherever the namespace
\* opens: ResearchReportPipeline saves COMPLETED after MemoryService.write, and no
\* later failure, compensation, rebuild or restart takes the trace away.
THEOREM CompletedReportsHaveTraces == Spec => []CompletedHasTrace
<1>1. IInv => CompletedHasTrace
  BY DEF IInv, TracesHold, Trace, Kept, CompletedHasTrace, With
<1>2. QED
  BY <1>1, Inductive, PTL

\* What MemoryService.write and delete reported stays true of both stores: a
\* written trace is in both, one rolled back or deleted is in neither.
THEOREM OutcomesStayTrue == Spec => []OutcomesHold
<1>1. IInv => OutcomesHold
  BY DEF IInv, TracesHold, Trace, Kept, Gone, OutcomesHold
<1>2. QED
  BY <1>1, Inductive, PTL

\* build_research_context gives a report every completed report's trace, only
\* traces with a sidecar, and never its own.
THEOREM EvidenceStaysComplete == Spec => []EvidenceComplete
<1>1. IInv => EvidenceComplete
  BY DEF IInv
<1>2. QED
  BY <1>1, Inductive, PTL
===============================================================================
