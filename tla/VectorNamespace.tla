--------------------------- MODULE VectorNamespace ---------------------------
(***************************************************************************)
(* One FAISS namespace of FaissVectorRepository: three files that _persist *)
(* replaces one after the other, and the copy the process caches the first *)
(* time it needs the namespace and never reads again.  A vector and its    *)
(* metadata are determined by its id, so a file is the set of ids in it.   *)
(***************************************************************************)
EXTENDS Integers, FiniteSets

CONSTANT Ids  \* vector ids

VARIABLES
  disk,    \* [dir, has, index, meta]: the directory, the files in it, their ids
  loaded,  \* the process holds a _NamespaceState
  cache,   \* the ids of that state, in the index and in the metadata alike
  file,    \* the file _persist replaces next, "none" outside _persist
  image    \* the ids _persist is writing

vectorVars == <<disk, loaded, cache, file, image>>

Files == {"index", "meta", "manifest"}
Disk  == [dir : BOOLEAN, has : SUBSET Files, index : SUBSET Ids, meta : SUBSET Ids]

VectorTypeOK ==
  /\ disk \in Disk
  /\ loaded \in BOOLEAN
  /\ cache \in SUBSET Ids
  /\ file \in Files \union {"none"}
  /\ image \in SUBSET Ids

VectorInit ==
  /\ disk = [dir |-> FALSE, has |-> {}, index |-> {}, meta |-> {}]
  /\ loaded = FALSE /\ cache = {}
  /\ file = "none" /\ image = {}

\* _load refuses a directory that misses a file, and an index and metadata that
\* do not name the same ids.
Loadable(d) == d.has = Files /\ d.index = d.meta

\* _load returns: from the cache, from the files, or None without a directory.
Opens == loaded \/ ~disk.dir \/ Loadable(disk)

KnownIds == IF loaded THEN cache ELSE IF disk.dir THEN disk.index ELSE {}

Load ==
  /\ loaded' = (loaded \/ disk.dir)
  /\ cache' = KnownIds

\* The start of _persist: the directory exists and the new files have their
\* temporary names.
BeginPersist(ids) ==
  /\ disk' = [disk EXCEPT !.dir = TRUE]
  /\ file' = "index" /\ image' = ids

NextFile == [index |-> "meta", meta |-> "manifest", manifest |-> "none"]

\* One os.replace.
Replace ==
  /\ file # "none"
  /\ disk' = [disk EXCEPT !.has   = @ \union {file},
                          !.index = IF file = "index" THEN image ELSE @,
                          !.meta  = IF file = "meta"  THEN image ELSE @]
  /\ file' = NextFile[file]
  /\ UNCHANGED image

\* _persist raises, or the process dies in it: what was replaced stays replaced.
StopPersist ==
  /\ file' = "none"
  /\ UNCHANGED <<disk, image>>

\* A restarted process has read nothing.
Unload == loaded' = FALSE /\ cache' = {}
==============================================================================
