----------------------------- MODULE LocalDisk -----------------------------
(***************************************************************************)
(* Lilio with everything on one machine: what uploads and deletes leave in *)
(* the files of the local metadata store and of the local backends when a  *)
(* process dies or the power fails (internal/fsatomic, LocalStore,         *)
(* LocalBackendPod).                                                       *)
(*                                                                         *)
(* Metadata is written with fsatomic.WriteFile, which syncs the file and   *)
(* its directory, chunks with fsatomic.Replace, which does not, and files  *)
(* are removed without a sync.  A put stands for the object it writes, for *)
(* the path of its one chunk, and for the contents of both its files.      *)
(*                                                                         *)
(* The file system is that of POSIX: the effects of a rename, of a removal *)
(* and of a write last once they are synced, and until then any of them    *)
(* may or may not have reached the disk.                                   *)
(***************************************************************************)
EXTENDS Integers, FiniteSets

CONSTANTS
    Keys,       \* object keys, each with its metadata file
    Puts,       \* uploads
    Deletes,    \* deletions
    KeyOf,      \* the key of each request
    Nothing,    \* no file, no object
    MaxFaults   \* bound on crashes, power losses and failing calls

Requests == Puts \union Deletes
Paths == Keys \union Puts

ASSUME DiskAssumption ==
    /\ Keys \intersect Puts = {} /\ Puts \intersect Deletes = {}
    /\ Nothing \notin Paths
    /\ KeyOf \in [Requests -> Keys]
    /\ MaxFaults \in Nat

VARIABLES
    entry,      \* per path, the put whose file is there, as processes see it
    onDisk,     \* per path, what a power loss may leave there
    torn,       \* files with incomplete bytes, as <<path, put>>
    loose,      \* files whose bytes may not have reached the disk
    reclaimed,  \* history: puts whose chunk some cleanup removed
    may,        \* history: what the answers so far allow each key to hold
    pc,         \* where each request is
    file,       \* the path a put is writing, its chunk first
    base,       \* the object a request read at its start
    outage,     \* history: the power has failed
    faults

diskVars == <<entry, onDisk, torn, loose>>
vars == <<diskVars, reclaimed, may, pc, file, base, outage, faults>>

Goto(r, label) == pc' = [pc EXCEPT ![r] = label]

Fault == faults < MaxFaults /\ faults' = faults + 1

\* LocalStore.mu is held from the revision check to the end of the write.
MetadataFree ==
    \A p \in Puts :
        file[p] \in Keys => pc[p] \notin {"create", "write", "sync", "rename", "syncDir"}

\* A directory entry changes; its old value stays on disk until the next sync.
Point(path, put) ==
    /\ entry' = [entry EXCEPT ![path] = put]
    /\ onDisk' = [onDisk EXCEPT ![path] = @ \union {put}]

----------------------------------------------------------------------------
(* Requests.                                                               *)

Begin(r) ==
    /\ pc[r] = "idle" /\ MetadataFree
    /\ base' = [base EXCEPT ![r] = entry[KeyOf[r]]]
    /\ Goto(r, IF r \in Puts THEN "create"
               ELSE IF entry[KeyOf[r]] = Nothing THEN "ok" ELSE "unlink")
    /\ UNCHANGED <<diskVars, reclaimed, may, file, outage, faults>>

\* The check of saveLocked.  Revisions tell an object from none, but not always
\* from another object (Lilio).
Commit(p) ==
    /\ pc[p] = "commit" /\ MetadataFree
    /\ \/ /\ (entry[KeyOf[p]] = Nothing) = (base[p] = Nothing)
          /\ file' = [file EXCEPT ![p] = KeyOf[p]]
          /\ Goto(p, "create")
       \/ /\ entry[KeyOf[p]] # base[p]
          /\ Goto(p, "withdraw") /\ UNCHANGED file
    /\ UNCHANGED <<diskVars, reclaimed, may, base, outage, faults>>

\* DeleteObjectMetadata: os.Remove, and no sync of the directory.
Unlink(d) ==
    /\ pc[d] = "unlink" /\ MetadataFree
    /\ \/ /\ entry[KeyOf[d]] = Nothing
          /\ Goto(d, "ok") /\ UNCHANGED <<diskVars, may>>
       \/ /\ entry[KeyOf[d]] # Nothing
          /\ Point(KeyOf[d], Nothing)
          /\ may' = [may EXCEPT ![KeyOf[d]] = @ \union {Nothing}]
          /\ Goto(d, "reclaim") /\ UNCHANGED <<torn, loose>>
    /\ UNCHANGED <<reclaimed, file, base, outage, faults>>

\* LocalBackendPod.DeleteChunk, for the object a request displaced or, after a
\* conflict, for its own.
Reclaim(r) ==
    /\ pc[r] \in {"reclaim", "withdraw"}
    /\ LET gone == IF pc[r] = "withdraw" THEN r ELSE base[r]
       IN  IF gone = Nothing
           THEN UNCHANGED <<diskVars, reclaimed>>
           ELSE /\ Point(gone, Nothing)
                /\ reclaimed' = reclaimed \union {gone}
                /\ UNCHANGED <<torn, loose>>
    /\ Goto(r, IF pc[r] = "withdraw" THEN "conflict" ELSE "ok")
    /\ UNCHANGED <<may, file, base, outage, faults>>

----------------------------------------------------------------------------
(* fsatomic, for the file a put is writing.                                *)

This(p) == <<file[p], p>>

\* writeTemp: the file is beside its destination under a temporary name.
CreateTemp(p) ==
    /\ pc[p] = "create"
    /\ torn' = torn \union {This(p)} /\ loose' = loose \union {This(p)}
    /\ Goto(p, "write")
    /\ UNCHANGED <<entry, onDisk, reclaimed, may, file, base, outage, faults>>

\* Seeded fault: metadata is replaced without a sync of its bytes, as chunks are.
WriteTempUnsynced(p) ==
    /\ pc[p] = "write"
    /\ torn' = torn \ {This(p)}
    /\ Goto(p, "rename")
    /\ UNCHANGED <<entry, onDisk, loose, reclaimed, may, file, base, outage, faults>>

WriteTemp(p) ==
    /\ pc[p] = "write"
    /\ torn' = torn \ {This(p)}
    /\ Goto(p, IF file[p] \in Keys THEN "sync" ELSE "rename")
    /\ UNCHANGED <<entry, onDisk, loose, reclaimed, may, file, base, outage, faults>>

SyncTemp(p) ==
    /\ pc[p] = "sync"
    /\ loose' = loose \ {This(p)}
    /\ Goto(p, "rename")
    /\ UNCHANGED <<entry, onDisk, torn, reclaimed, may, file, base, outage, faults>>

\* Replace ends here, WriteFile goes on to sync the directory.
Rename(p) ==
    /\ pc[p] = "rename"
    /\ Point(file[p], p)
    /\ \/ /\ file[p] \in Keys
          /\ may' = [may EXCEPT ![file[p]] = @ \union {p}]
          /\ Goto(p, "syncDir")
       \/ /\ file[p] \notin Keys
          /\ Goto(p, "commit") /\ UNCHANGED may
    /\ UNCHANGED <<torn, loose, reclaimed, file, base, outage, faults>>

\* Seeded fault: WriteFile leaves out the sync of the directory.
SyncDirSkipped(p) ==
    /\ pc[p] = "syncDir"
    /\ may' = [may EXCEPT ![file[p]] = {p}]
    /\ Goto(p, "reclaim")
    /\ UNCHANGED <<diskVars, reclaimed, file, base, outage, faults>>

\* The object counts from here on; the upload is answered after its cleanup.
SyncDir(p) ==
    /\ pc[p] = "syncDir"
    /\ onDisk' = [path \in Paths |-> IF path \in Keys THEN {entry[path]} ELSE onDisk[path]]
    /\ may' = [may EXCEPT ![file[p]] = {p}]
    /\ Goto(p, "reclaim")
    /\ UNCHANGED <<entry, torn, loose, reclaimed, file, base, outage, faults>>

\* A call fails: the temporary file is removed, or stays renamed, and the upload or
\* delete fails; a chunk that cannot be reclaimed is skipped.
CallFails(r) ==
    /\ pc[r] \in {"create", "write", "sync", "rename", "syncDir", "unlink", "reclaim", "withdraw"}
    /\ Fault
    /\ Goto(r, CASE pc[r] = "reclaim" -> "ok"
                 [] pc[r] = "withdraw" -> "conflict"
                 [] OTHER -> "failed")
    /\ UNCHANGED <<diskVars, reclaimed, may, file, base, outage>>

----------------------------------------------------------------------------
Active(r) == pc[r] \notin {"idle", "ok", "conflict", "failed", "crashed"}

KillAll == pc' = [r \in Requests |-> IF Active(r) THEN "crashed" ELSE pc[r]]

\* The process dies; the operating system keeps what it was told.
ProcessCrash ==
    /\ \E r \in Requests : Active(r)
    /\ Fault /\ KillAll
    /\ UNCHANGED <<diskVars, reclaimed, may, file, base, outage>>

PowerLoss ==
    /\ Fault /\ KillAll
    /\ \E e \in [Paths -> Puts \union {Nothing}], X \in SUBSET loose :
          /\ \A path \in Paths : e[path] \in onDisk[path]
          /\ entry' = e
          /\ torn' = torn \union X
    /\ onDisk' = [path \in Paths |-> {entry'[path]}]
    /\ loose' = {}
    /\ outage' = TRUE
    /\ UNCHANGED <<reclaimed, may, file, base>>

----------------------------------------------------------------------------
Init ==
    /\ entry = [path \in Paths |-> Nothing]
    /\ onDisk = [path \in Paths |-> {Nothing}]
    /\ torn = {} /\ loose = {} /\ reclaimed = {}
    /\ may = [k \in Keys |-> {Nothing}]
    /\ pc = [r \in Requests |-> "idle"]
    /\ file = [p \in Puts |-> p]
    /\ base = [r \in Requests |-> Nothing]
    /\ outage = FALSE
    /\ faults = 0

Next ==
    \/ \E r \in Requests : Begin(r) \/ Reclaim(r) \/ CallFails(r)
    \/ \E p \in Puts : CreateTemp(p) \/ WriteTemp(p) \/ SyncTemp(p) \/ Rename(p)
                       \/ SyncDir(p) \/ Commit(p)
    \/ \E d \in Deletes : Unlink(d)
    \/ ProcessCrash
    \/ PowerLoss

Spec == Init /\ [][Next]_vars

----------------------------------------------------------------------------
\* "The destination is never observed torn - a reader or a crashed process sees
\* either the previous contents or the complete new contents" (fsatomic.Replace),
\* and WriteFile keeps that promise through power losses too.
FilesWhole ==
    \A path \in Paths :
        entry[path] # Nothing /\ (path \in Keys \/ ~outage) => <<path, entry[path]>> \notin torn

\* An upload that was answered, or got as far as its cleanup, is there after a power
\* loss unless a later upload or delete of the key has begun to replace it.
MetadataDurable == \A k \in Keys : entry[k] \in may[k]

\* "A crash between metadata commit and chunk cleanup: old chunks are orphaned; the
\* current object is fine" (README): the metadata names no chunk that a cleanup
\* removed, whatever dies, as long as deletes and power losses do not meet.
NoDangling == ~outage \/ (\A d \in Deletes : pc[d] = "idle")
              => \A k \in Keys : entry[k] \notin reclaimed

\* "The metadata write is the commit point, so it goes first. A crash between the
\* two steps then leaves chunks that nothing references" (DeleteObject).
DeleteNeverDangles ==
    \A k \in Keys : entry[k] \in reclaimed => entry[entry[k]] # Nothing

=============================================================================
