---------------------------- MODULE DriveBackend ----------------------------
(***************************************************************************)
(* The Google Drive backend (gdrive.go): chunks are files of a folder,     *)
(* found by the file IDs that chunkCache remembers for their names.  The   *)
(* cache is filled when the server starts and decides afterwards what is   *)
(* there: a chunk it knows is not uploaded again, one it does not know is  *)
(* neither read nor deleted.  Nobody else touches the folder.              *)
(*                                                                         *)
(* Store and delete hold the backend's mutex across their request to       *)
(* Drive, whose answer may be lost, and which may arrive after its caller  *)
(* gave up.  Reads change nothing.                                         *)
(***************************************************************************)
EXTENDS Naturals

CONSTANTS
    ChunkIds,   \* IDs of chunks
    MaxUploads, \* bound on uploads of a chunk
    MaxMishaps  \* bound on requests and listings that fail, and restarts

ASSUME DriveAssumption == MaxUploads \in Nat /\ MaxMishaps \in Nat

VARIABLES
    drive,      \* the files, as <<chunk, number>>
    minted,     \* per chunk, uploads begun; the number of its last file
    chunkCache, \* per chunk, the number of its file, or 0
    job,        \* the call that holds the mutex, <<operation, chunk, number>>
    astray,     \* requests whose callers are gone
    last,       \* history: per chunk, what the last call that returned nil did
    stored,     \* history: chunks whose store has returned nil
    unwanted,   \* history: chunks that somebody began to delete
    doubtful,   \* history: chunks a request or listing of which failed
    mishaps

callers == <<last, stored, unwanted>>
driveVars == <<drive, minted, chunkCache, job, astray, callers, doubtful, mishaps>>

Free == <<"free">>
Upload(k) == <<"create", k, minted[k]>>
Deletion(k) == <<"delete", k, chunkCache[k]>>

Upset == mishaps < MaxMishaps /\ mishaps' = mishaps + 1

Returned(k, done) ==
    /\ last' = [last EXCEPT ![k] = done]
    /\ stored' = IF done = "stored" THEN stored \union {k} ELSE stored

----------------------------------------------------------------------------
(* Calls.                                                                  *)

\* Seeded fault: the ID is entered before the upload.
StoreChunkAhead(k) ==
    /\ job = Free /\ minted[k] < MaxUploads
    /\ IF chunkCache[k] # 0
       THEN Returned(k, "stored") /\ UNCHANGED <<job, minted, chunkCache>>
       ELSE /\ minted' = [minted EXCEPT ![k] = @ + 1]
            /\ job' = <<"create", k, minted[k] + 1>>
            /\ chunkCache' = [chunkCache EXCEPT ![k] = minted[k] + 1]
            /\ UNCHANGED <<last, stored>>
    /\ UNCHANGED <<drive, astray, unwanted, doubtful, mishaps>>

\* A chunk in the cache is there already.
StoreChunk(k) ==
    /\ job = Free
    /\ IF chunkCache[k] # 0
       THEN Returned(k, "stored") /\ UNCHANGED <<job, minted>>
       ELSE /\ minted[k] < MaxUploads
            /\ minted' = [minted EXCEPT ![k] = @ + 1]
            /\ job' = <<"create", k, minted[k] + 1>>
            /\ UNCHANGED <<last, stored>>
    /\ UNCHANGED <<drive, chunkCache, astray, unwanted, doubtful, mishaps>>

Created(k) ==
    /\ job = Upload(k)
    /\ drive' = drive \union {<<k, minted[k]>>}
    /\ chunkCache' = [chunkCache EXCEPT ![k] = minted[k]]
    /\ Returned(k, "stored")
    /\ job' = Free
    /\ UNCHANGED <<minted, astray, unwanted, doubtful, mishaps>>

\* Seeded fault: the entry goes whatever Drive says, and so does the caller.
DeleteChunkHasty(k) ==
    /\ job = Free
    /\ unwanted' = unwanted \union {k}
    /\ chunkCache' = [chunkCache EXCEPT ![k] = 0]
    /\ Returned(k, "deleted")
    /\ UNCHANGED <<drive, job, minted, astray, doubtful, mishaps>>

\* A chunk not in the cache is gone already.
DeleteChunk(k) ==
    /\ job = Free
    /\ unwanted' = unwanted \union {k}
    /\ IF chunkCache[k] = 0
       THEN Returned(k, "deleted") /\ UNCHANGED job
       ELSE job' = Deletion(k) /\ UNCHANGED <<last, stored>>
    /\ UNCHANGED <<drive, minted, chunkCache, astray, doubtful, mishaps>>

Deleted(k) ==
    /\ job = Deletion(k) /\ <<k, chunkCache[k]>> \in drive
    /\ drive' = drive \ {<<k, chunkCache[k]>>}
    /\ chunkCache' = [chunkCache EXCEPT ![k] = 0]
    /\ Returned(k, "deleted")
    /\ job' = Free
    /\ UNCHANGED <<minted, astray, unwanted, doubtful, mishaps>>

\* Drive knows no such file: an error, and the entry stays.
NotOnDrive(k) ==
    /\ job = Deletion(k) /\ <<k, chunkCache[k]>> \notin drive
    /\ job' = Free
    /\ UNCHANGED <<drive, minted, chunkCache, astray, callers, doubtful, mishaps>>

\* An error, a deadline, a connection that breaks: the request is never executed,
\* or was or will be.
DriveFails(k) ==
    /\ job \in {Upload(k), Deletion(k)} /\ Upset
    /\ astray' = astray \union {job}
    /\ job' = Free
    /\ doubtful' = doubtful \union {k}
    /\ UNCHANGED <<drive, minted, chunkCache, callers>>

\* Drive executes a request nobody waits for.
Execute(request) ==
    LET f == <<request[2], request[3]>>
    IN  /\ request \in astray
        /\ drive' = IF request[1] = "create" THEN drive \union {f} ELSE drive \ {f}
        /\ astray' = astray \ {request}
        /\ UNCHANGED <<minted, chunkCache, job, callers, doubtful, mishaps>>

\* The server starts again.  loadChunkCache lists the folder page by page until it
\* has all files or an error; of two files with one name the later is kept.
Restart ==
    /\ Upset
    /\ astray' = IF job = Free THEN astray ELSE astray \union {job}
    /\ job' = Free
    /\ \E listed \in SUBSET drive :
        /\ \E n \in [ChunkIds -> 0 .. MaxUploads] :
            /\ \A k \in ChunkIds :
                IF \E i \in 1 .. MaxUploads : <<k, i>> \in listed
                THEN <<k, n[k]>> \in listed ELSE n[k] = 0
            /\ chunkCache' = n
        /\ doubtful' = doubtful \union {f[1] : f \in drive \ listed}
                                \union (IF job = Free THEN {} ELSE {job[2]})
    /\ UNCHANGED <<drive, minted, callers>>

DriveInit ==
    /\ drive = {} /\ astray = {} /\ job = Free
    /\ minted = [k \in ChunkIds |-> 0]
    /\ chunkCache = [k \in ChunkIds |-> 0]
    /\ last = [k \in ChunkIds |-> "none"]
    /\ stored = {} /\ unwanted = {} /\ doubtful = {}
    /\ mishaps = 0

DriveNext ==
    \/ \E k \in ChunkIds :
        \/ StoreChunk(k) \/ Created(k)
        \/ DeleteChunk(k) \/ Deleted(k) \/ NotOnDrive(k) \/ DriveFails(k)
    \/ \E request \in astray : Execute(request)
    \/ Restart

DriveSpec == DriveInit /\ [][DriveNext]_driveVars

----------------------------------------------------------------------------
\* A chunk whose store returned nil is in the folder until somebody asks for its
\* deletion, whatever calls fail, answers are lost and restarts intervene, and
\* although StoreChunk trusts its cache and uploads nothing it believes to be there.
AckedIsKept ==
    \A k \in stored \ unwanted : \E n \in 1 .. MaxUploads : <<k, n>> \in drive

\* As long as every call on a chunk and every listing got through, the cache is the
\* folder: a deleted chunk has no file and a stored one has just the file that reads
\* and deletes will use (StoreChunk, DeleteChunk, loadChunkCache).
CacheIsDrive ==
    \A k \in ChunkIds \ doubtful :
        /\ last[k] = "stored" <=> chunkCache[k] # 0
        /\ \A n \in 1 .. MaxUploads : <<k, n>> \in drive <=> n = chunkCache[k]

=============================================================================
