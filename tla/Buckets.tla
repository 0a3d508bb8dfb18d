------------------------------ MODULE Buckets ------------------------------
(***************************************************************************)
(* The life of one bucket: its record in the metadata store, the objects   *)
(* in it, and the encryption key the coordinator keeps in memory, while    *)
(* creations, deletions, uploads, unlocks and restarts overlap             *)
(* (pkg/metadata/{local,memory,etcd}.go, pkg/storage/lilio.go).  Buckets   *)
(* do not share state, so one is enough.                                   *)
(*                                                                         *)
(* Every creation of an encrypted bucket draws a fresh salt, so the        *)
(* request stands for the record it writes and for the key its password    *)
(* derives.  Every object is uploaded once, so a key stands for its        *)
(* upload; uploads of one key against each other are in Lilio.             *)
(***************************************************************************)
EXTENDS Integers, FiniteSets

CONSTANTS
    Keys,           \* object keys, each also the PutObject request for it
    Creates,        \* requests that create the bucket
    Encrypted,      \* those of them with a password
    Deletes,        \* requests that delete the bucket
    Unlocks,        \* requests to unlock it
    NoBucket,       \* no record, and no key
    Stores,         \* the metadata stores a run starts with
    MaxFaults       \* bound on failing calls

Requests == Keys \union Creates \union Deletes \union Unlocks

ASSUME BucketAssumption ==
    /\ Keys \subseteq Nat \ {0}
    /\ Encrypted \subseteq Creates
    /\ NoBucket \notin Creates
    /\ \A S \in {Creates, Deletes, Unlocks} : S \intersect Keys = {}
    /\ Creates \intersect Deletes = {} /\ Unlocks \intersect (Creates \union Deletes) = {}
    /\ Stores \subseteq {"local", "memory", "etcd"}
    /\ MaxFaults \in Nat

VARIABLES
    store,      \* the kind of metadata store, fixed
    record,     \* the creation whose bucket record is stored
    dir,        \* local store: the directory for the bucket's objects exists
    temp,       \* local store: it holds a temporary file of a write cut short
    objects,    \* keys with object metadata
    encryptor,  \* Lilio.encryptors: the creation whose key is installed
    pc,         \* where each request is
    key,        \* the encryption key a put or an unlock holds
    faults

memoryVars == <<encryptor, key>>
vars == <<store, record, dir, temp, objects, memoryVars, pc, faults>>

Goto(r, label) == pc' = [pc EXCEPT ![r] = label]

Fault ==
    /\ store # "memory"
    /\ faults < MaxFaults
    /\ faults' = faults + 1

\* Seeded fault: the local store gives up its mutex between the parts.
UnlockedAlways == TRUE

\* The local store holds its mutex across both parts of a creation or a removal.
Unlocked == \A r \in Requests : pc[r] \notin {"mkdir", "rmfile"}

----------------------------------------------------------------------------
(* Creation.                                                               *)

\* CreateBucketWithEncryption of the coordinator installs the key first.
CreateBegin(c) ==
    /\ pc[c] = "idle"
    /\ encryptor' = IF c \in Encrypted THEN c ELSE encryptor
    /\ Goto(c, "create")
    /\ UNCHANGED <<store, record, dir, temp, objects, key, faults>>

\* The store refuses a second record.  etcd creates it in a transaction; an error
\* may hide that it did, as may a failed sync of the local directory.
CreateRecord(c) ==
    /\ pc[c] = "create" /\ Unlocked
    /\ \/ record # NoBucket /\ Goto(c, "exists") /\ UNCHANGED <<record, faults>>
       \/ /\ record = NoBucket
          /\ record' = c
          /\ \/ Goto(c, IF store = "local" THEN "mkdir" ELSE "ok") /\ UNCHANGED faults
             \/ Goto(c, "failed") /\ Fault
       \/ Fault /\ Goto(c, "failed") /\ UNCHANGED record
    /\ UNCHANGED <<store, dir, temp, objects, memoryVars>>

CreateDir(c) ==
    /\ pc[c] = "mkdir"
    /\ \/ dir' = TRUE /\ Goto(c, "ok") /\ UNCHANGED faults
       \/ Fault /\ Goto(c, "failed") /\ UNCHANGED dir
    /\ UNCHANGED <<store, record, temp, objects, memoryVars>>

----------------------------------------------------------------------------
(* Removal.                                                                *)

\* The local store takes any directory entry for an object, temporary files
\* included, and removes an empty directory.  It ignores the errors of both calls:
\* a directory it cannot list goes with all in it, as far as that succeeds.
DeleteLocal(d) ==
    /\ store = "local" /\ pc[d] = "idle" /\ Unlocked
    /\ \/ /\ objects # {} \/ temp
          /\ Goto(d, "notempty")
          /\ UNCHANGED <<dir, temp, objects, faults>>
       \/ /\ objects = {} /\ ~temp
          /\ dir' = FALSE
          /\ Goto(d, "rmfile")
          /\ UNCHANGED <<temp, objects, faults>>
       \/ /\ Fault
          /\ objects' \in SUBSET objects /\ temp' \in {temp, FALSE}
          /\ (dir' = FALSE /\ objects' = {} /\ ~temp') \/ UNCHANGED dir
          /\ Goto(d, "rmfile")
    /\ UNCHANGED <<store, record, memoryVars>>

DeleteMemory(d) ==
    /\ store = "memory" /\ pc[d] = "idle"
    /\ \/ objects # {} /\ Goto(d, "notempty") /\ UNCHANGED record
       \/ objects = {} /\ record = NoBucket /\ Goto(d, "failed") /\ UNCHANGED record
       \/ objects = {} /\ record # NoBucket /\ record' = NoBucket /\ Goto(d, "ok")
    /\ UNCHANGED <<store, dir, temp, objects, memoryVars, faults>>

\* etcd is asked for an object in one call and removes the record in another.
DeleteEtcd(d) ==
    /\ store = "etcd" /\ pc[d] = "idle"
    /\ \/ objects # {} /\ Goto(d, "notempty") /\ UNCHANGED faults
       \/ objects = {} /\ Goto(d, "rmrecord") /\ UNCHANGED faults
       \/ Fault /\ Goto(d, "failed")
    /\ UNCHANGED <<store, record, dir, temp, objects, memoryVars>>

\* Only the local store minds a record that is not there.
DeleteRecord(d) ==
    /\ pc[d] \in {"rmfile", "rmrecord"}
    /\ \/ /\ record' = NoBucket
          /\ Goto(d, IF record = NoBucket /\ pc[d] = "rmfile" THEN "failed" ELSE "ok")
          /\ UNCHANGED faults
       \/ record' \in {record, NoBucket} /\ Goto(d, "failed") /\ Fault
    /\ UNCHANGED <<store, dir, temp, objects, memoryVars>>

----------------------------------------------------------------------------
(* Objects.                                                                *)

\* Seeded fault: a bucket without a key in memory is taken for a plain one.
PutKeyUnchecked(k) ==
    /\ pc[k] = "key"
    /\ key' = [key EXCEPT ![k] = encryptor]
    /\ Goto(k, "upload")
    /\ UNCHANGED <<store, record, dir, temp, objects, encryptor, faults>>

\* BucketExists takes no lock in the local store; an error counts as "no".
PutBegin(k) ==
    /\ pc[k] = "idle"
    /\ \/ Goto(k, IF record = NoBucket THEN "nobucket" ELSE "flag") /\ UNCHANGED faults
       \/ Fault /\ Goto(k, "nobucket")
    /\ UNCHANGED <<store, record, dir, temp, objects, memoryVars>>

\* IsBucketEncrypted, whose error is dropped: the bytes are then stored plainly.
PutFlag(k) ==
    /\ pc[k] = "flag" /\ Unlocked
    /\ \/ Goto(k, IF record \in Encrypted THEN "key" ELSE "upload") /\ UNCHANGED faults
       \/ Fault /\ Goto(k, "upload")
    /\ UNCHANGED <<store, record, dir, temp, objects, memoryVars>>

PutKey(k) ==
    /\ pc[k] = "key"
    /\ key' = [key EXCEPT ![k] = encryptor]
    /\ Goto(k, IF encryptor = NoBucket THEN "locked" ELSE "upload")
    /\ UNCHANGED <<store, record, dir, temp, objects, encryptor, faults>>

\* The chunks are stored and the metadata is saved, or the upload fails.  Only the
\* local store notices that the bucket is gone, by its directory.
PutCommit(k) ==
    /\ pc[k] = "upload" /\ Unlocked
    /\ \/ /\ store = "local" => dir
          /\ objects' = objects \union {k}
          /\ \/ Goto(k, "ok") /\ UNCHANGED faults
             \/ Goto(k, "failed") /\ Fault
       \/ /\ store = "local" /\ ~dir
          /\ Goto(k, "failed")
          /\ UNCHANGED <<objects, faults>>
       \/ Fault /\ Goto(k, "failed") /\ UNCHANGED objects
    /\ UNCHANGED <<store, record, dir, temp, memoryVars>>

\* DeleteObjectMetadata on behalf of some client.
RemoveObject(k) ==
    /\ k \in objects /\ Unlocked
    /\ objects' = objects \ {k}
    /\ UNCHANGED <<store, record, dir, temp, memoryVars, pc, faults>>

----------------------------------------------------------------------------
(* Keys in memory.                                                         *)

\* UnlockBucket reads the record and checks the password against it ...
UnlockBegin(u) ==
    /\ pc[u] = "idle" /\ Unlocked
    /\ \/ /\ record \in Encrypted
          /\ key' = [key EXCEPT ![u] = record]
          /\ Goto(u, "install")
       \/ Goto(u, "refused") /\ UNCHANGED key
    /\ UNCHANGED <<store, record, dir, temp, objects, encryptor, faults>>

\* ... derives the key, which takes a while, and installs it.
UnlockInstall(u) ==
    /\ pc[u] = "install"
    /\ encryptor' = key[u]
    /\ Goto(u, "ok")
    /\ UNCHANGED <<store, record, dir, temp, objects, key, faults>>

Finished == {"ok", "failed", "exists", "notempty", "nobucket", "locked", "refused", "crashed"}

\* The coordinator restarts: keys and running requests are gone, the memory store
\* with them, and a metadata file being written leaves its temporary file.
Restart ==
    /\ \E r \in Requests : pc[r] \notin Finished \union {"idle"}
    /\ encryptor' = NoBucket
    /\ pc' = [r \in Requests |->
                 IF pc[r] \in Finished \union {"idle"} THEN pc[r] ELSE "crashed"]
    /\ \/ store # "memory" /\ UNCHANGED <<record, objects, temp>>
       \/ /\ store = "local" /\ dir /\ Unlocked
          /\ \E k \in Keys : pc[k] = "upload"
          /\ temp' = TRUE /\ UNCHANGED <<record, objects>>
       \/ /\ store = "memory"
          /\ record' = NoBucket /\ objects' = {} /\ UNCHANGED temp
    /\ UNCHANGED <<store, dir, key, faults>>

----------------------------------------------------------------------------
Init ==
    /\ store \in Stores
    /\ record = NoBucket /\ encryptor = NoBucket
    /\ dir = FALSE /\ temp = FALSE
    /\ objects = {}
    /\ pc = [r \in Requests |-> "idle"]
    /\ key = [r \in Keys \union Unlocks |-> NoBucket]
    /\ faults = 0

BucketStep ==
    \/ \E c \in Creates : CreateBegin(c) \/ CreateRecord(c) \/ CreateDir(c)
    \/ \E d \in Deletes :
          DeleteLocal(d) \/ DeleteMemory(d) \/ DeleteEtcd(d) \/ DeleteRecord(d)
    \/ \E k \in Keys :
          PutBegin(k) \/ PutFlag(k) \/ PutKey(k) \/ PutCommit(k) \/ RemoveObject(k)
    \/ \E u \in Unlocks : UnlockBegin(u) \/ UnlockInstall(u)

Next == BucketStep \/ Restart

Spec == Init /\ [][Next]_vars

----------------------------------------------------------------------------
\* With the local store, where the objects of a bucket are files in its
\* directory, a removal never leaves objects without their bucket, whatever
\* uploads and restarts it overlaps with (LocalStore.DeleteBucket).
NoGhosts == store = "local" /\ faults = 0 /\ objects # {} => dir /\ record # NoBucket

\* While nobody removes the bucket, only one creation asks for a password and no
\* call fails, objects are encrypted exactly if the bucket is, with the key of
\* its record: "Unlock state lives in the coordinator's memory only" (README), so
\* a restart makes uploads fail and never makes them plain.
EncryptedAsRecorded ==
    /\ faults = 0
    /\ \A d \in Deletes : pc[d] = "idle"
    /\ \A c, e \in Encrypted : pc[c] # "idle" /\ pc[e] # "idle" => c = e
    => \A k \in objects : key[k] = IF record \in Encrypted THEN record ELSE NoBucket

\* "Per bucket, AES-256-GCM, key derived from a password with PBKDF2 (100k
\* iterations) and a random per-bucket salt" (README): what is encrypted can be
\* decrypted with the key that the bucket's record lets its password derive.
PerBucketKey ==
    \A k \in objects : record # NoBucket /\ key[k] # NoBucket => key[k] = record

=============================================================================
