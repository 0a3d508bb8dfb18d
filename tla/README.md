# Lilio in TLA+

Lilio (`src/`) is a replicated object store. A coordinator cuts every object into
chunks, places each chunk on N storage nodes with a consistent-hash ring, and
records in a metadata store (local files, memory, or etcd) which chunks an object
consists of and where they belong. An object exists when its metadata is
committed; the chunks of an upload that did not commit, or that was replaced, are
garbage.

This directory models the coordinator with its metadata store and its nodes,
what stands in front of it (the configuration, the HTTP handlers and the commands
that call them) and the backends below it. TLC checks the models on small
instances; TLAPS proves for instances of every size each safety property the runs
check, and that the write path implements a register per key and a remote node a
storage backend. Only liveness is left to TLC.

## 1. Inventory

| part | source | state | operations | depends on |
|---|---|---|---|---|
| write path | `pkg/storage/lilio.go` | none of its own: a request's locals | `PutObject`, `DeleteObject`, `deleteChunks` | ring, registry, nodes, metadata |
| read path | `lilio.go`, `pkg/api/server.go` | a request's locals, detached repairs | `HeadObject`, `GetObject`, `retrieveChunk`, `readRepair` | registry, nodes, metadata |
| scrubber | `pkg/storage/scrub.go` | one pass and its report | `Scrub`, `scrubChunk`, `fetchVerifiedChunk`, `collectOrphans`, `RunPeriodicScrub` | metadata, nodes |
| object metadata | `pkg/metadata/{local,memory,etcd}.go` | key -> metadata with a revision | get, compare-and-save, save, delete | files / etcd |
| buckets | same, and `lilio.go` | bucket records | create, delete when empty, list | objects |
| listing | same, `paging.go` | none | pages by prefix, delimiter, continuation | objects |
| encryption | `pkg/crypto`, `lilio.go` | bucket -> key in memory, salt and key hash stored | create, unlock, encrypt, decrypt | buckets |
| storage node | `storage-models/local.go`, `pkg/chunkd` | chunk files, counters | store, retrieve, has, delete, list | file system |
| remote client | `storage-models/remote.go` | reachability flag | the same over HTTP with a timeout | chunkd |
| drive | `storage-models/gdrive.go` | name -> file ID | store, retrieve, has, delete, list | Google Drive |
| registry | `registry.go` | name -> backend | add, remove, get, health check | backends |
| hash ring | `pkg/hashing` | virtual positions | add, remove, `GetNode`, `GetNodes` | none |
| atomic files | `internal/fsatomic` | files, temporary files | `WriteFile`, `Replace` | file system |
| chunk reader | `pkg/utils` | body position | `NextChunk` | body |
| configuration | `pkg/config`, `cmd/lilio/{init,storage}.go` | the file | init, add, remove, load, validate, save | file system |
| startup | `cmd/lilio/server.go`, `NewLilioInstance` | the server's instance | backends that join or fail | configuration |
| HTTP API | `pkg/api/server.go` | a request's response | routing, a handler per method, statuses | `Lilio` |
| commands | `cmd/lilio/{files,bucket,scrub}.go` | none | one request each, and a conclusion | HTTP API |

Not part of the core logic, and not modelled: the metrics, OAuth and the folder of
the drive, the web page, the S3, Dropbox and SFTP backends (names that never
start), and the commented-out or unused functions of `lilio.go` (`GetObjectOld`,
`SelectNodesForChunk`) and `pkg/metadata` (`buckets.go`, `SaveObjectMetadata`).

What is hard here:

* **Requests overlap.** There is no lock on a key. Uploads of one key read a
  revision, upload for as long as it takes, and are settled by one conditional
  write; deletes are unconditional; cleanups run afterwards and reads run
  meanwhile.
* **Steps fail one at a time.** A store call can fail, succeed with its answer
  lost, or be given up and executed later; the commit may report an error after
  committing, or before etcd commits; a cleanup may skip a chunk; the coordinator
  may die anywhere.
* **Copies decay.** A replica can vanish or rot at any moment, nodes come and go,
  and read repair and the scrubber write chunks back while deletes remove them.
* **A status is decided long after the facts.** A handler asks the storage several
  times and answers once; a GET has already sent bytes when it fails. Calls to a
  node or a drive end for their caller while the request lives on.
* **Old knowledge is used.** A delete reclaims the chunks of the version it read;
  a scrub judges nodes by metadata it read before; a GET reads metadata twice.

The correctness properties follow from these: no cleanup touches an object that
the metadata names; a committed object keeps its write quorum; no upload
overwrites what it has not read; losers leave nothing behind; callers see a
register; reads find every chunk of an object that stays; scrubbing destroys
nothing, wrongs nobody in its report, and heals; no call waits for ever but for its
own client or a node without deadline; what a user or a caller is told happened did
happen.

## 2. Modules

```
ObjectRegister            what callers are promised (abstract)
      ^ refinement
LilioRegister --> LilioInvariant --> Lilio        write path, metadata, nodes
      ^                                ^   ^
 LilioProofs                   LilioReads  LilioScrub
      ^                                ^   ^
      +------------------------ ReadProofs ScrubProofs

Listing --> Buckets                      one bucket, its key, walks over its pages
   ^ BucketProofs
LocalDisk <-- LocalDiskProofs            files of a single machine under crashes
Upload --> HashRing                      one upload from its body to its nodes
   ^ UploadProofs

ChunkStore                what a backend promises (abstract)
      ^ refinement
RemoteNode                               client, connection and chunk server
DriveBackend                             the drive's folder and its cache
   ^ BackendProofs (of both)

Service                                  commands, HTTP handlers, statuses
Startup                                  configuration file, commands, server start
   ^ FrontProofs (of both)
```

`MCLilio`, `MCReads`, `MCScrub`, `MCBuckets`, `MCDisk`, `MCUpload`, `MCService` and
`MCStartup` give the constants values for TLC. All groups but the first detail
what Lilio takes as given (placement, chunking, buckets, backends, configuration,
requests) and share no state with it. `MCFront` and `MCStorage` put the small ones
side by side for one run: `part` says whose behaviour it is, and the state of the
others stays as it began.

### Lilio

One coordinator state (`pc` and the locals of every request), one metadata store
and all nodes. Every `PutObject` mints a fresh object ID, so a member of `Puts`
is both the request and the version it writes; `<<p, i, n>>` is the copy of its
chunk `i` on node `n`. Chunks never have two contents, so a copy is absent, good,
or damaged (`stored`, `corrupt`).

| variable | in the code |
|---|---|
| `meta`, `clock` | object metadata per key, its revision; etcd's store revision |
| `inDoubt` | requests that gave up a call to etcd which may still be executed |
| `stored`, `corrupt` | chunk files of the nodes; those with wrong bytes |
| `late` | requests whose caller gave up and that a node may still execute |
| `acked` | `successfulNodes` of each chunk, kept as history |
| `pc`, `base`, `expected`, `at`, `sending`, `todo` | position and locals of a request: `superseded`, `expectedRevision`, chunks done, goroutines running, chunks `deleteChunks` still has to visit |
| `committed`, `damaged`, `faults` | history and the bound on faults |

`PutBegin .. PutCommitError` and `DeleteBegin .. DeleteCommitError` are the steps
of the two handlers between calls that other actors can observe; `Reclaim` is one
`DeleteChunk` of `deleteChunks`; `LateStore`, `LateCommit`, `LateRemove`, `Corrupt`,
`Lose` and `Crash` are the environment. `GlobalRevisions` chooses between etcd's
revisions and those of the local and memory stores, which restart after a delete.

A metadata write that returns an error may have had no effect or all of it. With
etcd it may also be executed later: the client's deadline (`withTimeout`) and the
death of a coordinator end the wait, not the request. `LateCommit` is such a `Txn`,
which compares revisions when it arrives; `LateRemove` such a `Delete`, which compares
nothing and removes whatever object is there by then. `Crash` leaves any of the
calls under way in doubt. `NoDeadline` are the nodes whose calls have no deadline
either, the Google Drive backends. The fan-out of a chunk
is one step per goroutine; `deleteChunks` visits its replicas in any order, which
includes the code's. A `DeleteChunk` that fails is skipped for good, as in the
code; one that times out and is executed later is not distinguished from one
executed at once, since its chunk is dead either way.

### LilioReads

GET requests beside the writers: the handler's metadata read for the headers, a
second one by `GetObject`, then chunk after chunk from any order of its replicas,
with detached read repairs. A chunk that was found is then written to the client
(`GetWrite`), which may take its time. `orderReplicas` is any order, because what it
sorts by (reachability flags) may be stale. The number of chunks stands for the size
that net/http compares with Content-Length.

### LilioScrub

One pass at a time beside the writers: listing, metadata read per key, probe per
node, judgement, fetch of a verified copy (presence mode), repair per node,
orphan listing per node. `mode` is `ScrubOptions`, chosen per pass. `steady`
remembers which objects were current during the whole pass, for the properties.
`cancelled` is the state of the pass's context: a caller that hangs up, or a
shutdown, sets it at any step (`ScrubCancel`). From then on every call to a remote
node fails (`Fails`), at no further fault. Only `Scrub` looks at the context, before
it reads the next key; there the pass ends without a report (`ScrubAbort`). One that
has read its last key goes through its chunks and its orphans to a report.

### ObjectRegister and LilioRegister

`ObjectRegister` says what `PutObject` and `DeleteObject` promise: each key is a
register; a successful put took effect once, over the version it had read; a
conflict means no effect; any other error means unknown: the effect has happened, or
never will, or comes later, once (`late`, until `Apply`, `Remove` or `Expire`). That
is a weak promise, and the code makes no stronger one: with etcd, a delete that
reported an error may remove an object acknowledged after it. `LilioRegister` maps
the write path to it: the value of a key is the object its metadata names, and what a
caller knows follows from the handler's position and `inDoubt`. Uploads, cleanups,
node failures and late stores are stutters.

### Buckets and Listing

One bucket, in a metadata store that is local, in memory, or etcd for the whole
behaviour (`store`). A creation of an encrypted bucket draws a fresh salt, so the
request's name stands for the record it writes and for the key its password
derives: `record` is who created the stored bucket, `encryptor` whose key the
coordinator holds (`Lilio.encryptors`), `key` what an upload or an unlock has in
hand. `dir` and `temp` are the local store's directory of object files and a
temporary file left in it. The local store's mutex is `Unlocked`: creations and
removals of two parts exclude everything else but `BucketExists`, which the code
does not lock either. A removal ignores the errors of listing and removing the
directory: one that goes wrong may take objects with it, or some of them, or leave the
directory (`DeleteLocal`). Between existence check, flag, key and commit of an upload
anything may happen. `Restart` kills the running requests and forgets keys, and
with the memory store everything.

`Listing` adds clients that walk through the pages. Object keys are numbers in
the order of the strings, and the keys with a prefix an interval of them.
`Matching` differs by store as the code does: local and memory filter every key,
etcd scans a range whose start is *either* the prefix *or* just past the
continuation key. etcd's existence check and scan are one step; what a removal in
between could add is an empty page.

### LocalDisk

Coordinator and backends on one machine. A path has the entry processes see
(`entry`) and those a power loss may leave (`onDisk`); a file's bytes may be
incomplete (`torn`) or not yet on the disk (`loose`). The file system is POSIX at
its weakest: nothing lasts before it is synced, and anything may. `CreateTemp ..
SyncDir` are the calls of `fsatomic.WriteFile` (metadata) and `Replace` (chunks,
which skip the syncs); `Commit` is the revision check of `saveLocked`, where
equal revisions may hide different objects; `Unlink` and `Reclaim` are removals,
which are never synced. A put stands for its object, its chunk's path and the
contents of both files. `may` and `reclaimed` are history for the properties.

### HashRing and Upload

`HashRing` has the three fields of the ring and its four operations. `Hash` gives
each of the `VirtualNodes` of a node the positions of its key and of its retries;
when they run out, the last retry is taken although another node holds it, as in
the code. `RetriesSuffice` says that this never happens; it holds of the instance
of the run. The mutex makes every operation one step. The sorted slice is the set
of its positions. A walk from a key's position meets the positions after it in
ascending order and then the others (`Ahead`); `GetNodes` is the owners in the
order in which the walk first meets them. One turn is enough, since the code's
loop ends when it has seen as many nodes as there are.

`Upload` first lets backends join and leave, as the server does at startup, then
follows one upload: `Read` is one call of the body's reader, which may return
little or nothing, with the end of the body or before it; `StoreChunk` places the
chunk (`GetNodes`), drops the backends that look unreachable (`onlineBackends`),
sends it to the others, and takes the quorum. `healthy` is the flag of every
remote client: other calls (`Probe`) and clients that hang up (`HangUp`) change
it at any time.

### Service

The CLI commands and the server that answers them. `CommandLines` says what each
client may be called with, paths that name no object among them. `KindOf` routes a
path like `handleRoot` and `handleBucketsOrObjects`; a handler of one storage call is
one action, those of PUT, DELETE and GET of an object have one per call that others
can come between. `answer` is the status and whether the body looks complete to the
client: `GetStop` is the heart of `deferredWriter`, a status while nothing was sent
and a broken connection afterwards, which a client notices only if it still waits for
bytes. `Conclude` is what the command makes of the answer. The storage is that of
Lilio with each of its calls one step, per-key revisions and objects whose chunks are
all there or all gone; the length of a body is its number of chunks. Buckets are
those of the local store: a creation or a removal that fails or dies between its two
parts leaves a record without a directory (`bare`, `HalfDone`), where no upload can
commit and whose listing is a 404. A failing listing is a 500 with that store and a
404 with etcd, where a bucket that cannot be looked up does not exist; both are
allowed. `committed`, `absent`, `raced` and `blind` are histories of what was true
during a request, filled by `Remember` after every step.

### Startup

The configuration file and the processes that change it: a command reads it,
changes its copy and writes it back. `Save` is `os.WriteFile`, two steps
(`Empty`, `Write`) between which the file does not parse; two writers that overlap
may leave a mixture. A configuration is its replication factor, its quorum (0 for
what is left out), its storages, and the set of sections with a wrong value, which
`Validate` refuses, except the chunk size, which only the server parses. Hand
edits put any of `Edits` in place. `InitFromConfig` starts the server: any
storages may fail to start, names join once (`Registry.Add`). Without a file
`runServer` uses four nodes and two copies (`BuiltIn`).

### ChunkStore and RemoteNode

`ChunkStore` says what `StorageBackend` promises: a call takes effect at most
once; one that succeeded did so while it was open; one that failed may still do so
later. `RemoteNode` is the remote client, the connection and the chunk server:
`GiveUp` is the deadline or a broken connection, after which the request may be
lost (`Lost`) or executed (`Receive` and the handlers); statuses are those of the
handlers, and `Accepted` those each client call takes for success. A request is in
one place, `wire` or `handler`, until its answer is in `reply`. `reachable` is the
client's flag. net/http's own repetition of idempotent requests on a stale
connection is not modelled.

### DriveBackend

The drive as a set of files, each an upload of a chunk by number, and `chunkCache`,
which alone decides what is there. `job` is the call that holds the mutex, with
its request to Drive. `DriveFails` ends it for its caller and leaves the request
`astray`, to be executed later or never; `Restart` fills the cache from any part
of the folder, since a listing that breaks off is only logged. `doubtful` are the
chunks about which a request or listing failed.

## 3. Runs

| run | instance | shows |
|---|---|---|
| `faults` | 3 uploads of one key (2 chunks, 1 chunk, empty), 3 nodes, W = 2, etcd revisions, up to 2 faults of 13 kinds | `TypeOK`; `ReclaimsOnlyDead`; `CommittedDurable`; `NoLeftovers` |
| `requests` | 2 uploads and 2 deletes, 2 nodes, one of them without deadline, etcd revisions, 1 fault | `NoLostUpdate`; `ImplementsRegister`; `RequestsFinish` |
| `reads` | a GET beside an upload and an overwrite, W = 2 of 2 nodes, one of them without deadline, 2 faults | `ReadableWhileIntact`; `ReadsFinish` |
| `scrub` | deep, presence and dry passes beside an upload and an overwrite, 1 fault, cancellation among them | `CommittedDurable`; `OrphansAreGarbage`; `NoFalseAlarm`; `Replenished` |
| `delete_race` | 2 uploads, 1 delete, no faults | violates `NoLeftovers` |
| `reused_revision` | 3 uploads, 1 delete, per-key revisions, no faults | violates `NoLostUpdate` |
| `truncated` | 3 commands on one bucket and key, no faults | violates `NeverTruncated` |
| `buckets` | 2 creations (1 encrypted), a removal, an unlock, 2 uploads, a walk with pages of 1 key and two prefixes, over each store, 1 failing call, any number of restarts | `ListingComplete`; `PagesAscend`; `NoGhosts`; `EncryptedAsRecorded` |
| `bucket_key` | 2 encrypted creations, 1 upload, no faults | violates `PerBucketKey` |
| `disk` | files: 3 uploads and a delete of one key, 2 crashes, power losses or errors; remote node: 2 stores, a read and a delete of one chunk and a store of one too large, 1 failure; drive: 2 chunks with 2 uploads each, 3 mishaps | `FilesWhole`; `MetadataDurable`; `NoDangling`; `ImplementsChunkStore`; `AckedIsKept`; `CacheIsDrive` |
| `delete_power_loss` | 1 upload, 1 delete, 1 fault | violates `DeleteNeverDangles` |
| `upload` | ring and body: 3 backends with 2 virtual nodes on 7 positions, all of which collide; bodies of 0 and 4 bytes, chunks of 2 and 3, replication 2, W of 2 and 1, 1 fault; service: 3 commands, uploads of 0, 1 and 2 chunks, 1 failure; configuration: 2 processes, 3 commands, 1 kill, 1 hand edit out of 4 | `ReplicasDistinct`; `PrimaryFirst`; `OthersStay`; `WholeBody`; `OkIsDone`; `NotFoundIsAbsent`; `ConflictIsRace`; `WholeUnlessReplaced`; `AckedChangesStand`; `EveryBackendOnce`; `ToleratesOneLoss` |

**Bounds.** Everything races for one key, because requests for different keys
share no state but the nodes, where their chunk IDs differ. Two overlapping
uploads and a third party (a third upload, a delete, a read, a scrub) are enough
for every pair of steps to overlap and for a third to come between; two chunks
show a quorum failing after an earlier chunk succeeded. For one bucket, a second
creation, a removal and a restart come between any two steps of an upload and
between any two pages; two keys and pages of one key make a walk continue. Three
uploads of a key let one be displaced while another is displaced by it. Seven
positions hold the six virtual nodes in every order of joining and leave a gap;
a body of 4 ends on the boundary of a chunk of 2 and within one of 3. Three
commands let a put and a delete come between any two steps of a GET, and an empty,
a short and a longer version replace each other. Three administrative commands are
a creation, a change and one that overlaps; the edits are a quorum above the
replication factor, one above N, a name used twice, and no storages. Two stores,
a read and a delete of one chunk show a late store after a delete and a late
delete after a store. Two uploads of a chunk are a file the cache lost and its
double. `MaxFaults`, `MaxFailures`, `MaxMishaps`, `MaxTroubles` and `MaxKills`
bound the number of faults in a behaviour, `MaxUploads`, `MaxEdits` and
`MaxCommands` that of events, not their kind or moment; the proofs have no such
bounds. Deadlock is not an error: a system whose requests are all answered
stops (in `LilioScrub` only the clients and faults do; the passes go on).

**Fairness.** Goroutines are scheduled, file operations end, calls to remote nodes
have the backend's timeout (`RemoteBackend.withTimeout`) and calls to etcd theirs. So
what a request does on its own and the calls it makes to such nodes are weakly fair.
Three waits have no end that the code sets, and nothing is assumed of them:

* The client's. The server is started without timeouts (`server.go:522`), so the body
  of an upload need not arrive (`PutBody` is in no fairness condition) and what is
  written to the client of a GET need not be taken (`GetWrite`).
* A call to a node in `NoDeadline`: a request to Drive ends with its caller's
  context, which for a client's request has no deadline (`gdrive.go:242`), and other
  calls wait for the mutex it holds without looking at their own (`gdrive.go:230`). A
  fan-out that waits for one, and a cleanup, a read or a repair with one still to
  visit, may stay where it is.
* A call to a node or to etcd whose caller gave up: it need not be executed.

`RequestsFinish` and `ReadsFinish` say exactly that: a call ends, or is for ever in
one of these waits *of its own*. No fan-out, commit, cleanup or repair waits for
another request, and none starves. In both runs one node has no deadline, and a
fan-out that goes on only with every acknowledgement breaks `RequestsFinish`.
Clients need not call, and faults never have to happen.

`Replenished` is checked without such nodes, because a pass waits for every node it
asks. Then each of its calls returns, and `RunPeriodicScrub` starts passes for ever,
beside whatever passes the API is asked for: starting a deep pass is strongly fair,
since in the model one pass excludes another and in the code it does not.

## 4. What the violations say

* `delete_race`: `DeleteObject` reads version A, an overwrite commits B and
  reclaims A, the delete then removes B's metadata and reclaims A again. B's
  chunks stay for ever, though nothing failed.
* `reused_revision`: with the local or memory store, an upload reads revision 1;
  the object is deleted and another one is created at revision 1; the upload's
  compare-and-save passes over an object it never saw and reclaims the chunks of
  the first one only. With etcd's revisions, or without deletes, the property holds,
  and is proved.
* `truncated`: a GET reads the metadata of a version, a longer one replaces it, and
  `GetObject` reads again. If the old length ends at a chunk of the new version,
  the client gets exactly the announced bytes before the write beyond them fails
  and the handler breaks the connection: a complete answer with the beginning of
  another version. `WholeUnlessReplaced`, which holds, is what is left: only an
  overwrite between the two reads can do this. In the same window a version of the
  same length is sent whole under the ETag of the old one.
* `bucket_key`: `CreateBucketWithEncryption` puts the new key in memory and only
  then asks the store, which refuses a bucket that exists. The live key is now one
  whose salt is nowhere: what is uploaded until the next unlock or restart can
  never be decrypted.
* `delete_power_loss`: a delete removes the metadata file without a sync and then
  the chunks. A power loss may keep the second and lose the first: the object is
  listed again and has no chunks. `NoDangling`, which holds, is what is left of
  the promise: no process death does this, and no power loss without a delete.

## 5. Proofs

### The write path

`LilioProofs` proves, for any number of keys, nodes, requests and chunks, any
placement and any bound on faults:

* `TypeCorrect`: `Spec => []TypeOK`.
* `NoDanglingReference`: `Spec => []ReclaimsOnlyDead`.
* `Durability`: `Spec => []CommittedDurable`.
* `ConditionalCommit`: `NoLostUpdate`, assuming `UniqueRevisions`: etcd's revisions,
  or no deletes. Without either it is false, which `reused_revision` shows.
* `Linearizable`: `ImplementsRegister`, that is `Spec => Register!Spec`, assuming
  `UniqueRevisions` for the same reason.
* `NothingLeftOver`: `Spec => []NoLeftovers`, assuming that there are no deletes
  (false with them: `delete_race`) and that every chunk has at least W nodes
  (`EnoughNodes`: otherwise the quorum fails, and what it stored stays).

The assumptions are those of the module: requests have keys and placements, W is
at least 1. Except in `NothingLeftOver`, nothing is assumed of W against the number
of replicas; where W cannot be reached, no upload commits.

**The argument.** An object is *retired* when no key names it and no step can commit
it any more (`LilioInvariant!Retired`): it was committed and replaced, or its upload
ended and etcd owes it no commit (`inDoubt`). Retired objects stay retired
(`RetiredForEver`). `SafetyInv` then says: what a request read was committed before
(`BaseOK`); every replica waiting in `todo` belongs to a retired object (`TodoOK`),
which is where the order "commit, then reclaim" enters: at the moment `todo` is
filled, the new metadata has just displaced the base, or somebody's had before;
acknowledged copies of objects that are not retired are intact or damaged by the
environment (`AckedOK`); chunks counted as done have W acknowledgements (`QuorumOK`);
and committed objects are complete, and so is what a late `Txn` may commit yet
(`CommittedOK`). `ReclaimsOnlyDead` and `CommittedDurable` alone are not inductive:
they say nothing of an object that is still to be committed. For `ConditionalCommit`,
`RevisionOK` adds that a put that still holds the current revision also holds the
current object.

Every step is first classified (`StepShape`: quiet, commit, removal), so most
conjuncts are proved per class instead of per action.

The refinement is a step of the register, or none, for each action, under
`RegisterInv`. A commit of the code compares revisions and one of the register
compares values, so both directions are needed: equal revisions mean equal objects
(`RevisionOK`) and a base that is still there means the revision is too
(`SeenCurrent`), without which the register would allow a conflict nobody caused.
A put or a delete that gave up goes to `late` if its call may still be executed, and
from there to its effect, or to none when the `Txn` arrives and the revision is
another (`LateExpires`).

`NothingLeftOver` needs what holds while nothing failed (`TidyOK`): a chunk on a
node belongs to a current object, to an upload under way, or to the `todo` of a
request; and whatever has been sent was acknowledged, so that no upload fails. An
object that is displaced enters the `todo` of the put that displaced it, with all
its replicas, because the put knows its base is what it displaced (`RevisionOK`).

### Reads and scrub passes

`ReadProofs` and `ScrubProofs` prove, for any number of readers, nodes and faults
and every W: `IntactIsReadable` (`ReadableWhileIntact`), `AlarmsAreReal`
(`NoFalseAlarm`), `OrphansWereGarbage` (`OrphansAreGarbage`), and that `Durability`
stays true beside reads with their repairs and beside passes with theirs
(`DurableBesideReads`, `DurableBesideScrubs`).

The first two are counting arguments. `Accounted(S)` says that the damaged copies
together with those in `S` are no more than the faults so far. A read that fails on a
node it should have found a copy on does so because the copy is damaged, which is a
fault already in the account, or because the call failed, which is a new fault
(`AccountedFault`): so the acknowledged copies a read has tried in vain are always
accounted for (`MissesOK`), and when all W of them were, there were W faults. A scrub
pass is the same with the nodes that have answered (`BlameOK`), for objects that
stayed (`SteadyOK`), and only as long as the pass is not cancelled: then a call fails
without a fault, so `NoFalseAlarm` speaks of the other passes. `SeenOK` is the
argument for orphans: a pass without errors has read every key, so the chunks of each
object that was current all the time are among those it takes for referenced.

### Files of a single machine

`LocalDiskProofs` proves, for any number of keys and requests and any number of
faults: `WholeFiles` (`Spec => []FilesWhole`), `CommitsSurvive`
(`Spec => []MetadataDurable`) and `CrashesDangleNothing` (`Spec => []NoDangling`).
The assumptions are that puts share no name with keys or deletes, and that every
request has a key.

`DiskInv` is the inductive invariant. The mutex lets one put at a time be writing
metadata (`MutexOK`), so the entry it syncs is its own. A file is found under a
name, now or after a power loss, only if its put is past the rename (`PlacedOK`);
before the rename its bytes are complete, and on the disk if they are metadata
(`BytesOK`). This is what makes `FilesWhole` hold in spite of chunks that are
never synced. What the disk may bring back is among the objects the answers allow
(`DurableOK`: `onDisk` within `may`). And an object whose chunk is reclaimed is
*dead*: its put can no longer make it current, no metadata names it, and without
deletes no directory entry on the disk does either (`ReclaimOK`). `NoDangling` is
not inductive, because a request that is *about* to reclaim must be known to hold
a dead object; for the base it displaced that needs `BaseOK`.

### Buckets

`BucketProofs` proves, for any number of keys and requests, each store and any
number of restarts: `NoGhostsEver` (`Spec => []NoGhosts`) and `EncryptedEver`
(`Spec => []EncryptedAsRecorded`). The assumptions are that kinds of requests do
not share names.

Over the same invariant, for any number of walks, prefixes and page sizes:
`ListingCompleteEver` (`WalkSpec => []ListingComplete`) and `PagesAscendEver`
(`WalkSpec => []PagesAscend`).

`BucketInv` is the inductive invariant. In the local store, at most one request is
between the two parts of a creation or removal (`LockOK`); objects need their
directory and the directory needs its record, and a creation between its parts
has its record, a removal no directory (`GhostOK`). Keys in hand, installed or
recorded come from encrypted creations that have begun (`OriginOK`), so that while
only one such creation has begun, they are all the same key; and an upload that
has passed the check of the flag holds the key of the record (`KeysOK`). The
premise of `EncryptedAsRecorded` can only turn false (`CalmBefore`), so a step
into a state where it holds starts from one where it holds.

For the walks, `CoveredOK` says that everything up to the continuation key that was
there from the beginning has been listed, and `BehindOK` that the pages end there.
That a page leaves no gap is a fact about `paginate` (`PageEnd`): it holds all keys
up to the one it ends with, after which the next continues, and no other. A
walk sees only those objects as steady that were never absent, so what is between
two continuation keys is in the set the second page was cut from, whichever of the
stores made it.

### The ring and the upload

`UploadProofs` proves, for any nodes, positions and number of virtual nodes, and
whatever joins, collides and leaves: `DistinctReplicas` (`[]ReplicasDistinct`),
`PrimaryIsFirst` (`[]PrimaryFirst`) and `MinimalRedistribution` (`OthersStay`), each
assuming `RetriesSuffice`. That hypothesis is no theorem about the code: 100
retries of 32 bits are enough with a probability that nobody will see fail, and
when they are not, `AddNode` gives a position to two nodes and a later `RemoveNode`
takes it from both.

`RingOK` is the inductive invariant: `positionToNode` and `nodeToPositions` are
inverse to each other, and every virtual node holds one of its candidates. The
last part is what lets `RetriesSuffice` speak (`FreshPositions`). The replicas are
then a numbering: the walk orders the positions totally (`AheadIsTotal`), each node
is met first at exactly one of them (`Firsts`, as many as there are nodes), and the
k-th of these is the one with k - 1 before it (`Rank`, `EveryRank`). Both `GetNodes`
and the relation between two nodes in it (`Precedes`) depend on their positions
only, which neither `AddNode` nor `RemoveNode` of another node changes.

`UploadedWhole` is `Spec => []WholeBody`, for any bodies, readers, nodes and
configurations whose chunk size is at least 1 (`PositiveChunks`). The code does not
enforce this: `chunk_size: 0` passes `Validate` and every upload is then empty.
`CutOK` says that chunks and buffer together are what was taken from the reader, in
order, and that the reader is only asked for more while no chunk was short.

### The service and the configuration

`FrontProofs` proves for any clients, command lines, sizes and numbers of
failures: `SuccessIsDone` (`OkIsDone`), `AbsenceIsReal` (`NotFoundIsAbsent`),
`RefusalIsRace` (`ConflictIsRace`) and `DownloadIsWhole` (`WholeUnlessReplaced`).
The assumption is that there is something every client may be called with, and that
objects that are uploaded to are among those of the model. `ServiceInv` says what is
known of a request at each place of its handler: a commit is in the histories before
chunks are reclaimed (`CommitDone`); an upload has the current revision, or was
overtaken, or could not read it (`RevisionKnown`), which are the two cases in which
a 409 may be answered; and every answer under way says the truth about the histories
(`AnswerTrue`). `AbsenceIsReal` is about requests for objects. The 404 of a listing may
say anything of a bucket (section 6).

For any commands, edits and number of processes it proves `SavedChangesStand`
(`AckedChangesStand`), `BackendsOnce` (`EveryBackendOnce`) and `OneLossTolerated`
(`ToleratesOneLoss`). The assumption is that edits have the type of a configuration
file. `StartupInv` holds what is true as long as commands did not disturb each
other (`SerialOK`): at most one is at work, the file is what the users were told,
and the copy a command is about to write differs from it by just that command.
`AddedStorage` and `RemovedStorage` are what the two changes do to the names;
`ThreeTolerateOne` is the arithmetic of the quorum: with three copies and at least
three storages, the default W is reached without one of them.

### Remote nodes

`BackendProofs` proves `RemoteIsChunkStore`
(`RemoteSpec => ImplementsChunkStore`) for any calls, chunks, limit and number of
failures. `RemoteInv` says that a request that is on its way or in its handler has
no answer and no effect yet (`InOnePlace`), and that an answer tells what the
handler did (`AnswersTrue`): 200, 201 and 204 come from handlers that executed,
413 and 500 from others, and 404 never answers a delete, which is why the client may
take a 404 for success there. With it every action maps to one of `ChunkStore`:
the end of a handler is the effect of its call or the certainty that it has none.

### The drive

`BackendProofs` proves, for any chunks and any number of uploads and mishaps,
`AcknowledgedStays` (`DriveSpec => []AckedIsKept`) and `CacheAgrees`
(`DriveSpec => []CacheIsDrive`). The first rests on `DriveInv`: a cached number is
that of a file that is there or was wanted deleted, and no request to delete
exists for a chunk nobody wanted deleted, so neither a late request nor a cache
from half a listing can make an acknowledged chunk disappear. The second needs
`FolderInv` besides: the requests astray are about doubtful chunks, and the upload
in progress is of a chunk the folder does not have, because the mutex keeps the
cache as it was when the upload began.

### Model-checked only

Liveness (`RequestsFinish`, `ReadsFinish`, `Replenished`) is out of the prover's
reach. The violated properties of section 4 are TLC's as well. All other properties
of the runs are theorems.

## 6. Not modelled

The cipher and the key derivation (in `Lilio`, a locked bucket or a failed
decryption is a failing request), HEAD requests and requests no command makes, the
texts and reports of the commands, OAuth and the statistics of the drive, metrics,
counters of the nodes, two overlapping scrub passes, and several coordinators on
one etcd beyond what independent requests already show (a crash stops all of them).
The metrics have no influence on anything else; one gauge can never rise again
(`HealthCheck`, `lilio.go:954`, reports only backends that fail).

Known from modelling and not checked by a run of its own (the hazards of
`PROJECT.json` name the lines):

* Commands that overlap, or one that is killed, lose changes of the configuration or
  leave a file that does not parse.
* `lilio put f bucket/` creates the bucket, and a put to `admin/stats`, `ui` or
  `metrics` reports success, without storing anything.
* A put to a bucket that does not exist is a 500.
* The drive's mutex is held during requests that have no deadline of their own.
* The drive never replaces a damaged file of a chunk it knows, so that neither read
  repair nor a scrub heals it.
* Etcd lists keys outside the prefix when the continuation key sorts before it.
* A removal of a bucket in etcd, or an upload that overlaps it in memory, leaves
  objects without a bucket.
* A dropped error of `IsBucketEncrypted` stores plain bytes in an encrypted bucket.
* A listing is a 404 for a bucket that is there, contrary to the comment on
  `writeObjectError` (`server.go:41-44`), when etcd does not answer
  (`etcd.go:186-188, 359-361`) or when the local store stopped between its record
  and its directory (`local.go:98-105`).
* The local store's removal of a bucket whose directory it cannot list removes its
  objects (`local.go:201-206`).
* With etcd, a delete that reported its deadline may remove an object uploaded after
  it (`etcd.go:337-342`).
* A quorum above the replication factor is a valid configuration with which no
  upload succeeds.
* A chunk size of 0 is one with which every upload stores nothing.
* A scrub counts silent nodes as nodes without the chunk, and one whose caller hangs
  up during its last object counts every remote copy it still asks for as missing:
  it calls intact chunks unrepairable in a report without an error, which the server
  logs (`server.go:370`; only `scrub.go:130,141` look at the context).
* A scrub lists the chunks of an object whose metadata it could not read as orphans
  (its report then has an error, and `OrphansAreGarbage` trusts only reports
  without).

## 7. Plan

In this order; runs are few and shared where modules allow it.

1. *Done*: write path, reads, scrubber, register; buckets, keys and listing; local
   disk; hash ring and upload; proofs of the write path, of the single machine's
   files and of the life of a bucket.
2. *Done*: configuration and startup; commands and HTTP handlers; remote nodes and
   the drive below the coordinator; proofs of the latter two.
3. *Done*: proofs of the register, of `NoLeftovers`, of reads and scrub passes, of
   the listings, of the service and the configuration, of the ring and the upload.
4. Overlapping scrub passes, and passes beside deletes, once the state space of
   `LilioScrub` allows it (symmetry, fewer modes per run).
5. An abstract atomic file that `LocalDisk` refines for metadata, and an abstract
   bucket (a set of objects with a key) that `Buckets` refines without faults, both
   with proofs: their invariants are there.
