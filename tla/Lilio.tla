------------------------------- MODULE Lilio -------------------------------
(***************************************************************************)
(* The write path of a Lilio coordinator: concurrent PutObject and         *)
(* DeleteObject requests, the metadata store they commit to, and the       *)
(* storage nodes that hold the chunks (pkg/storage/lilio.go, with          *)
(* pkg/metadata and pkg/storage/storage-models behind it).                 *)
(*                                                                         *)
(* Every PutObject mints a fresh object ID (generateUUID), so a member of  *)
(* Puts stands for the request and for the object version it writes; its   *)
(* chunk i is <<p, i>>, and <<p, i, n>> is the replica of that chunk on    *)
(* node n.  A chunk's bytes never differ between two writes of it, so a    *)
(* replica is absent, good or damaged.  Buckets, encryption and reads are  *)
(* in other modules: here one bucket exists throughout.                    *)
(***************************************************************************)
EXTENDS Integers, FiniteSets, Sequences

CONSTANTS
    Keys,               \* object keys of the bucket
    Nodes,              \* storage backends
    Puts,               \* PutObject requests, each one its own object ID
    Deletes,            \* DeleteObject requests
    NoObject,           \* what the store holds for a key without an object
    KeyOf,              \* the key each request is about
    Placement,          \* HashRing.GetNodes of each chunk of each put
    W,                  \* Quorum.W
    GlobalRevisions,    \* TRUE: etcd, FALSE: the local or the memory store
    NoDeadline,         \* nodes whose calls may never return (Google Drive)
    FaultKinds,         \* the kinds of fault a run lets the environment commit
    MaxFaults           \* bound on the number of faults in a behaviour

Requests == Puts \union Deletes

\* Lengths of the sequences in Placement are the chunk counts of the uploads;
\* an empty body has none (ChunkReader then reports EOF at once).
ASSUME RequestAssumption ==
    /\ NoObject \notin Puts
    /\ Puts \intersect Deletes = {}
    /\ KeyOf \in [Requests -> Keys]
    /\ Placement \in [Puts -> Seq(SUBSET Nodes)]

\* NewLilioInstance and config.Validate refuse a write quorum below 1.
ASSUME QuorumAssumption == W \in Nat \ {0}

ASSUME BoundAssumption ==
    /\ GlobalRevisions \in BOOLEAN
    /\ NoDeadline \subseteq Nodes
    /\ MaxFaults \in Nat

VARIABLES
    \* the metadata store
    meta,       \* per key: the object committed there and its revision
    clock,      \* etcd's store-wide revision counter
    committed,  \* history: every object that was ever committed
    inDoubt,    \* requests that gave up a call etcd may still execute
    \* the storage nodes
    stored,     \* replicas present on their node
    corrupt,    \* replicas present with the wrong bytes
    late,       \* StoreChunk calls given up by the caller, still to execute
    damaged,    \* history: replicas the environment lost or corrupted
    acked,      \* replicas whose StoreChunk returned nil to its caller
    \* the requests
    pc,         \* where each request is
    base,       \* the object a request read at its start
    expected,   \* the revision a put read with it
    at,         \* chunks of the upload that reached their quorum
    sending,    \* nodes the current chunk is being stored on
    todo,       \* replicas deleteChunks still has to visit
    faults      \* faults so far

metaVars  == <<meta, clock, committed>>
storeVars == <<metaVars, inDoubt>>
nodeVars  == <<stored, corrupt, late, damaged, acked>>
reqVars   == <<pc, base, expected, at, sending, todo>>
vars      == <<storeVars, nodeVars, reqVars, faults>>

Chunks(p) == DOMAIN Placement[p]

\* The replicas named by the StorageNodes of an object's ChunkInfos.
ReplicasOf(o) ==
    IF o = NoObject THEN {}
    ELSE UNION {{<<o, i, n>> : n \in Placement[o][i]} : i \in Chunks(o)}

Replicas == UNION {ReplicasOf(p) : p \in Puts}

Good == stored \ corrupt

\* The nodes that acknowledged chunk i of p (successfulNodes).
AckedOn(p, i) == {n \in Nodes : <<p, i, n>> \in acked}

\* The environment commits one fault of this kind, if the run allows it.
Fault(kind) ==
    /\ kind \in FaultKinds
    /\ faults < MaxFaults
    /\ faults' = faults + 1

Goto(r, label) == pc' = [pc EXCEPT ![r] = label]

----------------------------------------------------------------------------
(* The metadata store.                                                     *)

\* The revision of a key, 0 when nothing is stored there.
Revision(k) == meta[k].rev

\* etcd stamps a write with its global revision; the other stores count up
\* from the revision being replaced, so from 1 again after a delete.
NextRevision(k) == IF GlobalRevisions THEN clock + 1 ELSE Revision(k) + 1

Tick == clock' = IF GlobalRevisions THEN clock + 1 ELSE clock

Install(p) ==
    /\ meta' = [meta EXCEPT ![KeyOf[p]] =
                    [obj |-> p, rev |-> NextRevision(KeyOf[p])]]
    /\ Tick
    /\ committed' = committed \union {p}

Uninstall(k) ==
    /\ meta' = [meta EXCEPT ![k] = [obj |-> NoObject, rev |-> 0]]
    /\ Tick
    /\ UNCHANGED committed

\* A call that was given up at its deadline (withTimeout) or by a dying coordinator
\* reaches etcd after all.  The comparison of a Txn is made when it arrives.
LateCommit(p) ==
    /\ p \in inDoubt
    /\ inDoubt' = inDoubt \ {p}
    /\ IF expected[p] = Revision(KeyOf[p]) THEN Install(p) ELSE UNCHANGED metaVars
    /\ UNCHANGED <<nodeVars, reqVars, faults>>

\* A Delete compares nothing: it removes whatever is stored by then.
LateRemove(d) ==
    /\ d \in inDoubt
    /\ inDoubt' = inDoubt \ {d}
    /\ IF meta[KeyOf[d]].obj = NoObject THEN UNCHANGED metaVars ELSE Uninstall(KeyOf[d])
    /\ UNCHANGED <<nodeVars, reqVars, faults>>

----------------------------------------------------------------------------
(* A storage node.                                                         *)

\* StoreChunk replaces whatever the node had under that chunk ID.
Write(replica) ==
    /\ stored' = stored \union {replica}
    /\ corrupt' = corrupt \ {replica}

\* Seeded fault: deleting a chunk forgets the node's copy but not its state.
EraseKeepsMark(replica) == stored' = stored \ {replica} /\ UNCHANGED corrupt

Erase(replica) ==
    /\ stored' = stored \ {replica}
    /\ corrupt' = corrupt \ {replica}

\* A store request its caller gave up on (timeout, hang-up, crash) reaches the
\* node anyway; nothing tells the node that nobody waits for it any more.
LateStore(replica) ==
    /\ replica \in late
    /\ late' = late \ {replica}
    /\ Write(replica)
    /\ UNCHANGED <<storeVars, damaged, acked, reqVars, faults>>

\* Bit rot or an overwritten file: the chunk is there with the wrong bytes.
Corrupt(replica) ==
    /\ replica \in Good
    /\ Fault("corrupt")
    /\ corrupt' = corrupt \union {replica}
    /\ damaged' = damaged \union {replica}
    /\ UNCHANGED <<storeVars, stored, late, acked, reqVars>>

\* The chunk file is gone: a lost disk, or an unsynced write after power loss.
Lose(replica) ==
    /\ replica \in stored
    /\ Fault("lose")
    /\ Erase(replica)
    /\ damaged' = damaged \union {replica}
    /\ UNCHANGED <<storeVars, late, acked, reqVars>>

----------------------------------------------------------------------------
(* PutObject.                                                              *)

\* Reads what the upload will replace.  The error of that read is dropped: any
\* failure counts as "no object here" (superseded = nil, expectedRevision = 0).
\* A failing BucketExists or a locked bucket ends the request instead.
PutBegin(p) ==
    /\ pc[p] = "idle"
    /\ \/ /\ base' = [base EXCEPT ![p] = meta[KeyOf[p]].obj]
          /\ expected' = [expected EXCEPT ![p] = Revision(KeyOf[p])]
          /\ Goto(p, "chunk")
          /\ UNCHANGED faults
       \/ /\ Fault("metaRead")
          /\ Goto(p, "chunk") \/ Goto(p, "failed")
          /\ UNCHANGED <<base, expected>>
    /\ UNCHANGED <<storeVars, nodeVars, at, sending, todo>>

\* Takes the next chunk and fans it out to the intended nodes that look online.
\* With none online, or a body that cannot be read, the upload fails and the
\* chunks it already stored stay where they are.
PutFanOut(p) ==
    /\ pc[p] = "chunk"
    /\ at[p] < Len(Placement[p])
    /\ \E online \in SUBSET Placement[p][at[p] + 1] :
          /\ \/ online = Placement[p][at[p] + 1] /\ UNCHANGED faults
             \/ online # Placement[p][at[p] + 1] /\ Fault("offline")
          /\ IF online = {}
             THEN Goto(p, "failed") /\ UNCHANGED sending
             ELSE /\ Goto(p, "storing")
                  /\ sending' = [sending EXCEPT ![p] = online]
    /\ UNCHANGED <<storeVars, nodeVars, base, expected, at, todo>>

PutBodyError(p) ==
    /\ pc[p] = "chunk"
    /\ Fault("body")
    /\ Goto(p, "failed")
    /\ UNCHANGED <<storeVars, nodeVars, base, expected, at, sending, todo>>

\* One goroutine of the fan-out ends: stored and acknowledged, stored with the
\* answer lost, not stored, or abandoned while the node may still execute it.
PutStore(p, n) ==
    LET replica == <<p, at[p] + 1, n>> IN
    /\ pc[p] = "storing"
    /\ n \in sending[p]
    /\ sending' = [sending EXCEPT ![p] = @ \ {n}]
    /\ \/ /\ Write(replica)
          /\ acked' = acked \union {replica}
          /\ UNCHANGED <<late, faults>>
       \/ /\ Fault("lostAck")
          /\ Write(replica)
          /\ UNCHANGED <<late, acked>>
       \/ /\ Fault("store")
          /\ UNCHANGED <<stored, corrupt, late, acked>>
       \/ /\ Fault("late")
          /\ late' = late \union {replica}
          /\ UNCHANGED <<stored, corrupt, acked>>
    /\ UNCHANGED <<storeVars, damaged, pc, base, expected, at, todo>>

\* Seeded fault: the quorum counts one node too few.
PutQuorumOffByOne(p) ==
    /\ pc[p] = "storing"
    /\ sending[p] = {}
    /\ IF Cardinality(AckedOn(p, at[p] + 1)) >= W - 1
       THEN Goto(p, "chunk") /\ at' = [at EXCEPT ![p] = @ + 1]
       ELSE Goto(p, "failed") /\ UNCHANGED at
    /\ UNCHANGED <<storeVars, nodeVars, base, expected, sending, todo, faults>>

\* Seeded fault: the upload waits until every intended node has acknowledged.
PutQuorumWaitsForAll(p) ==
    /\ pc[p] = "storing"
    /\ AckedOn(p, at[p] + 1) = Placement[p][at[p] + 1]
    /\ Goto(p, "chunk")
    /\ at' = [at EXCEPT ![p] = @ + 1]
    /\ UNCHANGED <<storeVars, nodeVars, base, expected, sending, todo, faults>>

\* wg.Wait() returned: the chunk either has its write quorum or fails the put.
PutQuorum(p) ==
    /\ pc[p] = "storing"
    /\ sending[p] = {}
    /\ IF Cardinality(AckedOn(p, at[p] + 1)) >= W
       THEN /\ Goto(p, "chunk")
            /\ at' = [at EXCEPT ![p] = @ + 1]
       ELSE Goto(p, "failed") /\ UNCHANGED at
    /\ UNCHANGED <<storeVars, nodeVars, base, expected, sending, todo, faults>>

\* The body has ended.
PutReadEnd(p) ==
    /\ pc[p] = "chunk"
    /\ at[p] = Len(Placement[p])
    /\ Goto(p, "commit")
    /\ UNCHANGED <<storeVars, nodeVars, base, expected, at, sending, todo, faults>>

Uploaded(p) == pc[p] = "commit"

\* Seeded fault: SaveObjectMetadata in place of CompareAndSaveObjectMetadata.
PutCommitUnconditional(p) ==
    /\ Uploaded(p)
    /\ Install(p)
    /\ Goto(p, "reclaim")
    /\ todo' = [todo EXCEPT ![p] = ReplicasOf(base[p])]
    /\ UNCHANGED <<inDoubt, nodeVars, base, expected, at, sending, faults>>

\* CompareAndSave succeeded: reclaim the chunks of the object replaced.
PutCommit(p) ==
    /\ Uploaded(p)
    /\ expected[p] = Revision(KeyOf[p])
    /\ Install(p)
    /\ Goto(p, "reclaim")
    /\ todo' = [todo EXCEPT ![p] = ReplicasOf(base[p])]
    /\ UNCHANGED <<inDoubt, nodeVars, base, expected, at, sending, faults>>

\* Seeded fault: the loser of a race keeps what it uploaded.
PutConflictKeepsChunks(p) ==
    /\ Uploaded(p)
    /\ expected[p] # Revision(KeyOf[p])
    /\ Goto(p, "withdraw")
    /\ UNCHANGED <<storeVars, nodeVars, base, expected, at, sending, todo, faults>>

\* ErrRevisionMismatch: remove the chunks this upload stored.
PutConflict(p) ==
    /\ Uploaded(p)
    /\ expected[p] # Revision(KeyOf[p])
    /\ Goto(p, "withdraw")
    /\ todo' = [todo EXCEPT ![p] = ReplicasOf(p)]
    /\ UNCHANGED <<storeVars, nodeVars, base, expected, at, sending, faults>>

\* What an error of CompareAndSave may hide: nothing, a commit (an etcd call whose
\* answer is lost, a rename whose directory sync fails), or a call that etcd will
\* execute when nobody waits for it any more.
CommitFails(p) ==
    \/ Fault("metaWrite") /\ UNCHANGED storeVars
    \/ /\ Fault("metaLostAck")
       /\ expected[p] = Revision(KeyOf[p])
       /\ Install(p)
       /\ UNCHANGED inDoubt
    \/ /\ Fault("metaLate") /\ GlobalRevisions
       /\ inDoubt' = inDoubt \union {p}
       /\ UNCHANGED metaVars

\* Seeded fault: every commit error is handled like a conflict.
PutCommitErrorWithdraws(p) ==
    /\ Uploaded(p)
    /\ CommitFails(p)
    /\ Goto(p, "withdraw")
    /\ todo' = [todo EXCEPT ![p] = ReplicasOf(p)]
    /\ UNCHANGED <<nodeVars, base, expected, at, sending>>

\* Any error of CompareAndSave but a mismatch: no chunk is removed.
PutCommitError(p) ==
    /\ Uploaded(p)
    /\ CommitFails(p)
    /\ Goto(p, "failed")
    /\ UNCHANGED <<nodeVars, base, expected, at, sending, todo>>

----------------------------------------------------------------------------
(* DeleteObject.                                                           *)

\* A missing object is success, so that a retried DELETE is idempotent.
DeleteBegin(d) ==
    /\ pc[d] = "idle"
    /\ \/ /\ base' = [base EXCEPT ![d] = meta[KeyOf[d]].obj]
          /\ Goto(d, IF meta[KeyOf[d]].obj = NoObject THEN "ok" ELSE "removing")
          /\ UNCHANGED faults
       \/ /\ Fault("metaRead")
          /\ Goto(d, "failed")
          /\ UNCHANGED base
    /\ UNCHANGED <<storeVars, nodeVars, expected, at, sending, todo>>

\* The metadata is deleted whatever its revision is by now, then the chunks of
\* the object that was READ are reclaimed.  Losing to another delete is success.
DeleteCommit(d) ==
    /\ pc[d] = "removing"
    /\ IF meta[KeyOf[d]].obj = NoObject
       THEN Goto(d, "ok") /\ UNCHANGED <<storeVars, todo>>
       ELSE /\ Uninstall(KeyOf[d])
            /\ Goto(d, "reclaim")
            /\ todo' = [todo EXCEPT ![d] = ReplicasOf(base[d])]
            /\ UNCHANGED inDoubt
    /\ UNCHANGED <<nodeVars, base, expected, at, sending, faults>>

\* DeleteObjectMetadata failed, its answer was lost, or etcd will execute it later:
\* nothing is reclaimed.
DeleteCommitError(d) ==
    /\ pc[d] = "removing"
    /\ \/ Fault("metaWrite") /\ UNCHANGED storeVars
       \/ /\ Fault("metaLostAck")
          /\ meta[KeyOf[d]].obj # NoObject
          /\ Uninstall(KeyOf[d])
          /\ UNCHANGED inDoubt
       \/ /\ Fault("metaLate") /\ GlobalRevisions
          /\ inDoubt' = inDoubt \union {d}
          /\ UNCHANGED metaVars
    /\ Goto(d, "failed")
    /\ UNCHANGED <<nodeVars, base, expected, at, sending, todo>>

----------------------------------------------------------------------------
(* deleteChunks, and the end of a request.                                 *)

\* One DeleteChunk call; a failed one is logged and skipped for good.
Reclaim(r, replica) ==
    /\ replica \in todo[r]
    /\ todo' = [todo EXCEPT ![r] = @ \ {replica}]
    /\ \/ Erase(replica) /\ UNCHANGED faults
       \/ Fault("erase") /\ UNCHANGED <<stored, corrupt>>
    /\ UNCHANGED <<storeVars, late, damaged, acked, pc, base, expected, at, sending>>

\* Seeded fault: the loser of a race is told its write succeeded.
RespondAlwaysOk(r) ==
    /\ pc[r] \in {"reclaim", "withdraw"}
    /\ todo[r] = {}
    /\ Goto(r, "ok")
    /\ UNCHANGED <<storeVars, nodeVars, base, expected, at, sending, todo, faults>>

Respond(r) ==
    /\ pc[r] \in {"reclaim", "withdraw"}
    /\ todo[r] = {}
    /\ Goto(r, IF pc[r] = "reclaim" THEN "ok" ELSE "conflict")
    /\ UNCHANGED <<storeVars, nodeVars, base, expected, at, sending, todo, faults>>

Finished == {"ok", "conflict", "failed", "crashed"}

\* Store requests the coordinator is waiting for.
InFlight == UNION {{<<p, at[p] + 1, n>> : n \in sending[p]} : p \in Puts}

Live(r) == pc[r] \notin Finished \union {"idle"}

\* Requests that may have sent their commit to etcd.
Committing ==
    {r \in Requests : GlobalRevisions /\ pc[r] = IF r \in Puts THEN "commit" ELSE "removing"}

\* The coordinator dies: its requests stop where they are, deleteChunks
\* included, and nothing resumes them after a restart.  Calls already sent may
\* still reach their nodes, or etcd.
Crash ==
    /\ Fault("crash")
    /\ \E r \in Requests : Live(r)
    /\ pc' = [r \in Requests |-> IF Live(r) THEN "crashed" ELSE pc[r]]
    /\ \E sent \in SUBSET InFlight : late' = late \union sent
    /\ \E sent \in SUBSET Committing : inDoubt' = inDoubt \union sent
    /\ sending' = [p \in Puts |-> {}]
    /\ todo' = [r \in Requests |-> {}]
    /\ UNCHANGED <<metaVars, stored, corrupt, damaged, acked, base, expected, at>>

----------------------------------------------------------------------------
(* The specification.                                                      *)

\* The stores start empty and no request has arrived.
Init ==
    /\ meta = [k \in Keys |-> [obj |-> NoObject, rev |-> 0]]
    /\ clock = 0
    /\ committed = {}
    /\ inDoubt = {}
    /\ stored = {}
    /\ corrupt = {}
    /\ late = {}
    /\ damaged = {}
    /\ acked = {}
    /\ pc = [r \in Requests |-> "idle"]
    /\ base = [r \in Requests |-> NoObject]
    /\ expected = [p \in Puts |-> 0]
    /\ at = [p \in Puts |-> 0]
    /\ sending = [p \in Puts |-> {}]
    /\ todo = [r \in Requests |-> {}]
    /\ faults = 0

\* A put that waits for its client's body.
PutBody(p) == PutFanOut(p) \/ PutReadEnd(p) \/ PutBodyError(p)

PutDecide(p) == PutCommit(p) \/ PutConflict(p) \/ PutCommitError(p)

\* What the coordinator does for a put once it has been called.
PutStep(p) ==
    \/ PutBody(p)
    \/ \E n \in Nodes : PutStore(p, n)
    \/ PutQuorum(p)
    \/ PutDecide(p)

DeleteStep(d) == DeleteCommit(d) \/ DeleteCommitError(d)

CleanupStep(r) == Respond(r) \/ \E replica \in todo[r] : Reclaim(r, replica)

\* The nodes and the metadata store by themselves.
NodeStep ==
    \/ \E replica \in Replicas :
          LateStore(replica) \/ Corrupt(replica) \/ Lose(replica)
    \/ \E p \in Puts : LateCommit(p)
    \/ \E d \in Deletes : LateRemove(d)

\* Everything but a crash of the coordinator.
Step ==
    \/ \E p \in Puts : PutBegin(p) \/ PutStep(p)
    \/ \E d \in Deletes : DeleteBegin(d) \/ DeleteStep(d)
    \/ \E r \in Requests : CleanupStep(r)
    \/ NodeStep

Next == Step \/ Crash

Spec == Init /\ [][Next]_vars

\* A call to a Drive node has no deadline, so deleteChunks may wait for one for ever.
AwaitsNode(r) == \E replica \in todo[r] : replica[3] \in NoDeadline

\* The Go scheduler runs every goroutine, calls to local disks return, and calls to
\* remote nodes and to etcd return at their deadlines at the latest.  Neither the
\* client of an upload nor a node without deadline has to go on: the server sets
\* no timeouts of its own (ListenAndServe).
Fairness ==
    /\ \A p \in Puts : WF_vars((\E n \in Nodes \ NoDeadline : PutStore(p, n)) \/ PutQuorum(p))
    /\ \A p \in Puts : WF_vars(PutDecide(p))
    /\ \A d \in Deletes : WF_vars(DeleteStep(d))
    /\ \A r \in Requests : WF_vars(~AwaitsNode(r) /\ CleanupStep(r))

FairSpec == Spec /\ Fairness

----------------------------------------------------------------------------
(* Properties.                                                             *)

Labels == Finished \union
          {"idle", "chunk", "storing", "commit", "reclaim", "withdraw", "removing"}

\* Types of the variables; a damaged copy is a copy, so corrupt is within stored.
TypeOK ==
    /\ meta \in [Keys -> [obj : Puts \union {NoObject}, rev : Nat]]
    /\ clock \in Nat
    /\ committed \subseteq Puts
    /\ inDoubt \subseteq Requests
    /\ stored \subseteq Replicas
    /\ corrupt \subseteq stored
    /\ late \subseteq Replicas
    /\ damaged \subseteq Replicas
    /\ acked \subseteq Replicas
    /\ pc \in [Requests -> Labels]
    /\ base \in [Requests -> Puts \union {NoObject}]
    /\ expected \in [Puts -> Nat]
    /\ at \in [Puts -> Nat]
    /\ sending \in [Puts -> SUBSET Nodes]
    /\ todo \in [Requests -> SUBSET Replicas]
    /\ faults \in Nat

Current(o) == \E k \in Keys : meta[k].obj = o

\* No request is about to delete a replica of an object that the metadata names
\* ("a dangling pointer is data loss", DeleteObject): whatever overlaps, crashes
\* or fails, deleteChunks is only ever left with chunks no key refers to.
ReclaimsOnlyDead ==
    \A r \in Requests, k \in Keys :
        todo[r] \intersect ReplicasOf(meta[k].obj) = {}

\* A committed object keeps its write quorum: each of its chunks was accepted by
\* at least W nodes, and each of these copies is intact unless the environment
\* damaged it.  No put, delete, late store or cleanup of anyone takes one away.
CommittedDurable ==
    \A k \in Keys : meta[k].obj # NoObject =>
        \A i \in Chunks(meta[k].obj) :
            /\ Cardinality(AckedOn(meta[k].obj, i)) >= W
            /\ \A n \in AckedOn(meta[k].obj, i) :
                    <<meta[k].obj, i, n>> \in Good \union damaged

\* Conditional commit: a put installs its object only over the very object it
\* read when it started, so no concurrent write is silently overwritten
\* (ObjectMetadata.Revision, "conditional on nothing else having changed").
NoLostUpdate ==
    [][\A k \in Keys :
          meta'[k].obj \notin {meta[k].obj, NoObject} =>
              base[meta'[k].obj] = meta[k].obj]_vars

Quiescent == late = {} /\ inDoubt = {} /\ \A r \in Requests : ~Live(r)

\* Every chunk on a node belongs to an object of the metadata once the requests
\* are over and nothing failed: losers and replaced versions leave no garbage.
NoLeftovers ==
    Quiescent /\ faults = 0 => stored = UNION {ReplicasOf(meta[k].obj) : k \in Keys}

\* What a request can wait for without end.
Stalled(r) ==
    \/ pc[r] = "chunk"
    \/ pc[r] = "storing" /\ r \in Puts /\ sending[r] \intersect NoDeadline # {}
    \/ AwaitsNode(r)

\* Every call of PutObject and DeleteObject returns (or dies in a crash), unless its
\* own client stops sending or a node without deadline never answers: no fan-out,
\* commit or cleanup waits for anything else.
RequestsFinish ==
    \A r \in Requests : (pc[r] # "idle" ~> pc[r] \in Finished) \/ <>[]Stalled(r)

=============================================================================
