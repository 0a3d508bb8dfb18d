----------------------------- MODULE LilioReads -----------------------------
(***************************************************************************)
(* GET requests beside the writers of Lilio.  The handler reads the        *)
(* metadata for the headers, GetObject reads it again for the body and     *)
(* fetches every chunk from its replicas one at a time, while overwrites   *)
(* and deletes reclaim them, nodes lose or damage them, and detached       *)
(* goroutines repair the damaged ones (handleObject, GetObject,            *)
(* retrieveChunk, readRepair).                                             *)
(*                                                                         *)
(* Replicas may be tried in any order: orderReplicas sorts them by what    *)
(* the coordinator believes of the nodes, which may be out of date.        *)
(***************************************************************************)
EXTENDS Lilio

CONSTANTS
    Gets,       \* GET requests for an object
    KeyRead     \* the key each of them reads

ASSUME GetAssumption == KeyRead \in [Gets -> Keys]

VARIABLES
    gpc,        \* where each read is
    head,       \* the object its headers describe
    view,       \* the object GetObject delivers
    sent,       \* chunks it has written to its client
    left,       \* replicas of the current chunk it has not tried
    bad,        \* replicas of the current chunk that had the wrong bytes
    repairs     \* replicas that detached readRepairs still have to rewrite

readVars == <<gpc, head, view, sent, left, bad, repairs>>

GoOn(g, label) == gpc' = [gpc EXCEPT ![g] = label]

----------------------------------------------------------------------------
\* HeadObject: the headers are staged, nothing is sent yet.
GetHead(g) ==
    /\ gpc[g] = "idle"
    /\ \/ /\ head' = [head EXCEPT ![g] = meta[KeyRead[g]].obj]
          /\ GoOn(g, IF meta[KeyRead[g]].obj = NoObject THEN "notfound" ELSE "head")
          /\ UNCHANGED faults
       \/ /\ Fault("metaRead")
          /\ GoOn(g, "failed")
          /\ UNCHANGED head
    /\ UNCHANGED <<storeVars, nodeVars, reqVars, view, sent, left, bad, repairs>>

\* GetObject reads the metadata for itself.
GetBegin(g) ==
    /\ gpc[g] = "head"
    /\ \/ /\ view' = [view EXCEPT ![g] = meta[KeyRead[g]].obj]
          /\ GoOn(g, IF meta[KeyRead[g]].obj = NoObject THEN "notfound" ELSE "next")
          /\ UNCHANGED faults
       \/ /\ Fault("metaRead")
          /\ GoOn(g, "failed")
          /\ UNCHANGED view
    /\ UNCHANGED <<storeVars, nodeVars, reqVars, head, sent, left, bad, repairs>>

\* retrieveChunk lists the replicas of the next chunk.
GetChunk(g) ==
    /\ gpc[g] = "next"
    /\ sent[g] < Len(Placement[view[g]])
    /\ left' = [left EXCEPT ![g] =
                   {<<view[g], sent[g] + 1, n>> : n \in Placement[view[g]][sent[g] + 1]}]
    /\ bad' = [bad EXCEPT ![g] = {}]
    /\ GoOn(g, "trying")
    /\ UNCHANGED <<vars, head, view, sent, repairs>>

\* The body is complete; one shorter than the Content-Length of the headers is a
\* broken transfer.  Here the number of chunks stands for the length.
GetDone(g) ==
    /\ gpc[g] = "next"
    /\ sent[g] = Len(Placement[view[g]])
    /\ GoOn(g, IF Len(Placement[head[g]]) = Len(Placement[view[g]]) THEN "ok" ELSE "failed")
    /\ UNCHANGED <<vars, head, view, sent, left, bad, repairs>>

\* The replica is gone, or its node does not answer: try the next one.
GetMiss(g, replica) ==
    /\ gpc[g] = "trying"
    /\ replica \in left[g]
    /\ \/ replica \notin stored /\ UNCHANGED faults
       \/ Fault("unreachable")
    /\ left' = [left EXCEPT ![g] = @ \ {replica}]
    /\ UNCHANGED <<storeVars, nodeVars, reqVars, gpc, head, view, sent, bad, repairs>>

\* Seeded fault: a checksum mismatch ends the read.
GetCorruptGivesUp(g, replica) ==
    /\ gpc[g] = "trying"
    /\ replica \in left[g] \intersect corrupt
    /\ left' = [left EXCEPT ![g] = {}]
    /\ bad' = [bad EXCEPT ![g] = @ \union {replica}]
    /\ UNCHANGED <<vars, gpc, head, view, sent, repairs>>

\* Seeded fault: a node that answered with the wrong bytes is asked again.
GetCorruptRetries(g, replica) ==
    /\ gpc[g] = "trying"
    /\ replica \in left[g] \intersect corrupt
    /\ bad' = [bad EXCEPT ![g] = @ \union {replica}]
    /\ UNCHANGED <<vars, gpc, head, view, sent, left, repairs>>

\* The node answered with bytes that do not match the recorded checksum.
GetCorrupt(g, replica) ==
    /\ gpc[g] = "trying"
    /\ replica \in left[g] \intersect corrupt
    /\ left' = [left EXCEPT ![g] = @ \ {replica}]
    /\ bad' = [bad EXCEPT ![g] = @ \union {replica}]
    /\ UNCHANGED <<vars, gpc, head, view, sent, repairs>>

\* A verified copy: a detached readRepair gets it for the replicas found damaged
\* on the way.
GetGood(g, replica) ==
    /\ gpc[g] = "trying"
    /\ replica \in left[g] \intersect Good
    /\ repairs' = repairs \union bad[g]
    /\ GoOn(g, "writing")
    /\ UNCHANGED <<vars, head, view, sent, left, bad>>

\* The chunk is written to the client, once the client takes it.  Writing past the
\* Content-Length of the headers fails.
GetWrite(g) ==
    /\ gpc[g] = "writing"
    /\ sent' = [sent EXCEPT ![g] = @ + 1]
    /\ GoOn(g, IF sent[g] < Len(Placement[head[g]]) THEN "next" ELSE "failed")
    /\ UNCHANGED <<vars, head, view, left, bad, repairs>>

\* No replica could supply the chunk: the read ends with an error, or in the
\* middle of a body whose start the client already has.
GetExhausted(g) ==
    /\ gpc[g] = "trying"
    /\ left[g] = {}
    /\ GoOn(g, "unavailable")
    /\ UNCHANGED <<vars, head, view, sent, left, bad, repairs>>

\* The client hangs up (ctx.Err, writer.Write; whatever error that ends with, nobody
\* is there to read it), or a chunk cannot be decrypted.
GetAbort(g) ==
    /\ gpc[g] \in {"head", "next", "trying", "writing"}
    /\ Fault("hangup")
    /\ GoOn(g, "failed")
    /\ UNCHANGED <<storeVars, nodeVars, reqVars, head, view, sent, left, bad, repairs>>

\* One StoreChunk of a readRepair.  Nothing asks whether the chunk is still
\* referenced by then.
ReadRepair(replica) ==
    /\ replica \in repairs
    /\ repairs' = repairs \ {replica}
    /\ \/ Write(replica) /\ UNCHANGED <<late, faults>>
       \/ Fault("store") /\ UNCHANGED <<stored, corrupt, late>>
       \/ Fault("late") /\ late' = late \union {replica} /\ UNCHANGED <<stored, corrupt>>
    /\ UNCHANGED <<storeVars, damaged, acked, reqVars, gpc, head, view, sent, left, bad>>

ReadFinished == {"ok", "notfound", "failed", "unavailable", "crashed"}

\* A crash of the coordinator takes its reads and repairs with it.
ReadCrash ==
    /\ Crash
    /\ gpc' = [g \in Gets |->
                  IF gpc[g] \in ReadFinished \union {"idle"} THEN gpc[g] ELSE "crashed"]
    /\ repairs' = {}
    /\ UNCHANGED <<head, view, sent, left, bad>>

----------------------------------------------------------------------------
ReadInit ==
    /\ Init
    /\ gpc = [g \in Gets |-> "idle"]
    /\ head = [g \in Gets |-> NoObject]
    /\ view = [g \in Gets |-> NoObject]
    /\ sent = [g \in Gets |-> 0]
    /\ left = [g \in Gets |-> {}]
    /\ bad = [g \in Gets |-> {}]
    /\ repairs = {}

\* What a read does without its client.
GetStep(g) ==
    \/ GetBegin(g)
    \/ GetChunk(g)
    \/ GetDone(g)
    \/ \E replica \in left[g] :
          GetMiss(g, replica) \/ GetCorrupt(g, replica) \/ GetGood(g, replica)
    \/ GetExhausted(g)

RepairStep == \E replica \in repairs : ReadRepair(replica)

ReadNext ==
    \/ Step /\ UNCHANGED readVars
    \/ ReadCrash
    \/ \E g \in Gets : GetHead(g) \/ GetStep(g) \/ GetWrite(g) \/ GetAbort(g)
    \/ RepairStep

ReadSpec == ReadInit /\ [][ReadNext]_<<vars, readVars>>

\* Replicas are asked, and repaired, one after the other.  A call to a Drive node
\* has no deadline, so everything behind it may wait for ever.
SomeNoDeadline(replicas) == \E replica \in replicas : replica[3] \in NoDeadline

AwaitsReplica(g) == gpc[g] = "trying" /\ SomeNoDeadline(left[g])

\* As for the writers: goroutines run and calls return, but for those to a node
\* without deadline.  The client need not take what is written to it (no
\* WriteTimeout), nor does it have to hang up.
FairReadSpec ==
    /\ ReadSpec
    /\ \A g \in Gets : WF_<<vars, readVars>>(~AwaitsReplica(g) /\ GetStep(g))
    /\ WF_<<vars, readVars>>(~SomeNoDeadline(repairs) /\ RepairStep)

----------------------------------------------------------------------------
\* "A read fails only when no replica can produce data matching the recorded
\* checksum" (ADR 0003): a read that found no copy of a chunk lost a race with
\* an overwrite or a delete of its object, or at least W things went wrong with
\* the nodes.  Nobody else's upload, cleanup or repair makes it fail.
ReadableWhileIntact ==
    \A g \in Gets :
        gpc[g] = "unavailable" /\ Current(view[g]) => faults >= W

\* Every GET returns, unless its own client stops reading or a node without deadline
\* never answers, and every detached readRepair ends, unless such a node is in it.
\* Neither wait is cut short by the server; no other is without end.
ReadsFinish ==
    /\ \A g \in Gets :
          \/ gpc[g] # "idle" ~> gpc[g] \in ReadFinished
          \/ <>[](gpc[g] = "writing" \/ AwaitsReplica(g))
    /\ (repairs # {} ~> repairs = {}) \/ <>[]SomeNoDeadline(repairs)

=============================================================================
