----------------------------- MODULE LilioScrub -----------------------------
(***************************************************************************)
(* The scrubber beside the writers of Lilio (pkg/storage/scrub.go).  A     *)
(* pass lists the keys, reads the metadata of each, asks every node of     *)
(* every chunk for its copy, puts back what is missing or damaged, and     *)
(* last compares what the nodes hold with what it saw referenced.  Each of *)
(* these is a step of its own: uploads, deletes and node failures happen   *)
(* in between.                                                             *)
(***************************************************************************)
EXTENDS Lilio

CONSTANT Modes  \* the options a pass may be started with

\* Deep: download the copies instead of asking for presence.  DryRun: only report.
ASSUME ModeAssumption == Modes \subseteq [deep : BOOLEAN, dryRun : BOOLEAN]

VARIABLES
    spc,        \* where the pass is
    mode,       \* its options
    cancelled,  \* its context is cancelled, or was when it ended
    keysLeft,   \* keys listed and not yet read
    chunksLeft, \* chunks of the object being scrubbed still to check
    referenced, \* chunks of the objects read in this pass
    chunk,      \* the chunk being checked
    asking,     \* nodes still to be asked
    healthy,    \* nodes that have the chunk
    broken,     \* nodes that do not (scrubChunk calls them damaged)
    errors,     \* report: something could not be listed or read
    lost,       \* report: chunks called unrepairable
    orphans,    \* report: replicas called orphans
    steady      \* history: objects current ever since the pass began

scanVars  == <<mode, cancelled, keysLeft, chunksLeft, referenced>>
probeVars == <<chunk, asking, healthy, broken>>
report    == <<errors, lost, orphans>>
scrubVars == <<spc, scanVars, probeVars, report, steady>>
worldVars == <<storeVars, nodeVars, reqVars>>  \* all of Lilio but faults

NoChunk == <<NoObject, 0>>

ChunksOf(o) == IF o = NoObject THEN {} ELSE {<<o, i>> : i \in Chunks(o)}

NodesOf(c) == Placement[c[1]][c[2]]

Copy(c, n) == <<c[1], c[2], n>>

CurrentObjects == {meta[k].obj : k \in Keys} \ {NoObject}

\* A call fails: by a fault of its own, or for being made with a cancelled context.
\* Calls to local disks do not look at their context and may still succeed then.
Fails(kind) == Fault(kind) \/ (cancelled /\ UNCHANGED faults)

NotProbing == chunk' = NoChunk /\ asking' = {} /\ healthy' = {} /\ broken' = {}

----------------------------------------------------------------------------
\* A new pass, on the timer or by POST /admin/scrub.  A page that cannot be
\* listed is noted as an error and the pass goes on without its keys.
ScrubBegin(m) ==
    /\ spc = "idle"
    /\ spc' = "scan"
    /\ mode' = m
    /\ \/ /\ keysLeft' = {k \in Keys : meta[k].obj # NoObject}
          /\ errors' = FALSE
          /\ cancelled' = FALSE
          /\ UNCHANGED faults
       \/ /\ \/ Fault("metaList") /\ cancelled' = FALSE
             \/ Fault("hangup") /\ cancelled' = TRUE
          /\ keysLeft' = {}
          /\ errors' = TRUE
    /\ lost' = {} /\ orphans' = {}
    /\ chunksLeft' = {} /\ referenced' = {}
    /\ NotProbing
    /\ steady' = CurrentObjects
    /\ UNCHANGED worldVars

\* Seeded fault: the last chunk of an object is not noted as referenced.
ScrubReadOffByOne(k) ==
    /\ spc = "scan" /\ chunksLeft = {} /\ k \in keysLeft
    /\ keysLeft' = keysLeft \ {k}
    /\ chunksLeft' = ChunksOf(meta[k].obj)
    /\ referenced' = referenced \union {c \in chunksLeft' : c[2] < Cardinality(chunksLeft')}
    /\ UNCHANGED <<vars, spc, mode, cancelled, probeVars, report, steady>>

\* Reads the metadata of a listed key, if the context is still good (ctx.Err).  One
\* that cannot be read, or is gone by now, is noted as an error and skipped: nothing
\* of it counts as referenced.
ScrubRead(k) ==
    /\ spc = "scan" /\ chunksLeft = {} /\ k \in keysLeft
    /\ ~cancelled
    /\ keysLeft' = keysLeft \ {k}
    /\ \/ /\ meta[k].obj # NoObject
          /\ chunksLeft' = ChunksOf(meta[k].obj)
          /\ referenced' = referenced \union chunksLeft'
          /\ UNCHANGED <<errors, cancelled, faults>>
       \/ /\ \/ meta[k].obj = NoObject /\ UNCHANGED <<cancelled, faults>>
             \/ Fault("metaRead") /\ UNCHANGED cancelled
             \/ Fault("hangup") /\ cancelled' = TRUE
          /\ errors' = TRUE
          /\ UNCHANGED <<chunksLeft, referenced>>
    /\ UNCHANGED <<worldVars, spc, mode, probeVars, lost, orphans, steady>>

ScrubChunk(c) ==
    /\ spc = "scan" /\ c \in chunksLeft
    /\ spc' = "probe"
    /\ chunksLeft' = chunksLeft \ {c}
    /\ chunk' = c
    /\ asking' = NodesOf(c)
    /\ healthy' = {} /\ broken' = {}
    /\ UNCHANGED <<vars, mode, cancelled, keysLeft, referenced, report, steady>>

\* Seeded fault: a deep pass does not compare checksums.
ScrubProbeUnverified(n) ==
    /\ spc = "probe" /\ n \in asking
    /\ asking' = asking \ {n}
    /\ IF Copy(chunk, n) \in stored
       THEN healthy' = healthy \union {n} /\ UNCHANGED broken
       ELSE broken' = broken \union {n} /\ UNCHANGED healthy
    /\ UNCHANGED <<vars, spc, scanVars, chunk, report, steady>>

\* Asks one node: a verified download, or HasChunk, which is also FALSE when the
\* node does not answer.
ScrubProbe(n) ==
    /\ spc = "probe" /\ n \in asking
    /\ asking' = asking \ {n}
    /\ LET has == Copy(chunk, n) \in IF mode.deep THEN Good ELSE stored IN
       \/ has /\ healthy' = healthy \union {n} /\ UNCHANGED <<broken, faults>>
       \/ ~has /\ broken' = broken \union {n} /\ UNCHANGED <<healthy, faults>>
       \/ Fails("unreachable") /\ broken' = broken \union {n} /\ UNCHANGED healthy
    /\ UNCHANGED <<worldVars, spc, scanVars, chunk, report, steady>>

\* Seeded fault: a damaged copy makes the chunk unrepairable.
ScrubJudgeHasty ==
    /\ spc = "probe" /\ asking = {}
    /\ spc' = "scan"
    /\ lost' = IF broken = {} THEN lost ELSE lost \union {chunk}
    /\ UNCHANGED <<vars, scanVars, probeVars, errors, orphans, steady>>

\* Fully replicated, without any copy, or to be repaired.  A presence check has
\* not read the bytes yet: it first fetches a verified copy.
ScrubJudge ==
    /\ spc = "probe" /\ asking = {}
    /\ \/ /\ broken = {} \/ (healthy # {} /\ mode.dryRun)
          /\ spc' = "scan"
          /\ UNCHANGED <<asking, lost>>
       \/ /\ broken # {} /\ healthy = {}
          /\ spc' = "scan"
          /\ lost' = lost \union {chunk}
          /\ UNCHANGED asking
       \/ /\ broken # {} /\ healthy # {} /\ ~mode.dryRun
          /\ spc' = IF mode.deep THEN "repair" ELSE "verify"
          /\ asking' = IF mode.deep THEN {} ELSE healthy
          /\ UNCHANGED lost
    /\ UNCHANGED <<vars, scanVars, chunk, healthy, broken, errors, orphans, steady>>

\* fetchVerifiedChunk asks one of the nodes that claim the chunk.
ScrubFetch(n) ==
    /\ spc = "verify" /\ n \in asking
    /\ \/ /\ Copy(chunk, n) \in Good
          /\ spc' = "repair" /\ asking' = {}
          /\ UNCHANGED faults
       \/ /\ (Copy(chunk, n) \notin Good /\ UNCHANGED faults) \/ Fails("unreachable")
          /\ asking' = asking \ {n}
          /\ UNCHANGED spc
    /\ UNCHANGED <<worldVars, scanVars, chunk, healthy, broken, report, steady>>

ScrubNoCopy ==
    /\ spc = "verify" /\ asking = {}
    /\ spc' = "scan"
    /\ lost' = lost \union {chunk}
    /\ UNCHANGED <<vars, scanVars, probeVars, errors, orphans, steady>>

\* Stores the verified copy on one of the nodes that lack it.
ScrubRepair(n) ==
    /\ spc = "repair" /\ n \in broken
    /\ broken' = broken \ {n}
    /\ \/ Write(Copy(chunk, n)) /\ UNCHANGED <<late, faults>>
       \/ Fails("store") /\ UNCHANGED <<stored, corrupt, late>>
       \/ /\ Fails("late")
          /\ late' = late \union {Copy(chunk, n)}
          /\ UNCHANGED <<stored, corrupt>>
    /\ UNCHANGED <<storeVars, damaged, acked, reqVars, spc, scanVars, chunk, asking,
                   healthy, report, steady>>

ScrubRepaired ==
    /\ spc = "repair" /\ broken = {}
    /\ spc' = "scan"
    /\ UNCHANGED <<vars, scanVars, probeVars, report, steady>>

\* Every key has been read: compare with what the nodes hold.
ScrubScanned ==
    /\ spc = "scan" /\ keysLeft = {} /\ chunksLeft = {}
    /\ spc' = "orphans"
    /\ asking' = Nodes
    /\ UNCHANGED <<vars, scanVars, chunk, healthy, broken, report, steady>>

UnreferencedOn(n) == {copy \in stored : copy[3] = n /\ <<copy[1], copy[2]>> \notin referenced}

\* Seeded fault: the pass deletes the orphans it finds.
ScrubOrphansDelete(n) ==
    /\ spc = "orphans" /\ n \in asking
    /\ asking' = asking \ {n}
    /\ orphans' = orphans \union UnreferencedOn(n)
    /\ stored' = stored \ UnreferencedOn(n)
    /\ corrupt' = corrupt \ UnreferencedOn(n)
    /\ UNCHANGED <<storeVars, late, damaged, acked, reqVars, faults, spc, scanVars,
                   chunk, healthy, broken, errors, lost, steady>>

\* Lists one node's chunks.  Orphans are reported and left where they are.
ScrubOrphans(n) ==
    /\ spc = "orphans" /\ n \in asking
    /\ asking' = asking \ {n}
    /\ \/ /\ orphans' = orphans \union UnreferencedOn(n)
          /\ UNCHANGED <<errors, faults>>
       \/ /\ Fails("unreachable")
          /\ errors' = TRUE
          /\ UNCHANGED orphans
    /\ UNCHANGED <<worldVars, spc, scanVars, chunk, healthy, broken, lost, steady>>

ScrubEnd ==
    /\ spc = "orphans" /\ asking = {}
    /\ spc' = "idle"
    /\ UNCHANGED <<vars, scanVars, probeVars, report, steady>>

\* The pass ends without a report.
Discard ==
    /\ spc' = "idle"
    /\ UNCHANGED mode
    /\ cancelled' = FALSE
    /\ keysLeft' = {} /\ chunksLeft' = {} /\ referenced' = {} /\ steady' = {}
    /\ NotProbing
    /\ errors' = FALSE /\ lost' = {} /\ orphans' = {}

\* The client of POST /admin/scrub hangs up, or the server is shutting down.
ScrubCancel ==
    /\ spc # "idle" /\ ~cancelled
    /\ Fault("hangup")
    /\ cancelled' = TRUE
    /\ UNCHANGED <<worldVars, spc, mode, keysLeft, chunksLeft, referenced, probeVars,
                   report, steady>>

\* A pass looks at its context before it reads a key, never within an object or
\* among the orphans: cancelled at its last object, it ends with a report.
ScrubAbort ==
    /\ spc = "scan" /\ chunksLeft = {} /\ keysLeft # {}
    /\ cancelled
    /\ Discard
    /\ UNCHANGED vars

\* The pass dies with its coordinator.
ScrubCrash == Crash /\ Discard

----------------------------------------------------------------------------
\* No pass has run yet.
ScrubInit ==
    /\ Init
    /\ spc = "idle"
    /\ mode \in Modes /\ cancelled = FALSE
    /\ keysLeft = {} /\ chunksLeft = {} /\ referenced = {} /\ steady = {}
    /\ chunk = NoChunk /\ asking = {} /\ healthy = {} /\ broken = {}
    /\ errors = FALSE /\ lost = {} /\ orphans = {}

ScrubStep ==
    \/ \E k \in keysLeft : ScrubRead(k)
    \/ \E c \in chunksLeft : ScrubChunk(c)
    \/ \E n \in Nodes : ScrubProbe(n) \/ ScrubFetch(n) \/ ScrubRepair(n) \/ ScrubOrphans(n)
    \/ ScrubJudge \/ ScrubNoCopy \/ ScrubRepaired \/ ScrubScanned
    \/ ScrubEnd \/ ScrubAbort

\* A step of a request or a node; objects it replaces are not steady.
OtherStep ==
    /\ Step
    /\ steady' = steady \intersect {meta'[k].obj : k \in Keys}
    /\ UNCHANGED <<spc, scanVars, probeVars, report>>

ScrubNext ==
    \/ \E m \in Modes : ScrubBegin(m)
    \/ ScrubStep
    \/ ScrubCancel
    \/ OtherStep
    \/ ScrubCrash

ScrubSpec == ScrubInit /\ [][ScrubNext]_<<vars, scrubVars>>

\* What the periodic scrub must be for damage to be healed: deep and not dry.
Healing == {m \in Modes : m.deep /\ ~m.dryRun}

\* For storage without Drive nodes (NoDeadline = {}): every call of a pass returns,
\* and RunPeriodicScrub keeps starting passes of its own whatever passes the API is
\* asked for.  A store request that was given up may stay unexecuted for ever.
FairScrubSpec ==
    /\ ScrubSpec
    /\ WF_<<vars, scrubVars>>(ScrubStep)
    /\ SF_<<vars, scrubVars>>(\E m \in Healing : ScrubBegin(m))

----------------------------------------------------------------------------
\* A report without errors calls nothing an orphan that belongs to an object
\* which was there during the whole pass, whatever was uploaded, replaced or
\* deleted meanwhile (collectOrphans).
OrphansAreGarbage == ~errors => \A copy \in orphans : copy[1] \notin steady

\* A chunk of an object that was there during the whole pass is called lost only
\* if at least W things went wrong with the nodes, or in a pass that was cancelled:
\* no upload, delete or repair beside the pass raises a false alarm.
NoFalseAlarm == \A c \in lost : c[1] \in steady => faults >= W \/ cancelled

FullyReplicated(c) == \A n \in NodesOf(c) : Copy(c, n) \in Good

Gone(c) == \A n \in NodesOf(c) : Copy(c, n) \notin Good

\* "there are three copies right now": a chunk of an object that stays, with an
\* intact copy left, is brought back to every node it belongs on.
Replenished ==
    \A p \in Puts : \A c \in ChunksOf(p) :
        []<>(~Current(p) \/ Gone(c) \/ FullyReplicated(c))

=============================================================================
