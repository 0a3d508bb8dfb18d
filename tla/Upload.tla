------------------------------- MODULE Upload -------------------------------
(***************************************************************************)
(* One upload in detail, where Lilio takes the placement and the chunks as *)
(* given: the body is cut into chunks whatever its reader returns          *)
(* (ChunkReader), each chunk is placed by the hash ring and sent to those  *)
(* of its backends that the coordinator believes reachable (AddBackend,    *)
(* RemoveBackend, Registry, RemoteBackend), and every one of them must     *)
(* reach the configured quorum.                                            *)
(***************************************************************************)
EXTENDS HashRing

CONSTANTS
    Configs,    \* configurations, [chunkSize, replicationFactor, n, w]
    Lengths,    \* lengths of bodies
    MaxFaults   \* bound on outages, hang-ups, failing calls and readers

ASSUME UploadAssumption ==
    /\ \A c \in Configs : c.chunkSize \in Nat
    /\ Lengths \subseteq Nat
    /\ MaxFaults \in Nat

VARIABLES
    config,     \* the configuration the server runs with
    registry,   \* Registry.backends
    up,         \* nodes that answer
    healthy,    \* RemoteBackend.healthy: nodes that answered the last call
    body,       \* bytes of the body, which are numbered
    consumed,   \* bytes taken from the reader
    buffer,     \* ChunkReader.buffer[:totalRead]
    done,       \* ChunkReader.done
    chunks,     \* chunkInfos: the bytes of each chunk and who acknowledged it
    upc,        \* where the upload is
    faults

clusterVars == <<config, registry, up, ringVars>>
readerVars == <<body, consumed, buffer, done>>
vars == <<clusterVars, healthy, readerVars, chunks, upc, faults>>

Fault == faults < MaxFaults /\ faults' = faults + 1

----------------------------------------------------------------------------
(* Configuration and backends.                                             *)

\* config.Validate and NewLilioInstance.
Valid(c) == c.replicationFactor >= 1 /\ c.n >= 1 /\ 1 <= c.w /\ c.w <= c.n

\* Backends come and go before the server takes requests.
AddBackend(node) ==
    /\ upc = "starting" /\ node \notin registry
    /\ registry' = registry \union {node}
    /\ AddNode(node)
    /\ healthy' = healthy \union {node}
    /\ UNCHANGED <<config, up, readerVars, chunks, upc, faults>>

RemoveBackend(node) ==
    /\ upc = "starting" /\ node \in registry
    /\ registry' = registry \ {node}
    /\ RemoveNode(node)
    /\ UNCHANGED <<config, up, healthy, readerVars, chunks, upc, faults>>

\* A call other than the upload's ends and leaves its verdict: a health check, a
\* read, a scrub that lists the chunks of every backend.
Probe(node) ==
    /\ node \in registry
    /\ healthy' = IF node \in up THEN healthy \union {node} ELSE healthy \ {node}
    /\ UNCHANGED <<clusterVars, readerVars, chunks, upc, faults>>

\* A client that hangs up during a call makes it look as if the node had failed.
HangUp(node) ==
    /\ node \in registry \intersect healthy /\ Fault
    /\ healthy' = healthy \ {node}
    /\ UNCHANGED <<clusterVars, readerVars, chunks, upc>>

NodeDown(node) ==
    /\ node \in up /\ Fault
    /\ up' = up \ {node}
    /\ UNCHANGED <<config, registry, ringVars, healthy, readerVars, chunks, upc>>

NodeUp(node) ==
    /\ node \notin up
    /\ up' = up \union {node}
    /\ UNCHANGED <<config, registry, ringVars, healthy, readerVars, chunks, upc, faults>>

\* Requests are taken from now on, and one of them is this upload.
BeginUpload ==
    /\ upc = "starting" /\ upc' = "reading"
    /\ body' \in Lengths
    /\ UNCHANGED <<clusterVars, healthy, consumed, buffer, done, chunks, faults>>

----------------------------------------------------------------------------
(* The body: NextChunk.                                                    *)

Bytes(first, count) == [i \in 1 .. count |-> first + i - 1]

\* Seeded fault: a short read is taken for the end of the chunk.
FullAfterAnyRead(buf) == Len(buf) >= 1

\* The loop of NextChunk is over.
Full(buf) == Len(buf) >= config.chunkSize

\* One Read of up to the free part of the buffer, with or without the error EOF
\* that belongs to the end of the body.
Read ==
    /\ upc = "reading" /\ ~done /\ ~Full(buffer)
    /\ \E n \in 0 .. Min({config.chunkSize - Len(buffer), body - consumed}), eof \in BOOLEAN :
          /\ eof => consumed + n = body
          /\ consumed' = consumed + n
          /\ buffer' = buffer \o Bytes(consumed + 1, n)
          /\ done' = eof
    /\ UNCHANGED <<clusterVars, healthy, body, chunks, upc, faults>>

\* The client's connection breaks, or its body is shorter than announced.
ReadFails ==
    /\ upc = "reading" /\ ~done /\ ~Full(buffer) /\ Fault
    /\ upc' = "failed"
    /\ UNCHANGED <<clusterVars, healthy, readerVars, chunks>>

\* NextChunk returns a chunk, or EOF if it got nothing.
NextChunk ==
    /\ upc = "reading" /\ (done \/ Full(buffer))
    /\ upc' = IF buffer = <<>> THEN "committed" ELSE "placing"
    /\ UNCHANGED <<clusterVars, healthy, readerVars, chunks, faults>>

----------------------------------------------------------------------------
(* The chunk: the body of PutObject's loop.                                *)

OnlineBackends(names) == Range(names) \intersect registry \intersect healthy

Quorum(acked) == Cardinality(acked) >= config.w

\* Every target is sent the chunk; nodes that are down do not answer, others may
\* still refuse.  The buffer is used again for the next chunk.
StoreChunk(position) ==
    /\ upc = "placing"
    /\ LET intended == GetNodes(position, config.replicationFactor)
           target == OnlineBackends(intended)
       IN  \E acked \in SUBSET (target \intersect up), silent \in SUBSET target :
              /\ silent \intersect acked = {} /\ target \ up \subseteq silent
              /\ IF acked = target \intersect up THEN silent = target \ up /\ UNCHANGED faults
                                                 ELSE Fault
              /\ healthy' = (healthy \ silent) \union (target \ silent)
              /\ \/ /\ target # {} /\ Quorum(acked)
                    /\ chunks' = Append(chunks, [bytes |-> buffer, acked |-> acked,
                                                 intended |-> intended])
                    /\ buffer' = <<>>
                    /\ upc' = "reading"
                 \/ /\ target = {} \/ ~Quorum(acked)
                    /\ upc' = "failed"
                    /\ UNCHANGED <<chunks, buffer>>
    /\ UNCHANGED <<clusterVars, body, consumed, done>>

----------------------------------------------------------------------------
Init ==
    /\ config \in {c \in Configs : Valid(c)}
    /\ registry = {} /\ up = Nodes /\ healthy = {} /\ RingInit
    /\ body = 0 /\ consumed = 0 /\ buffer = <<>> /\ done = FALSE
    /\ chunks = <<>>
    /\ upc = "starting"
    /\ faults = 0

UploadStep == BeginUpload \/ Read \/ ReadFails \/ NextChunk \/ \E position \in Positions : StoreChunk(position)

Next ==
    \/ UploadStep
    \/ \E node \in Nodes :
          \/ AddBackend(node) \/ RemoveBackend(node)
          \/ Probe(node) \/ HangUp(node) \/ NodeDown(node) \/ NodeUp(node)

Spec == Init /\ [][Next]_vars

----------------------------------------------------------------------------
\* A chunk holds its part of the body, all chunks but the last are full, and W of the
\* nodes that its metadata names have it.
ChunkOK(i) ==
    LET start == (i - 1) * config.chunkSize
    IN  /\ start < body
        /\ chunks[i].bytes = Bytes(start + 1, Min({config.chunkSize, body - start}))
        /\ chunks[i].acked \subseteq Range(chunks[i].intended)
        /\ Quorum(chunks[i].acked)

\* A committed object is the whole body, in order, cut into full chunks and a rest,
\* and W of the nodes its metadata names hold each of them.
WholeBody ==
    upc = "committed" =>
        /\ body <= Len(chunks) * config.chunkSize
        /\ \A i \in DOMAIN chunks : ChunkOK(i)

\* With chunks of no bytes, which nothing refuses, NextChunk ends every body at once.
PositiveChunks == \A c \in Configs : c.chunkSize >= 1

=============================================================================
