----------------------------- MODULE RemoteNode -----------------------------
(***************************************************************************)
(* A storage node on another machine: the client in the server, which has  *)
(* a deadline for each call and remembers whether the node answered        *)
(* (remote.go), the connection between them, and the chunk server that     *)
(* executes requests on its local directory (chunkd/server.go).            *)
(*                                                                         *)
(* A request is answered once, by the handler that received it.  One that  *)
(* the client has given up may still be on its way or in its handler.      *)
(* Files are there or not: LocalDisk has the steps of a write.             *)
(***************************************************************************)
EXTENDS Naturals

CONSTANTS
    Calls,      \* calls of the client
    Chunks,     \* chunk IDs
    OpOf,       \* "store", "retrieve", "has" or "delete"
    ChunkOf,    \* the chunk a call is about
    Oversize,   \* chunks above the node's limit for a request
    MaxFailures \* bound on node failures, disk errors and deadlines that pass

ASSUME RemoteAssumption ==
    /\ OpOf \in [Calls -> {"store", "retrieve", "has", "delete"}]
    /\ ChunkOf \in [Calls -> Chunks]
    /\ MaxFailures \in Nat

VARIABLES
    files,      \* chunks in the node's directory
    running,    \* the chunk server runs
    call,       \* the client's side of a call
    wire,       \* requests on their way to the node
    handler,    \* requests whose handler has not executed yet
    reply,      \* the answer on its way to the client, or 0
    executed,   \* history: calls that had their effect
    reachable,  \* the client's flag (healthy)
    failures

remoteVars == <<files, running, call, wire, handler, reply, executed, reachable, failures>>

Mishap == failures < MaxFailures /\ failures' = failures + 1

\* Seeded fault: any answer is a success.
AcceptedAll(op) == {200, 201, 204, 404, 413, 500}

\* The statuses StoreChunk, RetrieveChunk, HasChunk and DeleteChunk take for
\* success.  A chunk that is already gone is not an error.
Accepted(op) ==
    CASE op = "store"  -> {200, 201}
      [] op = "delete" -> {200, 204, 404}
      [] OTHER         -> {200}

----------------------------------------------------------------------------
(* The client.                                                             *)

\* The request leaves, with the deadline withTimeout gives it.
Do(r) ==
    /\ call[r] = "idle"
    /\ call' = [call EXCEPT ![r] = "waiting"]
    /\ wire' = wire \union {r}
    /\ UNCHANGED <<files, running, handler, reply, executed, reachable, failures>>

\* An answer, whatever it says, shows that the node is alive.
Answered(r) ==
    /\ call[r] = "waiting" /\ reply[r] # 0
    /\ call' = [call EXCEPT ![r] = IF reply[r] \in Accepted(OpOf[r]) THEN "ok" ELSE "failed"]
    /\ reachable' = TRUE
    /\ UNCHANGED <<files, running, wire, handler, reply, executed, failures>>

\* The deadline passes while the body of the answer is read.
BodyCut(r) ==
    /\ call[r] = "waiting" /\ reply[r] = 200 /\ OpOf[r] = "retrieve" /\ Mishap
    /\ call' = [call EXCEPT ![r] = "failed"]
    /\ reachable' = TRUE
    /\ UNCHANGED <<files, running, wire, handler, reply, executed>>

\* The node has gone down since, or was down.
Broken(r) == ~running \/ (r \notin wire \union handler /\ reply[r] = 0)

\* The connection breaks, the deadline passes or the caller is cancelled.
GiveUp(r) ==
    /\ call[r] = "waiting"
    /\ \/ Broken(r) /\ UNCHANGED failures
       \/ Mishap
    /\ call' = [call EXCEPT ![r] = "failed"]
    /\ reachable' = FALSE
    /\ UNCHANGED <<files, running, wire, handler, reply, executed>>

\* A request whose client has gone never arrives, or not whole.
Lost(r) ==
    /\ call[r] = "failed" /\ r \in wire
    /\ wire' = wire \ {r}
    /\ UNCHANGED <<files, running, call, handler, reply, executed, reachable, failures>>

----------------------------------------------------------------------------
(* The chunk server.                                                       *)

Receive(r) ==
    /\ running /\ r \in wire
    /\ wire' = wire \ {r}
    /\ handler' = handler \union {r}
    /\ UNCHANGED <<files, running, call, reply, executed, reachable, failures>>

\* The handler ends; done tells whether the directory was used.
Finish(r, code, done) ==
    /\ handler' = handler \ {r}
    /\ reply' = [reply EXCEPT ![r] = code]
    /\ executed' = IF done THEN executed \union {r} ELSE executed
    /\ UNCHANGED <<running, call, wire, reachable>>

HandlePut(r) ==
    /\ r \in handler /\ OpOf[r] = "store"
    /\ \/ /\ ChunkOf[r] \in Oversize \/ call[r] = "failed"    \* the body broke off
          /\ Finish(r, 413, FALSE)
          /\ UNCHANGED <<files, failures>>
       \/ /\ ChunkOf[r] \notin Oversize
          /\ files' = files \union {ChunkOf[r]}
          /\ Finish(r, 201, TRUE)
          /\ UNCHANGED failures
       \/ /\ ChunkOf[r] \notin Oversize /\ Mishap
          /\ Finish(r, 500, FALSE)
          /\ UNCHANGED files

\* getChunk and headChunk.  Any error is a 404.
HandleGet(r) ==
    /\ r \in handler /\ OpOf[r] \in {"retrieve", "has"}
    /\ \/ /\ ChunkOf[r] \in files /\ Finish(r, 200, TRUE) /\ UNCHANGED failures
       \/ /\ ChunkOf[r] \notin files /\ Finish(r, 404, FALSE) /\ UNCHANGED failures
       \/ /\ Mishap /\ Finish(r, 404, FALSE)
    /\ UNCHANGED files

HandleDelete(r) ==
    /\ r \in handler /\ OpOf[r] = "delete"
    /\ \/ /\ files' = files \ {ChunkOf[r]}
          /\ Finish(r, 204, TRUE)
          /\ UNCHANGED failures
       \/ /\ Mishap
          /\ Finish(r, 500, FALSE)
          /\ UNCHANGED files

\* The node goes down with its connections; its directory stays.
NodeCrash ==
    /\ running /\ Mishap
    /\ running' = FALSE
    /\ wire' = {} /\ handler' = {}
    /\ UNCHANGED <<files, call, reply, executed, reachable>>

NodeRestart ==
    /\ ~running
    /\ running' = TRUE
    /\ wire' = {}
    /\ UNCHANGED <<files, call, handler, reply, executed, reachable, failures>>

RemoteInit ==
    /\ files = {} /\ running = TRUE
    /\ call = [r \in Calls |-> "idle"]
    /\ wire = {} /\ handler = {}
    /\ reply = [r \in Calls |-> 0]
    /\ executed = {}
    /\ reachable = TRUE
    /\ failures = 0

RemoteNext ==
    \/ \E r \in Calls :
        \/ Do(r) \/ Answered(r) \/ BodyCut(r) \/ GiveUp(r) \/ Lost(r)
        \/ Receive(r) \/ HandlePut(r) \/ HandleGet(r) \/ HandleDelete(r)
    \/ NodeCrash \/ NodeRestart

RemoteSpec == RemoteInit /\ [][RemoteNext]_remoteVars

----------------------------------------------------------------------------
(* The refinement.                                                         *)

Status == [r \in Calls |-> IF call[r] = "waiting" THEN "open" ELSE call[r]]

\* A call is pending as long as somebody may still execute it.
Phase ==
    [r \in Calls |->
        CASE call[r] = "idle"         -> "none"
          [] r \in wire \union handler -> "pending"
          [] r \in executed           -> "done"
          [] OTHER                    -> "void"]

Store == INSTANCE ChunkStore WITH Requests <- Calls,
    present <- files, status <- Status, phase <- Phase

\* A remote node is a storage backend: what the client reports as stored, read or
\* deleted was so on the node while the call was open, each call has its effect at
\* most once, and what it reports as failed may still happen ("a retry after a
\* timeout is indistinguishable from a first attempt", DeleteChunk).
ImplementsChunkStore == Store!Init /\ [][Store!Next]_Store!storeVars

=============================================================================
