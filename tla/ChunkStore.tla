----------------------------- MODULE ChunkStore -----------------------------
(***************************************************************************)
(* What a storage backend promises to its callers (StorageBackend): a set  *)
(* of chunks and calls on it.  A call takes effect once or never.  One     *)
(* that succeeds took effect while it was open.  One that fails may have   *)
(* taken effect or may do so later.                                        *)
(***************************************************************************)
CONSTANTS
    Requests,   \* calls
    Chunks,     \* chunk IDs
    OpOf,       \* "store", "retrieve", "has" or "delete"
    ChunkOf     \* the chunk a call is about

VARIABLES
    present,    \* the chunks stored
    status,     \* of a call, as its caller sees it
    phase       \* of a call, "none", "pending", "done" or "void"

storeVars == <<present, status, phase>>

\* A chunk that is not there cannot be read.
Enabled(r) == OpOf[r] \in {"retrieve", "has"} => ChunkOf[r] \in present

Effect(r) ==
    CASE OpOf[r] = "store"  -> present \union {ChunkOf[r]}
      [] OpOf[r] = "delete" -> present \ {ChunkOf[r]}
      [] OTHER              -> present

Init ==
    /\ present = {}
    /\ status = [r \in Requests |-> "idle"]
    /\ phase = [r \in Requests |-> "none"]

Invoke(r) ==
    /\ status[r] = "idle"
    /\ status' = [status EXCEPT ![r] = "open"]
    /\ phase' = [phase EXCEPT ![r] = "pending"]
    /\ UNCHANGED present

TakeEffect(r) ==
    /\ phase[r] = "pending" /\ Enabled(r)
    /\ present' = Effect(r)
    /\ phase' = [phase EXCEPT ![r] = "done"]
    /\ UNCHANGED status

\* It is certain that some calls will not take effect any more.
Abandon ==
    /\ phase' \in [Requests -> {"none", "pending", "done", "void"}]
    /\ \A r \in Requests :
        phase'[r] # phase[r] => phase[r] = "pending" /\ phase'[r] = "void"
    /\ UNCHANGED <<present, status>>

Succeed(r) ==
    /\ status[r] = "open" /\ phase[r] = "done"
    /\ status' = [status EXCEPT ![r] = "ok"]
    /\ UNCHANGED <<present, phase>>

Fail(r) ==
    /\ status[r] = "open"
    /\ status' = [status EXCEPT ![r] = "failed"]
    /\ UNCHANGED <<present, phase>>

Next ==
    \/ \E r \in Requests : Invoke(r) \/ TakeEffect(r) \/ Succeed(r) \/ Fail(r)
    \/ Abandon

Spec == Init /\ [][Next]_storeVars

=============================================================================
