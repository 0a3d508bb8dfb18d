--------------------------- MODULE LilioRegister ---------------------------
(***************************************************************************)
(* The write path implements the register: the value of a key is the       *)
(* object its metadata names, so a put takes effect when CompareAndSave    *)
(* commits and a delete when DeleteObjectMetadata does, be it after the    *)
(* caller was told an error.  Uploading, reclaiming and node failures are  *)
(* invisible to callers.                                                   *)
(***************************************************************************)
EXTENDS LilioInvariant

\* What the caller of a request knows, from where its handler is.
PhaseOf(label) ==
    CASE label \in {"chunk", "storing", "commit", "removing"} -> "open"
      [] label = "reclaim"                                    -> "applied"
      [] label = "withdraw"                                   -> "refused"
      [] label \in {"failed", "crashed"}                      -> "unknown"
      [] OTHER                                                -> label

\* Its effect may be still to come.
Phases == [r \in Requests |-> IF r \in inDoubt THEN "late" ELSE PhaseOf(pc[r])]

Register == INSTANCE ObjectRegister WITH
    value <- [k \in Keys |-> meta[k].obj],
    phase <- Phases,
    seen  <- base

\* PutObject and DeleteObject are linearizable: every step of the write path is
\* a step of the register or leaves it alone (CompareAndSaveObjectMetadata is
\* the commit point of a put, DeleteObjectMetadata of a delete).
ImplementsRegister == Register!Spec

=============================================================================
