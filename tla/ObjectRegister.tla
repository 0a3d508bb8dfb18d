--------------------------- MODULE ObjectRegister ---------------------------
(***************************************************************************)
(* What PutObject and DeleteObject promise their callers, without chunks,  *)
(* nodes or revisions: each key is a register.  A put that answers success *)
(* took effect exactly once, at one instant between call and answer, over  *)
(* the very version it had read; a put that answers "concurrent write" had *)
(* no effect at all; a delete left the key empty.  Any other error leaves  *)
(* the caller not knowing: the effect has happened, never will, or comes   *)
(* at some later instant, once, over the version the put had read or over  *)
(* whatever a delete finds.                                                *)
(***************************************************************************)
CONSTANTS Keys, Puts, Deletes, NoObject, KeyOf

VARIABLES
    value,  \* the version each key holds
    phase,  \* what each request has done and told its caller
    seen    \* the version a request read when it started

vars == <<value, phase, seen>>

Requests == Puts \union Deletes

Move(r, from, to) ==
    /\ phase[r] = from
    /\ phase' = [phase EXCEPT ![r] = to]

Init ==
    /\ value = [k \in Keys |-> NoObject]
    /\ phase = [r \in Requests |-> "idle"]
    /\ seen = [r \in Requests |-> NoObject]

\* The request sees the version stored now; a put may also fail to see it.
Start(p) ==
    /\ Move(p, "idle", "open")
    /\ seen' = [seen EXCEPT ![p] = value[KeyOf[p]]] \/ UNCHANGED seen
    /\ UNCHANGED value

StartDelete(d) ==
    /\ Move(d, "idle", IF value[KeyOf[d]] = NoObject THEN "ok" ELSE "open")
    /\ seen' = [seen EXCEPT ![d] = value[KeyOf[d]]]
    /\ UNCHANGED value

\* The instant a put takes effect.  The caller hears "ok" later, or an error.
Apply(p) ==
    /\ \/ Move(p, "open", "applied")
       \/ Move(p, "open", "unknown")
       \/ Move(p, "late", "unknown")
    /\ value[KeyOf[p]] = seen[p]
    /\ value' = [value EXCEPT ![KeyOf[p]] = p]
    /\ UNCHANGED seen

\* A conflict is told only to a put whose version is no longer there.
Refuse(p) ==
    /\ Move(p, "open", "refused")
    /\ value[KeyOf[p]] # seen[p]
    /\ UNCHANGED <<value, seen>>

Remove(d) ==
    /\ \/ Move(d, "open", "applied")
       \/ Move(d, "open", "unknown")
       \/ Move(d, "late", "unknown")
       \/ Move(d, "open", "ok") /\ value[KeyOf[d]] = NoObject
    /\ value' = [value EXCEPT ![KeyOf[d]] = NoObject]
    /\ UNCHANGED seen

Answer(r) ==
    /\ Move(r, "applied", "ok") \/ Move(r, "refused", "conflict")
    /\ UNCHANGED <<value, seen>>

\* An error, or a crash of several requests at once: effects already made stay, and
\* those of some that had not taken effect are late.
GiveUp ==
    /\ \E rs \in SUBSET Requests : \E delayed \in SUBSET rs :
          /\ \A r \in rs : phase[r] \in {"idle", "open", "applied", "refused"}
          /\ \A r \in delayed : phase[r] = "open"
          /\ phase' = [r \in Requests |-> IF r \in delayed THEN "late"
                                         ELSE IF r \in rs THEN "unknown" ELSE phase[r]]
    /\ UNCHANGED <<value, seen>>

\* A late effect that does not come any more.
Expire(r) ==
    /\ Move(r, "late", "unknown")
    /\ UNCHANGED <<value, seen>>

Next ==
    \/ \E p \in Puts : Start(p) \/ Apply(p) \/ Refuse(p)
    \/ \E d \in Deletes : StartDelete(d) \/ Remove(d)
    \/ \E r \in Requests : Answer(r) \/ Expire(r)
    \/ GiveUp

Spec == Init /\ [][Next]_vars

=============================================================================
