-------------------------- MODULE LilioInvariant --------------------------
(***************************************************************************)
(* The inductive invariant behind the safety of the write path, which      *)
(* LilioProofs proves for every value of the constants.                    *)
(***************************************************************************)
EXTENDS Lilio

\* An object that no key names and that no step can commit any more.
Retired(o) ==
    /\ ~Current(o)
    /\ \/ o \in committed
       \/ pc[o] \in {"withdraw", "conflict", "failed", "crashed"} /\ o \notin inDoubt

\* What is committed under a key was uploaded completely by a put of that key,
\* which is past its commit; so was what may still be committed.
CommittedOK ==
    /\ \A k \in Keys : meta[k].obj # NoObject =>
          meta[k].obj \in committed /\ KeyOf[meta[k].obj] = k
    /\ \A p \in committed :
          /\ at[p] = Len(Placement[p])
          /\ pc[p] \in {"reclaim", "ok", "failed", "crashed"}
    /\ \A p \in Puts : Uploaded(p) => at[p] = Len(Placement[p])
    /\ \A r \in inDoubt : pc[r] \in {"failed", "crashed"}
    /\ \A p \in Puts \intersect inDoubt : at[p] = Len(Placement[p]) /\ p \notin committed

\* What a request saw is an object of its key that was committed before it.
BaseOK ==
    \A r \in Requests : base[r] # NoObject =>
        base[r] # r /\ base[r] \in committed /\ KeyOf[base[r]] = KeyOf[r]

\* Everything waiting to be deleted belongs to retired objects.
TodoOK == \A r \in Requests : \A replica \in todo[r] : Retired(replica[1])

\* Acknowledged copies of objects that are not retired are where they were put.
AckedOK ==
    \A replica \in acked :
        Retired(replica[1]) \/ replica \in Good \union damaged

\* Chunks counted as done have their write quorum.
QuorumOK ==
    \A p \in Puts : \A i \in Chunks(p) :
        i <= at[p] => Cardinality(AckedOn(p, i)) >= W

SafetyInv == CommittedOK /\ BaseOK /\ TodoOK /\ AckedOK /\ QuorumOK

\* No revision of a key is given out twice: etcd counts its writes store-wide, and
\* the other stores start over at 1 only after a delete.
UniqueRevisions == GlobalRevisions \/ Deletes = {}

\* A revision is 0 exactly when the key is empty, and names one version: a put
\* that still holds the current revision also holds the current object.  The last
\* part needs UniqueRevisions, and a bound on the revisions handed out so far.
RevisionOK ==
    /\ \A k \in Keys :
          /\ GlobalRevisions => meta[k].rev <= clock
          /\ meta[k].rev = 0 <=> meta[k].obj = NoObject
    /\ \A p \in Puts :
          /\ expected[p] <= IF GlobalRevisions THEN clock ELSE meta[KeyOf[p]].rev
          /\ expected[p] = 0 <=> base[p] = NoObject
          /\ expected[p] = meta[KeyOf[p]].rev => base[p] = meta[KeyOf[p]].obj

\* Every chunk of an upload is placed on at least as many nodes as it must reach.
EnoughNodes == \A p \in Puts : \A i \in Chunks(p) : Cardinality(Placement[p][i]) >= W

\* Only a request in deleteChunks has something to delete.
CleanupOK == \A r \in Requests : todo[r] # {} => pc[r] \in {"reclaim", "withdraw"}

\* What a put has sent so far, without a fault.
Answered(p, i, n) ==
    i <= at[p] \/ (pc[p] = "storing" /\ i = at[p] + 1 /\ n \notin sending[p])

\* As long as nothing failed, every node has what it was sent, and what is on a node
\* belongs to a current object, to an upload under way or to somebody's cleanup.
TidyOK ==
    faults = 0 =>
        /\ late = {} /\ damaged = {} /\ inDoubt = {}
        /\ \A p \in Puts :
              /\ pc[p] \notin {"failed", "crashed"}
              /\ pc[p] = "storing" => at[p] < Len(Placement[p])
        /\ \A p \in Puts : \A i \in Chunks(p) : \A n \in Placement[p][i] :
              Answered(p, i, n) => <<p, i, n>> \in acked
        /\ \A replica \in stored :
              \/ Current(replica[1])
              \/ pc[replica[1]] \in {"chunk", "storing", "commit"}
              \/ \E r \in Requests : replica \in todo[r]

=============================================================================
