---------------------------- MODULE LilioProofs ----------------------------
(***************************************************************************)
(* Proofs about the write path, for every set of keys, nodes and requests, *)
(* every placement, both revision schemes and every number of faults.      *)
(***************************************************************************)
EXTENDS LilioRegister, FiniteSetTheorems, FunctionTheorems, TLAPS

USE RequestAssumption, QuorumAssumption, BoundAssumption DEF Requests

(***************************************************************************)
(* Replicas.                                                               *)
(***************************************************************************)

\* A replica of an object carries that object's ID (chunkId is built from it).
LEMMA ReplicaOwner ==
    ASSUME NEW o \in Puts \union {NoObject}, NEW replica \in ReplicasOf(o)
    PROVE  replica[1] = o /\ o \in Puts
BY DEF ReplicasOf

\* StorageNodes of chunk i lists exactly Placement[p][i].
LEMMA ReplicaOfChunk ==
    ASSUME NEW p \in Puts, NEW i \in Chunks(p), NEW n \in Placement[p][i]
    PROVE  <<p, i, n>> \in ReplicasOf(p)
BY DEF ReplicasOf

\* StorageNodes of an object, all chunks together, is a set of replicas.
LEMMA ReplicasOfIsReplicas ==
    ASSUME NEW o \in Puts \union {NoObject}
    PROVE  ReplicasOf(o) \subseteq Replicas
BY DEF ReplicasOf, Replicas

\* After `at` finished chunks, the next one is a chunk of the object, on known nodes.
LEMMA ChunkIndex ==
    ASSUME NEW p \in Puts
    PROVE  /\ Len(Placement[p]) \in Nat
           /\ \A i \in Nat : i < Len(Placement[p]) =>
                 i + 1 \in Chunks(p) /\ Placement[p][i + 1] \subseteq Nodes
           /\ \A i \in Chunks(p) : i \in Nat /\ i >= 1 /\ i <= Len(Placement[p])
BY DEF Chunks

(***************************************************************************)
(* Type correctness.                                                       *)
(***************************************************************************)

\* The fan-out writes to intended nodes only: what a put is storing is a
\* replica its ChunkInfo will name.
FanOutOK ==
    \A p \in Puts : \A n \in sending[p] :
        /\ pc[p] = "storing"
        /\ at[p] < Len(Placement[p])
        /\ n \in Placement[p][at[p] + 1]

TypeInv == TypeOK /\ FanOutOK

\* Every goroutine of the fan-out sends to a replica of that chunk.
LEMMA SendingReplica ==
    ASSUME TypeInv, NEW p \in Puts, NEW n \in sending[p]
    PROVE  <<p, at[p] + 1, n>> \in Replicas
<1>1. at[p] + 1 \in Chunks(p) /\ n \in Placement[p][at[p] + 1]
  BY ChunkIndex DEF TypeInv, TypeOK, FanOutOK
<1>2. QED
  BY <1>1, ReplicaOfChunk, ReplicasOfIsReplicas

\* Before the first request the types hold and nothing is being sent.
LEMMA TypeInit == Init => TypeInv
BY DEF Init, TypeInv, TypeOK, FanOutOK, Labels, Finished

\* What committing or deleting metadata keeps.
LEMMA StoreTypes ==
    ASSUME TypeOK
    PROVE  /\ \A r \in Requests : KeyOf[r] \in Keys
           /\ \A r \in Requests : meta[KeyOf[r]].obj \in Puts \union {NoObject}
           /\ \A r \in Requests : meta[KeyOf[r]].rev \in Nat
           /\ \A p \in Puts : Install(p) =>
                 /\ meta' \in [Keys -> [obj : Puts \union {NoObject}, rev : Nat]]
                 /\ clock' \in Nat /\ committed' \subseteq Puts
           /\ \A k \in Keys : Uninstall(k) =>
                 /\ meta' \in [Keys -> [obj : Puts \union {NoObject}, rev : Nat]]
                 /\ clock' \in Nat /\ committed' \subseteq Puts
<1>1. \A r \in Requests : KeyOf[r] \in Keys
  OBVIOUS
<1>2. \A k \in Keys : meta[k].obj \in Puts \union {NoObject} /\ meta[k].rev \in Nat
  BY DEF TypeOK
<1>3. ASSUME Tick PROVE clock' \in Nat
  BY <1>3 DEF Tick, TypeOK
<1>4. ASSUME NEW p \in Puts, Install(p)
      PROVE  /\ meta' \in [Keys -> [obj : Puts \union {NoObject}, rev : Nat]]
             /\ clock' \in Nat /\ committed' \subseteq Puts
  <2>1. NextRevision(KeyOf[p]) \in Nat
    BY <1>1, <1>2 DEF NextRevision, Revision, TypeOK
  <2>2. [obj |-> p, rev |-> NextRevision(KeyOf[p])]
            \in [obj : Puts \union {NoObject}, rev : Nat]
    BY <2>1
  <2>3. QED
    BY <1>3, <1>4, <2>2 DEF Install, TypeOK
<1>5. ASSUME NEW k \in Keys, Uninstall(k)
      PROVE  /\ meta' \in [Keys -> [obj : Puts \union {NoObject}, rev : Nat]]
             /\ clock' \in Nat /\ committed' \subseteq Puts
  <2>1. [obj |-> NoObject, rev |-> 0] \in [obj : Puts \union {NoObject}, rev : Nat]
    OBVIOUS
  <2>2. QED
    BY <1>3, <1>5, <2>1 DEF Uninstall, TypeOK
<1>6. QED
  BY <1>1, <1>2, <1>4, <1>5

\* Every handler step keeps the types, and sends only to nodes of the chunk.
LEMMA TypeStep == TypeInv /\ [Next]_vars => TypeInv'
<1> SUFFICES ASSUME TypeInv, [Next]_vars PROVE TypeInv'
  OBVIOUS
<1> USE DEF TypeInv, TypeOK, FanOutOK, Labels, Finished, Goto, Fault,
            storeVars, metaVars, nodeVars, reqVars
<1>1. ASSUME NEW p \in Puts, PutBegin(p) PROVE TypeInv'
  <2>1. base' \in [Requests -> Puts \union {NoObject}] /\ expected' \in [Puts -> Nat]
    <3>1. \/ UNCHANGED <<base, expected>>
          \/ /\ base' = [base EXCEPT ![p] = meta[KeyOf[p]].obj]
             /\ expected' = [expected EXCEPT ![p] = Revision(KeyOf[p])]
      BY ONLY <1>1 DEF PutBegin
    <3>2. QED
      BY <3>1, StoreTypes DEF Revision
  <2>2. pc' \in [Requests -> Labels] /\ faults' \in Nat
    <3>1. pc' = [pc EXCEPT ![p] = "chunk"] \/ pc' = [pc EXCEPT ![p] = "failed"]
      BY ONLY <1>1 DEF PutBegin, Goto
    <3>2. faults' = faults \/ faults' = faults + 1
      BY ONLY <1>1 DEF PutBegin, Fault
    <3>3. pc' \in [Requests -> Labels]
      BY <3>1
    <3>4. faults' \in Nat
      BY <3>2
    <3>5. QED
      BY <3>3, <3>4
  <2>3. TypeOK'
    BY <1>1, <2>1, <2>2 DEF PutBegin
  <2>4. FanOutOK'
    BY <1>1 DEF PutBegin
  <2>5. QED
    BY <2>3, <2>4
<1>2. ASSUME NEW p \in Puts, PutFanOut(p) PROVE TypeInv'
  <2>1. Placement[p][at[p] + 1] \subseteq Nodes
    BY <1>2, ChunkIndex DEF PutFanOut
  <2>2. pc' \in [Requests -> Labels] /\ faults' \in Nat
    <3>1. \/ pc' = [pc EXCEPT ![p] = "failed"]
          \/ pc' = [pc EXCEPT ![p] = "storing"]
      BY <1>2 DEF PutFanOut
    <3>2. faults' \in Nat
      BY <1>2 DEF PutFanOut
    <3>3. QED
      BY <3>1, <3>2
  <2>3. sending' \in [Puts -> SUBSET Nodes]
    BY <1>2, <2>1 DEF PutFanOut
  <2>4. TypeOK'
    BY <1>2, <2>2, <2>3 DEF PutFanOut
  <2>5. FanOutOK'
    BY <1>2 DEF PutFanOut
  <2>6. QED
    BY <2>4, <2>5
<1>3. ASSUME NEW p \in Puts, PutBodyError(p) PROVE TypeInv'
  BY <1>3 DEF PutBodyError
<1>3a. ASSUME NEW p \in Puts, PutReadEnd(p) PROVE TypeInv'
  BY <1>3a DEF PutReadEnd
<1>4. ASSUME NEW p \in Puts, NEW n \in Nodes, PutStore(p, n) PROVE TypeInv'
  <2>1. <<p, at[p] + 1, n>> \in Replicas
    BY <1>4, SendingReplica DEF PutStore
  <2>2. /\ stored' \subseteq Replicas /\ corrupt' \subseteq stored'
        /\ late' \subseteq Replicas /\ acked' \subseteq Replicas
        /\ faults' \in Nat
    <3>1. /\ stored' \subseteq Replicas
          /\ corrupt' \subseteq stored'
      BY <1>4, <2>1 DEF PutStore, Write
    <3>2. late' \subseteq Replicas /\ acked' \subseteq Replicas
      BY <1>4, <2>1 DEF PutStore
    <3>3. faults' \in Nat
      BY <1>4 DEF PutStore
    <3>4. QED
      BY <3>1, <3>2, <3>3
  <2>3. sending' \in [Puts -> SUBSET Nodes]
    BY <1>4 DEF PutStore
  <2>4. TypeOK'
    BY <1>4, <2>2, <2>3 DEF PutStore
  <2>5. FanOutOK'
    BY <1>4 DEF PutStore
  <2>6. QED
    BY <2>4, <2>5
<1>5. ASSUME NEW p \in Puts, PutQuorum(p) PROVE TypeInv'
  <2>1. pc' \in [Requests -> Labels]
    <3>1. \/ pc' = [pc EXCEPT ![p] = "failed"]
          \/ pc' = [pc EXCEPT ![p] = "chunk"]
      BY <1>5 DEF PutQuorum
    <3>2. faults' \in Nat
      BY <1>5 DEF PutQuorum
    <3>3. QED
      BY <3>1, <3>2
  <2>2. at' \in [Puts -> Nat]
    <3>1. at' = at \/ at' = [at EXCEPT ![p] = @ + 1]
      BY <1>5 DEF PutQuorum
    <3>2. at \in [Puts -> Nat]
      OBVIOUS
    <3>3. QED
      BY ONLY <3>1, <3>2
  <2>3. TypeOK'
    BY <1>5, <2>1, <2>2 DEF PutQuorum
  <2>4. FanOutOK'
    BY <1>5 DEF PutQuorum
  <2>5. QED
    BY <2>3, <2>4
<1>6. ASSUME NEW p \in Puts, PutCommit(p) PROVE TypeInv'
  <2>1. ReplicasOf(base[p]) \subseteq Replicas
    BY ReplicasOfIsReplicas
  <2>2. QED
    BY <1>6, <2>1, StoreTypes DEF PutCommit, Uploaded
<1>7. ASSUME NEW p \in Puts, PutConflict(p) PROVE TypeInv'
  <2>1. ReplicasOf(p) \subseteq Replicas
    BY ReplicasOfIsReplicas
  <2>2. QED
    BY <1>7, <2>1 DEF PutConflict, Uploaded
<1>8. ASSUME NEW p \in Puts, PutCommitError(p) PROVE TypeInv'
  <2>1. /\ meta' \in [Keys -> [obj : Puts \union {NoObject}, rev : Nat]]
        /\ clock' \in Nat /\ committed' \subseteq Puts
    BY <1>8, StoreTypes DEF PutCommitError, CommitFails
  <2>2. inDoubt' \subseteq Requests /\ faults' \in Nat
    BY <1>8 DEF PutCommitError, CommitFails
  <2>3. QED
    BY <1>8, <2>1, <2>2 DEF PutCommitError, Uploaded
<1>9. ASSUME NEW d \in Deletes, DeleteBegin(d) PROVE TypeInv'
  <2>1. pc' \in [Requests -> Labels] /\ faults' \in Nat
    <3>1. \/ pc' = [pc EXCEPT ![d] = "ok"]
          \/ pc' = [pc EXCEPT ![d] = "removing"]
          \/ pc' = [pc EXCEPT ![d] = "failed"]
      BY <1>9 DEF DeleteBegin
    <3>2. faults' \in Nat
      BY <1>9 DEF DeleteBegin
    <3>3. QED
      BY <3>1, <3>2
  <2>2. base' \in [Requests -> Puts \union {NoObject}]
    BY <1>9, StoreTypes DEF DeleteBegin
  <2>3. TypeOK'
    BY <1>9, <2>1, <2>2 DEF DeleteBegin
  <2>4. FanOutOK'
    BY <1>9 DEF DeleteBegin
  <2>5. QED
    BY <2>3, <2>4
<1>10. ASSUME NEW d \in Deletes, DeleteCommit(d) PROVE TypeInv'
  <2>1. ReplicasOf(base[d]) \subseteq Replicas
    BY ReplicasOfIsReplicas
  <2>2. pc' \in [Requests -> Labels]
    BY <1>10 DEF DeleteCommit
  <2>3. todo' \in [Requests -> SUBSET Replicas]
    BY <1>10, <2>1 DEF DeleteCommit
  <2>4. TypeOK'
    BY <1>10, <2>2, <2>3, StoreTypes DEF DeleteCommit
  <2>5. FanOutOK'
    BY <1>10 DEF DeleteCommit
  <2>6. QED
    BY <2>4, <2>5
<1>11. ASSUME NEW d \in Deletes, DeleteCommitError(d) PROVE TypeInv'
  <2>1. /\ meta' \in [Keys -> [obj : Puts \union {NoObject}, rev : Nat]]
        /\ clock' \in Nat /\ committed' \subseteq Puts
    BY <1>11, StoreTypes DEF DeleteCommitError
  <2>2. inDoubt' \subseteq Requests /\ faults' \in Nat
    BY <1>11 DEF DeleteCommitError
  <2>3. QED
    BY <1>11, <2>1, <2>2 DEF DeleteCommitError
<1>12. ASSUME NEW r \in Requests, NEW replica \in todo[r], Reclaim(r, replica)
       PROVE  TypeInv'
  BY <1>12 DEF Reclaim, Erase
<1>13. ASSUME NEW r \in Requests, Respond(r) PROVE TypeInv'
  BY <1>13 DEF Respond
<1>14. ASSUME NEW replica \in Replicas,
              LateStore(replica) \/ Corrupt(replica) \/ Lose(replica)
       PROVE  TypeInv'
  BY <1>14 DEF LateStore, Corrupt, Lose, Write, Erase, Good
<1>14a. ASSUME NEW p \in Puts, LateCommit(p) PROVE TypeInv'
  <2>1. /\ meta' \in [Keys -> [obj : Puts \union {NoObject}, rev : Nat]]
        /\ clock' \in Nat /\ committed' \subseteq Puts
    BY <1>14a, StoreTypes DEF LateCommit
  <2>2. QED
    BY <1>14a, <2>1 DEF LateCommit
<1>14b. ASSUME NEW d \in Deletes, LateRemove(d) PROVE TypeInv'
  <2>1. /\ meta' \in [Keys -> [obj : Puts \union {NoObject}, rev : Nat]]
        /\ clock' \in Nat /\ committed' \subseteq Puts
    BY <1>14b, StoreTypes DEF LateRemove
  <2>2. QED
    BY <1>14b, <2>1 DEF LateRemove
<1>15. ASSUME Crash PROVE TypeInv'
  <2>1. InFlight \subseteq Replicas
    BY SendingReplica DEF InFlight
  <2>2. inDoubt' \subseteq Requests
    BY <1>15 DEF Crash, Committing
  <2>3. QED
    BY <1>15, <2>1, <2>2 DEF Crash, Live
<1>16. CASE UNCHANGED vars
  BY <1>16 DEF vars
<1>17. QED
  BY <1>1, <1>2, <1>3, <1>3a, <1>4, <1>5, <1>6, <1>7, <1>8, <1>9, <1>10, <1>11, <1>12,
     <1>13, <1>14, <1>14a, <1>14b, <1>15, <1>16
     DEF Next, Step, PutStep, PutBody, PutDecide, DeleteStep, CleanupStep, NodeStep

\* Every variable keeps its type, and a corrupt copy is always a stored one.
THEOREM TypeCorrect == Spec => []TypeOK
<1>1. TypeInv => TypeOK
  BY DEF TypeInv
<1>2. QED
  BY <1>1, TypeInit, TypeStep, PTL DEF Spec

(***************************************************************************)
(* The shape of a step: what it may do to the metadata and to the control  *)
(* state of the requests.                                                  *)
(***************************************************************************)

\* A request moves forward; past its commit or its conflict it only ends.
Forward ==
    \A r \in Requests :
        \/ pc'[r] = pc[r]
        \/ pc[r] \in {"idle", "chunk", "storing", "commit", "removing"}
        \/ pc[r] = "reclaim" /\ pc'[r] \in {"ok", "crashed"}
        \/ pc[r] = "withdraw" /\ pc'[r] \in {"conflict", "crashed"}

\* A commit is reached by a complete upload, and in doubt once it was given up.
TowardsCommit ==
    /\ \A p \in Puts : pc'[p] = "commit" =>
          /\ at'[p] = at[p]
          /\ pc[p] = "commit" \/ at[p] = Len(Placement[p])
    /\ \A r \in inDoubt' \ inDoubt :
          /\ pc[r] = IF r \in Puts THEN "commit" ELSE "removing"
          /\ pc'[r] \in {"failed", "crashed"}

\* Only a request that begins looks at the metadata.
Looks(r) ==
    /\ pc[r] = "idle"
    /\ base' = [base EXCEPT ![r] = meta[KeyOf[r]].obj]
    /\ expected' = IF r \in Puts THEN [expected EXCEPT ![r] = Revision(KeyOf[r])]
                   ELSE expected

\* A step that leaves the metadata alone.
QuietStep ==
    /\ UNCHANGED metaVars
    /\ Forward
    /\ TowardsCommit
    /\ \A p \in Puts : at'[p] # at[p] => pc[p] = "storing"
    /\ UNCHANGED <<base, expected>> \/ \E r \in Requests : Looks(r)

\* A put commits for its handler, or late, when that has long ended.
CommitStep(p) ==
    /\ \/ Uploaded(p) /\ (Goto(p, "reclaim") \/ Goto(p, "failed")) /\ UNCHANGED inDoubt
       \/ p \in inDoubt /\ UNCHANGED pc /\ inDoubt' = inDoubt \ {p}
    /\ expected[p] = Revision(KeyOf[p])
    /\ Install(p)
    /\ UNCHANGED <<base, expected, at>>

RemoveStep(d) ==
    /\ \/ pc[d] = "removing" /\ (Goto(d, "reclaim") \/ Goto(d, "failed")) /\ UNCHANGED inDoubt
       \/ d \in inDoubt /\ UNCHANGED pc /\ inDoubt' = inDoubt \ {d}
    /\ Uninstall(KeyOf[d])
    /\ UNCHANGED <<base, expected, at>>

\* Every step leaves metadata alone, commits one put, or removes one key.
LEMMA StepShape ==
    ASSUME TypeInv, [Next]_vars
    PROVE  \/ QuietStep
           \/ \E p \in Puts : CommitStep(p)
           \/ \E d \in Deletes : RemoveStep(d)
<1> DEFINE Shape == \/ QuietStep
                    \/ \E p \in Puts : CommitStep(p)
                    \/ \E d \in Deletes : RemoveStep(d)
<1> USE DEF TypeInv, TypeOK, Goto, storeVars, metaVars, nodeVars, reqVars
<1>1. ASSUME NEW p \in Puts, PutBegin(p) PROVE QuietStep
  <2>1. UNCHANGED <<base, expected>> \/ Looks(p)
    BY <1>1 DEF PutBegin, Looks
  <2>2. QED
    BY <1>1, <2>1 DEF PutBegin, QuietStep, Forward, TowardsCommit
<1>2. ASSUME NEW p \in Puts, PutFanOut(p) PROVE QuietStep
  BY <1>2 DEF PutFanOut, QuietStep, Forward, TowardsCommit
<1>3. ASSUME NEW p \in Puts, PutBodyError(p) PROVE QuietStep
  BY <1>3 DEF PutBodyError, QuietStep, Forward, TowardsCommit
<1>3a. ASSUME NEW p \in Puts, PutReadEnd(p) PROVE QuietStep
  BY <1>3a DEF PutReadEnd, QuietStep, Forward, TowardsCommit
<1>4. ASSUME NEW p \in Puts, NEW n \in Nodes, PutStore(p, n) PROVE QuietStep
  BY <1>4 DEF PutStore, QuietStep, Forward, TowardsCommit
<1>5. ASSUME NEW p \in Puts, PutQuorum(p) PROVE QuietStep
  BY <1>5 DEF PutQuorum, QuietStep, Forward, TowardsCommit
<1>6. ASSUME NEW p \in Puts, PutCommit(p) PROVE CommitStep(p)
  BY <1>6 DEF PutCommit, CommitStep
<1>7. ASSUME NEW p \in Puts, PutConflict(p) PROVE QuietStep
  BY <1>7 DEF PutConflict, Uploaded, QuietStep, Forward, TowardsCommit
<1>8. ASSUME NEW p \in Puts, PutCommitError(p) PROVE QuietStep \/ CommitStep(p)
  <2>1. CASE UNCHANGED metaVars /\ inDoubt' \subseteq inDoubt \union {p}
    BY <1>8, <2>1 DEF PutCommitError, Uploaded, QuietStep, Forward, TowardsCommit
  <2>2. CASE expected[p] = Revision(KeyOf[p]) /\ Install(p) /\ UNCHANGED inDoubt
    BY <1>8, <2>2 DEF PutCommitError, CommitStep
  <2>3. QED
    BY <1>8, <2>1, <2>2 DEF PutCommitError, CommitFails
<1>9. ASSUME NEW d \in Deletes, DeleteBegin(d) PROVE QuietStep
  <2>1. UNCHANGED <<base, expected>> \/ Looks(d)
    BY <1>9 DEF DeleteBegin, Looks
  <2>2. QED
    BY <1>9, <2>1 DEF DeleteBegin, QuietStep, Forward, TowardsCommit
<1>10. ASSUME NEW d \in Deletes, DeleteCommit(d) PROVE QuietStep \/ RemoveStep(d)
  <2>1. CASE meta[KeyOf[d]].obj = NoObject
    BY <1>10, <2>1 DEF DeleteCommit, QuietStep, Forward, TowardsCommit
  <2>2. CASE meta[KeyOf[d]].obj # NoObject
    BY <1>10, <2>2 DEF DeleteCommit, RemoveStep
  <2>3. QED
    BY <2>1, <2>2
<1>11. ASSUME NEW d \in Deletes, DeleteCommitError(d) PROVE QuietStep \/ RemoveStep(d)
  <2>1. CASE UNCHANGED metaVars /\ inDoubt' \subseteq inDoubt \union {d}
    BY <1>11, <2>1 DEF DeleteCommitError, QuietStep, Forward, TowardsCommit
  <2>2. CASE Uninstall(KeyOf[d]) /\ UNCHANGED inDoubt
    BY <1>11, <2>2 DEF DeleteCommitError, RemoveStep
  <2>3. QED
    BY <1>11, <2>1, <2>2 DEF DeleteCommitError
<1>12. ASSUME NEW r \in Requests, NEW replica \in todo[r], Reclaim(r, replica)
       PROVE  QuietStep
  BY <1>12 DEF Reclaim, QuietStep, Forward, TowardsCommit
<1>13. ASSUME NEW r \in Requests, Respond(r) PROVE QuietStep
  <2>1. \A q \in Requests :
           q # r => pc'[q] = pc[q]
    BY <1>13 DEF Respond
  <2>2. \/ pc[r] = "reclaim" /\ pc'[r] = "ok"
        \/ pc[r] = "withdraw" /\ pc'[r] = "conflict"
    BY <1>13 DEF Respond
  <2>3. QED
    BY <1>13, <2>1, <2>2 DEF Respond, QuietStep, Forward, TowardsCommit
<1>14. ASSUME NEW replica \in Replicas,
              LateStore(replica) \/ Corrupt(replica) \/ Lose(replica)
       PROVE  QuietStep
  BY <1>14 DEF LateStore, Corrupt, Lose, QuietStep, Forward, TowardsCommit
<1>14a. ASSUME NEW p \in Puts, LateCommit(p) PROVE QuietStep \/ CommitStep(p)
  BY <1>14a DEF LateCommit, QuietStep, Forward, TowardsCommit, CommitStep
<1>14b. ASSUME NEW d \in Deletes, LateRemove(d) PROVE QuietStep \/ RemoveStep(d)
  BY <1>14b DEF LateRemove, QuietStep, Forward, TowardsCommit, RemoveStep
<1>15. ASSUME Crash PROVE QuietStep
  BY <1>15 DEF Crash, Committing, Live, Finished, Labels, QuietStep, Forward, TowardsCommit
<1>16. CASE UNCHANGED vars
  BY <1>16 DEF vars, QuietStep, Forward, TowardsCommit
<1>17. QED
  BY <1>1, <1>2, <1>3, <1>3a, <1>4, <1>5, <1>6, <1>7, <1>8, <1>9, <1>10, <1>11, <1>12,
     <1>13, <1>14, <1>14a, <1>14b, <1>15, <1>16
     DEF Next, Step, PutStep, PutBody, PutDecide, DeleteStep, CleanupStep, NodeStep

(***************************************************************************)
(* Committed objects, and the ones that are gone for good.                 *)
(***************************************************************************)

\* Committing p changes one key, and p was never committed before.
LEMMA CommitEffect ==
    ASSUME TypeInv, CommittedOK, NEW p \in Puts, CommitStep(p)
    PROVE  /\ p \notin committed /\ committed' = committed \union {p}
           /\ meta'[KeyOf[p]].obj = p
           /\ \A k \in Keys : k # KeyOf[p] => meta'[k] = meta[k]
           /\ pc'[p] \in {"reclaim", "failed", "crashed"}
           /\ inDoubt' = inDoubt \ {p}
           /\ \A r \in Requests : r # p => pc'[r] = pc[r]
           /\ at[p] = Len(Placement[p])
BY DEF TypeInv, TypeOK, CommittedOK, CommitStep, Uploaded, Install, Goto

\* DeleteObjectMetadata empties one key and moves one request.
LEMMA RemoveEffect ==
    ASSUME TypeInv, NEW d \in Deletes, RemoveStep(d)
    PROVE  /\ meta'[KeyOf[d]].obj = NoObject
           /\ \A k \in Keys : k # KeyOf[d] => meta'[k] = meta[k]
           /\ \A r \in Requests : r # d => pc'[r] = pc[r]
           /\ committed' = committed
           /\ inDoubt' \subseteq inDoubt
BY DEF TypeInv, TypeOK, RemoveStep, Uninstall, Goto

\* What is committed stays so, with all its chunks, and the metadata names only it.
LEMMA CommittedStep ==
    ASSUME TypeInv, CommittedOK, [Next]_vars
    PROVE  CommittedOK'
<1> USE DEF CommittedOK, TypeInv, TypeOK
<1>1. CASE QuietStep
  <2>1. ASSUME NEW p \in Puts \intersect inDoubt'
        PROVE  at'[p] = Len(Placement[p]) /\ p \notin committed'
    <3>1. CASE p \in inDoubt
      <4>1. pc[p] # "storing" /\ at[p] = Len(Placement[p]) /\ p \notin committed
        BY <3>1
      <4>2. QED
        BY <1>1, <4>1 DEF QuietStep, metaVars
    <3>2. CASE p \notin inDoubt
      <4>1. pc[p] = "commit"
        BY <1>1, <2>1, <3>2 DEF QuietStep, TowardsCommit
      <4>2. at[p] = Len(Placement[p]) /\ p \notin committed
        BY <4>1 DEF Uploaded
      <4>3. QED
        BY <1>1, <4>1, <4>2 DEF QuietStep, metaVars
    <3>3. QED
      BY <3>1, <3>2
  <2>2. ASSUME NEW r \in inDoubt' PROVE pc'[r] \in {"failed", "crashed"}
    BY <1>1, <2>2 DEF QuietStep, Forward, TowardsCommit
  <2>3. \A p \in Puts : Uploaded(p)' => at'[p] = Len(Placement[p])
    BY <1>1 DEF QuietStep, TowardsCommit, Uploaded
  <2>4. QED
    BY <1>1, <2>1, <2>2, <2>3 DEF QuietStep, Forward, metaVars
<1>2. ASSUME NEW p \in Puts, CommitStep(p) PROVE CommittedOK'
  <2>1. at' = at
    BY <1>2 DEF CommitStep
  <2>2. ASSUME NEW k \in Keys, meta'[k].obj # NoObject
        PROVE  meta'[k].obj \in committed' /\ KeyOf[meta'[k].obj] = k
    <3>1. CASE k = KeyOf[p]
      <4>1. meta'[KeyOf[p]].obj = p /\ p \in committed'
        BY ONLY TypeInv, CommittedOK, <1>2, CommitEffect
      <4>2. QED
        BY <3>1, <4>1
    <3>2. CASE k # KeyOf[p]
      BY <1>2, <2>2, <3>2, CommitEffect
    <3>3. QED
      BY <3>1, <3>2
  <2>3. ASSUME NEW q \in committed'
        PROVE  at'[q] = Len(Placement[q]) /\ pc'[q] \in {"reclaim", "ok", "failed", "crashed"}
    <3>1. CASE q = p
      BY <1>2, <2>1, <3>1, CommitEffect
    <3>2. CASE q # p
      BY <1>2, <2>1, <2>3, <3>2, CommitEffect
    <3>3. QED
      BY <3>1, <3>2
  <2>4. \A q \in Puts : Uploaded(q)' => at'[q] = Len(Placement[q])
    BY <1>2, <2>1, CommitEffect DEF Uploaded
  <2>5. \A r \in inDoubt' : r \in inDoubt /\ r # p /\ pc'[r] = pc[r]
    BY <1>2, CommitEffect
  <2>6. \A q \in Puts \intersect inDoubt' : q \notin committed'
    BY <1>2, <2>5, CommitEffect
  <2>7. QED
    BY <2>1, <2>2, <2>3, <2>4, <2>5, <2>6
<1>3. ASSUME NEW d \in Deletes, RemoveStep(d) PROVE CommittedOK'
  <2>1. at' = at
    BY <1>3 DEF RemoveStep
  <2>2. \A q \in committed : q # d /\ pc'[q] = pc[q]
    BY <1>3, RemoveEffect
  <2>3. ASSUME NEW k \in Keys, meta'[k].obj # NoObject
        PROVE  meta'[k].obj \in committed' /\ KeyOf[meta'[k].obj] = k
    BY <1>3, <2>3, RemoveEffect
  <2>4. \A q \in Puts : q # d /\ pc'[q] = pc[q]
    BY <1>3, RemoveEffect
  <2>5. \A r \in inDoubt' : r \in inDoubt /\ pc'[r] = pc[r]
    BY <1>3 DEF RemoveStep, Goto
  <2>6. \A q \in Puts : Uploaded(q)' => at'[q] = Len(Placement[q])
    BY <2>1, <2>4 DEF Uploaded
  <2>7. QED
    BY <1>3, <2>1, <2>2, <2>3, <2>4, <2>5, <2>6, RemoveEffect
<1>4. QED
  BY <1>1, <1>2, <1>3, StepShape

\* Retirement is for ever: fresh object IDs mean nothing can name it again.
LEMMA RetiredForEver ==
    ASSUME TypeInv, CommittedOK, [Next]_vars, NEW o \in Puts, Retired(o)
    PROVE  Retired(o)'
<1> USE DEF Retired, Current, TypeInv, TypeOK
<1>1. CASE QuietStep
  BY <1>1 DEF QuietStep, Forward, TowardsCommit, metaVars
<1>2. ASSUME NEW p \in Puts, CommitStep(p) PROVE Retired(o)'
  <2>1. o # p
    BY <1>2 DEF CommitStep, Uploaded, CommittedOK
  <2>2. \A k \in Keys : meta'[k].obj # o
    <3>1. ASSUME NEW k \in Keys PROVE meta'[k].obj # o
      <4>1. CASE k = KeyOf[p]
        BY <1>2, <2>1, <4>1, CommitEffect
      <4>2. CASE k # KeyOf[p]
        BY <1>2, <4>2, CommitEffect
      <4>3. QED
        BY <4>1, <4>2
    <3>2. QED
      BY <3>1
  <2>3. pc'[o] = pc[o] /\ committed \subseteq committed' /\ inDoubt' \subseteq inDoubt
    BY <1>2, <2>1, CommitEffect
  <2>4. QED
    BY <2>2, <2>3
<1>3. ASSUME NEW d \in Deletes, RemoveStep(d) PROVE Retired(o)'
  BY <1>3, RemoveEffect
<1>4. QED
  BY <1>1, <1>2, <1>3, StepShape

\* What a request read (superseded, in DeleteObject the metadata) was committed.
LEMMA BaseStep ==
    ASSUME TypeInv, CommittedOK, BaseOK, [Next]_vars
    PROVE  BaseOK'
<1> USE DEF BaseOK, TypeInv, TypeOK
<1>1. CASE QuietStep
  <2>1. CASE UNCHANGED <<base, expected>>
    BY <1>1, <2>1 DEF QuietStep, storeVars, metaVars
  <2>2. ASSUME NEW r \in Requests, Looks(r) PROVE BaseOK'
    <3>1. KeyOf[r] \in Keys
      OBVIOUS
    <3>2. meta[KeyOf[r]].obj # NoObject =>
             /\ meta[KeyOf[r]].obj # r
             /\ meta[KeyOf[r]].obj \in committed
             /\ KeyOf[meta[KeyOf[r]].obj] = KeyOf[r]
      BY <2>2, <3>1 DEF Looks, CommittedOK
    <3>3. QED
      BY <1>1, <2>2, <3>2 DEF Looks, QuietStep, storeVars, metaVars
  <2>3. QED
    BY <1>1, <2>1, <2>2 DEF QuietStep
<1>2. ASSUME NEW p \in Puts, CommitStep(p) PROVE BaseOK'
  BY <1>2, CommitEffect DEF CommitStep
<1>3. ASSUME NEW d \in Deletes, RemoveStep(d) PROVE BaseOK'
  BY <1>3, RemoveEffect DEF RemoveStep
<1>4. QED
  BY <1>1, <1>2, <1>3, StepShape

(***************************************************************************)
(* What is waiting to be deleted.                                          *)
(***************************************************************************)

\* The object a request read is gone once its metadata is replaced or removed.
LEMMA BaseRetired ==
    ASSUME TypeInv, CommittedOK, BaseOK, [Next]_vars,
           NEW r \in Requests, NEW o \in Puts, o = base[r],
           meta'[KeyOf[r]].obj # o
    PROVE  Retired(o)'
<1>1. o \in committed /\ KeyOf[o] = KeyOf[r]
  BY DEF BaseOK
<1>2. CommittedOK'
  BY CommittedStep
<1>3. committed \subseteq committed'
  <2>1. CASE QuietStep
    BY <2>1 DEF QuietStep, storeVars, metaVars
  <2>2. ASSUME NEW p \in Puts, CommitStep(p) PROVE committed \subseteq committed'
    BY <2>2, CommitEffect
  <2>3. ASSUME NEW d \in Deletes, RemoveStep(d) PROVE committed \subseteq committed'
    BY <2>3, RemoveEffect
  <2>4. QED
    BY <2>1, <2>2, <2>3, StepShape
<1>4. ~Current(o)'
  BY <1>1, <1>2 DEF Current, CommittedOK
<1>5. QED
  BY <1>1, <1>3, <1>4 DEF Retired

\* deleteChunks is given, and keeps, only replicas of retired objects.
LEMMA TodoStep ==
    ASSUME TypeInv, SafetyInv, [Next]_vars
    PROVE  TodoOK'
<1> USE DEF SafetyInv
<1>1. ASSUME NEW r \in Requests, NEW replica \in todo[r]
      PROVE  Retired(replica[1])'
  <2>1. replica[1] \in Puts /\ Retired(replica[1])
    BY <1>1, ReplicaOwner DEF TodoOK, TypeInv, TypeOK, Replicas
  <2>2. QED
    BY <2>1, RetiredForEver
<1>2. ASSUME NEW r \in Requests, todo' = [todo EXCEPT ![r] = ReplicasOf(base[r])],
             meta'[KeyOf[r]].obj # base[r]
      PROVE  TodoOK'
  <2>1. \A replica \in ReplicasOf(base[r]) : Retired(replica[1])'
    <3>1. base[r] \in Puts \union {NoObject}
      BY DEF TypeInv, TypeOK
    <3>2. QED
      BY <1>2, <3>1, ReplicaOwner, BaseRetired
  <2>2. QED
    BY <1>1, <1>2, <2>1 DEF TodoOK, TypeInv, TypeOK
<1>3. ASSUME NEW p \in Puts, PutCommit(p) PROVE TodoOK'
  <2>1. CommitStep(p)
    BY <1>3 DEF PutCommit, CommitStep
  <2>2. meta'[KeyOf[p]].obj # base[p]
    BY <2>1, CommitEffect DEF BaseOK
  <2>3. QED
    BY <1>2, <1>3, <2>2 DEF PutCommit
<1>4. ASSUME NEW p \in Puts, PutConflict(p) PROVE TodoOK'
  <2>1. \A replica \in ReplicasOf(p) : replica[1] = p
    BY ReplicaOwner
  <2>2. ~Current(p)
    BY <1>4 DEF PutConflict, Uploaded, CommittedOK, Current
  <2>3. Retired(p)'
    <3>1. p \notin inDoubt
      BY <1>4 DEF PutConflict, Uploaded, CommittedOK
    <3>2. pc'[p] = "withdraw" /\ UNCHANGED <<meta, inDoubt>>
      BY <1>4 DEF PutConflict, Goto, storeVars, metaVars, TypeInv, TypeOK
    <3>3. QED
      BY <2>2, <3>1, <3>2 DEF Retired, Current
  <2>4. QED
    BY <1>1, <1>4, <2>1, <2>3 DEF PutConflict, TodoOK, TypeInv, TypeOK
<1>5. ASSUME NEW d \in Deletes, DeleteCommit(d) PROVE TodoOK'
  <2>1. CASE meta[KeyOf[d]].obj = NoObject
    BY <1>1, <1>5, <2>1 DEF DeleteCommit, TodoOK
  <2>2. CASE meta[KeyOf[d]].obj # NoObject
    <3>1. RemoveStep(d)
      BY <1>5, <2>2 DEF DeleteCommit, RemoveStep
    <3>2. CASE base[d] = NoObject
      <4>1. todo'= [todo EXCEPT ![d] = {}]
        BY <1>5, <2>2, <3>2 DEF DeleteCommit, ReplicasOf
      <4>2. QED
        BY <1>1, <4>1 DEF TodoOK, TypeInv, TypeOK
    <3>3. CASE base[d] # NoObject
      <4>1. meta'[KeyOf[d]].obj # base[d]
        BY <3>1, <3>3, RemoveEffect
      <4>2. QED
        BY <1>2, <1>5, <2>2, <4>1 DEF DeleteCommit
    <3>4. QED
      BY <3>2, <3>3
  <2>3. QED
    BY <2>1, <2>2
<1>6. ASSUME NEW r \in Requests, NEW replica \in todo[r], Reclaim(r, replica)
      PROVE  TodoOK'
  BY <1>1, <1>6 DEF Reclaim, TodoOK, TypeInv, TypeOK
<1>7. ASSUME Crash PROVE TodoOK'
  BY <1>7 DEF Crash, TodoOK
<1>8. CASE UNCHANGED todo
  BY <1>1, <1>8 DEF TodoOK
<1>9. QED
  <2> USE DEF storeVars, metaVars, nodeVars, reqVars
  <2>1. ASSUME NEW p \in Puts,
               \/ PutBegin(p) \/ PutBody(p) \/ PutQuorum(p)
               \/ PutCommitError(p) \/ \E n \in Nodes : PutStore(p, n)
        PROVE  UNCHANGED todo
    BY <2>1 DEF PutBegin, PutFanOut, PutBodyError, PutReadEnd, PutBody, PutQuorum, PutCommitError, PutStore
  <2>2. ASSUME NEW d \in Deletes, DeleteBegin(d) \/ DeleteCommitError(d)
        PROVE  UNCHANGED todo
    BY <2>2 DEF DeleteBegin, DeleteCommitError
  <2>3. ASSUME NEW r \in Requests, Respond(r) PROVE UNCHANGED todo
    BY <2>3 DEF Respond
  <2>4. ASSUME NEW replica \in Replicas,
               LateStore(replica) \/ Corrupt(replica) \/ Lose(replica)
        PROVE  UNCHANGED todo
    BY <2>4 DEF LateStore, Corrupt, Lose
  <2>5. ASSUME (\E p \in Puts : LateCommit(p)) \/ (\E d \in Deletes : LateRemove(d))
        PROVE  UNCHANGED todo
    BY <2>5 DEF LateCommit, LateRemove
  <2>6. CASE UNCHANGED vars
    BY <1>8, <2>6 DEF vars
  <2>7. QED
    BY <1>3, <1>4, <1>5, <1>6, <1>7, <1>8, <2>1, <2>2, <2>3, <2>4, <2>5, <2>6
       DEF Next, Step, PutStep, PutBody, PutDecide, DeleteStep, CleanupStep, NodeStep

(***************************************************************************)
(* Acknowledged copies.                                                    *)
(***************************************************************************)

\* A step that takes no good copy away except a retired object's, and
\* acknowledges nothing new, keeps the acknowledged copies.
LEMMA AckedKept ==
    ASSUME TypeInv, SafetyInv, [Next]_vars, acked' = acked,
           \A replica \in acked :
               \/ Retired(replica[1])
               \/ replica \in Good \union damaged => replica \in (Good \union damaged)'
    PROVE  AckedOK'
<1>1. ASSUME NEW replica \in acked PROVE replica[1] \in Puts
  BY ReplicaOwner DEF TypeInv, TypeOK, Replicas
<1>2. ASSUME NEW replica \in acked, Retired(replica[1]) PROVE Retired(replica[1])'
  BY <1>1, <1>2, RetiredForEver DEF SafetyInv
<1>3. QED
  BY <1>2 DEF AckedOK, SafetyInv

\* Acknowledged copies of objects that may still be named are never reclaimed.
LEMMA AckedStep ==
    ASSUME TypeInv, SafetyInv, [Next]_vars
    PROVE  AckedOK'
<1> USE DEF storeVars, metaVars, nodeVars, reqVars, Good
<1>1. ASSUME NEW p \in Puts, NEW n \in Nodes, PutStore(p, n) PROVE AckedOK'
  <2> DEFINE this == <<p, at[p] + 1, n>>
  <2>1. \/ acked' = acked
        \/ acked' = acked \union {this} /\ this \in Good'
    BY <1>1 DEF PutStore, Write
  <2>2. \A replica \in Good \union damaged : replica \in (Good \union damaged)'
    BY <1>1 DEF PutStore, Write
  <2>3. ASSUME NEW replica \in acked
        PROVE  Retired(replica[1])' \/ replica \in (Good \union damaged)'
    <3>1. replica[1] \in Puts
      BY ReplicaOwner DEF TypeInv, TypeOK, Replicas
    <3>2. QED
      BY <2>2, <3>1, RetiredForEver DEF SafetyInv, AckedOK
  <2>4. QED
    BY <2>1, <2>3 DEF AckedOK
<1>2. ASSUME NEW r \in Requests, NEW replica \in todo[r], Reclaim(r, replica)
      PROVE  AckedOK'
  <2>1. Retired(replica[1])
    BY DEF SafetyInv, TodoOK
  <2>2. acked' = acked /\ damaged' = damaged
    BY <1>2 DEF Reclaim
  <2>3. \A other \in Good : other # replica => other \in Good'
    BY <1>2 DEF Reclaim, Erase
  <2>4. QED
    BY <2>1, <2>2, <2>3, AckedKept
<1>3. ASSUME NEW replica \in Replicas,
             LateStore(replica) \/ Corrupt(replica) \/ Lose(replica)
      PROVE  AckedOK'
  <2>1. acked' = acked
    BY <1>3 DEF LateStore, Corrupt, Lose
  <2>2. \A other \in Good \union damaged : other \in (Good \union damaged)'
    BY <1>3 DEF LateStore, Corrupt, Lose, Write, Erase
  <2>3. QED
    BY <2>1, <2>2, AckedKept
<1>4. CASE UNCHANGED <<stored, corrupt, damaged, acked>>
  BY <1>4, AckedKept
<1>5. QED
  <2>1. ASSUME NEW p \in Puts,
               \/ PutBegin(p) \/ PutBody(p) \/ PutQuorum(p)
               \/ PutCommit(p) \/ PutConflict(p) \/ PutCommitError(p)
        PROVE  UNCHANGED <<stored, corrupt, damaged, acked>>
    BY <2>1 DEF PutBegin, PutFanOut, PutBodyError, PutReadEnd, PutBody, PutQuorum, PutCommit,
                PutConflict, PutCommitError
  <2>2. ASSUME NEW d \in Deletes,
               DeleteBegin(d) \/ DeleteCommit(d) \/ DeleteCommitError(d)
        PROVE  UNCHANGED <<stored, corrupt, damaged, acked>>
    BY <2>2 DEF DeleteBegin, DeleteCommit, DeleteCommitError
  <2>3. ASSUME NEW r \in Requests, Respond(r)
        PROVE  UNCHANGED <<stored, corrupt, damaged, acked>>
    BY <2>3 DEF Respond
  <2>4. ASSUME Crash \/ UNCHANGED vars
        PROVE  UNCHANGED <<stored, corrupt, damaged, acked>>
    BY <2>4 DEF Crash, vars
  <2>5. ASSUME (\E p \in Puts : LateCommit(p)) \/ (\E d \in Deletes : LateRemove(d))
        PROVE  UNCHANGED <<stored, corrupt, damaged, acked>>
    BY <2>5 DEF LateCommit, LateRemove
  <2>6. QED
    BY <1>1, <1>2, <1>3, <1>4, <2>1, <2>2, <2>3, <2>4, <2>5
       DEF Next, Step, PutStep, PutBody, PutDecide, DeleteStep, CleanupStep, NodeStep

\* Acknowledgements of a finished chunk never change.
LEMMA QuorumStep ==
    ASSUME TypeInv, QuorumOK, [Next]_vars
    PROVE  QuorumOK'
<1> USE DEF TypeInv, TypeOK, storeVars, metaVars, nodeVars, reqVars
<1>1. CASE UNCHANGED <<at, acked>>
  <2>1. \A q \in Puts : \A i \in Chunks(q) : AckedOn(q, i)' = AckedOn(q, i)
    BY <1>1 DEF AckedOn
  <2>2. QED
    BY <1>1, <2>1 DEF QuorumOK
<1>2. ASSUME NEW p \in Puts, NEW n \in Nodes, PutStore(p, n) PROVE QuorumOK'
  <2>1. at' = at /\ acked' \in {acked, acked \union {<<p, at[p] + 1, n>>}}
    BY <1>2 DEF PutStore
  <2>2. ASSUME NEW q \in Puts, NEW i \in Chunks(q), i <= at[q]
        PROVE  AckedOn(q, i)' = AckedOn(q, i)
    <3>1. i # at[q] + 1
      BY <2>2, ChunkIndex
    <3>2. QED
      BY <2>1, <3>1 DEF AckedOn
  <2>3. QED
    BY <2>1, <2>2 DEF QuorumOK
<1>3. ASSUME NEW p \in Puts, PutQuorum(p) PROVE QuorumOK'
  <2>1. acked' = acked
    BY <1>3 DEF PutQuorum
  <2>2. \A q \in Puts : \A i \in Chunks(q) : AckedOn(q, i)' = AckedOn(q, i)
    BY <2>1 DEF AckedOn
  <2>3. CASE at' = at
    BY <1>1, <2>1, <2>3
  <2>4. CASE /\ Cardinality(AckedOn(p, at[p] + 1)) >= W
             /\ at' = [at EXCEPT ![p] = @ + 1]
    <3>1. ASSUME NEW q \in Puts, NEW i \in Chunks(q), i <= at'[q]
          PROVE  i <= at[q] \/ (q = p /\ i = at[p] + 1)
      <4>1. at'[q] = IF q = p THEN at[p] + 1 ELSE at[q]
        BY <2>4
      <4>2. i \in Nat /\ at[p] \in Nat
        BY ChunkIndex
      <4>3. CASE q = p
        BY ONLY <3>1, <4>1, <4>2, <4>3
      <4>4. CASE q # p
        BY <3>1, <4>1, <4>4
      <4>5. QED
        BY <4>3, <4>4
    <3>2. QED
      BY <2>2, <2>4, <3>1 DEF QuorumOK
  <2>5. QED
    BY <1>3, <2>3, <2>4 DEF PutQuorum
<1>4. QED
  <2>1. ASSUME NEW p \in Puts,
               \/ PutBegin(p) \/ PutBody(p)
               \/ PutCommit(p) \/ PutConflict(p) \/ PutCommitError(p)
        PROVE  UNCHANGED <<at, acked>>
    BY <2>1 DEF PutBegin, PutFanOut, PutBodyError, PutReadEnd, PutBody, PutCommit, PutConflict, PutCommitError
  <2>2. ASSUME NEW d \in Deletes,
               DeleteBegin(d) \/ DeleteCommit(d) \/ DeleteCommitError(d)
        PROVE  UNCHANGED <<at, acked>>
    BY <2>2 DEF DeleteBegin, DeleteCommit, DeleteCommitError
  <2>3. ASSUME NEW r \in Requests,
               Respond(r) \/ \E replica \in todo[r] : Reclaim(r, replica)
        PROVE  UNCHANGED <<at, acked>>
    BY <2>3 DEF Respond, Reclaim
  <2>4. ASSUME NEW replica \in Replicas,
               LateStore(replica) \/ Corrupt(replica) \/ Lose(replica)
        PROVE  UNCHANGED <<at, acked>>
    BY <2>4 DEF LateStore, Corrupt, Lose
  <2>5. ASSUME Crash \/ UNCHANGED vars PROVE UNCHANGED <<at, acked>>
    BY <2>5 DEF Crash, vars
  <2>6. ASSUME (\E p \in Puts : LateCommit(p)) \/ (\E d \in Deletes : LateRemove(d))
        PROVE  UNCHANGED <<at, acked>>
    BY <2>6 DEF LateCommit, LateRemove
  <2>7. QED
    BY <1>1, <1>2, <1>3, <2>1, <2>2, <2>3, <2>4, <2>5, <2>6
       DEF Next, Step, PutStep, PutBody, PutDecide, DeleteStep, CleanupStep, NodeStep

(***************************************************************************)
(* Safety.                                                                 *)
(***************************************************************************)

\* The invariant holds before the first request.
LEMMA SafetyInit == Init => SafetyInv
<1> SUFFICES ASSUME Init PROVE SafetyInv
  OBVIOUS
<1>1. CommittedOK /\ BaseOK /\ TodoOK /\ AckedOK
  BY DEF Init, CommittedOK, Uploaded, BaseOK, TodoOK, AckedOK
<1>2. QuorumOK
  BY ChunkIndex DEF Init, QuorumOK
<1>3. QED
  BY <1>1, <1>2 DEF SafetyInv

\* Every step of a request, a node or the environment keeps the invariant.
LEMMA SafetyStep == TypeInv /\ SafetyInv /\ [Next]_vars => SafetyInv'
BY CommittedStep, BaseStep, TodoStep, AckedStep, QuorumStep DEF SafetyInv

\* The write path keeps its invariant: the theorems below read it off.
THEOREM Safety == Spec => [](TypeInv /\ SafetyInv)
BY TypeInit, TypeStep, SafetyInit, SafetyStep, PTL DEF Spec

\* deleteChunks never has a replica of a referenced object before it: the
\* dangling pointers of DeleteObject's comment cannot arise.
THEOREM NoDanglingReference == Spec => []ReclaimsOnlyDead
<1>1. TypeInv /\ SafetyInv => ReclaimsOnlyDead
  <2> SUFFICES ASSUME TypeInv, SafetyInv, NEW r \in Requests, NEW k \in Keys,
                      NEW replica \in todo[r], replica \in ReplicasOf(meta[k].obj)
               PROVE  FALSE
    BY DEF ReclaimsOnlyDead
  <2>1. replica[1] = meta[k].obj
    BY ReplicaOwner DEF TypeInv, TypeOK
  <2>2. QED
    BY <2>1 DEF SafetyInv, TodoOK, Retired, Current
<1>2. QED
  BY <1>1, Safety, PTL

\* Every state of the invariant shows the quorum of every committed object.
LEMMA DurableNow == TypeInv /\ SafetyInv => CommittedDurable
<1> SUFFICES ASSUME TypeInv, SafetyInv, NEW k \in Keys, meta[k].obj # NoObject,
                    NEW i \in Chunks(meta[k].obj)
             PROVE  /\ Cardinality(AckedOn(meta[k].obj, i)) >= W
                    /\ \A n \in AckedOn(meta[k].obj, i) :
                           <<meta[k].obj, i, n>> \in Good \union damaged
  BY DEF CommittedDurable
<1> DEFINE o == meta[k].obj
<1>1. o \in committed /\ o \in Puts /\ at[o] = Len(Placement[o])
  BY DEF TypeInv, TypeOK, SafetyInv, CommittedOK
<1>2. ~Retired(o)
  BY DEF Retired, Current
<1>3. i <= at[o]
  BY <1>1, ChunkIndex
<1>4. Cardinality(AckedOn(o, i)) >= W
  BY <1>1, <1>3 DEF SafetyInv, QuorumOK
<1>5. ASSUME NEW n \in AckedOn(o, i) PROVE <<o, i, n>> \in Good \union damaged
  BY <1>2 DEF AckedOn, SafetyInv, AckedOK
<1>6. QED
  BY <1>4, <1>5

\* Every chunk of a committed object was accepted by W nodes, and each of these
\* copies is intact or was damaged by the environment.
THEOREM Durability == Spec => []CommittedDurable
BY DurableNow, Safety, PTL

(***************************************************************************)
(* Conditional commits, for a metadata store that reuses no revision.      *)
(***************************************************************************)

\* Before the first request nobody holds a revision.
LEMMA RevisionInit == Init => RevisionOK
BY DEF Init, RevisionOK

\* Unless revisions are reused, who holds the current one holds the current object.
LEMMA RevisionStep ==
    ASSUME UniqueRevisions, TypeInv, RevisionOK, [Next]_vars
    PROVE  RevisionOK'
<1> DEFINE MetaOK(k) == /\ GlobalRevisions => meta[k].rev <= clock
                        /\ meta[k].rev = 0 <=> meta[k].obj = NoObject
           Bound(k)  == IF GlobalRevisions THEN clock ELSE meta[k].rev
           PutOK(p)  == /\ expected[p] <= Bound(KeyOf[p])
                        /\ expected[p] = 0 <=> base[p] = NoObject
                        /\ expected[p] = meta[KeyOf[p]].rev =>
                              base[p] = meta[KeyOf[p]].obj
<1>1. (\A k \in Keys : MetaOK(k)) /\ (\A p \in Puts : PutOK(p))
  BY DEF RevisionOK
<1>2. /\ \A k \in Keys : meta[k].rev \in Nat
      /\ clock \in Nat
      /\ \A p \in Puts : expected[p] \in Nat /\ KeyOf[p] \in Keys
  BY DEF TypeInv, TypeOK
<1>3. CASE QuietStep
  <2>1. UNCHANGED metaVars
    BY <1>3 DEF QuietStep
  <2>2. CASE UNCHANGED <<base, expected>>
    BY <2>1, <2>2 DEF RevisionOK, storeVars, metaVars
  <2>3. ASSUME NEW r \in Requests, Looks(r) PROVE RevisionOK'
    <3>1. ASSUME NEW p \in Puts PROVE PutOK(p)'
      <4>1. CASE p = r
        <5>1. expected'[p] = meta[KeyOf[p]].rev /\ base'[p] = meta[KeyOf[p]].obj
          BY <2>3, <4>1 DEF Looks, Revision, TypeInv, TypeOK
        <5>2. meta[KeyOf[p]].rev <= Bound(KeyOf[p])
          BY <1>1, <1>2
        <5>3. QED
          BY <1>1, <1>2, <2>1, <5>1, <5>2 DEF storeVars, metaVars
      <4>2. CASE p # r
        <5>1. expected'[p] = expected[p] /\ base'[p] = base[p]
          BY <2>3, <4>2 DEF Looks, TypeInv, TypeOK
        <5>2. QED
          BY <1>1, <2>1, <5>1 DEF storeVars, metaVars
      <4>3. QED
        BY <4>1, <4>2
    <3>2. QED
      BY <1>1, <2>1, <3>1 DEF RevisionOK, storeVars, metaVars
  <2>4. QED
    BY <1>3, <2>2, <2>3 DEF QuietStep
<1>4. ASSUME NEW q \in Puts, CommitStep(q) PROVE RevisionOK'
  <2>1. /\ UNCHANGED <<base, expected>>
        /\ meta'[KeyOf[q]] = [obj |-> q, rev |-> Bound(KeyOf[q]) + 1]
        /\ GlobalRevisions => clock' = clock + 1
        /\ \A k \in Keys : k # KeyOf[q] => meta'[k] = meta[k]
    BY <1>2, <1>4 DEF CommitStep, Install, Tick, NextRevision, Revision, TypeInv, TypeOK
  <2>2. ASSUME NEW k \in Keys PROVE MetaOK(k)'
    BY <1>1, <1>2, <2>1
  <2>3. ASSUME NEW p \in Puts PROVE PutOK(p)'
    <3>1. CASE KeyOf[p] = KeyOf[q]
      <4>1. meta'[KeyOf[p]].rev = Bound(KeyOf[p]) + 1 /\ expected'[p] = expected[p]
        BY <2>1, <3>1
      <4>2. expected[p] <= Bound(KeyOf[p]) /\ Bound(KeyOf[p]) \in Nat
        BY <1>1, <1>2
      <4>3. expected'[p] # meta'[KeyOf[p]].rev
        BY <1>2, <4>1, <4>2
      <4>4. expected'[p] <= Bound(KeyOf[p])'
        BY <1>2, <2>1, <4>1, <4>2
      <4>5. QED
        BY <1>1, <2>1, <4>3, <4>4
    <3>2. CASE KeyOf[p] # KeyOf[q]
      BY <1>1, <1>2, <2>1, <3>2
    <3>3. QED
      BY <3>1, <3>2
  <2>4. QED
    BY <2>2, <2>3 DEF RevisionOK
<1>5. ASSUME NEW d \in Deletes, RemoveStep(d) PROVE RevisionOK'
  <2>0. GlobalRevisions
    BY DEF UniqueRevisions
  <2>1. /\ clock' = clock + 1 /\ UNCHANGED <<base, expected>>
        /\ meta'[KeyOf[d]] = [obj |-> NoObject, rev |-> 0]
        /\ \A k \in Keys : k # KeyOf[d] => meta'[k] = meta[k]
    BY <1>5, <2>0 DEF RemoveStep, Uninstall, Tick, TypeInv, TypeOK
  <2>2. ASSUME NEW k \in Keys PROVE MetaOK(k)'
    BY <1>1, <1>2, <2>0, <2>1
  <2>3. ASSUME NEW p \in Puts PROVE PutOK(p)'
    BY <1>1, <1>2, <2>0, <2>1
  <2>4. QED
    BY <2>2, <2>3 DEF RevisionOK
<1>6. QED
  BY <1>3, <1>4, <1>5, StepShape

\* With etcd, or as long as nothing is deleted, a put commits only over the object
\* it read: an update of another client is never overwritten unseen.
THEOREM ConditionalCommit ==
    ASSUME UniqueRevisions
    PROVE  Spec => NoLostUpdate
<1>1. ASSUME TypeInv, SafetyInv, RevisionOK, [Next]_vars,
             NEW k \in Keys, meta'[k].obj \notin {meta[k].obj, NoObject}
      PROVE  base[meta'[k].obj] = meta[k].obj
  <2>1. CASE QuietStep
    BY <1>1, <2>1 DEF QuietStep, storeVars, metaVars
  <2>2. ASSUME NEW p \in Puts, CommitStep(p) PROVE base[meta'[k].obj] = meta[k].obj
    <3>1. k = KeyOf[p] /\ meta'[k].obj = p
      BY <1>1, <2>2, CommitEffect DEF SafetyInv
    <3>2. expected[p] = meta[k].rev
      BY <2>2, <3>1 DEF CommitStep, Revision
    <3>3. QED
      BY <1>1, <3>1, <3>2 DEF RevisionOK
  <2>3. ASSUME NEW d \in Deletes, RemoveStep(d) PROVE base[meta'[k].obj] = meta[k].obj
    BY <1>1, <2>3, RemoveEffect
  <2>4. QED
    BY <1>1, <2>1, <2>2, <2>3, StepShape
<1>2. TypeInv /\ SafetyInv /\ RevisionOK /\ [Next]_vars =>
        [\A k \in Keys : meta'[k].obj \notin {meta[k].obj, NoObject} =>
            base[meta'[k].obj] = meta[k].obj]_vars
  BY <1>1
<1>3. TypeInv /\ RevisionOK /\ [Next]_vars => RevisionOK'
  BY RevisionStep
<1>4. QED
  BY <1>2, <1>3, RevisionInit, Safety, PTL DEF Spec, NoLostUpdate

(***************************************************************************)
(* The register a caller sees, for a metadata store that reuses no revision. *)
(***************************************************************************)

\* A put whose object is still the one it read holds its revision: an object is
\* committed only once, and an empty key has revision 0.
SeenCurrent ==
    \A p \in Puts : base[p] = meta[KeyOf[p]].obj => expected[p] = meta[KeyOf[p]].rev

RegisterInv == TypeInv /\ SafetyInv /\ RevisionOK /\ SeenCurrent

\* No request has read anything but an empty store.
LEMMA SeenInit == Init => SeenCurrent
BY DEF Init, SeenCurrent

\* A revision is replaced together with its object.
LEMMA SeenStep ==
    ASSUME RegisterInv, [Next]_vars
    PROVE  SeenCurrent'
<1> USE DEF RegisterInv, SeenCurrent, TypeInv, TypeOK
<1>1. CASE QuietStep
  <2>1. CASE UNCHANGED <<base, expected>>
    BY <1>1, <2>1 DEF QuietStep, storeVars, metaVars
  <2>2. ASSUME NEW r \in Requests, Looks(r) PROVE SeenCurrent'
    BY <1>1, <2>2 DEF QuietStep, storeVars, metaVars, Looks, Revision
  <2>3. QED
    BY <1>1, <2>1, <2>2 DEF QuietStep
<1>2. ASSUME NEW q \in Puts, CommitStep(q) PROVE SeenCurrent'
  <2>1. UNCHANGED <<base, expected>>
    BY <1>2 DEF CommitStep
  <2>2. ASSUME NEW p \in Puts, KeyOf[p] = KeyOf[q] PROVE base[p] # meta'[KeyOf[p]].obj
    <3>1. meta'[KeyOf[p]].obj = q /\ q \notin committed
      BY <1>2, <2>2, CommitEffect DEF SafetyInv
    <3>2. base[p] # NoObject => base[p] \in committed
      BY DEF SafetyInv, BaseOK
    <3>3. QED
      BY <3>1, <3>2
  <2>3. \A p \in Puts : KeyOf[p] # KeyOf[q] => meta'[KeyOf[p]] = meta[KeyOf[p]]
    BY <1>2, CommitEffect DEF SafetyInv
  <2>4. QED
    BY <2>1, <2>2, <2>3
<1>3. ASSUME NEW d \in Deletes, RemoveStep(d) PROVE SeenCurrent'
  <2>1. UNCHANGED <<base, expected>>
    BY <1>3 DEF RemoveStep
  <2>2. meta'[KeyOf[d]] = [obj |-> NoObject, rev |-> 0]
    BY <1>3 DEF RemoveStep, Uninstall
  <2>3. \A k \in Keys : k # KeyOf[d] => meta'[k] = meta[k]
    BY <1>3, RemoveEffect
  <2>4. \A p \in Puts : expected[p] = 0 <=> base[p] = NoObject
    BY DEF RevisionOK
  <2>5. ASSUME NEW p \in Puts, base[p] = meta'[KeyOf[p]].obj
        PROVE  expected[p] = meta'[KeyOf[p]].rev
    <3>1. CASE KeyOf[p] = KeyOf[d]
      BY <2>2, <2>4, <2>5, <3>1
    <3>2. CASE KeyOf[p] # KeyOf[d]
      BY <2>3, <2>5, <3>2
    <3>3. QED
      BY <3>1, <3>2
  <2>6. QED
    BY <2>1, <2>5
<1>4. QED
  BY <1>1, <1>2, <1>3, StepShape

\* The register's values, as the write path shows them.
Values == [k \in Keys |-> meta[k].obj]

\* A request moves alone, and its caller learns what its new place tells.
LEMMA PhaseMove ==
    ASSUME TypeInv, CommittedOK, NEW r \in Requests, pc[r] \notin {"failed", "crashed"},
           NEW label, Goto(r, label), UNCHANGED inDoubt
    PROVE  Phases' = [Phases EXCEPT ![r] = PhaseOf(label)] /\ Phases[r] = PhaseOf(pc[r])
<1>1. r \notin inDoubt
  BY DEF CommittedOK
<1>2. \A q \in Requests : pc'[q] = IF q = r THEN label ELSE pc[q]
  BY DEF TypeInv, TypeOK, Goto
<1>3. QED
  BY <1>1, <1>2 DEF Phases

\* What a caller knows of a request that is where the label says.
LEMMA PhaseNames ==
    /\ PhaseOf("idle") = "idle" /\ PhaseOf("ok") = "ok" /\ PhaseOf("conflict") = "conflict"
    /\ PhaseOf("chunk") = "open" /\ PhaseOf("storing") = "open"
    /\ PhaseOf("commit") = "open" /\ PhaseOf("removing") = "open"
    /\ PhaseOf("reclaim") = "applied" /\ PhaseOf("withdraw") = "refused"
    /\ PhaseOf("failed") = "unknown" /\ PhaseOf("crashed") = "unknown"
BY DEF PhaseOf

\* A request that fails without an effect leaves its caller not knowing, the more so
\* when the effect may come late.
LEMMA FailureIsGiveUp ==
    ASSUME TypeInv, CommittedOK, NEW r \in Requests, Goto(r, "failed"),
           pc[r] \in {"idle", "chunk", "storing", "commit", "removing"},
           NEW delayed \in SUBSET {r}, inDoubt' = inDoubt \union delayed,
           delayed # {} => pc[r] \in {"commit", "removing"},
           UNCHANGED <<meta, base>>
    PROVE  Register!GiveUp
<1>1. r \notin inDoubt
  BY DEF CommittedOK
<1>2. Phases' = [q \in Requests |-> IF q \in delayed THEN "late"
                                   ELSE IF q \in {r} THEN "unknown" ELSE Phases[q]]
  <2>1. \A q \in Requests : pc'[q] = IF q = r THEN "failed" ELSE pc[q]
    BY DEF Goto, TypeInv, TypeOK
  <2>2. QED
    BY <1>1, <2>1, PhaseNames DEF Phases
<1>3. /\ \A q \in {r} : Phases[q] \in {"idle", "open", "applied", "refused"}
      /\ \A q \in delayed : Phases[q] = "open"
  BY <1>1, PhaseNames DEF Phases
<1>4. {r} \in SUBSET Requests
  OBVIOUS
<1>5. QED
  BY <1>2, <1>3, <1>4 DEF Register!GiveUp, Register!Requests, Phases

\* A step that moves no request to where its caller learns something is invisible.
LEMMA Invisible ==
    ASSUME Phases' = Phases, UNCHANGED <<meta, base>>
    PROVE  UNCHANGED Register!vars
BY DEF Register!vars, Phases

\* What happens late happens to a request whose caller heard an error.
LEMMA LatePhase ==
    ASSUME TypeInv, CommittedOK, NEW r \in inDoubt, UNCHANGED pc, inDoubt' = inDoubt \ {r}
    PROVE  Phases[r] = "late" /\ Phases' = [Phases EXCEPT ![r] = "unknown"]
<1>1. r \in Requests /\ PhaseOf(pc[r]) = "unknown"
  BY PhaseNames DEF TypeInv, TypeOK, CommittedOK
<1>2. QED
  BY <1>1 DEF Phases

\* The commit of a put is the instant it takes effect.
LEMMA CommitIsApply ==
    ASSUME RegisterInv, NEW p \in Puts, CommitStep(p)
    PROVE  Register!Apply(p)
<1> USE DEF RegisterInv
<1>1. \/ Phases[p] = "open" /\ Phases' = [Phases EXCEPT ![p] = "applied"]
      \/ Phases[p] = "open" /\ Phases' = [Phases EXCEPT ![p] = "unknown"]
      \/ Phases[p] = "late" /\ Phases' = [Phases EXCEPT ![p] = "unknown"]
  BY PhaseMove, PhaseNames, LatePhase DEF CommitStep, Uploaded, SafetyInv
<1>2. base[p] = meta[KeyOf[p]].obj
  BY DEF RevisionOK, CommitStep, Revision
<1>3. Values' = [Values EXCEPT ![KeyOf[p]] = p]
  BY DEF CommitStep, Install, Values, TypeInv, TypeOK
<1>4. KeyOf[p] \in Keys /\ base' = base
  BY DEF CommitStep
<1>5. QED
  BY <1>1, <1>2, <1>3, <1>4 DEF Register!Apply, Register!Move, Values

\* DeleteObjectMetadata is the instant a delete takes effect.
LEMMA RemoveIsRemove ==
    ASSUME RegisterInv, NEW d \in Deletes, RemoveStep(d)
    PROVE  Register!Remove(d)
<1> USE DEF RegisterInv
<1>1. \/ Phases[d] = "open" /\ Phases' = [Phases EXCEPT ![d] = "applied"]
      \/ Phases[d] = "open" /\ Phases' = [Phases EXCEPT ![d] = "unknown"]
      \/ Phases[d] = "late" /\ Phases' = [Phases EXCEPT ![d] = "unknown"]
  BY PhaseMove, PhaseNames, LatePhase DEF RemoveStep, SafetyInv
<1>2. Values' = [Values EXCEPT ![KeyOf[d]] = NoObject]
  BY DEF RemoveStep, Uninstall, Values, TypeInv, TypeOK
<1>3. base' = base
  BY DEF RemoveStep
<1>4. QED
  BY <1>1, <1>2, <1>3 DEF Register!Remove, Register!Move, Values

\* A late call that finds nothing to do is invisible but for being over.
LEMMA LateExpires ==
    ASSUME RegisterInv, NEW r \in inDoubt, UNCHANGED <<pc, meta, base>>,
           inDoubt' = inDoubt \ {r}
    PROVE  Register!Expire(r)
BY LatePhase DEF RegisterInv, SafetyInv, Register!Expire, Register!Move

\* Every step of the write path is a step of the register or invisible to callers.
LEMMA RegisterStep ==
    ASSUME RegisterInv, [Next]_vars
    PROVE  [Register!Next]_Register!vars
<1> USE DEF RegisterInv, SafetyInv, storeVars, metaVars, nodeVars, reqVars
<1>1. ASSUME NEW p \in Puts, PutBegin(p) PROVE Register!Start(p) \/ Register!GiveUp
  <2>1. pc[p] = "idle" /\ Phases[p] = "idle" /\ KeyOf[p] \in Keys
    BY <1>1, PhaseNames DEF PutBegin, Phases, CommittedOK
  <2>2. UNCHANGED <<meta, inDoubt>> /\ (base' = [base EXCEPT ![p] = meta[KeyOf[p]].obj] \/ UNCHANGED base)
    BY <1>1 DEF PutBegin
  <2>3. CASE Goto(p, "chunk")
    <3>1. Phases' = [Phases EXCEPT ![p] = "open"]
      BY <2>1, <2>2, <2>3, PhaseMove, PhaseNames
    <3>2. QED
      BY <2>1, <2>2, <3>1 DEF Register!Start, Register!Move, Phases, Values
  <2>4. CASE Goto(p, "failed") /\ UNCHANGED base
    BY <2>1, <2>2, <2>4, FailureIsGiveUp
  <2>5. QED
    BY <1>1, <2>3, <2>4 DEF PutBegin
<1>2. ASSUME NEW p \in Puts, pc[p] \in {"chunk", "storing"}, UNCHANGED <<meta, inDoubt, base>>,
             \/ Goto(p, "chunk") \/ Goto(p, "storing") \/ Goto(p, "commit")
             \/ Goto(p, "failed")
      PROVE  Register!GiveUp \/ UNCHANGED Register!vars
  <2>1. CASE Goto(p, "failed")
    BY <1>2, <2>1, FailureIsGiveUp
  <2>2. CASE Goto(p, "chunk") \/ Goto(p, "storing") \/ Goto(p, "commit")
    <3>1. Phases' = [Phases EXCEPT ![p] = "open"] /\ Phases[p] = "open"
      BY <1>2, <2>2, PhaseMove, PhaseNames
    <3>2. Phases' = Phases
      BY <3>1 DEF Phases
    <3>3. QED
      BY <1>2, <3>2, Invisible
  <2>3. QED
    BY <1>2, <2>1, <2>2
<1>3. ASSUME NEW p \in Puts, PutBody(p) \/ PutQuorum(p)
      PROVE  Register!GiveUp \/ UNCHANGED Register!vars
  BY <1>2, <1>3 DEF PutFanOut, PutBodyError, PutReadEnd, PutBody, PutQuorum
<1>4. ASSUME UNCHANGED <<meta, inDoubt, base, pc>> PROVE UNCHANGED Register!vars
  BY <1>4, Invisible DEF Phases
<1>5. ASSUME NEW p \in Puts, NEW n \in Nodes, PutStore(p, n) PROVE UNCHANGED Register!vars
  BY <1>4, <1>5 DEF PutStore
<1>6. ASSUME NEW p \in Puts, PutCommit(p) PROVE Register!Apply(p)
  BY <1>6, CommitIsApply DEF PutCommit, CommitStep
<1>7. ASSUME NEW p \in Puts, PutConflict(p) PROVE Register!Refuse(p)
  <2>1. Phases' = [Phases EXCEPT ![p] = "refused"] /\ Phases[p] = "open"
    BY <1>7, PhaseMove, PhaseNames DEF PutConflict, Uploaded
  <2>2. base[p] # meta[KeyOf[p]].obj
    BY <1>7 DEF PutConflict, SeenCurrent, Revision
  <2>3. KeyOf[p] \in Keys /\ UNCHANGED <<meta, base>>
    BY <1>7 DEF PutConflict
  <2>4. QED
    BY <2>1, <2>2, <2>3 DEF Register!Refuse, Register!Move, Phases
<1>8. ASSUME NEW p \in Puts, PutCommitError(p) PROVE Register!Apply(p) \/ Register!GiveUp
  <2>1. ASSUME NEW delayed \in SUBSET {p}, UNCHANGED metaVars, inDoubt' = inDoubt \union delayed
        PROVE  Register!GiveUp
    BY <1>8, <2>1, FailureIsGiveUp DEF PutCommitError, Uploaded
  <2>2. CASE expected[p] = Revision(KeyOf[p]) /\ Install(p) /\ UNCHANGED inDoubt
    BY <1>8, <2>2, CommitIsApply DEF PutCommitError, CommitStep
  <2>3. UNCHANGED storeVars => UNCHANGED metaVars /\ inDoubt' = inDoubt \union {}
    OBVIOUS
  <2>4. {} \in SUBSET {p} /\ {p} \in SUBSET {p}
    OBVIOUS
  <2>5. QED
    BY <1>8, <2>1, <2>2, <2>3, <2>4 DEF PutCommitError, CommitFails
<1>9. ASSUME NEW d \in Deletes, DeleteBegin(d) PROVE Register!StartDelete(d) \/ Register!GiveUp
  <2>1. /\ pc[d] = "idle" /\ Phases[d] = "idle" /\ KeyOf[d] \in Keys
        /\ UNCHANGED <<meta, inDoubt>>
    BY <1>9, PhaseNames DEF DeleteBegin, CommittedOK, Phases
  <2>2. CASE Goto(d, "failed") /\ UNCHANGED base
    BY <1>9, <2>1, <2>2, FailureIsGiveUp DEF DeleteBegin
  <2>3. CASE /\ base' = [base EXCEPT ![d] = meta[KeyOf[d]].obj]
             /\ Goto(d, IF meta[KeyOf[d]].obj = NoObject THEN "ok" ELSE "removing")
    <3>1. Phases' = [Phases EXCEPT ![d] = IF meta[KeyOf[d]].obj = NoObject THEN "ok" ELSE "open"]
      BY <2>1, <2>3, PhaseMove, PhaseNames
    <3>2. QED
      BY <2>1, <2>3, <3>1 DEF Register!StartDelete, Register!Move, Phases
  <2>4. QED
    BY <1>9, <2>2, <2>3 DEF DeleteBegin
<1>10. ASSUME NEW d \in Deletes, DeleteCommit(d) PROVE Register!Remove(d)
  <2>1. CASE meta[KeyOf[d]].obj # NoObject
    BY <1>10, <2>1, RemoveIsRemove DEF DeleteCommit, RemoveStep
  <2>2. CASE meta[KeyOf[d]].obj = NoObject
    <3>1. Phases' = [Phases EXCEPT ![d] = "ok"] /\ Phases[d] = "open"
      BY <1>10, <2>2, PhaseMove, PhaseNames DEF DeleteCommit
    <3>2. KeyOf[d] \in Keys /\ UNCHANGED <<meta, base>>
      BY <1>10, <2>2 DEF DeleteCommit
    <3>3. Values' = [Values EXCEPT ![KeyOf[d]] = NoObject]
      BY <2>2, <3>2 DEF Values
    <3>4. QED
      BY <2>2, <3>1, <3>2, <3>3 DEF Register!Remove, Register!Move, Phases, Values
  <2>3. QED
    BY <2>1, <2>2
<1>11. ASSUME NEW d \in Deletes, DeleteCommitError(d) PROVE Register!Remove(d) \/ Register!GiveUp
  <2>1. ASSUME NEW delayed \in SUBSET {d}, UNCHANGED metaVars, inDoubt' = inDoubt \union delayed
        PROVE  Register!GiveUp
    BY <1>11, <2>1, FailureIsGiveUp DEF DeleteCommitError
  <2>2. CASE Uninstall(KeyOf[d]) /\ UNCHANGED inDoubt
    BY <1>11, <2>2, RemoveIsRemove DEF DeleteCommitError, RemoveStep
  <2>3. UNCHANGED storeVars => UNCHANGED metaVars /\ inDoubt' = inDoubt \union {}
    OBVIOUS
  <2>4. {} \in SUBSET {d} /\ {d} \in SUBSET {d}
    OBVIOUS
  <2>5. QED
    BY <1>11, <2>1, <2>2, <2>3, <2>4 DEF DeleteCommitError
<1>12. ASSUME NEW r \in Requests, NEW replica \in todo[r], Reclaim(r, replica)
       PROVE  UNCHANGED Register!vars
  BY <1>4, <1>12 DEF Reclaim
<1>13. ASSUME NEW r \in Requests, Respond(r) PROVE Register!Answer(r)
  <2>1. \/ Phases[r] = "applied" /\ Phases' = [Phases EXCEPT ![r] = "ok"]
        \/ Phases[r] = "refused" /\ Phases' = [Phases EXCEPT ![r] = "conflict"]
    BY <1>13, PhaseMove, PhaseNames DEF Respond
  <2>2. UNCHANGED <<meta, base>>
    BY <1>13 DEF Respond
  <2>3. QED
    BY <2>1, <2>2 DEF Register!Answer, Register!Move, Phases
<1>14. ASSUME NEW replica \in Replicas,
              LateStore(replica) \/ Corrupt(replica) \/ Lose(replica)
       PROVE  UNCHANGED Register!vars
  BY <1>4, <1>14 DEF LateStore, Corrupt, Lose
<1>14a. ASSUME NEW p \in Puts, LateCommit(p) PROVE Register!Apply(p) \/ Register!Expire(p)
  <2>1. CASE expected[p] = Revision(KeyOf[p])
    BY <1>14a, <2>1, CommitIsApply DEF LateCommit, CommitStep
  <2>2. CASE expected[p] # Revision(KeyOf[p])
    BY <1>14a, <2>2, LateExpires DEF LateCommit
  <2>3. QED
    BY <2>1, <2>2
<1>14b. ASSUME NEW d \in Deletes, LateRemove(d) PROVE Register!Remove(d) \/ Register!Expire(d)
  <2>1. CASE meta[KeyOf[d]].obj # NoObject
    BY <1>14b, <2>1, RemoveIsRemove DEF LateRemove, RemoveStep
  <2>2. CASE meta[KeyOf[d]].obj = NoObject
    BY <1>14b, <2>2, LateExpires DEF LateRemove
  <2>3. QED
    BY <2>1, <2>2
<1>15. ASSUME Crash PROVE Register!GiveUp
  <2> DEFINE dying == {r \in Requests : Live(r)}
  <2>0. PICK delayed \in SUBSET Committing : inDoubt' = inDoubt \union delayed
    BY <1>15 DEF Crash
  <2>1. /\ \A r \in dying : Phases[r] \in {"open", "applied", "refused"}
        /\ \A r \in delayed : r \in dying /\ Phases[r] = "open"
    <3>1. \A r \in dying : r \notin inDoubt
      BY DEF Live, Finished, CommittedOK
    <3>2. \A r \in dying : pc[r] \in Labels \ (Finished \union {"idle"})
      BY DEF Live, TypeInv, TypeOK
    <3>3. \A r \in dying : PhaseOf(pc[r]) \in {"open", "applied", "refused"}
      BY <3>2, PhaseNames DEF Labels, Finished
    <3>4. \A r \in delayed : r \in Requests /\ pc[r] \in {"commit", "removing"}
      BY DEF Committing
    <3>5. \A r \in delayed : r \in dying /\ PhaseOf(pc[r]) = "open"
      BY <3>4, PhaseNames DEF Live, Finished
    <3>6. QED
      BY <3>1, <3>3, <3>5 DEF Phases
  <2>2. Phases' = [r \in Requests |-> IF r \in delayed THEN "late"
                                     ELSE IF r \in dying THEN "unknown" ELSE Phases[r]]
    <3>1. \A r \in Requests : pc'[r] = IF Live(r) THEN "crashed" ELSE pc[r]
      BY <1>15 DEF Crash
    <3>2. \A r \in inDoubt : ~Live(r)
      BY DEF Live, Finished, CommittedOK, TypeInv, TypeOK
    <3>3. QED
      BY <2>0, <3>1, <3>2, PhaseNames DEF Phases
  <2>3. UNCHANGED <<meta, base>>
    BY <1>15 DEF Crash
  <2>4. dying \in SUBSET Requests /\ delayed \in SUBSET dying
    BY <2>1
  <2>5. QED
    BY <2>1, <2>2, <2>3, <2>4 DEF Register!GiveUp, Register!Requests, Phases
<1>16. CASE UNCHANGED vars
  BY <1>4, <1>16 DEF vars
<1>17. QED
  BY <1>1, <1>3, <1>5, <1>6, <1>7, <1>8, <1>9, <1>10, <1>11, <1>12, <1>13, <1>14, <1>14a,
     <1>14b, <1>15, <1>16
     DEF Next, Step, PutStep, PutBody, PutDecide, DeleteStep, CleanupStep, NodeStep, Register!Next, Register!Requests

\* With etcd PutObject and DeleteObject are linearizable, and so is PutObject with a
\* store from which nothing is deleted: each request takes effect at one instant
\* between call and answer, and what the caller hears of it is true.
THEOREM Linearizable ==
    ASSUME UniqueRevisions
    PROVE  Spec => ImplementsRegister
<1>1. Init => Register!Init
  BY PhaseNames DEF Init, Register!Init, Register!Requests, Phases
<1>2. RegisterInv /\ [Next]_vars => [Register!Next]_Register!vars
  BY RegisterStep
<1>3. RegisterInv /\ [Next]_vars => SeenCurrent'
  BY SeenStep
<1>4. TypeInv /\ RevisionOK /\ [Next]_vars => RevisionOK'
  BY RevisionStep
<1>5. Spec => []RegisterInv
  BY <1>3, <1>4, SeenInit, RevisionInit, Safety, PTL DEF Spec, RegisterInv
<1>6. QED
  BY <1>1, <1>2, <1>5, PTL DEF Spec, ImplementsRegister, Register!Spec

(***************************************************************************)
(* What reads and scrubs need: they act beside these requests, and their   *)
(* failures are counted in terms of what happened to the nodes.            *)
(***************************************************************************)

\* A step of a read or a scrub: at most it writes replicas back, now or late.
Maintenance ==
    /\ UNCHANGED <<storeVars, damaged, acked, reqVars>>
    /\ faults' \in {faults, faults + 1}
    /\ stored \subseteq stored' /\ stored' \subseteq Replicas
    /\ corrupt' \subseteq corrupt
    /\ late' \subseteq Replicas

\* Writing replicas back (readRepair, Scrub) harms no object.
LEMMA MaintenanceSafe ==
    ASSUME TypeInv, SafetyInv, Maintenance
    PROVE  TypeInv' /\ SafetyInv'
<1> USE DEF Maintenance, storeVars, metaVars, reqVars
<1>1. TypeInv'
  BY DEF TypeInv, TypeOK, FanOutOK
<1>2. Good \union damaged \subseteq (Good \union damaged)'
  BY DEF Good
<1>3. \A o \in Puts : Retired(o) <=> Retired(o)'
  BY DEF Retired, Current
<1>4. \A replica \in acked : replica[1] \in Puts
  BY ReplicaOwner DEF TypeInv, TypeOK, Replicas
<1>5. \A r \in Requests : \A replica \in todo[r] : replica[1] \in Puts
  BY ReplicaOwner DEF TypeInv, TypeOK, Replicas
<1>6. CommittedOK' /\ BaseOK'
  BY DEF SafetyInv, CommittedOK, Uploaded, BaseOK
<1>7. TodoOK'
  BY <1>3, <1>5 DEF SafetyInv, TodoOK
<1>8. AckedOK'
  BY <1>2, <1>3, <1>4 DEF SafetyInv, AckedOK
<1>9. QuorumOK'
  BY DEF SafetyInv, QuorumOK, AckedOn
<1>10. QED
  BY <1>1, <1>6, <1>7, <1>8, <1>9 DEF SafetyInv

\* Nodes damage one replica at a time, and each time it is a fault.
LEMMA StepDamage ==
    ASSUME TypeInv, [Next]_vars
    PROVE  \/ damaged' = damaged /\ faults' \in {faults, faults + 1}
           \/ /\ \E replica \in Replicas : damaged' = damaged \union {replica}
              /\ faults' = faults + 1
<1> USE DEF Fault, storeVars, metaVars, nodeVars, reqVars
<1> DEFINE Spared == damaged' = damaged /\ faults' \in {faults, faults + 1}
<1>1. ASSUME NEW p \in Puts, PutBegin(p) \/ PutStep(p) PROVE Spared
  BY <1>1 DEF PutStep, PutBody, PutDecide, PutBegin, PutFanOut, PutBodyError, PutReadEnd,
              PutStore, PutQuorum, PutCommit, PutConflict, PutCommitError, CommitFails
<1>2. ASSUME NEW d \in Deletes, DeleteBegin(d) \/ DeleteStep(d) PROVE Spared
  BY <1>2 DEF DeleteStep, DeleteBegin, DeleteCommit, DeleteCommitError
<1>3. ASSUME NEW r \in Requests, CleanupStep(r) PROVE Spared
  BY <1>3 DEF CleanupStep, Respond, Reclaim
<1>4. CASE Crash \/ UNCHANGED vars
  BY <1>4 DEF Crash, vars
<1>5. CASE NodeStep
  BY <1>5 DEF NodeStep, LateStore, Corrupt, Lose, LateCommit, LateRemove
<1>6. QED
  BY <1>1, <1>2, <1>3, <1>4, <1>5 DEF Next, Step

\* Only uploads get acknowledgements: a committed object has all it will have.
LEMMA StepAcks ==
    ASSUME TypeInv, SafetyInv, [Next]_vars
    PROVE  /\ acked \subseteq acked'
           /\ \A replica \in acked' \ acked : replica[1] \notin committed
<1> USE DEF storeVars, metaVars, nodeVars, reqVars
<1>1. ASSUME NEW p \in Puts, NEW n \in Nodes, PutStore(p, n)
      PROVE  /\ acked \subseteq acked'
             /\ \A replica \in acked' \ acked : replica[1] \notin committed
  <2>1. p \notin committed
    BY <1>1 DEF PutStore, SafetyInv, CommittedOK
  <2>2. acked' \in {acked, acked \union {<<p, at[p] + 1, n>>}}
    BY <1>1 DEF PutStore
  <2>3. QED
    BY <2>1, <2>2
<1>2. ASSUME NEW p \in Puts,
             \/ PutBegin(p) \/ PutBody(p) \/ PutQuorum(p)
             \/ PutCommit(p) \/ PutConflict(p) \/ PutCommitError(p)
      PROVE  UNCHANGED acked
  BY <1>2 DEF PutBegin, PutFanOut, PutBodyError, PutReadEnd, PutBody, PutQuorum, PutCommit, PutConflict,
              PutCommitError
<1>3. ASSUME NEW d \in Deletes, DeleteBegin(d) \/ DeleteStep(d) PROVE UNCHANGED acked
  BY <1>3 DEF DeleteStep, DeleteBegin, DeleteCommit, DeleteCommitError
<1>4. ASSUME NEW r \in Requests, CleanupStep(r) PROVE UNCHANGED acked
  BY <1>4 DEF CleanupStep, Respond, Reclaim
<1>5. CASE Crash \/ NodeStep \/ UNCHANGED vars
  BY <1>5 DEF Crash, NodeStep, LateStore, Corrupt, Lose, LateCommit, LateRemove, vars
<1>6. QED
  BY <1>1, <1>2, <1>3, <1>4, <1>5 DEF Next, Step, PutStep, PutDecide

\* An object of a key that was committed is under that key or gone for good.
LEMMA CurrentBefore ==
    ASSUME TypeInv, SafetyInv, [Next]_vars, NEW o \in committed, Current(o)'
    PROVE  Current(o)
<1>1. o \in Puts /\ (~Current(o) => Retired(o))
  BY DEF TypeInv, TypeOK, Retired
<1>2. Retired(o)' => ~Current(o)'
  BY DEF Retired
<1>3. QED
  BY <1>1, <1>2, RetiredForEver DEF SafetyInv

\* What was committed stays so.
LEMMA CommittedGrows ==
    ASSUME TypeInv, SafetyInv, [Next]_vars
    PROVE  committed \subseteq committed'
<1>1. CASE QuietStep
  BY <1>1 DEF QuietStep, storeVars, metaVars
<1>2. ASSUME NEW p \in Puts, CommitStep(p) PROVE committed \subseteq committed'
  BY <1>2, CommitEffect DEF SafetyInv
<1>3. ASSUME NEW d \in Deletes, RemoveStep(d) PROVE committed \subseteq committed'
  BY <1>3, RemoveEffect
<1>4. QED
  BY <1>1, <1>2, <1>3, StepShape

\* A fault for each of these replicas, or for a node that did not answer for it.
Accounted(replicas) ==
    IsFiniteSet(damaged \union replicas) /\ Cardinality(damaged \union replicas) <= faults

\* The account stays balanced whatever the requests and the nodes do.
LEMMA AccountedStep ==
    ASSUME TypeInv, [Next]_vars, NEW S, Accounted(S)
    PROVE  IsFiniteSet(damaged' \union S) /\ Cardinality(damaged' \union S) <= faults'
<1> DEFINE D == damaged \union S
<1>1. IsFiniteSet(D) /\ Cardinality(D) \in Nat /\ Cardinality(D) <= faults /\ faults \in Nat
  BY FS_CardinalityType DEF Accounted, TypeInv, TypeOK
<1>2. CASE damaged' = damaged /\ faults' \in {faults, faults + 1}
  BY <1>1, <1>2
<1>3. ASSUME NEW replica \in Replicas, damaged' = damaged \union {replica},
             faults' = faults + 1
      PROVE  IsFiniteSet(damaged' \union S) /\ Cardinality(damaged' \union S) <= faults'
  <2>1. damaged' \union S = D \union {replica}
    BY <1>3
  <2>2. /\ IsFiniteSet(D \union {replica})
        /\ \/ Cardinality(D \union {replica}) = Cardinality(D)
           \/ Cardinality(D \union {replica}) = Cardinality(D) + 1
    BY <1>1, FS_AddElement
  <2>3. Cardinality(D \union {replica}) <= faults'
    BY <1>1, <1>3, <2>2
  <2>4. QED
    BY <2>1, <2>2, <2>3
<1>4. QED
  BY <1>2, <1>3, StepDamage

\* Fewer replicas need no more faults.
LEMMA AccountedLess ==
    ASSUME TypeInv, NEW S, Accounted(S), NEW T, T \subseteq S,
           damaged' = damaged, faults' \in {faults, faults + 1}
    PROVE  IsFiniteSet(damaged' \union T) /\ Cardinality(damaged' \union T) <= faults'
<1>1. damaged \union T \subseteq damaged \union S
  OBVIOUS
<1>2. /\ IsFiniteSet(damaged \union T)
      /\ Cardinality(damaged \union T) <= Cardinality(damaged \union S)
      /\ Cardinality(damaged \union T) \in Nat /\ Cardinality(damaged \union S) \in Nat
  BY <1>1, FS_Subset, FS_CardinalityType DEF Accounted
<1>3. QED
  BY <1>2 DEF Accounted, TypeInv, TypeOK

\* A node that does not answer is one more fault, and one more replica.
LEMMA AccountedFault ==
    ASSUME TypeInv, NEW S, Accounted(S), NEW T, NEW replica,
           T \subseteq S \union {replica},
           damaged' = damaged,
           \/ faults' = faults + 1
           \/ faults' = faults /\ replica \in damaged
    PROVE  IsFiniteSet(damaged' \union T) /\ Cardinality(damaged' \union T) <= faults'
<1> DEFINE D == damaged \union S
<1>1. IsFiniteSet(D) /\ Cardinality(D) \in Nat /\ Cardinality(D) <= faults /\ faults \in Nat
  BY FS_CardinalityType DEF Accounted, TypeInv, TypeOK
<1>2. /\ IsFiniteSet(D \union {replica})
      /\ Cardinality(D \union {replica}) =
            IF replica \in D THEN Cardinality(D) ELSE Cardinality(D) + 1
  BY <1>1, FS_AddElement
<1>3. Cardinality(D \union {replica}) <= faults'
  BY <1>1, <1>2
<1>4. damaged' \union T \subseteq D \union {replica}
  OBVIOUS
<1>5. /\ IsFiniteSet(damaged' \union T)
      /\ Cardinality(damaged' \union T) <= Cardinality(D \union {replica})
  BY <1>2, <1>4, FS_Subset
<1>6. Cardinality(damaged' \union T) \in Nat /\ Cardinality(D \union {replica}) \in Nat
  BY <1>2, <1>5, FS_CardinalityType
<1>7. faults' \in Nat
  BY <1>1
<1>8. QED
  BY <1>3, <1>5, <1>6, <1>7

\* The acknowledged copies of one chunk.
AckedCopies(o, i) == {replica \in acked : replica[1] = o /\ replica[2] = i}

\* If all W acknowledged copies of a chunk are accounted for, W faults were needed.
LEMMA QuorumOfFaults ==
    ASSUME TypeInv, SafetyInv, NEW o \in committed, NEW i \in Chunks(o),
           Accounted(AckedCopies(o, i))
    PROVE  W <= faults
<1> DEFINE A == AckedOn(o, i)
           D == damaged \union AckedCopies(o, i)
           copy == [n \in A |-> <<o, i, n>>]
<1>1. \A n \in A : <<o, i, n>> \in AckedCopies(o, i)
  BY DEF AckedOn, AckedCopies
<1>2. copy \in Injection(A, D)
  <2>1. copy \in [A -> D]
    BY <1>1
  <2>2. \A m, n \in A : copy[m] = copy[n] => m = n
    OBVIOUS
  <2>3. QED
    BY <2>1, <2>2, Fun_IsInj
<1>3. IsFiniteSet(A) /\ Cardinality(A) <= Cardinality(D)
  BY <1>2, FS_Injection DEF Accounted
<1>4. Cardinality(A) \in Nat /\ Cardinality(D) \in Nat
  BY <1>3, FS_CardinalityType DEF Accounted
<1>5. o \in Puts /\ i <= at[o]
  BY ChunkIndex DEF SafetyInv, CommittedOK, TypeInv, TypeOK
<1>6. Cardinality(A) >= W
  BY <1>5 DEF SafetyInv, QuorumOK
<1>7. QED
  BY <1>3, <1>4, <1>6 DEF Accounted, TypeInv, TypeOK

(***************************************************************************)
(* What is left on the nodes when everything went well and nothing was     *)
(* deleted.                                                                *)
(***************************************************************************)

\* deleteChunks starts with the decision of a commit, and Respond waits for its end.
LEMMA CleanupKept ==
    ASSUME TypeInv, CleanupOK, [Next]_vars
    PROVE  CleanupOK'
<1> USE DEF CleanupOK, TypeInv, TypeOK, Goto, storeVars, metaVars, nodeVars, reqVars
<1>1. ASSUME NEW p \in Puts, PutBegin(p) PROVE CleanupOK'
  BY <1>1 DEF PutBegin
<1>2. ASSUME NEW p \in Puts, PutFanOut(p) \/ PutBodyError(p) \/ PutReadEnd(p) \/ PutQuorum(p) PROVE CleanupOK'
  BY <1>2 DEF PutFanOut, PutBodyError, PutReadEnd, PutBody, PutQuorum
<1>3. ASSUME NEW p \in Puts, NEW n \in Nodes, PutStore(p, n) PROVE CleanupOK'
  BY <1>3 DEF PutStore
<1>4. ASSUME NEW p \in Puts, PutCommit(p) \/ PutConflict(p) PROVE CleanupOK'
  BY <1>4 DEF PutCommit, PutConflict
<1>5. ASSUME NEW p \in Puts, PutCommitError(p) PROVE CleanupOK'
  BY <1>5 DEF PutCommitError, Uploaded
<1>6. ASSUME NEW d \in Deletes, DeleteBegin(d) PROVE CleanupOK'
  BY <1>6 DEF DeleteBegin
<1>7. ASSUME NEW d \in Deletes, DeleteCommit(d) PROVE CleanupOK'
  BY <1>7 DEF DeleteCommit
<1>8. ASSUME NEW d \in Deletes, DeleteCommitError(d) PROVE CleanupOK'
  BY <1>8 DEF DeleteCommitError
<1>9. ASSUME NEW r \in Requests, NEW replica \in todo[r], Reclaim(r, replica) PROVE CleanupOK'
  BY <1>9 DEF Reclaim
<1>10. ASSUME NEW r \in Requests, Respond(r) PROVE CleanupOK'
  BY <1>10 DEF Respond
<1>11. CASE NodeStep
  BY <1>11 DEF NodeStep, LateStore, Corrupt, Lose, LateCommit, LateRemove
<1>12. CASE Crash
  BY <1>12 DEF Crash
<1>13. CASE UNCHANGED vars
  BY <1>13 DEF vars
<1>14. QED
  BY <1>1, <1>2, <1>3, <1>4, <1>5, <1>6, <1>7, <1>8, <1>9, <1>10, <1>11, <1>12, <1>13
     DEF Next, Step, PutStep, PutBody, PutDecide, DeleteStep, CleanupStep

\* A node acknowledges only what belongs on it.
LEMMA AckedIntended ==
    ASSUME TypeInv, NEW p \in Puts, NEW i \in Chunks(p)
    PROVE  AckedOn(p, i) \subseteq Placement[p][i]
BY DEF AckedOn, TypeInv, TypeOK, Replicas, ReplicasOf

\* A fault-free step keeps every node holding exactly what it should.
LEMMA TidyStep ==
    ASSUME Deletes = {}, EnoughNodes,
           TypeInv, SafetyInv, RevisionOK, CleanupOK, TidyOK, [Next]_vars
    PROVE  TidyOK'
<1> SUFFICES ASSUME faults' = 0 PROVE TidyOK'
  BY DEF TidyOK
<1> DEFINE AnsweredOK == \A p \in Puts : \A i \in Chunks(p) : \A n \in Placement[p][i] :
                            Answered(p, i, n) => <<p, i, n>> \in acked
           Owned(replica) == \/ Current(replica[1])
                             \/ pc[replica[1]] \in {"chunk", "storing", "commit"}
                             \/ \E r \in Requests : replica \in todo[r]
           OwnedOK == \A replica \in stored : Owned(replica)
           Busy(p) == pc[p] \in {"chunk", "storing", "commit"}
           PlacesOK == \A p \in Puts : /\ pc[p] \notin {"failed", "crashed"}
                                       /\ pc[p] = "storing" => at[p] < Len(Placement[p])
<1> USE DEF Goto, storeVars, metaVars, nodeVars, reqVars
<1>0. faults = 0 /\ faults \in Nat /\ W \in Nat /\ W > 0
  BY StepDamage DEF TypeInv, TypeOK
<1>1. \A kind : ~Fault(kind)
  BY <1>0 DEF Fault
<1>2. late = {} /\ damaged = {} /\ inDoubt = {} /\ AnsweredOK /\ OwnedOK
  BY <1>0 DEF TidyOK
<1>3. PlacesOK
  BY <1>0 DEF TidyOK
<1>4. /\ pc \in [Requests -> Labels] /\ at \in [Puts -> Nat] /\ stored \subseteq Replicas
      /\ sending \in [Puts -> SUBSET Nodes] /\ todo \in [Requests -> SUBSET Replicas]
  BY DEF TypeInv, TypeOK
<1>5. \A replica \in Replicas : replica[1] \in Puts /\ replica \in ReplicasOf(replica[1])
  BY ReplicaOwner DEF Replicas
<1>6. ASSUME late' = {}, damaged' = {}, inDoubt' = {}, AnsweredOK', OwnedOK', PlacesOK'
      PROVE  TidyOK'
  BY <1>6 DEF TidyOK
<1>6a. ASSUME UNCHANGED <<meta, stored, todo>>, \A p \in Puts : Busy(p) => Busy(p)'
      PROVE  OwnedOK'
  <2>1. ASSUME NEW replica \in stored PROVE Owned(replica)'
    <3>1. replica[1] \in Puts /\ Owned(replica)
      BY <1>2, <1>4, <1>5
    <3>2. QED
      BY <1>6a, <3>1 DEF Current
  <2>2. QED
    BY <1>6a, <2>1
<1>7. ASSUME NEW p \in Puts, PutBegin(p) PROVE TidyOK'
  <2>1. /\ pc[p] = "idle" /\ pc' = [pc EXCEPT ![p] = "chunk"]
        /\ UNCHANGED <<meta, stored, inDoubt, late, damaged, acked, at, sending, todo>>
    BY <1>1, <1>7 DEF PutBegin
  <2>2. AnsweredOK'
    BY <1>2, <1>4, <2>1 DEF Answered
  <2>3. OwnedOK'
    BY <1>4, <1>6a, <2>1
  <2>4. QED
    BY <1>2, <1>3, <1>4, <1>6, <2>1, <2>2, <2>3
<1>8. ASSUME NEW p \in Puts, PutFanOut(p) PROVE TidyOK'
  <2>1. at[p] + 1 \in Chunks(p)
    BY <1>4, <1>8, ChunkIndex DEF PutFanOut
  <2>2. Placement[p][at[p] + 1] # {}
    <3>1. Cardinality(Placement[p][at[p] + 1]) >= W
      BY <2>1 DEF EnoughNodes
    <3>2. ~(Cardinality({}) >= W)
      BY <1>0, FS_EmptySet
    <3>3. QED
      BY ONLY <3>1, <3>2
  <2>3. /\ pc[p] = "chunk" /\ pc' = [pc EXCEPT ![p] = "storing"] /\ at[p] < Len(Placement[p])
        /\ sending' = [sending EXCEPT ![p] = Placement[p][at[p] + 1]]
        /\ UNCHANGED <<meta, stored, inDoubt, late, damaged, acked, at, todo>>
    BY <1>1, <1>8, <2>2 DEF PutFanOut
  <2>4. AnsweredOK'
    BY <1>2, <1>4, <2>3 DEF Answered
  <2>5. OwnedOK'
    BY <1>4, <1>6a, <2>3
  <2>6. QED
    BY <1>2, <1>3, <1>4, <1>6, <2>3, <2>4, <2>5
<1>8a. ASSUME NEW p \in Puts, PutReadEnd(p) PROVE TidyOK'
  <2>1. /\ pc[p] = "chunk" /\ pc' = [pc EXCEPT ![p] = "commit"]
        /\ UNCHANGED <<meta, stored, inDoubt, late, damaged, acked, at, sending, todo>>
    BY <1>8a DEF PutReadEnd
  <2>2. AnsweredOK'
    BY <1>2, <1>4, <2>1 DEF Answered
  <2>3. OwnedOK'
    BY <1>4, <1>6a, <2>1
  <2>4. QED
    BY <1>2, <1>3, <1>4, <1>6, <2>1, <2>2, <2>3
<1>9. ASSUME NEW p \in Puts, NEW n \in Nodes, PutStore(p, n) PROVE TidyOK'
  <2>1. /\ pc[p] = "storing" /\ sending' = [sending EXCEPT ![p] = @ \ {n}]
        /\ stored' = stored \union {<<p, at[p] + 1, n>>}
        /\ acked' = acked \union {<<p, at[p] + 1, n>>}
        /\ UNCHANGED <<meta, inDoubt, late, damaged, pc, at, todo>>
    BY <1>1, <1>9 DEF PutStore, Write
  <2>2. AnsweredOK'
    BY <1>2, <1>4, <2>1 DEF Answered
  <2>3. OwnedOK'
    BY <1>2, <1>4, <2>1 DEF Current
  <2>4. QED
    BY <1>2, <1>3, <1>6, <2>1, <2>2, <2>3
<1>10. ASSUME NEW p \in Puts, PutQuorum(p) PROVE TidyOK'
  <2>1. pc[p] = "storing" /\ sending[p] = {}
    BY <1>10 DEF PutQuorum
  <2>2. /\ at' = [at EXCEPT ![p] = @ + 1] /\ pc' = [pc EXCEPT ![p] = "chunk"]
        /\ UNCHANGED <<meta, stored, inDoubt, late, damaged, acked, sending, todo>>
    <3>1. at[p] + 1 \in Chunks(p) /\ Placement[p][at[p] + 1] \subseteq Nodes
      BY <1>3, <1>4, <2>1, ChunkIndex
    <3>2. \A n \in Placement[p][at[p] + 1] : <<p, at[p] + 1, n>> \in acked
      BY <1>2, <2>1, <3>1 DEF Answered
    <3>3. AckedOn(p, at[p] + 1) = Placement[p][at[p] + 1]
      BY <3>1, <3>2, AckedIntended DEF AckedOn
    <3>4. Cardinality(AckedOn(p, at[p] + 1)) >= W
      BY <3>1, <3>3 DEF EnoughNodes
    <3>5. QED
      BY <1>10, <3>4 DEF PutQuorum
  <2>3. AnsweredOK'
    BY <1>2, <1>4, <2>1, <2>2, ChunkIndex DEF Answered
  <2>4. OwnedOK'
    BY <1>4, <1>6a, <2>1, <2>2
  <2>5. QED
    BY <1>2, <1>3, <1>4, <1>6, <2>2, <2>3, <2>4
<1>11. ASSUME NEW p \in Puts, PutCommit(p) PROVE TidyOK'
  <2>1. /\ pc[p] = "commit" /\ pc' = [pc EXCEPT ![p] = "reclaim"]
        /\ todo' = [todo EXCEPT ![p] = ReplicasOf(base[p])]
        /\ UNCHANGED <<stored, inDoubt, late, damaged, acked, at, sending>>
    BY <1>11 DEF PutCommit, Uploaded
  <2>2. /\ meta'[KeyOf[p]].obj = p
        /\ \A k \in Keys : k # KeyOf[p] => meta'[k] = meta[k]
    BY <1>11, CommitEffect DEF PutCommit, CommitStep, SafetyInv
  <2>3. base[p] = meta[KeyOf[p]].obj /\ KeyOf[p] \in Keys
    BY <1>11 DEF PutCommit, Revision, RevisionOK
  <2>4. AnsweredOK'
    BY <1>2, <1>4, <2>1 DEF Answered
  <2>5. ASSUME NEW replica \in stored PROVE Owned(replica)'
    <3>1. CASE replica[1] = p
      BY <2>2, <2>3, <3>1 DEF Current
    <3>2. CASE Current(replica[1]) /\ replica[1] # p
      <4>1. PICK k \in Keys : meta[k].obj = replica[1]
        BY <3>2 DEF Current
      <4>2. CASE k = KeyOf[p]
        <5>1. replica \in ReplicasOf(base[p])
          BY <1>4, <1>5, <2>3, <4>1, <4>2
        <5>2. p \in Requests /\ replica \in todo'[p]
          BY <1>4, <2>1, <5>1
        <5>3. QED
          BY <5>2
      <4>3. CASE k # KeyOf[p]
        BY <2>2, <4>1, <4>3 DEF Current
      <4>4. QED
        BY <4>2, <4>3
    <3>3. CASE pc[replica[1]] \in {"chunk", "storing", "commit"} /\ replica[1] # p
      <4>1. pc'[replica[1]] = pc[replica[1]]
        BY <1>4, <1>5, <2>1, <3>3
      <4>2. QED
        BY <3>3, <4>1
    <3>4. ASSUME NEW r \in Requests, replica \in todo[r] PROVE Owned(replica)'
      <4>1. r # p
        BY <2>1, <3>4 DEF CleanupOK
      <4>2. todo'[r] = todo[r]
        BY <1>4, <2>1, <4>1
      <4>3. QED
        BY <3>4, <4>2
    <3>5. QED
      BY <1>2, <3>1, <3>2, <3>3, <3>4
  <2>6. OwnedOK'
    BY <2>1, <2>5
  <2>7. QED
    BY <1>2, <1>3, <1>4, <1>6, <2>1, <2>4, <2>6
<1>12. ASSUME NEW p \in Puts, PutConflict(p) PROVE TidyOK'
  <2>1. /\ pc[p] = "commit" /\ pc' = [pc EXCEPT ![p] = "withdraw"]
        /\ todo' = [todo EXCEPT ![p] = ReplicasOf(p)]
        /\ UNCHANGED <<meta, stored, inDoubt, late, damaged, acked, at, sending>>
    BY <1>12 DEF PutConflict, Uploaded
  <2>2. AnsweredOK'
    BY <1>2, <1>4, <2>1 DEF Answered
  <2>3. ASSUME NEW replica \in stored PROVE Owned(replica)'
    <3>1. CASE Current(replica[1])
      BY <2>1, <3>1 DEF Current
    <3>2. CASE replica[1] = p
      <4>1. p \in Requests /\ replica \in todo'[p]
        BY <1>4, <1>5, <2>1, <3>2
      <4>2. QED
        BY <4>1
    <3>3. CASE pc[replica[1]] \in {"chunk", "storing", "commit"} /\ replica[1] # p
      <4>1. pc'[replica[1]] = pc[replica[1]]
        BY <1>4, <1>5, <2>1, <3>3
      <4>2. QED
        BY <3>3, <4>1
    <3>4. ASSUME NEW r \in Requests, replica \in todo[r] PROVE Owned(replica)'
      <4>1. r # p
        BY <2>1, <3>4 DEF CleanupOK
      <4>2. todo'[r] = todo[r]
        BY <1>4, <2>1, <4>1
      <4>3. QED
        BY <3>4, <4>2
    <3>5. QED
      BY <1>2, <3>1, <3>2, <3>3, <3>4
  <2>4. OwnedOK'
    BY <2>1, <2>3
  <2>5. QED
    BY <1>2, <1>3, <1>4, <1>6, <2>1, <2>2, <2>4
<1>13. ASSUME NEW r \in Requests, NEW gone \in todo[r], Reclaim(r, gone) PROVE TidyOK'
  <2>1. /\ todo' = [todo EXCEPT ![r] = @ \ {gone}] /\ stored' = stored \ {gone}
        /\ UNCHANGED <<meta, inDoubt, late, damaged, acked, pc, at, sending>>
    BY <1>1, <1>13 DEF Reclaim, Erase
  <2>2. AnsweredOK'
    BY <1>2, <2>1 DEF Answered
  <2>3. ASSUME NEW replica \in stored \ {gone} PROVE Owned(replica)'
    BY <1>2, <1>4, <2>1 DEF Current
  <2>4. QED
    BY <1>2, <1>3, <1>6, <2>1, <2>2, <2>3
<1>14. ASSUME NEW r \in Requests, Respond(r) PROVE TidyOK'
  <2>1. /\ pc[r] \in {"reclaim", "withdraw"}
        /\ \E label \in {"ok", "conflict"} : pc' = [pc EXCEPT ![r] = label]
        /\ UNCHANGED <<meta, stored, inDoubt, late, damaged, acked, at, sending, todo>>
    BY <1>14 DEF Respond
  <2>2. AnsweredOK'
    BY <1>2, <1>4, <2>1 DEF Answered
  <2>3. OwnedOK'
    BY <1>4, <1>6a, <2>1
  <2>4. QED
    BY <1>2, <1>3, <1>4, <1>6, <2>1, <2>2, <2>3
<1>15. ASSUME NEW p \in Puts, PutBodyError(p) \/ PutCommitError(p) PROVE FALSE
  BY <1>1, <1>15 DEF PutBodyError, PutCommitError, CommitFails
<1>16. ASSUME Crash \/ NodeStep PROVE FALSE
  BY <1>1, <1>2, <1>16 DEF Crash, NodeStep, LateStore, Corrupt, Lose, LateCommit, LateRemove
<1>17. CASE UNCHANGED vars
  BY <1>2, <1>3, <1>6, <1>17 DEF vars, Answered, Current
<1>18. QED
  BY <1>7, <1>8, <1>8a, <1>9, <1>10, <1>11, <1>12, <1>13, <1>14, <1>15, <1>16, <1>17
     DEF Next, Step, PutStep, PutBody, PutDecide, CleanupStep

\* When nothing fails and nothing is deleted, every chunk on a node belongs to an
\* object of the metadata once the requests are over: PutObject removes what it
\* replaced (superseded) and what it uploaded in vain (ErrRevisionMismatch).
THEOREM NothingLeftOver ==
    ASSUME Deletes = {}, EnoughNodes
    PROVE  Spec => []NoLeftovers
<1> DEFINE Inv == TypeInv /\ SafetyInv /\ RevisionOK /\ CleanupOK /\ TidyOK
<1>1. Init => CleanupOK /\ TidyOK
  BY DEF Init, CleanupOK, TidyOK, Answered, Chunks
<1>2. RevisionOK /\ TypeInv /\ [Next]_vars => RevisionOK'
  BY RevisionStep DEF UniqueRevisions
<1>3. Inv /\ [Next]_vars => CleanupOK' /\ TidyOK'
  BY CleanupKept, TidyStep
<1>4. Spec => []Inv
  BY <1>1, <1>2, <1>3, RevisionInit, Safety, PTL DEF Spec
<1>5. Inv => NoLeftovers
  <2> SUFFICES ASSUME Inv, Quiescent, faults = 0
               PROVE  stored = UNION {ReplicasOf(meta[k].obj) : k \in Keys}
    BY DEF NoLeftovers
  <2>1. \A k \in Keys : meta[k].obj \in Puts \union {NoObject}
    BY DEF TypeInv, TypeOK
  <2>2. ASSUME NEW replica \in stored PROVE \E k \in Keys : replica \in ReplicasOf(meta[k].obj)
    <3>1. replica[1] \in Puts /\ replica \in ReplicasOf(replica[1])
      BY ReplicaOwner DEF TypeInv, TypeOK, Replicas
    <3>2. Current(replica[1])
      BY <3>1 DEF TidyOK, CleanupOK, Quiescent, Live, Finished
    <3>3. QED
      BY <3>1, <3>2 DEF Current
  <2>3. ASSUME NEW k \in Keys, NEW replica \in ReplicasOf(meta[k].obj) PROVE replica \in stored
    <3> DEFINE o == meta[k].obj
    <3>1. o \in Puts /\ o # NoObject
      BY <2>1, <2>3, ReplicaOwner
    <3>2. o \in committed /\ at[o] = Len(Placement[o]) /\ ~Retired(o)
      BY <3>1 DEF SafetyInv, CommittedOK, Retired, Current
    <3>3. PICK i \in Chunks(o) : \E n \in Placement[o][i] : replica = <<o, i, n>>
      BY <2>3, <3>1 DEF ReplicasOf
    <3>4. i <= at[o]
      BY <3>1, <3>2, ChunkIndex
    <3>5. replica \in acked
      BY <3>1, <3>3, <3>4 DEF TidyOK, Answered
    <3>6. QED
      BY <3>2, <3>3, <3>5 DEF SafetyInv, AckedOK, TidyOK, Good
  <2>4. QED
    BY <2>2, <2>3
<1>6. QED
  BY <1>4, <1>5, PTL

=============================================================================
