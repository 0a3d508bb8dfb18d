----------------------------- MODULE ReadProofs -----------------------------
(***************************************************************************)
(* Proofs about reads beside the writers, for every number of requests,    *)
(* nodes and faults: reads and their repairs harm no object, and a read of *)
(* an object that stays fails only after at least W faults.                *)
(***************************************************************************)
EXTENDS LilioReads, LilioProofs

USE GetAssumption, QuorumAssumption

ReadTypeOK ==
    /\ gpc \in [Gets -> ReadFinished \union {"idle", "head", "next", "trying", "writing"}]
    /\ head \in [Gets -> Puts \union {NoObject}]
    /\ view \in [Gets -> Puts \union {NoObject}]
    /\ sent \in [Gets -> Nat]
    /\ left \in [Gets -> SUBSET Replicas]
    /\ bad \in [Gets -> SUBSET Replicas]
    /\ repairs \subseteq Replicas

\* A read past its metadata delivers an object that was committed.
ViewOK ==
    \A g \in Gets :
        /\ gpc[g] \in {"next", "trying", "writing", "unavailable"} => view[g] \in committed
        /\ gpc[g] = "trying" => sent[g] + 1 \in Chunks(view[g])

\* The acknowledged copies of the current chunk that a read has tried in vain.
Tried(g) == AckedCopies(view[g], sent[g] + 1) \ left[g]

\* As long as its object stays, a read can blame a fault for every copy it misses.
MissesOK ==
    \A g \in Gets : Current(view[g]) =>
        /\ gpc[g] = "trying" => Accounted(Tried(g))
        /\ gpc[g] = "unavailable" => W <= faults

ReadInv == TypeInv /\ SafetyInv /\ ReadTypeOK /\ Accounted({}) /\ ViewOK /\ MissesOK

\* Nothing is read, damaged or repaired yet.
LEMMA ReadStart == ReadInit => ReadInv
<1> SUFFICES ASSUME ReadInit PROVE ReadInv
  OBVIOUS
<1>1. TypeInv /\ SafetyInv
  BY TypeInit, SafetyInit DEF ReadInit
<1>2. ReadTypeOK /\ ViewOK /\ MissesOK
  BY DEF ReadInit, ReadTypeOK, ViewOK, MissesOK
<1>3. Accounted({})
  BY FS_EmptySet DEF ReadInit, Init, Accounted
<1>4. QED
  BY <1>1, <1>2, <1>3 DEF ReadInv

\* A step of one read, its client included.
GetAction(g) == GetHead(g) \/ GetStep(g) \/ GetWrite(g) \/ GetAbort(g)

\* What the steps of a read change outside of it: at most the count of faults.
LEMMA GetIsMaintenance ==
    ASSUME ReadInv, NEW g \in Gets, GetAction(g)
    PROVE  Maintenance /\ repairs' \subseteq repairs \union bad[g]
<1> USE DEF ReadInv, TypeInv, TypeOK, Maintenance, vars, storeVars, metaVars, nodeVars, reqVars, Fault
<1>1. CASE GetHead(g)
  BY <1>1 DEF GetHead
<1>2. CASE GetBegin(g) \/ GetAbort(g)
  BY <1>2 DEF GetBegin, GetAbort
<1>3. CASE GetChunk(g) \/ GetDone(g) \/ GetExhausted(g) \/ GetWrite(g)
  BY <1>3 DEF GetChunk, GetDone, GetExhausted, GetWrite
<1>4. ASSUME NEW replica \in left[g],
             GetMiss(g, replica) \/ GetCorrupt(g, replica) \/ GetGood(g, replica)
      PROVE  Maintenance /\ repairs' \subseteq repairs \union bad[g]
  BY <1>4 DEF GetMiss, GetCorrupt, GetGood
<1>5. QED
  BY <1>1, <1>2, <1>3, <1>4 DEF GetAction, GetStep

\* A readRepair only puts a replica back where its object has one.
LEMMA RepairIsMaintenance ==
    ASSUME ReadInv, RepairStep
    PROVE  Maintenance /\ repairs' \subseteq repairs
           /\ UNCHANGED <<gpc, head, view, sent, left, bad>>
BY DEF RepairStep, ReadRepair, ReadInv, ReadTypeOK, TypeInv, TypeOK, Maintenance, Write,
       storeVars, metaVars, nodeVars, reqVars, Fault

\* What the writers and the nodes do leaves the reads where they are or kills them.
LEMMA WriterIsNext ==
    ASSUME (Step /\ UNCHANGED readVars) \/ ReadCrash \/ UNCHANGED <<vars, readVars>>
    PROVE  /\ [Next]_vars
           /\ UNCHANGED <<head, view, sent, left, bad>> /\ repairs' \subseteq repairs
           /\ \/ gpc' = gpc
              \/ gpc' = [g \in Gets |->
                           IF gpc[g] \in ReadFinished \union {"idle"} THEN gpc[g] ELSE "crashed"]
BY DEF ReadCrash, Next, readVars

\* The steps of ReadNext by kind.
LEMMA ReadKinds ==
    ASSUME ReadInv, [ReadNext]_<<vars, readVars>>
    PROVE  \/ (Step /\ UNCHANGED readVars) \/ ReadCrash \/ UNCHANGED <<vars, readVars>>
           \/ \E g \in Gets : GetAction(g)
           \/ RepairStep
BY DEF ReadNext, GetAction

\* Neither a read nor a repair harms an object: the write path keeps its invariant.
LEMMA ReadSafetyStep ==
    ASSUME ReadInv, [ReadNext]_<<vars, readVars>>
    PROVE  TypeInv' /\ SafetyInv'
<1> USE DEF ReadInv
<1>1. CASE [Next]_vars
  BY <1>1, TypeStep, SafetyStep
<1>2. CASE Maintenance
  BY <1>2, MaintenanceSafe
<1>3. QED
  BY <1>1, <1>2, ReadKinds, WriterIsNext, GetIsMaintenance, RepairIsMaintenance

\* Replicas a read asks for are replicas of its object.
LEMMA ReadTypeStep ==
    ASSUME ReadInv, [ReadNext]_<<vars, readVars>>
    PROVE  ReadTypeOK'
<1> USE DEF ReadInv, ReadTypeOK, ReadFinished, GoOn
<1>1. CASE (Step /\ UNCHANGED readVars) \/ ReadCrash \/ UNCHANGED <<vars, readVars>>
  BY <1>1, WriterIsNext
<1>2. CASE RepairStep
  BY <1>2, RepairIsMaintenance
<1>3. ASSUME NEW g \in Gets, GetAction(g) PROVE ReadTypeOK'
  <2>1. repairs' \subseteq Replicas
    BY <1>3, GetIsMaintenance
  <2>2. \A k \in Keys : meta[k].obj \in Puts \union {NoObject}
    BY DEF TypeInv, TypeOK
  <2>3. KeyRead[g] \in Keys
    OBVIOUS
  <2>4. CASE GetHead(g)
    BY <2>1, <2>2, <2>3, <2>4 DEF GetHead
  <2>5. CASE GetBegin(g)
    BY <2>1, <2>2, <2>3, <2>5 DEF GetBegin
  <2>6. CASE GetChunk(g)
    <3>1. {<<view[g], sent[g] + 1, n>> : n \in Placement[view[g]][sent[g] + 1]} \subseteq Replicas
      <4>1. view[g] \in Puts
        BY <2>6 DEF GetChunk, ViewOK, TypeInv, TypeOK
      <4>2. sent[g] + 1 \in Chunks(view[g])
        BY <2>6, <4>1, ChunkIndex DEF GetChunk
      <4>3. QED
        BY <4>1, <4>2, ReplicaOfChunk, ReplicasOfIsReplicas
    <3>2. left' \in [Gets -> SUBSET Replicas]
      BY <2>6, <3>1 DEF GetChunk
    <3>3. QED
      BY <2>1, <2>6, <3>2 DEF GetChunk
  <2>7. CASE GetDone(g) \/ GetExhausted(g) \/ GetAbort(g)
    BY <2>1, <2>7 DEF GetDone, GetExhausted, GetAbort
  <2>8. ASSUME NEW replica \in left[g],
               GetMiss(g, replica) \/ GetCorrupt(g, replica) \/ GetGood(g, replica)
        PROVE  ReadTypeOK'
    <3>1. CASE GetMiss(g, replica)
      BY <2>1, <3>1 DEF GetMiss
    <3>2. CASE GetCorrupt(g, replica)
      BY <2>1, <3>2 DEF GetCorrupt
    <3>3. CASE GetGood(g, replica)
      BY <2>1, <3>3 DEF GetGood
    <3>4. QED
      BY <2>8, <3>1, <3>2, <3>3
  <2>9. CASE GetWrite(g)
    <3>1. sent' \in [Gets -> Nat]
      BY <2>9 DEF GetWrite
    <3>2. gpc' = [gpc EXCEPT ![g] = "next"] \/ gpc' = [gpc EXCEPT ![g] = "failed"]
      BY <2>9 DEF GetWrite
    <3>3. QED
      BY <2>1, <2>9, <3>1, <3>2 DEF GetWrite
  <2>10. QED
    BY <1>3, <2>4, <2>5, <2>6, <2>7, <2>8, <2>9 DEF GetAction, GetStep
<1>4. QED
  BY <1>1, <1>2, <1>3, ReadKinds

\* GetObject delivers what the metadata named, one chunk after another.
LEMMA ViewStep ==
    ASSUME ReadInv, [ReadNext]_<<vars, readVars>>
    PROVE  ViewOK'
<1> USE DEF ReadInv, ReadTypeOK, ViewOK, GoOn
<1>1. CASE (Step /\ UNCHANGED readVars) \/ ReadCrash \/ UNCHANGED <<vars, readVars>>
  <2>1. committed \subseteq committed'
    BY <1>1, WriterIsNext, CommittedGrows
  <2>2. \A g \in Gets : gpc'[g] = gpc[g] \/ gpc'[g] = "crashed"
    BY <1>1, WriterIsNext
  <2>3. QED
    BY <1>1, <2>1, <2>2, WriterIsNext
<1>2. CASE RepairStep
  BY <1>2, RepairIsMaintenance DEF Maintenance, storeVars, metaVars
<1>3. ASSUME NEW g \in Gets, GetAction(g) PROVE ViewOK'
  <2>1. committed' = committed
    BY <1>3, GetIsMaintenance DEF Maintenance, storeVars, metaVars
  <2>2. CASE GetBegin(g)
    <3>1. KeyRead[g] \in Keys
      OBVIOUS
    <3>2. meta[KeyRead[g]].obj # NoObject => meta[KeyRead[g]].obj \in committed
      BY <3>1 DEF SafetyInv, CommittedOK
    <3>3. QED
      BY <2>1, <2>2, <3>2 DEF GetBegin
  <2>3. CASE GetChunk(g)
    <3>1. view[g] \in Puts
      BY <2>3 DEF GetChunk, TypeInv, TypeOK
    <3>2. sent[g] + 1 \in Chunks(view[g])
      BY <2>3, <3>1, ChunkIndex DEF GetChunk
    <3>3. QED
      BY <2>1, <2>3, <3>2 DEF GetChunk
  <2>4. CASE GetHead(g) \/ GetDone(g) \/ GetExhausted(g) \/ GetAbort(g)
    BY <2>1, <2>4 DEF GetHead, GetDone, GetExhausted, GetAbort
  <2>5. ASSUME NEW replica \in left[g],
               GetMiss(g, replica) \/ GetCorrupt(g, replica) \/ GetGood(g, replica)
        PROVE  ViewOK'
    BY <2>1, <2>5 DEF GetMiss, GetCorrupt, GetGood
  <2>6. CASE GetWrite(g)
    <3>1. gpc' = [gpc EXCEPT ![g] = "next"] \/ gpc' = [gpc EXCEPT ![g] = "failed"]
      BY <2>6 DEF GetWrite
    <3>2. view[g] \in committed /\ view' = view
      BY <2>6 DEF GetWrite
    <3>3. \A h \in Gets : h # g => sent'[h] = sent[h]
      BY <2>6 DEF GetWrite
    <3>4. QED
      BY <2>1, <3>1, <3>2, <3>3
  <2>7. QED
    BY <1>3, <2>2, <2>3, <2>4, <2>5, <2>6 DEF GetAction, GetStep
<1>4. QED
  BY <1>1, <1>2, <1>3, ReadKinds

\* Of an object that stays, the read misses a copy only through a fault of its own:
\* the node lost or damaged it, or does not answer.
LEMMA MissStep ==
    ASSUME ReadInv, NEW g \in Gets, NEW replica \in left[g],
           GetMiss(g, replica) \/ GetCorrupt(g, replica), Current(view[g])
    PROVE  Accounted(Tried(g))'
<1> USE DEF ReadInv, ReadTypeOK
<1>1. Accounted(Tried(g))
  BY DEF MissesOK, GetMiss, GetCorrupt
<1>2. UNCHANGED <<acked, damaged, view, sent>>
  BY DEF GetMiss, GetCorrupt, vars, nodeVars
<1>3. Tried(g)' \subseteq Tried(g) \union ({replica} \intersect AckedCopies(view[g], sent[g] + 1))
  <2>1. left'[g] = left[g] \ {replica}
    BY DEF GetMiss, GetCorrupt
  <2>2. QED
    BY <1>2, <2>1 DEF Tried, AckedCopies
<1>4. CASE replica \notin AckedCopies(view[g], sent[g] + 1)
  <2>1. Tried(g)' \subseteq Tried(g)
    BY <1>3, <1>4
  <2>2. faults' \in {faults, faults + 1}
    BY DEF GetMiss, GetCorrupt, Fault, vars
  <2>3. QED
    BY <1>1, <1>2, <2>1, <2>2, AccountedLess DEF Accounted
<1>5. CASE replica \in AckedCopies(view[g], sent[g] + 1)
  <2>1. replica \in Good \union damaged
    <3>1. replica \in acked /\ replica[1] = view[g]
      BY <1>5 DEF AckedCopies
    <3>2. ~Retired(view[g])
      BY DEF Retired
    <3>3. QED
      BY <3>1, <3>2 DEF SafetyInv, AckedOK
  <2>2. faults' = faults + 1 \/ (faults' = faults /\ replica \in damaged)
    BY <2>1 DEF GetMiss, GetCorrupt, Fault, Good, vars
  <2>3. IsFiniteSet(damaged' \union Tried(g)') /\ Cardinality(damaged' \union Tried(g)') <= faults'
    BY <1>1, <1>2, <1>3, <2>2, AccountedFault
  <2>4. QED
    BY <2>3 DEF Accounted
<1>6. QED
  BY <1>4, <1>5

\* The accounts of all reads stay balanced.
LEMMA MissesStep ==
    ASSUME ReadInv, [ReadNext]_<<vars, readVars>>
    PROVE  Accounted({})' /\ MissesOK'
<1> USE DEF ReadInv, ReadTypeOK
<1>0. W \in Nat /\ faults \in Nat
  BY DEF TypeInv, TypeOK
<1>1. CASE (Step /\ UNCHANGED readVars) \/ ReadCrash \/ UNCHANGED <<vars, readVars>>
  <2>1. Accounted({})'
    BY <1>1, WriterIsNext, AccountedStep DEF Accounted
  <2>2. faults' \in {faults, faults + 1}
    BY <1>1, WriterIsNext, StepDamage
  <2>3. ASSUME NEW g \in Gets, Current(view[g])',
               gpc'[g] \in {"trying", "unavailable"}
        PROVE  /\ gpc'[g] = "trying" => Accounted(Tried(g))'
               /\ gpc'[g] = "unavailable" => W <= faults'
    <3>1. gpc[g] = gpc'[g]
      BY <1>1, <2>3, WriterIsNext
    <3>2. view'[g] = view[g] /\ view[g] \in committed
      BY <1>1, <2>3, <3>1, WriterIsNext DEF ViewOK
    <3>3. Current(view[g])
      <4>1. [Next]_vars
        BY <1>1, WriterIsNext
      <4>2. \E k \in Keys : meta'[k].obj = view[g]
        BY <2>3, <3>2 DEF Current
      <4>3. QED
        BY <3>2, <4>1, <4>2, CurrentBefore DEF Current
    <3>4. Tried(g)' = Tried(g)
      <4>1. AckedCopies(view[g], sent[g] + 1)' = AckedCopies(view[g], sent[g] + 1)
        BY <1>1, <3>2, WriterIsNext, StepAcks DEF AckedCopies
      <4>2. QED
        BY <1>1, <4>1, WriterIsNext DEF Tried
    <3>5. gpc[g] = "trying" => Accounted(Tried(g))'
      BY <1>1, <3>3, <3>4, WriterIsNext, AccountedStep DEF Accounted, MissesOK
    <3>6. gpc[g] = "unavailable" => W <= faults'
      BY <1>0, <2>2, <3>3 DEF MissesOK
    <3>7. QED
      BY <3>1, <3>5, <3>6
  <2>4. QED
    BY <2>1, <2>3 DEF MissesOK
<1>2. ASSUME Maintenance PROVE Accounted({})'
  <2>1. Cardinality(damaged \union {}) \in Nat
    BY FS_CardinalityType DEF Accounted
  <2>2. QED
    BY <1>0, <1>2, <2>1 DEF Maintenance, Accounted
<1>3. ASSUME Maintenance, NEW g \in Gets,
             gpc'[g] = gpc[g], view'[g] = view[g], sent'[g] = sent[g], left'[g] = left[g],
             Current(view[g])'
      PROVE  /\ gpc'[g] = "trying" => Accounted(Tried(g))'
             /\ gpc'[g] = "unavailable" => W <= faults'
  <2>1. Current(view[g])
    BY <1>3 DEF Current, Maintenance, storeVars, metaVars
  <2>2. Tried(g)' = Tried(g) /\ damaged' = damaged
    BY <1>3 DEF Tried, AckedCopies, Maintenance
  <2>3. faults' \in {faults, faults + 1}
    BY <1>3 DEF Maintenance
  <2>4. gpc[g] = "trying" => Accounted(Tried(g))'
    <3>1. SUFFICES ASSUME gpc[g] = "trying" PROVE Accounted(Tried(g))'
      OBVIOUS
    <3>2. Accounted(Tried(g))
      BY <2>1, <3>1 DEF MissesOK
    <3>3. Cardinality(damaged \union Tried(g)) \in Nat
      BY <3>2, FS_CardinalityType DEF Accounted
    <3>4. QED
      BY <1>0, <2>2, <2>3, <3>2, <3>3 DEF Accounted
  <2>5. gpc[g] = "unavailable" => W <= faults'
    BY <1>0, <2>1, <2>3 DEF MissesOK
  <2>6. QED
    BY <1>3, <2>4, <2>5
<1>4. CASE RepairStep
  BY <1>2, <1>3, <1>4, RepairIsMaintenance DEF MissesOK
<1>5. ASSUME NEW g \in Gets, GetAction(g) PROVE Accounted({})' /\ MissesOK'
  <2>1. Maintenance
    BY <1>5, GetIsMaintenance
  <2>2. \A h \in Gets : h # g =>
           gpc'[h] = gpc[h] /\ view'[h] = view[h] /\ sent'[h] = sent[h] /\ left'[h] = left[h]
    <3>1. ASSUME NEW replica \in left[g],
                 GetMiss(g, replica) \/ GetCorrupt(g, replica) \/ GetGood(g, replica)
          PROVE  \A h \in Gets : h # g =>
                    gpc'[h] = gpc[h] /\ view'[h] = view[h] /\ sent'[h] = sent[h] /\ left'[h] = left[h]
      BY <3>1 DEF GetMiss, GetCorrupt, GetGood, GoOn
    <3>2. QED
      BY <1>5, <3>1 DEF GetAction, GetHead, GetStep, GetBegin, GetChunk, GetDone,
                        GetExhausted, GetWrite, GetAbort, GoOn
  <2>3. ASSUME Current(view[g])'
        PROVE  /\ gpc'[g] = "trying" => Accounted(Tried(g))'
               /\ gpc'[g] = "unavailable" => W <= faults'
    <3>1. CASE GetHead(g) \/ GetBegin(g) \/ GetDone(g) \/ GetWrite(g) \/ GetAbort(g)
      BY <3>1 DEF GetHead, GetBegin, GetDone, GetWrite, GetAbort, GoOn
    <3>2. CASE GetChunk(g)
      <4>1. Tried(g)' = {}
        <5>1. /\ left'[g] = {<<view[g], sent[g] + 1, n>> : n \in Placement[view[g]][sent[g] + 1]}
              /\ view' = view /\ sent' = sent /\ acked' = acked
          BY <3>2 DEF GetChunk, vars, nodeVars
        <5>2. \A replica \in Replicas : \A o, i :
                 replica[1] = o /\ replica[2] = i =>
                    \E n \in Placement[o][i] : replica = <<o, i, n>>
          BY DEF Replicas, ReplicasOf
        <5>3. QED
          BY <5>1, <5>2 DEF Tried, AckedCopies, TypeInv, TypeOK
      <4>2. gpc'[g] = "trying"
        BY <3>2 DEF GetChunk, GoOn
      <4>3. Accounted(Tried(g))'
        BY <1>2, <2>1, <4>1 DEF Accounted
      <4>4. QED
        BY <4>2, <4>3
    <3>3. CASE GetExhausted(g)
      <4>1. gpc[g] = "trying" /\ left[g] = {} /\ gpc'[g] = "unavailable"
            /\ faults' = faults /\ view' = view /\ meta' = meta
        BY <3>3 DEF GetExhausted, GoOn, vars, storeVars, metaVars
      <4>2. Accounted(AckedCopies(view[g], sent[g] + 1))
        BY <2>3, <4>1 DEF MissesOK, Tried, Current
      <4>3. W <= faults
        BY <4>1, <4>2, QuorumOfFaults DEF ViewOK
      <4>4. QED
        BY <4>1, <4>3
    <3>4. ASSUME NEW replica \in left[g], GetGood(g, replica)
          PROVE  gpc'[g] = "writing"
      BY <3>4 DEF GetGood, GoOn
    <3>5. ASSUME NEW replica \in left[g], GetMiss(g, replica) \/ GetCorrupt(g, replica)
          PROVE  gpc'[g] = "trying" /\ Accounted(Tried(g))'
      <4>1. gpc'[g] = "trying" /\ view' = view
        BY <3>5 DEF GetMiss, GetCorrupt
      <4>2. Current(view[g])
        BY <2>1, <2>3, <4>1 DEF Maintenance, storeVars, metaVars, Current
      <4>3. QED
        BY <3>5, <4>1, <4>2, MissStep
    <3>6. QED
      BY <1>5, <3>1, <3>2, <3>3, <3>4, <3>5 DEF GetAction, GetStep
  <2>4. QED
    BY <1>2, <1>3, <2>1, <2>2, <2>3 DEF MissesOK
<1>6. QED
  BY <1>1, <1>4, <1>5, ReadKinds

(***************************************************************************)
(* The theorems.                                                           *)
(***************************************************************************)

\* Everything the theorems rest on is invariant.
LEMMA ReadInvariant == ReadSpec => []ReadInv
<1>1. ReadInv /\ [ReadNext]_<<vars, readVars>> => ReadInv'
  BY ReadSafetyStep, ReadTypeStep, ViewStep, MissesStep DEF ReadInv
<1>2. QED
  BY <1>1, ReadStart, PTL DEF ReadSpec

\* A GET of an object that stays finds every chunk unless the nodes lost, damaged or
\* withheld at least W copies: no writer, cleanup or repair makes it fail (ADR 0003).
THEOREM IntactIsReadable == ReadSpec => []ReadableWhileIntact
<1>1. ReadInv => ReadableWhileIntact
  <2> SUFFICES ASSUME ReadInv, NEW g \in Gets, gpc[g] = "unavailable", Current(view[g])
               PROVE  faults >= W
    BY DEF ReadableWhileIntact
  <2>1. W <= faults
    BY DEF ReadInv, MissesOK
  <2>2. QED
    BY <2>1 DEF ReadInv, TypeInv, TypeOK
<1>2. QED
  BY <1>1, ReadInvariant, PTL

\* A committed object keeps its write quorum beside reads and their detached
\* repairs, which write chunks whose object may be gone (readRepair).
THEOREM DurableBesideReads == ReadSpec => []CommittedDurable
<1>1. ReadInv => CommittedDurable
  BY DurableNow DEF ReadInv
<1>2. QED
  BY <1>1, ReadInvariant, PTL

=============================================================================
