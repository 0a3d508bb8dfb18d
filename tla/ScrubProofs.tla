---------------------------- MODULE ScrubProofs ----------------------------
(***************************************************************************)
(* Proofs about scrub passes beside the writers, for every number of       *)
(* requests, nodes, passes and faults and every mix of options: a pass     *)
(* harms no object, and its report wrongs none that stayed.                *)
(***************************************************************************)
EXTENDS LilioScrub, LilioProofs

USE RequestAssumption, QuorumAssumption, ModeAssumption

AllChunks == UNION {ChunksOf(p) : p \in Puts}

ScrubTypeOK ==
    /\ spc \in {"idle", "scan", "probe", "verify", "repair", "orphans"}
    /\ keysLeft \subseteq Keys
    /\ chunksLeft \subseteq AllChunks
    /\ spc \in {"probe", "verify", "repair"} => chunk \in AllChunks
    /\ errors \in BOOLEAN
    /\ lost \subseteq AllChunks
    /\ orphans \subseteq Replicas

\* The nodes of a chunk that is probed are still to be asked, or have answered.
ProbeOK ==
    /\ spc = "probe" => NodesOf(chunk) \subseteq asking \union healthy \union broken
    /\ spc \in {"probe", "verify", "repair"} =>
          asking \union healthy \union broken \subseteq NodesOf(chunk)

\* An object called steady is there now.
SteadyOK == steady \subseteq CurrentObjects

\* A pass without errors refers to the chunks of every object that stayed, as soon
\* as it has read the object's key.
SeenOK ==
    /\ spc = "orphans" => keysLeft = {}
    /\ spc # "idle" /\ ~errors =>
          \A o \in steady : KeyOf[o] \in keysLeft \/ ChunksOf(o) \subseteq referenced

\* The acknowledged copies of the chunk that the pass has found missing.
Missed ==
    {copy \in AckedCopies(chunk[1], chunk[2]) :
        copy[3] \in IF spc = "verify" THEN NodesOf(chunk) \ asking ELSE broken}

\* Unless it was cancelled, a pass can blame a fault for each copy it misses of an
\* object that stays.
BlameOK ==
    spc \in {"probe", "verify"} /\ chunk[1] \in steady /\ ~cancelled => Accounted(Missed)

ScrubInv ==
    /\ TypeInv /\ SafetyInv /\ Accounted({})
    /\ ScrubTypeOK /\ ProbeOK /\ SteadyOK /\ SeenOK /\ BlameOK
    /\ OrphansAreGarbage /\ NoFalseAlarm

\* Before the first pass nothing is reported and no fault is needed.
LEMMA ScrubStart == ScrubInit => ScrubInv
<1> SUFFICES ASSUME ScrubInit PROVE ScrubInv
  OBVIOUS
<1>1. TypeInv /\ SafetyInv
  BY TypeInit, SafetyInit DEF ScrubInit
<1>2. ScrubTypeOK /\ ProbeOK /\ SteadyOK /\ SeenOK /\ BlameOK
  BY DEF ScrubInit, ScrubTypeOK, ProbeOK, SteadyOK, SeenOK, BlameOK
<1>3. Accounted({})
  BY FS_EmptySet DEF ScrubInit, Init, Accounted
<1>4. OrphansAreGarbage /\ NoFalseAlarm
  BY DEF ScrubInit, OrphansAreGarbage, NoFalseAlarm
<1>5. QED
  BY <1>1, <1>2, <1>3, <1>4 DEF ScrubInv

\* A chunk of an object is on nodes, and every copy there is a replica.
LEMMA ScrubbedChunk ==
    ASSUME NEW c \in AllChunks
    PROVE  /\ c[1] \in Puts /\ c[2] \in Chunks(c[1]) /\ c = <<c[1], c[2]>>
           /\ NodesOf(c) \subseteq Nodes
           /\ \A n \in NodesOf(c) : Copy(c, n) \in Replicas
<1>1. PICK p \in Puts : c \in ChunksOf(p)
  BY DEF AllChunks
<1>2. PICK i \in Chunks(p) : c = <<p, i>>
  BY <1>1 DEF ChunksOf
<1>3. Placement[p][i] \subseteq Nodes
  <2>1. Placement[p] \in Seq(SUBSET Nodes)
    OBVIOUS
  <2>2. QED
    BY <2>1 DEF Chunks
<1>4. \A n \in Placement[p][i] : <<p, i, n>> \in Replicas
  BY ReplicaOfChunk, ReplicasOfIsReplicas
<1>5. QED
  BY <1>2, <1>3, <1>4 DEF NodesOf, Copy

\* A replica is the copy of one of the chunks on one of its nodes.
LEMMA ReplicaChunk ==
    ASSUME NEW replica \in Replicas
    PROVE  LET c == <<replica[1], replica[2]>> IN
           c \in ChunksOf(replica[1]) /\ replica[3] \in NodesOf(c) /\ replica = Copy(c, replica[3])
BY DEF Replicas, ReplicasOf, ChunksOf, NodesOf, Copy

\* A pass writes nothing but missing copies of chunks it checked.
LEMMA ScrubIsMaintenance ==
    ASSUME ScrubInv, (\E m \in Modes : ScrubBegin(m)) \/ ScrubStep \/ ScrubCancel
    PROVE  Maintenance
<1> USE DEF ScrubInv, TypeInv, TypeOK, Maintenance, vars, worldVars, storeVars, metaVars,
            nodeVars, reqVars, Fault, Fails
<1>1. ASSUME NEW n \in Nodes, ScrubRepair(n) PROVE Maintenance
  <2>1. Copy(chunk, n) \in Replicas
    BY <1>1, ScrubbedChunk DEF ScrubRepair, ProbeOK, ScrubTypeOK
  <2>2. QED
    BY <1>1, <2>1 DEF ScrubRepair, Write
<1>2. ASSUME NEW m \in Modes, ScrubBegin(m) PROVE Maintenance
  BY <1>2 DEF ScrubBegin
<1>3. ASSUME NEW k \in keysLeft, ScrubRead(k) PROVE Maintenance
  BY <1>3 DEF ScrubRead
<1>4. ASSUME NEW c \in chunksLeft, ScrubChunk(c) PROVE Maintenance
  BY <1>4 DEF ScrubChunk
<1>5. ASSUME NEW n \in Nodes, ScrubProbe(n) \/ ScrubFetch(n) \/ ScrubOrphans(n)
      PROVE  Maintenance
  BY <1>5 DEF ScrubProbe, ScrubFetch, ScrubOrphans
<1>6. \/ ScrubJudge \/ ScrubNoCopy \/ ScrubRepaired \/ ScrubScanned \/ ScrubEnd
      \/ ScrubAbort \/ ScrubCancel
      => Maintenance
  BY DEF ScrubJudge, ScrubNoCopy, ScrubRepaired, ScrubScanned, ScrubEnd, ScrubAbort, ScrubCancel
<1>7. QED
  BY <1>1, <1>2, <1>3, <1>4, <1>5, <1>6 DEF ScrubStep

\* The other steps are steps of the writers; a pass goes on beside them or dies.
LEMMA ScrubKinds ==
    ASSUME [ScrubNext]_<<vars, scrubVars>>
    PROVE  \/ (\E m \in Modes : ScrubBegin(m)) \/ ScrubStep \/ ScrubCancel
           \/ OtherStep
           \/ ScrubCrash
           \/ UNCHANGED <<vars, scrubVars>>
BY DEF ScrubNext

LEMMA OtherIsNext ==
    ASSUME OtherStep \/ ScrubCrash \/ UNCHANGED <<vars, scrubVars>>
    PROVE  /\ [Next]_vars
           /\ steady' \subseteq steady
           /\ \/ UNCHANGED <<spc, scanVars, probeVars, report>>
              \/ Discard
<1>1. CASE OtherStep
  BY <1>1 DEF OtherStep, Next
<1>2. CASE ScrubCrash
  <2>1. steady' = {}
    BY <1>2 DEF ScrubCrash, Discard
  <2>2. QED
    BY <1>2, <2>1 DEF ScrubCrash, Next
<1>3. CASE UNCHANGED <<vars, scrubVars>>
  BY <1>3 DEF scrubVars
<1>4. QED
  BY <1>1, <1>2, <1>3

\* A pass harms no object: the write path keeps its invariant.
LEMMA ScrubSafetyStep ==
    ASSUME ScrubInv, [ScrubNext]_<<vars, scrubVars>>
    PROVE  TypeInv' /\ SafetyInv' /\ Accounted({})'
<1> USE DEF ScrubInv
<1>1. CASE [Next]_vars
  BY <1>1, TypeStep, SafetyStep, AccountedStep DEF Accounted
<1>2. CASE Maintenance
  <2>1. damaged' = damaged /\ faults' \in {faults, faults + 1}
    BY <1>2 DEF Maintenance
  <2>2. QED
    BY <1>2, <2>1, MaintenanceSafe, AccountedLess DEF Accounted
<1>3. QED
  BY <1>1, <1>2, ScrubKinds, OtherIsNext, ScrubIsMaintenance

\* The options, and what a step leaves alone whatever else it does.
LEMMA ScrubTypeStep ==
    ASSUME ScrubInv, [ScrubNext]_<<vars, scrubVars>>
    PROVE  ScrubTypeOK' /\ ProbeOK'
<1> USE DEF ScrubInv, ScrubTypeOK, ProbeOK, scanVars, probeVars, report
<1>1. CASE OtherStep \/ ScrubCrash \/ UNCHANGED <<vars, scrubVars>>
  <2>1. CASE UNCHANGED <<spc, scanVars, probeVars, report>>
    BY <2>1
  <2>2. CASE Discard
    BY <2>2 DEF Discard, NotProbing
  <2>3. QED
    BY <1>1, <2>1, <2>2, OtherIsNext
<1>2. ASSUME NEW m \in Modes, ScrubBegin(m) PROVE ScrubTypeOK' /\ ProbeOK'
  BY <1>2 DEF ScrubBegin, NotProbing
<1>3. ASSUME NEW k \in keysLeft, ScrubRead(k) PROVE ScrubTypeOK' /\ ProbeOK'
  <2>1. chunksLeft' \subseteq AllChunks
    <3>1. meta[k].obj \in Puts \union {NoObject}
      BY DEF TypeInv, TypeOK
    <3>2. ChunksOf(meta[k].obj) \subseteq AllChunks
      BY <3>1 DEF ChunksOf, AllChunks
    <3>3. QED
      BY <1>3, <3>2 DEF ScrubRead
  <2>2. errors' \in BOOLEAN /\ keysLeft' \subseteq Keys
    BY <1>3 DEF ScrubRead
  <2>3. QED
    BY <1>3, <2>1, <2>2 DEF ScrubRead
<1>4. ASSUME NEW c \in chunksLeft, ScrubChunk(c) PROVE ScrubTypeOK' /\ ProbeOK'
  BY <1>4 DEF ScrubChunk
<1>5. ASSUME NEW n \in Nodes, ScrubProbe(n) PROVE ScrubTypeOK' /\ ProbeOK'
  BY <1>5 DEF ScrubProbe
<1>6. ASSUME NEW n \in Nodes, ScrubFetch(n) PROVE ScrubTypeOK' /\ ProbeOK'
  BY <1>6 DEF ScrubFetch
<1>7. ASSUME NEW n \in Nodes, ScrubRepair(n) PROVE ScrubTypeOK' /\ ProbeOK'
  BY <1>7 DEF ScrubRepair
<1>8. ASSUME NEW n \in Nodes, ScrubOrphans(n) PROVE ScrubTypeOK' /\ ProbeOK'
  BY <1>8 DEF ScrubOrphans, UnreferencedOn, TypeInv, TypeOK
<1>9. CASE ScrubJudge
  BY <1>9 DEF ScrubJudge
<1>10. CASE ScrubNoCopy \/ ScrubRepaired \/ ScrubScanned \/ ScrubEnd
  BY <1>10 DEF ScrubNoCopy, ScrubRepaired, ScrubScanned, ScrubEnd
<1>11. CASE ScrubAbort
  BY <1>11 DEF ScrubAbort, Discard, NotProbing
<1>12. CASE ScrubCancel
  BY <1>12 DEF ScrubCancel
<1>13. QED
  BY <1>1, <1>2, <1>3, <1>4, <1>5, <1>6, <1>7, <1>8, <1>9, <1>10, <1>11, <1>12, ScrubKinds
     DEF ScrubStep

\* An object is steady until its key names another one or none.
LEMMA SteadyStep ==
    ASSUME ScrubInv, [ScrubNext]_<<vars, scrubVars>>
    PROVE  /\ SteadyOK'
           /\ (\E m \in Modes : ScrubBegin(m)) \/ steady' \subseteq steady
           /\ (\E m \in Modes : ScrubBegin(m)) \/ steady' = steady \/ Discard \/ OtherStep
<1> USE DEF ScrubInv, SteadyOK, CurrentObjects
<1>1. CASE OtherStep
  BY <1>1 DEF OtherStep
<1>2. CASE ScrubCrash \/ ScrubAbort
  BY <1>2 DEF ScrubCrash, ScrubAbort, Discard
<1>3. CASE UNCHANGED <<vars, scrubVars>>
  BY <1>3 DEF vars, storeVars, metaVars, scrubVars
<1>4. ASSUME NEW m \in Modes, ScrubBegin(m) PROVE SteadyOK'
  BY <1>4 DEF ScrubBegin, worldVars, storeVars, metaVars
<1>5. CASE (ScrubStep /\ ~ScrubAbort) \/ ScrubCancel
  <2>1. steady' = steady
    BY <1>5 DEF ScrubStep, ScrubCancel, ScrubRead, ScrubChunk, ScrubProbe, ScrubFetch, ScrubRepair,
                ScrubOrphans, ScrubJudge, ScrubNoCopy, ScrubRepaired, ScrubScanned, ScrubEnd
  <2>2. UNCHANGED storeVars
    BY <1>5, ScrubIsMaintenance DEF Maintenance
  <2>3. QED
    BY <2>1, <2>2 DEF storeVars, metaVars
<1>6. QED
  BY <1>1, <1>2, <1>3, <1>4, <1>5, ScrubKinds

\* The metadata names an object under its own key only.
LEMMA SteadyKey ==
    ASSUME ScrubInv, NEW o \in steady
    PROVE  o \in committed /\ o \in Puts /\ ~Retired(o)
           /\ \A k \in Keys : meta[k].obj = o <=> k = KeyOf[o]
<1>1. PICK k \in Keys : meta[k].obj = o /\ o # NoObject
  BY DEF ScrubInv, SteadyOK, CurrentObjects
<1>2. o \in committed /\ \A q \in Keys : meta[q].obj = o => q = KeyOf[o]
  BY <1>1 DEF ScrubInv, SafetyInv, CommittedOK
<1>3. QED
  BY <1>1, <1>2 DEF ScrubInv, TypeInv, TypeOK, Retired, Current

\* A pass that could read everything keeps the chunks of steady objects in its set.
LEMMA ReferencedStep ==
    ASSUME ScrubInv, [ScrubNext]_<<vars, scrubVars>>
    PROVE  SeenOK'
<1> USE DEF ScrubInv, SeenOK
<1>1. CASE OtherStep \/ ScrubCrash \/ UNCHANGED <<vars, scrubVars>>
  <2>1. CASE UNCHANGED <<spc, scanVars, probeVars, report>>
    BY <1>1, <2>1, OtherIsNext DEF scanVars, report
  <2>2. CASE Discard
    BY <2>2 DEF Discard
  <2>3. QED
    BY <1>1, <2>1, <2>2, OtherIsNext
<1>2. ASSUME NEW m \in Modes, ScrubBegin(m) PROVE SeenOK'
  <2>1. ASSUME ~errors', NEW o \in steady' PROVE KeyOf[o] \in keysLeft'
    <3>1. PICK k \in Keys : meta[k].obj = o /\ o # NoObject
      BY <1>2, <2>1 DEF ScrubBegin, CurrentObjects
    <3>2. KeyOf[o] = k
      BY <3>1 DEF SafetyInv, CommittedOK
    <3>3. QED
      BY <1>2, <2>1, <3>1, <3>2 DEF ScrubBegin
  <2>2. spc' = "scan"
    BY <1>2 DEF ScrubBegin
  <2>3. QED
    BY <2>1, <2>2
<1>3. ASSUME NEW k \in keysLeft, ScrubRead(k) PROVE SeenOK'
  <2>1. spc' = "scan" /\ spc = "scan" /\ steady' = steady /\ (~errors' => ~errors)
        /\ referenced \subseteq referenced' /\ keysLeft' = keysLeft \ {k}
    BY <1>3 DEF ScrubRead
  <2>2. ASSUME ~errors', NEW o \in steady, KeyOf[o] = k
        PROVE  ChunksOf(o) \subseteq referenced'
    <3>1. k \in Keys /\ meta[k].obj = o
      BY <2>2, SteadyKey DEF ScrubTypeOK
    <3>2. QED
      BY <1>3, <2>2, <3>1 DEF ScrubRead
  <2>3. QED
    BY <2>1, <2>2
<1>4. ASSUME NEW c \in chunksLeft, ScrubChunk(c) PROVE SeenOK'
  BY <1>4 DEF ScrubChunk, report
<1>5. ASSUME NEW n \in Nodes,
             ScrubProbe(n) \/ ScrubFetch(n) \/ ScrubRepair(n) \/ ScrubOrphans(n)
      PROVE  SeenOK'
  BY <1>5 DEF ScrubProbe, ScrubFetch, ScrubRepair, ScrubOrphans, scanVars, report
<1>6. CASE ScrubJudge \/ ScrubNoCopy \/ ScrubRepaired \/ ScrubEnd
  BY <1>6 DEF ScrubJudge, ScrubNoCopy, ScrubRepaired, ScrubEnd, scanVars, report
<1>7. CASE ScrubScanned
  BY <1>7 DEF ScrubScanned, scanVars, report
<1>8. CASE ScrubAbort \/ ScrubCancel
  BY <1>8 DEF ScrubAbort, Discard, ScrubCancel, report
<1>9. QED
  BY <1>1, <1>2, <1>3, <1>4, <1>5, <1>6, <1>7, <1>8, ScrubKinds DEF ScrubStep

\* collectOrphans compares with what the pass saw referenced.
LEMMA OrphansStep ==
    ASSUME ScrubInv, [ScrubNext]_<<vars, scrubVars>>
    PROVE  OrphansAreGarbage'
<1> USE DEF ScrubInv, OrphansAreGarbage
<1>1. CASE OtherStep \/ ScrubCrash \/ UNCHANGED <<vars, scrubVars>>
  BY <1>1, OtherIsNext DEF Discard, report
<1>2. CASE (\E m \in Modes : ScrubBegin(m)) \/ ScrubAbort
  BY <1>2 DEF ScrubBegin, ScrubAbort, Discard
<1>3. ASSUME NEW k \in keysLeft, ScrubRead(k) PROVE OrphansAreGarbage'
  BY <1>3 DEF ScrubRead
<1>4. ASSUME NEW n \in Nodes, ScrubOrphans(n) PROVE OrphansAreGarbage'
  <2>1. steady' = steady /\ (~errors' => ~errors) /\ spc = "orphans"
        /\ orphans' \in {orphans, orphans \union UnreferencedOn(n)}
    BY <1>4 DEF ScrubOrphans
  <2>2. ASSUME ~errors, NEW copy \in UnreferencedOn(n), copy[1] \in steady PROVE FALSE
    <3>1. ChunksOf(copy[1]) \subseteq referenced
      BY <2>1, <2>2 DEF SeenOK
    <3>2. <<copy[1], copy[2]>> \in ChunksOf(copy[1])
      BY <2>2, ReplicaChunk DEF UnreferencedOn, TypeInv, TypeOK
    <3>3. QED
      BY <3>1, <3>2 DEF UnreferencedOn
  <2>3. QED
    BY <2>1, <2>2
<1>5. ASSUME NEW c \in chunksLeft, ScrubChunk(c) PROVE OrphansAreGarbage'
  BY <1>5 DEF ScrubChunk, report
<1>6. ASSUME NEW n \in Nodes, ScrubProbe(n) \/ ScrubFetch(n) \/ ScrubRepair(n)
      PROVE  OrphansAreGarbage'
  BY <1>6 DEF ScrubProbe, ScrubFetch, ScrubRepair, report
<1>7. CASE ScrubJudge \/ ScrubNoCopy \/ ScrubRepaired \/ ScrubScanned \/ ScrubEnd \/ ScrubCancel
  BY <1>7 DEF ScrubJudge, ScrubNoCopy, ScrubRepaired, ScrubScanned, ScrubEnd, ScrubCancel, report
<1>8. QED
  BY <1>1, <1>2, <1>3, <1>4, <1>5, <1>6, <1>7, ScrubKinds DEF ScrubStep

\* A node that seems not to have an acknowledged copy of a steady object lost or
\* damaged it, or did not answer: either way it is one fault for one copy.
LEMMA BlameProbe ==
    ASSUME ScrubInv, NEW n \in asking, spc \in {"probe", "verify"}, chunk[1] \in steady, ~cancelled,
           UNCHANGED <<acked, damaged, chunk>>,
           Missed' \subseteq Missed \union {Copy(chunk, n)},
           \/ Copy(chunk, n) \notin Good /\ faults' = faults
           \/ faults' = faults + 1
    PROVE  Accounted(Missed)'
<1> USE DEF ScrubInv
<1>1. Accounted(Missed)
  BY DEF BlameOK
<1>2. Missed' \subseteq AckedCopies(chunk[1], chunk[2])
  BY DEF Missed, AckedCopies
<1>3. CASE Copy(chunk, n) \in AckedCopies(chunk[1], chunk[2])
  <2>1. Copy(chunk, n) \in Good \union damaged
    BY <1>3, SteadyKey DEF AckedCopies, SafetyInv, AckedOK
  <2>2. faults' = faults + 1 \/ (faults' = faults /\ Copy(chunk, n) \in damaged)
    BY <2>1
  <2>3. QED
    BY <1>1, <2>2, AccountedFault DEF Accounted
<1>4. CASE Copy(chunk, n) \notin AckedCopies(chunk[1], chunk[2])
  <2>1. Missed' \subseteq Missed
    BY <1>2, <1>4
  <2>2. QED
    BY <1>1, <2>1, AccountedLess DEF Accounted
<1>5. QED
  BY <1>3, <1>4

\* The blame for the copies a pass misses stays covered by faults.
LEMMA BlameStep ==
    ASSUME ScrubInv, [ScrubNext]_<<vars, scrubVars>>
    PROVE  BlameOK'
<1> USE DEF ScrubInv
<1> SUFFICES ASSUME spc' \in {"probe", "verify"}, chunk'[1] \in steady', ~cancelled'
             PROVE  Accounted(Missed)'
  BY DEF BlameOK
<1>1. CASE OtherStep \/ ScrubCrash \/ UNCHANGED <<vars, scrubVars>>
  <2>1. UNCHANGED <<spc, scanVars, probeVars, report>>
    BY <1>1, OtherIsNext DEF Discard
  <2>2. chunk[1] \in steady /\ spc \in {"probe", "verify"} /\ ~cancelled
    BY <1>1, <2>1, OtherIsNext DEF probeVars, scanVars
  <2>3. Missed' = Missed
    <3>1. AckedCopies(chunk[1], chunk[2])' = AckedCopies(chunk[1], chunk[2])
      BY <1>1, <2>1, <2>2, OtherIsNext, SteadyKey, StepAcks DEF AckedCopies, probeVars
    <3>2. QED
      BY <2>1, <3>1 DEF Missed, probeVars
  <2>4. Accounted(Missed)
    BY <2>2 DEF BlameOK
  <2>5. QED
    BY <1>1, <2>3, <2>4, OtherIsNext, AccountedStep DEF Accounted
<1>2. ASSUME NEW c \in chunksLeft, ScrubChunk(c) PROVE Accounted(Missed)'
  <2>1. Missed' = {}
    BY <1>2 DEF ScrubChunk, Missed
  <2>2. QED
    BY <2>1, ScrubSafetyStep DEF Accounted
<1>3. ASSUME NEW n \in Nodes, ScrubProbe(n) PROVE Accounted(Missed)'
  <2>1. spc = "probe" /\ spc' = "probe" /\ n \in asking
        /\ UNCHANGED <<acked, damaged, chunk, steady>> /\ ~cancelled
    BY <1>3 DEF ScrubProbe, worldVars, nodeVars, scanVars
  <2>2. \/ broken' = broken /\ faults' = faults
        \/ /\ broken' = broken \union {n}
           /\ \/ Copy(chunk, n) \notin Good /\ faults' = faults
              \/ faults' = faults + 1
    BY <1>3, <2>1 DEF ScrubProbe, Fails, Fault, Good
  <2>3. CASE broken' = broken /\ faults' = faults
    BY <2>1, <2>3 DEF Missed, Accounted, BlameOK, AckedCopies
  <2>4. CASE broken' = broken \union {n}
    <3>1. Missed' \subseteq Missed \union {Copy(chunk, n)}
      <4>1. ASSUME NEW copy \in AckedCopies(chunk[1], chunk[2]), copy[3] = n
            PROVE  copy = Copy(chunk, n)
        BY <4>1, ReplicaChunk DEF AckedCopies, TypeInv, TypeOK, Copy
      <4>2. QED
        BY <2>1, <2>4, <4>1 DEF Missed, AckedCopies
    <3>2. chunk[1] \in steady
      BY <2>1
    <3>3. CASE broken' = broken /\ faults' = faults
      BY <2>3, <3>3
    <3>4. CASE (Copy(chunk, n) \notin Good /\ faults' = faults) \/ faults' = faults + 1
      BY <2>1, <3>1, <3>2, <3>4, BlameProbe
    <3>5. QED
      BY <2>2, <3>3, <3>4
  <2>5. QED
    BY <2>2, <2>3, <2>4
<1>4. CASE ScrubJudge
  <2>1. /\ spc = "probe" /\ spc' = "verify" /\ asking = {} /\ asking' = healthy
        /\ UNCHANGED <<acked, damaged, chunk, steady, faults, broken>>
        /\ ~cancelled
    BY <1>4 DEF ScrubJudge, vars, nodeVars, scanVars
  <2>2. Missed' \subseteq Missed
    <3>1. NodesOf(chunk) \ healthy \subseteq broken
      BY <2>1 DEF ProbeOK
    <3>2. QED
      BY <2>1, <3>1 DEF Missed, AckedCopies
  <2>3. Accounted(Missed)
    BY <2>1 DEF BlameOK
  <2>4. QED
    BY <2>1, <2>2, <2>3, AccountedLess DEF Accounted
<1>5. ASSUME NEW n \in Nodes, ScrubFetch(n) PROVE Accounted(Missed)'
  <2>1. /\ spc = "verify" /\ spc' = "verify" /\ n \in asking /\ asking' = asking \ {n}
        /\ UNCHANGED <<acked, damaged, chunk, steady>> /\ ~cancelled
        /\ \/ Copy(chunk, n) \notin Good /\ faults' = faults
           \/ faults' = faults + 1
    BY <1>5 DEF ScrubFetch, worldVars, nodeVars, scanVars, Fails, Fault
  <2>2. Missed' \subseteq Missed \union {Copy(chunk, n)}
    <3>1. ASSUME NEW copy \in AckedCopies(chunk[1], chunk[2]), copy[3] = n
          PROVE  copy = Copy(chunk, n)
      BY <3>1, ReplicaChunk DEF AckedCopies, TypeInv, TypeOK, Copy
    <3>2. QED
      BY <2>1, <3>1 DEF Missed, AckedCopies
  <2>3. QED
    BY <2>1, <2>2, BlameProbe
<1>6. ASSUME NEW k \in keysLeft, ScrubRead(k) PROVE FALSE
  BY <1>6 DEF ScrubRead
<1>7. ASSUME NEW n \in Nodes, ScrubRepair(n) \/ ScrubOrphans(n) PROVE FALSE
  BY <1>7 DEF ScrubRepair, ScrubOrphans
<1>8. ASSUME \/ \E m \in Modes : ScrubBegin(m)
             \/ ScrubNoCopy \/ ScrubRepaired \/ ScrubScanned \/ ScrubEnd \/ ScrubAbort
             \/ ScrubCancel
      PROVE  FALSE
  BY <1>8 DEF ScrubBegin, ScrubNoCopy, ScrubRepaired, ScrubScanned, ScrubEnd, ScrubAbort,
              ScrubCancel, Discard
<1>9. QED
  BY <1>1, <1>2, <1>3, <1>4, <1>5, <1>6, <1>7, <1>8, ScrubKinds DEF ScrubStep

\* Once all nodes of the chunk of a steady object are blamed, W faults have happened,
\* or the pass was cancelled.
LEMMA BlameAll ==
    ASSUME ScrubInv, chunk[1] \in steady, asking = {}, ~cancelled,
           spc = "verify" \/ (spc = "probe" /\ healthy = {})
    PROVE  W <= faults
<1> USE DEF ScrubInv
<1>1. chunk[2] \in Chunks(chunk[1])
  BY ScrubbedChunk DEF ScrubTypeOK
<1>2. Missed = AckedCopies(chunk[1], chunk[2])
  <2>1. ASSUME NEW copy \in AckedCopies(chunk[1], chunk[2]) PROVE copy[3] \in NodesOf(chunk)
    BY <2>1, ReplicaChunk DEF AckedCopies, TypeInv, TypeOK, NodesOf
  <2>2. QED
    BY <2>1 DEF Missed, ProbeOK, AckedCopies
<1>3. Accounted(AckedCopies(chunk[1], chunk[2]))
  BY <1>2 DEF BlameOK
<1>4. QED
  BY <1>1, <1>3, QuorumOfFaults, SteadyKey

\* Only ScrubJudge and ScrubNoCopy call a chunk lost.
LEMMA AlarmStep ==
    ASSUME ScrubInv, [ScrubNext]_<<vars, scrubVars>>
    PROVE  NoFalseAlarm'
<1> USE DEF ScrubInv, NoFalseAlarm
<1>1. /\ W \in Nat /\ faults \in Nat /\ faults' \in {faults, faults + 1}
  <2>1. CASE Maintenance
    BY <2>1 DEF Maintenance, TypeInv, TypeOK
  <2>2. CASE [Next]_vars
    BY <2>2, StepDamage DEF TypeInv, TypeOK
  <2>3. QED
    BY <2>1, <2>2, ScrubKinds, ScrubIsMaintenance, OtherIsNext
<1>2. CASE lost' \subseteq lost /\ steady' \subseteq steady /\ (cancelled => cancelled')
  BY <1>1, <1>2
<1>3. CASE OtherStep \/ ScrubCrash \/ UNCHANGED <<vars, scrubVars>>
  BY <1>2, <1>3, OtherIsNext DEF Discard, report, scanVars
<1>4. CASE (\E m \in Modes : ScrubBegin(m)) \/ ScrubAbort
  BY <1>4 DEF ScrubBegin, ScrubAbort, Discard
<1>5. CASE ScrubJudge
  <2>1. CASE healthy = {}
    <3>1. chunk[1] \in steady => W <= faults \/ cancelled
      BY <1>5, <2>1, BlameAll DEF ScrubJudge
    <3>2. /\ steady' = steady /\ faults' = faults /\ cancelled' = cancelled
          /\ lost' \subseteq lost \union {chunk}
      BY <1>5 DEF ScrubJudge, vars, scanVars
    <3>3. QED
      BY <1>1, <3>1, <3>2
  <2>2. CASE healthy # {}
    BY <1>2, <1>5, <2>2 DEF ScrubJudge, scanVars
  <2>3. QED
    BY <2>1, <2>2
<1>6. CASE ScrubNoCopy
  <2>1. chunk[1] \in steady => W <= faults \/ cancelled
    BY <1>6, BlameAll DEF ScrubNoCopy
  <2>2. /\ steady' = steady /\ faults' = faults /\ cancelled' = cancelled
        /\ lost' = lost \union {chunk}
    BY <1>6 DEF ScrubNoCopy, vars, scanVars
  <2>3. QED
    BY <1>1, <2>1, <2>2
<1>7. ASSUME NEW k \in keysLeft, ScrubRead(k) PROVE NoFalseAlarm'
  BY <1>2, <1>7 DEF ScrubRead
<1>8. ASSUME NEW c \in chunksLeft, ScrubChunk(c) PROVE NoFalseAlarm'
  BY <1>2, <1>8 DEF ScrubChunk, report
<1>9. ASSUME NEW n \in Nodes,
             ScrubProbe(n) \/ ScrubFetch(n) \/ ScrubRepair(n) \/ ScrubOrphans(n)
      PROVE  NoFalseAlarm'
  BY <1>2, <1>9 DEF ScrubProbe, ScrubFetch, ScrubRepair, ScrubOrphans, report, scanVars
<1>10. CASE ScrubRepaired \/ ScrubScanned \/ ScrubEnd \/ ScrubCancel
  BY <1>2, <1>10 DEF ScrubRepaired, ScrubScanned, ScrubEnd, ScrubCancel, report, scanVars
<1>11. QED
  BY <1>3, <1>4, <1>5, <1>6, <1>7, <1>8, <1>9, <1>10, ScrubKinds DEF ScrubStep

(***************************************************************************)
(* The theorems.                                                           *)
(***************************************************************************)

\* Everything the theorems rest on is invariant.
LEMMA ScrubInvariant == ScrubSpec => []ScrubInv
<1>1. ScrubInv /\ [ScrubNext]_<<vars, scrubVars>> => ScrubInv'
  BY ScrubSafetyStep, ScrubTypeStep, SteadyStep, ReferencedStep, BlameStep, OrphansStep, AlarmStep
     DEF ScrubInv
<1>2. QED
  BY <1>1, ScrubStart, PTL DEF ScrubSpec

\* A report without errors calls nothing an orphan that belongs to an object which
\* was there during the whole pass, however uploads, deletes, crashes and repairs
\* interleave with its listing, its reads and collectOrphans.
THEOREM OrphansWereGarbage == ScrubSpec => []OrphansAreGarbage
<1>1. ScrubInv => OrphansAreGarbage
  BY DEF ScrubInv
<1>2. QED
  BY <1>1, ScrubInvariant, PTL

\* In a pass that nobody cancels, scrubChunk calls no chunk of an object that stays
\* unrepairable before W faults: no concurrent upload, cleanup or repair misleads it.
THEOREM AlarmsAreReal == ScrubSpec => []NoFalseAlarm
<1>1. ScrubInv => NoFalseAlarm
  BY DEF ScrubInv
<1>2. QED
  BY <1>1, ScrubInvariant, PTL

\* A committed object keeps its write quorum beside scrub passes, whose repairs may
\* write chunks of objects that are replaced meanwhile.
THEOREM DurableBesideScrubs == ScrubSpec => []CommittedDurable
<1>1. ScrubInv => CommittedDurable
  BY DurableNow DEF ScrubInv
<1>2. QED
  BY <1>1, ScrubInvariant, PTL

=============================================================================
