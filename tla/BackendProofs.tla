--------------------------- MODULE BackendProofs ---------------------------
(***************************************************************************)
(* Proofs about the backends that are reached over a network: a remote     *)
(* node is a storage backend, for every set of calls and chunks and every  *)
(* number of failures; and what the callers of the Google Drive backend    *)
(* were told stays true of its folder, whatever goes wrong.                *)
(***************************************************************************)
EXTENDS RemoteNode, DriveBackend, TLAPS

USE RemoteAssumption

(***************************************************************************)
(* The invariant: a request is in one place, and its answer tells what its *)
(* handler did.                                                            *)
(***************************************************************************)

RemoteTypeOK ==
    /\ files \subseteq Chunks
    /\ call \in [Calls -> {"idle", "waiting", "ok", "failed"}]
    /\ wire \subseteq Calls
    /\ handler \subseteq Calls
    /\ reply \in [Calls -> {0, 200, 201, 204, 404, 413, 500}]
    /\ executed \subseteq Calls

InOnePlace ==
    /\ wire \intersect handler = {}
    /\ \A r \in wire \union handler : call[r] # "idle" /\ reply[r] = 0 /\ r \notin executed
    /\ \A r \in Calls : call[r] = "idle" => reply[r] = 0 /\ r \notin executed

AnswersTrue ==
    \A r \in Calls : reply[r] # 0 =>
        reply[r] \in (IF r \in executed THEN {200, 201, 204} ELSE {413, 500})
            \/ (reply[r] = 404 /\ OpOf[r] # "delete")

RemoteInv == RemoteTypeOK /\ InOnePlace /\ AnswersTrue

\* An accepted answer comes from a handler that did its work.
LEMMA AcceptedIsDone ==
  ASSUME RemoteInv, NEW r \in Calls, reply[r] # 0, reply[r] \in Accepted(OpOf[r])
  PROVE  r \in executed
  BY DEF RemoteInv, AnswersTrue, Accepted

\* Nothing has been asked at first.
LEMMA RemoteStart == RemoteInit => RemoteInv
  BY DEF RemoteInit, RemoteInv, RemoteTypeOK, InOnePlace, AnswersTrue

\* The end of a handler that used the directory keeps the invariant.
LEMMA DoneKeeps ==
  ASSUME RemoteInv, NEW r \in handler, files' \subseteq Chunks,
         \E code \in {200, 201, 204} : Finish(r, code, TRUE)
  PROVE  RemoteInv'
  <1> PICK code \in {200, 201, 204} : Finish(r, code, TRUE)
    OBVIOUS
  <1> USE DEF RemoteInv, RemoteTypeOK, Finish
  <1>1. RemoteTypeOK'
    OBVIOUS
  <1>2. InOnePlace'
    BY DEF InOnePlace
  <1>3. AnswersTrue'
    <2> SUFFICES ASSUME NEW q \in Calls, reply'[q] # 0
                 PROVE \/ reply'[q] \in (IF q \in executed' THEN {200, 201, 204} ELSE {413, 500})
                       \/ reply'[q] = 404 /\ OpOf[q] # "delete"
      BY DEF AnswersTrue
    <2>1. CASE q = r
      BY <2>1
    <2>2. CASE q # r
      <3>1. reply'[q] = reply[q] /\ (q \in executed' <=> q \in executed)
        BY <2>2
      <3> QED
        BY <3>1 DEF AnswersTrue
    <2> QED
      BY <2>1, <2>2
  <1> QED
    BY <1>1, <1>2, <1>3

\* So does the end of one that refused or failed.
LEMMA UndoneKeeps ==
  ASSUME RemoteInv, NEW r \in handler, files' \subseteq Chunks,
         \E code \in {404, 413, 500} :
            Finish(r, code, FALSE) /\ (code = 404 => OpOf[r] # "delete")
  PROVE  RemoteInv'
  <1> PICK code \in {404, 413, 500} :
           Finish(r, code, FALSE) /\ (code = 404 => OpOf[r] # "delete")
    OBVIOUS
  <1> USE DEF RemoteInv, RemoteTypeOK, Finish
  <1>1. RemoteTypeOK'
    OBVIOUS
  <1>2. InOnePlace'
    BY DEF InOnePlace
  <1>3. AnswersTrue'
    <2> SUFFICES ASSUME NEW q \in Calls, reply'[q] # 0
                 PROVE \/ reply'[q] \in (IF q \in executed' THEN {200, 201, 204} ELSE {413, 500})
                       \/ reply'[q] = 404 /\ OpOf[q] # "delete"
      BY DEF AnswersTrue
    <2>1. CASE q = r
      <3>1. q \notin executed' /\ reply'[q] = code
        BY <2>1 DEF InOnePlace
      <3> QED
        BY <2>1, <3>1
    <2>2. CASE q # r
      <3>1. reply'[q] = reply[q] /\ executed' = executed
        BY <2>2
      <3> QED
        BY <3>1 DEF AnswersTrue
    <2> QED
      BY <2>1, <2>2
  <1> QED
    BY <1>1, <1>2, <1>3

\* Every step keeps the invariant.
LEMMA RemoteStep == RemoteInv /\ [RemoteNext]_remoteVars => RemoteInv'
  <1> SUFFICES ASSUME RemoteInv, [RemoteNext]_remoteVars PROVE RemoteInv'
    OBVIOUS
  <1>1. ASSUME NEW r \in Calls, Do(r) PROVE RemoteInv'
    BY <1>1 DEF Do, RemoteInv, RemoteTypeOK, InOnePlace, AnswersTrue
  <1>2. ASSUME NEW r \in Calls, Answered(r) \/ BodyCut(r) \/ GiveUp(r) PROVE RemoteInv'
    BY <1>2 DEF Answered, BodyCut, GiveUp, RemoteInv, RemoteTypeOK, InOnePlace, AnswersTrue
  <1>3. ASSUME NEW r \in Calls, Lost(r) PROVE RemoteInv'
    BY <1>3 DEF Lost, RemoteInv, RemoteTypeOK, InOnePlace, AnswersTrue
  <1>4. ASSUME NEW r \in Calls, Receive(r) PROVE RemoteInv'
    BY <1>4 DEF Receive, RemoteInv, RemoteTypeOK, InOnePlace, AnswersTrue
  <1>5. ASSUME NEW r \in Calls, HandlePut(r) PROVE RemoteInv'
    <2>1. r \in handler
      BY <1>5 DEF HandlePut
    <2>2. ChunkOf[r] \in Chunks
      OBVIOUS
    <2>3. files' \subseteq files \union {ChunkOf[r]}
      BY <1>5 DEF HandlePut
    <2>4. files' \subseteq Chunks
      BY <2>2, <2>3 DEF RemoteInv, RemoteTypeOK
    <2>5. ASSUME Finish(r, 413, FALSE) PROVE RemoteInv'
      <3>1. 413 # 404
        OBVIOUS
      <3>2. \E code \in {404, 413, 500} :
                 Finish(r, code, FALSE) /\ (code = 404 => OpOf[r] # "delete")
        BY <2>5, <3>1
      <3> QED
        BY <2>1, <2>4, <3>2, UndoneKeeps
    <2>6. ASSUME Finish(r, 201, TRUE) PROVE RemoteInv'
      <3>1. \E code \in {200, 201, 204} : Finish(r, code, TRUE)
        BY <2>6
      <3> QED
        BY <2>1, <2>4, <3>1, DoneKeeps
    <2>7. ASSUME Finish(r, 500, FALSE) PROVE RemoteInv'
      <3>1. 500 # 404
        OBVIOUS
      <3>2. \E code \in {404, 413, 500} :
                 Finish(r, code, FALSE) /\ (code = 404 => OpOf[r] # "delete")
        BY <2>7, <3>1
      <3> QED
        BY <2>1, <2>4, <3>2, UndoneKeeps
    <2> QED
      BY <1>5, <2>5, <2>6, <2>7 DEF HandlePut
  <1>6. ASSUME NEW r \in Calls, HandleGet(r) PROVE RemoteInv'
    <2>1. r \in handler
      BY <1>6 DEF HandleGet
    <2>2. ChunkOf[r] \in Chunks
      OBVIOUS
    <2>3. files' \subseteq files \union {ChunkOf[r]}
      BY <1>6 DEF HandleGet
    <2>4. files' \subseteq Chunks
      BY <2>2, <2>3 DEF RemoteInv, RemoteTypeOK
    <2>5. ASSUME Finish(r, 200, TRUE) PROVE RemoteInv'
      <3>1. \E code \in {200, 201, 204} : Finish(r, code, TRUE)
        BY <2>5
      <3> QED
        BY <2>1, <2>4, <3>1, DoneKeeps
    <2>6. ASSUME Finish(r, 404, FALSE) PROVE RemoteInv'
      <3>1. OpOf[r] # "delete"
        BY <1>6 DEF HandleGet
      <3>2. \E code \in {404, 413, 500} :
                 Finish(r, code, FALSE) /\ (code = 404 => OpOf[r] # "delete")
        BY <2>6, <3>1
      <3> QED
        BY <2>1, <2>4, <3>2, UndoneKeeps
    <2> QED
      BY <1>6, <2>5, <2>6 DEF HandleGet
  <1>7. ASSUME NEW r \in Calls, HandleDelete(r) PROVE RemoteInv'
    <2>1. r \in handler
      BY <1>7 DEF HandleDelete
    <2>2. ChunkOf[r] \in Chunks
      OBVIOUS
    <2>3. files' \subseteq files \union {ChunkOf[r]}
      BY <1>7 DEF HandleDelete
    <2>4. files' \subseteq Chunks
      BY <2>2, <2>3 DEF RemoteInv, RemoteTypeOK
    <2>5. ASSUME Finish(r, 204, TRUE) PROVE RemoteInv'
      <3>1. \E code \in {200, 201, 204} : Finish(r, code, TRUE)
        BY <2>5
      <3> QED
        BY <2>1, <2>4, <3>1, DoneKeeps
    <2>6. ASSUME Finish(r, 500, FALSE) PROVE RemoteInv'
      <3>1. 500 # 404
        OBVIOUS
      <3>2. \E code \in {404, 413, 500} :
                 Finish(r, code, FALSE) /\ (code = 404 => OpOf[r] # "delete")
        BY <2>6, <3>1
      <3> QED
        BY <2>1, <2>4, <3>2, UndoneKeeps
    <2> QED
      BY <1>7, <2>5, <2>6 DEF HandleDelete
  <1>8. CASE NodeCrash \/ NodeRestart
    BY <1>8 DEF NodeCrash, NodeRestart, RemoteInv, RemoteTypeOK, InOnePlace, AnswersTrue
  <1>9. CASE UNCHANGED remoteVars
    BY <1>9 DEF remoteVars, RemoteInv, RemoteTypeOK, InOnePlace, AnswersTrue
  <1> QED
    BY <1>1, <1>2, <1>3, <1>4, <1>5, <1>6, <1>7, <1>8, <1>9 DEF RemoteNext

\* The invariant holds in every state.
LEMMA RemoteInvariant == RemoteSpec => []RemoteInv
  BY RemoteStart, RemoteStep, PTL DEF RemoteSpec

(***************************************************************************)
(* The refinement.                                                         *)
(***************************************************************************)

\* The initial states are those of a storage backend.
LEMMA RefinesInit == RemoteInit => Store!Init
  BY DEF RemoteInit, Store!Init, Status, Phase

\* The end of a handler is the effect of its call, or the certainty that it will not
\* take effect.
LEMMA FinishRefines ==
  ASSUME RemoteInv, NEW r \in handler, NEW code, NEW done \in BOOLEAN, Finish(r, code, done),
         IF done THEN Store!Enabled(r) /\ files' = Store!Effect(r) ELSE files' = files
  PROVE  Store!TakeEffect(r) \/ Store!Abandon
  <1> USE DEF RemoteInv, RemoteTypeOK, InOnePlace, Finish
  <1>1. r \in Calls /\ Phase[r] = "pending" /\ Status' = Status
    BY DEF Phase, Status
  <1>2. \A q \in Calls : q # r => Phase'[q] = Phase[q]
    BY DEF Phase
  <1>3. Phase'[r] = IF done THEN "done" ELSE "void"
    BY DEF Phase
  <1>4. Phase \in [Calls -> {"none", "pending", "done", "void"}]
    BY DEF Phase
  <1>5. Phase' \in [Calls -> {"none", "pending", "done", "void"}]
    BY DEF Phase
  <1>6. CASE done
    <2>1. Phase' = [Phase EXCEPT ![r] = "done"]
      BY <1>1, <1>2, <1>3, <1>4, <1>5, <1>6
    <2> QED
      BY <1>1, <1>6, <2>1 DEF Store!TakeEffect
  <1>7. CASE ~done
    <2>1. \A q \in Calls : Phase'[q] # Phase[q] => Phase[q] = "pending" /\ Phase'[q] = "void"
      BY <1>1, <1>2, <1>3, <1>7
    <2> QED
      BY <1>1, <1>5, <1>7, <2>1 DEF Store!Abandon
  <1> QED
    BY <1>6, <1>7

\* Every step is one of a storage backend, or changes nothing that one has.
LEMMA RefinesStep ==
  RemoteInv /\ [RemoteNext]_remoteVars => [Store!Next]_Store!storeVars
  <1> SUFFICES ASSUME RemoteInv, [RemoteNext]_remoteVars
               PROVE [Store!Next]_Store!storeVars
    OBVIOUS
  <1> USE DEF RemoteInv, RemoteTypeOK, InOnePlace
  <1>1. ASSUME NEW r \in Calls, Do(r) PROVE Store!Invoke(r)
    <2>1. Status[r] = "idle" /\ Status' = [Status EXCEPT ![r] = "open"]
      BY <1>1 DEF Do, Status
    <2>2. Phase' = [Phase EXCEPT ![r] = "pending"]
      BY <1>1 DEF Do, Phase
    <2> QED
      BY <1>1, <2>1, <2>2 DEF Do, Store!Invoke
  <1>2. ASSUME NEW r \in Calls, Answered(r), reply[r] \in Accepted(OpOf[r])
        PROVE Store!Succeed(r)
    <2>1. r \in executed
      BY <1>2, AcceptedIsDone DEF Answered
    <2>2. Status[r] = "open" /\ Status' = [Status EXCEPT ![r] = "ok"]
      BY <1>2 DEF Answered, Status
    <2>3. Phase[r] = "done" /\ Phase' = Phase
      BY <1>2, <2>1 DEF Answered, Phase
    <2> QED
      BY <1>2, <2>2, <2>3 DEF Answered, Store!Succeed
  <1>3. ASSUME NEW r \in Calls,
               (Answered(r) /\ reply[r] \notin Accepted(OpOf[r])) \/ BodyCut(r) \/ GiveUp(r)
        PROVE Store!Fail(r)
    <2>1. Status[r] = "open" /\ Status' = [Status EXCEPT ![r] = "failed"]
      <3>1. call[r] = "waiting" /\ call' = [call EXCEPT ![r] = "failed"]
        BY <1>3 DEF Answered, BodyCut, GiveUp
      <3> QED
        BY <3>1 DEF Status
    <2>2. Phase' = Phase
      BY <1>3 DEF Answered, BodyCut, GiveUp, Phase
    <2> QED
      BY <1>3, <2>1, <2>2 DEF Answered, BodyCut, GiveUp, Store!Fail
  <1>4. ASSUME NEW r \in Calls, Lost(r) PROVE Store!Abandon
    <2>1. Status' = Status
      BY <1>4 DEF Lost, Status
    <2>2. \A q \in Calls : Phase'[q] # Phase[q] => Phase[q] = "pending" /\ Phase'[q] = "void"
      BY <1>4 DEF Lost, Phase
    <2>3. Phase' \in [Calls -> {"none", "pending", "done", "void"}]
      BY DEF Phase
    <2> QED
      BY <1>4, <2>1, <2>2, <2>3 DEF Lost, Store!Abandon
  <1>5. ASSUME NEW r \in Calls, Receive(r) PROVE UNCHANGED Store!storeVars
    <2>1. Status' = Status /\ Phase' = Phase
      BY <1>5 DEF Receive, Status, Phase
    <2> QED
      BY <1>5, <2>1 DEF Receive, Store!storeVars
  <1>6. ASSUME NEW r \in Calls, HandlePut(r) PROVE Store!TakeEffect(r) \/ Store!Abandon
    BY <1>6, FinishRefines DEF HandlePut, Store!Enabled, Store!Effect
  <1>7. ASSUME NEW r \in Calls, HandleGet(r) PROVE Store!TakeEffect(r) \/ Store!Abandon
    BY <1>7, FinishRefines DEF HandleGet, Store!Enabled, Store!Effect
  <1>8. ASSUME NEW r \in Calls, HandleDelete(r) PROVE Store!TakeEffect(r) \/ Store!Abandon
    BY <1>8, FinishRefines DEF HandleDelete, Store!Enabled, Store!Effect
  <1>9. CASE NodeCrash \/ NodeRestart
    <2>1. Status' = Status
      BY <1>9 DEF NodeCrash, NodeRestart, Status
    <2>2. \A q \in Calls : Phase'[q] # Phase[q] => Phase[q] = "pending" /\ Phase'[q] = "void"
      BY <1>9 DEF NodeCrash, NodeRestart, Phase
    <2>3. Phase' \in [Calls -> {"none", "pending", "done", "void"}]
      BY DEF Phase
    <2> QED
      BY <1>9, <2>1, <2>2, <2>3 DEF NodeCrash, NodeRestart, Store!Next, Store!Abandon
  <1>10. CASE UNCHANGED remoteVars
    BY <1>10 DEF remoteVars, Store!storeVars, Status, Phase
  <1> QED
    BY <1>1, <1>2, <1>3, <1>4, <1>5, <1>6, <1>7, <1>8, <1>9, <1>10
    DEF RemoteNext, Store!Next

\* A remote node implements the storage backend, whatever requests and answers are
\* lost or late and however often the node goes down.
THEOREM RemoteIsChunkStore == RemoteSpec => ImplementsChunkStore
  BY RemoteInvariant, RefinesInit, RefinesStep, PTL DEF RemoteSpec, ImplementsChunkStore

(***************************************************************************)
(* The drive.                                                              *)
(***************************************************************************)

Numbers == 1 .. MaxUploads
Requests == {"create", "delete"} \X ChunkIds \X Numbers

\* Requests in progress or on their way.
Pending(request) == request \in astray \/ request = job

DriveTypeOK ==
    /\ drive \subseteq ChunkIds \X Numbers
    /\ minted \in [ChunkIds -> 0 .. MaxUploads]
    /\ chunkCache \in [ChunkIds -> 0 .. MaxUploads]
    /\ job = Free \/ job \in Requests
    /\ astray \subseteq Requests
    /\ last \in [ChunkIds -> {"none", "stored", "deleted"}]
    /\ stored \subseteq ChunkIds
    /\ unwanted \subseteq ChunkIds

\* What StoreChunk trusts: the cache names files that are there.
CachedIsThere ==
    \A k \in ChunkIds \ unwanted :
        chunkCache[k] # 0 => <<k, chunkCache[k]>> \in drive

\* Only what somebody wants deleted is deleted, now or late.
DeletesAreWanted ==
    \A request \in Requests :
        Pending(request) /\ request[1] = "delete" => request[2] \in unwanted

DriveInv == DriveTypeOK /\ CachedIsThere /\ DeletesAreWanted /\ AckedIsKept

\* Nothing is in the folder at first, and nobody was told anything.
LEMMA DriveStart == DriveInit => DriveInv
  <1> SUFFICES ASSUME DriveInit PROVE DriveInv
    OBVIOUS
  <1>1. DriveTypeOK
    BY DriveAssumption DEF DriveInit, DriveTypeOK
  <1>2. CachedIsThere
    BY DEF DriveInit, CachedIsThere
  <1>3. DeletesAreWanted
    <2> SUFFICES ASSUME NEW request \in Requests, Pending(request)
                 PROVE request[1] # "delete"
      BY DEF DeletesAreWanted
    <2> QED
      BY DEF DriveInit, Pending, Free
  <1>4. AckedIsKept
    BY DEF DriveInit, AckedIsKept
  <1> QED
    BY <1>1, <1>2, <1>3, <1>4 DEF DriveInv

\* Every request is well formed and every number in range.
LEMMA DriveTypeStep == DriveInv /\ [DriveNext]_driveVars => DriveTypeOK'
  <1> SUFFICES ASSUME DriveInv, [DriveNext]_driveVars PROVE DriveTypeOK'
    OBVIOUS
  <1> USE DriveAssumption DEF DriveInv, DriveTypeOK, callers, Numbers, Requests
  <1>1. ASSUME NEW k \in ChunkIds, StoreChunk(k) PROVE DriveTypeOK'
    <2>1. CASE chunkCache[k] # 0
      BY <1>1, <2>1 DEF StoreChunk, Returned
    <2>2. CASE chunkCache[k] = 0
      <3>1. minted[k] + 1 \in 1 .. MaxUploads
        BY <1>1, <2>2 DEF StoreChunk
      <3> QED
        BY <1>1, <2>2, <3>1 DEF StoreChunk
    <2> QED
      BY <2>1, <2>2
  <1>2. ASSUME NEW k \in ChunkIds, Created(k) PROVE DriveTypeOK'
    <2>1. minted[k] \in 1 .. MaxUploads
      BY <1>2 DEF Created, Upload, Free
    <2> QED
      BY <1>2, <2>1 DEF Created, Returned
  <1>3. ASSUME NEW k \in ChunkIds, DeleteChunk(k) PROVE DriveTypeOK'
    BY <1>3 DEF DeleteChunk, Deletion, Returned
  <1>4. ASSUME NEW k \in ChunkIds, Deleted(k) PROVE DriveTypeOK'
    BY <1>4 DEF Deleted, Returned
  <1>5. ASSUME NEW k \in ChunkIds, NotOnDrive(k) PROVE DriveTypeOK'
    BY <1>5 DEF NotOnDrive
  <1>6. ASSUME NEW k \in ChunkIds, DriveFails(k) PROVE DriveTypeOK'
    BY <1>6 DEF DriveFails, Upload, Deletion, Free
  <1>7. ASSUME NEW request \in astray, Execute(request) PROVE DriveTypeOK'
    BY <1>7 DEF Execute
  <1>8. CASE Restart
    BY <1>8 DEF Restart
  <1>9. CASE UNCHANGED driveVars
    BY <1>9 DEF driveVars
  <1> QED
    BY <1>1, <1>2, <1>3, <1>4, <1>5, <1>6, <1>7, <1>8, <1>9 DEF DriveNext

\* A request to delete was preceded by the wish, which is never taken back.
LEMMA DriveWantedStep == DriveInv /\ [DriveNext]_driveVars => DeletesAreWanted'
  <1> SUFFICES ASSUME DriveInv, [DriveNext]_driveVars,
                      NEW request \in Requests, Pending(request)', request[1] = "delete"
               PROVE request[2] \in unwanted'
    BY DEF DeletesAreWanted
  <1> USE DEF DriveInv, callers
  <1>1. unwanted \subseteq unwanted'
    BY DEF DriveNext, StoreChunk, Created, DeleteChunk, Deleted, NotOnDrive, DriveFails,
           Execute, Restart, driveVars
  <1>2. CASE Pending(request)
    BY <1>1, <1>2 DEF DeletesAreWanted
  <1>3. CASE ~Pending(request)
    <2>0. request # Free
      BY DEF Free
    <2>1. PICK k \in ChunkIds : StoreChunk(k) \/ DeleteChunk(k)
      <3>1. request \notin astray' => job' # job /\ job' # Free
        BY <1>3, <2>0 DEF Pending
      <3>2. astray' \subseteq astray \union {job}
        BY DEF DriveNext, StoreChunk, Created, DeleteChunk, Deleted, NotOnDrive, DriveFails,
               Execute, Restart, driveVars
      <3>3. job' # job /\ job' # Free
        BY <1>3, <3>1, <3>2 DEF Pending
      <3> QED
        BY <3>3 DEF DriveNext, Created, Deleted, NotOnDrive, DriveFails, Execute, Restart,
                    driveVars
    <2>2. request = job' /\ job' # job
      BY <1>3, <2>1 DEF Pending, StoreChunk, DeleteChunk
    <2>3. request = Deletion(k) /\ k \in unwanted'
      BY <2>1, <2>2 DEF StoreChunk, DeleteChunk
    <2> QED
      BY <2>3 DEF Deletion
  <1> QED
    BY <1>2, <1>3

\* The folder loses a file only of a chunk somebody wants deleted.
LEMMA DriveKeeps ==
  ASSUME DriveInv, [DriveNext]_driveVars,
         NEW k \in ChunkIds \ unwanted', NEW n, <<k, n>> \in drive
  PROVE  <<k, n>> \in drive'
  <1> USE DEF DriveInv, callers
  <1>1. ASSUME NEW i \in ChunkIds, Deleted(i) PROVE <<k, n>> \in drive'
    <2>1. job \in Requests /\ job[1] = "delete" /\ job[2] = i
      BY <1>1 DEF Deleted, Deletion, DriveTypeOK, Free
    <2>2. i \in unwanted'
      BY <1>1, <2>1 DEF DeletesAreWanted, Pending, Deleted
    <2> QED
      BY <1>1, <2>2 DEF Deleted
  <1>2. ASSUME NEW request \in astray, Execute(request) PROVE <<k, n>> \in drive'
    <2>1. request \in Requests
      BY DEF DriveTypeOK
    <2>2. request[1] # "create" => request[2] \in unwanted'
      BY <1>2, <2>1 DEF DeletesAreWanted, Pending, Execute, Requests
    <2> QED
      BY <1>2, <2>2 DEF Execute
  <1> QED
    BY <1>1, <1>2 DEF DriveNext, StoreChunk, Created, DeleteChunk, NotOnDrive, DriveFails,
                      Restart, driveVars

\* An entry of the cache is made for a file that is there.
LEMMA DriveCacheStep == DriveInv /\ [DriveNext]_driveVars => CachedIsThere'
  <1> SUFFICES ASSUME DriveInv, [DriveNext]_driveVars,
                      NEW k \in ChunkIds \ unwanted', chunkCache'[k] # 0
               PROVE <<k, chunkCache'[k]>> \in drive'
    BY DEF CachedIsThere
  <1> USE DEF callers
  <1>1. k \in ChunkIds \ unwanted
    BY DEF DriveNext, StoreChunk, Created, DeleteChunk, Deleted, NotOnDrive, DriveFails,
           Execute, Restart, driveVars
  <1>2. CASE chunkCache'[k] = chunkCache[k]
    BY <1>1, <1>2, DriveKeeps DEF DriveInv, CachedIsThere
  <1>3. CASE chunkCache'[k] # chunkCache[k]
    <2>1. ASSUME NEW i \in ChunkIds, Created(i) PROVE <<k, chunkCache'[k]>> \in drive'
      BY <1>3, <2>1 DEF Created, DriveInv, DriveTypeOK
    <2>2. ASSUME NEW i \in ChunkIds, Deleted(i) PROVE FALSE
      BY <1>3, <2>2 DEF Deleted, DriveInv, DriveTypeOK
    <2>3. CASE Restart
      BY <2>3 DEF Restart
    <2> QED
      BY <1>3, <2>1, <2>2, <2>3 DEF DriveNext, StoreChunk, DeleteChunk, NotOnDrive, DriveFails,
                                    Execute, driveVars
  <1> QED
    BY <1>2, <1>3

\* What is newly acknowledged as stored has been uploaded, or was in the cache.
LEMMA DriveAckedStep == DriveInv /\ [DriveNext]_driveVars => AckedIsKept'
  <1> SUFFICES ASSUME DriveInv, [DriveNext]_driveVars, NEW k \in (stored \ unwanted)'
               PROVE \E n \in Numbers : <<k, n>> \in drive'
    BY DEF AckedIsKept, Numbers
  <1> USE DEF callers
  <1>1. k \in ChunkIds \ unwanted' /\ k \notin unwanted
    <2>1. DriveTypeOK'
      BY DriveTypeStep
    <2> QED
      BY <2>1 DEF DriveTypeOK, DriveNext, StoreChunk, Created, DeleteChunk, Deleted, NotOnDrive,
                  DriveFails, Execute, Restart, driveVars
  <1>2. CASE k \in stored
    <2>1. PICK n \in Numbers : <<k, n>> \in drive
      BY <1>1, <1>2 DEF DriveInv, AckedIsKept, Numbers
    <2> QED
      BY <1>1, <2>1, DriveKeeps
  <1>3. CASE k \notin stored
    <2>1. ASSUME NEW i \in ChunkIds, StoreChunk(i) PROVE \E n \in Numbers : <<k, n>> \in drive'
      <3>1. i = k /\ chunkCache[k] # 0 /\ drive' = drive
        BY <1>3, <2>1 DEF StoreChunk, Returned
      <3>2. <<k, chunkCache[k]>> \in drive
        BY <1>1, <3>1 DEF DriveInv, CachedIsThere
      <3> QED
        BY <1>1, <3>1, <3>2, DriveAssumption DEF DriveInv, DriveTypeOK, Numbers
    <2>2. ASSUME NEW i \in ChunkIds, Created(i) PROVE \E n \in Numbers : <<k, n>> \in drive'
      <3>1. i = k /\ <<k, minted[k]>> \in drive'
        BY <1>3, <2>2 DEF Created, Returned
      <3>2. minted[k] \in Numbers
        BY <2>2, <3>1 DEF Created, Upload, Free, DriveInv, DriveTypeOK, Requests
      <3> QED
        BY <3>1, <3>2
    <2> QED
      BY <1>3, <2>1, <2>2 DEF DriveNext, DeleteChunk, Deleted, Returned, NotOnDrive, DriveFails,
                              Execute, Restart, driveVars
  <1> QED
    BY <1>2, <1>3

\* The invariant holds in every state.
LEMMA DriveInvariant == DriveSpec => []DriveInv
  <1>1. DriveInv /\ [DriveNext]_driveVars => DriveInv'
    BY DriveTypeStep, DriveWantedStep, DriveCacheStep, DriveAckedStep DEF DriveInv
  <1> QED
    BY DriveStart, <1>1, PTL DEF DriveSpec

\* A chunk acknowledged by StoreChunk stays in the folder until its deletion is asked
\* for, for any number of lost answers, late requests, failed listings and restarts.
THEOREM AcknowledgedStays == DriveSpec => []AckedIsKept
  BY DriveInvariant, PTL DEF DriveInv

(***************************************************************************)
(* The cache and the folder.                                               *)
(***************************************************************************)

\* A request nobody waits for left its chunk in doubt.
AstrayInDoubt == \A request \in astray : request[2] \in doubtful

\* StoreChunk uploads what is not in the cache, and nothing enters it meanwhile.
UploadsAreNew == \A k \in ChunkIds : job = Upload(k) => chunkCache[k] = 0

FolderInv == AstrayInDoubt /\ UploadsAreNew /\ CacheIsDrive

\* An empty folder and an empty cache agree.
LEMMA FolderStart == DriveInit => FolderInv
  <1> SUFFICES ASSUME DriveInit PROVE FolderInv
    OBVIOUS
  <1>1. AstrayInDoubt
    BY DEF DriveInit, AstrayInDoubt
  <1>2. UploadsAreNew
    BY DEF DriveInit, UploadsAreNew
  <1>3. CacheIsDrive
    <2>1. \A n \in 1 .. MaxUploads : n # 0
      BY DriveAssumption
    <2>2. \A k \in ChunkIds : chunkCache[k] = 0 /\ last[k] # "stored"
      BY DEF DriveInit
    <2>3. drive = {}
      BY DEF DriveInit
    <2> QED
      BY <2>1, <2>2, <2>3 DEF CacheIsDrive
  <1> QED
    BY <1>1, <1>2, <1>3 DEF FolderInv

\* A request becomes nobody's only by an error or a restart, which leave its chunk in
\* doubt.
LEMMA AstrayStep == DriveInv /\ FolderInv /\ [DriveNext]_driveVars => AstrayInDoubt'
  <1> SUFFICES ASSUME DriveInv, FolderInv, [DriveNext]_driveVars, NEW request \in astray'
               PROVE request[2] \in doubtful'
    BY DEF AstrayInDoubt
  <1> USE DEF FolderInv, AstrayInDoubt
  <1>1. doubtful \subseteq doubtful'
    BY DEF DriveNext, StoreChunk, Created, DeleteChunk, Deleted, NotOnDrive, DriveFails,
           Execute, Restart, driveVars
  <1>2. CASE request \in astray
    BY <1>1, <1>2
  <1>3. CASE request \notin astray
    <2>1. request = job /\ ((\E k \in ChunkIds : DriveFails(k)) \/ Restart)
      BY <1>3 DEF DriveNext, StoreChunk, Created, DeleteChunk, Deleted, NotOnDrive,
                  DriveFails, Execute, Restart, driveVars
    <2>2. ASSUME NEW k \in ChunkIds, DriveFails(k) PROVE request[2] \in doubtful'
      BY <2>1, <2>2 DEF DriveFails, Upload, Deletion
    <2>3. CASE Restart
      BY <1>3, <2>1, <2>3 DEF Restart
    <2> QED
      BY <2>1, <2>2, <2>3
  <1> QED
    BY <1>2, <1>3

\* The mutex keeps the cache as it is while an upload is in progress.
LEMMA NewUploadStep == DriveInv /\ FolderInv /\ [DriveNext]_driveVars => UploadsAreNew'
  <1> SUFFICES ASSUME DriveInv, FolderInv, [DriveNext]_driveVars,
                      NEW k \in ChunkIds, job' = Upload(k)'
               PROVE chunkCache'[k] = 0
    BY DEF UploadsAreNew
  <1> USE DEF FolderInv, UploadsAreNew, Upload, callers
  <1>1. job' # Free
    BY DEF Free
  <1>2. ASSUME NEW i \in ChunkIds, StoreChunk(i) PROVE chunkCache'[k] = 0
    <2>1. CASE chunkCache[i] # 0
      BY <1>2, <2>1, <1>1 DEF StoreChunk
    <2>2. CASE chunkCache[i] = 0
      <3>1. job' = <<"create", i, minted[i] + 1>>
        BY <1>2, <2>2 DEF StoreChunk
      <3>2. i = k
        BY <3>1
      <3> QED
        BY <1>2, <2>2, <3>2 DEF StoreChunk
    <2> QED
      BY <2>1, <2>2
  <1>3. ASSUME NEW i \in ChunkIds, DeleteChunk(i) PROVE chunkCache'[k] = 0
    <2>1. job' = job
      BY <1>1, <1>3 DEF DeleteChunk, Deletion
    <2> QED
      BY <1>3, <2>1 DEF DeleteChunk
  <1> QED
    BY <1>1, <1>2, <1>3 DEF DriveNext, Created, Deleted, NotOnDrive, DriveFails, Execute,
                            Restart, driveVars

\* Every step that gets through changes the cache as it changes the folder.
LEMMA FolderStep == DriveInv /\ FolderInv /\ [DriveNext]_driveVars => CacheIsDrive'
  <1> SUFFICES ASSUME DriveInv, FolderInv, [DriveNext]_driveVars,
                      NEW k \in ChunkIds \ doubtful'
               PROVE /\ last'[k] = "stored" <=> chunkCache'[k] # 0
                     /\ \A n \in Numbers : <<k, n>> \in drive' <=> n = chunkCache'[k]
    BY DEF CacheIsDrive, Numbers
  <1> USE DEF callers
  <1>1. k \in ChunkIds \ doubtful
    BY DEF DriveNext, StoreChunk, Created, DeleteChunk, Deleted, NotOnDrive, DriveFails,
           Execute, Restart, driveVars
  <1>2. last[k] = "stored" <=> chunkCache[k] # 0
    BY <1>1 DEF FolderInv, CacheIsDrive
  <1>3. \A n \in Numbers : <<k, n>> \in drive <=> n = chunkCache[k]
    BY <1>1 DEF FolderInv, CacheIsDrive, Numbers
  <1>4. CASE last'[k] = last[k] /\ chunkCache'[k] = chunkCache[k]
             /\ \A n \in Numbers : <<k, n>> \in drive' <=> <<k, n>> \in drive
    BY <1>2, <1>3, <1>4
  <1>5. ASSUME NEW i \in ChunkIds, StoreChunk(i)
        PROVE /\ last'[k] = "stored" <=> chunkCache'[k] # 0
              /\ \A n \in Numbers : <<k, n>> \in drive' <=> n = chunkCache'[k]
    BY <1>1, <1>2, <1>3, <1>5 DEF StoreChunk, Returned, DriveInv, DriveTypeOK
  <1>6. ASSUME NEW i \in ChunkIds, Created(i)
        PROVE /\ last'[k] = "stored" <=> chunkCache'[k] # 0
              /\ \A n \in Numbers : <<k, n>> \in drive' <=> n = chunkCache'[k]
    <2>1. CASE i # k
      BY <1>2, <1>3, <1>6, <2>1 DEF Created, Returned
    <2>2. CASE i = k
      <3>1. chunkCache[k] = 0 /\ minted[k] \in Numbers
        BY <1>6, <2>2 DEF Created, Upload, Free, DriveInv, DriveTypeOK, Requests, FolderInv,
                          UploadsAreNew
      <3>2. chunkCache'[k] = minted[k] /\ last'[k] = "stored"
        BY <1>6, <2>2, <1>1 DEF Created, Returned, DriveInv, DriveTypeOK
      <3>3. \A n \in Numbers : <<k, n>> \notin drive
        BY <1>3, <3>1 DEF Numbers
      <3>4. chunkCache'[k] # 0
        BY <3>1, <3>2 DEF Numbers
      <3> QED
        BY <1>6, <2>2, <3>2, <3>3, <3>4 DEF Created
    <2> QED
      BY <2>1, <2>2
  <1>7. ASSUME NEW i \in ChunkIds, DeleteChunk(i)
        PROVE /\ last'[k] = "stored" <=> chunkCache'[k] # 0
              /\ \A n \in Numbers : <<k, n>> \in drive' <=> n = chunkCache'[k]
    BY <1>1, <1>2, <1>3, <1>7 DEF DeleteChunk, Returned, DriveInv, DriveTypeOK
  <1>8. ASSUME NEW i \in ChunkIds, Deleted(i)
        PROVE /\ last'[k] = "stored" <=> chunkCache'[k] # 0
              /\ \A n \in Numbers : <<k, n>> \in drive' <=> n = chunkCache'[k]
    <2>1. CASE i # k
      BY <1>2, <1>3, <1>8, <2>1 DEF Deleted, Returned
    <2>2. CASE i = k
      <3>1. chunkCache'[k] = 0 /\ last'[k] = "deleted"
        BY <1>8, <2>2, <1>1 DEF Deleted, Returned, DriveInv, DriveTypeOK
      <3>2. \A n \in Numbers : <<k, n>> \notin drive' /\ n # 0
        BY <1>3, <1>8, <2>2 DEF Deleted, Numbers
      <3> QED
        BY <3>1, <3>2
    <2> QED
      BY <2>1, <2>2
  <1>9. ASSUME NEW request \in astray, Execute(request)
        PROVE /\ last'[k] = "stored" <=> chunkCache'[k] # 0
              /\ \A n \in Numbers : <<k, n>> \in drive' <=> n = chunkCache'[k]
    <2>1. request[2] # k
      BY <1>1 DEF FolderInv, AstrayInDoubt
    <2>2. \A n \in Numbers : <<k, n>> \in drive' <=> <<k, n>> \in drive
      BY <1>9, <2>1 DEF Execute
    <2> QED
      BY <1>2, <1>3, <1>9, <2>2 DEF Execute
  <1>10. CASE Restart
    <2>1. PICK listed \in SUBSET drive :
              /\ IF \E i \in Numbers : <<k, i>> \in listed
                 THEN <<k, chunkCache'[k]>> \in listed ELSE chunkCache'[k] = 0
              /\ doubtful' = doubtful \union {f[1] : f \in drive \ listed}
                                \union (IF job = Free THEN {} ELSE {job[2]})
      BY <1>1, <1>10 DEF Restart, Numbers
    <2>2. \A n \in Numbers : <<k, n>> \in drive => <<k, n>> \in listed
      BY <2>1
    <2>3. drive' = drive /\ last' = last
      BY <1>10 DEF Restart
    <2>4. CASE \E i \in Numbers : <<k, i>> \in listed
      <3>1. <<k, chunkCache'[k]>> \in drive /\ chunkCache'[k] \in Numbers
        BY <2>1, <2>4 DEF DriveInv, DriveTypeOK
      <3>2. chunkCache'[k] = chunkCache[k]
        BY <1>3, <3>1
      <3> QED
        BY <1>2, <1>3, <2>3, <3>2
    <2>5. CASE ~\E i \in Numbers : <<k, i>> \in listed
      <3>1. chunkCache'[k] = 0 /\ \A n \in Numbers : <<k, n>> \notin drive /\ n # 0
        BY <2>1, <2>2, <2>5 DEF Numbers
      <3>2. chunkCache[k] = 0
        <4>1. chunkCache[k] \in 0 .. MaxUploads
          BY <1>1 DEF DriveInv, DriveTypeOK
        <4>2. chunkCache[k] \notin Numbers
          BY <1>3, <3>1
        <4> QED
          BY <4>1, <4>2, DriveAssumption DEF Numbers
      <3> QED
        BY <1>2, <2>3, <3>1, <3>2
    <2> QED
      BY <2>4, <2>5
  <1> QED
    BY <1>4, <1>5, <1>6, <1>7, <1>8, <1>9, <1>10
    DEF DriveNext, NotOnDrive, DriveFails, driveVars

\* The invariants together hold in every state.
LEMMA FolderInvariant == DriveSpec => [](DriveInv /\ FolderInv)
  <1>1. DriveInit => DriveInv /\ FolderInv
    BY DriveStart, FolderStart
  <1>2. DriveInv /\ FolderInv /\ [DriveNext]_driveVars => (DriveInv /\ FolderInv)'
    <2>1. DriveInv /\ [DriveNext]_driveVars => DriveInv'
      BY DriveTypeStep, DriveWantedStep, DriveCacheStep, DriveAckedStep DEF DriveInv
    <2> QED
      BY <2>1, AstrayStep, NewUploadStep, FolderStep DEF FolderInv
  <1> QED
    BY <1>1, <1>2, PTL DEF DriveSpec

\* While every call on a chunk gets through, the cache that decides on reads, uploads
\* and deletions agrees with the folder and with the last answer.
THEOREM CacheAgrees == DriveSpec => []CacheIsDrive
  BY FolderInvariant, PTL DEF FolderInv

=============================================================================
