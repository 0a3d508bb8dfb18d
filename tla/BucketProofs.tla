---------------------------- MODULE BucketProofs ----------------------------
(***************************************************************************)
(* Proofs about the life of a bucket, for every set of keys and requests,  *)
(* every metadata store and every number of restarts.                      *)
(***************************************************************************)
EXTENDS Listing, FiniteSetTheorems, WellFoundedInduction, TLAPS

USE BucketAssumption DEF Requests

(***************************************************************************)
(* The inductive invariant.                                                *)
(***************************************************************************)

Running == {"create", "mkdir", "rmfile", "rmrecord", "flag", "key", "upload", "install"}

Records == Creates \union {NoBucket}

BucketTypeOK ==
    /\ store \in {"local", "memory", "etcd"}
    /\ record \in Records
    /\ dir \in BOOLEAN
    /\ temp \in BOOLEAN
    /\ objects \subseteq Keys
    /\ encryptor \in Records
    /\ pc \in [Requests -> Running \union Finished \union {"idle"}]
    /\ key \in [Keys \union Unlocks -> Records]
    /\ faults \in Nat

\* LocalStore.mu: one creation or removal at a time is between its two parts.
LockOK ==
    /\ \A r, q \in Requests :
          pc[r] \in {"mkdir", "rmfile"} /\ pc[q] \in {"mkdir", "rmfile"} => r = q
    /\ \A r \in Requests :
          /\ pc[r] \in {"mkdir", "rmfile"} => store = "local"
          /\ pc[r] = "rmrecord" => store = "etcd"

\* In the local store, objects need their directory and that needs its bucket.
GhostOK ==
    store = "local" /\ faults = 0 =>
        /\ objects # {} => dir
        /\ dir => record # NoBucket
        /\ \A r \in Requests : pc[r] = "mkdir" => record # NoBucket
        /\ \A r \in Requests : pc[r] = "rmfile" => ~dir

\* Records and keys come from creations that have begun, keys from encrypted ones,
\* and an upload has no key before it has asked for one.
OriginOK ==
    /\ record # NoBucket => pc[record] # "idle"
    /\ encryptor # NoBucket => encryptor \in Encrypted /\ pc[encryptor] # "idle"
    /\ \A u \in Unlocks : pc[u] = "install" => key[u] \in Encrypted /\ pc[key[u]] # "idle"
    /\ \A k \in Keys :
          /\ pc[k] \in {"idle", "flag", "key"} => key[k] = NoBucket
          /\ k \in objects => pc[k] \notin {"idle", "flag", "key", "upload"}

\* The premise of EncryptedAsRecorded.
Calm ==
    /\ faults = 0
    /\ \A d \in Deletes : pc[d] = "idle"
    /\ \A c, e \in Encrypted : pc[c] # "idle" /\ pc[e] # "idle" => c = e

\* The key that goes with the record.
RecordKey == IF record \in Encrypted THEN record ELSE NoBucket

KeysFit ==
    /\ record \in Encrypted => encryptor \in {record, NoBucket}
    /\ \A u \in Unlocks : pc[u] = "install" => record \in Encrypted /\ key[u] = record
    /\ \A k \in Keys :
          /\ pc[k] = "flag" => record # NoBucket
          /\ pc[k] = "key" => record \in Encrypted
          /\ pc[k] = "upload" \/ k \in objects => record # NoBucket /\ key[k] = RecordKey

KeysOK == Calm => KeysFit

BucketInv == BucketTypeOK /\ LockOK /\ GhostOK /\ OriginOK /\ KeysOK

(***************************************************************************)
(* The initial state and every step, one conjunct at a time.               *)
(***************************************************************************)

\* All of it holds before the first request.
LEMMA BucketInit == Init => BucketInv
<1> SUFFICES ASSUME Init PROVE BucketInv
  OBVIOUS
<1> USE DEF Init
<1>1. BucketTypeOK
  BY DEF BucketTypeOK, Records
<1>2. LockOK /\ GhostOK
  BY DEF LockOK, GhostOK
<1>3. OriginOK /\ KeysOK
  BY DEF OriginOK, KeysOK, KeysFit
<1>4. QED
  BY <1>1, <1>2, <1>3 DEF BucketInv

\* Types are kept.
LEMMA BucketTypeStep == BucketInv /\ [Next]_vars => BucketTypeOK'
<1> SUFFICES ASSUME BucketInv, [Next]_vars PROVE BucketTypeOK'
  OBVIOUS
<1> USE DEF BucketInv, BucketTypeOK, Records, Running, Finished, Goto, memoryVars, Fault
<1>1. ASSUME NEW c \in Creates, CreateBegin(c) PROVE BucketTypeOK'
  <2>1. store' \in {"local", "memory", "etcd"} /\ record' \in Records /\ encryptor' \in Records
    BY <1>1 DEF CreateBegin
  <2>2. dir' \in BOOLEAN /\ temp' \in BOOLEAN
    BY <1>1 DEF CreateBegin
  <2>3. objects' \subseteq Keys /\ faults' \in Nat
    BY <1>1 DEF CreateBegin
  <2>4. pc' \in [Requests -> Running \union Finished \union {"idle"}]
    BY <1>1 DEF CreateBegin
  <2>5. key' \in [Keys \union Unlocks -> Records]
    BY <1>1 DEF CreateBegin
  <2> QED
    BY ONLY <2>1, <2>2, <2>3, <2>4, <2>5 DEF BucketTypeOK
<1>2. ASSUME NEW c \in Creates, CreateRecord(c) PROVE BucketTypeOK'
  <2>1. store' \in {"local", "memory", "etcd"} /\ record' \in Records /\ encryptor' \in Records
    BY <1>2 DEF CreateRecord
  <2>2. dir' \in BOOLEAN /\ temp' \in BOOLEAN
    BY <1>2 DEF CreateRecord
  <2>3. objects' \subseteq Keys /\ faults' \in Nat
    BY <1>2 DEF CreateRecord
  <2>4. pc' \in [Requests -> Running \union Finished \union {"idle"}]
    BY <1>2 DEF CreateRecord
  <2>5. key' \in [Keys \union Unlocks -> Records]
    BY <1>2 DEF CreateRecord
  <2> QED
    BY ONLY <2>1, <2>2, <2>3, <2>4, <2>5 DEF BucketTypeOK
<1>3. ASSUME NEW c \in Creates, CreateDir(c) PROVE BucketTypeOK'
  <2>1. store' \in {"local", "memory", "etcd"} /\ record' \in Records /\ encryptor' \in Records
    BY <1>3 DEF CreateDir
  <2>2. dir' \in BOOLEAN /\ temp' \in BOOLEAN
    BY <1>3 DEF CreateDir
  <2>3. objects' \subseteq Keys /\ faults' \in Nat
    BY <1>3 DEF CreateDir
  <2>4. pc' \in [Requests -> Running \union Finished \union {"idle"}]
    BY <1>3 DEF CreateDir
  <2>5. key' \in [Keys \union Unlocks -> Records]
    BY <1>3 DEF CreateDir
  <2> QED
    BY ONLY <2>1, <2>2, <2>3, <2>4, <2>5 DEF BucketTypeOK
<1>4. ASSUME NEW d \in Deletes, DeleteLocal(d) PROVE BucketTypeOK'
  <2>1. store' \in {"local", "memory", "etcd"} /\ record' \in Records /\ encryptor' \in Records
    BY <1>4 DEF DeleteLocal
  <2>2. dir' \in BOOLEAN /\ temp' \in BOOLEAN
    BY <1>4 DEF DeleteLocal
  <2>6. objects' \subseteq objects /\ (faults' = faults \/ faults' = faults + 1)
    BY <1>4 DEF DeleteLocal
  <2>3. objects' \subseteq Keys /\ faults' \in Nat
    BY <2>6
  <2>4. pc' \in [Requests -> Running \union Finished \union {"idle"}]
    BY <1>4 DEF DeleteLocal
  <2>5. key' \in [Keys \union Unlocks -> Records]
    BY <1>4 DEF DeleteLocal
  <2> QED
    BY ONLY <2>1, <2>2, <2>3, <2>4, <2>5 DEF BucketTypeOK
<1>5. ASSUME NEW d \in Deletes, DeleteMemory(d) PROVE BucketTypeOK'
  <2>1. store' \in {"local", "memory", "etcd"} /\ record' \in Records /\ encryptor' \in Records
    BY <1>5 DEF DeleteMemory
  <2>2. dir' \in BOOLEAN /\ temp' \in BOOLEAN
    BY <1>5 DEF DeleteMemory
  <2>3. objects' \subseteq Keys /\ faults' \in Nat
    BY <1>5 DEF DeleteMemory
  <2>4. pc' \in [Requests -> Running \union Finished \union {"idle"}]
    BY <1>5 DEF DeleteMemory
  <2>5. key' \in [Keys \union Unlocks -> Records]
    BY <1>5 DEF DeleteMemory
  <2> QED
    BY ONLY <2>1, <2>2, <2>3, <2>4, <2>5 DEF BucketTypeOK
<1>6. ASSUME NEW d \in Deletes, DeleteEtcd(d) PROVE BucketTypeOK'
  <2>1. store' \in {"local", "memory", "etcd"} /\ record' \in Records /\ encryptor' \in Records
    BY <1>6 DEF DeleteEtcd
  <2>2. dir' \in BOOLEAN /\ temp' \in BOOLEAN
    BY <1>6 DEF DeleteEtcd
  <2>3. objects' \subseteq Keys /\ faults' \in Nat
    BY <1>6 DEF DeleteEtcd
  <2>4. pc' \in [Requests -> Running \union Finished \union {"idle"}]
    BY <1>6 DEF DeleteEtcd
  <2>5. key' \in [Keys \union Unlocks -> Records]
    BY <1>6 DEF DeleteEtcd
  <2> QED
    BY ONLY <2>1, <2>2, <2>3, <2>4, <2>5 DEF BucketTypeOK
<1>7. ASSUME NEW d \in Deletes, DeleteRecord(d) PROVE BucketTypeOK'
  <2>1. store' \in {"local", "memory", "etcd"} /\ record' \in Records /\ encryptor' \in Records
    BY <1>7 DEF DeleteRecord
  <2>2. dir' \in BOOLEAN /\ temp' \in BOOLEAN
    BY <1>7 DEF DeleteRecord
  <2>3. objects' \subseteq Keys /\ faults' \in Nat
    BY <1>7 DEF DeleteRecord
  <2>4. pc' \in [Requests -> Running \union Finished \union {"idle"}]
    BY <1>7 DEF DeleteRecord
  <2>5. key' \in [Keys \union Unlocks -> Records]
    BY <1>7 DEF DeleteRecord
  <2> QED
    BY ONLY <2>1, <2>2, <2>3, <2>4, <2>5 DEF BucketTypeOK
<1>8. ASSUME NEW k \in Keys, PutBegin(k) PROVE BucketTypeOK'
  <2>1. store' \in {"local", "memory", "etcd"} /\ record' \in Records /\ encryptor' \in Records
    BY <1>8 DEF PutBegin
  <2>2. dir' \in BOOLEAN /\ temp' \in BOOLEAN
    BY <1>8 DEF PutBegin
  <2>3. objects' \subseteq Keys /\ faults' \in Nat
    BY <1>8 DEF PutBegin
  <2>4. pc' \in [Requests -> Running \union Finished \union {"idle"}]
    BY <1>8 DEF PutBegin
  <2>5. key' \in [Keys \union Unlocks -> Records]
    BY <1>8 DEF PutBegin
  <2> QED
    BY ONLY <2>1, <2>2, <2>3, <2>4, <2>5 DEF BucketTypeOK
<1>9. ASSUME NEW k \in Keys, PutFlag(k) PROVE BucketTypeOK'
  <2>1. store' \in {"local", "memory", "etcd"} /\ record' \in Records /\ encryptor' \in Records
    BY <1>9 DEF PutFlag
  <2>2. dir' \in BOOLEAN /\ temp' \in BOOLEAN
    BY <1>9 DEF PutFlag
  <2>3. objects' \subseteq Keys /\ faults' \in Nat
    BY <1>9 DEF PutFlag
  <2>4. pc' \in [Requests -> Running \union Finished \union {"idle"}]
    BY <1>9 DEF PutFlag
  <2>5. key' \in [Keys \union Unlocks -> Records]
    BY <1>9 DEF PutFlag
  <2> QED
    BY ONLY <2>1, <2>2, <2>3, <2>4, <2>5 DEF BucketTypeOK
<1>10. ASSUME NEW k \in Keys, PutKey(k) PROVE BucketTypeOK'
  <2>1. store' \in {"local", "memory", "etcd"} /\ record' \in Records /\ encryptor' \in Records
    BY <1>10 DEF PutKey
  <2>2. dir' \in BOOLEAN /\ temp' \in BOOLEAN
    BY <1>10 DEF PutKey
  <2>3. objects' \subseteq Keys /\ faults' \in Nat
    BY <1>10 DEF PutKey
  <2>4. pc' \in [Requests -> Running \union Finished \union {"idle"}]
    BY <1>10 DEF PutKey
  <2>5. key' \in [Keys \union Unlocks -> Records]
    BY <1>10 DEF PutKey
  <2> QED
    BY ONLY <2>1, <2>2, <2>3, <2>4, <2>5 DEF BucketTypeOK
<1>11. ASSUME NEW k \in Keys, PutCommit(k) PROVE BucketTypeOK'
  <2>1. record' \in Records /\ encryptor' \in Records /\ UNCHANGED <<store, dir, temp>>
    BY <1>11 DEF PutCommit
  <2>2. objects' \in {objects, objects \union {k}} /\ faults' \in {faults, faults + 1}
    BY <1>11 DEF PutCommit
  <2>3. pc' = [pc EXCEPT ![k] = "ok"] \/ pc' = [pc EXCEPT ![k] = "failed"]
    BY <1>11 DEF PutCommit
  <2>4. key' = key
    BY <1>11 DEF PutCommit
  <2>5. objects' \subseteq Keys /\ faults' \in Nat
    BY <2>2
  <2> QED
    BY <2>1, <2>3, <2>4, <2>5
<1>12. ASSUME NEW k \in Keys, RemoveObject(k) PROVE BucketTypeOK'
  <2>1. store' \in {"local", "memory", "etcd"} /\ record' \in Records /\ encryptor' \in Records
    BY <1>12 DEF RemoveObject
  <2>2. dir' \in BOOLEAN /\ temp' \in BOOLEAN
    BY <1>12 DEF RemoveObject
  <2>3. objects' \subseteq Keys /\ faults' \in Nat
    BY <1>12 DEF RemoveObject
  <2>4. pc' \in [Requests -> Running \union Finished \union {"idle"}]
    BY <1>12 DEF RemoveObject
  <2>5. key' \in [Keys \union Unlocks -> Records]
    BY <1>12 DEF RemoveObject
  <2> QED
    BY ONLY <2>1, <2>2, <2>3, <2>4, <2>5 DEF BucketTypeOK
<1>13. ASSUME NEW u \in Unlocks, UnlockBegin(u) PROVE BucketTypeOK'
  <2>1. UNCHANGED <<store, record, dir, temp, objects, encryptor, faults>>
    BY <1>13 DEF UnlockBegin
  <2>2. pc' = [pc EXCEPT ![u] = "install"] \/ pc' = [pc EXCEPT ![u] = "refused"]
    BY <1>13 DEF UnlockBegin
  <2>3. key' = [key EXCEPT ![u] = record] \/ key' = key
    BY <1>13 DEF UnlockBegin
  <2>4. key' \in [Keys \union Unlocks -> Records]
    BY <2>3
  <2> QED
    BY <2>1, <2>2, <2>4
<1>14. ASSUME NEW u \in Unlocks, UnlockInstall(u) PROVE BucketTypeOK'
  <2>1. store' \in {"local", "memory", "etcd"} /\ record' \in Records /\ encryptor' \in Records
    BY <1>14 DEF UnlockInstall
  <2>2. dir' \in BOOLEAN /\ temp' \in BOOLEAN
    BY <1>14 DEF UnlockInstall
  <2>3. objects' \subseteq Keys /\ faults' \in Nat
    BY <1>14 DEF UnlockInstall
  <2>4. pc' \in [Requests -> Running \union Finished \union {"idle"}]
    BY <1>14 DEF UnlockInstall
  <2>5. key' \in [Keys \union Unlocks -> Records]
    BY <1>14 DEF UnlockInstall
  <2> QED
    BY ONLY <2>1, <2>2, <2>3, <2>4, <2>5 DEF BucketTypeOK
<1>15. ASSUME Restart PROVE BucketTypeOK'
  <2>1. store' \in {"local", "memory", "etcd"} /\ record' \in Records /\ encryptor' \in Records
    BY <1>15 DEF Restart
  <2>2. dir' \in BOOLEAN /\ temp' \in BOOLEAN
    BY <1>15 DEF Restart
  <2>3. objects' \subseteq Keys /\ faults' \in Nat
    BY <1>15 DEF Restart
  <2>4. pc' \in [Requests -> Running \union Finished \union {"idle"}]
    BY <1>15 DEF Restart
  <2>5. key' \in [Keys \union Unlocks -> Records]
    BY <1>15 DEF Restart
  <2> QED
    BY ONLY <2>1, <2>2, <2>3, <2>4, <2>5 DEF BucketTypeOK
<1>16. ASSUME UNCHANGED vars PROVE BucketTypeOK'
  BY <1>16 DEF vars, memoryVars
<1>17. QED
  BY <1>1, <1>2, <1>3, <1>4, <1>5, <1>6, <1>7, <1>8, <1>9, <1>10, <1>11, <1>12, <1>13,
     <1>14, <1>15, <1>16 DEF Next, BucketStep

\* The mutex excludes a second creation or removal.
LEMMA LockStep == BucketInv /\ [Next]_vars => LockOK'
<1> SUFFICES ASSUME BucketInv, [Next]_vars PROVE LockOK'
  OBVIOUS
<1> USE DEF BucketInv, LockOK, Unlocked, BucketTypeOK, Records, Running, Finished, Goto,
   memoryVars, Fault
<1>1. ASSUME NEW c \in Creates, CreateBegin(c) PROVE LockOK'
  BY <1>1 DEF CreateBegin
<1>2. ASSUME NEW c \in Creates, CreateRecord(c) PROVE LockOK'
  BY <1>2 DEF CreateRecord
<1>3. ASSUME NEW c \in Creates, CreateDir(c) PROVE LockOK'
  BY <1>3 DEF CreateDir
<1>4. ASSUME NEW d \in Deletes, DeleteLocal(d) PROVE LockOK'
  BY <1>4 DEF DeleteLocal
<1>5. ASSUME NEW d \in Deletes, DeleteMemory(d) PROVE LockOK'
  BY <1>5 DEF DeleteMemory
<1>6. ASSUME NEW d \in Deletes, DeleteEtcd(d) PROVE LockOK'
  BY <1>6 DEF DeleteEtcd
<1>7. ASSUME NEW d \in Deletes, DeleteRecord(d) PROVE LockOK'
  BY <1>7 DEF DeleteRecord
<1>8. ASSUME NEW k \in Keys, PutBegin(k) PROVE LockOK'
  BY <1>8 DEF PutBegin
<1>9. ASSUME NEW k \in Keys, PutFlag(k) PROVE LockOK'
  BY <1>9 DEF PutFlag
<1>10. ASSUME NEW k \in Keys, PutKey(k) PROVE LockOK'
  BY <1>10 DEF PutKey
<1>11. ASSUME NEW k \in Keys, PutCommit(k) PROVE LockOK'
  BY <1>11 DEF PutCommit
<1>12. ASSUME NEW k \in Keys, RemoveObject(k) PROVE LockOK'
  BY <1>12 DEF RemoveObject
<1>13. ASSUME NEW u \in Unlocks, UnlockBegin(u) PROVE LockOK'
  BY <1>13 DEF UnlockBegin
<1>14. ASSUME NEW u \in Unlocks, UnlockInstall(u) PROVE LockOK'
  BY <1>14 DEF UnlockInstall
<1>15. ASSUME Restart PROVE LockOK'
  BY <1>15 DEF Restart
<1>16. ASSUME UNCHANGED vars PROVE LockOK'
  BY <1>16 DEF vars, memoryVars
<1>17. QED
  BY <1>1, <1>2, <1>3, <1>4, <1>5, <1>6, <1>7, <1>8, <1>9, <1>10, <1>11, <1>12, <1>13,
     <1>14, <1>15, <1>16 DEF Next, BucketStep

\* Directory and record are made and removed in an order that keeps objects inside.
LEMMA GhostStep == BucketInv /\ [Next]_vars => GhostOK'
<1> SUFFICES ASSUME BucketInv, [Next]_vars PROVE GhostOK'
  OBVIOUS
<1> USE DEF BucketInv, GhostOK, LockOK, Unlocked, BucketTypeOK, Records, Running, Finished,
   Goto, memoryVars, Fault
<1>1. ASSUME NEW c \in Creates, CreateBegin(c) PROVE GhostOK'
  BY <1>1 DEF CreateBegin
<1>2. ASSUME NEW c \in Creates, CreateRecord(c) PROVE GhostOK'
  BY <1>2 DEF CreateRecord
<1>3. ASSUME NEW c \in Creates, CreateDir(c) PROVE GhostOK'
  <2> SUFFICES ASSUME store' = "local", faults' = 0
               PROVE  /\ objects' # {} => dir'
                      /\ dir' => record' # NoBucket
                      /\ \A r \in Requests : pc'[r] = "mkdir" => record' # NoBucket
                      /\ \A r \in Requests : pc'[r] = "rmfile" => ~dir'
    BY DEF GhostOK
  <2>1. store = "local" /\ faults = 0 /\ record' = record /\ objects' = objects
    BY <1>3 DEF CreateDir
  <2>2. dir' /\ pc' = [pc EXCEPT ![c] = "ok"]
    BY <1>3, <2>1 DEF CreateDir
  <2>3. record # NoBucket
    BY <1>3, <2>1 DEF CreateDir
  <2>4. \A r \in Requests : pc'[r] # "rmfile"
    BY <1>3, <2>2 DEF CreateDir
  <2> QED
    BY <2>1, <2>2, <2>3, <2>4
<1>4. ASSUME NEW d \in Deletes, DeleteLocal(d) PROVE GhostOK'
  <2> SUFFICES ASSUME store' = "local", faults' = 0
               PROVE  /\ objects' # {} => dir'
                      /\ dir' => record' # NoBucket
                      /\ \A r \in Requests : pc'[r] = "mkdir" => record' # NoBucket
                      /\ \A r \in Requests : pc'[r] = "rmfile" => ~dir'
    BY DEF GhostOK
  <2>4. ~Fault
    BY DEF Fault
  <2>1. store = "local" /\ faults = 0 /\ record' = record /\ objects' = objects
    BY ONLY <1>4, <2>4, BucketInv, store' = "local", faults' = 0
       DEF DeleteLocal, Goto, BucketInv, BucketTypeOK, memoryVars
  <2>2. CASE pc' = [pc EXCEPT ![d] = "notempty"] /\ dir' = dir
    BY <2>1, <2>2
  <2>3. CASE pc' = [pc EXCEPT ![d] = "rmfile"] /\ ~dir' /\ objects = {}
    BY <2>1, <2>3
  <2> QED
    BY <1>4, <2>1, <2>2, <2>3 DEF DeleteLocal
<1>5. ASSUME NEW d \in Deletes, DeleteMemory(d) PROVE GhostOK'
  BY <1>5 DEF DeleteMemory
<1>6. ASSUME NEW d \in Deletes, DeleteEtcd(d) PROVE GhostOK'
  BY <1>6 DEF DeleteEtcd
<1>7. ASSUME NEW d \in Deletes, DeleteRecord(d) PROVE GhostOK'
  <2> SUFFICES ASSUME store' = "local", faults' = 0
               PROVE  /\ objects' # {} => dir'
                      /\ dir' => record' # NoBucket
                      /\ \A r \in Requests : pc'[r] = "mkdir" => record' # NoBucket
                      /\ \A r \in Requests : pc'[r] = "rmfile" => ~dir'
    BY DEF GhostOK
  <2>1. store = "local" /\ faults = 0 /\ dir' = dir /\ objects' = objects
    BY <1>7 DEF DeleteRecord
  <2>2. pc[d] = "rmfile"
    BY <1>7, <2>1 DEF DeleteRecord
  <2>3. ~dir
    BY <2>1, <2>2
  <2>4. \A r \in Requests : pc[r] # "mkdir"
    BY <2>2
  <2>5. pc' = [pc EXCEPT ![d] = "failed"] \/ pc' = [pc EXCEPT ![d] = "ok"]
    BY <1>7 DEF DeleteRecord
  <2>6. \A r \in Requests : pc'[r] # "mkdir"
    BY <2>4, <2>5
  <2> QED
    BY <2>1, <2>3, <2>6
<1>8. ASSUME NEW k \in Keys, PutBegin(k) PROVE GhostOK'
  BY <1>8 DEF PutBegin
<1>9. ASSUME NEW k \in Keys, PutFlag(k) PROVE GhostOK'
  BY <1>9 DEF PutFlag
<1>10. ASSUME NEW k \in Keys, PutKey(k) PROVE GhostOK'
  BY <1>10 DEF PutKey
<1>11. ASSUME NEW k \in Keys, PutCommit(k) PROVE GhostOK'
  BY <1>11 DEF PutCommit
<1>12. ASSUME NEW k \in Keys, RemoveObject(k) PROVE GhostOK'
  BY <1>12 DEF RemoveObject
<1>13. ASSUME NEW u \in Unlocks, UnlockBegin(u) PROVE GhostOK'
  BY <1>13 DEF UnlockBegin
<1>14. ASSUME NEW u \in Unlocks, UnlockInstall(u) PROVE GhostOK'
  BY <1>14 DEF UnlockInstall
<1>15. ASSUME Restart PROVE GhostOK'
  BY <1>15 DEF Restart
<1>16. ASSUME UNCHANGED vars PROVE GhostOK'
  BY <1>16 DEF vars, memoryVars
<1>17. QED
  BY <1>1, <1>2, <1>3, <1>4, <1>5, <1>6, <1>7, <1>8, <1>9, <1>10, <1>11, <1>12, <1>13,
     <1>14, <1>15, <1>16 DEF Next, BucketStep

\* Nothing comes from a request that has not begun.
LEMMA OriginStep == BucketInv /\ [Next]_vars => OriginOK'
<1> SUFFICES ASSUME BucketInv, [Next]_vars PROVE OriginOK'
  OBVIOUS
<1> USE DEF BucketInv, OriginOK, BucketTypeOK, Records, Running, Finished, Goto, memoryVars,
   Fault
<1>1. ASSUME NEW c \in Creates, CreateBegin(c) PROVE OriginOK'
  BY <1>1 DEF CreateBegin
<1>2. ASSUME NEW c \in Creates, CreateRecord(c) PROVE OriginOK'
  <2>1. UNCHANGED <<encryptor, objects, key>> /\ record' \in {record, c}
    BY <1>2 DEF CreateRecord
  <2>2. \A r \in Requests : r # c => pc'[r] = pc[r]
    BY <1>2 DEF CreateRecord
  <2>3. pc'[c] \in {"exists", "mkdir", "ok", "failed"} /\ c \notin Keys /\ c \notin Unlocks
    BY <1>2 DEF CreateRecord
  <2> QED
    BY <2>1, <2>2, <2>3
<1>3. ASSUME NEW c \in Creates, CreateDir(c) PROVE OriginOK'
  BY <1>3 DEF CreateDir
<1>4. ASSUME NEW d \in Deletes, DeleteLocal(d) PROVE OriginOK'
  BY <1>4 DEF DeleteLocal
<1>5. ASSUME NEW d \in Deletes, DeleteMemory(d) PROVE OriginOK'
  BY <1>5 DEF DeleteMemory
<1>6. ASSUME NEW d \in Deletes, DeleteEtcd(d) PROVE OriginOK'
  BY <1>6 DEF DeleteEtcd
<1>7. ASSUME NEW d \in Deletes, DeleteRecord(d) PROVE OriginOK'
  BY <1>7 DEF DeleteRecord
<1>8. ASSUME NEW k \in Keys, PutBegin(k) PROVE OriginOK'
  BY <1>8 DEF PutBegin
<1>9. ASSUME NEW k \in Keys, PutFlag(k) PROVE OriginOK'
  <2>1. UNCHANGED <<record, encryptor, objects, key>>
    BY <1>9 DEF PutFlag
  <2>2. \A r \in Requests : r # k => pc'[r] = pc[r]
    BY <1>9 DEF PutFlag
  <2>3. pc[k] = "flag" /\ pc'[k] \in {"key", "upload"} /\ k \notin Creates /\ k \notin Unlocks
    BY <1>9 DEF PutFlag
  <2> QED
    BY <2>1, <2>2, <2>3
<1>10. ASSUME NEW k \in Keys, PutKey(k) PROVE OriginOK'
  BY <1>10 DEF PutKey
<1>11. ASSUME NEW k \in Keys, PutCommit(k) PROVE OriginOK'
  BY <1>11 DEF PutCommit
<1>12. ASSUME NEW k \in Keys, RemoveObject(k) PROVE OriginOK'
  BY <1>12 DEF RemoveObject
<1>13. ASSUME NEW u \in Unlocks, UnlockBegin(u) PROVE OriginOK'
  <2>1. UNCHANGED <<record, encryptor, objects>>
    BY <1>13 DEF UnlockBegin
  <2>2. \A r \in Requests : r # u => pc'[r] = pc[r]
    BY <1>13 DEF UnlockBegin
  <2>3. \A r \in Keys \union Unlocks : r # u => key'[r] = key[r]
    BY <1>13 DEF UnlockBegin
  <2>4. \/ pc'[u] = "refused"
        \/ pc'[u] = "install" /\ record \in Encrypted /\ key'[u] = record
    BY <1>13 DEF UnlockBegin
  <2>5. u \notin Keys /\ u \notin Creates
    OBVIOUS
  <2>6. \A r \in Creates : pc'[r] = pc[r]
    BY <2>2, <2>5
  <2>7. record # NoBucket => pc'[record] # "idle"
    BY <2>6
  <2>8. encryptor # NoBucket => encryptor \in Encrypted /\ pc'[encryptor] # "idle"
    BY <2>6
  <2>9. ASSUME NEW w \in Unlocks, pc'[w] = "install"
        PROVE  key'[w] \in Encrypted /\ pc'[key'[w]] # "idle"
    <3>1. CASE w = u
      <4>1. key'[w] = record /\ record \in Encrypted
        BY <2>4, <2>9, <3>1
      <4> QED
        BY <2>7, <4>1
    <3>2. CASE w # u
      <4>1. key'[w] = key[w] /\ pc[w] = "install"
        BY <2>2, <2>3, <2>9, <3>2
      <4>2. key[w] \in Encrypted /\ pc[key[w]] # "idle"
        BY <4>1
      <4> QED
        BY <2>6, <4>1, <4>2
    <3> QED
      BY <3>1, <3>2
  <2>10. \A k \in Keys : pc'[k] = pc[k] /\ key'[k] = key[k]
    BY <2>2, <2>3, <2>5
  <2>11. \A k \in Keys :
          /\ pc'[k] \in {"idle", "flag", "key"} => key'[k] = NoBucket
          /\ k \in objects => pc'[k] \notin {"idle", "flag", "key", "upload"}
    BY <2>10
  <2> QED
    BY <2>1, <2>7, <2>8, <2>9, <2>11
<1>14. ASSUME NEW u \in Unlocks, UnlockInstall(u) PROVE OriginOK'
  BY <1>14 DEF UnlockInstall
<1>15. ASSUME Restart PROVE OriginOK'
  BY <1>15 DEF Restart
<1>16. ASSUME UNCHANGED vars PROVE OriginOK'
  BY <1>16 DEF vars, memoryVars
<1>17. QED
  BY <1>1, <1>2, <1>3, <1>4, <1>5, <1>6, <1>7, <1>8, <1>9, <1>10, <1>11, <1>12, <1>13,
     <1>14, <1>15, <1>16 DEF Next, BucketStep

\* Nobody unfails a call or takes a request back.
LEMMA CalmBefore == BucketInv /\ [Next]_vars /\ Calm' => Calm
<1> SUFFICES ASSUME BucketInv, [Next]_vars, Calm' PROVE Calm
  OBVIOUS
<1> USE DEF BucketInv, BucketTypeOK, Running, Finished
<1>1. faults' = faults \/ faults' = faults + 1
  <2>1. ASSUME NEW c \in Creates, CreateBegin(c) PROVE faults' = faults \/ faults' = faults + 1
    BY <2>1 DEF CreateBegin, Fault
  <2>2. ASSUME NEW c \in Creates, CreateRecord(c) PROVE faults' = faults \/ faults' = faults + 1
    BY <2>2 DEF CreateRecord, Fault
  <2>3. ASSUME NEW c \in Creates, CreateDir(c) PROVE faults' = faults \/ faults' = faults + 1
    BY <2>3 DEF CreateDir, Fault
  <2>4. ASSUME NEW d \in Deletes, DeleteLocal(d) PROVE faults' = faults \/ faults' = faults + 1
    BY <2>4 DEF DeleteLocal, Fault
  <2>5. ASSUME NEW d \in Deletes, DeleteMemory(d) PROVE faults' = faults \/ faults' = faults + 1
    BY <2>5 DEF DeleteMemory, Fault
  <2>6. ASSUME NEW d \in Deletes, DeleteEtcd(d) PROVE faults' = faults \/ faults' = faults + 1
    BY <2>6 DEF DeleteEtcd, Fault
  <2>7. ASSUME NEW d \in Deletes, DeleteRecord(d) PROVE faults' = faults \/ faults' = faults + 1
    BY <2>7 DEF DeleteRecord, Fault
  <2>8. ASSUME NEW k \in Keys, PutBegin(k) PROVE faults' = faults \/ faults' = faults + 1
    BY <2>8 DEF PutBegin, Fault
  <2>9. ASSUME NEW k \in Keys, PutFlag(k) PROVE faults' = faults \/ faults' = faults + 1
    BY <2>9 DEF PutFlag, Fault
  <2>10. ASSUME NEW k \in Keys, PutKey(k) PROVE faults' = faults \/ faults' = faults + 1
    BY <2>10 DEF PutKey, Fault
  <2>11. ASSUME NEW k \in Keys, PutCommit(k) PROVE faults' = faults \/ faults' = faults + 1
    BY <2>11 DEF PutCommit, Fault
  <2>12. ASSUME NEW k \in Keys, RemoveObject(k) PROVE faults' = faults \/ faults' = faults + 1
    BY <2>12 DEF RemoveObject, Fault
  <2>13. ASSUME NEW u \in Unlocks, UnlockBegin(u) PROVE faults' = faults \/ faults' = faults + 1
    BY <2>13 DEF UnlockBegin, Fault
  <2>14. ASSUME NEW u \in Unlocks, UnlockInstall(u) PROVE faults' = faults \/ faults' = faults + 1
    BY <2>14 DEF UnlockInstall, Fault
  <2>15. ASSUME Restart PROVE faults' = faults \/ faults' = faults + 1
    BY <2>15 DEF Restart, Fault
  <2>16. ASSUME UNCHANGED vars PROVE faults' = faults \/ faults' = faults + 1
    BY <2>16 DEF vars
  <2> QED
    BY <2>1, <2>2, <2>3, <2>4, <2>5, <2>6, <2>7, <2>8, <2>9, <2>10, <2>11, <2>12, <2>13,
       <2>14, <2>15, <2>16 DEF Next, BucketStep
<1>2. \A r \in Requests : pc'[r] = "idle" => pc[r] = "idle"
  <2>1. ASSUME NEW c \in Creates, CreateBegin(c)
        PROVE  \A r \in Requests : pc'[r] = "idle" => pc[r] = "idle"
    BY <2>1 DEF CreateBegin, Goto
  <2>2. ASSUME NEW c \in Creates, CreateRecord(c)
        PROVE  \A r \in Requests : pc'[r] = "idle" => pc[r] = "idle"
    BY <2>2 DEF CreateRecord, Goto
  <2>3. ASSUME NEW c \in Creates, CreateDir(c)
        PROVE  \A r \in Requests : pc'[r] = "idle" => pc[r] = "idle"
    BY <2>3 DEF CreateDir, Goto
  <2>4. ASSUME NEW d \in Deletes, DeleteLocal(d)
        PROVE  \A r \in Requests : pc'[r] = "idle" => pc[r] = "idle"
    BY <2>4 DEF DeleteLocal, Goto
  <2>5. ASSUME NEW d \in Deletes, DeleteMemory(d)
        PROVE  \A r \in Requests : pc'[r] = "idle" => pc[r] = "idle"
    BY <2>5 DEF DeleteMemory, Goto
  <2>6. ASSUME NEW d \in Deletes, DeleteEtcd(d)
        PROVE  \A r \in Requests : pc'[r] = "idle" => pc[r] = "idle"
    BY <2>6 DEF DeleteEtcd, Goto
  <2>7. ASSUME NEW d \in Deletes, DeleteRecord(d)
        PROVE  \A r \in Requests : pc'[r] = "idle" => pc[r] = "idle"
    BY <2>7 DEF DeleteRecord, Goto
  <2>8. ASSUME NEW k \in Keys, PutBegin(k)
        PROVE  \A r \in Requests : pc'[r] = "idle" => pc[r] = "idle"
    BY <2>8 DEF PutBegin, Goto
  <2>9. ASSUME NEW k \in Keys, PutFlag(k)
        PROVE  \A r \in Requests : pc'[r] = "idle" => pc[r] = "idle"
    BY <2>9 DEF PutFlag, Goto
  <2>10. ASSUME NEW k \in Keys, PutKey(k)
        PROVE  \A r \in Requests : pc'[r] = "idle" => pc[r] = "idle"
    BY <2>10 DEF PutKey, Goto
  <2>11. ASSUME NEW k \in Keys, PutCommit(k)
        PROVE  \A r \in Requests : pc'[r] = "idle" => pc[r] = "idle"
    BY <2>11 DEF PutCommit, Goto
  <2>12. ASSUME NEW k \in Keys, RemoveObject(k)
        PROVE  \A r \in Requests : pc'[r] = "idle" => pc[r] = "idle"
    BY <2>12 DEF RemoveObject, Goto
  <2>13. ASSUME NEW u \in Unlocks, UnlockBegin(u)
        PROVE  \A r \in Requests : pc'[r] = "idle" => pc[r] = "idle"
    BY <2>13 DEF UnlockBegin, Goto
  <2>14. ASSUME NEW u \in Unlocks, UnlockInstall(u)
        PROVE  \A r \in Requests : pc'[r] = "idle" => pc[r] = "idle"
    BY <2>14 DEF UnlockInstall, Goto
  <2>15. ASSUME Restart
        PROVE  \A r \in Requests : pc'[r] = "idle" => pc[r] = "idle"
    BY <2>15 DEF Restart, Goto
  <2>16. ASSUME UNCHANGED vars
        PROVE  \A r \in Requests : pc'[r] = "idle" => pc[r] = "idle"
    BY <2>16 DEF vars
  <2> QED
    BY <2>1, <2>2, <2>3, <2>4, <2>5, <2>6, <2>7, <2>8, <2>9, <2>10, <2>11, <2>12, <2>13,
       <2>14, <2>15, <2>16 DEF Next, BucketStep
<1>3. faults = 0
  BY <1>1 DEF Calm
<1>4. \A d \in Deletes : pc[d] = "idle"
  <2> SUFFICES ASSUME NEW d \in Deletes, pc[d] # "idle" PROVE FALSE
    OBVIOUS
  <2>1. pc'[d] # "idle"
    BY <1>2
  <2> QED
    BY <2>1 DEF Calm
<1>5. \A c, e \in Encrypted : pc[c] # "idle" /\ pc[e] # "idle" => c = e
  <2> SUFFICES ASSUME NEW c \in Encrypted, NEW e \in Encrypted, pc[c] # "idle", pc[e] # "idle"
               PROVE  c = e
    OBVIOUS
  <2>1. c \in Requests /\ e \in Requests
    OBVIOUS
  <2>2. pc'[c] # "idle" /\ pc'[e] # "idle"
    BY <1>2, <2>1
  <2> QED
    BY <2>2 DEF Calm
<1>6. QED
  BY <1>3, <1>4, <1>5 DEF Calm

\* Uploads are encrypted with the key of the record.
LEMMA KeysStep == BucketInv /\ [Next]_vars => KeysOK'
<1> SUFFICES ASSUME BucketInv, [Next]_vars, Calm' PROVE KeysFit'
  BY DEF KeysOK
<1>0. Calm /\ faults = 0 /\ faults' = 0 /\ KeysFit
  BY CalmBefore DEF Calm, BucketInv, KeysOK
<1> USE DEF BucketInv, KeysFit, OriginOK, RecordKey, BucketTypeOK, Records, Running,
   Finished,
            Goto, memoryVars, Fault
<1>1. ASSUME NEW c \in Creates, CreateBegin(c) PROVE KeysFit'
  BY <1>0, <1>1 DEF CreateBegin, Calm
<1>2. ASSUME NEW c \in Creates, CreateRecord(c) PROVE KeysFit'
  <2>2. \A r \in Requests : r # c => pc'[r] = pc[r]
    BY <1>2 DEF CreateRecord
  <2>3. UNCHANGED <<encryptor, objects, key>>
    BY <1>2 DEF CreateRecord
  <2>4. pc[c] = "create" /\ pc'[c] \in {"exists", "mkdir", "ok"} /\ c \notin Keys /\ c \notin Unlocks
    BY <1>2, <1>0 DEF CreateRecord
  <2>5. CASE record' = record
    BY <1>0, <2>2, <2>3, <2>4, <2>5
  <2>6. CASE record = NoBucket /\ record' = c
    <3>1. c \in Encrypted => encryptor \in {c, NoBucket}
      BY <1>0, <2>4 DEF Calm
    <3>2. record \notin Encrypted
      BY <2>6
    <3>3. \A u \in Unlocks : pc[u] # "install"
      BY <1>0, <3>2
    <3>4. \A k \in Keys : pc[k] \notin {"flag", "key", "upload"} /\ k \notin objects
      BY <1>0, <2>6, <3>2
    <3>5. \A u \in Unlocks : pc'[u] # "install"
      BY <2>2, <2>4, <3>3
    <3>6. \A k \in Keys : pc'[k] \notin {"flag", "key", "upload"} /\ k \notin objects'
      BY <2>2, <2>3, <2>4, <3>4
    <3> QED
      BY <2>3, <2>6, <3>1, <3>5, <3>6
  <2> QED
    BY <1>2, <2>5, <2>6 DEF CreateRecord
<1>3. ASSUME NEW c \in Creates, CreateDir(c) PROVE KeysFit'
  <2>2. \A r \in Requests : r # c => pc'[r] = pc[r]
    BY <1>3 DEF CreateDir
  <2>3. UNCHANGED <<record, encryptor, objects, key>>
    BY <1>3 DEF CreateDir
  <2>4. pc'[c] \in {"ok", "failed"} /\ c \notin Keys /\ c \notin Unlocks
    BY <1>3 DEF CreateDir
  <2> QED
    BY <1>0, <2>2, <2>3, <2>4
<1>4. ASSUME NEW d \in Deletes, DeleteLocal(d) PROVE KeysFit'
  BY <1>0, <1>4 DEF DeleteLocal, Calm
<1>5. ASSUME NEW d \in Deletes, DeleteMemory(d) PROVE KeysFit'
  BY <1>0, <1>5 DEF DeleteMemory, Calm
<1>6. ASSUME NEW d \in Deletes, DeleteEtcd(d) PROVE KeysFit'
  BY <1>0, <1>6 DEF DeleteEtcd, Calm
<1>7. ASSUME NEW d \in Deletes, DeleteRecord(d) PROVE KeysFit'
  BY <1>0, <1>7 DEF DeleteRecord, Calm
<1>8. ASSUME NEW k \in Keys, PutBegin(k) PROVE KeysFit'
  <2>2. \A r \in Requests : r # k => pc'[r] = pc[r]
    BY <1>8 DEF PutBegin
  <2>3. UNCHANGED <<record, encryptor, objects, key>>
    BY <1>8 DEF PutBegin
  <2>4. \/ pc'[k] = "nobucket"
        \/ pc'[k] = "flag" /\ record # NoBucket
    BY <1>8 DEF PutBegin
  <2>5. k \notin Unlocks
    OBVIOUS
  <2> QED
    BY <1>0, <2>2, <2>3, <2>4, <2>5
<1>9. ASSUME NEW k \in Keys, PutFlag(k) PROVE KeysFit'
  <2>2. \A r \in Requests : r # k => pc'[r] = pc[r]
    BY <1>9 DEF PutFlag
  <2>3. UNCHANGED <<record, encryptor, objects, key>>
    BY <1>9 DEF PutFlag
  <2>4. record # NoBucket /\ key[k] = NoBucket /\ k \notin Unlocks
    BY <1>9, <1>0 DEF PutFlag
  <2>5. \/ pc'[k] = "key" /\ record \in Encrypted
        \/ pc'[k] = "upload" /\ record \notin Encrypted
    BY <1>9, <1>0 DEF PutFlag
  <2> QED
    BY <1>0, <2>2, <2>3, <2>4, <2>5
<1>10. ASSUME NEW k \in Keys, PutKey(k) PROVE KeysFit'
  BY <1>0, <1>10 DEF PutKey
<1>11. ASSUME NEW k \in Keys, PutCommit(k) PROVE KeysFit'
  <2>2. \A r \in Requests : r # k => pc'[r] = pc[r]
    BY <1>11 DEF PutCommit
  <2>3. UNCHANGED <<record, encryptor, key>> /\ objects' \subseteq objects \union {k}
    BY <1>11 DEF PutCommit
  <2>4. record # NoBucket /\ key[k] = RecordKey /\ k \notin Unlocks
    BY <1>11, <1>0 DEF PutCommit
  <2>5. pc'[k] \in {"ok", "failed"}
    BY <1>11 DEF PutCommit
  <2> QED
    BY <1>0, <2>2, <2>3, <2>4, <2>5
<1>12. ASSUME NEW k \in Keys, RemoveObject(k) PROVE KeysFit'
  BY <1>0, <1>12 DEF RemoveObject
<1>13. ASSUME NEW u \in Unlocks, UnlockBegin(u) PROVE KeysFit'
  <2>2. \A r \in Requests : r # u => pc'[r] = pc[r]
    BY <1>13 DEF UnlockBegin
  <2>3. UNCHANGED <<record, encryptor, objects>>
    BY <1>13 DEF UnlockBegin
  <2>4. \A r \in Keys \union Unlocks : r # u => key'[r] = key[r]
    BY <1>13 DEF UnlockBegin
  <2>5. \/ pc'[u] = "refused"
        \/ pc'[u] = "install" /\ record \in Encrypted /\ key'[u] = record
    BY <1>13 DEF UnlockBegin
  <2>6. u \notin Keys
    OBVIOUS
  <2> QED
    BY <1>0, <2>2, <2>3, <2>4, <2>5, <2>6
<1>14. ASSUME NEW u \in Unlocks, UnlockInstall(u) PROVE KeysFit'
  BY <1>0, <1>14 DEF UnlockInstall
<1>15. ASSUME Restart PROVE KeysFit'
  BY <1>0, <1>15 DEF Restart
<1>16. ASSUME UNCHANGED vars PROVE KeysFit'
  BY <1>0, <1>16 DEF vars, memoryVars
<1>17. QED
  BY <1>1, <1>2, <1>3, <1>4, <1>5, <1>6, <1>7, <1>8, <1>9, <1>10, <1>11, <1>12, <1>13,
     <1>14, <1>15, <1>16 DEF Next, BucketStep

(***************************************************************************)
(* The theorems.                                                           *)
(***************************************************************************)

\* What the theorems rest on is invariant.
LEMMA BucketInvariant == Spec => []BucketInv
<1>1. BucketInv /\ [Next]_vars => BucketInv'
  <2> SUFFICES ASSUME BucketInv, [Next]_vars PROVE BucketInv'
    OBVIOUS
  <2> QED
    BY BucketTypeStep, LockStep, GhostStep, OriginStep, KeysStep DEF BucketInv
<1>2. QED
  BY <1>1, BucketInit, PTL DEF Spec

\* LocalStore.DeleteBucket never leaves objects without their bucket, whatever
\* uploads, creations and restarts come between.
THEOREM NoGhostsEver == Spec => []NoGhosts
<1>1. BucketInv => NoGhosts
  BY DEF BucketInv, GhostOK, NoGhosts
<1>2. QED
  BY <1>1, BucketInvariant, PTL

\* PutObject encrypts exactly the objects of an encrypted bucket, with its key,
\* through any number of restarts and unlocks: a locked bucket refuses uploads.
THEOREM EncryptedEver == Spec => []EncryptedAsRecorded
<1>1. BucketInv => EncryptedAsRecorded
  BY DEF BucketInv, BucketTypeOK, KeysOK, KeysFit, Calm, RecordKey, EncryptedAsRecorded
<1>2. QED
  BY <1>1, BucketInvariant, PTL

(***************************************************************************)
(* Pages: the first keys of a set, in ascending order.                     *)
(***************************************************************************)

\* The place of a key among the keys of a listing.
Position(S, k) == Cardinality({j \in S : j <= k})

LEMMA PositionType ==
    ASSUME NEW S \in SUBSET Nat, NEW k \in S
    PROVE  /\ IsFiniteSet({j \in S : j <= k})
           /\ Position(S, k) \in Nat
BY FS_BoundedSetOfNaturals, FS_CardinalityType DEF Position

\* Keys are counted in ascending order.
LEMMA PositionGrows ==
    ASSUME NEW S \in SUBSET Nat, NEW j \in S, NEW k \in S, j < k
    PROVE  Position(S, j) < Position(S, k)
<1> DEFINE below == {i \in S : i <= j}
           upto  == {i \in S : i <= k}
<1>0. j \in Nat /\ k \in Nat /\ \A i \in S : i \in Nat
  OBVIOUS
<1>1. below \in SUBSET upto /\ k \in upto /\ k \notin below
  <2>1. \A i \in S : i <= j => i <= k
    BY <1>0
  <2>2. k <= k /\ ~(k <= j)
    BY <1>0
  <2>3. QED
    BY ONLY <2>1, <2>2, k \in S
<1>2. IsFiniteSet(upto)
  BY PositionType
<1>3. Cardinality(below) <= Cardinality(upto) /\ Cardinality(below) # Cardinality(upto)
  BY <1>1, <1>2, FS_Subset
<1>4. QED
  BY <1>3, PositionType DEF Position

\* Any set of keys has a least one.
LEMMA LeastKey ==
    ASSUME NEW S \in SUBSET Nat, S # {}
    PROVE  \E m \in S : \A k \in S : m <= k
<1> DEFINE less == {pair \in Nat \X Nat : pair[1] < pair[2]}
<1>1. IsWellFoundedOn(less, Nat)
  BY NatLessThanWellFounded DEF OpToRel
<1>2. PICK m \in S : \A k \in S : <<k, m>> \notin less
  <2> HIDE DEF less
  <2>1. QED
    BY <1>1, WFMin
<1>3. ASSUME NEW k \in S PROVE m <= k
  <2>1. k \in Nat /\ m \in Nat /\ <<k, m>> \notin less
    BY <1>2
  <2>2. ~(k < m)
    BY <2>1
  <2>3. QED
    BY <2>1, <2>2
<1>4. QED
  BY <1>3

\* A page ends with a key; it holds all keys up to that one, and no other.
LEMMA PageEnd ==
    ASSUME NEW S \in SUBSET Nat, S # {}
    PROVE  /\ NextAfter(S) \in FirstOf(S)
           /\ \A k \in S : k \in FirstOf(S) <=> k <= NextAfter(S)
<1> USE ListingAssumption
<1>1. FirstOf(S) = {k \in S : Position(S, k) <= Limit}
  BY DEF FirstOf, Position
<1>2. FirstOf(S) # {}
  <2>1. PICK m \in S : \A k \in S : m <= k
    BY LeastKey
  <2>2. {j \in S : j <= m} = {m}
    <3>1. m \in Nat /\ \A j \in S : j \in Nat
      OBVIOUS
    <3>2. \A j \in S : j <= m <=> j = m
      BY <2>1, <3>1
    <3>3. QED
      BY ONLY <3>2, m \in S
  <2>3. Position(S, m) = 1
    BY <2>2, FS_Singleton DEF Position
  <2>4. QED
    BY <1>1, <2>3
<1>3. PICK last \in FirstOf(S) : \A k \in FirstOf(S) : Limit - Position(S, last) <= Limit - Position(S, k)
  <2> DEFINE rest == {Limit - Position(S, k) : k \in FirstOf(S)}
  <2>1. rest \in SUBSET Nat /\ rest # {}
    <3>1. ASSUME NEW k \in FirstOf(S) PROVE Limit - Position(S, k) \in Nat
      <4>1. k \in S /\ Position(S, k) <= Limit
        BY <1>1
      <4>2. Position(S, k) \in Nat
        BY <4>1, PositionType
      <4>3. QED
        BY <4>1, <4>2
    <3>2. QED
      BY <1>2, <3>1
  <2>2. PICK m \in rest : \A r \in rest : m <= r
    BY <2>1, LeastKey
  <2>3. QED
    BY <2>2
<1>4. \A k \in FirstOf(S) : k <= last
  <2>1. ASSUME NEW k \in FirstOf(S), last < k PROVE FALSE
    <3>1. k \in S /\ last \in S /\ Position(S, last) < Position(S, k)
      BY <1>1, <2>1, PositionGrows
    <3>2. Position(S, k) \in Nat /\ Position(S, last) \in Nat
      BY <3>1, PositionType
    <3>3. QED
      BY <1>3, <3>1, <3>2
  <2>2. \A k \in FirstOf(S) : k \in Nat
    BY <1>1
  <2>3. QED
    BY <2>1, <2>2
<1>5. NextAfter(S) \in FirstOf(S) /\ \A k \in FirstOf(S) : k <= NextAfter(S)
  BY <1>1, <1>4 DEF NextAfter, Max
<1>6. ASSUME NEW k \in S, k <= NextAfter(S) PROVE k \in FirstOf(S)
  <2>1. Position(S, NextAfter(S)) <= Limit /\ NextAfter(S) \in S
    BY <1>1, <1>5
  <2>2. k \in Nat /\ NextAfter(S) \in Nat
    BY <2>1
  <2>3. k = NextAfter(S) \/ k < NextAfter(S)
    BY <1>6, <2>2
  <2>4. k < NextAfter(S) => Position(S, k) < Position(S, NextAfter(S))
    BY <2>1, PositionGrows
  <2>5. Position(S, k) \in Nat /\ Position(S, NextAfter(S)) \in Nat
    BY <2>1, PositionType
  <2>6. Position(S, k) <= Limit
    BY <2>1, <2>3, <2>4, <2>5
  <2>7. QED
    BY <1>1, <2>6
<1>7. QED
  BY <1>5, <1>6

(***************************************************************************)
(* Walks through a bucket beside everything that happens to it.            *)
(***************************************************************************)

WalkTypeOK ==
    /\ wpc \in [Walks -> {"idle", "walking", "done", "failed"}]
    /\ window \in [Walks -> Nat \X Nat]
    /\ from \in [Walks -> Nat]
    /\ after \in [Walks -> Nat]
    /\ pages \in [Walks -> Seq(SUBSET Nat)]
    /\ steady \in [Walks -> SUBSET objects]

\* Up to After, a walk has listed every object that was there all the time.
CoveredOK ==
    \A w \in Walks :
        /\ wpc[w] = "idle" => pages[w] = <<>> /\ steady[w] = {}
        /\ \A k \in steady[w] :
              InPrefix(w, k) /\ from[w] < k /\ (wpc[w] = "done" \/ k <= after[w])
                 => k \in Listed(w)

\* Pages so far end at or before After.
BehindOK ==
    \A w \in Walks : wpc[w] = "walking" =>
        \A i \in DOMAIN pages[w] : \A k \in pages[w][i] : k <= after[w]

WalkInv == BucketInv /\ WalkTypeOK /\ CoveredOK /\ BehindOK /\ PagesAscend

\* No walk has begun.
LEMMA WalkStart == WalkInit => WalkInv
<1> SUFFICES ASSUME WalkInit PROVE WalkInv
  OBVIOUS
<1>1. BucketInv
  BY BucketInit DEF WalkInit
<1>2. WalkTypeOK /\ CoveredOK /\ BehindOK /\ PagesAscend
  BY DEF WalkInit, WalkTypeOK, CoveredOK, BehindOK, PagesAscend
<1>3. QED
  BY <1>1, <1>2 DEF WalkInv

\* A listing changes nothing of the bucket; at most it meets a fault.
LEMMA ListingIsHarmless ==
    ASSUME BucketInv, UNCHANGED <<store, record, dir, temp, objects, memoryVars, pc>>,
           faults' = faults \/ faults' = faults + 1
    PROVE  BucketInv' /\ objects' = objects
<1> USE DEF BucketInv, memoryVars
<1>1. faults \in Nat /\ faults' \in Nat /\ (faults' = 0 => faults = 0)
  BY DEF BucketTypeOK
<1>2. BucketTypeOK'
  BY <1>1 DEF BucketTypeOK
<1>3. LockOK' /\ OriginOK'
  BY DEF LockOK, OriginOK
<1>4. GhostOK'
  BY <1>1 DEF GhostOK
<1>5. KeysOK'
  BY <1>1 DEF KeysOK, Calm, KeysFit, RecordKey
<1>6. QED
  BY <1>2, <1>3, <1>4, <1>5

\* What a page is taken from: keys behind After, and all of the prefix there.
LEMMA MatchingKeys ==
    ASSUME WalkInv, NEW w \in Walks
    PROVE  /\ Matching(w) \in SUBSET Nat /\ Matching(w) \subseteq objects
           /\ \A k \in Matching(w) : after[w] < k
           /\ \A k \in objects : InPrefix(w, k) /\ after[w] < k => k \in Matching(w)
<1>1. objects \in SUBSET Nat /\ \A k \in objects : k \in Nat /\ 0 < k
  BY DEF WalkInv, BucketInv, BucketTypeOK
<1>2. after[w] \in Nat /\ window[w][1] \in Nat /\ window[w][2] \in Nat
  BY DEF WalkInv, WalkTypeOK
<1>3. CASE store = "etcd" /\ after[w] = 0
  BY <1>1, <1>2, <1>3 DEF Matching, InPrefix
<1>4. CASE store = "etcd" /\ after[w] # 0
  <2>1. Matching(w) = {k \in objects : after[w] + 1 <= k /\ k <= window[w][2]}
    BY <1>4 DEF Matching
  <2>2. ASSUME NEW k \in objects PROVE after[w] + 1 <= k <=> after[w] < k
    <3>1. k \in Nat
      BY <1>1
    <3>2. QED
      BY <1>2, <3>1
  <2>3. QED
    BY <1>1, <2>1, <2>2 DEF InPrefix
<1>5. CASE store # "etcd"
  BY <1>1, <1>2, <1>5 DEF Matching, InPrefix
<1>6. QED
  BY <1>3, <1>4, <1>5

\* One page: it continues behind the last one and leaves no gap.
LEMMA ListStep ==
    ASSUME WalkInv, NEW w \in Walks, ListObjects(w)
    PROVE  WalkInv'
<1> USE DEF WalkInv
<1> DEFINE keys == Matching(w)
           page == FirstOf(keys)
           more == page # keys
<1>1. /\ wpc[w] = "walking"
      /\ pages' = [pages EXCEPT ![w] = Append(@, page)]
      /\ after' = [after EXCEPT ![w] = IF more THEN NextAfter(keys) ELSE @]
      /\ wpc' = [wpc EXCEPT ![w] = IF more THEN "walking" ELSE "done"]
      /\ UNCHANGED <<vars, window, from, steady>>
  BY DEF ListObjects
<1>2. BucketInv' /\ objects' = objects
  BY <1>1, ListingIsHarmless DEF vars
<1>3. /\ keys \in SUBSET Nat /\ keys \subseteq objects
      /\ \A k \in keys : after[w] < k
      /\ \A k \in objects : InPrefix(w, k) /\ after[w] < k => k \in keys
  BY MatchingKeys
<1>4. page \subseteq keys
  BY DEF FirstOf
<1>5. ASSUME more
      PROVE  /\ NextAfter(keys) \in page
             /\ \A k \in keys : k \in page <=> k <= NextAfter(keys)
  <2>1. keys # {}
    BY <1>4, <1>5
  <2>2. QED
    BY <1>3, <2>1, PageEnd
<1> HIDE DEF keys, page
<1>6. /\ pages[w] \in Seq(SUBSET Nat) /\ after[w] \in Nat /\ page \in SUBSET Nat
      /\ steady[w] \subseteq objects
  BY <1>3, <1>4 DEF WalkTypeOK
<1>7. /\ pages'[w] = Append(pages[w], page)
      /\ DOMAIN pages'[w] = DOMAIN pages[w] \union {Len(pages[w]) + 1}
      /\ pages'[w][Len(pages[w]) + 1] = page
      /\ \A i \in DOMAIN pages[w] : pages'[w][i] = pages[w][i] /\ i # Len(pages[w]) + 1
                                    /\ i \in Nat /\ i <= Len(pages[w])
      /\ Len(pages[w]) \in Nat
  BY <1>1, <1>6 DEF WalkTypeOK
<1>8. Listed(w)' = Listed(w) \union page
  BY <1>7 DEF Listed
<1>9. \A v \in Walks : v # w =>
         /\ wpc'[v] = wpc[v] /\ after'[v] = after[v] /\ pages'[v] = pages[v]
         /\ Listed(v)' = Listed(v)
  BY <1>1 DEF Listed, WalkTypeOK
<1>10. wpc'[w] = IF more THEN "walking" ELSE "done"
  BY <1>1 DEF WalkTypeOK
<1>11. after'[w] = IF more THEN NextAfter(keys) ELSE after[w]
  BY <1>1 DEF WalkTypeOK
<1>12. WalkTypeOK'
  <2>1. after' \in [Walks -> Nat]
    BY <1>1, <1>5, <1>6 DEF WalkTypeOK
  <2>2. pages' \in [Walks -> Seq(SUBSET Nat)]
    BY <1>1, <1>6 DEF WalkTypeOK
  <2>3. wpc' \in [Walks -> {"idle", "walking", "done", "failed"}]
    BY <1>1 DEF WalkTypeOK
  <2>4. QED
    BY <1>1, <1>2, <2>1, <2>2, <2>3 DEF WalkTypeOK
<1>13. CoveredOK'
  <2>1. ASSUME NEW k \in steady[w], InPrefix(w, k), from[w] < k,
               wpc'[w] = "done" \/ k <= after'[w]
        PROVE  k \in Listed(w)'
    <3>1. k \in objects /\ k \in Nat
      BY <1>6, <2>1 DEF BucketInv, BucketTypeOK
    <3>2. CASE k <= after[w]
      BY <1>1, <1>8, <2>1, <3>2 DEF CoveredOK
    <3>3. CASE after[w] < k
      <4>1. k \in keys
        BY <1>3, <2>1, <3>1, <3>3
      <4>2. CASE more
        BY <1>5, <1>8, <1>10, <1>11, <2>1, <4>1, <4>2
      <4>3. CASE ~more
        BY <1>8, <4>1, <4>3
      <4>4. QED
        BY <4>2, <4>3
    <3>4. QED
      BY <1>6, <3>1, <3>2, <3>3
  <2>2. \A v \in Walks : wpc'[v] = "idle" => v # w
    BY <1>10
  <2>3. UNCHANGED <<window, from, steady>>
    BY <1>1
  <2>4. QED
    BY <1>9, <2>1, <2>2, <2>3 DEF CoveredOK, InPrefix
<1>14. BehindOK'
  <2>1. ASSUME wpc'[w] = "walking", NEW i \in DOMAIN pages'[w], NEW k \in pages'[w][i]
        PROVE  k <= after'[w]
    <3>1. more
      BY <1>10, <2>1
    <3>2. CASE i = Len(pages[w]) + 1
      BY <1>4, <1>5, <1>7, <1>11, <2>1, <3>1, <3>2
    <3>3. CASE i \in DOMAIN pages[w]
      <4>1. k \in Nat
        BY <1>6, <1>7, <2>1, <3>3
      <4>2. k <= after[w]
        BY <1>1, <1>7, <2>1, <3>3 DEF BehindOK
      <4>3. after[w] < NextAfter(keys) /\ NextAfter(keys) \in Nat
        BY <1>3, <1>4, <1>5, <3>1
      <4>4. QED
        BY <1>6, <1>11, <3>1, <4>1, <4>2, <4>3
    <3>4. QED
      BY <1>7, <2>1, <3>2, <3>3
  <2>2. QED
    BY <1>9, <2>1 DEF BehindOK
<1>15. PagesAscend'
  <2>1. ASSUME NEW i \in DOMAIN pages'[w], NEW j \in DOMAIN pages'[w], i < j,
               NEW a \in pages'[w][i], NEW b \in pages'[w][j]
        PROVE  a < b
    <3>1. i \in DOMAIN pages[w]
      BY <1>7, <2>1
    <3>2. CASE j \in DOMAIN pages[w]
      BY <1>7, <2>1, <3>1, <3>2 DEF PagesAscend
    <3>3. CASE j = Len(pages[w]) + 1
      <4>1. a <= after[w] /\ a \in Nat
        BY <1>1, <1>6, <1>7, <2>1, <3>1 DEF BehindOK
      <4>2. after[w] < b /\ b \in Nat
        BY <1>3, <1>4, <1>7, <2>1, <3>3
      <4>3. QED
        BY <1>6, <4>1, <4>2
    <3>4. QED
      BY <1>7, <2>1, <3>2, <3>3
  <2>2. QED
    BY <1>9, <2>1 DEF PagesAscend
<1>16. QED
  BY <1>2, <1>12, <1>13, <1>14, <1>15

\* Beginning a walk, losing it, and everything else that happens to the bucket.
LEMMA WalkKept ==
    ASSUME WalkInv, [WalkNext]_<<vars, walkVars>>
    PROVE  WalkInv'
<1> USE DEF WalkInv
<1>1. ASSUME [Next]_vars, UNCHANGED <<wpc, window, from, after, pages>>,
             \A w \in Walks : steady'[w] \subseteq steady[w] \intersect objects',
             steady' \in [Walks -> SUBSET objects']
      PROVE  WalkInv'
  <2>1. BucketInv'
    BY <1>1, BucketTypeStep, LockStep, GhostStep, OriginStep, KeysStep DEF BucketInv
  <2>2. WalkTypeOK'
    BY <1>1 DEF WalkTypeOK
  <2>3. CoveredOK'
    BY <1>1 DEF CoveredOK, Listed, InPrefix
  <2>4. BehindOK' /\ PagesAscend'
    BY <1>1 DEF BehindOK, PagesAscend
  <2>5. QED
    BY <2>1, <2>2, <2>3, <2>4
<1>2. CASE Next /\ steady' = [w \in Walks |-> steady[w] \intersect objects']
           /\ UNCHANGED <<wpc, window, from, after, pages>>
  BY <1>1, <1>2
<1>3. CASE UNCHANGED <<vars, walkVars>>
  BY <1>1, <1>3 DEF walkVars, vars, WalkTypeOK
<1>4. ASSUME NEW w \in Walks, WalkBegin(w) PROVE WalkInv'
  <2>1. PICK range \in Windows, start \in Keys \union {0} :
           /\ window' = [window EXCEPT ![w] = range]
           /\ from' = [from EXCEPT ![w] = start]
           /\ after' = [after EXCEPT ![w] = start]
    BY <1>4 DEF WalkBegin
  <2>2. /\ wpc[w] = "idle" /\ wpc' = [wpc EXCEPT ![w] = "walking"]
        /\ steady' = [steady EXCEPT ![w] = objects] /\ UNCHANGED <<vars, pages>>
    BY <1>4 DEF WalkBegin
  <2>3. pages[w] = <<>> /\ start \in Nat /\ range \in Nat \X Nat
    BY <2>2, ListingAssumption DEF CoveredOK
  <2>4. BucketInv' /\ objects' = objects
    BY <2>2, ListingIsHarmless DEF vars
  <2>5. WalkTypeOK'
    BY <2>1, <2>2, <2>3, <2>4 DEF WalkTypeOK
  <2>6. /\ wpc'[w] = "walking" /\ from'[w] = start /\ after'[w] = start
        /\ \A v \in Walks : v # w =>
              /\ wpc'[v] = wpc[v] /\ window'[v] = window[v] /\ from'[v] = from[v]
              /\ after'[v] = after[v] /\ steady'[v] = steady[v]
    BY <2>1, <2>2 DEF WalkTypeOK
  <2>7. \A k \in steady'[w] : ~(start < k /\ k <= start)
    <3>1. \A k \in steady'[w] : k \in Nat
      BY <2>2, <2>4 DEF WalkTypeOK, BucketInv, BucketTypeOK
    <3>2. QED
      BY <2>3, <3>1
  <2>8. CoveredOK'
    BY <2>2, <2>6, <2>7 DEF CoveredOK, Listed, InPrefix
  <2>9. BehindOK'
    BY <2>2, <2>3, <2>6 DEF BehindOK
  <2>10. PagesAscend'
    BY <2>2 DEF PagesAscend
  <2>11. QED
    BY <2>4, <2>5, <2>8, <2>9, <2>10
<1>5. ASSUME NEW w \in Walks, ListFails(w) PROVE WalkInv'
  <2>1. /\ wpc' = [wpc EXCEPT ![w] = "failed"]
        /\ UNCHANGED <<window, from, after, pages, steady>>
    BY <1>5 DEF ListFails
  <2>2. BucketInv' /\ objects' = objects
    BY <1>5, ListingIsHarmless DEF ListFails, Fault
  <2>3. WalkTypeOK'
    BY <2>1, <2>2 DEF WalkTypeOK
  <2>4. \A v \in Walks : wpc'[v] = wpc[v] \/ wpc'[v] = "failed"
    BY <2>1 DEF WalkTypeOK
  <2>5. CoveredOK'
    BY <2>1, <2>4 DEF CoveredOK, Listed, InPrefix
  <2>6. BehindOK' /\ PagesAscend'
    BY <2>1, <2>4 DEF BehindOK, PagesAscend
  <2>7. QED
    BY <2>2, <2>3, <2>5, <2>6
<1>6. QED
  BY <1>2, <1>3, <1>4, <1>5, ListStep DEF WalkNext, WalkStep

LEMMA WalkInvariant == WalkSpec => []WalkInv
BY WalkStart, WalkKept, PTL DEF WalkSpec

\* ListObjects with the NextAfter of the page before misses no object that was there
\* all the time, for every page size, prefix, store and number of requests beside it.
THEOREM ListingCompleteEver == WalkSpec => []ListingComplete
<1>1. WalkInv => ListingComplete
  BY DEF WalkInv, CoveredOK, ListingComplete
<1>2. QED
  BY <1>1, WalkInvariant, PTL

\* paginate lists no key twice and none out of order, whatever is uploaded or
\* removed between two pages.
THEOREM PagesAscendEver == WalkSpec => []PagesAscend
<1>1. WalkInv => PagesAscend
  BY DEF WalkInv
<1>2. QED
  BY <1>1, WalkInvariant, PTL

=============================================================================
