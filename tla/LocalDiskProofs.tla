-------------------------- MODULE LocalDiskProofs --------------------------
(***************************************************************************)
(* Proofs about the files of a single machine, for every set of keys and   *)
(* requests and every number of crashes, power losses and failing calls.   *)
(***************************************************************************)
EXTENDS LocalDisk, TLAPS

USE DiskAssumption DEF Requests, Paths

(***************************************************************************)
(* The inductive invariant.                                                *)
(***************************************************************************)

Objects == Puts \union {Nothing}

Labels == {"idle", "create", "write", "sync", "rename", "commit", "syncDir", "unlink",
           "reclaim", "withdraw", "ok", "conflict", "failed", "crashed"}

DiskTypeOK ==
    /\ entry \in [Paths -> Objects]
    /\ onDisk \in [Paths -> SUBSET Objects]
    /\ torn \subseteq Paths \X Puts
    /\ loose \subseteq Paths \X Puts
    /\ reclaimed \subseteq Puts
    /\ may \in [Keys -> SUBSET Objects]
    /\ pc \in [Requests -> Labels]
    /\ file \in [Puts -> Paths]
    /\ base \in [Requests -> Objects]
    /\ outage \in BOOLEAN
    /\ faults \in Nat

\* fsatomic has not yet renamed the file.
Before == {"idle", "create", "write", "sync", "rename"}

\* A put is past everything that could still make its object current.
Over(q) == pc[q] \notin Before \union {"commit"}

\* A put writes its chunk and then the metadata file of its key, and only requests
\* of the right kind get to some places.
PlacesOK ==
    /\ \A p \in Puts :
          /\ file[p] \in {p, KeyOf[p]}
          /\ pc[p] \in {"idle", "commit", "withdraw"} => file[p] = p
          /\ pc[p] \in {"sync", "syncDir"} => file[p] \in Keys
    /\ \A r \in Requests : pc[r] = "withdraw" => r \in Puts

\* LocalStore.mu: one put at a time writes metadata, and the directory entry it is
\* about to sync is its own.
MutexOK ==
    /\ \A p, q \in Puts :
          /\ file[p] \in Keys /\ pc[p] \in {"create", "write", "sync", "rename", "syncDir"}
          /\ file[q] \in Keys /\ pc[q] \in {"create", "write", "sync", "rename", "syncDir"}
          => p = q
    /\ \A p \in Puts : pc[p] = "syncDir" => entry[file[p]] = p

\* Only a put that has renamed a file is found under its name, now or after a power
\* loss.
PlacedOK ==
    \A path \in Paths, q \in Puts :
        entry[path] = q \/ q \in onDisk[path] =>
            \/ path \in Keys /\ file[q] = path /\ Over(q)
            \/ path = q /\ (file[q] \in Keys \/ pc[q] \notin Before)

\* Bytes are complete before the rename, and on disk too if they are metadata.
BytesOK ==
    /\ \A p \in Puts :
          /\ pc[p] \in {"sync", "rename"} => This(p) \notin torn
          /\ pc[p] = "rename" /\ file[p] \in Keys => This(p) \notin loose
    /\ \A k \in Keys, q \in Puts :
          entry[k] = q \/ q \in onDisk[k] => <<k, q>> \notin torn \union loose
    /\ ~outage => \A q \in Puts : entry[q] = q => <<q, q>> \notin torn

\* The disk holds what the answers allow.
DurableOK == \A k \in Keys : entry[k] \in onDisk[k] /\ onDisk[k] \subseteq may[k]

\* A request that displaces an object read one that was committed to its key.
BaseOK ==
    \A r \in Requests : base[r] # Nothing =>
        base[r] # r /\ Over(base[r]) /\ file[base[r]] = KeyOf[r]

NoDeletes == \A d \in Deletes : pc[d] = "idle"

\* No metadata names the object, and none will.
Dead(q) ==
    /\ Over(q)
    /\ ~outage \/ NoDeletes => \A k \in Keys : entry[k] # q
    /\ NoDeletes => \A k \in Keys : q \notin onDisk[k]

\* Chunks are reclaimed only of dead objects.
ReclaimOK ==
    /\ \A q \in reclaimed : Dead(q)
    /\ \A r \in Requests :
          /\ pc[r] = "reclaim" /\ base[r] # Nothing => Dead(base[r])
          /\ pc[r] = "withdraw" => Dead(r)

DiskInv ==
    /\ DiskTypeOK /\ PlacesOK /\ MutexOK /\ PlacedOK
    /\ BytesOK /\ DurableOK /\ BaseOK /\ ReclaimOK


(***************************************************************************)
(* The initial state.                                                      *)
(***************************************************************************)

\* All of it holds before the first request.
LEMMA DiskInit == Init => DiskInv
<1> SUFFICES ASSUME Init PROVE DiskInv
  OBVIOUS
<1> USE DEF Init
<1>1. DiskTypeOK
  BY DEF DiskTypeOK, Objects, Labels
<1>2. PlacesOK
  BY DEF PlacesOK
<1>3. MutexOK
  BY DEF MutexOK
<1>4. PlacedOK
  BY DEF PlacedOK
<1>5. BytesOK
  BY DEF BytesOK, This
<1>6. DurableOK
  BY DEF DurableOK
<1>7. BaseOK /\ ReclaimOK
  BY DEF BaseOK, ReclaimOK
<1>8. QED
  BY <1>1, <1>2, <1>3, <1>4, <1>5, <1>6, <1>7 DEF DiskInv

(***************************************************************************)
(* Every step, one conjunct at a time.                                     *)
(***************************************************************************)

\* Types are kept.
LEMMA TypeStep == DiskInv /\ [Next]_vars => DiskTypeOK'
<1> SUFFICES ASSUME DiskInv, [Next]_vars PROVE DiskTypeOK'
  OBVIOUS
<1> USE DEF DiskInv, DiskTypeOK, Objects, Labels, diskVars, Goto, Fault, Point, This, PlacesOK
<1>1. ASSUME NEW r \in Requests, Begin(r) PROVE DiskTypeOK'
  <2>1. entry' \in [Paths -> Objects] /\ onDisk' \in [Paths -> SUBSET Objects]
    BY <1>1 DEF Begin
  <2>2. torn' \subseteq Paths \X Puts /\ loose' \subseteq Paths \X Puts /\ reclaimed' \subseteq Puts
    BY <1>1 DEF Begin
  <2>3. may' \in [Keys -> SUBSET Objects] /\ file' \in [Puts -> Paths] /\ base' \in [Requests -> Objects]
    BY <1>1 DEF Begin
  <2>4. pc' \in [Requests -> Labels]
    BY <1>1 DEF Begin
  <2>5. outage' \in BOOLEAN /\ faults' \in Nat
    BY <1>1 DEF Begin
  <2> QED
    BY ONLY <2>1, <2>2, <2>3, <2>4, <2>5 DEF DiskTypeOK
<1>2. ASSUME NEW p \in Puts, Commit(p) PROVE DiskTypeOK'
  <2>1. entry' \in [Paths -> Objects] /\ onDisk' \in [Paths -> SUBSET Objects]
    BY <1>2 DEF Commit
  <2>2. torn' \subseteq Paths \X Puts /\ loose' \subseteq Paths \X Puts /\ reclaimed' \subseteq Puts
    BY <1>2 DEF Commit
  <2>3. may' \in [Keys -> SUBSET Objects] /\ file' \in [Puts -> Paths] /\ base' \in [Requests -> Objects]
    BY <1>2 DEF Commit
  <2>4. pc' \in [Requests -> Labels]
    BY <1>2 DEF Commit
  <2>5. outage' \in BOOLEAN /\ faults' \in Nat
    BY <1>2 DEF Commit
  <2> QED
    BY ONLY <2>1, <2>2, <2>3, <2>4, <2>5 DEF DiskTypeOK
<1>3. ASSUME NEW d \in Deletes, Unlink(d) PROVE DiskTypeOK'
  <2>1. entry' \in [Paths -> Objects] /\ onDisk' \in [Paths -> SUBSET Objects]
    BY <1>3 DEF Unlink
  <2>2. torn' \subseteq Paths \X Puts /\ loose' \subseteq Paths \X Puts /\ reclaimed' \subseteq Puts
    BY <1>3 DEF Unlink
  <2>3. may' \in [Keys -> SUBSET Objects] /\ file' \in [Puts -> Paths] /\ base' \in [Requests -> Objects]
    BY <1>3 DEF Unlink
  <2>4. pc' \in [Requests -> Labels]
    BY <1>3 DEF Unlink
  <2>5. outage' \in BOOLEAN /\ faults' \in Nat
    BY <1>3 DEF Unlink
  <2> QED
    BY ONLY <2>1, <2>2, <2>3, <2>4, <2>5 DEF DiskTypeOK
<1>4. ASSUME NEW r \in Requests, Reclaim(r) PROVE DiskTypeOK'
  <2>1. entry' \in [Paths -> Objects] /\ onDisk' \in [Paths -> SUBSET Objects]
    BY <1>4 DEF Reclaim
  <2>2. torn' \subseteq Paths \X Puts /\ loose' \subseteq Paths \X Puts /\ reclaimed' \subseteq Puts
    BY <1>4 DEF Reclaim
  <2>3. may' \in [Keys -> SUBSET Objects] /\ file' \in [Puts -> Paths] /\ base' \in [Requests -> Objects]
    BY <1>4 DEF Reclaim
  <2>4. pc' \in [Requests -> Labels]
    BY <1>4 DEF Reclaim
  <2>5. outage' \in BOOLEAN /\ faults' \in Nat
    BY <1>4 DEF Reclaim
  <2> QED
    BY ONLY <2>1, <2>2, <2>3, <2>4, <2>5 DEF DiskTypeOK
<1>5. ASSUME NEW p \in Puts, CreateTemp(p) PROVE DiskTypeOK'
  <2>1. entry' \in [Paths -> Objects] /\ onDisk' \in [Paths -> SUBSET Objects]
    BY <1>5 DEF CreateTemp
  <2>2. torn' \subseteq Paths \X Puts /\ loose' \subseteq Paths \X Puts /\ reclaimed' \subseteq Puts
    BY <1>5 DEF CreateTemp
  <2>3. may' \in [Keys -> SUBSET Objects] /\ file' \in [Puts -> Paths] /\ base' \in [Requests -> Objects]
    BY <1>5 DEF CreateTemp
  <2>4. pc' \in [Requests -> Labels]
    BY <1>5 DEF CreateTemp
  <2>5. outage' \in BOOLEAN /\ faults' \in Nat
    BY <1>5 DEF CreateTemp
  <2> QED
    BY ONLY <2>1, <2>2, <2>3, <2>4, <2>5 DEF DiskTypeOK
<1>6. ASSUME NEW p \in Puts, WriteTemp(p) PROVE DiskTypeOK'
  <2>1. entry' \in [Paths -> Objects] /\ onDisk' \in [Paths -> SUBSET Objects]
    BY <1>6 DEF WriteTemp
  <2>2. torn' \subseteq Paths \X Puts /\ loose' \subseteq Paths \X Puts /\ reclaimed' \subseteq Puts
    BY <1>6 DEF WriteTemp
  <2>3. may' \in [Keys -> SUBSET Objects] /\ file' \in [Puts -> Paths] /\ base' \in [Requests -> Objects]
    BY <1>6 DEF WriteTemp
  <2>4. pc' \in [Requests -> Labels]
    BY <1>6 DEF WriteTemp
  <2>5. outage' \in BOOLEAN /\ faults' \in Nat
    BY <1>6 DEF WriteTemp
  <2> QED
    BY ONLY <2>1, <2>2, <2>3, <2>4, <2>5 DEF DiskTypeOK
<1>7. ASSUME NEW p \in Puts, SyncTemp(p) PROVE DiskTypeOK'
  <2>1. entry' \in [Paths -> Objects] /\ onDisk' \in [Paths -> SUBSET Objects]
    BY <1>7 DEF SyncTemp
  <2>2. torn' \subseteq Paths \X Puts /\ loose' \subseteq Paths \X Puts /\ reclaimed' \subseteq Puts
    BY <1>7 DEF SyncTemp
  <2>3. may' \in [Keys -> SUBSET Objects] /\ file' \in [Puts -> Paths] /\ base' \in [Requests -> Objects]
    BY <1>7 DEF SyncTemp
  <2>4. pc' \in [Requests -> Labels]
    BY <1>7 DEF SyncTemp
  <2>5. outage' \in BOOLEAN /\ faults' \in Nat
    BY <1>7 DEF SyncTemp
  <2> QED
    BY ONLY <2>1, <2>2, <2>3, <2>4, <2>5 DEF DiskTypeOK
<1>8. ASSUME NEW p \in Puts, Rename(p) PROVE DiskTypeOK'
  <2>1. entry' \in [Paths -> Objects] /\ onDisk' \in [Paths -> SUBSET Objects]
    BY <1>8 DEF Rename
  <2>2. torn' \subseteq Paths \X Puts /\ loose' \subseteq Paths \X Puts /\ reclaimed' \subseteq Puts
    BY <1>8 DEF Rename
  <2>3. may' \in [Keys -> SUBSET Objects] /\ file' \in [Puts -> Paths] /\ base' \in [Requests -> Objects]
    BY <1>8 DEF Rename
  <2>4. pc' \in [Requests -> Labels]
    BY <1>8 DEF Rename
  <2>5. outage' \in BOOLEAN /\ faults' \in Nat
    BY <1>8 DEF Rename
  <2> QED
    BY ONLY <2>1, <2>2, <2>3, <2>4, <2>5 DEF DiskTypeOK
<1>9. ASSUME NEW p \in Puts, SyncDir(p) PROVE DiskTypeOK'
  <2>1. entry' \in [Paths -> Objects] /\ onDisk' \in [Paths -> SUBSET Objects]
    BY <1>9 DEF SyncDir
  <2>2. torn' \subseteq Paths \X Puts /\ loose' \subseteq Paths \X Puts /\ reclaimed' \subseteq Puts
    BY <1>9 DEF SyncDir
  <2>3. may' \in [Keys -> SUBSET Objects] /\ file' \in [Puts -> Paths] /\ base' \in [Requests -> Objects]
    BY <1>9 DEF SyncDir
  <2>4. pc' \in [Requests -> Labels]
    BY <1>9 DEF SyncDir
  <2>5. outage' \in BOOLEAN /\ faults' \in Nat
    BY <1>9 DEF SyncDir
  <2> QED
    BY ONLY <2>1, <2>2, <2>3, <2>4, <2>5 DEF DiskTypeOK
<1>10. ASSUME NEW r \in Requests, CallFails(r) PROVE DiskTypeOK'
  <2>1. entry' \in [Paths -> Objects] /\ onDisk' \in [Paths -> SUBSET Objects]
    BY <1>10 DEF CallFails
  <2>2. torn' \subseteq Paths \X Puts /\ loose' \subseteq Paths \X Puts /\ reclaimed' \subseteq Puts
    BY <1>10 DEF CallFails
  <2>3. may' \in [Keys -> SUBSET Objects] /\ file' \in [Puts -> Paths] /\ base' \in [Requests -> Objects]
    BY <1>10 DEF CallFails
  <2>4. pc' \in [Requests -> Labels]
    BY <1>10 DEF CallFails
  <2>5. outage' \in BOOLEAN /\ faults' \in Nat
    BY <1>10 DEF CallFails
  <2> QED
    BY ONLY <2>1, <2>2, <2>3, <2>4, <2>5 DEF DiskTypeOK
<1>11. ASSUME ProcessCrash PROVE DiskTypeOK'
  <2>1. entry' \in [Paths -> Objects] /\ onDisk' \in [Paths -> SUBSET Objects]
    BY <1>11 DEF ProcessCrash, KillAll, Active
  <2>2. torn' \subseteq Paths \X Puts /\ loose' \subseteq Paths \X Puts /\ reclaimed' \subseteq Puts
    BY <1>11 DEF ProcessCrash, KillAll, Active
  <2>3. may' \in [Keys -> SUBSET Objects] /\ file' \in [Puts -> Paths] /\ base' \in [Requests -> Objects]
    BY <1>11 DEF ProcessCrash, KillAll, Active
  <2>4. pc' \in [Requests -> Labels]
    BY <1>11 DEF ProcessCrash, KillAll, Active
  <2>5. outage' \in BOOLEAN /\ faults' \in Nat
    BY <1>11 DEF ProcessCrash, KillAll, Active
  <2> QED
    BY ONLY <2>1, <2>2, <2>3, <2>4, <2>5 DEF DiskTypeOK
<1>12. ASSUME PowerLoss PROVE DiskTypeOK'
  <2>1. entry' \in [Paths -> Objects] /\ onDisk' \in [Paths -> SUBSET Objects]
    BY <1>12 DEF PowerLoss, KillAll, Active
  <2>2. torn' \subseteq Paths \X Puts /\ loose' \subseteq Paths \X Puts /\ reclaimed' \subseteq Puts
    BY <1>12 DEF PowerLoss, KillAll, Active
  <2>3. may' \in [Keys -> SUBSET Objects] /\ file' \in [Puts -> Paths] /\ base' \in [Requests -> Objects]
    BY <1>12 DEF PowerLoss, KillAll, Active
  <2>4. pc' \in [Requests -> Labels]
    BY <1>12 DEF PowerLoss, KillAll, Active
  <2>5. outage' \in BOOLEAN /\ faults' \in Nat
    BY <1>12 DEF PowerLoss, KillAll, Active
  <2> QED
    BY ONLY <2>1, <2>2, <2>3, <2>4, <2>5 DEF DiskTypeOK
<1>13. ASSUME UNCHANGED vars PROVE DiskTypeOK'
  BY <1>13 DEF vars, diskVars
<1>14. QED
  BY <1>1, <1>2, <1>3, <1>4, <1>5, <1>6, <1>7, <1>8, <1>9, <1>10, <1>11, <1>12, <1>13 DEF Next

\* A put writes its chunk first and its metadata second.
LEMMA PlacesStep == DiskInv /\ [Next]_vars => PlacesOK'
<1> SUFFICES ASSUME DiskInv, [Next]_vars PROVE PlacesOK'
  OBVIOUS
<1> USE DEF DiskInv, PlacesOK, DiskTypeOK, Goto
<1>1. ASSUME NEW r \in Requests, Begin(r) PROVE PlacesOK'
  BY <1>1 DEF Begin
<1>2. ASSUME NEW p \in Puts, Commit(p) PROVE PlacesOK'
  BY <1>2 DEF Commit
<1>3. ASSUME NEW d \in Deletes, Unlink(d) PROVE PlacesOK'
  BY <1>3 DEF Unlink
<1>4. ASSUME NEW r \in Requests, Reclaim(r) PROVE PlacesOK'
  BY <1>4 DEF Reclaim
<1>5. ASSUME NEW p \in Puts, CreateTemp(p) PROVE PlacesOK'
  BY <1>5 DEF CreateTemp
<1>6. ASSUME NEW p \in Puts, WriteTemp(p) PROVE PlacesOK'
  BY <1>6 DEF WriteTemp
<1>7. ASSUME NEW p \in Puts, SyncTemp(p) PROVE PlacesOK'
  BY <1>7 DEF SyncTemp
<1>8. ASSUME NEW p \in Puts, Rename(p) PROVE PlacesOK'
  BY <1>8 DEF Rename
<1>9. ASSUME NEW p \in Puts, SyncDir(p) PROVE PlacesOK'
  BY <1>9 DEF SyncDir
<1>10. ASSUME NEW r \in Requests, CallFails(r) PROVE PlacesOK'
  BY <1>10 DEF CallFails
<1>11. ASSUME ProcessCrash PROVE PlacesOK'
  BY <1>11 DEF ProcessCrash, KillAll, Active
<1>12. ASSUME PowerLoss PROVE PlacesOK'
  BY <1>12 DEF PowerLoss, KillAll, Active
<1>13. ASSUME UNCHANGED vars PROVE PlacesOK'
  BY <1>13 DEF vars, diskVars
<1>14. QED
  BY <1>1, <1>2, <1>3, <1>4, <1>5, <1>6, <1>7, <1>8, <1>9, <1>10, <1>11, <1>12, <1>13 DEF Next

\* Metadata is written under the mutex.
LEMMA MutexStep == DiskInv /\ [Next]_vars => MutexOK'
<1> SUFFICES ASSUME DiskInv, [Next]_vars PROVE MutexOK'
  OBVIOUS
<1> USE DEF DiskInv, MutexOK, PlacesOK, DiskTypeOK, MetadataFree, Goto, diskVars, Point
<1>1. ASSUME NEW r \in Requests, Begin(r) PROVE MutexOK'
  BY <1>1 DEF Begin
<1>2. ASSUME NEW p \in Puts, Commit(p) PROVE MutexOK'
  BY <1>2 DEF Commit
<1>3. ASSUME NEW d \in Deletes, Unlink(d) PROVE MutexOK'
  BY <1>3 DEF Unlink
<1>4. ASSUME NEW r \in Requests, Reclaim(r) PROVE MutexOK'
  <2>1. \A k \in Keys : entry'[k] = entry[k]
    BY <1>4 DEF Reclaim, Objects
  <2>2. file' = file /\ \A q \in Puts : pc'[q] = pc[q] \/ pc'[q] \in {"ok", "conflict"}
    BY <1>4 DEF Reclaim
  <2> QED
    BY <2>1, <2>2
<1>5. ASSUME NEW p \in Puts, CreateTemp(p) PROVE MutexOK'
  BY <1>5 DEF CreateTemp
<1>6. ASSUME NEW p \in Puts, WriteTemp(p) PROVE MutexOK'
  BY <1>6 DEF WriteTemp
<1>7. ASSUME NEW p \in Puts, SyncTemp(p) PROVE MutexOK'
  BY <1>7 DEF SyncTemp
<1>8. ASSUME NEW p \in Puts, Rename(p) PROVE MutexOK'
  BY <1>8 DEF Rename
<1>9. ASSUME NEW p \in Puts, SyncDir(p) PROVE MutexOK'
  BY <1>9 DEF SyncDir
<1>10. ASSUME NEW r \in Requests, CallFails(r) PROVE MutexOK'
  BY <1>10 DEF CallFails
<1>11. ASSUME ProcessCrash PROVE MutexOK'
  BY <1>11 DEF ProcessCrash, KillAll, Active
<1>12. ASSUME PowerLoss PROVE MutexOK'
  BY <1>12 DEF PowerLoss, KillAll, Active
<1>13. ASSUME UNCHANGED vars PROVE MutexOK'
  BY <1>13 DEF vars, diskVars
<1>14. QED
  BY <1>1, <1>2, <1>3, <1>4, <1>5, <1>6, <1>7, <1>8, <1>9, <1>10, <1>11, <1>12, <1>13 DEF Next

\* Names lead to puts that have renamed their file.
LEMMA PlacedStep == DiskInv /\ [Next]_vars => PlacedOK'
<1> SUFFICES ASSUME DiskInv, [Next]_vars PROVE PlacedOK'
  OBVIOUS
<1> USE DEF DiskInv, PlacedOK, DiskTypeOK, PlacesOK, Objects, Before, Over, Goto, diskVars, Point, This
<1>1. ASSUME NEW r \in Requests, Begin(r) PROVE PlacedOK'
  BY <1>1 DEF Begin
<1>2. ASSUME NEW p \in Puts, Commit(p) PROVE PlacedOK'
  BY <1>2 DEF Commit
<1>3. ASSUME NEW d \in Deletes, Unlink(d) PROVE PlacedOK'
  BY <1>3 DEF Unlink
<1>4. ASSUME NEW r \in Requests, Reclaim(r) PROVE PlacedOK'
  BY <1>4 DEF Reclaim
<1>5. ASSUME NEW p \in Puts, CreateTemp(p) PROVE PlacedOK'
  BY <1>5 DEF CreateTemp
<1>6. ASSUME NEW p \in Puts, WriteTemp(p) PROVE PlacedOK'
  BY <1>6 DEF WriteTemp
<1>7. ASSUME NEW p \in Puts, SyncTemp(p) PROVE PlacedOK'
  BY <1>7 DEF SyncTemp
<1>8. ASSUME NEW p \in Puts, Rename(p) PROVE PlacedOK'
  BY <1>8 DEF Rename
<1>9. ASSUME NEW p \in Puts, SyncDir(p) PROVE PlacedOK'
  BY <1>9 DEF SyncDir
<1>10. ASSUME NEW r \in Requests, CallFails(r) PROVE PlacedOK'
  BY <1>10 DEF CallFails
<1>11. ASSUME ProcessCrash PROVE PlacedOK'
  BY <1>11 DEF ProcessCrash, KillAll, Active
<1>12. ASSUME PowerLoss PROVE PlacedOK'
  BY <1>12 DEF PowerLoss, KillAll, Active
<1>13. ASSUME UNCHANGED vars PROVE PlacedOK'
  BY <1>13 DEF vars, diskVars
<1>14. QED
  BY <1>1, <1>2, <1>3, <1>4, <1>5, <1>6, <1>7, <1>8, <1>9, <1>10, <1>11, <1>12, <1>13 DEF Next

\* Nothing incomplete gets a name.
LEMMA BytesStep == DiskInv /\ [Next]_vars => BytesOK'
<1> SUFFICES ASSUME DiskInv, [Next]_vars PROVE BytesOK'
  OBVIOUS
<1> USE DEF DiskInv, BytesOK, PlacedOK, DiskTypeOK, PlacesOK, Objects, Before, Over, Goto, diskVars, Point, This
<1>1. ASSUME NEW r \in Requests, Begin(r) PROVE BytesOK'
  BY <1>1 DEF Begin
<1>2. ASSUME NEW p \in Puts, Commit(p) PROVE BytesOK'
  BY <1>2 DEF Commit
<1>3. ASSUME NEW d \in Deletes, Unlink(d) PROVE BytesOK'
  BY <1>3 DEF Unlink
<1>4. ASSUME NEW r \in Requests, Reclaim(r) PROVE BytesOK'
  BY <1>4 DEF Reclaim
<1>5. ASSUME NEW p \in Puts, CreateTemp(p) PROVE BytesOK'
  BY <1>5 DEF CreateTemp
<1>6. ASSUME NEW p \in Puts, WriteTemp(p) PROVE BytesOK'
  BY <1>6 DEF WriteTemp
<1>7. ASSUME NEW p \in Puts, SyncTemp(p) PROVE BytesOK'
  BY <1>7 DEF SyncTemp
<1>8. ASSUME NEW p \in Puts, Rename(p) PROVE BytesOK'
  BY <1>8 DEF Rename
<1>9. ASSUME NEW p \in Puts, SyncDir(p) PROVE BytesOK'
  BY <1>9 DEF SyncDir
<1>10. ASSUME NEW r \in Requests, CallFails(r) PROVE BytesOK'
  BY <1>10 DEF CallFails
<1>11. ASSUME ProcessCrash PROVE BytesOK'
  BY <1>11 DEF ProcessCrash, KillAll, Active
<1>12. ASSUME PowerLoss PROVE BytesOK'
  BY <1>12 DEF PowerLoss, KillAll, Active
<1>13. ASSUME UNCHANGED vars PROVE BytesOK'
  BY <1>13 DEF vars, diskVars
<1>14. QED
  BY <1>1, <1>2, <1>3, <1>4, <1>5, <1>6, <1>7, <1>8, <1>9, <1>10, <1>11, <1>12, <1>13 DEF Next

\* The disk follows the answers.
LEMMA DurableStep == DiskInv /\ [Next]_vars => DurableOK'
<1> SUFFICES ASSUME DiskInv, [Next]_vars PROVE DurableOK'
  OBVIOUS
<1> USE DEF DiskInv, DurableOK, MutexOK, MetadataFree, DiskTypeOK, PlacesOK, Objects, Before, Over, Goto, diskVars, Point, This
<1>1. ASSUME NEW r \in Requests, Begin(r) PROVE DurableOK'
  BY <1>1 DEF Begin
<1>2. ASSUME NEW p \in Puts, Commit(p) PROVE DurableOK'
  BY <1>2 DEF Commit
<1>3. ASSUME NEW d \in Deletes, Unlink(d) PROVE DurableOK'
  BY <1>3 DEF Unlink
<1>4. ASSUME NEW r \in Requests, Reclaim(r) PROVE DurableOK'
  BY <1>4 DEF Reclaim
<1>5. ASSUME NEW p \in Puts, CreateTemp(p) PROVE DurableOK'
  BY <1>5 DEF CreateTemp
<1>6. ASSUME NEW p \in Puts, WriteTemp(p) PROVE DurableOK'
  BY <1>6 DEF WriteTemp
<1>7. ASSUME NEW p \in Puts, SyncTemp(p) PROVE DurableOK'
  BY <1>7 DEF SyncTemp
<1>8. ASSUME NEW p \in Puts, Rename(p) PROVE DurableOK'
  BY <1>8 DEF Rename
<1>9. ASSUME NEW p \in Puts, SyncDir(p) PROVE DurableOK'
  BY <1>9 DEF SyncDir
<1>10. ASSUME NEW r \in Requests, CallFails(r) PROVE DurableOK'
  BY <1>10 DEF CallFails
<1>11. ASSUME ProcessCrash PROVE DurableOK'
  BY <1>11 DEF ProcessCrash, KillAll, Active
<1>12. ASSUME PowerLoss PROVE DurableOK'
  BY <1>12 DEF PowerLoss, KillAll, Active
<1>13. ASSUME UNCHANGED vars PROVE DurableOK'
  BY <1>13 DEF vars, diskVars
<1>14. QED
  BY <1>1, <1>2, <1>3, <1>4, <1>5, <1>6, <1>7, <1>8, <1>9, <1>10, <1>11, <1>12, <1>13 DEF Next

\* What a request read stays over.
LEMMA BaseStep == DiskInv /\ [Next]_vars => BaseOK'
<1> SUFFICES ASSUME DiskInv, [Next]_vars PROVE BaseOK'
  OBVIOUS
<1> USE DEF DiskInv, BaseOK, PlacedOK, MetadataFree, DiskTypeOK, PlacesOK, Objects, Before, Over, Goto, diskVars, Point, This
<1>1. ASSUME NEW r \in Requests, Begin(r) PROVE BaseOK'
  BY <1>1 DEF Begin
<1>2. ASSUME NEW p \in Puts, Commit(p) PROVE BaseOK'
  BY <1>2 DEF Commit
<1>3. ASSUME NEW d \in Deletes, Unlink(d) PROVE BaseOK'
  BY <1>3 DEF Unlink
<1>4. ASSUME NEW r \in Requests, Reclaim(r) PROVE BaseOK'
  BY <1>4 DEF Reclaim
<1>5. ASSUME NEW p \in Puts, CreateTemp(p) PROVE BaseOK'
  BY <1>5 DEF CreateTemp
<1>6. ASSUME NEW p \in Puts, WriteTemp(p) PROVE BaseOK'
  BY <1>6 DEF WriteTemp
<1>7. ASSUME NEW p \in Puts, SyncTemp(p) PROVE BaseOK'
  BY <1>7 DEF SyncTemp
<1>8. ASSUME NEW p \in Puts, Rename(p) PROVE BaseOK'
  BY <1>8 DEF Rename
<1>9. ASSUME NEW p \in Puts, SyncDir(p) PROVE BaseOK'
  BY <1>9 DEF SyncDir
<1>10. ASSUME NEW r \in Requests, CallFails(r) PROVE BaseOK'
  BY <1>10 DEF CallFails
<1>11. ASSUME ProcessCrash PROVE BaseOK'
  BY <1>11 DEF ProcessCrash, KillAll, Active
<1>12. ASSUME PowerLoss PROVE BaseOK'
  BY <1>12 DEF PowerLoss, KillAll, Active
<1>13. ASSUME UNCHANGED vars PROVE BaseOK'
  BY <1>13 DEF vars, diskVars
<1>14. QED
  BY <1>1, <1>2, <1>3, <1>4, <1>5, <1>6, <1>7, <1>8, <1>9, <1>10, <1>11, <1>12, <1>13 DEF Next

\* Dead objects stay dead, and only they are reclaimed.
LEMMA ReclaimStep == DiskInv /\ [Next]_vars => ReclaimOK'
<1> SUFFICES ASSUME DiskInv, [Next]_vars PROVE ReclaimOK'
  OBVIOUS
<1> USE DEF DiskInv, ReclaimOK, Dead, NoDeletes, DiskTypeOK, PlacesOK, Objects, Before, Over, Goto, diskVars, Point, This
<1>1. ASSUME NEW r \in Requests, Begin(r) PROVE ReclaimOK'
  BY <1>1 DEF Begin
<1>2. ASSUME NEW p \in Puts, Commit(p) PROVE ReclaimOK'
  <2>1. \A q \in Puts : Dead(q) => Dead(q)'
    BY <1>2 DEF Commit
  <2>2. base' = base /\ reclaimed' = reclaimed
    BY <1>2 DEF Commit
  <2>3. \A k \in Keys : entry'[k] # p /\ p \notin onDisk'[k]
    BY <1>2 DEF Commit, PlacedOK
  <2>4. pc'[p] = "withdraw" => Dead(p)'
    BY <1>2, <2>3 DEF Commit
  <2>5. \A r \in Requests : r # p => pc'[r] = pc[r]
    BY <1>2 DEF Commit
  <2>6. pc'[p] \in {"create", "withdraw"}
    BY <1>2 DEF Commit
  <2> QED
    BY <2>1, <2>2, <2>4, <2>5, <2>6
<1>3. ASSUME NEW d \in Deletes, Unlink(d) PROVE ReclaimOK'
  <2>1. \A q \in Puts : Dead(q) => Dead(q)'
    BY <1>3 DEF Unlink
  <2>2. base' = base /\ reclaimed' = reclaimed
    BY <1>3 DEF Unlink
  <2>3. ASSUME pc'[d] = "reclaim", base[d] # Nothing PROVE Dead(base[d])'
    <3>1. Over(base[d])' /\ file[base[d]] = KeyOf[d] /\ base[d] \in Puts
      BY <1>3 , <2>3 DEF Unlink, BaseOK
    <3>2. pc'[d] # "idle" /\ d \in Deletes
      BY <2>3
    <3>3. \A k \in Keys : entry'[k] # base[d]
      BY <1>3, <2>3, <3>1 DEF Unlink, PlacedOK
    <3> QED
      BY <2>2, <3>1, <3>2, <3>3
  <2>4. \A r \in Requests : r # d => pc'[r] = pc[r]
    BY <1>3 DEF Unlink
  <2>5. pc'[d] \in {"ok", "reclaim"}
    BY <1>3 DEF Unlink
  <2> QED
    BY <2>1, <2>2, <2>3, <2>4, <2>5
<1>4. ASSUME NEW r \in Requests, Reclaim(r) PROVE ReclaimOK'
  BY <1>4 DEF Reclaim
<1>5. ASSUME NEW p \in Puts, CreateTemp(p) PROVE ReclaimOK'
  BY <1>5 DEF CreateTemp
<1>6. ASSUME NEW p \in Puts, WriteTemp(p) PROVE ReclaimOK'
  BY <1>6 DEF WriteTemp
<1>7. ASSUME NEW p \in Puts, SyncTemp(p) PROVE ReclaimOK'
  BY <1>7 DEF SyncTemp
<1>8. ASSUME NEW p \in Puts, Rename(p) PROVE ReclaimOK'
  BY <1>8 DEF Rename
<1>9. ASSUME NEW p \in Puts, SyncDir(p) PROVE ReclaimOK'
  <2>1. \A q \in Puts : Dead(q) => Dead(q)'
    BY <1>9 DEF SyncDir, DurableOK
  <2>2. base' = base /\ reclaimed' = reclaimed /\ entry' = entry /\ file' = file
    BY <1>9 DEF SyncDir
  <2>3. ASSUME base[p] # Nothing PROVE Dead(base[p])'
    <3>1. Over(base[p])' /\ file[base[p]] = KeyOf[p] /\ base[p] \in Puts /\ base[p] # p
      BY <1>9, <2>3 DEF SyncDir, BaseOK
    <3>2. file[p] = KeyOf[p] /\ entry[KeyOf[p]] = p
      BY <1>9 DEF SyncDir, MutexOK
    <3>3. \A k \in Keys : entry[k] # base[p]
      BY <3>1, <3>2, <2>3 DEF PlacedOK
    <3>4. \A k \in Keys : onDisk'[k] = {entry[k]}
      BY <1>9 DEF SyncDir
    <3> QED
      BY <3>1, <3>3, <3>4, <2>2
  <2>4. \A r \in Requests : r # p => pc'[r] = pc[r]
    BY <1>9 DEF SyncDir
  <2>5. pc'[p] = "reclaim"
    BY <1>9 DEF SyncDir
  <2> QED
    BY <2>1, <2>2, <2>3, <2>4, <2>5
<1>10. ASSUME NEW r \in Requests, CallFails(r) PROVE ReclaimOK'
  BY <1>10 DEF CallFails
<1>11. ASSUME ProcessCrash PROVE ReclaimOK'
  BY <1>11 DEF ProcessCrash, KillAll, Active
<1>12. ASSUME PowerLoss PROVE ReclaimOK'
  BY <1>12 DEF PowerLoss, KillAll, Active
<1>13. ASSUME UNCHANGED vars PROVE ReclaimOK'
  BY <1>13 DEF vars, diskVars
<1>14. QED
  BY <1>1, <1>2, <1>3, <1>4, <1>5, <1>6, <1>7, <1>8, <1>9, <1>10, <1>11, <1>12, <1>13 DEF Next

(***************************************************************************)
(* The theorems.                                                           *)
(***************************************************************************)

\* What the theorems rest on is invariant.
LEMMA DiskInvariant == Spec => []DiskInv
<1>1. Init => DiskInv
  BY DiskInit
<1>2. DiskInv /\ [Next]_vars => DiskInv'
  <2> SUFFICES ASSUME DiskInv, [Next]_vars PROVE DiskInv'
    OBVIOUS
  <2> QED
    BY TypeStep, PlacesStep, MutexStep, PlacedStep, BytesStep, DurableStep, BaseStep,
       ReclaimStep DEF DiskInv
<1>3. QED
  BY <1>1, <1>2, PTL DEF Spec

\* fsatomic: nobody sees an incomplete file under its name, and metadata is complete
\* after a power loss too, whatever fails and whenever.
THEOREM WholeFiles == Spec => []FilesWhole
<1>1. DiskInv => FilesWhole
  BY DEF DiskInv, DiskTypeOK, Objects, BytesOK, PlacedOK, FilesWhole
<1>2. QED
  BY <1>1, DiskInvariant, PTL

\* LocalStore: what an answered upload committed survives every power loss until
\* another request begins to replace it.
THEOREM CommitsSurvive == Spec => []MetadataDurable
<1>1. DiskInv => MetadataDurable
  BY DEF DiskInv, DurableOK, MetadataDurable
<1>2. QED
  BY <1>1, DiskInvariant, PTL

\* PutObject and DeleteObject: metadata names no reclaimed chunk after any crash of
\* the process, nor after a power loss if nobody deletes.
THEOREM CrashesDangleNothing == Spec => []NoDangling
<1>1. DiskInv => NoDangling
  BY DEF DiskInv, ReclaimOK, Dead, NoDeletes, NoDangling
<1>2. QED
  BY <1>1, DiskInvariant, PTL

=============================================================================
