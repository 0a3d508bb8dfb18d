----------------------------- MODULE MCStorage -----------------------------
(***************************************************************************)
(* Instances for TLC of the modules below the coordinator.  They share     *)
(* nothing, and each behaviour is one of LocalDisk, of RemoteNode or of    *)
(* DriveBackend.                                                           *)
(***************************************************************************)
EXTENDS MCDisk, RemoteNode, DriveBackend

VARIABLE part   \* the module whose behaviour it is

CONSTANTS s1, s2, s3, g1, x1, c1, c2, big

OneRemoteChunk ==
    s1 :> c1 @@ s2 :> c1 @@ g1 :> c1 @@ x1 :> c1 @@ s3 :> big
OneOfEach ==
    s1 :> "store" @@ s2 :> "store" @@ g1 :> "retrieve" @@ x1 :> "delete" @@ s3 :> "store"

StorageInit ==
    /\ Init /\ RemoteInit /\ DriveInit
    /\ part \in {"disk", "remote", "drive"}

StorageNext ==
    /\ UNCHANGED part
    /\ \/ part = "disk" /\ Next /\ UNCHANGED <<remoteVars, driveVars>>
       \/ part = "remote" /\ RemoteNext /\ UNCHANGED <<vars, driveVars>>
       \/ part = "drive" /\ DriveNext /\ UNCHANGED <<vars, remoteVars>>

StorageSpec == StorageInit /\ [][StorageNext]_<<part, vars, remoteVars, driveVars>>

=============================================================================
