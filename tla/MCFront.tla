------------------------------ MODULE MCFront ------------------------------
(***************************************************************************)
(* Instances for TLC of what surrounds the storage: configuration and      *)
(* start, commands and their requests, the body and the placement of an    *)
(* upload.  They share nothing, and each behaviour is one of Startup, of   *)
(* Service or of Upload.                                                   *)
(***************************************************************************)
EXTENDS MCUpload, MCService, MCStartup

VARIABLE part   \* the module whose behaviour it is

\* One initial state of the modules that do not move.
FrontInit ==
    /\ StartupInit /\ ServiceInit /\ Init
    /\ part \in {"startup", "service", "upload"}
    /\ part # "service" => buckets = [b \in BucketNames |-> "absent"]
    /\ part # "upload" => config = CHOOSE c \in Configs : Valid(c)

FrontNext ==
    /\ UNCHANGED part
    /\ \/ part = "startup" /\ StartupNext /\ UNCHANGED <<serviceVars, vars>>
       \/ part = "service" /\ ServiceNext /\ UNCHANGED <<startupVars, vars>>
       \/ part = "upload" /\ Next /\ UNCHANGED <<startupVars, serviceVars>>

FrontSpec == FrontInit /\ [][FrontNext]_<<part, startupVars, serviceVars, vars>>

=============================================================================
