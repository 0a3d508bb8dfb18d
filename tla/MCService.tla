----------------------------- MODULE MCService -----------------------------
(***************************************************************************)
(* Instances of Service for TLC.                                           *)
(***************************************************************************)
EXTENDS Service, TLC

CONSTANTS q1, q2, q3

Line(op, b, k) == [op |-> op, bucket |-> b, key |-> k]

On(ops, key) == {Line(op, "b", key) : op \in ops}

\* Commands on one bucket and one object, and paths that name no object.
SomeLines ==
    q1 :> (On({"put", "get", "rm"}, "k") \union On({"create", "delete", "ls"}, "")
            \union {Line("unlock", "b", "unlock"), Line("info", "b", "info"),
                    Line("list", "", ""), Line("health", "admin", "stats"),
                    Line("scrub", "admin", "scrub"), Line("put", "admin", "scrub"),
                    Line("put", "admin", "stats"), Line("get", "ui", "k")}) @@
    q2 :> (On({"put", "get", "rm"}, "k") \union On({"create", "encrypt", "delete"}, "")) @@
    q3 :> (On({"put", "rm"}, "k") \union On({"encrypt"}, ""))

SomeSizes == q1 :> 0 @@ q2 :> 1 @@ q3 :> 2
=============================================================================
