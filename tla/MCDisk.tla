------------------------------- MODULE MCDisk -------------------------------
(***************************************************************************)
(* Instances of LocalDisk for TLC: all requests are for one key.           *)
(***************************************************************************)
EXTENDS LocalDisk, TLC

CONSTANTS p1, p2, p3, d1, k1

OneKey == [r \in Requests |-> k1]

Uploads == Permutations(Puts)

=============================================================================
