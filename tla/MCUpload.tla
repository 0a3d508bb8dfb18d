------------------------------ MODULE MCUpload ------------------------------
(***************************************************************************)
(* Instances of Upload for TLC.                                            *)
(***************************************************************************)
EXTENDS Upload, TLC

CONSTANTS n1, n2, n3

\* Two virtual nodes each on a ring of seven.  The first of n2 collides with n1's,
\* the first of n3 with n2's, and which of them has to move depends on who came first.
Collisions ==
    n1 :> << <<1, 3, 5, 0, 2, 4>>, <<4, 2, 0, 6, 5, 1>> >> @@
    n2 :> << <<1, 4, 0, 2, 6, 3>>, <<5, 2, 3, 6, 1, 0>> >> @@
    n3 :> << <<5, 4, 2, 3, 0, 1>>, <<3, 1, 6, 0, 4, 2>> >>

Config(size, rf, n, w) == [chunkSize |-> size, replicationFactor |-> rf, n |-> n, w |-> w]

ASSUME RetriesSuffice

SomeConfigs == {Config(2, 2, 2, 2), Config(3, 2, 2, 1)}

=============================================================================
