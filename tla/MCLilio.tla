------------------------------ MODULE MCLilio ------------------------------
(***************************************************************************)
(* Instances of Lilio for TLC.  Every request is about the same key, so    *)
(* they all race for its revision.                                         *)
(***************************************************************************)
EXTENDS LilioRegister, TLC

CONSTANTS p1, p2, p3, d1, d2, k1, n1, n2, n3

OneKey == [r \in Requests |-> k1]

\* One chunk per object, on every node.
OneChunk == [p \in Puts |-> <<Nodes>>]

\* p1 has two chunks, placed on different pairs of nodes; p3 is empty.
Mixed == [p \in Puts |-> CASE p = p1 -> <<{n1, n2}, {n2, n3}>>
                           [] p = p2 -> <<{n1, n2, n3}>>
                           [] OTHER  -> <<>>]

NodeSymmetry == Permutations(Nodes)

=============================================================================
