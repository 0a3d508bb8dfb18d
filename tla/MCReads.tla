------------------------------ MODULE MCReads ------------------------------
(***************************************************************************)
(* Instances of LilioReads for TLC: everyone uses the same key.            *)
(***************************************************************************)
EXTENDS LilioReads, TLC

CONSTANTS p1, p2, d1, g1, g2, k1, n1, n2

OneKey == [r \in Requests |-> k1]
OneKeyRead == [g \in Gets |-> k1]

\* p1 has two chunks and p2 one, all of them on both nodes.
TwoNodes == [p \in Puts |-> IF p = p1 THEN <<{n1, n2}, {n1, n2}>> ELSE <<{n1, n2}>>]

OneChunk == [p \in Puts |-> <<Nodes>>]

=============================================================================
