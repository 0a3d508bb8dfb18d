------------------------------ MODULE MCScrub ------------------------------
(***************************************************************************)
(* Instances of LilioScrub for TLC: one key, everything on both nodes.     *)
(***************************************************************************)
EXTENDS LilioScrub, TLC

CONSTANTS p1, p2, d1, k1, n1, n2, n3

OneKey == [r \in Requests |-> k1]

\* p1 has two chunks and p2 one.
TwoNodes == [p \in Puts |-> IF p = p1 THEN <<{n1, n2}, {n1, n2}>> ELSE <<{n1, n2}>>]

OneChunk == [p \in Puts |-> <<Nodes>>]

Mode(deep, dryRun) == [deep |-> deep, dryRun |-> dryRun]
AllModes  == {Mode(TRUE, FALSE), Mode(FALSE, FALSE), Mode(TRUE, TRUE)}
DeepOnly  == {Mode(TRUE, FALSE)}

=============================================================================
