----------------------------- MODULE MCBuckets -----------------------------
(***************************************************************************)
(* Instances of Listing, and of Buckets under it, for TLC.                 *)
(***************************************************************************)
EXTENDS Listing, TLC

CONSTANTS c1, c2, d1, u1, w1

Prefixes == {<<1, 2>>, <<2, 2>>}
=============================================================================
