------------------------------- MODULE MCPool -------------------------------
(* Pool with named model values; the cfg files choose the sets. *)
EXTENDS Pool

CONSTANTS c1, c2, s1, s2, s3, r1, r2, u1, u2
=============================================================================
