---------------------------- MODULE MCLifecycle -----------------------------
(* Lifecycle with named model values.                                         *)
EXTENDS Lifecycle

CONSTANTS c1, s1, s2, r1, u1
=============================================================================
