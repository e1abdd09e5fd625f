---------------------------- MODULE MCRateLimiter ----------------------------
(* RateLimiter with named model values. *)
EXTENDS RateLimiter, TLC

CONSTANTS a1, a2, r1, r2

\* Addresses are interchangeable, and so are requests.
Symmetry == Permutations({a1, a2}) \cup Permutations({r1, r2})
=============================================================================
