------------------------------ MODULE MCRouter ------------------------------
(* Router with named model values: every pair of tool calls, and a database   *)
(* that loses its route and gets it back.                                     *)
EXTENDS Router

CONSTANTS c1, c2, s1, s2, r1, r2, r3, u1, b1, b2

MCRoutes == {[b \in Database |-> c1], [b \in Database |-> IF b = b1 THEN c1 ELSE NoCluster]}

\* One of the two orders of each pair.
MCKinds == {k \in [Request -> {"query", "exec", "direct", "search"}] :
               LET rank == [query |-> 0, exec |-> 1, direct |-> 2, search |-> 3]
               IN rank[k[r1]] <= rank[k[r2]]}
=============================================================================
