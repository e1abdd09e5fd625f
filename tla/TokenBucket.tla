----------------------------- MODULE TokenBucket -----------------------------
(***************************************************************************)
(* What the rate limiter promises: every client address has one bucket     *)
(* that holds Full units, gains one unit per tick and pays Cost for a      *)
(* request; a request is allowed exactly when the bucket of the address it *)
(* came from can pay.  Buckets are never forgotten.                        *)
(***************************************************************************)
EXTENDS Naturals

CONSTANTS IP, Request, Full, Cost, NoOne

VARIABLES now,
          level,
          asks,      \* the address a request came from, until it is decided
          verdict,
          admitted   \* history: requests allowed so far, by address

vars == <<now, level, asks, verdict, admitted>>

Init ==
    /\ now = 0
    /\ level = [ip \in IP |-> Full]
    /\ asks = [r \in Request |-> NoOne]
    /\ verdict = [r \in Request |-> "none"]
    /\ admitted = [ip \in IP |-> 0]

Refill ==
    /\ now' = now + 1
    /\ level' = [ip \in IP |-> IF level[ip] < Full THEN level[ip] + 1 ELSE Full]
    /\ UNCHANGED <<asks, verdict, admitted>>

Arrive(r, ip) ==
    /\ asks[r] = NoOne
    /\ asks' = [asks EXCEPT ![r] = ip]
    /\ verdict' = [verdict EXCEPT ![r] = "none"]
    /\ UNCHANGED <<now, level, admitted>>

Decided(r, what) ==
    /\ asks' = [asks EXCEPT ![r] = NoOne]
    /\ verdict' = [verdict EXCEPT ![r] = what]

Allow(r, ip) ==
    /\ asks[r] = ip
    /\ level[ip] >= Cost
    /\ level' = [level EXCEPT ![ip] = @ - Cost]
    /\ admitted' = [admitted EXCEPT ![ip] = @ + 1]
    /\ Decided(r, "allowed")
    /\ UNCHANGED now

Deny(r, ip) ==
    /\ asks[r] = ip
    /\ level[ip] < Cost
    /\ Decided(r, "denied")
    /\ UNCHANGED <<now, level, admitted>>

Next ==
    \/ Refill
    \/ \E r \in Request, ip \in IP : Arrive(r, ip) \/ Allow(r, ip) \/ Deny(r, ip)

Spec == Init /\ [][Next]_vars

\* The burst and what time has refilled bound what an address was ever allowed.
RateBound == \A ip \in IP : Cost * admitted[ip] + level[ip] <= Full + now
=============================================================================
