----------------------------- MODULE RateLimiter -----------------------------
(***************************************************************************)
(* IPRateLimiter (internal/server/ratelimit.go): one rate.Limiter per      *)
(* client address, made on first use and deleted by a cleanup goroutine    *)
(* when the address has been idle.  The middleware looks the limiter up    *)
(* under l.mu and asks it afterwards, when it may have been deleted.       *)
(*                                                                         *)
(* Time is counted in ticks in which a rate.Limiter gains one unit; a      *)
(* request costs Cost units (1 request every 100 ms: with Cost = 1 a tick  *)
(* is 100 ms) and a bucket holds Full (Burst * Cost) of them.              *)
(* rate.Limiter is external.                                               *)
(***************************************************************************)
EXTENDS Integers

CONSTANTS IP, Request,
          Full, Cost,
          Idle,      \* the five minutes of cleanup
          MaxDelay,  \* bound: ticks between GetLimiter and Allow of one request
          MaxTime,   \* bound: ticks
          MaxGen,    \* bound: limiters made for one address
          NoLimiter

Limiter == IP \X (1..MaxGen)

\* The 2 s in which a bucket fills up, and the time a goroutine may spend
\* between two statements, are within the 5 minutes.
ASSUME LimiterAssumption ==
    /\ {Full, Cost, Idle, MaxDelay, MaxTime, MaxGen} \subseteq Nat
    /\ Full + MaxDelay <= Idle
    /\ NoLimiter \notin Limiter \cup IP

VARIABLES now,
          ips,       \* l.ips: the limiter of an address by number, 0 for none
          made,      \* limiters made so far for an address
          lastSeen,  \* ipEntry.lastSeen
          tokens,    \* rate.Limiter.tokens
          last,      \* rate.Limiter.last
          stopped,   \* Close has been called
          holds,     \* the limiter GetLimiter gave to a request
          since,     \* when it did
          verdict,   \* what Allow said
          admitted   \* history: requests allowed so far, by address

mapVars == <<ips, made, lastSeen>>
bucketVars == <<tokens, last>>
reqVars == <<holds, since, verdict>>
vars == <<now, mapVars, bucketVars, stopped, reqVars, admitted>>

TypeOK ==
    /\ now \in Nat
    /\ ips \in [IP -> 0..MaxGen]
    /\ made \in [IP -> 0..MaxGen]
    /\ lastSeen \in [IP -> Nat]
    /\ tokens \in [Limiter -> 0..Full]
    /\ last \in [Limiter -> Nat]
    /\ stopped \in BOOLEAN
    /\ holds \in [Request -> Limiter \cup {NoLimiter}]
    /\ since \in [Request -> Nat]
    /\ verdict \in [Request -> {"none", "allowed", "denied"}]
    /\ admitted \in [IP -> Nat]

Init ==
    /\ now = 0
    /\ ips = [ip \in IP |-> 0]
    /\ made = [ip \in IP |-> 0]
    /\ lastSeen = [ip \in IP |-> 0]
    /\ tokens = [d \in Limiter |-> Full]
    /\ last = [d \in Limiter |-> 0]
    /\ stopped = FALSE
    /\ holds = [r \in Request |-> NoLimiter]
    /\ since = [r \in Request |-> 0]
    /\ verdict = [r \in Request |-> "none"]
    /\ admitted = [ip \in IP |-> 0]

Waiting(r) == holds[r] # NoLimiter

-----------------------------------------------------------------------------
\* The limiter r gets, and the entry's lastSeen, are set in both branches.
Given(r, d) ==
    /\ ~Waiting(r)
    /\ holds' = [holds EXCEPT ![r] = d]
    /\ since' = [since EXCEPT ![r] = now]
    /\ verdict' = [verdict EXCEPT ![r] = "none"]

\* GetLimiter, no entry: NewLimiter, with a full bucket.
NewLimiter(r, ip) ==
    /\ ips[ip] = 0
    /\ made[ip] < MaxGen
    /\ Given(r, <<ip, made[ip] + 1>>)
    /\ made' = [made EXCEPT ![ip] = @ + 1]
    /\ ips' = [ips EXCEPT ![ip] = made[ip] + 1]
    /\ lastSeen' = [lastSeen EXCEPT ![ip] = now]
    /\ last' = [last EXCEPT ![<<ip, made[ip] + 1>>] = now]
    /\ UNCHANGED <<now, tokens, stopped, admitted>>

\* Fault: lastSeen is the time the entry was made.
GetLimiterUnseen(r, ip) ==
    /\ ips[ip] # 0
    /\ Given(r, <<ip, ips[ip]>>)
    /\ UNCHANGED <<now, mapVars, bucketVars, stopped, admitted>>

\* GetLimiter, the entry exists.
GetLimiter(r, ip) ==
    /\ ips[ip] # 0
    /\ Given(r, <<ip, ips[ip]>>)
    /\ lastSeen' = [lastSeen EXCEPT ![ip] = now]
    /\ UNCHANGED <<now, ips, made, bucketVars, stopped, admitted>>

\* rate.Limiter.advance.
Level(d) == LET level == tokens[d] + (now - last[d])
            IN IF level < Full THEN level ELSE Full

Decided(r, what) ==
    /\ holds' = [holds EXCEPT ![r] = NoLimiter]
    /\ since' = [since EXCEPT ![r] = 0]
    /\ verdict' = [verdict EXCEPT ![r] = what]

\* rate.Limiter.Allow, and next.ServeHTTP.
Allow(r) ==
    /\ Waiting(r)
    /\ Level(holds[r]) >= Cost
    /\ tokens' = [tokens EXCEPT ![holds[r]] = Level(holds[r]) - Cost]
    /\ last' = [last EXCEPT ![holds[r]] = now]
    /\ admitted' = [admitted EXCEPT ![holds[r][1]] = @ + 1]
    /\ Decided(r, "allowed")
    /\ UNCHANGED <<now, mapVars, stopped>>

\* Fault: the bucket is charged for requests it refuses.
DenyAndCharge(r) ==
    /\ Waiting(r)
    /\ Level(holds[r]) < Cost
    /\ tokens' = [tokens EXCEPT ![holds[r]] = Level(holds[r]) - Cost]
    /\ last' = [last EXCEPT ![holds[r]] = now]
    /\ Decided(r, "denied")
    /\ UNCHANGED <<now, mapVars, stopped, admitted>>

\* Allow refuses, and leaves the rate.Limiter alone: status 429.
Deny(r) ==
    /\ Waiting(r)
    /\ Level(holds[r]) < Cost
    /\ Decided(r, "denied")
    /\ UNCHANGED <<now, mapVars, bucketVars, stopped, admitted>>

\* Fault: cleanup empties the map.
CleanupAll ==
    /\ ~stopped
    /\ ips' = [ip \in IP |-> 0]
    /\ UNCHANGED <<now, made, lastSeen, bucketVars, stopped, reqVars, admitted>>

\* cleanup.
Cleanup ==
    /\ ~stopped
    /\ ips' = [ip \in IP |-> IF lastSeen[ip] < now - Idle THEN 0 ELSE ips[ip]]
    /\ UNCHANGED <<now, made, lastSeen, bucketVars, stopped, reqVars, admitted>>

\* Close, called by Server.Shutdown.
Close ==
    /\ ~stopped
    /\ stopped' = TRUE
    /\ UNCHANGED <<now, mapVars, bucketVars, reqVars, admitted>>

Tick ==
    /\ now < MaxTime
    /\ \A r \in Request : Waiting(r) => now - since[r] < MaxDelay
    /\ now' = now + 1
    /\ UNCHANGED <<mapVars, bucketVars, stopped, reqVars, admitted>>

Next ==
    \/ \E r \in Request :
          \/ \E ip \in IP : NewLimiter(r, ip) \/ GetLimiter(r, ip)
          \/ Allow(r) \/ Deny(r)
    \/ Cleanup \/ Close \/ Tick

Spec == Init /\ [][Next]_vars

-----------------------------------------------------------------------------
(* Correctness.                                                            *)

\* Why cleanup is safe: an entry it may delete has a bucket that is full again,
\* and no request is between GetLimiter and Allow with it.
IdleIsFull ==
    \A ip \in IP :
        ips[ip] # 0 /\ lastSeen[ip] < now - Idle
            => /\ Level(<<ip, ips[ip]>>) = Full
               /\ \A r \in Request : holds[r] # <<ip, ips[ip]>>

Bucket == INSTANCE TokenBucket
            WITH level <- [ip \in IP |-> IF ips[ip] = 0 THEN Full ELSE Level(<<ip, ips[ip]>>)],
                 asks <- [r \in Request |-> IF Waiting(r) THEN holds[r][1] ELSE NoLimiter],
                 NoOne <- NoLimiter

\* However often its limiter is forgotten and remade, an address is never
\* allowed more requests than the burst and the time since the start pay for.
RateBound == Bucket!RateBound

\* A client gets exactly what one bucket that is never deleted would give it:
\* a request asks the bucket of its own address, and forgetting and remaking
\* limiters neither admits nor refuses a request more.
ImplementsBucket == Bucket!Spec
=============================================================================
