-------------------------- MODULE RateLimiterProofs --------------------------
(***************************************************************************)
(* The rate limiter is a bucket per address that is never forgotten, for   *)
(* every number of addresses and requests and all sizes of the bucket that *)
(* fill up within the idle time.  EntryInv bounds how much later than      *)
(* lastSeen a limiter can have been charged; HeldInv says that a request   *)
(* between GetLimiter and Allow keeps its entry in the map.                *)
(***************************************************************************)
EXTENDS RateLimiter, TLAPS

Cur(ip) == <<ip, ips[ip]>>

EntryInv(ip) ==
    /\ ips[ip] <= made[ip]
    /\ lastSeen[ip] <= now
    /\ ips[ip] # 0 => last[Cur(ip)] <= now /\ last[Cur(ip)] <= lastSeen[ip] + MaxDelay

FreshInv == \A ip \in IP : \A k \in 1..MaxGen : k > made[ip] => tokens[<<ip, k>>] = Full

HeldInv(r) ==
    Waiting(r) => /\ verdict[r] = "none"
                  /\ since[r] <= now /\ now - since[r] <= MaxDelay
                  /\ \E ip \in IP : ips[ip] # 0 /\ holds[r] = Cur(ip) /\ since[r] <= lastSeen[ip]

IInv ==
    /\ TypeOK
    /\ \A ip \in IP : EntryInv(ip)
    /\ FreshInv
    /\ \A r \in Request : HeldInv(r)

\* The level of the bucket that ip has, or would get.
LevelOf(ip) == IF ips[ip] = 0 THEN Full ELSE Level(Cur(ip))

-----------------------------------------------------------------------------
LEMMA ConstantTypes ==
    /\ Full \in Nat /\ Cost \in Nat /\ Idle \in Nat /\ MaxDelay \in Nat
    /\ MaxTime \in Nat /\ MaxGen \in Nat /\ Full + MaxDelay <= Idle
    /\ NoLimiter \notin Limiter /\ NoLimiter \notin IP
BY LimiterAssumption

\* The level of a bucket whose limiter was not charged in the future.
LEMMA LevelRange ==
    ASSUME TypeOK, NEW d \in Limiter, last[d] <= now
    PROVE  Level(d) \in 0..Full
BY ConstantTypes DEF TypeOK, Level

LEMMA CurIsLimiter ==
    ASSUME TypeOK, NEW ip \in IP, ips[ip] # 0
    PROVE  Cur(ip) \in Limiter
BY ConstantTypes DEF TypeOK, Cur, Limiter

\* An entry that is idle for longer than Idle has a full bucket, and no request
\* holds it.
LEMMA IdleEntry ==
    ASSUME IInv, NEW ip \in IP, ips[ip] # 0, lastSeen[ip] < now - Idle
    PROVE  /\ Level(Cur(ip)) = Full
           /\ \A r \in Request : holds[r] # Cur(ip)
<1>1. Cur(ip) \in Limiter
  BY CurIsLimiter DEF IInv
<1>2. /\ now \in Nat /\ lastSeen[ip] \in Nat /\ last[Cur(ip)] \in Nat
      /\ tokens[Cur(ip)] \in 0..Full
  BY <1>1 DEF IInv, TypeOK
<1>3. last[Cur(ip)] <= lastSeen[ip] + MaxDelay
  BY DEF IInv, EntryInv
<1>4. now - last[Cur(ip)] >= Full
  BY <1>2, <1>3, ConstantTypes
<1>5. Level(Cur(ip)) = Full
  BY <1>2, <1>4, ConstantTypes DEF Level
<1>6. ASSUME NEW r \in Request, holds[r] = Cur(ip) PROVE FALSE
  <2>1. Waiting(r)
    BY <1>1, <1>6, ConstantTypes DEF Waiting
  <2>2. /\ now - since[r] <= MaxDelay
        /\ \E i \in IP : ips[i] # 0 /\ holds[r] = Cur(i) /\ since[r] <= lastSeen[i]
    BY <2>1 DEF IInv, HeldInv
  <2>3. since[r] <= lastSeen[ip]
    BY <1>6, <2>2 DEF Cur
  <2>4. since[r] \in Nat
    BY DEF IInv, TypeOK
  <2>. QED BY <1>2, <2>2, <2>3, <2>4, ConstantTypes
<1>. QED BY <1>5, <1>6

LEMMA Consequence == IInv => IdleIsFull
BY IdleEntry DEF IdleIsFull, Cur

LEMMA InitInv == Init => IInv
<1>. SUFFICES ASSUME Init PROVE IInv
  OBVIOUS
<1>1. TypeOK
  <2>0. now \in Nat /\ stopped \in BOOLEAN
    BY DEF Init
  <2>1. /\ ips \in [IP -> 0..MaxGen] /\ made \in [IP -> 0..MaxGen] /\ lastSeen \in [IP -> Nat]
    BY ConstantTypes DEF Init
  <2>2. tokens \in [Limiter -> 0..Full] /\ last \in [Limiter -> Nat]
    BY ConstantTypes DEF Init
  <2>3. /\ holds \in [Request -> Limiter \cup {NoLimiter}] /\ since \in [Request -> Nat]
        /\ verdict \in [Request -> {"none", "allowed", "denied"}]
    BY DEF Init
  <2>4. admitted \in [IP -> Nat]
    BY DEF Init
  <2>. QED BY <2>0, <2>1, <2>2, <2>3, <2>4 DEF TypeOK
<1>2. ASSUME NEW ip \in IP PROVE EntryInv(ip)
  BY DEF Init, EntryInv
<1>3. FreshInv
  BY DEF Init, FreshInv, Limiter
<1>4. ASSUME NEW r \in Request PROVE HeldInv(r)
  BY DEF Init, HeldInv, Waiting
<1>. QED BY <1>1, <1>2, <1>3, <1>4 DEF IInv

-----------------------------------------------------------------------------
(* One lemma per operation: the invariant, and what it does to the levels. *)

LEMMA NewLimiterStep ==
    ASSUME IInv, NEW r \in Request, NEW ip \in IP, NewLimiter(r, ip)
    PROVE  IInv' /\ \A i \in IP : LevelOf(i)' = LevelOf(i)
<1>. DEFINE d == <<ip, made[ip] + 1>>
<1>. USE DEF NewLimiter, Given
<1>0. TypeOK /\ FreshInv /\ now \in Nat /\ made[ip] \in 0..MaxGen /\ (\A i \in IP : EntryInv(i))
  BY DEF IInv, TypeOK
<1>1. d \in Limiter /\ tokens[d] = Full
  BY <1>0, ConstantTypes DEF Limiter, FreshInv
<1>2. TypeOK'
  <2>1. ips' \in [IP -> 0..MaxGen] /\ made' \in [IP -> 0..MaxGen]
    BY <1>0, ConstantTypes DEF TypeOK
  <2>2. lastSeen' \in [IP -> Nat] /\ last' \in [Limiter -> Nat]
    BY <1>0 DEF TypeOK
  <2>3. /\ holds' \in [Request -> Limiter \cup {NoLimiter}] /\ since' \in [Request -> Nat]
        /\ verdict' \in [Request -> {"none", "allowed", "denied"}]
    BY <1>0, <1>1 DEF TypeOK
  <2>. QED BY <1>0, <2>1, <2>2, <2>3 DEF TypeOK
<1>3. /\ ips'[ip] = made[ip] + 1 /\ made'[ip] = made[ip] + 1 /\ lastSeen'[ip] = now
      /\ last'[d] = now
      /\ \A i \in IP \ {ip} : ips'[i] = ips[i] /\ made'[i] = made[i] /\ lastSeen'[i] = lastSeen[i]
      /\ \A e \in Limiter \ {d} : last'[e] = last[e]
  BY <1>0, <1>1 DEF TypeOK
<1>4. ASSUME NEW i \in IP PROVE EntryInv(i)'
  <2>1. CASE i = ip
    BY <1>0, <1>3, <2>1, ConstantTypes DEF EntryInv, Cur
  <2>2. CASE i # ip
    <3>1. ips[i] # 0 => Cur(i) \in Limiter /\ Cur(i) # d
      BY <1>0, <2>2, CurIsLimiter DEF Cur
    <3>. QED BY <1>0, <1>3, <2>2, <3>1 DEF EntryInv, Cur
  <2>. QED BY <2>1, <2>2
<1>5. FreshInv'
  <2>. SUFFICES ASSUME NEW i \in IP, NEW k \in 1..MaxGen, k > made'[i]
                PROVE  tokens'[<<i, k>>] = Full
    BY DEF FreshInv
  <2>1. made[i] \in 0..MaxGen /\ made'[i] >= made[i] /\ k > made[i]
    BY <1>0, <1>3, ConstantTypes DEF TypeOK
  <2>. QED BY <1>0, <2>1 DEF FreshInv
<1>6. ASSUME NEW q \in Request PROVE HeldInv(q)'
  <2>1. CASE q = r
    <3>1. /\ holds'[r] = <<ip, ips'[ip]>> /\ since'[r] = now /\ verdict'[r] = "none"
          /\ ips'[ip] # 0
      BY <1>0, <1>3, ConstantTypes DEF TypeOK
    <3>. QED BY <1>0, <1>3, <2>1, <3>1, ConstantTypes DEF HeldInv, Cur
  <2>2. CASE q # r
    <3>1. holds'[q] = holds[q] /\ since'[q] = since[q] /\ verdict'[q] = verdict[q]
      BY <1>0, <2>2 DEF TypeOK
    <3>2. HeldInv(q)
      BY DEF IInv
    <3>3. ASSUME NEW i \in IP, ips[i] # 0 PROVE Cur(i)' = Cur(i) /\ lastSeen'[i] = lastSeen[i]
      BY <1>3, <3>3 DEF Cur
    <3>4. \A i \in IP : ips[i] # 0 => ips'[i] # 0
      BY <1>3, <3>3
    <3>. QED BY <3>1, <3>2, <3>3, <3>4 DEF HeldInv, Waiting
  <2>. QED BY <2>1, <2>2
<1>7. ASSUME NEW i \in IP PROVE LevelOf(i)' = LevelOf(i)
  <2>1. CASE i = ip
    <3>1. Cur(ip)' = d /\ ips'[ip] # 0
      BY <1>0, <1>3, ConstantTypes DEF Cur
    <3>2. tokens'[d] = Full /\ last'[d] = now /\ now' = now
      BY <1>1, <1>3
    <3>3. Level(Cur(ip))' = Full
      BY <1>0, <3>1, <3>2, ConstantTypes DEF Level
    <3>. QED BY <1>0, <2>1, <3>1, <3>3 DEF LevelOf
  <2>2. CASE i # ip
    <3>1. ips[i] # 0 => Cur(i) \in Limiter /\ Cur(i) # d
      BY <1>0, <2>2, CurIsLimiter DEF Cur
    <3>. QED BY <1>0, <1>3, <2>2, <3>1 DEF LevelOf, Level, Cur
  <2>. QED BY <2>1, <2>2
<1>. QED BY <1>2, <1>4, <1>5, <1>6, <1>7 DEF IInv

LEMMA GetLimiterStep ==
    ASSUME IInv, NEW r \in Request, NEW ip \in IP, GetLimiter(r, ip)
    PROVE  IInv' /\ \A i \in IP : LevelOf(i)' = LevelOf(i)
<1>. USE DEF GetLimiter, Given, bucketVars
<1>0. TypeOK /\ now \in Nat /\ (\A i \in IP : EntryInv(i)) /\ Cur(ip) \in Limiter
  BY CurIsLimiter DEF IInv, TypeOK
<1>1. TypeOK'
  <2>1. lastSeen' \in [IP -> Nat] /\ holds' \in [Request -> Limiter \cup {NoLimiter}]
    BY <1>0 DEF TypeOK, Cur
  <2>2. since' \in [Request -> Nat] /\ verdict' \in [Request -> {"none", "allowed", "denied"}]
    BY <1>0 DEF TypeOK
  <2>. QED BY <1>0, <2>1, <2>2 DEF TypeOK
<1>2. /\ lastSeen'[ip] = now /\ \A i \in IP \ {ip} : lastSeen'[i] = lastSeen[i]
      /\ \A i \in IP : lastSeen'[i] >= lastSeen[i] /\ lastSeen'[i] <= now
                       /\ lastSeen[i] \in Nat /\ lastSeen'[i] \in Nat
  BY <1>0 DEF TypeOK, EntryInv
<1>3. ASSUME NEW i \in IP PROVE EntryInv(i)'
  <2>1. ips[i] # 0 => last[Cur(i)] \in Nat
    BY <1>0, CurIsLimiter DEF TypeOK
  <2>. QED BY <1>0, <1>2, <2>1, ConstantTypes DEF EntryInv, Cur
<1>4. FreshInv'
  BY DEF IInv, FreshInv
<1>5. ASSUME NEW q \in Request PROVE HeldInv(q)'
  <2>1. CASE q = r
    <3>1. holds'[r] = Cur(ip) /\ since'[r] = now /\ verdict'[r] = "none"
      BY <1>0 DEF TypeOK, Cur
    <3>. QED BY <1>0, <1>2, <2>1, <3>1, ConstantTypes DEF HeldInv, Cur
  <2>2. CASE q # r
    <3>1. /\ holds'[q] = holds[q] /\ since'[q] = since[q] /\ verdict'[q] = verdict[q]
          /\ since[q] \in Nat
      BY <1>0, <2>2 DEF TypeOK
    <3>2. HeldInv(q)
      BY DEF IInv
    <3>3. \A i \in IP : since[q] <= lastSeen[i] => since'[q] <= lastSeen'[i]
      BY <1>2, <3>1
    <3>. QED BY <3>1, <3>2, <3>3 DEF HeldInv, Waiting, Cur
  <2>. QED BY <2>1, <2>2
<1>6. ASSUME NEW i \in IP PROVE LevelOf(i)' = LevelOf(i)
  BY DEF LevelOf, Level, Cur
<1>. QED BY <1>1, <1>3, <1>4, <1>5, <1>6 DEF IInv

\* Allow and Deny: no entry changes, and the request holds no limiter any more.
LEMMA DecidedKeeps ==
    ASSUME IInv, NEW r \in Request, NEW what \in {"allowed", "denied"}, Decided(r, what),
           UNCHANGED <<now, mapVars>>
    PROVE  \A q \in Request : HeldInv(q)'
<1>. USE DEF Decided, mapVars
<1>0. TypeOK
  BY DEF IInv
<1>. TAKE q \in Request
<1>1. CASE q = r
  BY <1>0, <1>1 DEF HeldInv, Waiting, TypeOK
<1>2. CASE q # r
  <2>1. holds'[q] = holds[q] /\ verdict'[q] = verdict[q] /\ since'[q] = since[q]
    BY <1>0, <1>2 DEF TypeOK
  <2>2. HeldInv(q)
    BY DEF IInv
  <2>. QED BY <2>1, <2>2 DEF HeldInv, Waiting, Cur
<1>. QED BY <1>1, <1>2

LEMMA AllowStep ==
    ASSUME IInv, NEW r \in Request, Allow(r)
    PROVE  /\ IInv'
           /\ verdict[r] = "none"
           /\ \E ip \in IP : /\ Waiting(r) /\ holds[r] = Cur(ip)
                             /\ admitted' = [admitted EXCEPT ![ip] = @ + 1]
                             /\ LevelOf(ip) >= Cost
                             /\ LevelOf(ip)' = LevelOf(ip) - Cost
                             /\ \A i \in IP \ {ip} : LevelOf(i)' = LevelOf(i)
<1>. USE DEF Allow, mapVars
<1>0. /\ TypeOK /\ FreshInv /\ now \in Nat /\ (\A i \in IP : EntryInv(i))
      /\ HeldInv(r) /\ Waiting(r)
  BY DEF IInv, TypeOK
<1>1. PICK ip \in IP : ips[ip] # 0 /\ holds[r] = Cur(ip) /\ since[r] <= lastSeen[ip]
  BY <1>0 DEF HeldInv
<1>2. PICK d \in Limiter : d = Cur(ip)
  BY <1>0, <1>1, CurIsLimiter
<1>3. holds[r] = d /\ last[d] <= now
  BY <1>0, <1>1, <1>2 DEF EntryInv
<1>4. Level(d) \in 0..Full /\ Level(d) >= Cost
  BY <1>0, <1>3, LevelRange
<1>5. /\ tokens'[d] = Level(d) - Cost /\ last'[d] = now
      /\ \A e \in Limiter \ {d} : tokens'[e] = tokens[e] /\ last'[e] = last[e]
  BY <1>0, <1>3 DEF TypeOK
<1>6. Level(d) - Cost \in 0..Full
  BY <1>4, ConstantTypes
<1>7. admitted' = [admitted EXCEPT ![ip] = @ + 1]
  BY <1>1 DEF Cur
<1>8. TypeOK'
  <2>1. tokens' \in [Limiter -> 0..Full] /\ last' \in [Limiter -> Nat]
    BY <1>0, <1>3, <1>6 DEF TypeOK
  <2>2. /\ holds' \in [Request -> Limiter \cup {NoLimiter}]
        /\ verdict' \in [Request -> {"none", "allowed", "denied"}]
        /\ since' \in [Request -> Nat]
    BY <1>0 DEF TypeOK, Decided
  <2>3. admitted' \in [IP -> Nat]
    BY <1>0, <1>7 DEF TypeOK
  <2>. QED BY <1>0, <2>1, <2>2, <2>3 DEF TypeOK
<1>9. ASSUME NEW i \in IP PROVE EntryInv(i)'
  <2>1. ips[i] # 0 => Cur(i) \in Limiter
    BY <1>0, CurIsLimiter
  <2>2. CASE i = ip
    <3>1. now <= lastSeen[ip] + MaxDelay
      <4>1. since[r] \in Nat /\ lastSeen[ip] \in Nat /\ now - since[r] <= MaxDelay
        BY <1>0 DEF HeldInv, TypeOK
      <4>. QED BY <1>0, <1>1, <4>1, ConstantTypes
    <3>2. Cur(i)' = d
      BY <1>2, <2>2 DEF Cur
    <3>. QED BY <1>0, <1>1, <1>5, <2>2, <3>1, <3>2 DEF EntryInv
  <2>3. CASE i # ip
    <3>1. ips[i] # 0 => Cur(i)' = Cur(i) /\ Cur(i) # d
      BY <1>2, <2>3 DEF Cur
    <3>. QED BY <1>0, <1>5, <2>1, <3>1 DEF EntryInv, Cur
  <2>. QED BY <2>2, <2>3
<1>10. FreshInv'
  <2>. SUFFICES ASSUME NEW i \in IP, NEW k \in 1..MaxGen, k > made[i]
                PROVE  tokens'[<<i, k>>] = Full
    BY DEF FreshInv
  <2>1. <<i, k>> \in Limiter /\ tokens[<<i, k>>] = Full
    BY <1>0 DEF FreshInv, Limiter
  <2>2. <<i, k>> # d
    <3>1. ips[ip] <= made[ip] /\ ips[ip] \in Nat /\ made[ip] \in Nat
      BY <1>0, ConstantTypes DEF EntryInv, TypeOK
    <3>. QED BY <1>2, <3>1 DEF Cur
  <2>. QED BY <1>5, <2>1, <2>2
<1>11. \A q \in Request : HeldInv(q)'
  BY DecidedKeeps
<1>12. LevelOf(ip) = Level(d) /\ LevelOf(ip)' = Level(d) - Cost
  <2>1. LevelOf(ip) = Level(d)
    BY <1>1, <1>2 DEF LevelOf
  <2>2. Cur(ip)' = d /\ ips'[ip] # 0
    BY <1>1, <1>2 DEF Cur
  <2>3. Level(Cur(ip))' = Level(d) - Cost
    <3>1. Level(d) - Cost \in Int /\ Level(d) - Cost <= Full
      BY <1>6, ConstantTypes
    <3>2. Level(Cur(ip))' = IF tokens'[d] + (now - now) < Full THEN tokens'[d] + (now - now) ELSE Full
      BY <1>5, <2>2 DEF Level
    <3>. QED BY <1>0, <1>5, <1>6, <3>1, <3>2, ConstantTypes
  <2>. QED BY <2>1, <2>2, <2>3 DEF LevelOf
<1>13. ASSUME NEW i \in IP \ {ip} PROVE LevelOf(i)' = LevelOf(i)
  <2>1. ips[i] # 0 => Cur(i) \in Limiter /\ Cur(i)' = Cur(i) /\ Cur(i) # d
    BY <1>0, <1>2, CurIsLimiter DEF Cur
  <2>. QED BY <1>5, <2>1 DEF LevelOf, Level, Cur
<1>14. verdict[r] = "none"
  BY <1>0 DEF HeldInv
<1>. QED BY <1>0, <1>1, <1>4, <1>8, <1>9, <1>10, <1>11, <1>12, <1>13, <1>14, <1>7 DEF IInv

LEMMA DenyStep ==
    ASSUME IInv, NEW r \in Request, Deny(r)
    PROVE  /\ IInv'
           /\ verdict[r] = "none"
           /\ \E ip \in IP : Waiting(r) /\ holds[r] = Cur(ip) /\ LevelOf(ip) < Cost
           /\ \A i \in IP : LevelOf(i)' = LevelOf(i)
<1>. USE DEF Deny, mapVars, bucketVars
<1>0. TypeOK /\ HeldInv(r) /\ Waiting(r)
  BY DEF IInv
<1>1. PICK ip \in IP : ips[ip] # 0 /\ holds[r] = Cur(ip)
  BY <1>0 DEF HeldInv
<1>2. TypeOK'
  <2>1. /\ holds' \in [Request -> Limiter \cup {NoLimiter}]
        /\ verdict' \in [Request -> {"none", "allowed", "denied"}]
        /\ since' \in [Request -> Nat]
    BY <1>0 DEF TypeOK, Decided
  <2>. QED BY <1>0, <2>1 DEF TypeOK
<1>3. \A i \in IP : EntryInv(i)'
  BY DEF IInv, EntryInv, Cur
<1>4. FreshInv'
  BY DEF IInv, FreshInv
<1>5. \A q \in Request : HeldInv(q)'
  BY DecidedKeeps
<1>6. LevelOf(ip) < Cost
  BY <1>1 DEF LevelOf
<1>7. \A i \in IP : LevelOf(i)' = LevelOf(i)
  BY DEF LevelOf, Level, Cur
<1>. QED BY <1>0, <1>1, <1>2, <1>3, <1>4, <1>5, <1>6, <1>7 DEF IInv, HeldInv

LEMMA CleanupStep ==
    ASSUME IInv, Cleanup
    PROVE  IInv' /\ \A ip \in IP : LevelOf(ip)' = LevelOf(ip)
<1>. USE DEF Cleanup, bucketVars, reqVars
<1>0. TypeOK /\ now \in Nat /\ (\A i \in IP : EntryInv(i)) /\ Idle \in Nat
  BY ConstantTypes DEF IInv, TypeOK
<1>1. \A ip \in IP : ips'[ip] = IF lastSeen[ip] < now - Idle THEN 0 ELSE ips[ip]
  OBVIOUS
<1>2. TypeOK'
  <2>1. ips' \in [IP -> 0..MaxGen]
    BY <1>0, ConstantTypes DEF TypeOK
  <2>. QED BY <1>0, <2>1 DEF TypeOK
<1>3. ASSUME NEW ip \in IP PROVE EntryInv(ip)'
  <2>1. ips'[ip] # 0 => Cur(ip)' = Cur(ip) /\ ips'[ip] = ips[ip]
    BY <1>1 DEF Cur
  <2>2. made[ip] \in Nat
    BY <1>0, ConstantTypes DEF TypeOK
  <2>. QED BY <1>0, <1>1, <2>1, <2>2 DEF EntryInv
<1>4. FreshInv'
  BY DEF IInv, FreshInv
<1>5. ASSUME NEW q \in Request PROVE HeldInv(q)'
  <2>. SUFFICES ASSUME Waiting(q)
                PROVE  /\ verdict[q] = "none" /\ since[q] <= now /\ now - since[q] <= MaxDelay
                       /\ \E ip \in IP : ips'[ip] # 0 /\ holds[q] = Cur(ip)' /\ since[q] <= lastSeen[ip]
    BY DEF HeldInv, Waiting
  <2>1. HeldInv(q)
    BY DEF IInv
  <2>2. PICK ip \in IP : ips[ip] # 0 /\ holds[q] = Cur(ip) /\ since[q] <= lastSeen[ip]
    BY <2>1 DEF HeldInv
  <2>3. ~(lastSeen[ip] < now - Idle)
    BY <2>2, IdleEntry
  <2>4. ips'[ip] = ips[ip] /\ Cur(ip)' = Cur(ip)
    BY <1>1, <2>3 DEF Cur
  <2>. QED BY <2>1, <2>2, <2>4 DEF HeldInv
<1>6. ASSUME NEW ip \in IP PROVE LevelOf(ip)' = LevelOf(ip)
  <2>1. CASE lastSeen[ip] < now - Idle
    BY <1>1, <2>1, IdleEntry DEF LevelOf
  <2>2. CASE ~(lastSeen[ip] < now - Idle)
    <3>1. ips'[ip] = ips[ip]
      BY <1>1, <2>2
    <3>. QED BY <3>1 DEF LevelOf, Level, Cur
  <2>. QED BY <2>1, <2>2
<1>. QED BY <1>2, <1>3, <1>4, <1>5, <1>6 DEF IInv

LEMMA TickStep ==
    ASSUME IInv, Tick
    PROVE  /\ IInv'
           /\ \A ip \in IP : LevelOf(ip)' = IF LevelOf(ip) < Full THEN LevelOf(ip) + 1 ELSE Full
<1>. USE DEF Tick, mapVars, bucketVars, reqVars
<1>0. TypeOK /\ now \in Nat /\ now' = now + 1 /\ (\A i \in IP : EntryInv(i))
  BY DEF IInv, TypeOK
<1>1. TypeOK'
  <2>1. now' \in Nat
    BY <1>0
  <2>. QED BY <1>0, <2>1 DEF TypeOK
<1>2. ASSUME NEW ip \in IP PROVE EntryInv(ip)'
  <2>1. lastSeen[ip] \in Nat /\ (ips[ip] # 0 => last[Cur(ip)] \in Nat)
    BY <1>0, CurIsLimiter DEF TypeOK
  <2>. QED BY <1>0, <2>1 DEF EntryInv, Cur
<1>3. FreshInv'
  BY DEF IInv, FreshInv
<1>4. ASSUME NEW q \in Request PROVE HeldInv(q)'
  <2>1. HeldInv(q) /\ since[q] \in Nat
    BY DEF IInv, TypeOK
  <2>2. Waiting(q) => now' - since[q] <= MaxDelay /\ since[q] <= now'
    BY <1>0, <2>1, ConstantTypes DEF HeldInv
  <2>. QED BY <2>1, <2>2 DEF HeldInv, Waiting, Cur
<1>5. ASSUME NEW ip \in IP
      PROVE  LevelOf(ip)' = IF LevelOf(ip) < Full THEN LevelOf(ip) + 1 ELSE Full
  <2>1. CASE ips[ip] = 0
    BY <2>1, ConstantTypes DEF LevelOf
  <2>2. CASE ips[ip] # 0
    <3>1. PICK d \in Limiter : d = Cur(ip)
      BY <1>0, <2>2, CurIsLimiter
    <3>2. tokens[d] \in 0..Full /\ last[d] \in Nat /\ last[d] <= now
      BY <1>0, <2>2, <3>1 DEF TypeOK, EntryInv
    <3>3. LevelOf(ip) = Level(d)
      BY <2>2, <3>1 DEF LevelOf
    <3>4. LevelOf(ip)' = Level(d)'
      BY <2>2, <3>1 DEF LevelOf, Level, Cur
    <3>. QED BY <1>0, <3>2, <3>3, <3>4, ConstantTypes DEF Level
  <2>. QED BY <2>1, <2>2
<1>. QED BY <1>1, <1>2, <1>3, <1>4, <1>5 DEF IInv

LEMMA CloseStep ==
    ASSUME IInv, Close
    PROVE  IInv' /\ \A ip \in IP : LevelOf(ip)' = LevelOf(ip)
<1>. USE DEF Close, mapVars, bucketVars, reqVars
<1>1. TypeOK'
  BY DEF IInv, TypeOK
<1>2. \A ip \in IP : EntryInv(ip)'
  BY DEF IInv, EntryInv, Cur
<1>3. FreshInv'
  BY DEF IInv, FreshInv
<1>4. \A q \in Request : HeldInv(q)'
  BY DEF IInv, HeldInv, Waiting, Cur
<1>5. \A ip \in IP : LevelOf(ip)' = LevelOf(ip)
  BY DEF LevelOf, Level, Cur
<1>. QED BY <1>1, <1>2, <1>3, <1>4, <1>5 DEF IInv

-----------------------------------------------------------------------------
LEMMA NextInv == IInv /\ [Next]_vars => IInv'
<1>. SUFFICES ASSUME IInv, [Next]_vars PROVE IInv'
  OBVIOUS
<1>1. CASE UNCHANGED vars
  BY <1>1 DEF IInv, TypeOK, EntryInv, FreshInv, HeldInv, Waiting, Cur, vars, mapVars, bucketVars,
              reqVars
<1>. QED BY <1>1, NewLimiterStep, GetLimiterStep, AllowStep, DenyStep, CleanupStep, CloseStep,
            TickStep DEF Next

LEMMA Inductive == Spec => []IInv
BY InitInv, NextInv, PTL DEF Spec

\* The limiter's state is typed; no bucket is overdrawn or overfull.
THEOREM LimiterTyped == Spec => []TypeOK
<1>1. IInv => TypeOK
  BY DEF IInv
<1>. QED BY <1>1, Inductive, PTL

\* Cleanup only ever deletes full buckets that nobody holds (IdleIsFull).
THEOREM IdleEntriesAreFull == Spec => []IdleIsFull
BY Consequence, Inductive, PTL

-----------------------------------------------------------------------------
(* Refinement of TokenBucket.                                              *)

Levels == [ip \in IP |-> LevelOf(ip)]

Asks == [r \in Request |-> IF Waiting(r) THEN holds[r][1] ELSE NoLimiter]

Mapped == [ip \in IP |-> IF ips[ip] = 0 THEN Full ELSE Level(<<ip, ips[ip]>>)]

LEMMA MappedLevels == Levels = Mapped /\ Levels' = Mapped'
BY DEF Levels, Mapped, LevelOf, Cur

\* A request that gets a limiter of ip is one that asks ip.
LEMMA GivenAsks ==
    ASSUME TypeOK, NEW r \in Request, NEW ip \in IP, NEW k \in 1..MaxGen, Given(r, <<ip, k>>)
    PROVE  Asks[r] = NoLimiter /\ Asks' = [Asks EXCEPT ![r] = ip]
<1>1. <<ip, k>> # NoLimiter
  BY ConstantTypes DEF Limiter
<1>2. holds' = [holds EXCEPT ![r] = <<ip, k>>] /\ ~Waiting(r)
  BY DEF Given
<1>3. \A q \in Request : Asks'[q] = IF q = r THEN ip ELSE Asks[q]
  BY <1>1, <1>2 DEF Asks, Waiting, TypeOK
<1>. QED BY <1>2, <1>3 DEF Asks

\* A request that has its verdict asks nobody.
LEMMA DecidedAsks ==
    ASSUME TypeOK, NEW r \in Request, NEW what, Decided(r, what)
    PROVE  Asks' = [Asks EXCEPT ![r] = NoLimiter]
<1>1. holds' = [holds EXCEPT ![r] = NoLimiter]
  BY DEF Decided
<1>2. \A q \in Request : Asks'[q] = IF q = r THEN NoLimiter ELSE Asks[q]
  BY <1>1 DEF Asks, Waiting, TypeOK
<1>. QED BY <1>2 DEF Asks

\* GetLimiter, with or without an entry, is Arrive.
LEMMA ArriveMaps ==
    ASSUME TypeOK, NEW r \in Request, NEW ip \in IP, NEW k \in 1..MaxGen, Given(r, <<ip, k>>),
           UNCHANGED <<now, admitted>>,
           \A i \in IP : LevelOf(i)' = LevelOf(i)
    PROVE  Bucket!Next
<1>1. Levels' = Levels
  BY DEF Levels
<1>2. Asks[r] = NoLimiter /\ Asks' = [Asks EXCEPT ![r] = ip]
  BY GivenAsks
<1>3. verdict' = [verdict EXCEPT ![r] = "none"]
  BY DEF Given
<1>4. Bucket!Arrive(r, ip)
  BY <1>1, <1>2, <1>3, MappedLevels DEF Bucket!Arrive, Mapped, Asks
<1>. QED BY <1>4 DEF Bucket!Next

LEMMA AllowMaps ==
    ASSUME IInv, NEW r \in Request, Allow(r)
    PROVE  Bucket!Next
<1>1. PICK ip \in IP : /\ Waiting(r) /\ holds[r] = Cur(ip)
                       /\ admitted' = [admitted EXCEPT ![ip] = @ + 1]
                       /\ LevelOf(ip) >= Cost
                       /\ LevelOf(ip)' = LevelOf(ip) - Cost
                       /\ \A i \in IP \ {ip} : LevelOf(i)' = LevelOf(i)
  BY AllowStep
<1>2. Levels' = [Levels EXCEPT ![ip] = @ - Cost]
  BY <1>1 DEF Levels
<1>3. Levels[ip] >= Cost /\ Asks[r] = ip
  BY <1>1 DEF Levels, Asks, Cur
<1>4. Asks' = [Asks EXCEPT ![r] = NoLimiter]
  BY DecidedAsks DEF Allow, IInv
<1>5. verdict' = [verdict EXCEPT ![r] = "allowed"] /\ UNCHANGED now
  BY DEF Allow, Decided
<1>6. Bucket!Allow(r, ip)
  BY <1>1, <1>2, <1>3, <1>4, <1>5, MappedLevels DEF Bucket!Allow, Bucket!Decided, Mapped, Asks
<1>. QED BY <1>6 DEF Bucket!Next

LEMMA DenyMaps ==
    ASSUME IInv, NEW r \in Request, Deny(r)
    PROVE  Bucket!Next
<1>1. PICK ip \in IP : Waiting(r) /\ holds[r] = Cur(ip) /\ LevelOf(ip) < Cost
  BY DenyStep
<1>2. Levels' = Levels
  BY DenyStep DEF Levels
<1>3. Levels[ip] < Cost /\ Asks[r] = ip
  BY <1>1 DEF Levels, Asks, Cur
<1>4. Asks' = [Asks EXCEPT ![r] = NoLimiter]
  BY DecidedAsks DEF Deny, IInv
<1>5. verdict' = [verdict EXCEPT ![r] = "denied"] /\ UNCHANGED <<now, admitted>>
  BY DEF Deny, Decided
<1>6. Bucket!Deny(r, ip)
  BY <1>2, <1>3, <1>4, <1>5, MappedLevels DEF Bucket!Deny, Bucket!Decided, Mapped, Asks
<1>. QED BY <1>6 DEF Bucket!Next

LEMMA TickMaps ==
    ASSUME IInv, Tick
    PROVE  Bucket!Next
<1>1. Levels' = [ip \in IP |-> IF Levels[ip] < Full THEN Levels[ip] + 1 ELSE Full]
  BY TickStep DEF Levels
<1>2. UNCHANGED <<verdict, admitted, holds>> /\ now' = now + 1
  BY DEF Tick, reqVars
<1>3. Asks' = Asks
  BY <1>2 DEF Asks, Waiting
<1>4. Bucket!Refill
  BY <1>1, <1>2, <1>3, MappedLevels DEF Bucket!Refill, Mapped, Asks
<1>. QED BY <1>4 DEF Bucket!Next

\* Cleanup, Close and stuttering change nothing a client could tell.
LEMMA StutterMaps ==
    ASSUME UNCHANGED <<now, reqVars, admitted>>, \A ip \in IP : LevelOf(ip)' = LevelOf(ip)
    PROVE  UNCHANGED Bucket!vars
<1>1. Levels' = Levels
  BY DEF Levels
<1>2. Asks' = Asks
  BY DEF Asks, Waiting, reqVars
<1>. QED BY <1>1, <1>2, MappedLevels DEF Bucket!vars, Mapped, Asks, reqVars

\* Every behaviour of the rate limiter is one of a bucket per address that is
\* never forgotten, each request asking the bucket of its own address
\* (ImplementsBucket).
THEOREM LimiterImplementsBucket == Spec => ImplementsBucket
<1>1. Init => Bucket!Init
  BY DEF Init, Bucket!Init, Waiting
<1>2. ASSUME IInv, [Next]_vars PROVE [Bucket!Next]_(Bucket!vars)
  <2>0. TypeOK
    BY <1>2 DEF IInv
  <2>1. ASSUME NEW r \in Request, NEW ip \in IP, NewLimiter(r, ip) PROVE Bucket!Next
    <3>1. made[ip] + 1 \in 1..MaxGen
      BY <2>0, <2>1, ConstantTypes DEF NewLimiter, TypeOK
    <3>2. Given(r, <<ip, made[ip] + 1>>) /\ UNCHANGED <<now, admitted>>
      BY <2>1 DEF NewLimiter
    <3>3. \A i \in IP : LevelOf(i)' = LevelOf(i)
      BY <1>2, <2>1, NewLimiterStep
    <3>. QED BY <2>0, <3>1, <3>2, <3>3, ArriveMaps
  <2>2. ASSUME NEW r \in Request, NEW ip \in IP, GetLimiter(r, ip) PROVE Bucket!Next
    <3>1. ips[ip] \in 1..MaxGen
      BY <2>0, <2>2, ConstantTypes DEF GetLimiter, TypeOK
    <3>2. Given(r, <<ip, ips[ip]>>) /\ UNCHANGED <<now, admitted>>
      BY <2>2 DEF GetLimiter
    <3>3. \A i \in IP : LevelOf(i)' = LevelOf(i)
      BY <1>2, <2>2, GetLimiterStep
    <3>. QED BY <2>0, <3>1, <3>2, <3>3, ArriveMaps
  <2>3. ASSUME NEW r \in Request, Allow(r) PROVE Bucket!Next
    BY <1>2, <2>3, AllowMaps
  <2>4. ASSUME NEW r \in Request, Deny(r) PROVE Bucket!Next
    BY <1>2, <2>4, DenyMaps
  <2>5. CASE Cleanup
    BY <1>2, <2>5, CleanupStep, StutterMaps DEF Cleanup
  <2>6. CASE Close
    BY <1>2, <2>6, CloseStep, StutterMaps DEF Close
  <2>7. CASE Tick
    BY <1>2, <2>7, TickMaps
  <2>8. CASE UNCHANGED vars
    <3>1. UNCHANGED <<now, reqVars, admitted>> /\ \A ip \in IP : LevelOf(ip)' = LevelOf(ip)
      BY <2>8 DEF vars, mapVars, bucketVars, LevelOf, Level, Cur
    <3>. QED BY <3>1, StutterMaps
  <2>. QED BY <1>2, <2>1, <2>2, <2>3, <2>4, <2>5, <2>6, <2>7, <2>8 DEF Next
<1>. QED BY <1>1, <1>2, Inductive, PTL DEF Spec, ImplementsBucket, Bucket!Spec

-----------------------------------------------------------------------------
(* How much an address is ever allowed.                                    *)

Bounded(ip) == Cost * admitted[ip] + LevelOf(ip) <= Full + now

LEMMA BoundedAll == RateBound <=> \A ip \in IP : Bounded(ip)
BY MappedLevels DEF RateBound, Bucket!RateBound, Bounded, Levels, Mapped

LEMMA BoundedAllPrimed == RateBound' <=> \A ip \in IP : Bounded(ip)'
BY MappedLevels DEF RateBound, Bucket!RateBound, Bounded, Levels, Mapped

LEMMA LevelTyped ==
    ASSUME IInv, NEW ip \in IP
    PROVE  LevelOf(ip) \in 0..Full
<1>1. CASE ips[ip] = 0
  BY <1>1, ConstantTypes DEF LevelOf
<1>2. CASE ips[ip] # 0
  <2>1. PICK d \in Limiter : d = Cur(ip)
    BY <1>2, CurIsLimiter DEF IInv
  <2>2. last[d] <= now
    BY <1>2, <2>1 DEF IInv, EntryInv
  <2>. QED BY <1>2, <2>1, <2>2, LevelRange DEF IInv, LevelOf
<1>. QED BY <1>1, <1>2

LEMMA OneMoreCost == \A c \in Nat, n \in Nat : c * (n + 1) = c * n + c /\ c * n \in Nat
OBVIOUS

LEMMA BoundedStep ==
    ASSUME IInv, RateBound, [Next]_vars
    PROVE  RateBound'
<1>. SUFFICES ASSUME NEW ip \in IP PROVE Bounded(ip)'
  BY BoundedAllPrimed
<1>1. Bounded(ip)
  BY BoundedAll
<1>2. /\ LevelOf(ip) \in 0..Full /\ admitted[ip] \in Nat /\ now \in Nat
      /\ Cost * admitted[ip] \in Nat
  BY LevelTyped, ConstantTypes, OneMoreCost DEF IInv, TypeOK
<1>3. CASE UNCHANGED <<now, admitted>> /\ \A i \in IP : LevelOf(i)' = LevelOf(i)
  BY <1>1, <1>3 DEF Bounded
<1>4. ASSUME NEW r \in Request, Allow(r) PROVE Bounded(ip)'
  <2>1. PICK a \in IP : /\ admitted' = [admitted EXCEPT ![a] = @ + 1]
                        /\ LevelOf(a) >= Cost /\ LevelOf(a)' = LevelOf(a) - Cost
                        /\ \A i \in IP \ {a} : LevelOf(i)' = LevelOf(i)
    BY <1>4, AllowStep
  <2>2. now' = now /\ admitted \in [IP -> Nat]
    BY <1>4 DEF Allow, IInv, TypeOK
  <2>3. CASE a = ip
    <3>1. admitted'[ip] = admitted[ip] + 1 /\ LevelOf(ip)' = LevelOf(ip) - Cost
      BY <2>1, <2>2, <2>3
    <3>2. Cost * (admitted[ip] + 1) = Cost * admitted[ip] + Cost
      BY <1>2, ConstantTypes, OneMoreCost
    <3>. QED BY <1>1, <1>2, <2>2, <3>1, <3>2, ConstantTypes DEF Bounded
  <2>4. CASE a # ip
    <3>1. admitted'[ip] = admitted[ip] /\ LevelOf(ip)' = LevelOf(ip)
      BY <2>1, <2>2, <2>4
    <3>. QED BY <1>1, <2>2, <3>1 DEF Bounded
  <2>. QED BY <2>3, <2>4
<1>5. ASSUME NEW r \in Request, Deny(r) PROVE Bounded(ip)'
  BY <1>3, <1>5, DenyStep DEF Deny
<1>6. CASE Tick
  <2>1. LevelOf(ip)' <= LevelOf(ip) + 1 /\ LevelOf(ip)' \in Nat
    BY <1>2, <1>6, TickStep, ConstantTypes
  <2>2. now' = now + 1 /\ admitted' = admitted
    BY <1>6 DEF Tick
  <2>. QED BY <1>1, <1>2, <2>1, <2>2, ConstantTypes DEF Bounded
<1>7. ASSUME NEW r \in Request, NEW a \in IP, NewLimiter(r, a) \/ GetLimiter(r, a)
      PROVE  Bounded(ip)'
  BY <1>3, <1>7, NewLimiterStep, GetLimiterStep DEF NewLimiter, GetLimiter
<1>8. CASE Cleanup \/ Close
  BY <1>3, <1>8, CleanupStep, CloseStep DEF Cleanup, Close
<1>9. CASE UNCHANGED vars
  <2>1. UNCHANGED <<now, admitted>> /\ \A i \in IP : LevelOf(i)' = LevelOf(i)
    BY <1>9 DEF vars, mapVars, bucketVars, LevelOf, Level, Cur
  <2>. QED BY <1>3, <2>1
<1>. QED BY <1>4, <1>5, <1>6, <1>7, <1>8, <1>9 DEF Next

\* An address is never allowed more than its burst and the elapsed time pay
\* for, whatever cleanup forgets (RateBound).
THEOREM NeverMoreThanRate == Spec => []RateBound
<1>1. Init => RateBound
  <2>. SUFFICES ASSUME Init, NEW ip \in IP PROVE Bounded(ip)
    BY BoundedAll
  <2>1. admitted[ip] = 0 /\ LevelOf(ip) = Full /\ now = 0
    BY DEF Init, LevelOf
  <2>. QED BY <2>1, ConstantTypes DEF Bounded
<1>. QED BY <1>1, BoundedStep, Inductive, PTL DEF Spec
=============================================================================
