---------------------------- MODULE HandleService ----------------------------
(***************************************************************************)
(* What the connection pool promises of the handles it gives out: a handle *)
(* goes from open to draining to closed and never back, a request is       *)
(* admitted to open handles only, and nothing but stopping the pool closes *)
(* a handle that was not draining.  It promises nothing about how long a   *)
(* handle drains.                                                          *)
(***************************************************************************)
CONSTANTS Handle, Request, NoHandle

VARIABLES phase,     \* where a handle is in its life
          admitted,  \* the handle a request may use
          stopped

vars == <<phase, admitted, stopped>>

Init ==
    /\ phase \in [Handle -> {"unmade", "open"}]
    /\ admitted = [r \in Request |-> NoHandle]
    /\ stopped = FALSE

\* One reconfiguration opens and retires any number of handles at once.
Reconfigure(opened, retired) ==
    /\ \A d \in opened : phase[d] = "unmade"
    /\ \A d \in retired : phase[d] # "unmade"
    /\ phase' = [d \in Handle |-> IF d \in opened THEN "open"
                                  ELSE IF d \in retired /\ phase[d] = "open" THEN "draining"
                                  ELSE phase[d]]
    /\ UNCHANGED <<admitted, stopped>>

\* A stopped pool may still admit a request that came before the stop.
Admit(r, d) ==
    /\ admitted[r] = NoHandle
    /\ phase[d] = "open" \/ (stopped /\ phase[d] = "closed")
    /\ admitted' = [admitted EXCEPT ![r] = d]
    /\ UNCHANGED <<phase, stopped>>

Leave(r) ==
    /\ admitted' = [admitted EXCEPT ![r] = NoHandle]
    /\ UNCHANGED <<phase, stopped>>

CloseDrained(d) ==
    /\ phase[d] = "draining"
    /\ phase' = [phase EXCEPT ![d] = "closed"]
    /\ UNCHANGED <<admitted, stopped>>

Stop(handles) ==
    /\ ~stopped
    /\ stopped' = TRUE
    /\ \A d \in handles : phase[d] # "unmade"
    /\ phase' = [d \in Handle |-> IF d \in handles THEN "closed" ELSE phase[d]]
    /\ UNCHANGED admitted

Next ==
    \/ \E opened, retired \in SUBSET Handle : Reconfigure(opened, retired)
    \/ \E r \in Request : Leave(r) \/ \E d \in Handle : Admit(r, d)
    \/ \E d \in Handle : CloseDrained(d)
    \/ \E handles \in SUBSET Handle : Stop(handles)

Spec == Init /\ [][Next]_vars
=============================================================================
