---------------------------- MODULE GracefulStop -----------------------------
(***************************************************************************)
(* What the process promises its clients when it stops: it goes from       *)
(* serving to draining to released, where its connections are closed, to   *)
(* over; a request it accepted is under way until it ends; while it drains *)
(* it accepts none; and it lets go of its connections only when no request *)
(* is under way, unless there is an excuse, which it needs to have before: *)
(* the time for draining is over, or there was no server yet that could be *)
(* told to stop.  It promises nothing about how long a request takes.      *)
(***************************************************************************)
CONSTANT Request

VARIABLES phase,   \* how far the process is
          begun,   \* the requests it has accepted
          active,  \* those that are under way
          excuse   \* why it may let go of its connections under a request

vars == <<phase, begun, active, excuse>>

Init ==
    /\ phase = "serving"
    /\ begun = {} /\ active = {}
    /\ excuse = "none"

\* A server that was not told to stop goes on accepting.
Begin(r) ==
    /\ r \notin begun
    /\ phase = "serving" \/ (phase # "over" /\ excuse = "unknown")
    /\ begun' = begun \cup {r} /\ active' = active \cup {r}
    /\ UNCHANGED <<phase, excuse>>

End(r) ==
    /\ r \in active
    /\ phase # "over"
    /\ active' = active \ {r}
    /\ UNCHANGED <<phase, begun, excuse>>

Stop ==
    /\ phase = "serving" /\ phase' = "draining"
    /\ excuse' \in {"none", "unknown"}
    /\ UNCHANGED <<begun, active>>

GiveUp ==
    /\ phase = "draining" /\ excuse = "none"
    /\ excuse' = "late"
    /\ UNCHANGED <<phase, begun, active>>

Release ==
    /\ phase = "draining" /\ phase' = "released"
    /\ excuse = "none" => active = {}
    /\ UNCHANGED <<begun, active, excuse>>

Finish ==
    /\ phase = "released" /\ phase' = "over"
    /\ UNCHANGED <<begun, active, excuse>>

Next ==
    \/ \E r \in Request : Begin(r) \/ End(r)
    \/ Stop \/ GiveUp \/ Release \/ Finish

Spec == Init /\ [][Next]_vars
=============================================================================
