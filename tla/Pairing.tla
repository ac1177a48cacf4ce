------------------------------ MODULE Pairing ------------------------------
(***************************************************************************)
(* What docs/architecture/unit-09-11-realtime-matching-webrtc.md and       *)
(* unit-16-17-direct-communications.md promise of the realtime leases:     *)
(* random matches and direct calls are engagements of two users, and a     *)
(* user is in at most one of them at a time.                               *)
(***************************************************************************)
CONSTANTS Users, Ids

VARIABLE engaged    \* the two users of each engagement, {} while there is none

Init == engaged = [i \in Ids |-> {}]

Free(u) == \A i \in Ids : u \notin engaged[i]

Begin(i, u, v) ==
    /\ engaged[i] = {}
    /\ u # v /\ Free(u) /\ Free(v)
    /\ engaged' = [engaged EXCEPT ![i] = {u, v}]

Finish(i) ==
    /\ engaged[i] # {}
    /\ engaged' = [engaged EXCEPT ![i] = {}]

Next == \E i \in Ids : Finish(i) \/ \E u, v \in Users : Begin(i, u, v)

Spec == Init /\ [][Next]_engaged
=============================================================================
