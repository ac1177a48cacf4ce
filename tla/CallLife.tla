------------------------------ MODULE CallLife ------------------------------
(* What the calls table promises of a direct call: it is answered at most   *)
(* once, a call that is over stays over, and a row that was purged is gone. *)
EXTENDS Naturals

CONSTANT Calls
VARIABLE row

Over   == {"ended", "declined", "cancelled", "missed"}
States == {"absent", "inviting", "connecting", "purged"} \cup Over

Follows(s, t) ==
    \/ s = "absent" /\ t = "inviting"
    \/ s = "inviting" /\ t \in {"connecting", "purged"} \cup Over
    \/ s \in {"connecting"} \cup Over /\ t \in {"ended", "purged"}

Init == row = [c \in Calls |-> "absent"]

(* One statement may change several rows. *)
Next ==
    /\ row' \in [Calls -> States]
    /\ \A c \in Calls : row'[c] = row[c] \/ Follows(row[c], row'[c])

Spec == Init /\ [][Next]_row
=============================================================================
