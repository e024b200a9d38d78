----------------------------- MODULE TokenFamily -----------------------------
(***************************************************************************)
(* What the refresh-token store promises, without requests, caches or      *)
(* clocks.  A family is named by the token granted first; it has one       *)
(* holder, and hands over to a fresh token or ends.                        *)
(***************************************************************************)
CONSTANTS Tokens, Nobody

VARIABLES used, holder

fvars == <<used, holder>>

Init ==
    /\ used = {}
    /\ holder = [f \in Tokens |-> Nobody]

Grant(f) ==
    /\ f \notin used
    /\ used' = used \cup {f}
    /\ holder' = [holder EXCEPT ![f] = f]

Rotate(f, t) ==
    /\ holder[f] # Nobody
    /\ t \notin used
    /\ used' = used \cup {t}
    /\ holder' = [holder EXCEPT ![f] = t]

End(F) ==
    /\ holder' = [f \in Tokens |-> IF f \in F THEN Nobody ELSE holder[f]]
    /\ UNCHANGED used

Next ==
    \/ \E f \in Tokens : Grant(f)
    \/ \E f, t \in Tokens : Rotate(f, t)
    \/ \E F \in SUBSET Tokens : End(F)

Spec == Init /\ [][Next]_fvars
=============================================================================
