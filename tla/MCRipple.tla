------------------------------ MODULE MCRipple ------------------------------
(* Ripple on a few nodes.  A behaviour may halt once a bound is reached. *)
EXTENDS Ripple

Halt ==
    /\ \/ clock = MaxClock \/ expired = MaxExpire
       \/ \E n \in Node : view[n] = MaxView
    /\ UNCHANGED vars

MCSpec == Init /\ [][Next \/ Halt]_vars
=============================================================================
