------------------------------- MODULE MCFair -------------------------------
(* Ripple under fairness, on connections that keep the order of a leader's   *)
(* requests: a node takes them one after the other.                          *)
EXTENDS MCRipple

InOrder == \A n \in Node : seq'[n] <= seq[n] + 1

FairSpec == Init /\ [][(Next /\ InOrder) \/ Halt]_vars /\ Fairness
=============================================================================
