----------------------------- MODULE MCNetwork -----------------------------
(* Two nodes and two connections for model checking: only one node dials,  *)
(* and there is any one fault; both dial, so that one closes what the      *)
(* other holds, and what is still to be written may be lost; records are   *)
(* changed by an operator and by updates that arrive late; or anything is  *)
(* in the records at first.                                                *)
EXTENDS Network

CONSTANTS n1, n2

MCNode == {n1, n2}

AllListed == [n \in MCNode |-> [m \in MCNode |-> IF m = n THEN "absent" ELSE "listed"]]

Alone ==
  [dials |-> 0, faults |-> 1,
   kinds |-> {"slow", "timeout", "refusal", "signature", "split", "idle", "reset",
             "delete", "restart"},
   records |-> {AllListed}]

Crossing == [dials |-> 1, faults |-> 1, kinds |-> {"stalled"}, records |-> {AllListed}]

Listing == [dials |-> 0, faults |-> 1, kinds |-> {"exclude", "late"}, records |-> {AllListed}]

Starting == [dials |-> 0, faults |-> 0, kinds |-> {"late"}, records |-> Records]

MCBounds == {Alone, Crossing, Listing, Starting}
=============================================================================
