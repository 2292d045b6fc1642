------------------------------- MODULE Ledger -------------------------------
(***************************************************************************)
(* What the consensus promises, without the protocol: blocks are certified *)
(* one at a time, a block names one predecessor for ever, and a node's     *)
(* chain grows by a certified block whose predecessor is its last block.   *)
(* Nothing is ever removed from a chain.                                   *)
(*                                                                         *)
(* It does not promise that two nodes never extend the same block with     *)
(* different ones: across views the consensus does not see to that.        *)
(***************************************************************************)
EXTENDS Integers, Sequences

CONSTANTS Node,
          Id      \* block ids, positive integers

VARIABLES certified,  \* the blocks a quorum has decided
          chain       \* the ids of each node's blocks after genesis, whose id is 0

vars == <<certified, chain>>

Block == [id : Id, parent : Id \cup {0}]

LastOf(s) == IF s = <<>> THEN 0 ELSE s[Len(s)]

Init ==
    /\ certified = {}
    /\ chain = [n \in Node |-> <<>>]

Certify(b) ==
    /\ \A c \in certified : c.id # b.id
    /\ certified' = certified \cup {b}
    /\ UNCHANGED chain

Extend(n, b) ==
    /\ b.parent = LastOf(chain[n])
    /\ chain' = [chain EXCEPT ![n] = Append(@, b.id)]
    /\ UNCHANGED certified

Next ==
    \/ \E b \in Block : Certify(b)
    \/ \E n \in Node : \E b \in certified : Extend(n, b)

Spec == Init /\ [][Next]_vars
-----------------------------------------------------------------------------
\* A block is on two chains only with the same blocks before it.
SharedPast ==
    \A m, n \in Node :
        \A i \in 1 .. Len(chain[m]), j \in 1 .. Len(chain[n]) :
            chain[m][i] = chain[n][j] =>
                SubSeq(chain[m], 1, i) = SubSeq(chain[n], 1, j)
=============================================================================
