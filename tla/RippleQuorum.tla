---------------------------- MODULE RippleQuorum ----------------------------
(***************************************************************************)
(* The arithmetic every part of the consensus shares: how many nodes make  *)
(* a quorum, which node leads a view, and which sequence numbers belong to *)
(* a view.  Nodes are their indexes 0 .. N-1 (unlManager keeps an index    *)
(* per node); the node list is fixed, as it is between two flushes of it.  *)
(***************************************************************************)
EXTENDS Integers, FiniteSets

CONSTANTS N,    \* unlFullSize, the number of nodes including this one
          Step  \* WATER_LINE_STEP_LENGTH, 2037 in the code

ASSUME NAssumption    == N \in Nat /\ N >= 2
ASSUME StepAssumption == Step \in Nat /\ Step >= 1

Node == 0 .. N - 1

\* parseInt(unlFullSize * 2 / 3 + 1)
ThresholdTruncated == (2 * N) \div 3
Threshold == (2 * N) \div 3 + 1

\* parseInt(unlFullSize / 3 + 1), used by ready, fetchProcessState and update
WeakThreshold == N \div 3 + 1

Quorum     == {Q \in SUBSET Node : Cardinality(Q) >= Threshold}
WeakQuorum == {Q \in SUBSET Node : Cardinality(Q) >= WeakThreshold}

\* checkLeader and nextViewLeaderAddress
Leader(v) == v % N

LowWaterLine(v)  == v * Step
HighWaterLine(v) == LowWaterLine(v) + Step
=============================================================================
