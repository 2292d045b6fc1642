----------------------- MODULE RippleDecision_proofs ------------------------
(***************************************************************************)
(* One decision per sequence number of a view (prepare.js, commit.js, and  *)
(* every way into a view: viewChangeForConsensusFail.js,                   *)
(* viewChangeForTimeout.js, newView.js, fetchProcessState.js).             *)
(*                                                                         *)
(* A decision rests on two votes of a quorum, and two quorums have nodes   *)
(* in common; so it is enough that one of these votes once.  Two nodes may *)
(* vote twice: the one, x, that has restarted or waited in vain and is set *)
(* back to where others are, and the leader of a view, who begins it again *)
(* when a vote for it comes late.  That no other is ever set back is the   *)
(* invariant Views.  There is a latest view W.  A node enters a view when  *)
(* a quorum votes for it; a voter is done with the view before, so no      *)
(* quorum votes a second time, and no votes are left that could lead a     *)
(* node back.                                                              *)
(***************************************************************************)
EXTENDS Ripple_proofs

\* Any two quorums have three nodes in common: so it is for three nodes and for
\* five or more.
ThreeInCommon == 2 * Threshold - N >= 3

\* Enough to leave out the leader of a view, and x if it is a node
Enough(x) == x \in Node => ThreeInCommon

-----------------------------------------------------------------------------
(* Water lines and leaders *)

\* s is one of the sequence numbers of the rounds of view u.
InRange(s, u) == LowWaterLine(u) < s /\ s <= HighWaterLine(u)

\* A view ends where the next one begins.
LEMMA WaterMeets ==
  ASSUME NEW u \in Nat
  PROVE  HighWaterLine(u) = LowWaterLine(u + 1) /\ LowWaterLine(u) < HighWaterLine(u)
<1>1. (u + 1) * Step = u * Step + Step /\ u * Step \in Nat
  BY StepAssumption
<1> QED
  BY <1>1, StepAssumption DEF LowWaterLine, HighWaterLine

\* Later views are higher.
LEMMA WaterRises ==
  ASSUME NEW u \in Nat, NEW v \in Nat, u <= v
  PROVE  LowWaterLine(u) <= LowWaterLine(v) /\ HighWaterLine(u) <= HighWaterLine(v)
<1>1. PICK k \in Nat : v = u + k
  <2>1. v - u \in Nat /\ v = u + (v - u)
    OBVIOUS
  <2> QED
    BY <2>1
<1>2. k * Step \in Nat /\ u * Step \in Nat /\ v * Step = u * Step + k * Step
  BY <1>1, StepAssumption
<1> QED
  BY <1>2, StepAssumption DEF LowWaterLine, HighWaterLine

\* A view is over where a later one begins.
LEMMA WaterApart ==
  ASSUME NEW u \in Nat, NEW v \in Nat, u < v
  PROVE  HighWaterLine(u) <= LowWaterLine(v)
  BY WaterMeets, WaterRises

\* A sequence number belongs to one view.
LEMMA RangeOnce ==
  ASSUME NEW u \in Nat, NEW v \in Nat, NEW s \in Nat, InRange(s, u),
         LowWaterLine(v) < s
  PROVE  v <= u
<1> SUFFICES ASSUME u < v PROVE FALSE
  OBVIOUS
<1> QED
  BY WaterApart, WaterLines DEF InRange

\* A sequence number up to a view's high water line belongs to no later one.
LEMMA RangeOnceHigh ==
  ASSUME NEW u \in Nat, NEW v \in Nat, NEW s \in Nat, InRange(s, u),
         s <= HighWaterLine(v)
  PROVE  u <= v
<1> SUFFICES ASSUME v < u PROVE FALSE
  OBVIOUS
<1> QED
  BY WaterApart, WaterLines DEF InRange

\* What division by N gives.
LEMMA Division ==
  ASSUME NEW v \in Nat
  PROVE  v % N \in 0 .. N - 1 /\ v \div N \in Nat /\ v = N * (v \div N) + (v % N)
  BY NAssumption

\* Two views in a row have different leaders.
LEMMA LeadersDiffer ==
  ASSUME NEW v \in Nat
  PROVE  Leader(v) # Leader(v + 1)
<1> SUFFICES ASSUME v % N = (v + 1) % N PROVE FALSE
  BY DEF Leader
<1>1. PICK p \in Nat, q \in Nat, r \in Nat : v = N * p + r /\ v + 1 = N * q + r
  BY Division, NAssumption
<1>2. N * (q - p) = 1
  <2>1. N * (q - p) = N * q - N * p
    BY NAssumption
  <2> QED
    BY <1>1, <2>1, NAssumption
<1>3. CASE q <= p
  <2>1. PICK k \in Nat : k = p - q
    BY <1>3
  <2>2. N * k \in Nat /\ N * (q - p) = -(N * k)
    BY <2>1, NAssumption
  <2> QED
    BY <1>2, <2>2
<1>4. CASE q > p
  <2>1. PICK k \in Nat : q - p = k + 1
    <3>1. q - p - 1 \in Nat
      BY <1>4
    <3> QED
      BY <3>1
  <2>2. N * k \in Nat /\ N * (k + 1) = N * k + N
    BY NAssumption
  <2> QED
    BY <1>2, <2>1, <2>2, NAssumption
<1> QED
  BY <1>3, <1>4

\* A later view with the same leader is at least the next but one.
LEMMA SameLeader ==
  ASSUME NEW u \in Nat, NEW v \in Nat, v < u, Leader(u) = Leader(v)
  PROVE  v + 2 <= u
  BY LeadersDiffer

-----------------------------------------------------------------------------
(* Quorums *)

\* Sets of nodes are finite.
LEMMA NodesFinite ==
  ASSUME NEW S \in SUBSET Node
  PROVE  /\ IsFiniteSet(S) /\ Cardinality(S) \in Nat
         /\ Cardinality(S) <= N
<1>1. IsFiniteSet(Node) /\ Cardinality(Node) = N
  BY FS_Interval, NAssumption DEF Node
<1> QED
  BY <1>1, FS_Subset, FS_CardinalityType

\* The threshold of a quorum is more than two thirds of the nodes.
LEMMA ThresholdIs ==
  Threshold \in Nat /\ 3 * Threshold >= 2 * N + 1 /\ Threshold <= N
<1>1. 2 * N \in Nat /\ N \in Nat /\ N >= 2
  BY NAssumption
<1>2. (2 * N) \div 3 \in Nat /\ 3 * ((2 * N) \div 3) >= 2 * N - 2
  BY <1>1
<1>3. 3 * ((2 * N) \div 3) <= 2 * N
  BY <1>1
<1> QED
  BY <1>1, <1>2, <1>3 DEF Threshold

\* Two nodes of a set are not both one.
LEMMA BesideOne ==
  ASSUME NEW S \in SUBSET Node, Cardinality(S) >= 2, NEW y
  PROVE  \E q \in S : q # y
<1> SUFFICES ASSUME \A q \in S : q = y PROVE FALSE
  OBVIOUS
<1>1. S \in SUBSET {y}
  OBVIOUS
<1>2. IsFiniteSet({y}) /\ Cardinality({y}) = 1
  BY FS_Singleton
<1>3. Cardinality(S) <= Cardinality({y})
  BY <1>1, <1>2, FS_Subset
<1> QED
  BY <1>2, <1>3, NodesFinite

\* Three nodes of a set are not all among two.
LEMMA BesideTwo ==
  ASSUME NEW S \in SUBSET Node, Cardinality(S) >= 3, NEW x, NEW y
  PROVE  \E q \in S : q # x /\ q # y
<1> SUFFICES ASSUME \A q \in S : q = x \/ q = y PROVE FALSE
  OBVIOUS
<1>1. S \in SUBSET {x, y}
  OBVIOUS
<1>2. IsFiniteSet({x}) /\ Cardinality({x}) = 1
  BY FS_Singleton
<1>3. {x, y} = {x} \cup {y}
  OBVIOUS
<1>4. IsFiniteSet({x, y}) /\ Cardinality({x, y}) <= 2 /\ Cardinality({x, y}) \in Nat
  <2>1. /\ IsFiniteSet({x} \cup {y})
        /\ Cardinality({x} \cup {y}) = IF y \in {x} THEN Cardinality({x}) ELSE Cardinality({x}) + 1
    BY <1>2, FS_AddElement, Zenon
  <2> QED
    BY <1>2, <1>3, <2>1
<1>5. Cardinality(S) <= Cardinality({x, y})
  BY <1>1, <1>4, FS_Subset
<1> QED
  BY <1>4, <1>5, NodesFinite

\* How many nodes two sets have in common at least
LEMMA Common ==
  ASSUME NEW A \in SUBSET Node, NEW B \in SUBSET Node, NEW U \in SUBSET Node,
         A \subseteq U, B \subseteq U
  PROVE  Cardinality(A \cap B) >= Cardinality(A) + Cardinality(B) - Cardinality(U)
<1>1. /\ IsFiniteSet(A) /\ IsFiniteSet(B) /\ IsFiniteSet(U)
      /\ Cardinality(A) \in Nat /\ Cardinality(B) \in Nat /\ Cardinality(U) \in Nat
      /\ Cardinality(A \cap B) \in Nat
  BY NodesFinite
<1>2. Cardinality(A \cup B) = Cardinality(A) + Cardinality(B) - Cardinality(A \cap B)
  BY <1>1, FS_Union
<1>3. Cardinality(A \cup B) <= Cardinality(U) /\ Cardinality(A \cup B) \in Nat
  BY <1>1, FS_Subset, NodesFinite
<1> QED
  BY <1>1, <1>2, <1>3

\* Two quorums have a node besides any other and x in common.
LEMMA QuorumsMeet ==
  ASSUME NEW x, Enough(x), NEW A \in Quorum, NEW B \in Quorum, NEW y
  PROVE  \E q \in A \cap B : q # x /\ q # y
<1>1. A \in SUBSET Node /\ B \in SUBSET Node /\ Cardinality(A) >= Threshold
      /\ Cardinality(B) >= Threshold
  BY DEF Quorum
<1>2. Cardinality(A \cap B) >= Cardinality(A) + Cardinality(B) - Cardinality(Node)
  BY <1>1, Common
<1>3. Cardinality(Node) <= N /\ Cardinality(Node) \in Nat /\ Cardinality(A) \in Nat
      /\ Cardinality(B) \in Nat /\ Cardinality(A \cap B) \in Nat
  BY <1>1, NodesFinite
<1>4. CASE x \in Node
  <2>1. Cardinality(A \cap B) >= 3
    BY <1>1, <1>2, <1>3, <1>4, ThresholdIs, NAssumption DEF Enough, ThreeInCommon
  <2> QED
    BY <1>1, <2>1, BesideTwo
<1>5. CASE x \notin Node
  <2>1. Cardinality(A \cap B) >= 2
    BY <1>1, <1>2, <1>3, ThresholdIs, NAssumption
  <2>2. \E q \in A \cap B : q # y
    BY <1>1, <2>1, BesideOne
  <2> QED
    BY <1>1, <1>5, <2>2
<1> QED
  BY <1>4, <1>5

\* The nodes among which those that vote for a view once more have to be found
Wall(n, P) ==
  P \in Quorum \/ (P \subseteq Node /\ n \notin P /\ Cardinality(P) >= 2 * Threshold - (N - 1))

\* The nodes other than node n
LEMMA NodesBut ==
  ASSUME NEW n \in Node
  PROVE  Cardinality(Node \ {n}) = N - 1
<1>1. IsFiniteSet(Node) /\ Cardinality(Node) = N
  BY FS_Interval, NAssumption DEF Node
<1> QED
  BY <1>1, FS_RemoveElement

\* Two quorums without a node have a wall in common.
LEMMA QuorumsWall ==
  ASSUME NEW n \in Node, NEW A \in Quorum, NEW B \in Quorum, n \notin A, n \notin B
  PROVE  Wall(n, A \cap B)
<1>1. A \in SUBSET Node /\ B \in SUBSET Node /\ Cardinality(A) >= Threshold
      /\ Cardinality(B) >= Threshold
  BY DEF Quorum
<1>2. Cardinality(A \cap B) >= Cardinality(A) + Cardinality(B) - Cardinality(Node \ {n})
  BY <1>1, Common
<1>3. Cardinality(A) \in Nat /\ Cardinality(B) \in Nat /\ Cardinality(A \cap B) \in Nat
  BY <1>1, NodesFinite
<1> QED
  BY <1>1, <1>2, <1>3, NodesBut, ThresholdIs, NAssumption DEF Wall

\* No quorum without node n gets past a wall.
LEMMA WallHolds ==
  ASSUME NEW x, Enough(x), NEW n \in Node, NEW P, Wall(n, P), NEW A \in Quorum, n \notin A,
         NEW y
  PROVE  \E q \in A \cap P : q # x /\ q # y
<1>1. CASE P \in Quorum
  BY <1>1, QuorumsMeet
<1>2. CASE P \notin Quorum
  <2>1. /\ P \in SUBSET Node /\ n \notin P /\ Cardinality(P) >= 2 * Threshold - (N - 1)
        /\ A \in SUBSET Node /\ Cardinality(A) >= Threshold
    BY <1>2 DEF Wall, Quorum
  <2>2. Cardinality(A \cap P) >= Cardinality(A) + Cardinality(P) - Cardinality(Node \ {n})
    BY <2>1, Common
  <2>3. Cardinality(A) \in Nat /\ Cardinality(P) \in Nat /\ Cardinality(A \cap P) \in Nat
    BY <2>1, NodesFinite
  <2>4. Cardinality(A \cap P) >= 3
    BY <2>1, <2>2, <2>3, NodesBut, ThresholdIs, NAssumption
  <2> QED
    BY <2>1, <2>4, BesideTwo
<1> QED
  BY <1>1, <1>2
-----------------------------------------------------------------------------
(* The invariant.  Node x is the one that has restarted or waited in vain, any  *)
(* node as long as none has.  The others are never set back, except that the    *)
(* leader of a view may begin its rounds again.                                 *)

\* The nodes that may do a thing twice in view w
Odd(x, w) == {x, Leader(w)}

\* The votes for a next view on their way or counted, and those on a failed consensus
Votes == {t.vote : t \in timeouts} \cup UNION {ballots[n] : n \in Node}
Fails == {m \in msgs : m.type = "consensusFail"}

\* Node q's vote for the view after w is on its way, or counted by node n.
InFlight(q, w) == \E t \in timeouts : t.vote.from = q /\ t.vote.position.view = w
Counted(n, q, w) == \E b \in ballots[n] : b.from = q /\ b.position.view = w
Failed(q, w) == \E m \in Fails : m.from = q /\ m.position.view = w

\* Node q is done with view w: it waits for the next one.
Waits(q, w)  == view[q] > w \/ (view[q] = w /\ stage[q] = "waitView")
GaveUp(q, w) == view[q] > w \/ (view[q] = w /\ stage[q] = "consensusFail")
Done(q, w)   == Waits(q, w) \/ GaveUp(q, w)

\* The states of a node: only node x synchronises, a new view is started by its
\* leader, and requests and proposals are made by the leader of the view.
Partaking == {"consensus", "newView", "exit"}
CalmAt(x, n) ==
    /\ n # x => /\ mode[n] \in Partaking
                /\ newView[n] => Leader(view[n]) = n
                /\ stage[n] = "prePrepare" /\ Leader(view[n]) = n => mode[n] = "newView"
    /\ stage[n] \in {"collect", "propose"} => Leader(view[n]) = n /\ mode[n] \in Partaking
    /\ mode[n] = "fetchState" => stage[n] = "synced"

\* W is the latest view.
BoundAt(n, W) ==
    /\ view[n] <= W /\ seq[n] <= HighWaterLine(W)
    /\ \A a \in answers[n] : a.position.view <= W /\ a.position.seq <= HighWaterLine(W)

MessageIn(m, W) ==
    /\ m.type = "amalgamate" => \E u \in 0 .. W : InRange(m.seq, u) /\ Leader(u) = m.from
    /\ m.type = "newView" =>
          m.position.view < W /\ m.position.seq = HighWaterLine(m.position.view)

\* A node that is past its view's high water line follows the leader of a later view,
\* who is the leader of its own view too.
LagAt(x, n, W) ==
    n # x /\ seq[n] > HighWaterLine(view[n]) =>
        /\ Leader(view[n]) # n
        /\ \E u \in 0 .. W : InRange(seq[n], u) /\ Leader(u) = Leader(view[n])

\* A follower in a round has left the view's low water line.
Rounds == {"prePrepare", "prepare", "ready", "commit", "fetchCandidate", "consensusFail"}
RoundedAt(x, n) ==
    n # x /\ Leader(view[n]) # n /\ stage[n] \in Rounds => LowWaterLine(view[n]) < seq[n]

\* A node's own vote is counted by itself only while it waits.
OwnAt(x, n) ==
    n # x => \A b \in ballots[n] :
        b.from = n => /\ stage[n] = "waitView"
                      /\ mode[n] = "newView" \/ (~newView[n] /\ b.position.view = view[n])

\* A node does not send a vote to itself.
Abroad == \A t \in timeouts : t.to # t.vote.from

\* One ballot per voter
OnceAt(n) == \A b, c \in ballots[n] : b.from = c.from => b = c

\* What a vote says of its voter.
SaidAt(b, W) ==
    /\ b.position.view <= view[b.from]
    /\ b.position.seq <= HighWaterLine(W)
    /\ b.position.seq > HighWaterLine(b.position.view) =>
          \E u \in 0 .. W : b.position.view + 2 <= u /\ InRange(b.position.seq, u)
Said(x, W) == \A b \in Votes \cup Fails : b.from # x => SaidAt(b, W)
HighVotes(x) == \A b \in Votes : b.from # x => HighWaterLine(b.position.view) <= b.position.seq

\* A vote for the next view and a vote on a failed consensus end the view for a node.
VotesDone(x) ==
    \A b \in Votes : b.from \notin Odd(x, b.position.view) => Waits(b.from, b.position.view)
FailsDone(x) ==
    \A m \in Fails : m.from \notin Odd(x, m.position.view) => GaveUp(m.from, m.position.view)
Either(x) ==
    \A b \in Votes, m \in Fails :
        b.from = m.from /\ b.position.view = m.position.view => b.from \in Odd(x, b.position.view)

\* A node votes once for the next view.
SameVote(b, c) == b.from = c.from /\ b.position.view = c.position.view
VoteOnce(x) ==
    /\ \A s, t \in timeouts : SameVote(s.vote, t.vote) =>
           s = t \/ s.vote.from \in Odd(x, s.vote.position.view)
    /\ \A t \in timeouts, n \in Node : \A b \in ballots[n] :
           SameVote(t.vote, b) => b.from \in Odd(x, b.position.view)

\* When the nodes reached view w, a quorum of them was in the view before.
Reached(x, w) ==
    \E Q \in Quorum : \A q \in Q : q # x =>
        /\ w <= view[q] + 1
        /\ \A b \in Votes \cup Fails :
              b.from = q /\ LowWaterLine(w) < b.position.seq => w <= b.position.view + 1

\* View w ended because the next leader counted the votes, or a quorum failed.
FailQuorum(x, w) == \E Q \in Quorum : \A q \in Q : q \notin Odd(x, w) => Failed(q, w)
Passed(x, w) == Leader(w + 1) = x \/ w < view[Leader(w + 1)] \/ FailQuorum(x, w)

\* The nodes P are done with view w, and none of their votes is to come, nor held by n.
Spent(x, w, P) == \A q \in P : q \notin Odd(x, w) => Done(q, w) /\ ~InFlight(q, w)
Unheld(x, n, w, P) == \A q \in P : q \notin Odd(x, w) => ~Counted(n, q, w)

\* The leader of a view may count the votes for it again only while it begins it.
Entry(x, n, w, Q) ==
    Spent(x, w, Q) /\ (Unheld(x, n, w, Q) \/ (newView[n] /\ (n \in Q => Counted(n, n, w))))
EntryAt(x, n) ==
    n # x => \A w \in Nat : view[n] = w + 1 /\ Leader(w + 1) = n =>
                \E Q \in Quorum : Entry(x, n, w, Q)

\* Once in a later view it never has a quorum of votes for an earlier one.
Blocked(x, n, w) == \E P : Wall(n, P) /\ Spent(x, w, P) /\ Unheld(x, n, w, P)
BlockedAt(x, n) ==
    n # x => \A w \in Nat : w + 1 < view[n] /\ Leader(w + 1) = n => Blocked(x, n, w)

NodeInv(x, n, W) ==
    /\ CalmAt(x, n) /\ BoundAt(n, W) /\ LagAt(x, n, W) /\ RoundedAt(x, n)
    /\ OwnAt(x, n) /\ OnceAt(n) /\ EntryAt(x, n) /\ BlockedAt(x, n)

VoteInv(x, W) ==
    /\ Abroad /\ Said(x, W) /\ HighVotes(x)
    /\ VotesDone(x) /\ FailsDone(x) /\ Either(x) /\ VoteOnce(x)
    /\ \A w \in Nat : 1 <= w /\ w <= W => Reached(x, w)
    /\ \A w \in Nat : w < W => Passed(x, w)

Views(x, W) ==
    /\ \A n \in Node : NodeInv(x, n, W)
    /\ \A m \in msgs : MessageIn(m, W)
    /\ VoteInv(x, W)
-----------------------------------------------------------------------------
(* What a step of node n is to the votes. *)

Rest(n) ==
    \A q \in Node \ {n} :
        /\ view'[q] = view[q] /\ seq'[q] = seq[q] /\ mode'[q] = mode[q]
        /\ stage'[q] = stage[q] /\ newView'[q] = newView[q]
        /\ ballots'[q] = ballots[q] /\ answers'[q] = answers[q] /\ cand'[q] = cand[q]

\* b is the vote that node n casts as it reaches the high water line.
Casts(n, b) ==
    /\ b.position.view = view[n] /\ b.position.seq = seq[n]
    /\ HighWaterLine(view[n]) <= seq[n]
    /\ stage[n] \in {"new", "processed"}
    /\ view'[n] > view[n] \/ (view'[n] = view[n] /\ stage'[n] = "waitView")

\* m is the vote on its failed consensus.
Gives(n, m) ==
    /\ m.position.view = view[n] /\ m.position.seq = seq[n]
    /\ stage[n] = "commit"
    /\ view'[n] = view[n] /\ stage'[n] = "consensusFail"

Own(x, n, b) == b.from = n /\ (n # x => Casts(n, b))

Sends(x, n) ==
    /\ \E s : /\ timeouts' = timeouts \cup {s}
              /\ s.to # s.vote.from /\ Own(x, n, s.vote)
    /\ ballots'[n] = ballots[n]

Counts(x, n) ==
    /\ timeouts' \subseteq timeouts
    /\ \A b \in ballots'[n] \ ballots[n] :
          Own(x, n, b) \/ \E t \in timeouts \ timeouts' : t.vote = b

Moves(x, n) ==
    /\ Rest(n)
    /\ msgs \subseteq msgs'
    /\ n # x => /\ view[n] <= view'[n]
                /\ \/ seq[n] <= seq'[n]
                   \/ Leader(view[n]) = n /\ view'[n] = view[n]
                         /\ seq'[n] = LowWaterLine(view[n])
    /\ n # x => \A w \in Nat : n # Leader(w) =>
                    /\ Waits(n, w) => Waits(n, w)'
                    /\ GaveUp(n, w) => GaveUp(n, w)'
    /\ \A m \in msgs' \ msgs : m.type = "consensusFail" => m.from = n /\ (n # x => Gives(n, m))
    /\ Sends(x, n) \/ Counts(x, n)

\* Votes are ballots, and the messages on a failed consensus carry positions.
LEMMA VoteTypes ==
  ASSUME TypeOK
  PROVE  /\ Votes \subseteq Ballot
         /\ \A b \in Votes \cup Fails : /\ b.from \in Node /\ b.position \in Position
                                        /\ b.position.view \in Nat /\ b.position.seq \in Nat
<1>1. Votes \subseteq Ballot
  BY DEF TypeOK, Votes
<1>2. \A m \in Fails : m.from \in Node /\ m.position \in Position
  BY Content DEF TypeOK, Fails
<1> QED
  BY <1>1, <1>2 DEF Ballot, Position

\* So they are after a step.
LEMMA VoteTypesNext ==
  ASSUME TypeOK'
  PROVE  \A b \in (Votes \cup Fails)' :
            b.from \in Node /\ b.position.view \in Nat /\ b.position.seq \in Nat
<1>1. \A b \in Votes' : b \in Ballot
  BY DEF TypeOK, Votes
<1>2. \A m \in Fails' : m.from \in Node /\ m.position \in Position
  BY Content DEF TypeOK, Fails
<1> QED
  BY <1>1, <1>2 DEF Ballot, Position

\* Every vote there is after a step was there before, or is the node's own.
LEMMA NewVotes ==
  ASSUME TypeOK, TypeOK', NEW x, NEW n \in Node, Moves(x, n)
  PROVE  /\ \A b \in Votes' \ Votes : Own(x, n, b)
         /\ Fails \subseteq Fails'
         /\ \A m \in Fails' \ Fails : m.from = n /\ (n # x => Gives(n, m))
<1>1. Fails \subseteq Fails' /\ \A m \in Fails' \ Fails : m.from = n /\ (n # x => Gives(n, m))
  BY DEF Moves, Fails
<1>2. ASSUME NEW b \in Votes', b \notin Votes PROVE Own(x, n, b)
  <2>1. CASE \E t \in timeouts' : b = t.vote
    <3>1. PICK t \in timeouts' : b = t.vote
      BY <2>1
    <3>2. t \notin timeouts
      BY <1>2, <3>1 DEF Votes
    <3> QED
      BY <3>1, <3>2 DEF Moves, Sends, Counts
  <2>2. CASE \E q \in Node : b \in ballots'[q]
    <3>1. PICK q \in Node : b \in ballots'[q]
      BY <2>2
    <3>2. b \notin ballots[q] /\ \A t \in timeouts : t.vote # b
      BY <1>2 DEF Votes
    <3>3. q = n
      BY <3>1, <3>2 DEF Moves, Rest
    <3> QED
      BY <3>1, <3>2, <3>3 DEF Moves, Sends, Counts
  <2> QED
    BY <1>2, <2>1, <2>2 DEF Votes
<1> QED
  BY <1>1, <1>2

\* What is done stays done.
LEMMA DoneStays ==
  ASSUME TypeOK, TypeOK', NEW x, NEW n \in Node, Moves(x, n),
         NEW q \in Node, NEW w \in Nat
  PROVE  /\ q # x => view[q] <= view'[q]
         /\ q \notin Odd(x, w) => /\ Waits(q, w) => Waits(q, w)'
                                  /\ GaveUp(q, w) => GaveUp(q, w)'
                                  /\ Done(q, w) => Done(q, w)'
<1>1. CASE q = n
  BY <1>1 DEF Moves, Odd, Done
<1>2. CASE q # n
  <2>1. view'[q] = view[q] /\ stage'[q] = stage[q] /\ view[q] \in Nat
    BY <1>2 DEF Moves, Rest, TypeOK
  <2> QED
    BY <2>1 DEF Done, Waits, GaveUp
<1> QED
  BY <1>1, <1>2

\* A node that votes now says of itself what its earlier votes say.
LEMMA FreshSaid ==
  ASSUME TypeOK, NEW x, NEW n \in Node, n # x, NEW W \in Nat, Views(x, W),
         NEW b, b.from = n, b.position.view = view[n], b.position.seq = seq[n]
  PROVE  SaidAt(b, W)
<1>1. BoundAt(n, W) /\ LagAt(x, n, W)
  BY DEF Views, NodeInv
<1>2. view[n] \in Nat /\ seq[n] \in Nat
  BY DEF TypeOK
<1>3. ASSUME seq[n] > HighWaterLine(view[n])
      PROVE \E u \in 0 .. W : view[n] + 2 <= u /\ InRange(seq[n], u)
  <2>1. PICK u \in 0 .. W : InRange(seq[n], u) /\ Leader(u) = Leader(view[n])
    BY <1>1, <1>3 DEF LagAt
  <2>2. view[n] < u
    <3> SUFFICES ASSUME u <= view[n] PROVE FALSE
      BY <1>2
    <3>1. HighWaterLine(u) <= HighWaterLine(view[n]) /\ HighWaterLine(u) \in Nat
          /\ HighWaterLine(view[n]) \in Nat
      BY <1>2, WaterRises, WaterLines
    <3> QED
      BY <1>2, <1>3, <2>1, <3>1 DEF InRange
  <2>3. view[n] + 2 <= u
    BY <1>2, <2>1, <2>2, SameLeader
  <2> QED
    BY <2>1, <2>3
<1> QED
  BY <1>1, <1>2, <1>3 DEF SaidAt, BoundAt

\* What a vote says of its voter stays true of it.
LEMMA SaidKept ==
  ASSUME TypeOK, TypeOK', NEW x, NEW n \in Node, Moves(x, n),
         NEW W \in Nat, NEW V \in Nat, W <= V, Views(x, W)
  PROVE  Said(x, V)' /\ HighVotes(x)'
<1>1. HighWaterLine(W) <= HighWaterLine(V) /\ HighWaterLine(W) \in Nat /\ HighWaterLine(V) \in Nat
  BY WaterRises, WaterLines
<1>2. ASSUME NEW b \in (Votes \cup Fails)', b.from # x PROVE SaidAt(b, V)'
  <2>1. b.from \in Node /\ b.position.view \in Nat /\ b.position.seq \in Nat
    BY <1>2, VoteTypesNext
  <2>2. CASE b \in Votes \cup Fails
    <3>1. SaidAt(b, W)
      BY <1>2, <2>2 DEF Views, VoteInv, Said
    <3>2. view[b.from] <= view'[b.from]
      BY <1>2, <2>1, DoneStays, 0 \in Nat
    <3>3. b.position.view <= view'[b.from] /\ b.position.seq <= HighWaterLine(V)
      <4>1. view[b.from] \in Nat /\ view'[b.from] \in Nat
        BY <2>1 DEF TypeOK
      <4> QED
        BY <1>1, <2>1, <3>1, <3>2, <4>1 DEF SaidAt
    <3>4. ASSUME b.position.seq > HighWaterLine(b.position.view)
          PROVE \E u \in 0 .. V : b.position.view + 2 <= u /\ InRange(b.position.seq, u)
      BY <3>1, <3>4 DEF SaidAt
    <3> QED
      BY <3>3, <3>4 DEF SaidAt
  <2>3. CASE b \notin Votes \cup Fails
    <3>1. /\ b.from = n /\ b.position.view = view[n] /\ b.position.seq = seq[n] /\ n # x
          /\ view[n] <= view'[n]
      BY <1>2, <2>3, NewVotes DEF Own, Casts, Gives, Moves
    <3>2. SaidAt(b, W)
      BY <2>1, <3>1, FreshSaid
    <3>3. b.position.view <= view'[b.from] /\ b.position.seq <= HighWaterLine(V)
      <4>1. view[n] \in Nat /\ view'[n] \in Nat
        BY DEF TypeOK
      <4> QED
        BY <1>1, <2>1, <3>1, <3>2, <4>1 DEF SaidAt
    <3>4. ASSUME b.position.seq > HighWaterLine(b.position.view)
          PROVE \E u \in 0 .. V : b.position.view + 2 <= u /\ InRange(b.position.seq, u)
      BY <3>2, <3>4 DEF SaidAt
    <3> QED
      BY <3>3, <3>4 DEF SaidAt
  <2> QED
    BY <2>2, <2>3
<1>3. ASSUME NEW b \in Votes', b.from # x
      PROVE HighWaterLine(b.position.view) <= b.position.seq
  <2>1. CASE b \in Votes
    BY <1>3, <2>1 DEF Views, VoteInv, HighVotes
  <2>2. CASE b \notin Votes
    BY <1>3, <2>2, NewVotes DEF Own, Casts
  <2> QED
    BY <2>1, <2>2
<1> QED
  BY <1>2, <1>3 DEF Said, HighVotes

\* What a node that is not set back has voted ends its view.
LEMMA NotDoneYet ==
  ASSUME TypeOK, NEW n \in Node
  PROVE  /\ \A b : Casts(n, b) => b.position.view = view[n] /\ ~Done(n, view[n])
         /\ \A m : Gives(n, m) => m.position.view = view[n] /\ ~Done(n, view[n])
  BY DEF Casts, Gives, Done, Waits, GaveUp, TypeOK

\* A vote for the next view, and one on a failed consensus, still end the view.
LEMMA VotesDoneKept ==
  ASSUME TypeOK, TypeOK', NEW x, NEW n \in Node, Moves(x, n), VotesDone(x), FailsDone(x)
  PROVE  VotesDone(x)' /\ FailsDone(x)'
<1>1. ASSUME NEW b \in Votes', b.from \notin Odd(x, b.position.view)
      PROVE  Waits(b.from, b.position.view)'
  <2>1. b.from \in Node /\ b.position.view \in Nat
    BY <1>1, VoteTypesNext
  <2>2. CASE b \in Votes
    BY <1>1, <2>1, <2>2, DoneStays DEF VotesDone
  <2>3. CASE b \notin Votes
    <3>1. b.from = n /\ Casts(n, b)
      BY <1>1, <2>3, NewVotes DEF Own, Odd
    <3> QED
      BY <3>1 DEF Casts, Waits
  <2> QED
    BY <2>2, <2>3
<1>2. ASSUME NEW m \in Fails', m.from \notin Odd(x, m.position.view)
      PROVE  GaveUp(m.from, m.position.view)'
  <2>1. m.from \in Node /\ m.position.view \in Nat
    BY <1>2, VoteTypesNext
  <2>2. CASE m \in Fails
    BY <1>2, <2>1, <2>2, DoneStays DEF FailsDone
  <2>3. CASE m \notin Fails
    <3>1. m.from = n /\ Gives(n, m)
      BY <1>2, <2>3, NewVotes DEF Odd
    <3> QED
      BY <3>1 DEF Gives, GaveUp
  <2> QED
    BY <2>2, <2>3
<1> QED
  BY <1>1, <1>2 DEF VotesDone, FailsDone

\* No node but an odd one votes both for the next view and on a failed consensus.
LEMMA EitherKept ==
  ASSUME TypeOK, TypeOK', NEW x, NEW n \in Node, Moves(x, n), VotesDone(x), FailsDone(x),
         Either(x)
  PROVE  Either(x)'
<1> SUFFICES ASSUME NEW b \in Votes', NEW m \in Fails', b.from = m.from,
                    b.position.view = m.position.view, b.from \notin Odd(x, b.position.view)
             PROVE  FALSE
  BY DEF Either, Odd
<1>1. CASE b \in Votes /\ m \in Fails
  BY <1>1 DEF Either
<1>2. CASE b \in Votes /\ m \notin Fails
  <2>1. b.from = n /\ Gives(n, m)
    BY <1>2, NewVotes DEF Odd
  <2>2. Waits(n, view[n])
    BY <1>2, <2>1, NotDoneYet DEF VotesDone
  <2> QED
    BY <2>1, <2>2, NotDoneYet DEF Done
<1>3. CASE b \notin Votes
  <2>1. b.from = n /\ Casts(n, b)
    BY <1>3, NewVotes DEF Own, Odd
  <2>2. CASE m \in Fails
    <3>1. GaveUp(n, view[n])
      BY <2>1, <2>2, NotDoneYet DEF FailsDone
    <3> QED
      BY <2>1, <3>1, NotDoneYet DEF Done
  <2>3. CASE m \notin Fails
    BY <2>1, <2>3, NewVotes DEF Odd, Casts, Gives
  <2> QED
    BY <2>2, <2>3
<1> QED
  BY <1>1, <1>2, <1>3

\* A node that has cast its vote for a view has not done so before.
LEMMA FirstVote ==
  ASSUME TypeOK, NEW x, NEW n \in Node, VotesDone(x), NEW b, Casts(n, b),
         NEW c \in Votes, c.from = n, c.position.view = b.position.view,
         n \notin Odd(x, c.position.view)
  PROVE  FALSE
<1>1. Waits(n, view[n]) /\ ~Done(n, view[n])
  BY NotDoneYet DEF VotesDone
<1> QED
  BY <1>1 DEF Done

\* A vote for the next view is sent, or counted, once.
LEMMA VoteOnceKept ==
  ASSUME TypeOK, TypeOK', NEW x, NEW n \in Node, Moves(x, n), VotesDone(x), VoteOnce(x)
  PROVE  VoteOnce(x)'
<1>1. ASSUME NEW s \in timeouts', NEW t \in timeouts', SameVote(s.vote, t.vote), s # t
      PROVE  s.vote.from \in Odd(x, s.vote.position.view)
  <2>1. CASE s \in timeouts /\ t \in timeouts
    BY <1>1, <2>1 DEF VoteOnce
  <2>2. CASE s \notin timeouts \/ t \notin timeouts
    <3>1. PICK r : timeouts' = timeouts \cup {r} /\ Own(x, n, r.vote)
      BY <2>2 DEF Moves, Sends, Counts
    <3>2. PICK c \in timeouts : SameVote(c.vote, r.vote) /\ (r = s \/ r = t)
      BY <1>1, <2>2, <3>1 DEF SameVote
    <3>3. c.vote \in Votes
      BY <3>2 DEF Votes
    <3>4. n \in Odd(x, c.vote.position.view)
      <4> SUFFICES ASSUME n \notin Odd(x, c.vote.position.view) PROVE FALSE
        OBVIOUS
      <4>1. Casts(n, r.vote) /\ r.vote.from = n
        BY <3>1 DEF Own, Odd
      <4> QED
        BY <3>2, <3>3, <4>1, FirstVote DEF SameVote
    <3>5. r.vote.from = n
      BY <3>1 DEF Own
    <3> QED
      BY <1>1, <3>2, <3>4, <3>5 DEF SameVote
  <2> QED
    BY <2>1, <2>2
<1>2. ASSUME NEW t \in timeouts', NEW q \in Node, NEW b \in ballots'[q], SameVote(t.vote, b)
      PROVE  b.from \in Odd(x, b.position.view)
  <2>1. CASE t \in timeouts /\ b \in ballots[q]
    BY <1>2, <2>1 DEF VoteOnce
  <2>2. CASE t \notin timeouts
    <3>1. Sends(x, n)
      BY <2>2 DEF Moves, Counts
    <3>2. t.vote.from = n /\ (n # x => Casts(n, t.vote)) /\ b \in ballots[q]
      BY <1>2, <2>2, <3>1 DEF Sends, Own, Moves, Rest
    <3>3. b \in Votes
      BY <3>2 DEF Votes
    <3> QED
      BY <1>2, <3>2, <3>3, FirstVote DEF SameVote, Odd
  <2>3. CASE t \in timeouts /\ b \notin ballots[q]
    <3>1. q = n /\ Counts(x, n)
      BY <2>3 DEF Moves, Rest, Sends
    <3>2. CASE Own(x, n, b)
      <4>1. t.vote \in Votes
        BY <2>3 DEF Votes
      <4> QED
        BY <1>2, <3>2, <4>1, FirstVote DEF SameVote, Odd, Own
    <3>3. CASE \E s \in timeouts \ timeouts' : s.vote = b
      <4>1. PICK s \in timeouts : s \notin timeouts' /\ s.vote = b
        BY <3>3
      <4> QED
        BY <1>2, <2>3, <4>1 DEF VoteOnce, SameVote
    <3> QED
      BY <2>3, <3>1, <3>2, <3>3 DEF Counts
  <2> QED
    BY <2>1, <2>2, <2>3
<1> QED
  BY <1>1, <1>2 DEF VoteOnce

\* A node sends no vote to itself.
LEMMA AbroadKept ==
  ASSUME NEW x, NEW n \in Node, Moves(x, n), Abroad
  PROVE  Abroad'
  BY DEF Abroad, Moves, Sends, Counts

\* What is known of the views that were reached, and of those that ended
LEMMA ReachedKept ==
  ASSUME TypeOK, TypeOK', NEW x, NEW n \in Node, Moves(x, n), NEW w \in Nat,
         Reached(x, w)
  PROVE  Reached(x, w)'
<1>1. PICK Q \in Quorum : \A q \in Q : q # x =>
         /\ w <= view[q] + 1
         /\ \A b \in Votes \cup Fails :
               b.from = q /\ LowWaterLine(w) < b.position.seq => w <= b.position.view + 1
  BY DEF Reached
<1>2. ASSUME NEW q \in Q, q # x PROVE w <= view'[q] + 1 /\ view[q] \in Nat /\ view'[q] \in Nat
  <2>1. q \in Node
    BY DEF Quorum
  <2>2. view[q] \in Nat /\ view'[q] \in Nat /\ view[q] <= view'[q]
    BY <1>2, <2>1, DoneStays, 0 \in Nat DEF TypeOK
  <2> QED
    BY <1>1, <1>2, <2>2
<1>3. ASSUME NEW q \in Q, q # x, NEW b \in (Votes \cup Fails)', b.from = q,
             LowWaterLine(w) < b.position.seq
      PROVE  w <= b.position.view + 1
  <2>1. CASE b \in Votes \cup Fails
    BY <1>1, <1>3, <2>1
  <2>2. CASE b \notin Votes \cup Fails
    <3>1. q = n /\ b.position.view = view[n]
      BY <1>3, <2>2, NewVotes DEF Own, Casts, Gives
    <3> QED
      BY <1>1, <1>3, <3>1
  <2> QED
    BY <2>1, <2>2
<1> QED
  BY <1>2, <1>3 DEF Reached

\* A view that ended has ended.
LEMMA PassedKept ==
  ASSUME TypeOK, TypeOK', NEW x, NEW n \in Node, Moves(x, n), NEW w \in Nat,
         Passed(x, w)
  PROVE  Passed(x, w)'
<1>1. CASE Leader(w + 1) # x /\ w < view[Leader(w + 1)]
  <2>1. Leader(w + 1) \in Node
    BY LeaderIsNode
  <2>2. view[Leader(w + 1)] <= view'[Leader(w + 1)]
    BY <1>1, <2>1, DoneStays, 0 \in Nat
  <2>3. view[Leader(w + 1)] \in Nat /\ view'[Leader(w + 1)] \in Nat
    BY <2>1 DEF TypeOK
  <2> QED
    BY <1>1, <2>2, <2>3 DEF Passed
<1>2. CASE FailQuorum(x, w)
  <2>1. Fails \subseteq Fails'
    BY NewVotes
  <2>2. FailQuorum(x, w)'
    BY <1>2, <2>1 DEF FailQuorum, Failed
  <2> QED
    BY <2>2 DEF Passed
<1> QED
  BY <1>1, <1>2 DEF Passed

\* Who is done with a view does not vote for the next one any more.
LEMMA SpentKept ==
  ASSUME TypeOK, TypeOK', NEW x, NEW n \in Node, Moves(x, n), NEW w \in Nat,
         NEW P \in SUBSET Node, Spent(x, w, P)
  PROVE  Spent(x, w, P)'
<1> SUFFICES ASSUME NEW q \in P, q \notin Odd(x, w) PROVE Done(q, w)' /\ ~InFlight(q, w)'
  BY DEF Spent
<1>1. Done(q, w) /\ ~InFlight(q, w) /\ q \in Node
  BY DEF Spent
<1>2. Done(q, w)'
  BY <1>1, DoneStays
<1>3. ASSUME InFlight(q, w)' PROVE FALSE
  <2>1. PICK t \in timeouts' : t.vote.from = q /\ t.vote.position.view = w
    BY <1>3 DEF InFlight
  <2>2. t \notin timeouts
    BY <1>1, <2>1 DEF InFlight
  <2>3. Own(x, n, t.vote)
    BY <2>1, <2>2 DEF Moves, Sends, Counts
  <2>4. q = n /\ Casts(n, t.vote)
    BY <2>1, <2>3 DEF Own, Odd
  <2> QED
    BY <1>1, <2>1, <2>4, NotDoneYet
<1> QED
  BY <1>2, <1>3

\* Nor are the votes of those who are done with a view counted again.
LEMMA UnheldKept ==
  ASSUME TypeOK, TypeOK', NEW x, NEW n \in Node, Moves(x, n), NEW w \in Nat,
         NEW P \in SUBSET Node, Spent(x, w, P), NEW h \in Node, Unheld(x, h, w, P)
  PROVE  Unheld(x, h, w, P)'
<1> SUFFICES ASSUME NEW q \in P, q \notin Odd(x, w), NEW b \in ballots'[h], b.from = q,
                    b.position.view = w
             PROVE FALSE
  BY DEF Unheld, Counted
<1>1. Done(q, w) /\ ~InFlight(q, w)
  BY DEF Spent
<1>2. b \notin ballots[h]
  BY DEF Unheld, Counted
<1>3. h = n /\ Counts(x, n)
  BY <1>2 DEF Moves, Rest, Sends
<1>4. CASE Own(x, n, b)
  <2>1. q = n /\ Casts(n, b)
    BY <1>4 DEF Own, Odd
  <2> QED
    BY <1>1, <2>1, NotDoneYet
<1>5. CASE \E t \in timeouts \ timeouts' : t.vote = b
  BY <1>1, <1>5 DEF InFlight
<1> QED
  BY <1>2, <1>3, <1>4, <1>5 DEF Counts

\* So a node that is blocked for a view stays blocked.
LEMMA BlockedKept ==
  ASSUME TypeOK, TypeOK', NEW x, NEW n \in Node, Moves(x, n), NEW w \in Nat,
         NEW h \in Node, Blocked(x, h, w)
  PROVE  Blocked(x, h, w)'
<1>1. PICK P : Wall(h, P) /\ Spent(x, w, P) /\ Unheld(x, h, w, P)
  BY DEF Blocked
<1>2. P \in SUBSET Node
  BY <1>1 DEF Wall, Quorum
<1>3. Spent(x, w, P)' /\ Unheld(x, h, w, P)'
  BY <1>1, <1>2, SpentKept, UnheldKept
<1> QED
  BY <1>1, <1>3 DEF Blocked

\* In its view the leader stays without a second count, or begins the view.
LEMMA EntrySame ==
  ASSUME TypeOK, TypeOK', NEW x, NEW n \in Node, Moves(x, n), NEW h \in Node,
         EntryAt(x, h), view'[h] = view[h],
         newView[h] => \/ ballots'[h] = {}
                       \/ newView'[h] /\ \A w \in Nat : Counted(h, h, w) => Counted(h, h, w)'
  PROVE  EntryAt(x, h)'
<1> SUFFICES ASSUME h # x, NEW w \in Nat, view[h] = w + 1, Leader(w + 1) = h
             PROVE  \E Q \in Quorum : Entry(x, h, w, Q)'
  BY DEF EntryAt
<1>1. PICK Q \in Quorum : Entry(x, h, w, Q)
  BY DEF EntryAt
<1>2. Q \in SUBSET Node
  BY DEF Quorum
<1>3. Spent(x, w, Q)'
  BY <1>1, <1>2, SpentKept DEF Entry
<1>4. CASE Unheld(x, h, w, Q)
  <2>1. Unheld(x, h, w, Q)'
    BY <1>1, <1>2, <1>4, UnheldKept DEF Entry
  <2> QED
    BY <1>3, <2>1 DEF Entry
<1>5. CASE newView[h] /\ (h \in Q => Counted(h, h, w))
  <2>1. CASE ballots'[h] = {}
    <3>1. Unheld(x, h, w, Q)'
      BY <2>1 DEF Unheld, Counted
    <3> QED
      BY <1>3, <3>1 DEF Entry
  <2>2. CASE newView'[h] /\ \A z \in Nat : Counted(h, h, z) => Counted(h, h, z)'
    BY <1>3, <1>5, <2>2 DEF Entry
  <2> QED
    BY <1>5, <2>1, <2>2
<1> QED
  BY <1>1, <1>4, <1>5 DEF Entry

\* The same for the views before the one it is in
LEMMA BlockedSame ==
  ASSUME TypeOK, TypeOK', NEW x, NEW n \in Node, Moves(x, n), NEW h \in Node,
         BlockedAt(x, h), view'[h] = view[h]
  PROVE  BlockedAt(x, h)'
<1> SUFFICES ASSUME h # x, NEW w \in Nat, w + 1 < view[h], Leader(w + 1) = h
             PROVE  Blocked(x, h, w)'
  BY DEF BlockedAt
<1> QED
  BY BlockedKept DEF BlockedAt

\* A node that does not move lags behind its view no less when the latest view is a later one.
LEMMA LagMore ==
  ASSUME NEW x, NEW q \in Node, NEW W \in Nat, NEW V \in Nat, W <= V,
         seq'[q] = seq[q], view'[q] = view[q], LagAt(x, q, W)
  PROVE  LagAt(x, q, V)'
<1>1. 0 .. W \subseteq 0 .. V
  OBVIOUS
<1> QED
  BY <1>1 DEF LagAt

\* The bound on view, sequence number and answers when the latest view is a later one
LEMMA BoundMore ==
  ASSUME TypeOK, TypeOK', NEW q \in Node, NEW W \in Nat, NEW V \in Nat, W <= V,
         BoundAt(q, W), answers'[q] \subseteq answers[q],
         seq'[q] <= seq[q] \/ seq'[q] <= HighWaterLine(V), view'[q] <= V
  PROVE  BoundAt(q, V)'
<1>1. HighWaterLine(W) <= HighWaterLine(V) /\ HighWaterLine(W) \in Nat /\ HighWaterLine(V) \in Nat
  BY WaterRises, WaterLines
<1>2. seq'[q] \in Nat /\ seq[q] \in Nat /\ view'[q] \in Nat
  BY DEF TypeOK
<1>3. \A a \in answers[q] : a.position.view \in Nat /\ a.position.seq \in Nat
  <2>1. \A a \in answers[q] : a \in Ballot
    BY DEF TypeOK
  <2> QED
    BY <2>1 DEF Ballot, Position
<1>4. seq'[q] <= HighWaterLine(V)
  BY <1>1, <1>2 DEF BoundAt
<1>5. \A a \in answers'[q] : a.position.view <= V /\ a.position.seq <= HighWaterLine(V)
  <2> SUFFICES ASSUME NEW a \in answers'[q]
               PROVE  a.position.view <= V /\ a.position.seq <= HighWaterLine(V)
    OBVIOUS
  <2>1. /\ a.position.view \in Nat /\ a.position.seq \in Nat
        /\ a.position.view <= W /\ a.position.seq <= HighWaterLine(W)
    BY <1>3 DEF BoundAt
  <2> QED
    BY <1>1, <2>1
<1> QED
  BY <1>4, <1>5 DEF BoundAt

\* The other nodes
LEMMA OthersKept ==
  ASSUME TypeOK, TypeOK', NEW x, NEW n \in Node, Moves(x, n),
         NEW W \in Nat, NEW V \in Nat, W <= V, NEW q \in Node \ {n}, NodeInv(x, q, W)
  PROVE  NodeInv(x, q, V)'
<1>1. /\ view'[q] = view[q] /\ seq'[q] = seq[q] /\ mode'[q] = mode[q]
      /\ stage'[q] = stage[q] /\ newView'[q] = newView[q]
      /\ ballots'[q] = ballots[q] /\ answers'[q] = answers[q] /\ cand'[q] = cand[q]
  BY DEF Moves, Rest
<1>2. CalmAt(x, q)' /\ RoundedAt(x, q)' /\ OwnAt(x, q)' /\ OnceAt(q)'
  BY <1>1 DEF NodeInv, CalmAt, RoundedAt, OwnAt, OnceAt
<1>3. LagAt(x, q, V)'
  BY <1>1, LagMore DEF NodeInv
<1>4. BoundAt(q, V)'
  <2>1. view[q] <= W /\ view[q] \in Nat /\ seq[q] \in Nat
    BY DEF NodeInv, BoundAt, TypeOK
  <2> QED
    BY <1>1, <2>1, BoundMore DEF NodeInv
<1>5. EntryAt(x, q)'
  <2>1. \A w \in Nat : Counted(q, q, w)' = Counted(q, q, w)
    BY <1>1 DEF Counted
  <2> QED
    BY <1>1, <2>1, EntrySame DEF NodeInv
<1>6. BlockedAt(x, q)'
  BY <1>1, BlockedSame DEF NodeInv
<1> QED
  BY <1>2, <1>3, <1>4, <1>5, <1>6 DEF NodeInv

-----------------------------------------------------------------------------
(* What a quorum says of a view *)

\* q votes, or has voted, for the view after that of p.
Voter(n, q, p) ==
    \E b : /\ b.from = q /\ b.position = p
           /\ b \in Votes \/ (q = n /\ Casts(n, b))

\* What a vote says, and the voter's view: the vote may be the one it casts in this step.
LEMMA VoterSays ==
  ASSUME TypeOK, NEW x, NEW n \in Node, NEW W \in Nat, Views(x, W),
         NEW p \in Position, NEW q \in Node \ {x}, Voter(n, q, p)
  PROVE  /\ p.view <= view[q] /\ view[q] <= W /\ p.seq <= HighWaterLine(W)
         /\ HighWaterLine(p.view) <= p.seq
         /\ p.seq > HighWaterLine(p.view) => \E u \in 0 .. W : p.view + 2 <= u /\ InRange(p.seq, u)
<1>1. PICK b : b.from = q /\ b.position = p /\ (b \in Votes \/ (q = n /\ Casts(n, b)))
  BY DEF Voter
<1>2. SaidAt(b, W) /\ HighWaterLine(p.view) <= p.seq
  <2>1. CASE b \in Votes
    BY <1>1, <2>1 DEF Views, VoteInv, Said, HighVotes
  <2>2. CASE q = n /\ Casts(n, b)
    BY <1>1, <2>2, FreshSaid DEF Casts
  <2> QED
    BY <1>1, <2>1, <2>2
<1>3. view[q] <= W
  BY DEF Views, NodeInv, BoundAt
<1> QED
  BY <1>1, <1>2, <1>3 DEF SaidAt

\* A node in a view W whose votes for the view are all below the next one's
\* first sequence number
LEMMA ReachedNext ==
  ASSUME TypeOK, NEW x, NEW W \in Nat, Views(x, W), NEW A \in Quorum,
         \A q \in A : q # x => W <= view[q]
  PROVE  Reached(x, W + 1)
<1>1. \A q \in A : q # x => W + 1 <= view[q] + 1
  <2> TAKE q \in A
  <2>1. q \in Node /\ view[q] \in Nat
    BY DEF Quorum, TypeOK
  <2> QED
    BY <2>1
<1>2. ASSUME NEW b \in Votes \cup Fails, b.from # x PROVE ~(LowWaterLine(W + 1) < b.position.seq)
  <2>1. b.position.seq <= HighWaterLine(W) /\ b.position.seq \in Nat
    BY <1>2, VoteTypes DEF Views, VoteInv, Said, SaidAt
  <2>2. LowWaterLine(W + 1) = HighWaterLine(W) /\ HighWaterLine(W) \in Nat
    BY WaterMeets, WaterLines
  <2> QED
    BY <2>1, <2>2
<1> QED
  BY <1>1, <1>2 DEF Reached

\* A quorum of votes for the view after that of p
LEMMA VoteQuorum ==
  ASSUME TypeOK, NEW x, Enough(x), NEW n \in Node, NEW W \in Nat, Views(x, W),
         NEW p \in Position, NEW A \in Quorum, \A q \in A : q # x => Voter(n, q, p)
  PROVE  /\ p.view <= W /\ p.seq = HighWaterLine(p.view)
         /\ ~FailQuorum(x, p.view)
         /\ p.view = W => Reached(x, W + 1)
<1>1. p.view \in Nat /\ p.seq \in Nat /\ HighWaterLine(p.view) \in Nat
  BY WaterLines DEF Position
<1>2. \A q \in A : q # x =>
         /\ p.view <= view[q] /\ view[q] <= W /\ p.seq <= HighWaterLine(W)
         /\ HighWaterLine(p.view) <= p.seq
         /\ p.seq > HighWaterLine(p.view) => \E u \in 0 .. W : p.view + 2 <= u /\ InRange(p.seq, u)
  BY VoterSays DEF Quorum
<1>3. PICK r \in A : r # x
  BY QuorumsMeet
<1>4. r \in Node /\ view[r] \in Nat
  BY DEF Quorum, TypeOK
<1>5. p.view <= W
  BY <1>1, <1>2, <1>3, <1>4
<1>6. p.seq = HighWaterLine(p.view)
  <2> SUFFICES ASSUME p.seq > HighWaterLine(p.view) PROVE FALSE
    BY <1>1, <1>2, <1>3
  <2>1. PICK u \in 0 .. W : p.view + 2 <= u /\ InRange(p.seq, u)
    BY <1>2, <1>3
  <2>2. Reached(x, u)
    BY <1>1, <2>1 DEF Views, VoteInv
  <2>3. PICK B \in Quorum : \A q \in B : q # x =>
           /\ u <= view[q] + 1
           /\ \A b \in Votes \cup Fails :
                 b.from = q /\ LowWaterLine(u) < b.position.seq => u <= b.position.view + 1
    BY <2>2 DEF Reached
  <2>4. PICK q \in A \cap B : q # x
    BY QuorumsMeet
  <2>5. PICK b : b.from = q /\ b.position = p /\ (b \in Votes \/ (q = n /\ Casts(n, b)))
    BY <2>4 DEF Voter
  <2>6. u <= p.view + 1
    <3>1. CASE b \in Votes
      BY <2>1, <2>3, <2>4, <2>5, <3>1 DEF InRange
    <3>2. CASE q = n /\ Casts(n, b)
      BY <2>3, <2>4, <2>5, <3>2 DEF Casts
    <3> QED
      BY <2>5, <3>1, <3>2
  <2> QED
    BY <1>1, <2>1, <2>6
<1>7. ASSUME FailQuorum(x, p.view) PROVE FALSE
  <2>1. PICK B \in Quorum : \A q \in B : q \notin Odd(x, p.view) => Failed(q, p.view)
    BY <1>7 DEF FailQuorum
  <2>2. PICK q \in A \cap B : q # x /\ q # Leader(p.view)
    BY QuorumsMeet
  <2>3. PICK m \in Fails : m.from = q /\ m.position.view = p.view
    BY <2>1, <2>2 DEF Odd, Failed
  <2>4. PICK b : b.from = q /\ b.position = p /\ (b \in Votes \/ (q = n /\ Casts(n, b)))
    BY <2>2 DEF Voter
  <2>5. q \notin Odd(x, p.view)
    BY <2>2 DEF Odd
  <2>6. CASE b \in Votes
    BY <2>3, <2>4, <2>5, <2>6 DEF Views, VoteInv, Either
  <2>7. CASE q = n /\ Casts(n, b)
    <3>1. GaveUp(q, p.view)
      BY <2>3, <2>5 DEF Views, VoteInv, FailsDone
    <3> QED
      BY <2>4, <2>7, <3>1, NotDoneYet DEF Done
  <2> QED
    BY <2>4, <2>6, <2>7
<1>8. p.view = W => Reached(x, W + 1)
  BY <1>2, ReachedNext
<1> QED
  BY <1>5, <1>6, <1>7, <1>8

\* A quorum whose consensus failed at p
LEMMA FailedQuorum ==
  ASSUME TypeOK, NEW x, Enough(x), NEW W \in Nat, Views(x, W),
         NEW p \in Position, NEW A \in Quorum,
         \A q \in A : \E m \in Fails : m.from = q /\ m.position = p
  PROVE  /\ p.view <= W /\ p.seq <= HighWaterLine(p.view)
         /\ FailQuorum(x, p.view)
         /\ p.view = W => Reached(x, W + 1)
<1>1. p.view \in Nat /\ p.seq \in Nat /\ HighWaterLine(p.view) \in Nat
  BY WaterLines DEF Position
<1>2. \A q \in A : q # x =>
         /\ p.view <= view[q] /\ view[q] <= W
         /\ p.seq > HighWaterLine(p.view) => \E u \in 0 .. W : p.view + 2 <= u /\ InRange(p.seq, u)
  <2> TAKE q \in A
  <2> HAVE q # x
  <2>1. PICK m \in Fails : m.from = q /\ m.position = p
    OBVIOUS
  <2>2. SaidAt(m, W)
    BY <2>1 DEF Views, VoteInv, Said
  <2>3. view[q] <= W
    BY DEF Views, NodeInv, BoundAt, Quorum
  <2> QED
    BY <2>1, <2>2, <2>3 DEF SaidAt
<1>3. PICK r \in A : r # x
  BY QuorumsMeet
<1>4. r \in Node /\ view[r] \in Nat
  BY DEF Quorum, TypeOK
<1>5. p.view <= W
  BY <1>1, <1>2, <1>3, <1>4
<1>6. p.seq <= HighWaterLine(p.view)
  <2> SUFFICES ASSUME p.seq > HighWaterLine(p.view) PROVE FALSE
    BY <1>1
  <2>1. PICK u \in 0 .. W : p.view + 2 <= u /\ InRange(p.seq, u)
    BY <1>2, <1>3
  <2>2. Reached(x, u)
    BY <1>1, <2>1 DEF Views, VoteInv
  <2>3. PICK B \in Quorum : \A q \in B : q # x =>
           /\ u <= view[q] + 1
           /\ \A b \in Votes \cup Fails :
                 b.from = q /\ LowWaterLine(u) < b.position.seq => u <= b.position.view + 1
    BY <2>2 DEF Reached
  <2>4. PICK q \in A \cap B : q # x
    BY QuorumsMeet
  <2>5. PICK m \in Fails : m.from = q /\ m.position = p
    BY <2>4
  <2>6. u <= p.view + 1
    BY <2>1, <2>3, <2>4, <2>5 DEF InRange
  <2> QED
    BY <1>1, <2>1, <2>6
<1>7. FailQuorum(x, p.view)
  BY DEF FailQuorum, Failed
<1>8. p.view = W => Reached(x, W + 1)
  BY <1>2, ReachedNext
<1> QED
  BY <1>5, <1>6, <1>7, <1>8

\* Who failed does not vote.
LEMMA FailedSpent ==
  ASSUME TypeOK, NEW x, NEW w \in Nat, NEW Q \in Quorum,
         \A q \in Q : q \notin Odd(x, w) => Failed(q, w),
         FailsDone(x), Either(x)
  PROVE  Spent(x, w, Q) /\ \A h \in Node : Unheld(x, h, w, Q)
<1> SUFFICES ASSUME NEW q \in Q, q \notin Odd(x, w)
             PROVE  Done(q, w) /\ ~InFlight(q, w) /\ \A h \in Node : ~Counted(h, q, w)
  BY DEF Spent, Unheld
<1>1. PICK m \in Fails : m.from = q /\ m.position.view = w
  BY DEF Failed
<1>2. GaveUp(q, w)
  BY <1>1 DEF FailsDone
<1>3. \A b \in Votes : ~(b.from = q /\ b.position.view = w)
  BY <1>1 DEF Either
<1> QED
  BY <1>2, <1>3 DEF Done, InFlight, Counted, Votes

-----------------------------------------------------------------------------
(* Entering a view *)

\* A step of node n that the invariant survives: W is the latest view before it, V after it.
Advances(x, n, W, V) ==
    /\ Moves(x, n)
    /\ NodeInv(x, n, V)'
    /\ \A m \in msgs' \ msgs : MessageIn(m, V)
    /\ V = W \/ (V = W + 1 /\ Reached(x, V) /\ Passed(x, W)')

\* No node enters a view led by n behind its back, but when a quorum failed; so n is
\* blocked for all views it leaves or skips, if it is for the one it leads.
LEMMA BlockedEntering ==
  ASSUME TypeOK, TypeOK', NEW x, NEW n \in Node, n # x, Moves(x, n),
         NEW W \in Nat, Views(x, W), view'[n] <= W + 1,
         \A w \in Nat, Q \in Quorum :
             /\ view[n] = w + 1 /\ w + 1 < view'[n] /\ Leader(w + 1) = n
             /\ Spent(x, w, Q)' /\ newView[n] /\ (n \in Q => Counted(n, n, w))
             => Blocked(x, n, w)'
  PROVE  BlockedAt(x, n)'
<1> SUFFICES ASSUME NEW w \in Nat, w + 1 < view'[n], Leader(w + 1) = n PROVE Blocked(x, n, w)'
  BY DEF BlockedAt
<1>1. view[n] \in Nat /\ view'[n] \in Nat
  BY DEF TypeOK
<1>2. CASE w + 1 < view[n]
  <2>1. Blocked(x, n, w)
    BY <1>2 DEF Views, NodeInv, BlockedAt
  <2> QED
    BY <2>1, BlockedKept
<1>3. CASE view[n] = w + 1
  <2>1. PICK Q \in Quorum : Entry(x, n, w, Q)
    BY <1>3 DEF Views, NodeInv, EntryAt
  <2>2. Q \in SUBSET Node /\ Wall(n, Q)
    BY DEF Quorum, Wall
  <2>3. Spent(x, w, Q)'
    BY <2>1, <2>2, SpentKept DEF Entry
  <2>4. CASE Unheld(x, n, w, Q)
    <3>1. Unheld(x, n, w, Q)'
      BY <2>1, <2>2, <2>4, UnheldKept DEF Entry
    <3> QED
      BY <2>2, <2>3, <3>1 DEF Blocked
  <2>5. CASE ~Unheld(x, n, w, Q)
    BY <1>3, <2>1, <2>3, <2>5 DEF Entry
  <2> QED
    BY <2>4, <2>5
<1>4. CASE view[n] < w + 1
  <2>1. w < W /\ ~(w < view[n])
    BY <1>1, <1>4
  <2>2. FailQuorum(x, w)
    BY <2>1 DEF Views, VoteInv, Passed
  <2>3. PICK Q \in Quorum : \A q \in Q : q \notin Odd(x, w) => Failed(q, w)
    BY <2>2 DEF FailQuorum
  <2>4. Spent(x, w, Q) /\ Unheld(x, n, w, Q)
    BY <2>3, FailedSpent DEF Views, VoteInv
  <2>5. Wall(n, Q)
    BY DEF Wall
  <2>6. Blocked(x, n, w)
    BY <2>4, <2>5 DEF Blocked
  <2> QED
    BY <2>6, BlockedKept
<1> QED
  BY <1>1, <1>2, <1>3, <1>4

\* With no ballot left nothing is held.
LEMMA BlockedEmptied ==
  ASSUME TypeOK, TypeOK', NEW x, NEW n \in Node, n # x, Moves(x, n),
         NEW W \in Nat, Views(x, W), view'[n] <= W + 1, ballots'[n] = {}
  PROVE  BlockedAt(x, n)'
<1>1. ASSUME NEW w \in Nat, NEW Q \in Quorum, Spent(x, w, Q)' PROVE Blocked(x, n, w)'
  <2>1. Wall(n, Q) /\ Unheld(x, n, w, Q)'
    BY DEF Wall, Unheld, Counted
  <2> QED
    BY <1>1, <2>1 DEF Blocked
<1> QED
  BY <1>1, BlockedEntering

-----------------------------------------------------------------------------
(* Counting a vote *)

\* What a count does, its cases apart
Latest(n, b) == {y \in ballots[n] : y.from # b.from} \cup {b}
CountOf(n, b) == {y.from : y \in SamePosition(Latest(n, b), b)}
Full(n, b) == CountOf(n, b) \in Quorum

\* The cases of a count: whether it completes a quorum, and whether a new view is under way
LEMMA TallyEffect ==
  ASSUME TypeOK, NEW n \in Node, NEW b \in Ballot, NEW m, Tally(n, b, m)
  PROVE  /\ ballots'[n] = Latest(n, b)
         /\ Full(n, b) => /\ view'[n] = b.position.view + 1
                          /\ seq'[n] = LowWaterLine(b.position.view + 1)
         /\ ~Full(n, b) => view'[n] = view[n] /\ seq'[n] = seq[n]
         /\ Full(n, b) /\ ~newView[n] => /\ newView'[n] = TRUE /\ mode'[n] = "newView"
                                         /\ msgs' = msgs \cup {NewViewMsg(n, b.position)}
         /\ ~(Full(n, b) /\ ~newView[n]) => /\ newView'[n] = newView[n] /\ mode'[n] = m
                                            /\ msgs' = msgs
         /\ \A q \in Node \ {n} :
               /\ view'[q] = view[q] /\ seq'[q] = seq[q] /\ ballots'[q] = ballots[q]
               /\ newView'[q] = newView[q] /\ mode'[q] = mode[q]
<1> DEFINE latest  == {x \in ballots[n] : x.from # b.from} \cup {b}
           reached == {x.from : x \in SamePosition(latest, b)} \in Quorum
<1>1. /\ ballots' = [ballots EXCEPT ![n] = latest]
      /\ IF reached THEN EnterView(n, NextView(b.position)) ELSE UNCHANGED position
      /\ IF reached /\ ~newView[n]
           THEN /\ newView' = [newView EXCEPT ![n] = TRUE]
                /\ mode' = [mode EXCEPT ![n] = "newView"]
                /\ Broadcast(NewViewMsg(n, b.position))
           ELSE /\ mode' = [mode EXCEPT ![n] = m]
                /\ UNCHANGED <<newView, msgs>>
  BY Zenon DEF Tally
<1>2. latest = Latest(n, b) /\ (reached <=> Full(n, b))
  BY DEF Latest, Full, CountOf
<1> HIDE DEF latest, reached
<1>3. /\ Full(n, b) => view' = [view EXCEPT ![n] = b.position.view + 1]
                       /\ seq' = [seq EXCEPT ![n] = LowWaterLine(b.position.view + 1)]
      /\ ~Full(n, b) => view' = view /\ seq' = seq
  BY <1>1, <1>2 DEF EnterView, MoveTo, NextView, position
<1>4. /\ Full(n, b) /\ ~newView[n] => /\ newView' = [newView EXCEPT ![n] = TRUE]
                                      /\ mode' = [mode EXCEPT ![n] = "newView"]
                                      /\ msgs' = msgs \cup {NewViewMsg(n, b.position)}
      /\ ~(Full(n, b) /\ ~newView[n]) => /\ newView' = newView /\ msgs' = msgs
                                         /\ mode' = [mode EXCEPT ![n] = m]
  BY <1>1, <1>2 DEF Broadcast
<1>5. ballots' = [ballots EXCEPT ![n] = Latest(n, b)]
  BY <1>1, <1>2
<1>6. \A q \in Node \ {n} : view'[q] = view[q] /\ seq'[q] = seq[q]
  BY <1>3 DEF TypeOK
<1>7. \A q \in Node \ {n} : newView'[q] = newView[q] /\ mode'[q] = mode[q]
  BY <1>4 DEF TypeOK
<1>8. ballots'[n] = Latest(n, b) /\ \A q \in Node \ {n} : ballots'[q] = ballots[q]
  BY <1>5 DEF TypeOK
<1>9. /\ Full(n, b) => /\ view'[n] = b.position.view + 1
                       /\ seq'[n] = LowWaterLine(b.position.view + 1)
      /\ ~Full(n, b) => view'[n] = view[n] /\ seq'[n] = seq[n]
  BY <1>3 DEF TypeOK
<1>10. /\ Full(n, b) /\ ~newView[n] => newView'[n] = TRUE /\ mode'[n] = "newView"
       /\ ~(Full(n, b) /\ ~newView[n]) => newView'[n] = newView[n] /\ mode'[n] = m
  BY <1>4 DEF TypeOK
<1> QED
  BY <1>4, <1>6, <1>7, <1>8, <1>9, <1>10

\* The circumstances of a count: b is the node's own vote or one it has received.
Tallying(x, n, b, m) ==
    /\ Tally(n, b, m) /\ LedBy(b, n)
    /\ mode[n] = "consensus" /\ m \in {"consensus", "fetchChain"}
    /\ n # x => m = "consensus"
    /\ stage'[n] \in {stage[n], "waitView"}
    /\ stage'[n] \in {"collect", "propose"} => m = "consensus"
    /\ \/ timeouts' = timeouts /\ Own(x, n, b) /\ (n # x => stage'[n] = "waitView")
       \/ /\ stage'[n] = stage[n]
          /\ \E t \in timeouts : t.to = n /\ t.vote = b /\ timeouts' = timeouts \ {t}
    /\ answers' = answers /\ cand' = cand
    /\ \A q \in Node \ {n} : stage'[q] = stage[q]

\* Who is counted has voted, or votes.
LEMMA CountedVoters ==
  ASSUME TypeOK, NEW x, NEW n \in Node, NEW b \in Ballot, NEW m, Tallying(x, n, b, m)
  PROVE  /\ \A q \in CountOf(n, b) :
               /\ \E y \in Latest(n, b) : y.from = q /\ y.position = b.position
               /\ q # x => Voter(n, q, b.position)
         /\ b.from = n /\ n # x /\ b \notin Votes => Casts(n, b) /\ stage'[n] = "waitView"
<1>1. b \in Votes \/ (timeouts' = timeouts /\ Own(x, n, b) /\ (n # x => stage'[n] = "waitView"))
  BY DEF Tallying, Votes
<1>2. \A y \in Latest(n, b) : y = b \/ y \in Votes
  BY DEF Latest, Votes
<1>3. ASSUME NEW q \in CountOf(n, b)
      PROVE  /\ \E y \in Latest(n, b) : y.from = q /\ y.position = b.position
             /\ q # x => Voter(n, q, b.position)
  <2>1. PICK y \in Latest(n, b) : y.from = q /\ y.position = b.position
    BY DEF CountOf, SamePosition
  <2>2. CASE y \in Votes
    BY <2>1, <2>2 DEF Voter
  <2>3. CASE y \notin Votes
    BY <1>1, <1>2, <2>1, <2>3 DEF Voter, Own
  <2> QED
    BY <2>1, <2>2, <2>3
<1> QED
  BY <1>1, <1>3 DEF Own

\* A node that counts votes has its own among them only if it waits in the view
\* they are for, and no new view is under way then.
LEMMA OwnCounted ==
  ASSUME TypeOK, NEW x, NEW n \in Node, n # x, NEW W \in Nat, Views(x, W),
         NEW b \in Ballot, NEW m, Tallying(x, n, b, m),
         NEW y \in Latest(n, b), y.from = n
  PROVE  /\ y.position.view = view[n] /\ ~newView[n] /\ stage'[n] = "waitView"
         /\ y \notin ballots[n] => Casts(n, y)
<1>1. OwnAt(x, n) /\ CalmAt(x, n) /\ Abroad
  BY DEF Views, NodeInv, VoteInv
<1>2. CASE y \in ballots[n]
  BY <1>1, <1>2 DEF OwnAt, Tallying
<1>3. CASE y \notin ballots[n]
  <2>1. y = b
    BY <1>3 DEF Latest
  <2>2. ~ \E t \in timeouts : t.to = n /\ t.vote = b
    BY <1>1, <2>1 DEF Abroad
  <2>3. Casts(n, b) /\ stage'[n] = "waitView"
    BY <2>2 DEF Tallying, Own
  <2>4. b.position.view = view[n] /\ view[n] \in Nat
    BY <2>3 DEF Casts, TypeOK
  <2>5. Leader(view[n] + 1) = n
    BY <2>4 DEF Tallying, LedBy
  <2>6. Leader(view[n]) # n
    BY <2>4, <2>5, LeadersDiffer
  <2> QED
    BY <1>1, <2>1, <2>3, <2>4, <2>6 DEF CalmAt
<1> QED
  BY <1>2, <1>3

\* A vote that is counted now was on its way, or is held already.
LEMMA CountedNow ==
  ASSUME TypeOK, NEW x, NEW n \in Node, n # x, NEW W \in Nat, Views(x, W),
         NEW b \in Ballot, NEW m, Tallying(x, n, b, m),
         NEW y \in Latest(n, b), y.from # n \/ y.position.view # view[n]
  PROVE  \/ InFlight(y.from, y.position.view)
         \/ Counted(n, y.from, y.position.view)
<1>1. CASE y \in ballots[n]
  BY <1>1 DEF Counted
<1>2. CASE y \notin ballots[n]
  <2>1. y = b
    BY <1>2 DEF Latest
  <2>2. \E t \in timeouts : t.vote = b
    BY <2>1, OwnCounted DEF Tallying, Own, Casts
  <2> QED
    BY <2>1, <2>2 DEF InFlight
<1> QED
  BY <1>1, <1>2

\* A full count leads to the next view after the latest one; or the node has begun
\* that view already, and begins it again.
LEMMA FullCount ==
  ASSUME TypeOK, NEW x, Enough(x), NEW n \in Node, NEW W \in Nat, Views(x, W),
         NEW b \in Ballot, NEW m, Tallying(x, n, b, m), Full(n, b)
  PROVE  /\ b.position.view <= W /\ b.position.seq = HighWaterLine(b.position.view)
         /\ b.position.view = W => Reached(x, W + 1)
         /\ n # x => \/ b.position.view = W
                     \/ b.position.view < W /\ view[n] = b.position.view + 1 /\ newView[n]
<1> DEFINE w == b.position.view
           A == CountOf(n, b)
<1>1. A \in Quorum /\ b.position \in Position /\ w \in Nat /\ Leader(w + 1) = n
  BY DEF Full, Ballot, Position, Tallying, LedBy
<1>2. /\ w <= W /\ b.position.seq = HighWaterLine(w)
      /\ ~FailQuorum(x, w)
      /\ w = W => Reached(x, W + 1)
  BY <1>1, CountedVoters, VoteQuorum
<1> HIDE DEF A
<1>3. ASSUME n # x, w < W PROVE view[n] = w + 1 /\ newView[n]
  <2>1. w < view[n] /\ view[n] \in Nat
    BY <1>1, <1>2, <1>3 DEF Views, VoteInv, Passed, TypeOK
  <2>2. n \notin A
    <3> SUFFICES ASSUME n \in A PROVE FALSE
      OBVIOUS
    <3>1. PICK y \in Latest(n, b) : y.from = n /\ y.position = b.position
      BY CountedVoters DEF A
    <3>2. w = view[n]
      BY <1>3, <3>1, OwnCounted
    <3> QED
      BY <1>1, <2>1, <3>2
  <2>3. ASSUME NEW q \in A PROVE InFlight(q, w) \/ Counted(n, q, w)
    <3>1. PICK y \in Latest(n, b) : y.from = q /\ y.position = b.position
      BY <2>3, CountedVoters DEF A
    <3>2. q # n
      BY <2>2, <2>3
    <3> QED
      BY <1>3, <3>1, <3>2, CountedNow
  <2>4. CASE w + 1 < view[n]
    <3>1. Blocked(x, n, w)
      BY <1>1, <1>3, <2>4 DEF Views, NodeInv, BlockedAt
    <3>2. PICK P : Wall(n, P) /\ Spent(x, w, P) /\ Unheld(x, n, w, P)
      BY <3>1 DEF Blocked
    <3>3. PICK q \in A \cap P : q # x /\ q # Leader(w)
      BY <1>1, <2>2, <3>2, WallHolds
    <3> QED
      BY <2>3, <3>2, <3>3 DEF Spent, Unheld, Odd
  <2>5. CASE view[n] = w + 1
    <3>1. PICK Q \in Quorum : Entry(x, n, w, Q)
      BY <1>1, <1>3, <2>5 DEF Views, NodeInv, EntryAt
    <3>2. PICK q \in A \cap Q : q # x /\ q # Leader(w)
      BY <1>1, QuorumsMeet
    <3>3. newView[n]
      BY <2>3, <3>1, <3>2 DEF Entry, Spent, Unheld, Odd
    <3> QED
      BY <2>5, <3>3
  <2> QED
    BY <1>1, <2>1, <2>4, <2>5
<1> QED
  BY <1>1, <1>2, <1>3

\* Where a count leaves the node: in its view, beginning it again, or in the next one.
LEMMA CountLeads ==
  ASSUME TypeOK, NEW x, Enough(x), NEW n \in Node, n # x, NEW W \in Nat, Views(x, W),
         NEW b \in Ballot, NEW m, Tallying(x, n, b, m)
  PROVE  \/ ~Full(n, b) /\ view'[n] = view[n] /\ seq'[n] = seq[n] /\ newView'[n] = newView[n]
         \/ /\ Full(n, b) /\ view'[n] = view[n] /\ Leader(view[n]) = n
            /\ seq'[n] = LowWaterLine(view[n])
            /\ newView[n] /\ newView'[n] /\ msgs' = msgs
         \/ /\ Full(n, b) /\ view[n] < view'[n] /\ view'[n] = W + 1 /\ b.position.view = W
            /\ Leader(W + 1) = n
            /\ seq'[n] = LowWaterLine(W + 1) /\ seq[n] <= seq'[n] /\ newView'[n]
<1>1. Leader(b.position.view + 1) = n /\ b.position.view \in Nat
  BY DEF Tallying, LedBy, Ballot, Position
<1>2. CASE ~Full(n, b)
  BY <1>2, TallyEffect DEF Tallying
<1>3. CASE Full(n, b) /\ b.position.view < W /\ view[n] = b.position.view + 1 /\ newView[n]
  <2>1. Tally(n, b, m)
    BY DEF Tallying
  <2>2. /\ view'[n] = b.position.view + 1 /\ seq'[n] = LowWaterLine(b.position.view + 1)
        /\ newView'[n] = newView[n] /\ msgs' = msgs
    BY <1>3, <2>1, TallyEffect
  <2> QED
    BY <1>1, <1>3, <2>2
<1>4. CASE Full(n, b) /\ b.position.view = W
  <2>1. view'[n] = W + 1 /\ seq'[n] = LowWaterLine(W + 1) /\ newView'[n] /\ Leader(W + 1) = n
    BY <1>1, <1>4, TallyEffect DEF Tallying
  <2>2. view[n] <= W /\ view[n] \in Nat /\ seq[n] <= HighWaterLine(W)
    BY DEF Views, NodeInv, BoundAt, TypeOK
  <2>3. HighWaterLine(W) = LowWaterLine(W + 1)
    BY WaterMeets
  <2> QED
    BY <1>4, <2>1, <2>2, <2>3
<1> QED
  BY <1>2, <1>3, <1>4, FullCount

\* A count concerns the node that counts, and may tell of a new view.
LEMMA TallyRest ==
  ASSUME TypeOK, NEW x, NEW n \in Node, NEW b \in Ballot, NEW m, Tallying(x, n, b, m)
  PROVE  /\ Rest(n) /\ msgs \subseteq msgs' /\ Counts(x, n)
         /\ \A k \in msgs' \ msgs : k = NewViewMsg(n, b.position) /\ Full(n, b) /\ ~newView[n]
<1>1. Tally(n, b, m)
  BY DEF Tallying
<1>2. /\ msgs \subseteq msgs'
      /\ \A k \in msgs' \ msgs : k = NewViewMsg(n, b.position) /\ Full(n, b) /\ ~newView[n]
  <2>1. CASE Full(n, b) /\ ~newView[n]
    <3>1. msgs' = msgs \cup {NewViewMsg(n, b.position)}
      BY <1>1, <2>1, TallyEffect
    <3> QED
      BY <2>1, <3>1
  <2>2. CASE ~(Full(n, b) /\ ~newView[n])
    <3>1. msgs' = msgs
      BY <1>1, <2>2, TallyEffect
    <3> QED
      BY <3>1
  <2> QED
    BY <2>1, <2>2
<1>3. Rest(n)
  BY <1>1, TallyEffect DEF Rest, Tallying
<1>4. Counts(x, n)
  <2>1. ballots'[n] = Latest(n, b)
    BY <1>1, TallyEffect
  <2>2. \A y \in ballots'[n] \ ballots[n] : y = b
    BY <2>1 DEF Latest
  <2>3. timeouts' \subseteq timeouts
    BY DEF Tallying
  <2>4. b \in ballots[n] \/ Own(x, n, b) \/ \E t \in timeouts \ timeouts' : t.vote = b
    BY DEF Tallying
  <2> QED
    BY <2>2, <2>3, <2>4 DEF Counts
<1> QED
  BY <1>2, <1>3, <1>4

\* It is a step the votes allow.
LEMMA TallyMoves ==
  ASSUME TypeOK, TypeOK', NEW x, Enough(x), NEW n \in Node, NEW W \in Nat,
         Views(x, W), NEW b \in Ballot, NEW m, Tallying(x, n, b, m)
  PROVE  Moves(x, n)
<1>1. /\ Rest(n) /\ msgs \subseteq msgs' /\ Counts(x, n)
      /\ \A k \in msgs' \ msgs : k.type # "consensusFail"
  BY TallyRest DEF NewViewMsg
<1>2. ASSUME n # x
      PROVE  /\ view[n] <= view'[n]
             /\ \/ seq[n] <= seq'[n]
                \/ Leader(view[n]) = n /\ view'[n] = view[n] /\ seq'[n] = LowWaterLine(view[n])
             /\ \A w \in Nat : n # Leader(w) => /\ Waits(n, w) => Waits(n, w)'
                                                /\ GaveUp(n, w) => GaveUp(n, w)'
  <2>1. view[n] \in Nat /\ view'[n] \in Nat /\ seq[n] \in Nat
    BY DEF TypeOK
  <2>2. \/ view'[n] = view[n] /\ seq'[n] = seq[n]
        \/ Leader(view[n]) = n /\ view'[n] = view[n] /\ seq'[n] = LowWaterLine(view[n])
        \/ view[n] < view'[n] /\ seq[n] <= seq'[n]
    BY <1>2, CountLeads
  <2>3. /\ view[n] <= view'[n]
        /\ \/ seq[n] <= seq'[n]
           \/ Leader(view[n]) = n /\ view'[n] = view[n] /\ seq'[n] = LowWaterLine(view[n])
    BY <2>1, <2>2
  <2>4. ASSUME NEW w \in Nat, n # Leader(w)
        PROVE  (Waits(n, w) => Waits(n, w)') /\ (GaveUp(n, w) => GaveUp(n, w)')
    <3>1. CASE view[n] < view'[n]
      BY <2>1, <3>1 DEF Waits, GaveUp
    <3>2. CASE view[n] = view'[n] /\ (stage'[n] = stage[n] \/ view[n] # w)
      BY <3>2 DEF Waits, GaveUp
    <3>3. CASE view[n] = view'[n] /\ stage'[n] # stage[n] /\ view[n] = w
      <4>1. Own(x, n, b)
        BY <3>3 DEF Tallying
      <4>2. stage[n] \in {"new", "processed"}
        BY <1>2, <4>1 DEF Own, Casts
      <4> QED
        BY <2>1, <3>3, <4>2 DEF Waits, GaveUp
    <3> QED
      BY <2>1, <2>3, <3>1, <3>2, <3>3
  <2> QED
    BY <2>3, <2>4
<1> QED
  BY <1>1, <1>2 DEF Moves

\* One ballot per voter: the latest
LEMMA LatestOnce ==
  ASSUME TypeOK, NEW n \in Node, NEW b \in Ballot, NEW m, Tally(n, b, m), OnceAt(n)
  PROVE  OnceAt(n)'
<1>1. ballots'[n] = Latest(n, b)
  BY TallyEffect
<1>2. \A y, z \in Latest(n, b) : y.from = z.from => y = z
  BY DEF OnceAt, Latest
<1> QED
  BY <1>1, <1>2 DEF OnceAt

\* The voters of a full count are done with the view, and their votes are used up.
LEMMA CountSpent ==
  ASSUME TypeOK, TypeOK', NEW x, Enough(x), NEW n \in Node, NEW W \in Nat,
         Views(x, W), NEW b \in Ballot, NEW m, Tallying(x, n, b, m),
         NEW A, A = CountOf(n, b)
  PROVE  Spent(x, b.position.view, A)'
<1>1. Moves(x, n) /\ ballots'[n] = Latest(n, b)
  BY TallyMoves, TallyEffect DEF Tallying
<1>2. VotesDone(x)' /\ VoteOnce(x)'
  BY <1>1, VotesDoneKept, VoteOnceKept DEF Views, VoteInv
<1> SUFFICES ASSUME NEW q \in A, q \notin Odd(x, b.position.view)
             PROVE  Done(q, b.position.view)' /\ ~InFlight(q, b.position.view)'
  BY DEF Spent, Odd
<1>3. PICK y \in Latest(n, b) : y.from = q /\ y.position = b.position
  BY CountedVoters
<1>4. y \in Votes'
  BY <1>1, <1>3 DEF Votes
<1>5. Waits(q, b.position.view)'
  BY <1>2, <1>3, <1>4 DEF VotesDone
<1>6. ~InFlight(q, b.position.view)'
  BY <1>1, <1>2, <1>3 DEF VoteOnce, InFlight, SameVote
<1> QED
  BY <1>5, <1>6 DEF Done

\* The state of the node after a count, other than x
LEMMA TallyCalm ==
  ASSUME TypeOK, TypeOK', NEW x, Enough(x), NEW n \in Node, n # x,
         NEW W \in Nat, Views(x, W), NEW b \in Ballot, NEW m, Tallying(x, n, b, m)
  PROVE  CalmAt(x, n)'
<1>1. Tally(n, b, m) /\ mode[n] = "consensus" /\ m = "consensus"
  BY DEF Tallying
<1>2. CalmAt(x, n) /\ ~(newView[n] /\ stage[n] = "prePrepare")
  BY <1>1 DEF Views, NodeInv, CalmAt
<1>3. mode'[n] \in {"consensus", "newView"} /\ (mode'[n] = "newView" => Full(n, b))
  BY <1>1, TallyEffect
<1>4. stage'[n] \in {stage[n], "waitView"}
  BY DEF Tallying
<1>5. CASE ~Full(n, b)
  <2>1. view'[n] = view[n] /\ newView'[n] = newView[n] /\ mode'[n] = mode[n]
    BY <1>1, <1>5, TallyEffect
  <2> QED
    BY <1>1, <1>2, <1>4, <2>1 DEF CalmAt, Partaking
<1>6. CASE Full(n, b)
  <2>1. Leader(view'[n]) = n
    BY <1>6, CountLeads
  <2>2. newView[n] \/ mode'[n] = "newView"
    BY <1>1, <1>6, TallyEffect
  <2> QED
    BY <1>1, <1>2, <1>3, <1>4, <2>1, <2>2 DEF CalmAt, Partaking
<1> QED
  BY <1>5, <1>6

\* The node's own vote, counted by itself, is for the view it waits in.
LEMMA TallyOwn ==
  ASSUME TypeOK, NEW x, Enough(x), NEW n \in Node, n # x,
         NEW W \in Nat, Views(x, W), NEW b \in Ballot, NEW m, Tallying(x, n, b, m)
  PROVE  OwnAt(x, n)'
<1> SUFFICES ASSUME NEW y \in ballots'[n], y.from = n
             PROVE  /\ stage'[n] = "waitView"
                    /\ mode'[n] = "newView" \/ (~newView'[n] /\ y.position.view = view'[n])
  BY DEF OwnAt
<1>1. Tally(n, b, m)
  BY DEF Tallying
<1>2. y \in Latest(n, b)
  BY <1>1, TallyEffect
<1>3. y.position.view = view[n] /\ ~newView[n] /\ stage'[n] = "waitView"
  BY <1>2, OwnCounted
<1>4. CASE Full(n, b)
  BY <1>1, <1>3, <1>4, TallyEffect
<1>5. CASE ~Full(n, b)
  <2>1. view'[n] = view[n] /\ newView'[n] = newView[n]
    BY <1>1, <1>5, TallyEffect
  <2> QED
    BY <1>3, <2>1
<1> QED
  BY <1>4, <1>5

\* With a new view under way, the node has no vote of its own among the ballots.
LEMMA NoOwnVote ==
  ASSUME TypeOK, NEW x, NEW n \in Node, n # x,
         NEW W \in Nat, Views(x, W), NEW b \in Ballot, NEW m, Tallying(x, n, b, m), newView[n]
  PROVE  /\ \A y \in Latest(n, b) : y.from # n
         /\ \A w \in Nat : ~Counted(n, n, w)
<1>1. \A y \in Latest(n, b) : y.from # n
  BY OwnCounted
<1>2. OwnAt(x, n) /\ mode[n] = "consensus"
  BY DEF Views, NodeInv, Tallying
<1> QED
  BY <1>1, <1>2 DEF OwnAt, Counted

\* The voters of a count that leads into a view are done with the one before.
LEMMA TallyEntry ==
  ASSUME TypeOK, TypeOK', NEW x, Enough(x), NEW n \in Node, n # x,
         NEW W \in Nat, Views(x, W), NEW b \in Ballot, NEW m, Tallying(x, n, b, m)
  PROVE  EntryAt(x, n)' /\ BlockedAt(x, n)'
<1>1. Moves(x, n) /\ ballots'[n] = Latest(n, b)
  BY TallyMoves, TallyEffect DEF Tallying
<1>2. view[n] \in Nat /\ view'[n] \in Nat
  BY DEF TypeOK
<1>3. CASE view'[n] = view[n]
  <2>1. newView[n] => newView'[n]
    BY <1>2, <1>3, CountLeads
  <2>2. newView[n] => \A w \in Nat : ~Counted(n, n, w)
    BY NoOwnVote
  <2> QED
    BY <1>1, <1>3, <2>1, <2>2, EntrySame, BlockedSame DEF Views, NodeInv
<1>4. CASE view'[n] # view[n]
  <2>1. /\ Full(n, b) /\ view'[n] = W + 1 /\ b.position.view = W
        /\ Leader(W + 1) = n /\ newView'[n]
    BY <1>4, CountLeads
  <2>2. PICK A \in Quorum : A = CountOf(n, b)
    BY <2>1 DEF Full
  <2>3. Spent(x, W, A)'
    BY <2>1, <2>2, CountSpent
  <2>4. \A q \in A : \E y \in ballots'[n] : y.from = q /\ y.position.view = W
    BY <1>1, <2>1, <2>2, CountedVoters
  <2>5. EntryAt(x, n)'
    <3>1. n \in A => Counted(n, n, W)'
      BY <2>4 DEF Counted
    <3>2. Entry(x, n, W, A)'
      BY <2>1, <2>3, <3>1 DEF Entry
    <3>3. \A w \in Nat : view'[n] = w + 1 => w = W
      BY <2>1
    <3> QED
      BY <3>2, <3>3 DEF EntryAt
  <2>6. ASSUME NEW w \in Nat, NEW Q \in Quorum, view[n] = w + 1, w + 1 < view'[n],
               Spent(x, w, Q)', newView[n], n \in Q => Counted(n, n, w)
        PROVE  Blocked(x, n, w)'
    <3>1. n \notin Q
      BY <2>6, NoOwnVote
    <3>2. n \notin A
      <4>1. \A y \in ballots'[n] : y.from # n
        BY <1>1, <2>6, NoOwnVote
      <4> QED
        BY <2>4, <4>1
    <3>3. PICK P : P = Q \cap A /\ Wall(n, P)
      BY <3>1, <3>2, QuorumsWall
    <3>4. Spent(x, w, P)'
      BY <2>6, <3>3 DEF Spent
    <3>5. Unheld(x, n, w, P)'
      <4> SUFFICES ASSUME NEW q \in P, NEW z \in ballots'[n], z.from = q, z.position.view = w
                   PROVE FALSE
        BY DEF Unheld, Counted
      <4>1. PICK y \in ballots'[n] : y.from = q /\ y.position.view = W
        BY <2>4, <3>3
      <4>2. OnceAt(n)'
        BY LatestOnce DEF Tallying, Views, NodeInv
      <4>3. w # W
        BY <2>1, <2>6
      <4> QED
        BY <4>1, <4>2, <4>3 DEF OnceAt
    <3> QED
      BY <3>3, <3>4, <3>5 DEF Blocked
  <2>7. view'[n] <= W + 1
    BY <2>1
  <2> QED
    BY <1>1, <2>5, <2>6, <2>7, BlockedEntering
<1> QED
  BY <1>3, <1>4

\* The water lines after a count
LEMMA TallyWater ==
  ASSUME TypeOK, TypeOK', NEW x, Enough(x), NEW n \in Node, n # x,
         NEW W \in Nat, NEW V \in Nat, W <= V, Views(x, W), NEW b \in Ballot, NEW m,
         Tallying(x, n, b, m), view'[n] <= V
  PROVE  BoundAt(n, V)' /\ LagAt(x, n, V)' /\ RoundedAt(x, n)'
<1>1. /\ view[n] \in Nat /\ seq[n] \in Nat /\ view'[n] \in Nat /\ seq'[n] \in Nat
      /\ answers'[n] = answers[n]
  BY DEF TypeOK, Tallying
<1>2. BoundAt(n, W) /\ LagAt(x, n, W) /\ RoundedAt(x, n)
  BY DEF Views, NodeInv
<1>3. CASE ~Full(n, b)
  <2>1. view'[n] = view[n] /\ seq'[n] = seq[n]
    BY <1>3, TallyEffect DEF Tallying
  <2>2. BoundAt(n, V)'
    BY <1>1, <1>2, <2>1, BoundMore
  <2>3. LagAt(x, n, V)'
    BY <1>2, <2>1, LagMore
  <2>4. stage'[n] \in {stage[n], "waitView"}
    BY DEF Tallying
  <2> QED
    BY <1>2, <2>1, <2>2, <2>3, <2>4 DEF RoundedAt, Rounds
<1>4. CASE Full(n, b)
  <2>1. seq'[n] = LowWaterLine(view'[n]) /\ Leader(view'[n]) = n
    BY <1>4, CountLeads
  <2>2. /\ LowWaterLine(view'[n]) < HighWaterLine(view'[n])
        /\ HighWaterLine(view'[n]) <= HighWaterLine(V)
        /\ HighWaterLine(view'[n]) \in Nat /\ HighWaterLine(V) \in Nat
    BY <1>1, WaterMeets, WaterRises, WaterLines
  <2>3. seq'[n] <= HighWaterLine(view'[n]) /\ seq'[n] <= HighWaterLine(V)
    BY <1>1, <2>1, <2>2
  <2>4. BoundAt(n, V)'
    BY <1>1, <1>2, <2>3, BoundMore
  <2> QED
    BY <1>1, <2>1, <2>2, <2>3, <2>4 DEF LagAt, RoundedAt
<1> QED
  BY <1>3, <1>4

\* A count by a node other than x
LEMMA TallyAdvances ==
  ASSUME TypeOK, TypeOK', NEW x, Enough(x), NEW n \in Node, n # x,
         NEW W \in Nat, Views(x, W), NEW b \in Ballot, NEW m, Tallying(x, n, b, m)
  PROVE  \E V \in Nat : Advances(x, n, W, V)
<1>1. /\ Moves(x, n) /\ CalmAt(x, n)' /\ OwnAt(x, n)' /\ OnceAt(n)'
      /\ EntryAt(x, n)' /\ BlockedAt(x, n)'
  BY TallyMoves, TallyCalm, TallyOwn, TallyEntry, LatestOnce DEF Tallying, Views, NodeInv
<1>2. view[n] <= W /\ view[n] \in Nat
  BY DEF Views, NodeInv, BoundAt, TypeOK
<1>3. CASE view'[n] = view[n]
  <2>1. msgs' = msgs
    <3>1. CASE Full(n, b)
      BY <1>2, <1>3, <3>1, CountLeads
    <3>2. CASE ~Full(n, b)
      BY <3>2, TallyEffect DEF Tallying
    <3> QED
      BY <3>1, <3>2
  <2>2. BoundAt(n, W)' /\ LagAt(x, n, W)' /\ RoundedAt(x, n)'
    BY <1>2, <1>3, TallyWater
  <2>3. Advances(x, n, W, W)
    BY <1>1, <2>1, <2>2 DEF Advances, NodeInv
  <2> QED
    BY <2>3
<1>4. CASE view'[n] # view[n]
  <2>1. /\ Full(n, b) /\ view'[n] = W + 1 /\ b.position.view = W /\ Leader(W + 1) = n
    BY <1>4, CountLeads
  <2>2. Reached(x, W + 1) /\ b.position.seq = HighWaterLine(W)
    BY <2>1, FullCount
  <2>3. Passed(x, W)'
    BY <2>1 DEF Passed
  <2>4. BoundAt(n, W + 1)' /\ LagAt(x, n, W + 1)' /\ RoundedAt(x, n)'
    BY <2>1, TallyWater
  <2>5. \A k \in msgs' \ msgs : MessageIn(k, W + 1)
    <3>1. \A k \in msgs' \ msgs : k = NewViewMsg(n, b.position)
      BY TallyRest
    <3> QED
      BY <2>1, <2>2, <3>1 DEF MessageIn, NewViewMsg
  <2>6. Advances(x, n, W, W + 1)
    BY <1>1, <2>2, <2>3, <2>4, <2>5 DEF Advances, NodeInv
  <2> QED
    BY <2>6
<1> QED
  BY <1>3, <1>4

\* A count by node x
LEMMA OddTallyAdvances ==
  ASSUME TypeOK, TypeOK', NEW x \in Node, Enough(x), NEW W \in Nat, Views(x, W),
         NEW b \in Ballot, NEW m, Tallying(x, x, b, m)
  PROVE  \E V \in Nat : Advances(x, x, W, V)
<1>1. /\ Tally(x, b, m) /\ Leader(b.position.view + 1) = x /\ b.position.view \in Nat
      /\ mode[x] = "consensus" /\ m \in {"consensus", "fetchChain"}
      /\ stage'[x] \in {stage[x], "waitView"}
      /\ stage'[x] \in {"collect", "propose"} => m = "consensus"
      /\ answers'[x] = answers[x]
  BY DEF Tallying, LedBy, Ballot, Position
<1>2. Moves(x, x) /\ OnceAt(x)'
  BY <1>1, TallyMoves, LatestOnce DEF Views, NodeInv
<1>3. BoundAt(x, W) /\ CalmAt(x, x)
  BY DEF Views, NodeInv
<1>4. mode'[x] \in {m, "newView"}
  <2>1. ASSUME ~(Full(x, b) /\ ~newView[x]) PROVE mode'[x] = m
    <3>1. Tally(x, b, m)
      BY <1>1
    <3> QED
      BY <2>1, <3>1, TallyEffect, Zenon
  <2>2. ASSUME Full(x, b) /\ ~newView[x] PROVE mode'[x] = "newView"
    <3>1. Tally(x, b, m)
      BY <1>1
    <3> QED
      BY <2>2, <3>1, TallyEffect, Zenon
  <2> QED
    BY <2>1, <2>2
<1>5. CalmAt(x, x)'
  <2>1. Full(x, b) => Leader(view'[x]) = x
    BY <1>1, TallyEffect
  <2>2. ~Full(x, b) => view'[x] = view[x]
    BY <1>1, TallyEffect
  <2> QED
    BY <1>1, <1>3, <1>4, <2>1, <2>2 DEF CalmAt, Partaking
<1>6. LagAt(x, x, W + 1)' /\ LagAt(x, x, W)' /\ RoundedAt(x, x)' /\ OwnAt(x, x)' /\ EntryAt(x, x)'
      /\ BlockedAt(x, x)'
  BY DEF LagAt, RoundedAt, OwnAt, EntryAt, BlockedAt
<1>7. view[x] \in Nat /\ seq[x] \in Nat /\ view[x] <= W
  BY <1>3 DEF TypeOK, BoundAt
<1>8. CASE ~Full(x, b)
  <2>1. view'[x] = view[x] /\ seq'[x] = seq[x] /\ msgs' = msgs
    BY <1>1, <1>8, TallyEffect
  <2>2. BoundAt(x, W)'
    BY <1>1, <1>3, <1>7, <2>1, BoundMore
  <2>3. Advances(x, x, W, W)
    BY <1>2, <1>5, <1>6, <2>1, <2>2 DEF Advances, NodeInv
  <2> QED
    BY <2>3
<1>9. CASE Full(x, b)
  <2> DEFINE w == b.position.view
  <2>1. /\ w <= W /\ b.position.seq = HighWaterLine(w)
        /\ w = W => Reached(x, W + 1)
    BY <1>9, FullCount
  <2>2. PICK V \in Nat : /\ w + 1 <= V
                         /\ V = W \/ (V = W + 1 /\ w = W)
    <3>1. CASE w = W
      BY <3>1
    <3>2. CASE w # W
      BY <1>1, <2>1, <3>2
    <3> QED
      BY <3>1, <3>2
  <2>3. view'[x] = w + 1 /\ seq'[x] = LowWaterLine(w + 1)
    BY <1>1, <1>9, TallyEffect
  <2>4. BoundAt(x, V)'
    <3>1. LowWaterLine(w + 1) <= HighWaterLine(V)
      <4>1. w + 1 \in Nat /\ LowWaterLine(w + 1) < HighWaterLine(w + 1)
            /\ HighWaterLine(w + 1) <= HighWaterLine(V)
        BY <1>1, <2>2, WaterMeets, WaterRises
      <4> QED
        BY <4>1, WaterLines
    <3> QED
      BY <1>1, <1>3, <2>2, <2>3, <3>1, BoundMore
  <2>5. \A k \in msgs' \ msgs : MessageIn(k, V)
    <3>1. w < V
      BY <1>1, <2>2
    <3>2. \A k \in msgs' \ msgs : k = NewViewMsg(x, b.position)
      BY TallyRest
    <3> QED
      BY <2>1, <3>1, <3>2 DEF MessageIn, NewViewMsg
  <2>6. Passed(x, W)' \/ V = W
    BY <1>1, <2>2 DEF Passed
  <2>7. Advances(x, x, W, V)
    BY <1>2, <1>5, <1>6, <2>1, <2>2, <2>4, <2>5, <2>6 DEF Advances, NodeInv
  <2> QED
    BY <2>7
<1> QED
  BY <1>8, <1>9

-----------------------------------------------------------------------------
(* Steps *)

\* A step that advances keeps the invariant.
LEMMA ViewsKept ==
  ASSUME TypeOK, TypeOK', NEW x, NEW n \in Node, NEW W \in Nat, Views(x, W),
         NEW V \in Nat, Advances(x, n, W, V)
  PROVE  Views(x, V)'
<1>1. Moves(x, n) /\ W <= V
  BY DEF Advances
<1>2. ASSUME NEW q \in Node PROVE NodeInv(x, q, V)'
  <2>1. CASE q = n
    BY <2>1 DEF Advances
  <2>2. CASE q # n
    BY <1>1, <2>2, OthersKept DEF Views
  <2> QED
    BY <2>1, <2>2
<1>3. ASSUME NEW m \in msgs' PROVE MessageIn(m, V)
  <2>1. CASE m \in msgs
    <3>1. MessageIn(m, W) /\ 0 .. W \subseteq 0 .. V
      BY <1>1, <2>1 DEF Views
    <3>2. CASE m.type = "newView"
      <4>1. m.position.view \in Nat
        BY <2>1, <3>2, Content DEF TypeOK, Position
      <4> QED
        BY <1>1, <3>1, <3>2, <4>1 DEF MessageIn
    <3>3. CASE m.type # "newView"
      BY <3>1, <3>3 DEF MessageIn
    <3> QED
      BY <3>2, <3>3
  <2>2. CASE m \notin msgs
    BY <2>2 DEF Advances
  <2> QED
    BY <2>1, <2>2
<1>4. Said(x, V)' /\ HighVotes(x)'
  BY <1>1, SaidKept
<1>5. Abroad' /\ VotesDone(x)' /\ FailsDone(x)' /\ Either(x)' /\ VoteOnce(x)'
  BY <1>1, AbroadKept, VotesDoneKept, EitherKept, VoteOnceKept DEF Views, VoteInv
<1>6. ASSUME NEW w \in Nat, 1 <= w, w <= V PROVE Reached(x, w)'
  <2>1. Reached(x, w)
    BY <1>6 DEF Advances, Views, VoteInv
  <2> QED
    BY <1>1, <2>1, ReachedKept
<1>7. ASSUME NEW w \in Nat, w < V PROVE Passed(x, w)'
  <2>1. CASE w < W
    BY <1>1, <2>1, PassedKept DEF Views, VoteInv
  <2>2. CASE ~(w < W)
    <3>1. w = W /\ V # W
      BY <1>7, <2>2 DEF Advances
    <3> QED
      BY <3>1 DEF Advances
  <2> QED
    BY <2>1, <2>2
<1>8. \A m \in msgs' : MessageIn(m, V)'
  BY <1>3 DEF MessageIn
<1> QED
  BY <1>2, <1>4, <1>5, <1>6, <1>7, <1>8 DEF Views, VoteInv

\* A step in which node n stays in its view and counts no vote
Stays(n) ==
    /\ Rest(n)
    /\ view'[n] = view[n] /\ newView'[n] = newView[n]
    /\ ballots'[n] = ballots[n] /\ answers'[n] = answers[n]
    /\ msgs \subseteq msgs'

\* What the messages of a step have to be
Tells(x, n, W) ==
    \A m \in msgs' \ msgs :
        /\ MessageIn(m, W)
        /\ m.type = "consensusFail" => m.from = n /\ (n # x => Gives(n, m))

\* A step of this kind keeps the invariant, whatever the stage it leads to.
LEMMA StayAdvances ==
  ASSUME TypeOK, TypeOK', NEW x, NEW n \in Node, NEW W \in Nat, Views(x, W),
         Stays(n), timeouts' = timeouts \/ Sends(x, n), Tells(x, n, W), seq'[n] <= HighWaterLine(W),
         n # x => /\ seq[n] <= seq'[n]
                  /\ stage[n] \in {"waitView", "consensusFail"} =>
                        stage'[n] = stage[n] /\ mode'[n] = mode[n],
         CalmAt(x, n)', LagAt(x, n, W)', RoundedAt(x, n)'
  PROVE  Advances(x, n, W, W)
<1>1. /\ view'[n] = view[n] /\ newView'[n] = newView[n] /\ Rest(n)
      /\ ballots'[n] = ballots[n] /\ answers'[n] = answers[n]
      /\ msgs \subseteq msgs'
  BY DEF Stays
<1>2. view[n] \in Nat /\ seq[n] \in Nat /\ seq'[n] \in Nat
  BY DEF TypeOK
<1>3. NodeInv(x, n, W)
  BY DEF Views
<1>4. Moves(x, n)
  <2>1. ASSUME n # x, NEW w \in Nat
        PROVE  (Waits(n, w) => Waits(n, w)') /\ (GaveUp(n, w) => GaveUp(n, w)')
    BY <1>1, <2>1 DEF Waits, GaveUp
  <2>2. timeouts' = timeouts => Counts(x, n)
    BY <1>1 DEF Counts
  <2> QED
    BY <1>1, <1>2, <2>1, <2>2 DEF Moves, Tells
<1>5. OwnAt(x, n)' /\ OnceAt(n)'
  <2>1. n # x => stage[n] # "waitView" \/ (stage'[n] = stage[n] /\ mode'[n] = mode[n])
    OBVIOUS
  <2> QED
    BY <1>1, <1>3, <2>1 DEF NodeInv, OwnAt, OnceAt
<1>6. EntryAt(x, n)' /\ BlockedAt(x, n)'
  <2>1. \A w \in Nat : Counted(n, n, w)' = Counted(n, n, w)
    BY <1>1 DEF Counted
  <2> QED
    BY <1>1, <1>3, <1>4, <2>1, EntrySame, BlockedSame DEF NodeInv
<1>7. BoundAt(n, W)'
  <2>1. view'[n] <= W
    BY <1>1, <1>3 DEF NodeInv, BoundAt
  <2> QED
    BY <1>1, <1>2, <1>3, <2>1, BoundMore DEF NodeInv
<1> QED
  BY <1>4, <1>5, <1>6, <1>7 DEF Advances, NodeInv, Tells

\* Most steps of a round leave the sequence number alone as well.
LEMMA PlainAdvances ==
  ASSUME TypeOK, TypeOK', NEW x, NEW n \in Node, NEW W \in Nat, Views(x, W),
         Stays(n), timeouts' = timeouts \/ Sends(x, n), Tells(x, n, W), seq'[n] = seq[n],
         n # x => /\ stage[n] \in {"waitView", "consensusFail"} =>
                        stage'[n] = stage[n] /\ mode'[n] = mode[n]
                  /\ stage'[n] \in Rounds => stage[n] \in Rounds \/ Leader(view[n]) = n,
         CalmAt(x, n)'
  PROVE  Advances(x, n, W, W)
<1>1. seq[n] \in Nat /\ seq'[n] <= HighWaterLine(W) /\ view'[n] = view[n]
  BY DEF TypeOK, Views, NodeInv, BoundAt, Stays
<1>2. LagAt(x, n, W)' /\ RoundedAt(x, n)'
  BY <1>1 DEF Views, NodeInv, LagAt, RoundedAt
<1> QED
  BY <1>1, <1>2, StayAdvances

\* What the invariant says of node x itself is little.
LEMMA OddAdvances ==
  ASSUME TypeOK, TypeOK', NEW x, NEW W \in Nat, Views(x, W),
         NEW V \in Nat, V = W \/ (V = W + 1 /\ Reached(x, V) /\ Passed(x, W)'),
         Rest(x), Tells(x, x, V), msgs \subseteq msgs', Sends(x, x) \/ Counts(x, x),
         CalmAt(x, x)', BoundAt(x, V)', OnceAt(x)'
  PROVE  Advances(x, x, W, V)
<1>1. Moves(x, x)
  BY DEF Moves, Tells
<1>2. LagAt(x, x, V)' /\ RoundedAt(x, x)' /\ OwnAt(x, x)' /\ EntryAt(x, x)' /\ BlockedAt(x, x)'
  BY DEF LagAt, RoundedAt, OwnAt, EntryAt, BlockedAt
<1> QED
  BY <1>1, <1>2 DEF Advances, NodeInv, Tells

\* The end of a view change of a node other than x
LEMMA LeaveAdvances ==
  ASSUME TypeOK, TypeOK', NEW x, NEW n \in Node, n # x, NEW W \in Nat, Views(x, W),
         NEW V \in Nat, V = W \/ (V = W + 1 /\ Reached(x, V) /\ Passed(x, W)'),
         Rest(n), msgs' = msgs, timeouts' = timeouts, answers' = answers,
         LeaveViewChange(n, mode[n]) \/ LeaveViewChange(n, "newView"),
         mode[n] \in {"consensus", "newView"},
         view[n] <= view'[n], view'[n] <= V,
         seq[n] <= seq'[n], seq'[n] <= HighWaterLine(V), LagAt(x, n, V)',
         view'[n] = view[n] => Leader(view[n]) = n,
         \A w \in Nat : /\ view[n] < view'[n] /\ view'[n] = w + 1 /\ Leader(w + 1) = n
                        => \E Q \in Quorum : Spent(x, w, Q)
  PROVE  Advances(x, n, W, V)
<1>1. ballots'[n] = {} /\ newView'[n] = FALSE
  BY DEF LeaveViewChange, TypeOK
<1>2. /\ mode'[n] \in {"consensus", "newView"}
      /\ stage'[n] \in {"new", "newTwice", "process", "processed"}
  <2>1. CASE stage[n] \notin {"process", "processed"}
    <3>1. RunNewConsensusRound(n, "new")
      BY <2>1 DEF LeaveViewChange
    <3> QED
      BY <3>1 DEF RunNewConsensusRound, Goto, TypeOK
  <2>2. CASE stage[n] \in {"process", "processed"}
    BY <2>2 DEF LeaveViewChange, TypeOK
  <2> QED
    BY <2>1, <2>2
<1>3. view[n] \in Nat /\ view'[n] \in Nat /\ NodeInv(x, n, W) /\ W <= V /\ V <= W + 1
  <2>1. V = W \/ V = W + 1
    OBVIOUS
  <2>2. view[n] \in Nat /\ view'[n] \in Nat /\ NodeInv(x, n, W)
    BY DEF TypeOK, Views
  <2> QED
    BY <2>1, <2>2
<1>4. Moves(x, n)
  <2>1. ASSUME NEW w \in Nat, n # Leader(w)
        PROVE  (Waits(n, w) => Waits(n, w)') /\ (GaveUp(n, w) => GaveUp(n, w)')
    BY <1>3, <2>1 DEF Waits, GaveUp
  <2>2. Counts(x, n)
    BY <1>1 DEF Counts
  <2> QED
    BY <2>1, <2>2 DEF Moves
<1>5. CalmAt(x, n)' /\ RoundedAt(x, n)' /\ OwnAt(x, n)' /\ OnceAt(n)'
  BY <1>1, <1>2 DEF CalmAt, Partaking, RoundedAt, Rounds, OwnAt, OnceAt
<1>6. BoundAt(n, V)'
  BY <1>3, BoundMore DEF NodeInv
<1>7. BlockedAt(x, n)'
  BY <1>1, <1>3, <1>4, BlockedEmptied
<1>8. EntryAt(x, n)'
  <2>1. CASE view'[n] = view[n]
    BY <1>1, <1>3, <1>4, <2>1, EntrySame DEF NodeInv
  <2>2. CASE view[n] < view'[n]
    <3> SUFFICES ASSUME NEW w \in Nat, view'[n] = w + 1, Leader(w + 1) = n
                 PROVE  \E Q \in Quorum : Entry(x, n, w, Q)'
      BY DEF EntryAt
    <3>1. PICK Q \in Quorum : Spent(x, w, Q)
      BY <2>2
    <3>2. Spent(x, w, Q)'
      BY <1>4, <3>1, SpentKept DEF Quorum
    <3>3. Unheld(x, n, w, Q)'
      BY <1>1 DEF Unheld, Counted
    <3> QED
      BY <3>2, <3>3 DEF Entry
  <2> QED
    BY <1>3, <2>1, <2>2
<1> QED
  BY <1>4, <1>5, <1>6, <1>7, <1>8 DEF Advances, NodeInv

\* A node that keeps its stage and mode, or goes on to the next stage, stays in order.
LEMMA CalmStays ==
  ASSUME NEW x, NEW n \in Node, CalmAt(x, n), view'[n] = view[n], newView'[n] = newView[n],
         \/ stage'[n] = stage[n] /\ mode'[n] = mode[n]
         \/ /\ mode'[n] \in Partaking /\ stage'[n] \notin {"prePrepare", "collect"}
            /\ stage'[n] = "propose" => Leader(view[n]) = n
  PROVE  CalmAt(x, n)'
<1>1. CASE stage'[n] = stage[n] /\ mode'[n] = mode[n]
  BY <1>1 DEF CalmAt
<1>2. CASE /\ mode'[n] \in Partaking /\ stage'[n] \notin {"prePrepare", "collect"}
           /\ stage'[n] = "propose" => Leader(view[n]) = n
  BY <1>2 DEF CalmAt, Partaking
<1> QED
  BY <1>1, <1>2

\* Node n goes on with its round: the stage it leaves, the one it enters, the message it sends
LEMMA GoesOn ==
  ASSUME TypeOK, NEW n \in Node,
         \/ Propose(n) \/ PrePrepareReq(n) \/ LeaderPrepare(n)
         \/ Prepared(n) \/ NotPrepared(n) \/ ReadyDone(n) \/ Decided(n) \/ NotDecided(n)
         \/ CandidateReq(n) \/ CandidateRes(n) \/ Processed(n)
  PROVE  /\ Stays(n) /\ seq' = seq /\ timeouts' = timeouts
         /\ \/ /\ stage[n] \in {"collect", "prePrepare", "propose", "prepare", "ready", "commit",
                                "fetchCandidate", "process"}
               /\ mode'[n] \in {"consensus", "newView"}
               /\ stage'[n] \notin {"prePrepare", "collect"}
               /\ stage'[n] = "propose" => stage[n] = "collect"
               /\ stage'[n] \in Rounds => stage[n] \in Rounds \/ stage[n] = "propose"
            \/ stage'[n] = stage[n] /\ mode'[n] = mode[n]
         /\ \A m \in msgs' \ msgs :
               /\ m.type \notin {"amalgamate", "newView"}
               /\ m.type = "consensusFail" => m.from = n /\ Gives(n, m)
<1>1. CASE Propose(n)
  <2>1. PICK d : cand' = [cand EXCEPT ![n] = d] /\ msgs' = msgs \cup {PrePrepareMsg(n, d)}
    BY <1>1 DEF Propose, Broadcast
  <2>2. \A m \in msgs' \ msgs : m.type = "prePrepare"
    BY <2>1 DEF PrePrepareMsg
  <2>3. Stays(n) /\ seq' = seq /\ timeouts' = timeouts
    BY <1>1, <2>1 DEF Propose, Stays, Rest, EnterStage, position, change, TypeOK
  <2> QED
    BY <1>1, <2>2, <2>3 DEF Propose, EnterStage, TypeOK, Rounds
<1>2. CASE PrePrepareReq(n)
  <2>1. PICK d : cand' = [cand EXCEPT ![n] = d] /\ msgs' = msgs \cup {PrepareMsg(n, d)}
    BY <1>2 DEF PrePrepareReq, Broadcast
  <2>2. \A m \in msgs' \ msgs : m.type = "prepare"
    BY <2>1 DEF PrepareMsg
  <2>3. Stays(n) /\ seq' = seq /\ timeouts' = timeouts
    BY <1>2, <2>1 DEF PrePrepareReq, Stays, Rest, EnterStage, position, change, TypeOK
  <2> QED
    BY <1>2, <2>2, <2>3 DEF PrePrepareReq, EnterStage, TypeOK, Rounds
<1>3. CASE LeaderPrepare(n)
  <2>1. \A m \in msgs' \ msgs : m.type = "prepare"
    BY <1>3 DEF LeaderPrepare, Broadcast, PrepareMsg
  <2>2. Stays(n) /\ seq' = seq /\ timeouts' = timeouts
    BY <1>3 DEF LeaderPrepare, Stays, Rest, EnterStage, position, change, round, Broadcast, TypeOK
  <2> QED
    BY <1>3, <2>1, <2>2 DEF LeaderPrepare, EnterStage, TypeOK, Rounds
<1>4. CASE Prepared(n) \/ NotPrepared(n)
  <2>1. Stays(n) /\ seq' = seq /\ timeouts' = timeouts /\ msgs' = msgs
    BY <1>4 DEF Prepared, NotPrepared, Stays, Rest, EnterStage, position, change, round, net, TypeOK
  <2> QED
    BY <1>4, <2>1 DEF Prepared, NotPrepared, EnterStage, TypeOK, Rounds
<1>5. CASE ReadyDone(n)
  <2>1. msgs \subseteq msgs' /\ \A m \in msgs' \ msgs : m.type = "commit"
    BY <1>5 DEF ReadyDone, Broadcast, CommitMsg
  <2>2. Stays(n) /\ seq' = seq /\ timeouts' = timeouts
    BY <1>5, <2>1 DEF ReadyDone, Stays, Rest, EnterStage, position, change, round, TypeOK
  <2> QED
    BY <1>5, <2>1, <2>2 DEF ReadyDone, EnterStage, TypeOK, Rounds
<1>6. CASE Decided(n) \/ NotDecided(n)
  <2>1. \/ msgs' = msgs /\ stage' = [stage EXCEPT ![n] = "process"]
        \/ msgs' = msgs /\ stage' = [stage EXCEPT ![n] = "fetchCandidate"]
        \/ /\ msgs' = msgs \cup {FailMsg(n, PositionAt(n, view[n]))}
           /\ stage' = [stage EXCEPT ![n] = "consensusFail"]
    BY <1>6 DEF Decided, NotDecided, RunViewChangeForConsensusFail, EnterStage, Broadcast
  <2>2. /\ stage[n] = "commit" /\ mode' = mode /\ mode[n] \in {"consensus", "newView"}
        /\ view' = view /\ seq' = seq /\ cand' = cand /\ answers' = answers /\ timeouts' = timeouts
        /\ ballots' = ballots /\ newView' = newView
    BY <1>6 DEF Decided, NotDecided, RunViewChangeForConsensusFail, EnterStage, position, change,
                round
  <2>3. Stays(n) /\ timeouts' = timeouts
    BY <2>1, <2>2 DEF Stays, Rest, TypeOK
  <2>4. \A m \in msgs' \ msgs : /\ m.type = "consensusFail" /\ m.from = n
                                /\ stage'[n] = "consensusFail"
                                /\ m.position.view = view[n] /\ m.position.seq = seq[n]
    BY <2>1 DEF FailMsg, PositionAt, TypeOK
  <2>5. \A m \in msgs' \ msgs : Gives(n, m)
    BY <2>2, <2>4 DEF Gives
  <2>6. stage'[n] \in {"process", "fetchCandidate", "consensusFail"}
    BY <2>1 DEF TypeOK
  <2> QED
    BY <2>2, <2>3, <2>4, <2>5, <2>6 DEF Rounds
<1>7. CASE CandidateReq(n)
  <2>1. \A m \in msgs' \ msgs : m.type = "candidate"
    BY <1>7 DEF CandidateReq, Broadcast, CandidateMsg
  <2>2. Stays(n) /\ seq' = seq /\ timeouts' = timeouts /\ stage' = stage /\ mode' = mode
    BY <1>7 DEF CandidateReq, Stays, Rest, node, change, round, Broadcast
  <2> QED
    BY <2>1, <2>2
<1>8. CASE CandidateRes(n)
  <2>1. Stays(n) /\ seq' = seq /\ timeouts' = timeouts /\ msgs' = msgs
    BY <1>8 DEF CandidateRes, Stays, Rest, EnterStage, position, change, round, net, TypeOK
  <2> QED
    BY <1>8, <2>1 DEF CandidateRes, EnterStage, TypeOK, Rounds
<1>9. CASE Processed(n)
  <2>1. /\ stage[n] = "process"
        /\ mode' = [mode EXCEPT ![n] = "consensus"] /\ stage' = [stage EXCEPT ![n] = "processed"]
        /\ cand' = [cand EXCEPT ![n] = NoDigest]
    BY <1>9 DEF Processed, RunNewConsensusRound, Goto
  <2>2. Stays(n) /\ seq' = seq /\ timeouts' = timeouts /\ msgs' = msgs
    BY <1>9, <2>1 DEF Processed, Stays, Rest, position, net, TypeOK
  <2> QED
    BY <2>1, <2>2 DEF TypeOK, Rounds
<1> QED
  BY <1>1, <1>2, <1>3, <1>4, <1>5, <1>6, <1>7, <1>8, <1>9

\* The steps of a round
LEMMA RoundAdvances ==
  ASSUME TypeOK, TypeOK', NEW x, NEW n \in Node, NEW W \in Nat, Views(x, W),
         \/ Propose(n) \/ PrePrepareReq(n) \/ LeaderPrepare(n)
         \/ Prepared(n) \/ NotPrepared(n) \/ ReadyDone(n) \/ Decided(n) \/ NotDecided(n)
         \/ CandidateReq(n) \/ CandidateRes(n) \/ Processed(n)
  PROVE  Advances(x, n, W, W)
<1>1. CalmAt(x, n)
  BY DEF Views, NodeInv
<1>2. Stays(n) /\ seq' = seq /\ timeouts' = timeouts
  BY GoesOn
<1>3. \/ /\ stage[n] \in {"collect", "prePrepare", "propose", "prepare", "ready", "commit",
                          "fetchCandidate", "process"}
         /\ mode'[n] \in {"consensus", "newView"}
         /\ stage'[n] \notin {"prePrepare", "collect"}
         /\ stage'[n] = "propose" => stage[n] = "collect"
         /\ stage'[n] \in Rounds => stage[n] \in Rounds \/ stage[n] = "propose"
      \/ stage'[n] = stage[n] /\ mode'[n] = mode[n]
  BY GoesOn
<1>4. Tells(x, n, W)
  <2>1. \A m \in msgs' \ msgs : /\ m.type \notin {"amalgamate", "newView"}
                                /\ m.type = "consensusFail" => m.from = n /\ Gives(n, m)
    BY GoesOn
  <2> QED
    BY <2>1 DEF Tells, MessageIn
<1>5. CalmAt(x, n)'
  <2>1. stage'[n] = "propose" /\ stage[n] = "collect" => Leader(view[n]) = n
    BY <1>1 DEF CalmAt
  <2>2. view'[n] = view[n] /\ newView'[n] = newView[n]
    BY <1>2 DEF Stays
  <2> QED
    BY <1>1, <1>3, <2>1, <2>2, CalmStays DEF Partaking
<1>6. stage[n] \in {"waitView", "consensusFail"} => stage'[n] = stage[n] /\ mode'[n] = mode[n]
  BY <1>3
<1>7. stage'[n] \in Rounds => stage[n] \in Rounds \/ Leader(view[n]) = n
  BY <1>1, <1>3 DEF CalmAt
<1> QED
  BY <1>2, <1>4, <1>5, <1>6, <1>7, PlainAdvances

\* A follower takes up the sequence number of the request.
LEMMA RequestAdvances ==
  ASSUME ViewInv, TypeOK', NEW x, NEW n \in Node, NEW W \in Nat, Views(x, W),
         AmalgamateReq(n)
  PROVE  Advances(x, n, W, W)
<1>1. PICK m \in msgs : /\ m.type = "amalgamate" /\ m.from = Leader(view[n]) /\ m.seq > seq[n]
                        /\ MoveTo(n, view[n], m.seq)
  BY DEF AmalgamateReq
<1>2. PICK u \in 0 .. W : InRange(m.seq, u) /\ Leader(u) = m.from
  BY <1>1 DEF Views, MessageIn
<1>3. TypeOK /\ m.seq \in Nat /\ seq[n] \in Nat /\ view[n] \in Nat
  BY <1>1, Content DEF ViewInv, TypeOK
<1>4. /\ Leader(view[n]) # n /\ stage[n] = "amalgamate" /\ mode[n] = "consensus"
      /\ stage' = [stage EXCEPT ![n] = "prePrepare"] /\ mode' = mode
      /\ cand' = cand /\ newView' = newView /\ ballots' = ballots
      /\ answers' = answers /\ timeouts' = timeouts /\ msgs' = msgs
  BY DEF AmalgamateReq, EnterStage, round, change, net
<1>5. /\ view'[n] = view[n] /\ seq'[n] = m.seq /\ stage'[n] = "prePrepare"
      /\ \A q \in Node \ {n} : view'[q] = view[q] /\ seq'[q] = seq[q] /\ stage'[q] = stage[q]
  BY <1>1, <1>3, <1>4 DEF MoveTo, TypeOK
<1>6. Stays(n) /\ timeouts' = timeouts /\ Tells(x, n, W)
  BY <1>4, <1>5 DEF Stays, Rest, Tells
<1>7. m.seq <= HighWaterLine(W)
  <2>1. HighWaterLine(u) <= HighWaterLine(W) /\ HighWaterLine(u) \in Nat /\ HighWaterLine(W) \in Nat
    BY WaterRises, WaterLines
  <2> QED
    BY <1>2, <1>3, <2>1 DEF InRange
<1>8. CalmAt(x, n)'
  BY <1>4, <1>5 DEF Views, NodeInv, CalmAt, Partaking
<1>9. LagAt(x, n, W)'
  BY <1>1, <1>2, <1>4, <1>5 DEF LagAt
<1>10. RoundedAt(x, n)'
  <2>1. LowWaterLine(view[n]) <= seq[n] /\ LowWaterLine(view[n]) \in Nat
    BY <1>3, WaterLines DEF ViewInv, SequenceInView
  <2> QED
    BY <1>1, <1>3, <1>5, <2>1 DEF RoundedAt
<1> QED
  BY <1>1, <1>3, <1>4, <1>5, <1>6, <1>7, <1>8, <1>9, <1>10, StayAdvances

\* The vote a node sends, or counts, for the view after v
VoteOf(n, v) == [from |-> n, position |-> PositionAt(n, v)]

\* What it says
LEMMA VoteIs ==
  ASSUME TypeOK, NEW n \in Node, NEW v \in Nat
  PROVE  /\ VoteOf(n, v) \in Ballot /\ VoteOf(n, v).from = n
         /\ VoteOf(n, v).position.view = v /\ VoteOf(n, v).position.seq = seq[n]
<1>1. PositionAt(n, v) \in Position
  BY PositionType
<1> QED
  BY <1>1 DEF VoteOf, Ballot, PositionAt

\* Either the node counts its vote, or it sends it.
LEMMA VoteCases ==
  ASSUME TypeOK, NEW n \in Node, NEW v \in Nat, NEW m, VoteForNextView(n, v, m)
  PROVE  \/ /\ Tally(n, VoteOf(n, v), m) /\ LedBy(VoteOf(n, v), n) /\ timeouts' = timeouts
         \/ /\ timeouts' = timeouts \cup {[to |-> Leader(v + 1), vote |-> VoteOf(n, v)]}
            /\ Leader(v + 1) # n
            /\ mode' = [mode EXCEPT ![n] = m]
            /\ UNCHANGED <<view, seq, ballots, newView, msgs>>
  BY DEF VoteForNextView, VoteOf, LedBy, PositionAt, position

\* The vote of a node that has reached the high water line
LEMMA WaterVote ==
  ASSUME TypeOK, TypeOK', NEW x, Enough(x), NEW n \in Node, NEW W \in Nat, Views(x, W),
         AmalgamateRun(n), stage[n] # "newTwice", seq[n] >= HighWaterLine(view[n]),
         mode[n] # "newView"
  PROVE  \E V \in Nat : Advances(x, n, W, V)
<1> DEFINE b == VoteOf(n, view[n])
<1>1. /\ VoteForNextView(n, view[n], mode[n]) /\ mode[n] = "consensus"
      /\ stage[n] \in {"new", "processed"} /\ stage' = [stage EXCEPT ![n] = "waitView"]
      /\ cand' = cand /\ answers' = answers
  BY DEF AmalgamateRun, round
<1>2. view[n] \in Nat /\ seq[n] \in Nat /\ HighWaterLine(view[n]) <= seq[n]
  BY WaterLines DEF TypeOK
<1>3. /\ b \in Ballot /\ b.from = n /\ b.position.view = view[n] /\ b.position.seq = seq[n]
  BY <1>2, VoteIs
<1> HIDE DEF b
<1>4. stage'[n] = "waitView" /\ \A q \in Node \ {n} : stage'[q] = stage[q]
  BY <1>1 DEF TypeOK
<1>5. CASE Tally(n, b, "consensus") /\ LedBy(b, n) /\ timeouts' = timeouts
  <2>1. view'[n] > view[n] \/ view'[n] = view[n]
    <3>1. /\ Full(n, b) => view'[n] = b.position.view + 1
          /\ ~Full(n, b) => view'[n] = view[n]
      BY <1>3, <1>5, TallyEffect, Zenon
    <3> QED
      BY <1>2, <1>3, <3>1
  <2>2. Own(x, n, b)
    BY <1>1, <1>2, <1>3, <1>4, <2>1 DEF Own, Casts
  <2>3. Tallying(x, n, b, "consensus")
    BY <1>1, <1>4, <1>5, <2>2 DEF Tallying
  <2>4. CASE n # x
    BY <1>3, <2>3, <2>4, TallyAdvances
  <2>5. CASE n = x
    BY <1>3, <2>3, <2>5, OddTallyAdvances
  <2> QED
    BY <2>4, <2>5
<1>6. CASE /\ timeouts' = timeouts \cup {[to |-> Leader(view[n] + 1), vote |-> b]}
           /\ Leader(view[n] + 1) # n
           /\ mode' = [mode EXCEPT ![n] = mode[n]]
           /\ UNCHANGED <<view, seq, ballots, newView, msgs>>
  <2>1. mode' = mode
    BY <1>6 DEF TypeOK
  <2>2. Casts(n, b)
    BY <1>1, <1>2, <1>3, <1>4, <1>6 DEF Casts
  <2>3. Sends(x, n)
    <3> DEFINE s == [to |-> Leader(view[n] + 1), vote |-> b]
    <3>1. /\ timeouts' = timeouts \cup {s} /\ s.to # s.vote.from /\ s.vote = b
          /\ ballots'[n] = ballots[n]
      BY <1>3, <1>6
    <3> HIDE DEF s
    <3> QED
      BY <1>3, <2>2, <3>1 DEF Sends, Own
  <2>4. Stays(n) /\ Tells(x, n, W)
    BY <1>1, <1>4, <1>6, <2>1 DEF Stays, Rest, Tells
  <2>5. CalmAt(x, n)'
    BY <1>1, <1>4, <1>6, <2>1, CalmStays DEF Views, NodeInv, Partaking
  <2>6. Advances(x, n, W, W)
    BY <1>1, <1>4, <1>6, <2>3, <2>4, <2>5, PlainAdvances DEF Rounds
  <2> QED
    BY <2>6
<1>7. mode[n] = "consensus"
  BY <1>1
<1> QED
  BY <1>1, <1>2, <1>5, <1>6, <1>7, VoteCases DEF b

\* The beginning of a round
LEMMA BeginAdvances ==
  ASSUME ViewInv, TypeOK', NEW x, Enough(x), NEW n \in Node,
         NEW W \in Nat, Views(x, W),
         AmalgamateRun(n)
  PROVE  \E V \in Nat : Advances(x, n, W, V)
<1>1. /\ TypeOK /\ view[n] \in Nat /\ seq[n] \in Nat /\ HighWaterLine(view[n]) \in Nat
      /\ CalmAt(x, n)
  BY WaterLines DEF ViewInv, TypeOK, Views, NodeInv
<1>2. /\ stage[n] \in {"new", "processed", "newTwice"} /\ mode[n] \in {"consensus", "newView"}
      /\ cand' = cand /\ answers' = answers
  BY DEF AmalgamateRun, round
<1>3. CASE stage[n] = "newTwice"
  <2>1. /\ mode' = [mode EXCEPT ![n] = "exit"] /\ stage' = [stage EXCEPT ![n] = "amalgamate"]
        /\ UNCHANGED <<view, seq, ballots, newView, msgs, timeouts>>
    BY <1>3 DEF AmalgamateRun, Goto, position
  <2>2. mode'[n] = "exit" /\ stage'[n] = "amalgamate"
    BY <1>1, <2>1 DEF TypeOK
  <2>3. Stays(n) /\ Tells(x, n, W)
    BY <1>1, <1>2, <2>1 DEF Stays, Rest, Tells, TypeOK
  <2>4. CalmAt(x, n)'
    BY <1>1, <2>1, <2>2, CalmStays DEF Partaking
  <2>5. Advances(x, n, W, W)
    BY <1>1, <1>3, <2>1, <2>2, <2>3, <2>4, PlainAdvances DEF Rounds
  <2> QED
    BY <2>5
<1>4. CASE stage[n] # "newTwice" /\ seq[n] >= HighWaterLine(view[n]) /\ mode[n] = "newView"
  <2>1. /\ stage' = [stage EXCEPT ![n] = "waitView"]
        /\ UNCHANGED <<view, seq, mode, ballots, newView, msgs, timeouts>>
    BY <1>4 DEF AmalgamateRun, position
  <2>2. stage'[n] = "waitView"
    BY <1>1, <2>1 DEF TypeOK
  <2>3. Stays(n) /\ Tells(x, n, W)
    BY <1>1, <1>2, <2>1 DEF Stays, Rest, Tells, TypeOK
  <2>4. CalmAt(x, n)'
    BY <1>1, <1>2, <2>1, <2>2, CalmStays DEF Partaking
  <2>5. Advances(x, n, W, W)
    BY <1>1, <1>2, <2>1, <2>2, <2>3, <2>4, PlainAdvances DEF Rounds
  <2> QED
    BY <2>5
<1>5. CASE stage[n] # "newTwice" /\ seq[n] >= HighWaterLine(view[n]) /\ mode[n] # "newView"
  BY <1>1, <1>5, WaterVote
<1>6. CASE stage[n] # "newTwice" /\ seq[n] < HighWaterLine(view[n])
  <2>1. /\ UNCHANGED <<mode, ballots, newView, timeouts>>
        /\ \/ /\ Leader(view[n]) = n
              /\ stage' = [stage EXCEPT ![n] = "collect"]
              /\ MoveTo(n, view[n], seq[n] + 1)
              /\ msgs' = msgs \cup {AmalgamateMsg(n, seq[n] + 1)}
           \/ /\ stage' = [stage EXCEPT ![n] = "amalgamate"]
              /\ UNCHANGED <<view, seq, msgs>>
    BY <1>1, <1>6 DEF AmalgamateRun, EnterStage, Broadcast, position
  <2>2. CASE /\ stage' = [stage EXCEPT ![n] = "amalgamate"]
             /\ UNCHANGED <<view, seq, msgs>>
    <3>1. stage'[n] = "amalgamate"
      BY <1>1, <2>2 DEF TypeOK
    <3>2. Stays(n) /\ Tells(x, n, W)
      BY <1>1, <1>2, <2>1, <2>2 DEF Stays, Rest, Tells, TypeOK
    <3>3. CalmAt(x, n)'
      BY <1>1, <1>2, <2>1, <2>2, <3>1, CalmStays DEF Partaking
    <3>4. Advances(x, n, W, W)
      BY <1>1, <1>2, <2>1, <2>2, <3>1, <3>2, <3>3, PlainAdvances DEF Rounds
    <3> QED
      BY <3>4
  <2>3. CASE /\ Leader(view[n]) = n
             /\ stage' = [stage EXCEPT ![n] = "collect"]
             /\ MoveTo(n, view[n], seq[n] + 1)
             /\ msgs' = msgs \cup {AmalgamateMsg(n, seq[n] + 1)}
    <3>1. /\ view'[n] = view[n] /\ seq'[n] = seq[n] + 1 /\ stage'[n] = "collect"
          /\ \A q \in Node \ {n} : view'[q] = view[q] /\ seq'[q] = seq[q] /\ stage'[q] = stage[q]
      BY <1>1, <2>3 DEF MoveTo, TypeOK
    <3>2. LowWaterLine(view[n]) <= seq[n] /\ LowWaterLine(view[n]) \in Nat /\ view[n] <= W
      BY <1>1, WaterLines DEF ViewInv, SequenceInView, Views, NodeInv, BoundAt
    <3>3. InRange(seq[n] + 1, view[n])
      BY <1>1, <1>6, <3>2 DEF InRange
    <3>4. seq'[n] <= HighWaterLine(view[n]) /\ seq'[n] <= HighWaterLine(W)
      <4>1. HighWaterLine(view[n]) <= HighWaterLine(W) /\ HighWaterLine(W) \in Nat
        BY <1>1, <3>2, WaterRises, WaterLines
      <4> QED
        BY <1>1, <1>6, <3>1, <4>1
    <3>5. \A m \in msgs' \ msgs : MessageIn(m, W) /\ m.type = "amalgamate"
      <4>1. \A m \in msgs' \ msgs : m.type = "amalgamate" /\ m.from = n /\ m.seq = seq[n] + 1
        BY <2>3 DEF AmalgamateMsg
      <4> QED
        BY <1>1, <2>3, <3>2, <3>3, <4>1 DEF MessageIn
    <3>6. Stays(n) /\ Tells(x, n, W)
      BY <1>2, <2>1, <2>3, <3>1, <3>5 DEF Stays, Rest, Tells
    <3>7. CalmAt(x, n)'
      BY <1>1, <1>2, <2>1, <2>3, <3>1 DEF CalmAt, Partaking
    <3>8. LagAt(x, n, W)' /\ RoundedAt(x, n)'
      BY <1>1, <2>3, <3>1, <3>4 DEF LagAt, RoundedAt
    <3>9. Advances(x, n, W, W)
      BY <1>1, <1>2, <2>1, <3>1, <3>4, <3>6, <3>7, <3>8, StayAdvances
    <3> QED
      BY <3>9
  <2> QED
    BY <2>1, <2>2, <2>3
<1> QED
  BY <1>1, <1>3, <1>4, <1>5, <1>6

\* A vote that arrives
LEMMA VoteAdvances ==
  ASSUME ViewInv, TypeOK', NEW x, Enough(x), NEW n \in Node,
         NEW W \in Nat, Views(x, W),
         TimeoutVote(n)
  PROVE  \E V \in Nat : Advances(x, n, W, V)
<1>1. PICK t \in timeouts : /\ t.to = n /\ timeouts' = timeouts \ {t}
                            /\ Tally(n, t.vote, mode[n])
  BY DEF TimeoutVote
<1>2. /\ TypeOK /\ mode[n] = "consensus" /\ stage' = stage /\ cand' = cand /\ answers' = answers
      /\ t.vote \in Ballot /\ LedBy(t.vote, n)
  BY <1>1 DEF TimeoutVote, round, ViewInv, TypeOK, VotesLed
<1>3. Tallying(x, n, t.vote, "consensus")
  BY <1>1, <1>2 DEF Tallying
<1>4. CASE n # x
  BY <1>2, <1>3, <1>4, TallyAdvances
<1>5. CASE n = x
  BY <1>2, <1>3, <1>5, OddTallyAdvances
<1> QED
  BY <1>4, <1>5

\* What a step that ends a view change does besides
LEMMA LeaveRest ==
  ASSUME TypeOK, NEW n \in Node, FailVoteSuccess(n) \/ NewViewReq(n) \/ NewViewDone(n)
  PROVE  /\ LeaveViewChange(n, mode[n]) \/ LeaveViewChange(n, "newView")
         /\ mode[n] \in {"consensus", "newView"}
         /\ msgs' = msgs /\ timeouts' = timeouts /\ answers' = answers
         /\ Rest(n) /\ ballots'[n] = {} /\ newView'[n] = FALSE
         /\ mode'[n] \in {"consensus", "newView"}
         /\ stage'[n] \in {"new", "newTwice", "process", "processed"}
<1>1. /\ LeaveViewChange(n, mode[n]) \/ LeaveViewChange(n, "newView")
      /\ mode[n] \in {"consensus", "newView"}
      /\ msgs' = msgs /\ timeouts' = timeouts /\ answers' = answers
      /\ \A q \in Node \ {n} : view'[q] = view[q] /\ seq'[q] = seq[q]
  <2>1. CASE FailVoteSuccess(n)
    BY <2>1 DEF FailVoteSuccess, net, EnterView, MoveTo, TypeOK
  <2>2. CASE NewViewReq(n)
    BY <2>2 DEF NewViewReq, net, EnterView, MoveTo, TypeOK
  <2>3. CASE NewViewDone(n)
    BY <2>3 DEF NewViewDone, net, position
  <2> QED
    BY <2>1, <2>2, <2>3
<1>2. /\ ballots' = [ballots EXCEPT ![n] = {}]
      /\ newView' = [newView EXCEPT ![n] = FALSE]
  BY <1>1 DEF LeaveViewChange
<1>3. /\ mode'[n] \in {"consensus", "newView"}
      /\ stage'[n] \in {"new", "newTwice", "process", "processed"}
      /\ \A q \in Node \ {n} : mode'[q] = mode[q] /\ stage'[q] = stage[q] /\ cand'[q] = cand[q]
  <2>1. CASE stage[n] \notin {"process", "processed"}
    <3>1. RunNewConsensusRound(n, "new")
      BY <1>1, <2>1 DEF LeaveViewChange
    <3> QED
      BY <3>1 DEF RunNewConsensusRound, Goto, TypeOK
  <2>2. CASE stage[n] \in {"process", "processed"}
    BY <1>1, <2>2 DEF LeaveViewChange, round, TypeOK
  <2> QED
    BY <2>1, <2>2
<1>4. Rest(n) /\ ballots'[n] = {} /\ newView'[n] = FALSE
  BY <1>1, <1>2, <1>3 DEF Rest, TypeOK
<1> QED
  BY <1>1, <1>3, <1>4

\* Where a quorum of failed rounds leads
LEMMA FailLeads ==
  ASSUME ViewInv, NEW x, Enough(x), NEW n \in Node, NEW W \in Nat, Views(x, W),
         FailVoteSuccess(n)
  PROVE  \E w \in Nat : /\ view'[n] = w + 1 /\ seq'[n] = LowWaterLine(w + 1) /\ w <= W
                        /\ seq[n] <= HighWaterLine(w)
                        /\ FailQuorum(x, w)
                        /\ w = W => Reached(x, W + 1)
<1>1. PICK m \in msgs : /\ m.type = "consensusFail" /\ m.position.seq = seq[n]
                        /\ Agreed(n, FailVoters(m.position), PositionAt(n, view[n]), m.position)
                        /\ EnterView(n, NextView(m.position))
  BY DEF FailVoteSuccess
<1>2. TypeOK /\ m.position \in Position
  BY <1>1, Content DEF ViewInv, TypeOK
<1>3. PICK A \in Quorum : A \subseteq FailVoters(m.position)
  BY <1>1 DEF Agreed
<1>4. \A q \in A : \E k \in Fails : k.from = q /\ k.position = m.position
  <2> TAKE q \in A
  <2>1. FailMsg(q, m.position) \in Fails
    BY <1>3 DEF FailVoters, Fails, FailMsg
  <2>2. FailMsg(q, m.position).from = q /\ FailMsg(q, m.position).position = m.position
    BY DEF FailMsg
  <2> QED
    BY <2>1, <2>2
<1>5. /\ m.position.view <= W /\ m.position.seq <= HighWaterLine(m.position.view)
      /\ FailQuorum(x, m.position.view)
      /\ m.position.view = W => Reached(x, W + 1)
  BY <1>2, <1>4, FailedQuorum
<1>6. /\ view'[n] = m.position.view + 1 /\ seq'[n] = LowWaterLine(m.position.view + 1)
      /\ m.position.view \in Nat
  BY <1>1, <1>2 DEF EnterView, MoveTo, NextView, TypeOK, Position
<1> QED
  BY <1>1, <1>5, <1>6

\* A view that ends in a failed consensus
LEMMA FailAdvances ==
  ASSUME ViewInv, TypeOK', NEW x, Enough(x), NEW n \in Node, n # x,
         NEW W \in Nat, Views(x, W), FailVoteSuccess(n)
  PROVE  \E V \in Nat : Advances(x, n, W, V)
<1>1. PICK w \in Nat : /\ view'[n] = w + 1 /\ seq'[n] = LowWaterLine(w + 1) /\ w <= W
                       /\ seq[n] <= HighWaterLine(w)
                       /\ FailQuorum(x, w)
                       /\ w = W => Reached(x, W + 1)
  BY FailLeads
<1>2. /\ TypeOK /\ view[n] \in Nat /\ seq[n] \in Nat /\ w + 1 \in Nat
      /\ LowWaterLine(view[n]) <= seq[n] /\ LowWaterLine(view[n]) \in Nat
  <2>1. TypeOK /\ LowWaterLine(view[n]) <= seq[n]
    BY DEF ViewInv, SequenceInView
  <2>2. view[n] \in Nat /\ seq[n] \in Nat
    BY <2>1 DEF TypeOK
  <2> QED
    BY <2>1, <2>2, WaterLines
<1>3. /\ HighWaterLine(w) = LowWaterLine(w + 1) /\ LowWaterLine(w + 1) < HighWaterLine(w + 1)
      /\ LowWaterLine(w + 1) \in Nat /\ HighWaterLine(w + 1) \in Nat
  BY <1>2, WaterMeets, WaterLines
<1>4. view[n] <= w + 1
  <2> SUFFICES ASSUME w + 1 < view[n] PROVE FALSE
    BY <1>2
  <2>1. HighWaterLine(w + 1) <= LowWaterLine(view[n])
    BY <1>2, WaterApart
  <2> QED
    BY <1>1, <1>2, <1>3, <2>1
<1>5. view'[n] = view[n] => Leader(view[n]) = n
  <2> SUFFICES ASSUME view[n] = w + 1, Leader(view[n]) # n PROVE FALSE
    BY <1>1
  <2>1. stage[n] = "consensusFail"
    BY DEF FailVoteSuccess
  <2>2. LowWaterLine(w + 1) < seq[n]
    BY <2>1 DEF Views, NodeInv, RoundedAt, Rounds
  <2> QED
    BY <1>1, <1>2, <1>3, <2>2
<1>6. \E Q \in Quorum : Spent(x, w, Q)
  <2>1. PICK Q \in Quorum : \A q \in Q : q \notin Odd(x, w) => Failed(q, w)
    BY <1>1 DEF FailQuorum
  <2> QED
    BY <1>2, <2>1, FailedSpent DEF Views, VoteInv
<1>7. msgs' = msgs
  BY <1>2, LeaveRest
<1>8. PICK V \in Nat : w + 1 <= V /\ (V = W \/ (V = W + 1 /\ w = W))
  <2>1. CASE w = W
    BY <2>1
  <2>2. CASE w # W
    BY <1>1, <2>2
  <2> QED
    BY <2>1, <2>2
<1>9. V = W \/ (V = W + 1 /\ Reached(x, V) /\ Passed(x, W)')
  <2>1. FailQuorum(x, w)'
    BY <1>1, <1>7 DEF FailQuorum, Failed, Fails
  <2> QED
    BY <1>1, <1>8, <2>1 DEF Passed
<1>10. LagAt(x, n, V)' /\ seq'[n] <= HighWaterLine(V) /\ seq[n] <= seq'[n]
  <2>1. HighWaterLine(w + 1) <= HighWaterLine(V) /\ HighWaterLine(V) \in Nat
    BY <1>2, <1>8, WaterRises, WaterLines
  <2> QED
    BY <1>1, <1>2, <1>3, <2>1 DEF LagAt
<1>11. \A z \in Nat : /\ view[n] < view'[n] /\ view'[n] = z + 1 /\ Leader(z + 1) = n
                      => \E Q \in Quorum : Spent(x, z, Q)
  <2>1. \A z \in Nat : view'[n] = z + 1 => z = w
    BY <1>1
  <2> QED
    BY <1>6, <2>1
<1>12. view[n] <= view'[n] /\ view'[n] <= V
  BY <1>1, <1>4, <1>8
<1>13. Advances(x, n, W, V)
  BY <1>2, <1>5, <1>9, <1>10, <1>11, <1>12, LeaveRest, LeaveAdvances
<1> QED
  BY <1>13

\* A new view of another node
LEMMA NewViewAdvances ==
  ASSUME ViewInv, TypeOK', NEW x, NEW n \in Node, n # x,
         NEW W \in Nat, Views(x, W), NewViewReq(n)
  PROVE  Advances(x, n, W, W)
<1>1. PICK m \in msgs : /\ m.type = "newView" /\ m.from # n
                        /\ NextView(m.position) > view[n] /\ m.position.seq = seq[n]
                        /\ EnterView(n, NextView(m.position))
  BY DEF NewViewReq
<1> DEFINE w == m.position.view
<1>2. TypeOK /\ w \in Nat /\ view[n] \in Nat
  BY <1>1, Content DEF ViewInv, TypeOK, Position
<1>3. w < W /\ seq[n] = HighWaterLine(w)
  BY <1>1 DEF Views, MessageIn
<1>4. view'[n] = w + 1 /\ seq'[n] = LowWaterLine(w + 1) /\ view[n] < w + 1
  BY <1>1, <1>2 DEF EnterView, MoveTo, NextView, TypeOK
<1>5. Leader(w + 1) # n
  BY <1>1 DEF ViewInv, NewViewLed
<1>6. /\ HighWaterLine(w) = LowWaterLine(w + 1) /\ LowWaterLine(w + 1) < HighWaterLine(w + 1)
      /\ HighWaterLine(w + 1) <= HighWaterLine(W)
      /\ LowWaterLine(w + 1) \in Nat /\ HighWaterLine(w + 1) \in Nat /\ HighWaterLine(W) \in Nat
  <2>1. w + 1 \in Nat /\ w + 1 <= W
    BY <1>2, <1>3
  <2> QED
    BY <1>2, <2>1, WaterMeets, WaterRises, WaterLines
<1>7. LagAt(x, n, W)' /\ seq'[n] <= HighWaterLine(W) /\ seq[n] <= seq'[n]
  BY <1>3, <1>4, <1>6 DEF LagAt
<1>8. view[n] <= view'[n] /\ view'[n] <= W /\ view'[n] # view[n]
  BY <1>2, <1>3, <1>4
<1>9. \A z \in Nat : ~(view'[n] = z + 1 /\ Leader(z + 1) = n)
  BY <1>4, <1>5
<1> QED
  BY <1>2, <1>7, <1>8, <1>9, LeaveRest, LeaveAdvances

\* The end of the node's own new view
LEMMA NewViewEnds ==
  ASSUME TypeOK, TypeOK', NEW x, NEW n \in Node, n # x,
         NEW W \in Nat, Views(x, W), NewViewDone(n)
  PROVE  Advances(x, n, W, W)
<1>1. newView[n] /\ view' = view /\ seq' = seq
  BY DEF NewViewDone, position
<1>2. Leader(view[n]) = n /\ view[n] <= W /\ seq[n] <= HighWaterLine(W) /\ LagAt(x, n, W)
  BY <1>1 DEF Views, NodeInv, CalmAt, BoundAt
<1>3. view[n] \in Nat /\ seq[n] \in Nat
  BY DEF TypeOK
<1>4. LagAt(x, n, W)'
  BY <1>1, <1>2 DEF LagAt
<1>5. view[n] <= view'[n] /\ seq[n] <= seq'[n] /\ ~(view[n] < view'[n])
  BY <1>1, <1>3
<1> QED
  BY <1>1, <1>2, <1>4, <1>5, LeaveRest, LeaveAdvances

-----------------------------------------------------------------------------
(* Node x may also restart, wait in vain and synchronise. *)

\* A step of node x that sends no message leaves the latest view.
LEMMA OddStill ==
  ASSUME TypeOK, TypeOK', NEW x \in Node, NEW W \in Nat, Views(x, W),
         Rest(x), msgs' = msgs, timeouts' = timeouts \/ Sends(x, x),
         ballots'[x] = ballots[x] \/ (ballots'[x] = {} /\ timeouts' = timeouts),
         answers'[x] \subseteq answers[x],
         view'[x] <= W, seq'[x] = seq[x] \/ seq'[x] <= HighWaterLine(W),
         CalmAt(x, x)'
  PROVE  Advances(x, x, W, W)
<1>1. Tells(x, x, W) /\ msgs \subseteq msgs'
  BY DEF Tells
<1>2. Sends(x, x) \/ Counts(x, x)
  BY DEF Counts
<1>3. OnceAt(x)'
  BY DEF Views, NodeInv, OnceAt
<1>4. BoundAt(x, W)'
  <2>1. seq'[x] <= seq[x] \/ seq'[x] <= HighWaterLine(W)
    <3>1. seq[x] \in Nat
      BY DEF TypeOK
    <3> QED
      BY <3>1
  <2> QED
    BY <2>1, BoundMore DEF Views, NodeInv
<1> QED
  BY <1>1, <1>2, <1>3, <1>4, OddAdvances

\* Votes cast in vain
LEMMA OddVotes ==
  ASSUME TypeOK, TypeOK', NEW x \in Node, Enough(x), NEW W \in Nat, Views(x, W),
         NEW v \in Nat, NEW m \in {"consensus", "fetchChain"}, VoteForNextView(x, v, m),
         mode[x] = "consensus", stage[x] \in {"amalgamate", "prePrepare", "waitView"},
         stage' = stage, answers' = answers, cand' = cand
  PROVE  \E V \in Nat : Advances(x, x, W, V)
<1> DEFINE b == VoteOf(x, v)
<1>1. b \in Ballot /\ b.from = x
  BY VoteIs
<1> HIDE DEF b
<1>2. CASE Tally(x, b, m) /\ LedBy(b, x) /\ timeouts' = timeouts
  <2>1. Own(x, x, b)
    BY <1>1 DEF Own
  <2>2. Tallying(x, x, b, m)
    BY <1>2, <2>1 DEF Tallying
  <2> QED
    BY <1>1, <2>2, OddTallyAdvances
<1>3. CASE /\ timeouts' = timeouts \cup {[to |-> Leader(v + 1), vote |-> b]}
           /\ Leader(v + 1) # x
           /\ mode' = [mode EXCEPT ![x] = m]
           /\ UNCHANGED <<view, seq, ballots, newView, msgs>>
  <2>1. mode'[x] = m /\ \A q \in Node \ {x} : mode'[q] = mode[q]
    BY <1>3 DEF TypeOK
  <2>2. Rest(x)
    BY <1>3, <2>1 DEF Rest
  <2>3. Sends(x, x)
    <3> DEFINE s == [to |-> Leader(v + 1), vote |-> b]
    <3>1. /\ timeouts' = timeouts \cup {s} /\ s.to # s.vote.from /\ s.vote = b
          /\ ballots'[x] = ballots[x]
      BY <1>1, <1>3
    <3> HIDE DEF s
    <3> QED
      BY <1>1, <3>1 DEF Sends, Own
  <2>4. CalmAt(x, x)'
    BY <1>3, <2>1 DEF CalmAt
  <2>5. view'[x] <= W /\ seq'[x] = seq[x]
    BY <1>3 DEF Views, NodeInv, BoundAt
  <2>6. Advances(x, x, W, W)
    BY <1>3, <2>2, <2>3, <2>4, <2>5, OddStill
  <2> QED
    BY <2>6
<1> QED
  BY <1>2, <1>3, VoteCases DEF b

\* The timers
LEMMA OddExpires ==
  ASSUME TypeOK, TypeOK', NEW x \in Node, Enough(x), NEW W \in Nat, Views(x, W),
         \/ FailVoteExpire(x) \/ CandidateExpire(x) \/ LeaderExpire(x)
         \/ LeaderExpireInNewView(x) \/ InvalidSequenceExpire(x)
  PROVE  \E V \in Nat : Advances(x, x, W, V)
<1>1. view[x] <= W /\ view[x] \in Nat /\ tries[x] \in Nat /\ CalmAt(x, x)
  BY DEF Views, NodeInv, BoundAt, TypeOK
<1>2. CASE FailVoteExpire(x) \/ CandidateExpire(x)
  <2>1. /\ mode' = [mode EXCEPT ![x] = "fetchChain"] /\ stage' = [stage EXCEPT ![x] = "synced"]
        /\ UNCHANGED <<view, seq, cand, ballots, newView, answers, msgs, timeouts>>
    BY <1>2 DEF FailVoteExpire, CandidateExpire, SyncProcessState, Goto, position,
                round, change, net
  <2>2. mode'[x] = "fetchChain" /\ stage'[x] = "synced" /\ Rest(x)
    BY <2>1 DEF Rest, TypeOK
  <2>3. CalmAt(x, x)'
    BY <2>2 DEF CalmAt
  <2>4. Advances(x, x, W, W)
    BY <1>1, <2>1, <2>2, <2>3, OddStill
  <2> QED
    BY <2>4
<1>3. CASE LeaderExpire(x)
  BY <1>1, <1>3, OddVotes DEF LeaderExpire, round
<1>4. CASE LeaderExpireInNewView(x)
  <2> DEFINE s == [to |-> Leader(view[x] + 1), vote |-> VoteOf(x, view[x])]
  <2>1. /\ timeouts' = timeouts \cup {s} /\ Leader(view[x] + 1) # x
        /\ UNCHANGED <<view, seq, mode, stage, cand, ballots, newView, answers, msgs>>
    BY <1>4 DEF LeaderExpireInNewView, node, round, change, VoteOf
  <2>2. s.to # s.vote.from /\ s.vote.from = x
    BY <1>1, <2>1, VoteIs
  <2> HIDE DEF s
  <2>3. Sends(x, x) /\ Rest(x)
    BY <2>1, <2>2 DEF Sends, Own, Rest
  <2>4. CalmAt(x, x)'
    BY <1>1, <2>1 DEF CalmAt
  <2>5. Advances(x, x, W, W)
    BY <1>1, <2>1, <2>3, <2>4, OddStill
  <2> QED
    BY <2>5
<1>5. CASE InvalidSequenceExpire(x) /\ tries[x] >= N
  <2>1. /\ mode' = [mode EXCEPT ![x] = "fetchChain"] /\ stage[x] = "waitView"
        /\ UNCHANGED <<view, seq, stage, cand, ballots, newView, answers, msgs, timeouts>>
    BY <1>5 DEF InvalidSequenceExpire, position, round, change
  <2>2. mode'[x] = "fetchChain" /\ stage'[x] = "waitView" /\ Rest(x)
    BY <2>1 DEF Rest, TypeOK
  <2>3. CalmAt(x, x)'
    BY <2>2 DEF CalmAt
  <2>4. Advances(x, x, W, W)
    BY <1>1, <2>1, <2>2, <2>3, OddStill
  <2> QED
    BY <2>4
<1>6. CASE InvalidSequenceExpire(x) /\ ~(tries[x] >= N)
  <2>1. view[x] + tries[x] + 1 \in Nat
    BY <1>1
  <2>2. /\ VoteForNextView(x, view[x] + tries[x] + 1, "consensus")
        /\ mode[x] = "consensus" /\ stage[x] = "waitView"
        /\ stage' = stage /\ answers' = answers /\ cand' = cand
    BY <1>6 DEF InvalidSequenceExpire, round
  <2> QED
    BY <2>1, <2>2, OddVotes
<1> QED
  BY <1>2, <1>3, <1>4, <1>5, <1>6

\* The end of a view change
LEMMA OddLeaves ==
  ASSUME ViewInv, TypeOK', NEW x \in Node, Enough(x), NEW W \in Nat, Views(x, W),
         FailVoteSuccess(x) \/ NewViewReq(x) \/ NewViewDone(x)
  PROVE  \E V \in Nat : Advances(x, x, W, V)
<1>1. /\ TypeOK /\ view[x] <= W /\ view[x] \in Nat /\ BoundAt(x, W)
  BY DEF Views, NodeInv, BoundAt, ViewInv, TypeOK
<1>2. /\ msgs' = msgs /\ timeouts' = timeouts /\ answers'[x] = answers[x]
      /\ Rest(x) /\ ballots'[x] = {}
  BY <1>1, LeaveRest
<1>3. CalmAt(x, x)'
  <2>1. /\ mode'[x] \in {"consensus", "newView"}
        /\ stage'[x] \in {"new", "newTwice", "process", "processed"}
    BY <1>1, LeaveRest
  <2> QED
    BY <2>1 DEF CalmAt
<1>4. CASE FailVoteSuccess(x)
  <2>1. PICK w \in Nat : /\ view'[x] = w + 1 /\ seq'[x] = LowWaterLine(w + 1) /\ w <= W
                         /\ FailQuorum(x, w)
                         /\ w = W => Reached(x, W + 1)
    BY <1>4, FailLeads
  <2>2. PICK V \in Nat : w + 1 <= V /\ (V = W \/ (V = W + 1 /\ w = W))
    <3>1. CASE w = W
      BY <3>1
    <3>2. CASE w # W
      BY <2>1, <3>2
    <3> QED
      BY <3>1, <3>2
  <2>3. V = W \/ (V = W + 1 /\ Reached(x, V) /\ Passed(x, W)')
    <3>1. FailQuorum(x, w)'
      BY <1>2, <2>1 DEF FailQuorum, Failed, Fails
    <3> QED
      BY <2>1, <2>2, <3>1 DEF Passed
  <2>4. Tells(x, x, V) /\ msgs \subseteq msgs' /\ Counts(x, x) /\ OnceAt(x)'
    BY <1>2 DEF Tells, Counts, OnceAt
  <2>5. BoundAt(x, V)'
    <3>1. /\ LowWaterLine(w + 1) < HighWaterLine(w + 1) /\ HighWaterLine(w + 1) <= HighWaterLine(V)
          /\ LowWaterLine(w + 1) \in Nat /\ HighWaterLine(w + 1) \in Nat /\ HighWaterLine(V) \in Nat
      <4>1. w + 1 \in Nat
        OBVIOUS
      <4> QED
        BY <2>2, <4>1, WaterMeets, WaterRises, WaterLines
    <3>2. view'[x] <= V /\ seq'[x] <= HighWaterLine(V) /\ W <= V
      BY <2>1, <2>2, <3>1
    <3> QED
      BY <1>1, <1>2, <3>2, BoundMore
  <2>6. Advances(x, x, W, V)
    BY <1>1, <1>2, <1>3, <2>3, <2>4, <2>5, OddAdvances
  <2> QED
    BY <2>6
<1>5. CASE NewViewReq(x)
  <2>1. PICK m \in msgs : m.type = "newView" /\ EnterView(x, NextView(m.position))
    BY <1>5 DEF NewViewReq
  <2> DEFINE w == m.position.view
  <2>2. w \in Nat /\ w < W
    BY <1>1, <2>1, Content DEF TypeOK, Position, Views, MessageIn
  <2>3. view'[x] = w + 1 /\ seq'[x] = LowWaterLine(w + 1)
    BY <1>1, <2>1, <2>2 DEF EnterView, MoveTo, NextView, TypeOK
  <2>4. /\ LowWaterLine(w + 1) < HighWaterLine(w + 1) /\ HighWaterLine(w + 1) <= HighWaterLine(W)
        /\ LowWaterLine(w + 1) \in Nat /\ HighWaterLine(w + 1) \in Nat /\ HighWaterLine(W) \in Nat
    <3>1. w + 1 \in Nat /\ w + 1 <= W
      BY <2>2
    <3> QED
      BY <3>1, WaterMeets, WaterRises, WaterLines
  <2>5. view'[x] <= W /\ seq'[x] <= HighWaterLine(W)
    BY <2>2, <2>3, <2>4
  <2>6. Advances(x, x, W, W)
    BY <1>1, <1>2, <1>3, <2>5, OddStill
  <2> QED
    BY <2>6
<1>6. CASE NewViewDone(x)
  <2>1. view' = view /\ seq' = seq
    BY <1>6 DEF NewViewDone, position
  <2>2. Advances(x, x, W, W)
    BY <1>1, <1>2, <1>3, <2>1, OddStill
  <2> QED
    BY <2>2
<1> QED
  BY <1>4, <1>5, <1>6

\* Synchronisation and restart
LEMMA OddSyncs ==
  ASSUME TypeOK, TypeOK', NEW x \in Node, NEW W \in Nat, Views(x, W),
         SyncBlock(x) \/ SyncEnd(x) \/ StateSuccess(x) \/ Restart(x)
  PROVE  Advances(x, x, W, W)
<1>1. /\ view[x] <= W /\ view[x] \in Nat /\ BoundAt(x, W) /\ CalmAt(x, x)
      /\ HighWaterLine(W) \in Nat
  BY WaterLines DEF Views, NodeInv, BoundAt, TypeOK
<1>2. CASE SyncBlock(x)
  <2>1. /\ mode[x] = "fetchChain" /\ mode' \in {mode, [mode EXCEPT ![x] = "exit"]}
        /\ UNCHANGED <<view, seq, stage, cand, ballots, newView, answers, msgs, timeouts>>
    BY <1>2 DEF SyncBlock, position, round, change, net
  <2>2. mode'[x] \in {"fetchChain", "exit"} /\ Rest(x)
    BY <2>1 DEF Rest, TypeOK
  <2>3. CalmAt(x, x)'
    BY <1>1, <2>1, <2>2 DEF CalmAt, Partaking
  <2> QED
    BY <1>1, <2>1, <2>2, <2>3, OddStill
<1>3. CASE SyncEnd(x)
  <2>1. /\ mode' = [mode EXCEPT ![x] = "fetchState"] /\ stage' = [stage EXCEPT ![x] = "synced"]
        /\ view' = [view EXCEPT ![x] = 0] /\ seq' = [seq EXCEPT ![x] = 0]
        /\ UNCHANGED <<cand, ballots, newView, answers, msgs, timeouts>>
    BY <1>3 DEF SyncEnd, Goto, MoveTo, round, change, net
  <2>2. mode'[x] = "fetchState" /\ stage'[x] = "synced" /\ view'[x] = 0 /\ seq'[x] = 0 /\ Rest(x)
    BY <2>1 DEF Rest, TypeOK
  <2>3. CalmAt(x, x)'
    BY <2>2 DEF CalmAt
  <2> QED
    BY <1>1, <2>1, <2>2, <2>3, OddStill
<1>4. CASE StateSuccess(x)
  <2>1. PICK a \in answers[x] :
           /\ MoveTo(x, a.position.view, a.position.seq)
           /\ IF a.position.parent = Hash(x)
                THEN RunNewConsensusRound(x, "new")
                ELSE /\ mode' = [mode EXCEPT ![x] = "fetchChain"]
                     /\ UNCHANGED <<stage, round, tries>>
           /\ answers' = [answers EXCEPT ![x] = @ \ SamePosition(@, a)]
    BY <1>4 DEF StateSuccess
  <2>2. /\ mode[x] = "fetchState" /\ stage[x] = "synced"
        /\ UNCHANGED <<ballots, newView, msgs, timeouts>>
    BY <1>1, <1>4 DEF StateSuccess, CalmAt
  <2>3. a.position.view <= W /\ a.position.seq <= HighWaterLine(W)
    BY <1>1 DEF BoundAt
  <2>4. /\ view'[x] = a.position.view /\ seq'[x] = a.position.seq
        /\ answers'[x] \subseteq answers[x]
        /\ \A q \in Node \ {x} : view'[q] = view[q] /\ seq'[q] = seq[q] /\ answers'[q] = answers[q]
    BY <2>1 DEF MoveTo, TypeOK
  <2>5. /\ \/ mode'[x] = "consensus" /\ stage'[x] \in {"new", "newTwice"}
           \/ mode'[x] = "fetchChain" /\ stage'[x] = "synced"
        /\ \A q \in Node \ {x} : mode'[q] = mode[q] /\ stage'[q] = stage[q] /\ cand'[q] = cand[q]
    <3>1. CASE a.position.parent = Hash(x)
      BY <2>1, <3>1 DEF RunNewConsensusRound, Goto, TypeOK
    <3>2. CASE a.position.parent # Hash(x)
      BY <2>1, <2>2, <3>2 DEF round, TypeOK
    <3> QED
      BY <3>1, <3>2
  <2>6. Rest(x)
    BY <2>2, <2>4, <2>5 DEF Rest
  <2>7. CalmAt(x, x)'
    BY <2>5 DEF CalmAt
  <2> QED
    BY <2>2, <2>3, <2>4, <2>6, <2>7, OddStill
<1>5. CASE Restart(x)
  <2>1. /\ mode' = [mode EXCEPT ![x] = "fetchChain"] /\ stage' = [stage EXCEPT ![x] = "idle"]
        /\ view' = [view EXCEPT ![x] = 0] /\ seq' = [seq EXCEPT ![x] = 0]
        /\ cand' = [cand EXCEPT ![x] = NoDigest] /\ ballots' = [ballots EXCEPT ![x] = {}]
        /\ newView' = [newView EXCEPT ![x] = FALSE] /\ answers' = [answers EXCEPT ![x] = {}]
        /\ UNCHANGED <<msgs, timeouts>>
    BY <1>5 DEF Restart, Goto, MoveTo
  <2>2. /\ mode'[x] = "fetchChain" /\ stage'[x] = "idle" /\ view'[x] = 0 /\ seq'[x] = 0
        /\ ballots'[x] = {} /\ answers'[x] = {}
    BY <2>1 DEF TypeOK
  <2>3. Rest(x)
    BY <2>1 DEF Rest, TypeOK
  <2>4. CalmAt(x, x)'
    BY <2>2 DEF CalmAt
  <2> QED
    BY <1>1, <2>1, <2>2, <2>3, <2>4, OddStill
<1> QED
  BY <1>2, <1>3, <1>4, <1>5

\* An answer to the synchronisation of node x
LEMMA AnswerAdvances ==
  ASSUME TypeOK, TypeOK', NEW x \in Node, NEW p \in Node, NEW W \in Nat, Views(x, W),
         StateAnswer(p, x)
  PROVE  Advances(x, x, W, W)
<1> DEFINE a == [from |-> p, position |-> PositionAt(p, view[p])]
<1>1. /\ answers' = [answers EXCEPT ![x] = {y \in @ : y.from # p} \cup {a}]
      /\ UNCHANGED <<view, seq, mode, stage, cand, ballots, newView, msgs, timeouts>>
  BY DEF StateAnswer, node, round, change
<1>2. a.position.view = view[p] /\ a.position.seq = seq[p]
  BY DEF PositionAt
<1> HIDE DEF a
<1>3. \A y \in answers'[x] : y \in answers[x] \/ y = a
  BY <1>1 DEF TypeOK
<1>4. BoundAt(p, W) /\ BoundAt(x, W) /\ CalmAt(x, x) /\ OnceAt(x)
  BY DEF Views, NodeInv
<1>5. BoundAt(x, W)'
  BY <1>1, <1>2, <1>3, <1>4 DEF BoundAt
<1>6. CalmAt(x, x)' /\ OnceAt(x)'
  BY <1>1, <1>4 DEF CalmAt, OnceAt
<1>7. Rest(x)
  BY <1>1 DEF Rest, TypeOK
<1>8. Tells(x, x, W) /\ msgs \subseteq msgs' /\ Counts(x, x)
  BY <1>1 DEF Tells, Counts
<1> QED
  BY <1>5, <1>6, <1>7, <1>8, OddAdvances

-----------------------------------------------------------------------------
(* Every step *)

\* A step that the invariant is to survive
Action(n) ==
    \/ AmalgamateRun(n) \/ AmalgamateReq(n) \/ Propose(n)
    \/ PrePrepareReq(n) \/ LeaderPrepare(n)
    \/ Prepared(n) \/ NotPrepared(n) \/ ReadyDone(n)
    \/ Decided(n) \/ NotDecided(n)
    \/ CandidateReq(n) \/ CandidateRes(n) \/ CandidateExpire(n)
    \/ Processed(n)
    \/ FailVoteSuccess(n) \/ FailVoteExpire(n)
    \/ LeaderExpire(n) \/ LeaderExpireInNewView(n) \/ InvalidSequenceExpire(n)
    \/ TimeoutVote(n) \/ NewViewReq(n) \/ NewViewDone(n)
    \/ SyncBlock(n) \/ SyncEnd(n) \/ StateSuccess(n)
    \/ (\E m \in Node : StateAnswer(m, n))
    \/ Restart(n)

\* No node but x synchronises, waits in vain or restarts.
LEMMA OnlyOdd ==
  ASSUME TypeOK, NEW x, NEW n \in Node, n # x, CalmAt(x, n), expired' = expired
  PROVE  /\ ~(\/ FailVoteExpire(n) \/ CandidateExpire(n) \/ LeaderExpire(n)
              \/ LeaderExpireInNewView(n) \/ InvalidSequenceExpire(n) \/ Restart(n))
         /\ ~(SyncBlock(n) \/ SyncEnd(n) \/ StateSuccess(n))
         /\ ~(\E m \in Node : StateAnswer(m, n))
<1>1. ~Expire
  BY DEF Expire, TypeOK
<1>2. mode[n] \notin {"fetchChain", "fetchState"}
  BY DEF CalmAt, Partaking
<1>3. ~(\/ FailVoteExpire(n) \/ CandidateExpire(n) \/ LeaderExpire(n)
        \/ LeaderExpireInNewView(n) \/ InvalidSequenceExpire(n) \/ Restart(n))
  BY <1>1 DEF FailVoteExpire, CandidateExpire, LeaderExpire, LeaderExpireInNewView,
              InvalidSequenceExpire, Restart, SyncProcessState
<1>4. ~(SyncBlock(n) \/ SyncEnd(n) \/ StateSuccess(n))
  BY <1>2 DEF SyncBlock, SyncEnd, StateSuccess
<1>5. ~(\E m \in Node : StateAnswer(m, n))
  BY <1>2 DEF StateAnswer
<1> QED
  BY <1>3, <1>4, <1>5

\* Every step that node x takes, and every step of another that is none of a wait in vain,
\* leaves a latest view.
LEMMA StepAdvances ==
  ASSUME ViewInv, TypeOK', NEW x, Enough(x), NEW n \in Node, NEW W \in Nat,
         Views(x, W), Action(n), n = x \/ expired' = expired
  PROVE  \E V \in Nat : Advances(x, n, W, V)
<1>1. TypeOK
  BY DEF ViewInv
<1>2. CASE AmalgamateRun(n)
  BY <1>2, BeginAdvances
<1>3. CASE AmalgamateReq(n)
  BY <1>3, RequestAdvances
<1>4. CASE \/ Propose(n) \/ PrePrepareReq(n) \/ LeaderPrepare(n)
           \/ Prepared(n) \/ NotPrepared(n) \/ ReadyDone(n) \/ Decided(n) \/ NotDecided(n)
           \/ CandidateReq(n) \/ CandidateRes(n) \/ Processed(n)
  BY <1>1, <1>4, RoundAdvances
<1>5. CASE TimeoutVote(n)
  BY <1>5, VoteAdvances
<1>6. CASE FailVoteSuccess(n) \/ NewViewReq(n) \/ NewViewDone(n)
  BY <1>1, <1>6, OddLeaves, FailAdvances, NewViewAdvances, NewViewEnds
<1>7. CASE \/ FailVoteExpire(n) \/ CandidateExpire(n) \/ LeaderExpire(n)
           \/ LeaderExpireInNewView(n) \/ InvalidSequenceExpire(n)
           \/ SyncBlock(n) \/ SyncEnd(n) \/ StateSuccess(n)
           \/ (\E m \in Node : StateAnswer(m, n)) \/ Restart(n)
  <2>1. CalmAt(x, n)
    BY DEF Views, NodeInv
  <2>2. n = x
    BY <1>1, <1>7, <2>1, OnlyOdd
  <2>3. CASE \/ FailVoteExpire(x) \/ CandidateExpire(x) \/ LeaderExpire(x)
             \/ LeaderExpireInNewView(x) \/ InvalidSequenceExpire(x)
    BY <1>1, <2>2, <2>3, OddExpires
  <2>4. CASE SyncBlock(x) \/ SyncEnd(x) \/ StateSuccess(x) \/ Restart(x)
    BY <1>1, <2>2, <2>4, OddSyncs
  <2>5. CASE \E m \in Node : StateAnswer(m, x)
    BY <1>1, <2>2, <2>5, AnswerAdvances
  <2> QED
    BY <1>7, <2>2, <2>3, <2>4, <2>5
<1> QED
  BY <1>2, <1>3, <1>4, <1>5, <1>6, <1>7 DEF Action

-----------------------------------------------------------------------------
(* Proposals and the votes on them *)

\* The leader of a view makes its proposals.
LedProposals == \A m \in msgs : m.type = "prePrepare" => Leader(m.digest.view) = m.from
ProposesAt(n) == stage[n] = "propose" => Leader(cand[n].view) = n

\* A follower that waits for a proposal is in the rounds of a view of the same leader.
WaitsFor(n) == stage[n] = "prePrepare" /\ Leader(view[n]) # n
FollowsAt(x, n) ==
    n # x /\ WaitsFor(n) => \E u \in Nat : InRange(seq[n], u) /\ Leader(u) = Leader(view[n])

\* A node other than the leader votes for a proposal of its sequence number, once.
Follower(x, m) == m.type = "prepare" /\ m.from \notin Odd(x, m.digest.view)
VotedAt(m) ==
    /\ m.digest.seq <= seq[m.from]
    /\ m.digest.seq = seq[m.from] => ~WaitsFor(m.from)
    /\ \E u \in Nat : InRange(m.digest.seq, u) /\ Leader(u) = Leader(m.digest.view)
Voted(x) == \A m \in msgs : Follower(x, m) => VotedAt(m)
PrepareOnce(x) ==
    \A k, m \in msgs :
        Follower(x, k) /\ Follower(x, m) /\ k.from = m.from
            /\ k.digest.view = m.digest.view /\ k.digest.seq = m.digest.seq => k = m

Prepares(x) ==
    /\ LedProposals /\ Voted(x) /\ PrepareOnce(x)
    /\ \A n \in Node : ProposesAt(n) /\ FollowsAt(x, n)

\* What a step of node n does to proposals and votes.
Offers(n, m) == stage[n] = "collect" /\ m.from = n /\ m.digest.view = view[n]
Repeats(n, m) == stage[n] = "propose" /\ m = PrepareMsg(n, cand[n])
Follows(n, m) ==
    /\ WaitsFor(n) /\ stage'[n] = "prepare" /\ seq'[n] = seq[n]
    /\ m.from = n /\ m.digest.seq = seq[n]
    /\ \E k \in msgs : k.type = "prePrepare" /\ k.from = Leader(view[n]) /\ k.digest = m.digest
    /\ \A k \in msgs' \ msgs : k = m
Speaks(x, n) ==
    /\ \A m \in msgs' \ msgs : /\ m.type = "prePrepare" => Offers(n, m)
                               /\ m.type = "prepare" => Repeats(n, m) \/ Follows(n, m)
    /\ stage'[n] = "propose" => \/ stage[n] = "propose" /\ cand'[n] = cand[n]
                                \/ stage[n] = "collect" /\ cand'[n].view = view[n]
    /\ n # x /\ WaitsFor(n)' =>
          \/ WaitsFor(n) /\ view'[n] = view[n] /\ seq'[n] = seq[n]
          \/ /\ seq[n] < seq'[n] /\ view'[n] = view[n]
             /\ \E u \in Nat : InRange(seq'[n], u) /\ Leader(u) = Leader(view[n])

\* Digests of messages are digests.
LEMMA DigestsTyped ==
  ASSUME TypeOK, NEW m \in msgs, m.type \in {"prePrepare", "prepare"}
  PROVE  /\ m.digest.view \in Nat /\ m.digest.seq \in Nat /\ m.from \in Node
         /\ m.type = "prepare" => m = PrepareMsg(m.from, m.digest)
<1>1. m \in Message
  BY DEF TypeOK
<1>2. m.digest \in Digest /\ m.from \in Node
  BY <1>1, Content
<1>3. m.type = "prepare" => m = PrepareMsg(m.from, m.digest)
  BY <1>1 DEF Message, PrepareMsg
<1> QED
  BY <1>2, <1>3 DEF Digest

\* A node that has voted in a view it does not lead keeps to what it has voted for.
LEMMA VotedKept ==
  ASSUME TypeOK, TypeOK', NEW x, NEW n \in Node, NEW W \in Nat, Views(x, W),
         Moves(x, n), Speaks(x, n), Prepares(x), NEW m \in msgs, Follower(x, m)
  PROVE  VotedAt(m)'
<1> DEFINE q == m.from
           s == m.digest.seq
<1>1. q \in Node /\ s \in Nat /\ m.digest.view \in Nat /\ VotedAt(m)
  BY DigestsTyped DEF Follower, Prepares, Voted
<1>2. PICK u \in Nat : InRange(s, u) /\ Leader(u) = Leader(m.digest.view)
  BY <1>1 DEF VotedAt
<1>3. q # x /\ Leader(u) # q
  BY <1>2 DEF Follower, Odd
<1>4. s <= seq[q] /\ (s = seq[q] => ~WaitsFor(q)) /\ seq[q] \in Nat /\ seq'[q] \in Nat
      /\ view[q] \in Nat /\ view'[q] \in Nat
  BY <1>1 DEF VotedAt, TypeOK
<1>5. CASE q # n
  <2>1. view'[q] = view[q] /\ seq'[q] = seq[q] /\ stage'[q] = stage[q]
    BY <1>1, <1>5 DEF Moves, Rest
  <2> QED
    BY <1>2, <1>4, <2>1 DEF VotedAt, WaitsFor
<1>6. CASE q = n /\ seq[q] <= seq'[q]
  <2>1. s <= seq'[q]
    BY <1>1, <1>4, <1>6
  <2>2. s = seq'[q] => ~WaitsFor(q)'
    <3> SUFFICES ASSUME s = seq'[q], WaitsFor(q)' PROVE FALSE
      OBVIOUS
    <3>1. seq'[q] = seq[q]
      BY <1>1, <1>4, <1>6
    <3>2. WaitsFor(q)
      BY <1>3, <1>4, <1>6, <3>1 DEF Speaks
    <3> QED
      BY <1>4, <3>1, <3>2
  <2> QED
    BY <1>2, <2>1, <2>2 DEF VotedAt
<1>7. CASE /\ q = n /\ Leader(view[q]) = q /\ view'[q] = view[q]
           /\ seq'[q] = LowWaterLine(view[q])
  <2>1. seq[q] <= HighWaterLine(view[q])
    <3>1. LagAt(x, q, W)
      BY <1>1 DEF Views, NodeInv
    <3> QED
      BY <1>3, <1>4, <1>7, <3>1, WaterLines DEF LagAt
  <2>2. s <= HighWaterLine(view[q])
    BY <1>1, <1>4, <2>1, WaterLines
  <2>3. u <= view[q]
    BY <1>1, <1>2, <1>4, <2>2, RangeOnceHigh
  <2>4. u < view[q]
    BY <1>3, <1>4, <1>7, <2>3
  <2>5. s <= LowWaterLine(view[q])
    <3>1. /\ HighWaterLine(u) <= LowWaterLine(view[q])
          /\ HighWaterLine(u) \in Nat /\ LowWaterLine(view[q]) \in Nat
      BY <1>4, <2>4, WaterApart, WaterLines
    <3> QED
      BY <1>1, <1>2, <3>1 DEF InRange
  <2>6. ~WaitsFor(q)'
    BY <1>7 DEF WaitsFor
  <2> QED
    BY <1>2, <1>7, <2>5, <2>6 DEF VotedAt
<1> QED
  BY <1>3, <1>5, <1>6, <1>7 DEF Moves

\* A step that speaks so keeps the invariant.
LEMMA PreparesKept ==
  ASSUME TypeOK, TypeOK', NEW x, NEW n \in Node, NEW W \in Nat, Views(x, W),
         Moves(x, n), Speaks(x, n), Prepares(x)
  PROVE  Prepares(x)'
<1>1. CalmAt(x, n) /\ msgs \subseteq msgs'
  BY DEF Views, NodeInv, Moves
<1>2. LedProposals'
  <2> SUFFICES ASSUME NEW m \in msgs', m.type = "prePrepare" PROVE Leader(m.digest.view) = m.from
    BY DEF LedProposals
  <2>1. m \notin msgs => Offers(n, m)
    BY DEF Speaks
  <2> QED
    BY <1>1, <2>1 DEF Prepares, LedProposals, Offers, CalmAt
<1>3. \A q \in Node : ProposesAt(q)'
  <2> SUFFICES ASSUME NEW q \in Node, stage'[q] = "propose" PROVE Leader(cand'[q].view) = q
    BY DEF ProposesAt
  <2>1. CASE q # n
    <3>1. stage'[q] = stage[q] /\ cand'[q] = cand[q]
      BY <2>1 DEF Moves, Rest
    <3> QED
      BY <3>1 DEF Prepares, ProposesAt
  <2>2. CASE q = n
    BY <1>1, <2>2 DEF Speaks, Prepares, ProposesAt, CalmAt
  <2> QED
    BY <2>1, <2>2
<1>4. \A q \in Node : FollowsAt(x, q)'
  <2> SUFFICES ASSUME NEW q \in Node, q # x, WaitsFor(q)'
               PROVE  \E u \in Nat : InRange(seq'[q], u) /\ Leader(u) = Leader(view'[q])
    BY DEF FollowsAt
  <2>1. CASE q # n
    <3>1. stage'[q] = stage[q] /\ view'[q] = view[q] /\ seq'[q] = seq[q]
      BY <2>1 DEF Moves, Rest
    <3>2. WaitsFor(q)
      BY <3>1 DEF WaitsFor
    <3> QED
      BY <3>1, <3>2 DEF Prepares, FollowsAt
  <2>2. CASE q = n
    BY <2>2 DEF Speaks, Prepares, FollowsAt
  <2> QED
    BY <2>1, <2>2
<1>5. ASSUME NEW m \in msgs' \ msgs, Follower(x, m)
      PROVE  Follows(n, m) /\ Leader(m.digest.view) = Leader(view[n])
  <2>1. m.type = "prepare" /\ m.from \notin Odd(x, m.digest.view)
    BY <1>5 DEF Follower
  <2>2. ~Repeats(n, m)
    <3> SUFFICES ASSUME stage[n] = "propose", m = PrepareMsg(n, cand[n]) PROVE FALSE
      BY DEF Repeats
    <3>1. Leader(cand[n].view) = n
      BY DEF Prepares, ProposesAt
    <3>2. m.from = n /\ m.digest = cand[n]
      BY DEF PrepareMsg
    <3> QED
      BY <2>1, <3>1, <3>2 DEF Odd
  <2>3. Follows(n, m)
    BY <2>1, <2>2 DEF Speaks
  <2>4. PICK k \in msgs : k.type = "prePrepare" /\ k.from = Leader(view[n]) /\ k.digest = m.digest
    BY <2>3 DEF Follows
  <2> QED
    BY <2>3, <2>4 DEF Prepares, LedProposals
<1>6. Voted(x)'
  <2> SUFFICES ASSUME NEW m \in msgs', Follower(x, m) PROVE VotedAt(m)'
    BY DEF Voted, Follower, Odd
  <2>1. CASE m \in msgs
    BY <2>1, VotedKept
  <2>2. CASE m \notin msgs
    <3>1. Follows(n, m) /\ Leader(m.digest.view) = Leader(view[n])
      BY <1>5, <2>2
    <3>2. m.from = n /\ m.digest.seq = seq[n] /\ seq'[n] = seq[n] /\ stage'[n] = "prepare"
          /\ WaitsFor(n) /\ n # x
      BY <3>1 DEF Follows, Follower, Odd
    <3>3. PICK u \in Nat : InRange(seq[n], u) /\ Leader(u) = Leader(view[n])
      BY <3>2 DEF Prepares, FollowsAt
    <3>4. seq'[n] \in Nat /\ ~WaitsFor(n)'
      BY <3>2 DEF TypeOK, WaitsFor
    <3> QED
      BY <3>1, <3>2, <3>3, <3>4 DEF VotedAt
  <2> QED
    BY <2>1, <2>2
<1>7. PrepareOnce(x)'
  <2> SUFFICES ASSUME NEW k \in msgs', NEW m \in msgs', Follower(x, k), Follower(x, m),
                      k.from = m.from, k.digest.view = m.digest.view,
                      k.digest.seq = m.digest.seq
               PROVE  k = m
    BY DEF PrepareOnce, Follower, Odd
  <2>1. CASE k \in msgs /\ m \in msgs
    BY <2>1 DEF Prepares, PrepareOnce
  <2>2. CASE k \notin msgs /\ m \notin msgs
    BY <1>5, <2>2 DEF Follows
  <2>3. ASSUME NEW a \in msgs, NEW b \in msgs' \ msgs, Follower(x, a), Follower(x, b),
               a.from = b.from, a.digest.seq = b.digest.seq
        PROVE  FALSE
    <3>1. Follows(n, b)
      BY <1>5, <2>3
    <3>2. VotedAt(a)
      BY <2>3 DEF Prepares, Voted
    <3> QED
      BY <2>3, <3>1, <3>2 DEF Follows, VotedAt
  <2> QED
    BY <2>1, <2>2, <2>3
<1> QED
  BY <1>2, <1>3, <1>4, <1>6, <1>7 DEF Prepares

\* Who begins to wait for a proposal, or goes on to
LEMMA Awaits ==
  ASSUME ViewInv, TypeOK', NEW x, NEW n \in Node, n # x, NEW W \in Nat, Views(x, W),
         Action(n), expired' = expired, WaitsFor(n)'
  PROVE  \/ WaitsFor(n) /\ view'[n] = view[n] /\ seq'[n] = seq[n]
         \/ /\ seq[n] < seq'[n] /\ view'[n] = view[n]
            /\ \E u \in Nat : InRange(seq'[n], u) /\ Leader(u) = Leader(view[n])
<1>1. TypeOK /\ CalmAt(x, n) /\ stage'[n] = "prePrepare" /\ Leader(view'[n]) # n
  BY DEF ViewInv, Views, NodeInv, WaitsFor
<1>2. CASE AmalgamateRun(n)
  <2>1. stage'[n] \in {"amalgamate", "waitView", "collect"}
    BY <1>1, <1>2 DEF AmalgamateRun, Goto, EnterStage, TypeOK
  <2> QED
    BY <1>1, <2>1
<1>3. CASE AmalgamateReq(n)
  <2>1. PICK m \in msgs : /\ m.type = "amalgamate" /\ m.from = Leader(view[n]) /\ m.seq > seq[n]
                          /\ MoveTo(n, view[n], m.seq)
    BY <1>3 DEF AmalgamateReq
  <2>2. PICK u \in 0 .. W : InRange(m.seq, u) /\ Leader(u) = m.from
    BY <2>1 DEF Views, MessageIn
  <2>3. view'[n] = view[n] /\ seq'[n] = m.seq /\ m.seq \in Nat /\ seq[n] \in Nat
    BY <1>1, <2>1, Content DEF MoveTo, TypeOK
  <2> QED
    BY <2>1, <2>2, <2>3
<1>4. CASE \/ Propose(n) \/ PrePrepareReq(n) \/ LeaderPrepare(n)
           \/ Prepared(n) \/ NotPrepared(n) \/ ReadyDone(n) \/ Decided(n) \/ NotDecided(n)
           \/ CandidateReq(n) \/ CandidateRes(n) \/ Processed(n)
  <2>1. Stays(n) /\ seq' = seq
    BY <1>1, <1>4, GoesOn
  <2>2. stage'[n] = stage[n]
    BY <1>1, <1>4, GoesOn
  <2> QED
    BY <1>1, <2>1, <2>2 DEF Stays, WaitsFor
<1>5. CASE TimeoutVote(n)
  <2>1. PICK t \in timeouts : t.to = n /\ Tally(n, t.vote, mode[n])
    BY <1>5 DEF TimeoutVote
  <2>2. t.vote \in Ballot /\ LedBy(t.vote, n) /\ stage' = stage
    BY <1>1, <1>5, <2>1 DEF TimeoutVote, ViewInv, TypeOK, VotesLed
  <2>3. /\ Full(n, t.vote) => view'[n] = t.vote.position.view + 1
        /\ ~Full(n, t.vote) => view'[n] = view[n] /\ seq'[n] = seq[n]
    BY <1>1, <2>1, <2>2, TallyEffect
  <2> QED
    BY <1>1, <2>2, <2>3 DEF LedBy, WaitsFor
<1>6. CASE FailVoteSuccess(n) \/ NewViewReq(n) \/ NewViewDone(n)
  <2>1. stage'[n] \in {"new", "newTwice", "process", "processed"}
    BY <1>1, <1>6, LeaveRest
  <2> QED
    BY <1>1, <2>1
<1> QED
  BY <1>1, <1>2, <1>3, <1>4, <1>5, <1>6, OnlyOdd DEF Action

\* The steps that send a digest, or leave the digests alone
LEMMA Utters ==
  ASSUME TypeOK, NEW n \in Node,
         \/ Propose(n) \/ PrePrepareReq(n) \/ LeaderPrepare(n) \/ Prepared(n) \/ ReadyDone(n)
         \/ Decided(n) \/ CandidateReq(n) \/ Processed(n) \/ SyncBlock(n)
  PROVE  /\ \A m \in msgs' \ msgs : /\ m.type = "prePrepare" => Offers(n, m)
                                    /\ m.type = "prepare" => Repeats(n, m) \/ Follows(n, m)
         /\ stage'[n] = "propose" => \/ stage[n] = "propose" /\ cand'[n] = cand[n]
                                     \/ stage[n] = "collect" /\ cand'[n].view = view[n]
<1>1. CASE Propose(n)
  <2>1. PICK full \in Payloads :
           LET d == [seq |-> seq[n], view |-> view[n], parent |-> Hash(n),
                     ts |-> clock + 1, full |-> full]
           IN  cand' = [cand EXCEPT ![n] = d] /\ msgs' = msgs \cup {PrePrepareMsg(n, d)}
    BY <1>1 DEF Propose, Broadcast
  <2>2. \A m \in msgs' \ msgs : m.type = "prePrepare" /\ m.from = n /\ m.digest.view = view[n]
    BY <2>1 DEF PrePrepareMsg
  <2>3. stage[n] = "collect" /\ cand'[n].view = view[n]
    BY <1>1, <2>1 DEF Propose, TypeOK
  <2> QED
    BY <2>2, <2>3 DEF Offers
<1>2. CASE PrePrepareReq(n)
  <2>1. PICK k \in msgs : /\ k.type = "prePrepare" /\ k.from = Leader(view[n])
                          /\ k.digest.seq = seq[n]
                          /\ msgs' = msgs \cup {PrepareMsg(n, k.digest)}
    BY <1>2 DEF PrePrepareReq, Broadcast
  <2>2. stage[n] = "prePrepare" /\ Leader(view[n]) # n /\ stage'[n] = "prepare" /\ seq' = seq
    BY <1>2 DEF PrePrepareReq, EnterStage, position, TypeOK
  <2>3. \A m \in msgs' \ msgs : /\ m = PrepareMsg(n, k.digest)
                                /\ m.type = "prepare" /\ m.from = n /\ m.digest = k.digest
    BY <2>1 DEF PrepareMsg
  <2>4. \A m \in msgs' \ msgs : Follows(n, m)
    BY <2>1, <2>2, <2>3 DEF Follows, WaitsFor
  <2> QED
    BY <2>2, <2>3, <2>4
<1>3. CASE LeaderPrepare(n)
  <2>1. stage[n] = "propose" /\ stage'[n] = "prepare" /\ msgs' = msgs \cup {PrepareMsg(n, cand[n])}
    BY <1>3 DEF LeaderPrepare, EnterStage, Broadcast, TypeOK
  <2> QED
    BY <2>1 DEF Repeats, PrepareMsg
<1>4. CASE Prepared(n) \/ ReadyDone(n) \/ Decided(n)
  <2>1. \A m \in msgs' \ msgs : m.type \in {"commit", "consensusFail"}
    BY <1>4 DEF Prepared, ReadyDone, Decided, RunViewChangeForConsensusFail, Broadcast, net,
                CommitMsg, FailMsg
  <2>2. stage'[n] # "propose"
    BY <1>4 DEF Prepared, ReadyDone, Decided, RunViewChangeForConsensusFail, EnterStage, TypeOK
  <2> QED
    BY <2>1, <2>2
<1>5. CASE CandidateReq(n) \/ SyncBlock(n)
  <2>1. \A m \in msgs' \ msgs : m.type = "candidate"
    BY <1>5 DEF CandidateReq, SyncBlock, Broadcast, CandidateMsg, net
  <2>2. stage' = stage /\ cand' = cand
    BY <1>5 DEF CandidateReq, SyncBlock, node, round
  <2> QED
    BY <2>1, <2>2
<1>6. CASE Processed(n)
  <2>1. msgs' = msgs /\ stage[n] = "process" /\ stage'[n] = "processed"
    BY <1>6 DEF Processed, RunNewConsensusRound, Goto, net, TypeOK
  <2> QED
    BY <2>1
<1> QED
  BY <1>1, <1>2, <1>3, <1>4, <1>5, <1>6

\* Every step speaks so.
LEMMA StepSpeaks ==
  ASSUME IInv, ViewInv, TypeOK', NEW x, NEW n \in Node, NEW W \in Nat, Views(x, W),
         Action(n), n = x \/ expired' = expired
  PROVE  Speaks(x, n)
<1>1. TypeOK
  BY DEF ViewInv
<1>2. /\ \A m \in msgs' \ msgs : /\ m.type = "prePrepare" => Offers(n, m)
                                 /\ m.type = "prepare" => Repeats(n, m) \/ Follows(n, m)
      /\ stage'[n] = "propose" => \/ stage[n] = "propose" /\ cand'[n] = cand[n]
                                  \/ stage[n] = "collect" /\ cand'[n].view = view[n]
  <2>1. CASE \/ Propose(n) \/ PrePrepareReq(n) \/ LeaderPrepare(n) \/ Prepared(n) \/ ReadyDone(n)
             \/ Decided(n) \/ CandidateReq(n) \/ Processed(n) \/ SyncBlock(n)
    BY <1>1, <2>1, Utters
  <2>2. CASE Quiet
    BY <2>2 DEF Quiet, CarriesDigest
  <2> QED
    BY <2>1, <2>2, QuietActions DEF Action
<1>3. n # x /\ WaitsFor(n)' =>
          \/ WaitsFor(n) /\ view'[n] = view[n] /\ seq'[n] = seq[n]
          \/ /\ seq[n] < seq'[n] /\ view'[n] = view[n]
             /\ \E u \in Nat : InRange(seq'[n], u) /\ Leader(u) = Leader(view[n])
  BY Awaits
<1> QED
  BY <1>2, <1>3 DEF Speaks

-----------------------------------------------------------------------------
(* The invariant, and one decision *)

\* No node but x has restarted or waited in vain.
BarOne(x) == (\E W \in Nat : Views(x, W)) /\ Prepares(x)

\* While none has (N is no node), any one of them may be the next to; then it is the only one.
DecisionInv ==
    /\ expired = 0 => \A x \in 0 .. N : Enough(x) => BarOne(x)
    /\ expired = 1 /\ ThreeInCommon => \E x \in Node : BarOne(x)

\* It is so at first, for any node and for none.
LEMMA BarOneInit ==
  ASSUME Init, NEW x
  PROVE  BarOne(x)
<1>1. /\ Votes = {} /\ Fails = {} /\ msgs = {} /\ timeouts = {}
      /\ \A n \in Node : /\ view[n] = 0 /\ seq[n] = 0 /\ mode[n] = "consensus" /\ stage[n] = "new"
                         /\ newView[n] = FALSE /\ ballots[n] = {} /\ answers[n] = {}
  BY DEF Init, Votes, Fails
<1>2. HighWaterLine(0) \in Nat
  BY WaterLines
<1>3. \A n \in Node : NodeInv(x, n, 0)
  BY <1>1, <1>2 DEF NodeInv, CalmAt, Partaking, BoundAt, LagAt, RoundedAt, Rounds, OwnAt, OnceAt,
                    EntryAt, BlockedAt
<1>4. VoteInv(x, 0)
  BY <1>1 DEF VoteInv, Abroad, Said, HighVotes, VotesDone, FailsDone, Either, VoteOnce
<1>5. Views(x, 0)
  BY <1>1, <1>3, <1>4 DEF Views
<1>6. Prepares(x)
  BY <1>1 DEF Prepares, LedProposals, Voted, PrepareOnce, ProposesAt, FollowsAt, WaitsFor
<1> QED
  BY <1>5, <1>6 DEF BarOne

\* A step counts at most one wait in vain or restart.
LEMMA Expiring ==
  ASSUME NEW n \in Node, Action(n)
  PROVE  expired' = expired \/ expired' = expired + 1
<1>1. CASE \/ AmalgamateRun(n) \/ AmalgamateReq(n) \/ Propose(n)
           \/ PrePrepareReq(n) \/ LeaderPrepare(n)
           \/ Prepared(n) \/ NotPrepared(n) \/ ReadyDone(n)
           \/ Decided(n) \/ NotDecided(n)
           \/ CandidateReq(n) \/ CandidateRes(n) \/ CandidateExpire(n)
           \/ Processed(n)
  BY <1>1 DEF AmalgamateRun, AmalgamateReq, Propose, PrePrepareReq, LeaderPrepare, Prepared,
              NotPrepared, ReadyDone, Decided, NotDecided, CandidateReq, CandidateRes,
              CandidateExpire, Processed, SyncProcessState, Expire
<1>2. CASE \/ FailVoteSuccess(n) \/ FailVoteExpire(n)
           \/ LeaderExpire(n) \/ LeaderExpireInNewView(n) \/ InvalidSequenceExpire(n)
           \/ TimeoutVote(n) \/ NewViewReq(n) \/ NewViewDone(n)
           \/ SyncBlock(n) \/ SyncEnd(n) \/ StateSuccess(n)
           \/ (\E m \in Node : StateAnswer(m, n))
           \/ Restart(n)
  BY <1>2 DEF FailVoteSuccess, FailVoteExpire, LeaderExpire, LeaderExpireInNewView,
              InvalidSequenceExpire, TimeoutVote, NewViewReq, NewViewDone, SyncBlock, SyncEnd,
              StateSuccess, StateAnswer, Restart, SyncProcessState, Expire
<1> QED
  BY <1>1, <1>2 DEF Action

\* What is true bar one node stays so, while no other waits in vain or restarts.
LEMMA BarOneKept ==
  ASSUME IInv, ViewInv, TypeOK', NEW x, Enough(x), NEW n \in Node, Action(n),
         n = x \/ expired' = expired, BarOne(x)
  PROVE  BarOne(x)'
<1>1. PICK W \in Nat : Views(x, W)
  BY DEF BarOne
<1>2. TypeOK /\ Prepares(x)
  BY DEF ViewInv, BarOne
<1>3. PICK V \in Nat : Advances(x, n, W, V)
  BY <1>1, StepAdvances
<1>4. Views(x, V)'
  BY <1>1, <1>2, <1>3, ViewsKept
<1>5. Moves(x, n)
  BY <1>3 DEF Advances
<1>6. Speaks(x, n)
  BY <1>1, StepSpeaks
<1>7. Prepares(x)'
  BY <1>1, <1>2, <1>5, <1>6, PreparesKept
<1> QED
  BY <1>4, <1>7 DEF BarOne

\* The invariant is inductive.
LEMMA DecisionStep ==
  ASSUME IInv, ViewInv, DecisionInv, Next
  PROVE  DecisionInv'
<1>1. TypeOK /\ TypeOK'
  BY TypeStep DEF IInv
<1>2. PICK n \in Node : Action(n)
  BY Actions DEF Action
<1>3. expired \in Nat /\ n \in 0 .. N
  BY <1>1, NAssumption DEF TypeOK, Node
<1>4. CASE expired' = expired
  <2>1. \A x : Enough(x) /\ BarOne(x) => BarOne(x)'
    BY <1>1, <1>2, <1>4, BarOneKept
  <2>2. ThreeInCommon => \A x : Enough(x)
    BY DEF Enough
  <2> QED
    BY <1>4, <2>1, <2>2 DEF DecisionInv, Enough, ThreeInCommon
<1>5. CASE expired' = expired + 1
  <2>1. expired' # 0 /\ (expired' = 1 => expired = 0)
    BY <1>3, <1>5
  <2>2. expired = 0 /\ ThreeInCommon => BarOne(n)'
    <3> SUFFICES ASSUME expired = 0, ThreeInCommon PROVE BarOne(n)'
      OBVIOUS
    <3>1. Enough(n) /\ BarOne(n)
      BY <1>3 DEF DecisionInv, Enough
    <3> QED
      BY <1>1, <1>2, <3>1, BarOneKept
  <2> QED
    BY <2>1, <2>2 DEF DecisionInv, ThreeInCommon
<1> QED
  BY <1>2, <1>4, <1>5, Expiring

\* A step that changes nothing keeps it.
LEMMA DecisionStutter ==
  ASSUME DecisionInv, UNCHANGED vars
  PROVE  DecisionInv'
<1>1. UNCHANGED <<view, seq, mode, stage, cand, ballots, newView, answers, msgs, timeouts, expired>>
  BY DEF vars, node, round, change, net
<1>2. ASSUME NEW x PROVE BarOne(x)' = BarOne(x)
  <2>1. \A W : Views(x, W)' = Views(x, W)
    BY <1>1 DEF Views, NodeInv, CalmAt, BoundAt, LagAt, RoundedAt, OwnAt, OnceAt, EntryAt,
                BlockedAt, Entry, Blocked, Spent, Unheld, Done, Waits, GaveUp, InFlight, Counted,
                VoteInv, Abroad, Said, SaidAt, HighVotes, VotesDone, FailsDone, Either, VoteOnce,
                Reached, Passed, FailQuorum, Failed, Votes, Fails
  <2>2. Prepares(x)' = Prepares(x)
    BY <1>1 DEF Prepares, LedProposals, Voted, VotedAt, PrepareOnce, ProposesAt, FollowsAt,
                WaitsFor, Follower
  <2> QED
    BY <2>1, <2>2 DEF BarOne
<1> QED
  BY <1>1, <1>2 DEF DecisionInv, Enough, ThreeInCommon

\* Two proposals of one sequence number of a view are not both decided.
DecidedOnce ==
    \A c, d \in {m.digest : m \in {k \in msgs : k.type = "commit"}} :
        c.view = d.view /\ c.seq = d.seq /\ Backed(CommitMsg, c) /\ Backed(CommitMsg, d)
            => c = d

\* Two decisions have a follower's vote in common.
LEMMA DecidesOnce ==
  ASSUME IInv, NEW x, Enough(x), BarOne(x)
  PROVE  DecidedOnce
<1> SUFFICES ASSUME NEW c \in {m.digest : m \in {k \in msgs : k.type = "commit"}},
                    NEW d \in {m.digest : m \in {k \in msgs : k.type = "commit"}},
                    c.view = d.view, c.seq = d.seq
             PROVE  c = d
  BY DEF DecidedOnce
<1>1. Backed(PrepareMsg, c) /\ Backed(PrepareMsg, d)
  BY DEF IInv, CommitsPrepared
<1>2. PICK A \in Quorum : \A q \in A : PrepareMsg(q, c) \in msgs
  BY <1>1 DEF Backed
<1>3. PICK B \in Quorum : \A q \in B : PrepareMsg(q, d) \in msgs
  BY <1>1 DEF Backed
<1>4. PICK q \in A \cap B : q # x /\ q # Leader(c.view)
  BY QuorumsMeet
<1>5. PrepareMsg(q, c) \in msgs /\ PrepareMsg(q, d) \in msgs
  BY <1>2, <1>3
<1>6. Follower(x, PrepareMsg(q, c)) /\ Follower(x, PrepareMsg(q, d))
  BY <1>4 DEF Follower, Odd, PrepareMsg
<1>7. PrepareMsg(q, c) = PrepareMsg(q, d)
  BY <1>5, <1>6 DEF BarOne, Prepares, PrepareOnce, PrepareMsg
<1> QED
  BY <1>7 DEF PrepareMsg

\* With three nodes, and with five or more, any two quorums have three nodes in common.
LEMMA CommonThree ==
  ASSUME N = 3 \/ N >= 5
  PROVE  ThreeInCommon
<1>1. CASE N = 3
  BY <1>1 DEF ThreeInCommon, Threshold
<1>2. CASE N >= 5
  <2>1. N \in Nat /\ Threshold \in Nat /\ 3 * Threshold >= 2 * N + 1
    BY ThresholdIs, NAssumption
  <2> QED
    BY <1>2, <2>1 DEF ThreeInCommon
<1> QED
  BY <1>1, <1>2

\* The invariant holds, whatever the number of nodes.
THEOREM DecisionInvariance == Spec => []DecisionInv
<1>1. Init => DecisionInv
  BY BarOneInit DEF DecisionInv, Init
<1>2. IInv /\ ViewInv /\ DecisionInv /\ [Next]_vars => DecisionInv'
  BY DecisionStep, DecisionStutter
<1> QED
  BY <1>1, <1>2, Invariance, ViewInvariance, PTL DEF Spec

\* As long as no node has restarted or waited in vain, two proposals of one sequence number
\* of a view are never both decided, though the leader of a view may begin it again when a
\* vote for it comes late (viewChangeForTimeout.js) and propose a second time: for every
\* number of nodes.
THEOREM CalmDecisionSafety == Spec => [](expired = 0 => DecidedOnce)
<1>1. ASSUME IInv, DecisionInv, expired = 0 PROVE DecidedOnce
  <2>1. N \notin Node /\ N \in 0 .. N
    BY NAssumption DEF Node
  <2>2. Enough(N) /\ BarOne(N)
    BY <1>1, <2>1 DEF Enough, DecisionInv
  <2> QED
    BY <1>1, <2>2, DecidesOnce
<1> QED
  BY <1>1, Invariance, DecisionInvariance, PTL

\* Two proposals of one sequence number of a view are not both decided while at most one
\* node has restarted or waited in vain, though a restarted leader proposes a second time
\* (the prepare and commit stages, and every way into a view): for every number of nodes
\* but two and four.
THEOREM DecisionSafety == ASSUME N = 3 \/ N >= 5 PROVE Spec => []OneDecision
<1>1. ThreeInCommon
  BY CommonThree
<1>2. ASSUME IInv, DecisionInv, TypeOK, expired <= 1 PROVE DecidedOnce
  <2>1. \A x : Enough(x)
    BY <1>1 DEF Enough
  <2>2. expired = 0 \/ expired = 1
    BY <1>2 DEF TypeOK
  <2>3. \E x \in Node : BarOne(x)
    <3>1. 0 \in Node /\ 0 \in 0 .. N
      BY NAssumption DEF Node
    <3> QED
      BY <1>1, <1>2, <2>1, <2>2, <3>1 DEF DecisionInv
  <2> QED
    BY <1>2, <2>1, <2>3, DecidesOnce
<1>3. IInv /\ DecisionInv => OneDecision
  BY <1>2 DEF OneDecision, DecidedOnce, IInv
<1> QED
  BY <1>3, Invariance, DecisionInvariance, PTL
=============================================================================
