---------------------------- MODULE Ripple_proofs ----------------------------
(***************************************************************************)
(* Theorems about Ripple for every number of nodes, every length of a view *)
(* and every value of the bounds.                                          *)
(***************************************************************************)
EXTENDS Ripple, FiniteSetTheorems, SequenceTheorems, TLAPS

\* The leader of a view is one of the nodes.
LEMMA LeaderIsNode == ASSUME NEW v \in Nat PROVE Leader(v) \in Node
  BY NAssumption DEF Leader, Node

\* Water lines are natural numbers.
LEMMA WaterLines ==
  ASSUME NEW v \in Nat
  PROVE  LowWaterLine(v) \in Nat /\ HighWaterLine(v) \in Nat
<1>1. v * Step \in Nat
  BY StepAssumption
<1> QED
  BY <1>1, StepAssumption DEF LowWaterLine, HighWaterLine

\* A node's latest hash is a natural number.
LEMMA HashIsNat == ASSUME TypeOK, NEW n \in Node PROVE Hash(n) \in Nat
<1>1. chain[n] \in Seq(Nat)
  BY DEF TypeOK
<1>2. CASE chain[n] = <<>>
  BY <1>2 DEF Hash
<1>3. CASE chain[n] # <<>>
  BY <1>1, <1>3 DEF Hash
<1> QED
  BY <1>2, <1>3

\* What a node says of its position is a position.
LEMMA PositionType ==
  ASSUME TypeOK, NEW n \in Node, NEW v \in Nat
  PROVE  PositionAt(n, v) \in Position
<1>1. Hash(n) \in Nat
  BY HashIsNat
<1>2. seq[n] \in Nat
  BY DEF TypeOK
<1> QED
  BY <1>1, <1>2 DEF PositionAt, Position

\* Entering a view keeps the types.
LEMMA EnterViewType ==
  ASSUME TypeOK, NEW n \in Node, NEW v \in Nat, EnterView(n, v)
  PROVE  view' \in [Node -> Nat] /\ seq' \in [Node -> Nat]
<1>1. LowWaterLine(v) \in Nat
  BY WaterLines
<1> QED
  BY <1>1 DEF TypeOK, EnterView, MoveTo

\* Counting a vote keeps the types.
LEMMA TallyType ==
  ASSUME TypeOK, NEW n \in Node, NEW b \in Ballot, NEW m \in Modes, Tally(n, b, m)
  PROVE  /\ view' \in [Node -> Nat]
         /\ seq' \in [Node -> Nat]
         /\ mode' \in [Node -> Modes]
         /\ ballots' \in [Node -> SUBSET Ballot]
         /\ newView' \in [Node -> BOOLEAN]
         /\ msgs' \subseteq Message
<1>1. b.position \in Position /\ NextView(b.position) \in Nat
  BY DEF Ballot, Position, NextView
<1> DEFINE latest  == {x \in ballots[n] : x.from # b.from} \cup {b}
           reached == {x.from : x \in SamePosition(latest, b)} \in Quorum
<1>2. /\ ballots' = [ballots EXCEPT ![n] = latest]
      /\ IF reached THEN EnterView(n, NextView(b.position)) ELSE UNCHANGED position
      /\ IF reached /\ ~newView[n]
           THEN /\ newView' = [newView EXCEPT ![n] = TRUE]
                /\ mode' = [mode EXCEPT ![n] = "newView"]
                /\ Broadcast(NewViewMsg(n, b.position))
           ELSE /\ mode' = [mode EXCEPT ![n] = m]
                /\ UNCHANGED <<newView, msgs>>
  BY Zenon DEF Tally
<1>3. latest \in SUBSET Ballot
  BY DEF TypeOK
<1>4. ballots' \in [Node -> SUBSET Ballot]
  BY <1>2, <1>3 DEF TypeOK
<1> HIDE DEF latest, reached
<1>5. view' \in [Node -> Nat] /\ seq' \in [Node -> Nat]
  <2>1. CASE reached
    BY <2>1, <1>1, <1>2, EnterViewType
  <2>2. CASE ~reached
    BY <2>2, <1>2 DEF TypeOK, position
  <2> QED
    BY <2>1, <2>2
<1>6. NewViewMsg(n, b.position) \in Message
  BY <1>1 DEF NewViewMsg, Message
<1>7. mode' \in [Node -> Modes] /\ newView' \in [Node -> BOOLEAN]
  BY <1>2 DEF TypeOK, Modes
<1>8. msgs' \subseteq Message
  BY <1>2, <1>6 DEF TypeOK, Broadcast
<1> QED
  BY <1>4, <1>5, <1>7, <1>8

\* Voting for the next view keeps the types.
LEMMA VoteType ==
  ASSUME TypeOK, NEW n \in Node, NEW v \in Nat, NEW m \in Modes, VoteForNextView(n, v, m)
  PROVE  /\ view' \in [Node -> Nat]
         /\ seq' \in [Node -> Nat]
         /\ mode' \in [Node -> Modes]
         /\ ballots' \in [Node -> SUBSET Ballot]
         /\ newView' \in [Node -> BOOLEAN]
         /\ msgs' \subseteq Message
         /\ timeouts' \subseteq [to : Node, vote : Ballot]
<1> DEFINE b == [from |-> n, position |-> PositionAt(n, v)]
<1>1. b \in Ballot
  BY PositionType DEF Ballot
<1>2. Leader(v + 1) \in Node
  BY LeaderIsNode
<1>3. CASE Leader(v + 1) = n
  <2>1. Tally(n, b, m) /\ UNCHANGED timeouts
    BY <1>3 DEF VoteForNextView
  <2> QED
    BY <1>1, <2>1, TallyType DEF TypeOK
<1>4. CASE Leader(v + 1) # n
  <2>1. /\ timeouts' = timeouts \cup {[to |-> Leader(v + 1), vote |-> b]}
        /\ mode' = [mode EXCEPT ![n] = m]
        /\ UNCHANGED <<ballots, position, newView, msgs>>
    BY <1>4 DEF VoteForNextView
  <2> HIDE DEF b
  <2> QED
    BY <1>1, <1>2, <2>1 DEF TypeOK, position
<1> QED
  BY <1>3, <1>4

\* The absent digest has the type of digests.
LEMMA NoDigestType == NoDigest \in Digest
  BY DEF NoDigest, Digest

\* The digest or position of a message that is known to carry one
LEMMA Content ==
  ASSUME NEW m \in Message
  PROVE  /\ m.type \in {"prePrepare", "prepare", "commit", "candidate"} => m.digest \in Digest
         /\ m.type \in {"consensusFail", "newView"} => m.position \in Position
         /\ m.type = "amalgamate" => m.seq \in Nat
         /\ m.from \in Node
  BY DEF Message

\* The messages that carry a digest are messages.
LEMMA DigestMessages ==
  ASSUME NEW n \in Node, NEW d \in Digest
  PROVE  {PrePrepareMsg(n, d), PrepareMsg(n, d), CommitMsg(n, d), CandidateMsg(n, d)}
            \subseteq Message
  BY DEF Message, PrePrepareMsg, PrepareMsg, CommitMsg, CandidateMsg

\* Starting the vote on a failed consensus keeps the types.
LEMMA FailRunType ==
  ASSUME TypeOK, NEW n \in Node, RunViewChangeForConsensusFail(n)
  PROVE  mode' \in [Node -> Modes] /\ stage' \in [Node -> Stages] /\ msgs' \subseteq Message
<1>1. PositionAt(n, view[n]) \in Position
  BY PositionType DEF TypeOK
<1>2. FailMsg(n, PositionAt(n, view[n])) \in Message
  BY <1>1 DEF FailMsg, Message
<1> QED
  BY <1>2 DEF TypeOK, RunViewChangeForConsensusFail, EnterStage, Broadcast, Stages

\* Beginning a round keeps the types.
LEMMA NewRoundType ==
  ASSUME TypeOK, NEW n \in Node, NEW s \in Stages, RunNewConsensusRound(n, s)
  PROVE  /\ mode' \in [Node -> Modes] /\ stage' \in [Node -> Stages]
         /\ cand' \in [Node -> Digest] /\ cons' \in [Node -> Digest]
         /\ dec' \in [Node -> Digest] /\ tries' \in [Node -> Nat]
<1>1. mode' \in [Node -> Modes] /\ stage' \in [Node -> Stages]
  BY DEF TypeOK, RunNewConsensusRound, Goto, Modes, Stages
<1> QED
  BY <1>1, NoDigestType DEF TypeOK, RunNewConsensusRound

\* Ending a view change keeps the types.
LEMMA LeaveType ==
  ASSUME TypeOK, NEW n \in Node, NEW m \in Modes, LeaveViewChange(n, m)
  PROVE  /\ ballots' \in [Node -> SUBSET Ballot] /\ newView' \in [Node -> BOOLEAN]
         /\ mode' \in [Node -> Modes] /\ stage' \in [Node -> Stages]
         /\ cand' \in [Node -> Digest] /\ cons' \in [Node -> Digest]
         /\ dec' \in [Node -> Digest] /\ tries' \in [Node -> Nat]
<1>1. ballots' \in [Node -> SUBSET Ballot] /\ newView' \in [Node -> BOOLEAN]
  BY DEF TypeOK, LeaveViewChange
<1>2. CASE stage[n] \notin {"process", "processed"}
  <2>1. RunNewConsensusRound(n, "new") /\ "new" \in Stages
    BY <1>2 DEF LeaveViewChange, Stages
  <2> QED
    BY <1>1, <2>1, NewRoundType
<1>3. CASE stage[n] \in {"process", "processed"}
  BY <1>1, <1>3 DEF LeaveViewChange, TypeOK, round
<1> QED
  BY <1>2, <1>3
-----------------------------------------------------------------------------
(* Type correctness *)

\* The steps of a round keep the types.
LEMMA RoundTypes ==
  ASSUME TypeOK, NEW n \in Node,
         \/ AmalgamateRun(n) \/ AmalgamateReq(n) \/ Propose(n)
         \/ PrePrepareReq(n) \/ LeaderPrepare(n)
         \/ Prepared(n) \/ NotPrepared(n) \/ ReadyDone(n)
         \/ Decided(n) \/ NotDecided(n) \/ Processed(n)
  PROVE  TypeOK'
<1>1. CASE AmalgamateRun(n)
  <2>1. UNCHANGED <<chain, cand, cons, dec, tries, answers, clock, expired>>
    BY <1>1 DEF AmalgamateRun, round
  <2>2. CASE stage[n] = "newTwice"
    BY <1>1, <2>1, <2>2 DEF AmalgamateRun, Goto, TypeOK, Modes, Stages, position
  <2>3. CASE stage[n] # "newTwice" /\ seq[n] >= HighWaterLine(view[n])
    <3>1. stage' = [stage EXCEPT ![n] = "waitView"]
      BY <1>1, <2>3 DEF AmalgamateRun
    <3>2. CASE mode[n] = "newView"
      BY <1>1, <2>1, <2>3, <3>1, <3>2 DEF AmalgamateRun, TypeOK, Stages, position
    <3>3. CASE mode[n] # "newView"
      <4>1. VoteForNextView(n, view[n], mode[n]) /\ view[n] \in Nat /\ mode[n] \in Modes
        BY <1>1, <2>3, <3>3 DEF AmalgamateRun, TypeOK
      <4>2. stage' \in [Node -> Stages]
        BY <3>1 DEF TypeOK, Stages
      <4> QED
        BY <2>1, <4>1, <4>2, VoteType DEF TypeOK
    <3> QED
      BY <3>2, <3>3
  <2>4. CASE stage[n] # "newTwice" /\ ~(seq[n] >= HighWaterLine(view[n]))
    <3>1. AmalgamateMsg(n, seq[n] + 1) \in Message
      BY DEF TypeOK, AmalgamateMsg, Message
    <3>2. /\ IF Leader(view[n]) = n
               THEN /\ EnterStage(n, "collect")
                    /\ MoveTo(n, view[n], seq[n] + 1)
                    /\ Broadcast(AmalgamateMsg(n, seq[n] + 1))
               ELSE EnterStage(n, "amalgamate") /\ UNCHANGED <<position, msgs>>
          /\ UNCHANGED <<ballots, newView, timeouts>>
      BY <1>1, <2>4 DEF AmalgamateRun
    <3>3. mode' \in [Node -> Modes] /\ stage' \in [Node -> Stages]
      BY <3>2 DEF TypeOK, EnterStage, Stages
    <3>4. view' \in [Node -> Nat] /\ seq' \in [Node -> Nat] /\ msgs' \subseteq Message
      <4>1. CASE Leader(view[n]) = n
        <5>1. MoveTo(n, view[n], seq[n] + 1) /\ Broadcast(AmalgamateMsg(n, seq[n] + 1))
          BY <3>2, <4>1
        <5>2. view' = [view EXCEPT ![n] = view[n]] /\ seq' = [seq EXCEPT ![n] = seq[n] + 1]
          BY <5>1 DEF MoveTo
        <5>3. msgs' \subseteq Message
          BY <3>1, <5>1 DEF TypeOK, Broadcast
        <5> QED
          BY <5>2, <5>3 DEF TypeOK
      <4>2. CASE Leader(view[n]) # n
        BY <3>2, <4>2 DEF TypeOK, position
      <4> QED
        BY <4>1, <4>2
    <3> QED
      BY <2>1, <3>2, <3>3, <3>4 DEF TypeOK
  <2> QED
    BY <2>2, <2>3, <2>4
<1>2. CASE AmalgamateReq(n)
  <2>1. PICK m \in msgs : m.type = "amalgamate" /\ MoveTo(n, view[n], m.seq)
    BY <1>2 DEF AmalgamateReq
  <2>2. m.seq \in Nat
    BY <2>1, Content DEF TypeOK
  <2> QED
    BY <1>2, <2>1, <2>2 DEF AmalgamateReq, EnterStage, MoveTo, TypeOK, Stages, round, change, net
<1>3. CASE Propose(n)
  <2>1. PICK full \in Payloads :
          LET d == [seq |-> seq[n], view |-> view[n], parent |-> Hash(n),
                    ts |-> clock + 1, full |-> full]
          IN  cand' = [cand EXCEPT ![n] = d] /\ Broadcast(PrePrepareMsg(n, d))
    BY <1>3 DEF Propose
  <2> DEFINE d == [seq |-> seq[n], view |-> view[n], parent |-> Hash(n),
                   ts |-> clock + 1, full |-> full]
  <2>2. d \in Digest
    <3>1. /\ seq[n] \in Nat /\ view[n] \in Nat /\ Hash(n) \in Nat /\ clock + 1 \in Nat
          /\ full \in BOOLEAN
      BY HashIsNat, BoundAssumption DEF TypeOK
    <3> QED
      BY <3>1 DEF Digest
  <2>3. PrePrepareMsg(n, d) \in Message
    BY <2>2, DigestMessages
  <2>4. cand' = [cand EXCEPT ![n] = d] /\ msgs' = msgs \cup {PrePrepareMsg(n, d)}
    BY <2>1 DEF Broadcast
  <2>5. cand' \in [Node -> Digest] /\ msgs' \subseteq Message
    <3> HIDE DEF d
    <3> QED
      BY <2>2, <2>3, <2>4 DEF TypeOK
  <2> QED
    BY <1>3, <2>5 DEF Propose, EnterStage, TypeOK, Stages, position, change
<1>4. CASE PrePrepareReq(n)
  <2>1. PICK m \in msgs : /\ m.type = "prePrepare"
                          /\ cand' = [cand EXCEPT ![n] = m.digest]
                          /\ Broadcast(PrepareMsg(n, m.digest))
    BY <1>4 DEF PrePrepareReq
  <2>2. m.digest \in Digest /\ PrepareMsg(n, m.digest) \in Message
    BY <2>1, Content, DigestMessages DEF TypeOK
  <2> QED
    BY <1>4, <2>1, <2>2
       DEF PrePrepareReq, Broadcast, EnterStage, TypeOK, Stages, position, change
<1>5. CASE LeaderPrepare(n)
  <2>1. PrepareMsg(n, cand[n]) \in Message
    BY DigestMessages DEF TypeOK
  <2> QED
    BY <1>5, <2>1
       DEF LeaderPrepare, Broadcast, EnterStage, TypeOK, Stages, position, round, change
<1>6. CASE Prepared(n)
  <2>1. PICK m \in msgs : m.type = "prepare" /\ cons' = [cons EXCEPT ![n] = m.digest]
    BY <1>6 DEF Prepared
  <2>2. m.digest \in Digest
    BY <2>1, Content DEF TypeOK
  <2>3. EnterStage(n, "ready")
        /\ UNCHANGED <<position, chain, cand, dec, change, net, clock, expired>>
    BY <1>6 DEF Prepared
  <2> QED
    BY <2>1, <2>2, <2>3 DEF EnterStage, TypeOK, Stages, position, change, net
<1>7. CASE NotPrepared(n)
  BY <1>7 DEF NotPrepared, Expire, EnterStage, TypeOK, Stages, position, round, change, net
<1>8. CASE ReadyDone(n)
  <2>1. CommitMsg(n, cons[n]) \in Message
    BY DigestMessages DEF TypeOK
  <2> QED
    BY <1>8, <2>1
       DEF ReadyDone, Broadcast, EnterStage, TypeOK, Stages, position, round, change
<1>9. CASE Decided(n)
  <2>1. PICK m \in msgs :
          /\ m.type = "commit"
          /\ dec' = [dec EXCEPT ![n] = m.digest]
          /\ IF Extends(n, m.digest)
               THEN /\ EnterStage(n, IF m.digest = cand[n] THEN "process"
                                                           ELSE "fetchCandidate")
                    /\ UNCHANGED msgs
               ELSE RunViewChangeForConsensusFail(n)
    BY <1>9 DEF Decided
  <2>2. m.digest \in Digest
    BY <2>1, Content DEF TypeOK
  <2>3. mode' \in [Node -> Modes] /\ stage' \in [Node -> Stages] /\ msgs' \subseteq Message
    <3>1. CASE Extends(n, m.digest)
      BY <2>1, <3>1 DEF EnterStage, TypeOK, Stages
    <3>2. CASE ~Extends(n, m.digest)
      BY <2>1, <3>2, FailRunType
    <3> QED
      BY <3>1, <3>2
  <2>4. UNCHANGED <<position, chain, cand, cons, change, answers, timeouts, clock, expired>>
    BY <1>9 DEF Decided
  <2> QED
    BY <2>1, <2>2, <2>3, <2>4 DEF TypeOK, position, change
<1>10. CASE NotDecided(n)
  <2>1. RunViewChangeForConsensusFail(n) /\ expired' = expired + 1
    BY <1>10 DEF NotDecided, Expire
  <2>2. UNCHANGED <<position, chain, round, change, answers, timeouts, clock>>
    BY <1>10 DEF NotDecided
  <2>3. mode' \in [Node -> Modes] /\ stage' \in [Node -> Stages] /\ msgs' \subseteq Message
    BY <2>1, FailRunType
  <2>4. expired' \in Nat
    BY <2>1 DEF TypeOK
  <2> QED
    BY <2>2, <2>3, <2>4 DEF TypeOK, position, round, change
<1>11. CASE Processed(n)
  <2>1. chain' \in [Node -> Seq(Nat)]
    BY <1>11 DEF Processed, TypeOK, Digest
  <2>2. RunNewConsensusRound(n, "processed") /\ "processed" \in Stages
    BY <1>11 DEF Processed, Stages
  <2>3. UNCHANGED <<position, ballots, newView, net, clock, expired>>
    BY <1>11 DEF Processed
  <2> QED
    BY <2>1, <2>2, <2>3, NewRoundType DEF TypeOK, position, net
<1> QED
  BY <1>1, <1>2, <1>3, <1>4, <1>5, <1>6, <1>7, <1>8, <1>9, <1>10, <1>11

\* Fetching a candidate keeps the types.
LEMMA CandidateTypes ==
  ASSUME TypeOK, NEW n \in Node,
         \/ CandidateReq(n) \/ CandidateRes(n) \/ CandidateExpire(n) \/ FailVoteExpire(n)
  PROVE  TypeOK'
<1>1. CASE CandidateReq(n)
  <2>1. CandidateMsg(n, cand[n]) \in Message
    BY DigestMessages DEF TypeOK
  <2> QED
    BY <1>1, <2>1 DEF CandidateReq, Broadcast, TypeOK, node, round, change
<1>2. CASE CandidateRes(n)
  BY <1>2 DEF CandidateRes, EnterStage, TypeOK, Stages, position, round, change, net
<1>3. CASE CandidateExpire(n)
  BY <1>3 DEF CandidateExpire, SyncProcessState, Goto, Expire, TypeOK, Modes, Stages,
              position, round, change, net
<1>4. CASE FailVoteExpire(n)
  BY <1>4 DEF FailVoteExpire, SyncProcessState, Goto, Expire, TypeOK, Modes, Stages,
              position, round, change, net
<1> QED
  BY <1>1, <1>2, <1>3, <1>4

\* The steps of a view change keep the types.
LEMMA ViewChangeTypes ==
  ASSUME TypeOK, NEW n \in Node,
         \/ FailVoteSuccess(n) \/ LeaderExpire(n) \/ LeaderExpireInNewView(n)
         \/ InvalidSequenceExpire(n) \/ TimeoutVote(n) \/ NewViewReq(n) \/ NewViewDone(n)
  PROVE  TypeOK'
<1>0. mode[n] \in Modes /\ "newView" \in Modes /\ "fetchChain" \in Modes /\ view[n] \in Nat
  BY DEF TypeOK, Modes
<1>1. CASE FailVoteSuccess(n)
  <2>1. PICK m \in msgs : m.type = "consensusFail" /\ EnterView(n, NextView(m.position))
    BY <1>1 DEF FailVoteSuccess
  <2>2. NextView(m.position) \in Nat
    BY <2>1, Content DEF TypeOK, Position, NextView
  <2>3. view' \in [Node -> Nat] /\ seq' \in [Node -> Nat]
    BY <2>1, <2>2, EnterViewType
  <2>4. LeaveViewChange(n, mode[n]) /\ UNCHANGED <<chain, net, clock, expired>>
    BY <1>1 DEF FailVoteSuccess
  <2> QED
    BY <1>0, <2>3, <2>4, LeaveType DEF TypeOK, net
<1>2. CASE LeaderExpire(n)
  <2>1. /\ Expire /\ VoteForNextView(n, view[n], "fetchChain")
        /\ UNCHANGED <<chain, stage, round, tries, answers, clock>>
    BY <1>2 DEF LeaderExpire
  <2>2. expired' \in Nat /\ UNCHANGED <<chain, stage, cand, cons, dec, tries, answers, clock>>
    BY <2>1 DEF TypeOK, Expire, round
  <2> QED
    BY <1>0, <2>1, <2>2, VoteType DEF TypeOK
<1>3. CASE LeaderExpireInNewView(n)
  <2> DEFINE b == [from |-> n, position |-> PositionAt(n, view[n])]
  <2>1. b \in Ballot
    BY <1>0, PositionType DEF Ballot
  <2>2. Leader(view[n] + 1) \in Node
    BY <1>0, LeaderIsNode
  <2>3. timeouts' = timeouts \cup {[to |-> Leader(view[n] + 1), vote |-> b]}
    BY <1>3 DEF LeaderExpireInNewView
  <2>4. timeouts' \subseteq [to : Node, vote : Ballot]
    <3> HIDE DEF b
    <3> QED
      BY <2>1, <2>2, <2>3 DEF TypeOK
  <2> QED
    BY <1>3, <2>4 DEF LeaderExpireInNewView, Expire, TypeOK, node, round, change
<1>4. CASE InvalidSequenceExpire(n)
  <2>1. UNCHANGED <<chain, stage, round, answers, clock>> /\ expired' \in Nat
    BY <1>4 DEF InvalidSequenceExpire, Expire, TypeOK
  <2>2. CASE tries[n] >= N
    <3>1. /\ mode' = [mode EXCEPT ![n] = "fetchChain"]
          /\ UNCHANGED <<position, change, msgs, timeouts>>
      BY <1>4, <2>2 DEF InvalidSequenceExpire
    <3>2. mode' \in [Node -> Modes]
      BY <3>1 DEF TypeOK, Modes
    <3>3. UNCHANGED <<view, seq, ballots, newView, tries, msgs, timeouts>>
      BY <3>1 DEF position, change
    <3>4. UNCHANGED <<chain, stage, cand, cons, dec, answers, clock>>
      BY <2>1 DEF round
    <3> QED
      BY <2>1, <3>2, <3>3, <3>4 DEF TypeOK
  <2>3. CASE ~(tries[n] >= N)
    <3>1. /\ tries' = [tries EXCEPT ![n] = @ + 1]
          /\ VoteForNextView(n, view[n] + tries[n] + 1, mode[n])
      BY <1>4, <2>3 DEF InvalidSequenceExpire
    <3>2. view[n] + tries[n] + 1 \in Nat /\ tries' \in [Node -> Nat]
      BY <3>1 DEF TypeOK
    <3> QED
      BY <1>0, <2>1, <3>1, <3>2, VoteType DEF TypeOK, round
  <2> QED
    BY <2>2, <2>3
<1>5. CASE TimeoutVote(n)
  <2>1. PICK t \in timeouts : timeouts' = timeouts \ {t} /\ Tally(n, t.vote, mode[n])
    BY <1>5 DEF TimeoutVote
  <2>2. t.vote \in Ballot /\ timeouts' \subseteq [to : Node, vote : Ballot]
    BY <2>1 DEF TypeOK
  <2>3. UNCHANGED <<chain, stage, round, tries, answers, clock, expired>>
    BY <1>5 DEF TimeoutVote
  <2> QED
    BY <1>0, <2>1, <2>2, <2>3, TallyType DEF TypeOK, round
<1>6. CASE NewViewReq(n)
  <2>1. PICK m \in msgs : m.type = "newView" /\ EnterView(n, NextView(m.position))
    BY <1>6 DEF NewViewReq
  <2>2. NextView(m.position) \in Nat
    BY <2>1, Content DEF TypeOK, Position, NextView
  <2>3. view' \in [Node -> Nat] /\ seq' \in [Node -> Nat]
    BY <2>1, <2>2, EnterViewType
  <2>4. LeaveViewChange(n, "newView") /\ UNCHANGED <<chain, net, clock, expired>>
    BY <1>6 DEF NewViewReq
  <2> QED
    BY <1>0, <2>3, <2>4, LeaveType DEF TypeOK, net
<1>7. CASE NewViewDone(n)
  <2>1. LeaveViewChange(n, mode[n]) /\ UNCHANGED <<position, chain, net, clock, expired>>
    BY <1>7 DEF NewViewDone
  <2> QED
    BY <1>0, <2>1, LeaveType DEF TypeOK, net, position
<1> QED
  BY <1>1, <1>2, <1>3, <1>4, <1>5, <1>6, <1>7

\* The steps of a synchronisation, and a restart, keep the types.
LEMMA SyncTypes ==
  ASSUME TypeOK, NEW n \in Node,
         \/ SyncBlock(n) \/ SyncEnd(n) \/ StateSuccess(n)
         \/ (\E m \in Node : StateAnswer(m, n)) \/ Restart(n)
  PROVE  TypeOK'
<1>1. CASE SyncBlock(n)
  <2>1. PICK p \in Node :
          LET b == chain[p][Len(chain[n]) + 1]
          IN  /\ Len(chain[p]) > Len(chain[n])
              /\ IF chain[n] = SubSeq(chain[p], 1, Len(chain[n]))
                   THEN chain' = [chain EXCEPT ![n] = Append(@, b)] /\ UNCHANGED mode
                   ELSE mode' = [mode EXCEPT ![n] = "exit"] /\ UNCHANGED chain
    BY <1>1 DEF SyncBlock
  <2>2. chain[p] \in Seq(Nat) /\ chain[n] \in Seq(Nat)
    BY DEF TypeOK
  <2>3. chain[p][Len(chain[n]) + 1] \in Nat
    BY <2>1, <2>2
  <2>4. chain' \in [Node -> Seq(Nat)] /\ mode' \in [Node -> Modes]
    <3> DEFINE b == chain[p][Len(chain[n]) + 1]
    <3>1. Append(chain[n], b) \in Seq(Nat)
      BY <2>2, <2>3
    <3>2. \/ chain' = [chain EXCEPT ![n] = Append(chain[n], b)] /\ mode' = mode
          \/ mode' = [mode EXCEPT ![n] = "exit"] /\ chain' = chain
      BY <2>1
    <3> HIDE DEF b
    <3> QED
      BY <3>1, <3>2 DEF TypeOK, Modes
  <2>5. UNCHANGED <<position, stage, round, change, net, clock, expired>>
    BY <1>1 DEF SyncBlock
  <2> QED
    BY <2>4, <2>5 DEF TypeOK, position, round, change, net
<1>2. CASE SyncEnd(n)
  BY <1>2 DEF SyncEnd, Goto, MoveTo, TypeOK, Modes, Stages, round, change, net
<1>3. CASE StateSuccess(n)
  <2>1. PICK a \in answers[n] :
          /\ MoveTo(n, a.position.view, a.position.seq)
          /\ IF a.position.parent = Hash(n)
               THEN RunNewConsensusRound(n, "new")
               ELSE /\ mode' = [mode EXCEPT ![n] = "fetchChain"]
                    /\ UNCHANGED <<stage, round, tries>>
          /\ answers' = [answers EXCEPT ![n] = @ \ SamePosition(@, a)]
    BY <1>3 DEF StateSuccess
  <2>2. a.position.view \in Nat /\ a.position.seq \in Nat
    BY DEF TypeOK, Ballot, Position
  <2>3. view' \in [Node -> Nat] /\ seq' \in [Node -> Nat]
    BY <2>1, <2>2 DEF TypeOK, MoveTo
  <2>4. answers' \in [Node -> SUBSET Ballot]
    BY <2>1 DEF TypeOK
  <2>5. UNCHANGED <<chain, ballots, newView, msgs, timeouts, clock, expired>>
    BY <1>3 DEF StateSuccess
  <2>6. CASE a.position.parent = Hash(n)
    <3>1. RunNewConsensusRound(n, "new") /\ "new" \in Stages
      BY <2>1, <2>6 DEF Stages
    <3> QED
      BY <2>3, <2>4, <2>5, <3>1, NewRoundType DEF TypeOK
  <2>7. CASE a.position.parent # Hash(n)
    <3>1. mode' = [mode EXCEPT ![n] = "fetchChain"] /\ UNCHANGED <<stage, round, tries>>
      BY <2>1, <2>7
    <3> QED
      BY <2>3, <2>4, <2>5, <3>1 DEF TypeOK, Modes, round
  <2> QED
    BY <2>6, <2>7
<1>4. CASE \E m \in Node : StateAnswer(m, n)
  <2>1. PICK m \in Node : StateAnswer(m, n)
    BY <1>4
  <2> DEFINE a == [from |-> m, position |-> PositionAt(m, view[m])]
  <2>2. a \in Ballot
    BY PositionType DEF TypeOK, Ballot
  <2>3. answers' = [answers EXCEPT ![n] = {x \in @ : x.from # m} \cup {a}]
    BY <2>1 DEF StateAnswer
  <2>4. answers' \in [Node -> SUBSET Ballot]
    <3> HIDE DEF a
    <3> QED
      BY <2>2, <2>3 DEF TypeOK
  <2> QED
    BY <2>1, <2>4 DEF StateAnswer, TypeOK, node, round, change
<1>5. CASE Restart(n)
  BY <1>5, NoDigestType DEF Restart, Expire, Goto, MoveTo, TypeOK, Modes, Stages
<1> QED
  BY <1>1, <1>2, <1>3, <1>4, <1>5

\* The actions, one of which every step of the specification is
LEMMA Actions ==
  ASSUME Next
  PROVE  \E n \in Node :
           \/ AmalgamateRun(n) \/ AmalgamateReq(n) \/ Propose(n)
           \/ PrePrepareReq(n) \/ LeaderPrepare(n)
           \/ Prepared(n) \/ NotPrepared(n) \/ ReadyDone(n)
           \/ Decided(n) \/ NotDecided(n)
           \/ CandidateReq(n) \/ CandidateRes(n) \/ CandidateExpire(n)
           \/ Processed(n)
           \/ FailVoteSuccess(n) \/ FailVoteExpire(n)
           \/ LeaderExpire(n) \/ LeaderExpireInNewView(n) \/ InvalidSequenceExpire(n)
           \/ TimeoutVote(n) \/ NewViewReq(n) \/ NewViewDone(n)
           \/ SyncBlock(n) \/ SyncEnd(n) \/ StateSuccess(n)
           \/ (\E m \in Node : StateAnswer(m, n))
           \/ Restart(n)
  BY Zenon DEF Next

\* Every step keeps the types.
LEMMA TypeStep == ASSUME TypeOK, Next PROVE TypeOK'
  BY Actions, RoundTypes, CandidateTypes, ViewChangeTypes, SyncTypes, Zenon

\* Every variable keeps to its type, whatever the number of nodes and the bounds.
THEOREM TypeCorrect == Spec => []TypeOK
<1>1. Init => TypeOK
  BY NoDigestType DEF Init, TypeOK, Modes, Stages
<1>2. TypeOK /\ [Next]_vars => TypeOK'
  <2>1. ASSUME TypeOK, UNCHANGED vars PROVE TypeOK'
    BY <2>1 DEF vars, node, round, change, net, TypeOK
  <2> QED
    BY <2>1, TypeStep
<1> QED
  BY <1>1, <1>2, PTL DEF Spec

(***************************************************************************)
(* The safety of Ripple: what a commit rests on, where the blocks of a     *)
(* chain come from, and the ledger they make.  The inductive invariant     *)
(* follows a digest from its proposal through the stages of a node, and    *)
(* maps every step to a step of Ledger or to none.                         *)
(***************************************************************************)

Proposed == {m.digest : m \in {x \in msgs : x.type = "prePrepare"}}

\* A digest a node holds or sends comes from a proposal.
Known ==
    /\ \A n \in Node : {cand[n], cons[n], dec[n]} \subseteq Proposed \cup {NoDigest}
    /\ \A n \in Node : stage[n] = "propose" => cand[n] # NoDigest
    /\ \A m \in msgs : m.type \in {"prepare", "commit", "candidate"} => m.digest \in Proposed

\* A timestamp belongs to one proposal.
Unique ==
    /\ \A c, d \in Proposed : c.ts = d.ts => c = d
    /\ \A d \in Proposed : d.ts \in 1 .. clock /\ d.parent \in 0 .. clock
    /\ clock <= MaxClock

\* What a node takes as agreed, a quorum has prepared.
ConsPrepared == \A n \in Node : cons[n] # NoDigest => Backed(PrepareMsg, cons[n])

\* A block about to be processed is decided and extends the node's chain, which
\* nothing else changes meanwhile.
Deciding ==
    \A n \in Node : stage[n] \in {"fetchCandidate", "process"} =>
        /\ mode[n] \in {"consensus", "newView"}
        /\ dec[n] \in Proposed
        /\ Backed(CommitMsg, dec[n])
        /\ dec[n].parent = Hash(n)

IInv ==
    /\ TypeOK
    /\ Known
    /\ Unique
    /\ ConsPrepared
    /\ CommitsPrepared
    /\ Deciding
    /\ BlocksCertified
-----------------------------------------------------------------------------
(* Lemmas about messages *)

\* What was backed stays backed.
LEMMA BackedMonotone ==
  ASSUME msgs \subseteq msgs', NEW d
  PROVE  /\ Backed(PrepareMsg, d) => Backed(PrepareMsg, d)'
         /\ Backed(CommitMsg, d) => Backed(CommitMsg, d)'
  BY DEF Backed

\* Proposals are never withdrawn.
LEMMA ProposedMonotone ==
  ASSUME msgs \subseteq msgs'
  PROVE  Proposed \subseteq Proposed'
  BY DEF Proposed

\* Proposals are digests.
LEMMA ProposedIsDigest == ASSUME TypeOK PROVE Proposed \subseteq Digest
  BY Content DEF TypeOK, Proposed

\* Messages other than proposals leave the proposals alone.
LEMMA ProposedUnchanged ==
  ASSUME msgs \subseteq msgs', \A m \in msgs' \ msgs : m.type # "prePrepare"
  PROVE  Proposed' = Proposed
  BY DEF Proposed

CarriesDigest == {"prePrepare", "prepare", "commit", "candidate"}

\* A step that brings no message with a digest, forgets digests at most and lets no
\* node begin to propose, to fetch or to process a block.
Quiet ==
    /\ msgs \subseteq msgs'
    /\ \A m \in msgs' \ msgs : m.type \notin CarriesDigest
    /\ UNCHANGED <<chain, clock>>
    /\ \A n \in Node : /\ cand'[n] \in {cand[n], NoDigest}
                       /\ cons'[n] \in {cons[n], NoDigest}
                       /\ dec'[n] \in {dec[n], NoDigest}
    /\ \A n \in Node : stage'[n] = "propose" => stage[n] = "propose" /\ cand'[n] = cand[n]
    /\ \A n \in Node : stage'[n] \in {"fetchCandidate", "process"} =>
          /\ stage[n] \in {"fetchCandidate", "process"}
          /\ mode'[n] \in {"consensus", "newView"}
          /\ dec'[n] = dec[n]

\* What certifies the blocks of a chain stays when messages are added.
LEMMA CertifiedMonotone ==
  ASSUME BlocksCertified, msgs \subseteq msgs', chain' = chain
  PROVE  BlocksCertified'
<1> SUFFICES ASSUME NEW n \in Node, NEW i \in 1 .. Len(chain[n])
             PROVE  \E d \in {m.digest : m \in {x \in msgs' : x.type = "commit"}} :
                       /\ d.ts = chain[n][i]
                       /\ d.parent = Parent(chain[n], i)
                       /\ Backed(CommitMsg, d)'
  BY DEF BlocksCertified
<1>1. PICK d \in {m.digest : m \in {x \in msgs : x.type = "commit"}} :
             /\ d.ts = chain[n][i]
             /\ d.parent = Parent(chain[n], i)
             /\ Backed(CommitMsg, d)
  BY DEF BlocksCertified
<1>2. Backed(CommitMsg, d)'
  BY <1>1, BackedMonotone
<1> QED
  BY <1>1, <1>2

\* A step that sends no digest and leaves chains and agreements alone keeps the
\* invariant.
LEMMA QuietStep == ASSUME IInv, TypeOK', Quiet PROVE IInv'
<1>1. Proposed' = Proposed
  BY ProposedUnchanged DEF Quiet, CarriesDigest
<1>2. Known'
  <2>1. \A n \in Node : {cand'[n], cons'[n], dec'[n]} \subseteq Proposed \cup {NoDigest}
    BY DEF IInv, Known, Quiet
  <2>2. \A n \in Node : stage'[n] = "propose" => cand'[n] # NoDigest
    BY DEF IInv, Known, Quiet
  <2>3. \A m \in msgs' : m.type \in {"prepare", "commit", "candidate"} => m.digest \in Proposed
    BY DEF IInv, Known, Quiet, CarriesDigest
  <2> QED
    BY <1>1, <2>1, <2>2, <2>3 DEF Known
<1>3. Unique'
  BY <1>1 DEF IInv, Unique, Quiet
<1>4. ConsPrepared'
  <2> SUFFICES ASSUME NEW n \in Node, cons'[n] # NoDigest
               PROVE  Backed(PrepareMsg, cons[n])'
    BY DEF ConsPrepared, Quiet
  <2> QED
    BY BackedMonotone DEF IInv, ConsPrepared, Quiet
<1>5. CommitsPrepared'
  <2> SUFFICES ASSUME NEW m \in msgs', m.type = "commit"
               PROVE  Backed(PrepareMsg, m.digest)'
    BY DEF CommitsPrepared
  <2>1. m \in msgs
    BY DEF Quiet, CarriesDigest
  <2> QED
    BY <2>1, BackedMonotone DEF IInv, CommitsPrepared, Quiet
<1>6. Deciding'
  <2> SUFFICES ASSUME NEW n \in Node, stage'[n] \in {"fetchCandidate", "process"}
               PROVE  /\ mode'[n] \in {"consensus", "newView"}
                      /\ dec'[n] \in Proposed'
                      /\ Backed(CommitMsg, dec[n])'
                      /\ dec'[n].parent = Hash(n)'
    BY DEF Deciding
  <2>1. /\ mode'[n] \in {"consensus", "newView"}
        /\ dec'[n] = dec[n]
        /\ dec[n] \in Proposed
        /\ Backed(CommitMsg, dec[n])
        /\ dec[n].parent = Hash(n)
    BY DEF IInv, Deciding, Quiet
  <2>2. Hash(n)' = Hash(n)
    BY DEF Quiet, Hash
  <2>3. Backed(CommitMsg, dec[n])'
    BY <2>1, BackedMonotone DEF Quiet
  <2> QED
    BY <1>1, <2>1, <2>2, <2>3
<1>7. BlocksCertified'
  BY CertifiedMonotone DEF IInv, Quiet
<1> QED
  BY <1>2, <1>3, <1>4, <1>5, <1>6, <1>7 DEF IInv
-----------------------------------------------------------------------------
(* The quiet actions *)

\* Counting a vote is such a step.
LEMMA TallyQuiet ==
  ASSUME TypeOK, NEW n \in Node, NEW b, NEW m \in Modes, Tally(n, b, m),
         UNCHANGED <<chain, stage, round, clock>>,
         stage[n] \in {"fetchCandidate", "process"} => m \in {"consensus", "newView"},
         Deciding
  PROVE  Quiet
<1>1. msgs' \in {msgs, msgs \cup {NewViewMsg(n, b.position)}}
  BY DEF Tally, Broadcast
<1>2. mode' \in {[mode EXCEPT ![n] = m], [mode EXCEPT ![n] = "newView"]}
  BY DEF Tally
<1>3. NewViewMsg(n, b.position).type \notin CarriesDigest
  BY DEF NewViewMsg, CarriesDigest
<1>4. UNCHANGED <<cand, cons, dec>>
  BY DEF round
<1> QED
  BY <1>1, <1>2, <1>3, <1>4 DEF Quiet, TypeOK, Deciding

\* So is voting for the next view.
LEMMA VoteQuiet ==
  ASSUME TypeOK, NEW n \in Node, NEW v, NEW m \in Modes, VoteForNextView(n, v, m),
         UNCHANGED <<chain, round, clock>>,
         stage' = stage \/ stage' = [stage EXCEPT ![n] = "waitView"],
         stage[n] \notin {"fetchCandidate", "process"},
         Deciding
  PROVE  Quiet
<1>1. msgs' = msgs \/ \E p : msgs' = msgs \cup {NewViewMsg(n, p)}
  BY DEF VoteForNextView, Tally, Broadcast
<1>2. \A x \in Node \ {n} : mode'[x] = mode[x]
  BY DEF VoteForNextView, Tally, TypeOK
<1>3. \A p : NewViewMsg(n, p).type \notin CarriesDigest
  BY DEF NewViewMsg, CarriesDigest
<1>4. UNCHANGED <<cand, cons, dec>>
  BY DEF round
<1>5. \A x \in Node : stage'[x] \in {"fetchCandidate", "process"} =>
          x # n /\ stage[x] = stage'[x]
  BY DEF TypeOK
<1>6. \A x \in Node : stage'[x] = "propose" => stage[x] = "propose"
  BY DEF TypeOK
<1> QED
  BY <1>1, <1>2, <1>3, <1>4, <1>5, <1>6 DEF Quiet, Deciding

\* So is beginning a round.
LEMMA NewRoundQuiet ==
  ASSUME TypeOK, Deciding, NEW n \in Node, NEW s \in {"new", "processed"},
         RunNewConsensusRound(n, s), UNCHANGED <<chain, msgs, clock>>
  PROVE  Quiet
<1>1. \A x \in Node : /\ cand'[x] \in {cand[x], NoDigest}
                       /\ cons'[x] \in {cons[x], NoDigest}
                       /\ dec'[x] \in {dec[x], NoDigest}
  BY DEF RunNewConsensusRound, TypeOK
<1>2. \A x \in Node \ {n} : /\ cand'[x] = cand[x] /\ dec'[x] = dec[x]
                             /\ stage'[x] = stage[x] /\ mode'[x] = mode[x]
  BY DEF RunNewConsensusRound, Goto, TypeOK
<1>3. stage'[n] \in {"new", "newTwice", "processed"}
  BY DEF RunNewConsensusRound, Goto, TypeOK
<1> QED
  BY <1>1, <1>2, <1>3 DEF Quiet, Deciding

\* So is ending a view change.
LEMMA LeaveQuiet ==
  ASSUME TypeOK, Deciding, NEW n \in Node, NEW m \in {mode[n], "newView"},
         LeaveViewChange(n, m), UNCHANGED <<chain, msgs, clock>>
  PROVE  Quiet
<1>1. CASE stage[n] \notin {"process", "processed"}
  BY <1>1, NewRoundQuiet DEF LeaveViewChange
<1>2. CASE stage[n] \in {"process", "processed"}
  <2>1. /\ mode' = [mode EXCEPT ![n] = m]
        /\ UNCHANGED <<stage, cand, cons, dec>>
    BY <1>2 DEF LeaveViewChange, round
  <2> QED
    BY <2>1 DEF Quiet, Deciding, TypeOK
<1> QED
  BY <1>1, <1>2

\* The actions that are quiet as a whole.
LEMMA QuietActions ==
  ASSUME IInv, NEW n \in Node,
         \/ AmalgamateRun(n) \/ AmalgamateReq(n) \/ NotPrepared(n) \/ NotDecided(n)
         \/ CandidateRes(n) \/ CandidateExpire(n)
         \/ FailVoteSuccess(n) \/ FailVoteExpire(n)
         \/ LeaderExpire(n) \/ LeaderExpireInNewView(n) \/ InvalidSequenceExpire(n)
         \/ TimeoutVote(n) \/ NewViewReq(n) \/ NewViewDone(n)
         \/ SyncEnd(n) \/ StateSuccess(n)
         \/ (\E m \in Node : StateAnswer(m, n))
         \/ Restart(n)
  PROVE  Quiet
<1> USE DEF IInv
<1>1. CASE AmalgamateRun(n)
  <2>1. UNCHANGED <<chain, round, clock>> /\ stage[n] \in {"new", "processed", "newTwice"}
    BY <1>1 DEF AmalgamateRun
  <2>2. CASE stage[n] = "newTwice"
    BY <1>1, <2>1, <2>2 DEF AmalgamateRun, Goto, Quiet, Deciding, TypeOK, round
  <2>3. CASE stage[n] # "newTwice" /\ seq[n] >= HighWaterLine(view[n])
    <3>1. stage' = [stage EXCEPT ![n] = "waitView"]
      BY <1>1, <2>3 DEF AmalgamateRun
    <3>2. CASE mode[n] = "newView"
      <4>1. UNCHANGED <<mode, msgs>>
        BY <1>1, <2>3, <3>2 DEF AmalgamateRun
      <4> QED
        BY <2>1, <3>1, <4>1 DEF Quiet, Deciding, TypeOK, round
    <3>3. CASE mode[n] # "newView"
      <4>1. VoteForNextView(n, view[n], mode[n]) /\ mode[n] \in Modes
        BY <1>1, <2>3, <3>3 DEF AmalgamateRun, TypeOK
      <4> QED
        BY <2>1, <3>1, <4>1, VoteQuiet
    <3> QED
      BY <3>2, <3>3
  <2>4. CASE stage[n] # "newTwice" /\ ~(seq[n] >= HighWaterLine(view[n]))
    <3>1. /\ EnterStage(n, "collect") \/ EnterStage(n, "amalgamate")
          /\ msgs' = msgs \/ Broadcast(AmalgamateMsg(n, seq[n] + 1))
      BY <1>1, <2>4 DEF AmalgamateRun
    <3>2. AmalgamateMsg(n, seq[n] + 1).type \notin CarriesDigest
      BY DEF AmalgamateMsg, CarriesDigest
    <3> QED
      BY <2>1, <3>1, <3>2 DEF Quiet, Deciding, TypeOK, round, EnterStage, Broadcast
  <2> QED
    BY <2>2, <2>3, <2>4
<1>2. CASE AmalgamateReq(n)
  BY <1>2 DEF AmalgamateReq, EnterStage, Quiet, Deciding, TypeOK, round, net
<1>3. CASE NotPrepared(n)
  BY <1>3 DEF NotPrepared, EnterStage, Quiet, Deciding, TypeOK, round, net
<1>4. CASE NotDecided(n)
  <2>1. FailMsg(n, PositionAt(n, view[n])).type \notin CarriesDigest
    BY DEF FailMsg, CarriesDigest
  <2> QED
    BY <1>4, <2>1 DEF NotDecided, RunViewChangeForConsensusFail, EnterStage, Broadcast,
                      Quiet, Deciding, TypeOK, round
<1>5. CASE CandidateRes(n)
  BY <1>5 DEF CandidateRes, EnterStage, Quiet, Deciding, TypeOK, round, net
<1>6. CASE CandidateExpire(n)
  BY <1>6 DEF CandidateExpire, SyncProcessState, Goto, Quiet, Deciding, TypeOK, round, net
<1>7. CASE FailVoteSuccess(n)
  <2>1. LeaveViewChange(n, mode[n]) /\ UNCHANGED <<chain, msgs, clock>>
    BY <1>7 DEF FailVoteSuccess, net
  <2> QED
    BY <2>1, LeaveQuiet
<1>8. CASE FailVoteExpire(n)
  BY <1>8 DEF FailVoteExpire, SyncProcessState, Goto, Quiet, Deciding, TypeOK, round, net
<1>9. CASE LeaderExpire(n)
  <2>1. /\ VoteForNextView(n, view[n], "fetchChain")
        /\ UNCHANGED <<chain, stage, round, clock>>
        /\ stage[n] \in {"amalgamate", "prePrepare"}
    BY <1>9 DEF LeaderExpire
  <2> QED
    BY <2>1, VoteQuiet DEF Modes
<1>10. CASE LeaderExpireInNewView(n)
  BY <1>10 DEF LeaderExpireInNewView, Quiet, Deciding, TypeOK, node, round
<1>11. CASE InvalidSequenceExpire(n)
  <2>1. UNCHANGED <<chain, stage, round, clock>> /\ stage[n] = "waitView"
    BY <1>11 DEF InvalidSequenceExpire
  <2>2. CASE tries[n] >= N
    <3>1. mode' = [mode EXCEPT ![n] = "fetchChain"] /\ UNCHANGED msgs
      BY <1>11, <2>2 DEF InvalidSequenceExpire
    <3> QED
      BY <2>1, <3>1 DEF Quiet, Deciding, TypeOK, round
  <2>3. CASE ~(tries[n] >= N)
    <3>1. VoteForNextView(n, view[n] + tries[n] + 1, mode[n]) /\ mode[n] \in Modes
      BY <1>11, <2>3 DEF InvalidSequenceExpire, TypeOK
    <3> QED
      BY <2>1, <3>1, VoteQuiet
  <2> QED
    BY <2>2, <2>3
<1>12. CASE TimeoutVote(n)
  <2>1. PICK t \in timeouts : Tally(n, t.vote, mode[n])
    BY <1>12 DEF TimeoutVote
  <2>2. UNCHANGED <<chain, stage, round, clock>> /\ mode[n] = "consensus"
    BY <1>12 DEF TimeoutVote
  <2>3. mode[n] \in Modes
    BY DEF TypeOK
  <2> QED
    BY <2>1, <2>2, <2>3, TallyQuiet
<1>13. CASE NewViewReq(n)
  <2>1. LeaveViewChange(n, "newView") /\ UNCHANGED <<chain, msgs, clock>>
    BY <1>13 DEF NewViewReq, net
  <2> QED
    BY <2>1, LeaveQuiet
<1>14. CASE NewViewDone(n)
  <2>1. LeaveViewChange(n, mode[n]) /\ UNCHANGED <<chain, msgs, clock>>
    BY <1>14 DEF NewViewDone, net
  <2> QED
    BY <2>1, LeaveQuiet
<1>15. CASE SyncEnd(n)
  BY <1>15 DEF SyncEnd, Goto, Quiet, Deciding, TypeOK, round, net
<1>16. CASE StateSuccess(n)
  <2>1. mode[n] = "fetchState" /\ UNCHANGED <<chain, msgs, clock>>
    BY <1>16 DEF StateSuccess
  <2>2. CASE RunNewConsensusRound(n, "new")
    BY <2>1, <2>2, NewRoundQuiet
  <2>3. CASE mode' = [mode EXCEPT ![n] = "fetchChain"] /\ UNCHANGED <<stage, round, tries>>
    BY <2>1, <2>3 DEF Quiet, Deciding, TypeOK, round
  <2> QED
    BY <1>16, <2>2, <2>3 DEF StateSuccess
<1>17. CASE \E m \in Node : StateAnswer(m, n)
  BY <1>17 DEF StateAnswer, Quiet, Deciding, TypeOK, node, round
<1>18. CASE Restart(n)
  BY <1>18 DEF Restart, Goto, Quiet, Deciding, TypeOK
<1> QED
  BY <1>1, <1>2, <1>3, <1>4, <1>5, <1>6, <1>7, <1>8, <1>9, <1>10, <1>11, <1>12, <1>13,
     <1>14, <1>15, <1>16, <1>17, <1>18
-----------------------------------------------------------------------------
(* The actions that move a digest on *)

\* What a chain holds is among the proposals so far.
LEMMA HashBound == ASSUME IInv, NEW n \in Node PROVE Hash(n) \in 0 .. clock
<1>1. CASE chain[n] = <<>>
  BY <1>1 DEF Hash, IInv, TypeOK
<1>2. CASE chain[n] # <<>>
  <2>1. Len(chain[n]) \in 1 .. Len(chain[n]) /\ Hash(n) = chain[n][Len(chain[n])]
    BY <1>2 DEF Hash, IInv, TypeOK
  <2>2. PICK d \in {m.digest : m \in {x \in msgs : x.type = "commit"}} : d.ts = Hash(n)
    BY <2>1 DEF IInv, BlocksCertified
  <2>3. d \in Proposed
    BY <2>2 DEF IInv, Known
  <2> QED
    BY <2>2, <2>3 DEF IInv, Unique, TypeOK
<1> QED
  BY <1>1, <1>2

\* The parts of the invariant about agreement, for steps that send no COMMIT
LEMMA AgreementKept ==
  ASSUME IInv, TypeOK', msgs \subseteq msgs', chain' = chain,
         \A m \in msgs' \ msgs : m.type # "commit",
         \A x \in Node : cons'[x] # NoDigest => cons'[x] = cons[x] \/ Backed(PrepareMsg, cons'[x])
  PROVE  ConsPrepared' /\ CommitsPrepared' /\ BlocksCertified'
<1>1. ConsPrepared'
  <2> SUFFICES ASSUME NEW x \in Node, cons'[x] # NoDigest
               PROVE  Backed(PrepareMsg, cons[x])'
    BY DEF ConsPrepared
  <2>1. Backed(PrepareMsg, cons'[x])
    BY DEF IInv, ConsPrepared
  <2> QED
    BY <2>1 DEF Backed
<1>2. CommitsPrepared'
  <2> SUFFICES ASSUME NEW m \in msgs', m.type = "commit"
               PROVE  Backed(PrepareMsg, m.digest)'
    BY DEF CommitsPrepared
  <2>1. m \in msgs
    OBVIOUS
  <2> QED
    BY <2>1, BackedMonotone DEF IInv, CommitsPrepared
<1>3. BlocksCertified'
  BY CertifiedMonotone DEF IInv
<1> QED
  BY <1>1, <1>2, <1>3

\* The part about blocks on their way, for steps that decide nothing
LEMMA DecidingKept ==
  ASSUME IInv, msgs \subseteq msgs', chain' = chain, UNCHANGED <<mode, dec>>,
         \A x \in Node : stage'[x] \in {"fetchCandidate", "process"} => stage'[x] = stage[x]
  PROVE  Deciding'
<1> SUFFICES ASSUME NEW x \in Node, stage'[x] \in {"fetchCandidate", "process"}
             PROVE  /\ mode'[x] \in {"consensus", "newView"}
                    /\ dec'[x] \in Proposed'
                    /\ Backed(CommitMsg, dec[x])'
                    /\ dec'[x].parent = Hash(x)'
  BY DEF Deciding
<1>1. /\ mode[x] \in {"consensus", "newView"}
      /\ dec[x] \in Proposed
      /\ Backed(CommitMsg, dec[x])
      /\ dec[x].parent = Hash(x)
  BY DEF IInv, Deciding
<1>2. Hash(x)' = Hash(x)
  BY DEF Hash
<1>3. Backed(CommitMsg, dec[x])'
  BY <1>1 DEF Backed
<1> QED
  BY <1>1, <1>2, <1>3, ProposedMonotone

\* A proposal has a new timestamp, so it is told apart from all before it.
LEMMA ProposeStep == ASSUME IInv, TypeOK', NEW n \in Node, Propose(n) PROVE IInv'
<1>1. PICK full \in Payloads :
        LET d == [seq |-> seq[n], view |-> view[n], parent |-> Hash(n),
                  ts |-> clock + 1, full |-> full]
        IN  cand' = [cand EXCEPT ![n] = d] /\ Broadcast(PrePrepareMsg(n, d))
  BY DEF Propose
<1> DEFINE d == [seq |-> seq[n], view |-> view[n], parent |-> Hash(n),
                 ts |-> clock + 1, full |-> full]
<1>2. cand' = [cand EXCEPT ![n] = d] /\ msgs' = msgs \cup {PrePrepareMsg(n, d)}
  BY <1>1 DEF Broadcast
<1>a. Hash(n) \in 0 .. clock
  BY HashBound
<1>b. clock \in Nat
  BY DEF IInv, TypeOK
<1>3. d.ts = clock + 1 /\ d.parent \in 0 .. clock /\ d # NoDigest
  BY <1>a, <1>b DEF NoDigest
<1> HIDE DEF d
<1>4. /\ clock' = clock + 1 /\ clock < MaxClock
      /\ stage' = [stage EXCEPT ![n] = "propose"]
      /\ UNCHANGED <<chain, cons, dec, mode>>
  BY DEF Propose, EnterStage
<1>5. Proposed' = Proposed \cup {d}
  <2>1. PrePrepareMsg(n, d).type = "prePrepare" /\ PrePrepareMsg(n, d).digest = d
    BY DEF PrePrepareMsg
  <2> QED
    BY <1>2, <2>1 DEF Proposed
<1>6. Known'
  <2>1. \A x \in Node : {cand'[x], cons'[x], dec'[x]} \subseteq Proposed' \cup {NoDigest}
    <3> SUFFICES ASSUME NEW x \in Node
                 PROVE  {cand'[x], cons'[x], dec'[x]} \subseteq Proposed' \cup {NoDigest}
      OBVIOUS
    <3>1. {cand[x], cons[x], dec[x]} \subseteq Proposed \cup {NoDigest}
      BY DEF IInv, Known
    <3>2. cand'[x] \in {cand[x], d}
      BY <1>2 DEF IInv, TypeOK
    <3>3. cons'[x] = cons[x] /\ dec'[x] = dec[x]
      BY <1>4
    <3> QED
      BY <1>5, <3>1, <3>2, <3>3
  <2>2. \A x \in Node : stage'[x] = "propose" => cand'[x] # NoDigest
    BY <1>2, <1>3, <1>4 DEF IInv, Known, TypeOK
  <2>3. \A m \in msgs' : m.type \in {"prepare", "commit", "candidate"} => m.digest \in Proposed'
    BY <1>2, <1>5 DEF IInv, Known, PrePrepareMsg
  <2> QED
    BY <2>1, <2>2, <2>3 DEF Known
<1>7. Unique'
  BY <1>3, <1>4, <1>5, BoundAssumption DEF IInv, Unique, TypeOK
<1>8. \A m \in msgs' \ msgs : m.type # "commit"
  BY <1>2 DEF PrePrepareMsg
<1>9. ConsPrepared' /\ CommitsPrepared' /\ BlocksCertified'
  BY <1>2, <1>4, <1>8, AgreementKept
<1>10. Deciding'
  BY <1>2, <1>4, DecidingKept DEF IInv, TypeOK
<1> QED
  BY <1>6, <1>7, <1>9, <1>10 DEF IInv

\* The steps that send PREPARE or a candidate, or take what a quorum prepared
LEMMA PassOnStep ==
  ASSUME IInv, TypeOK', NEW n \in Node,
         \/ PrePrepareReq(n) \/ LeaderPrepare(n) \/ CandidateReq(n) \/ Prepared(n)
  PROVE  IInv'
<1>1. /\ UNCHANGED <<chain, dec, mode, clock>>
      /\ \/ stage' = stage
         \/ stage' = [stage EXCEPT ![n] = "prepare"]
         \/ stage' = [stage EXCEPT ![n] = "ready"]
  BY DEF PrePrepareReq, LeaderPrepare, CandidateReq, Prepared, EnterStage, node, round
<1>2. PICK d \in Proposed :
        /\ msgs' \in {msgs, msgs \cup {PrepareMsg(n, d)}, msgs \cup {CandidateMsg(n, d)}}
        /\ cand' \in {cand, [cand EXCEPT ![n] = d]}
        /\ \/ cons' = cons
           \/ Backed(PrepareMsg, d) /\ cons' = [cons EXCEPT ![n] = d]
        /\ d # NoDigest
  <2>1. \A d \in Proposed : d # NoDigest
    BY DEF IInv, Unique, NoDigest
  <2>2. CASE PrePrepareReq(n)
    <3>1. PICK m \in msgs : /\ m.type = "prePrepare"
                            /\ cand' = [cand EXCEPT ![n] = m.digest]
                            /\ Broadcast(PrepareMsg(n, m.digest))
      BY <2>2 DEF PrePrepareReq
    <3>2. m.digest \in Proposed /\ cons' = cons
      BY <2>2, <3>1 DEF Proposed, PrePrepareReq
    <3> QED
      BY <2>1, <3>1, <3>2 DEF Broadcast
  <2>3. CASE LeaderPrepare(n)
    <3>1. cand[n] \in Proposed
      BY <2>3 DEF LeaderPrepare, IInv, Known
    <3> QED
      BY <2>1, <2>3, <3>1 DEF LeaderPrepare, Broadcast, round
  <2>4. CASE CandidateReq(n)
    <3>1. cand[n] \in Proposed
      BY <2>4 DEF CandidateReq, IInv, Known
    <3> QED
      BY <2>1, <2>4, <3>1 DEF CandidateReq, Broadcast, round
  <2>5. CASE Prepared(n)
    <3>1. PICK m \in msgs : /\ m.type = "prepare"
                            /\ Agreed(n, Preparers(m.digest), cand[n], m.digest)
                            /\ cons' = [cons EXCEPT ![n] = m.digest]
      BY <2>5 DEF Prepared
    <3>2. m.digest \in Proposed /\ Backed(PrepareMsg, m.digest)
      BY <3>1 DEF IInv, Known, Agreed, Preparers, Backed
    <3>3. UNCHANGED <<msgs, cand>>
      BY <2>5 DEF Prepared, net
    <3> QED
      BY <2>1, <3>1, <3>2, <3>3
  <2> QED
    BY <2>2, <2>3, <2>4, <2>5
<1>3. /\ msgs \subseteq msgs'
      /\ \A m \in msgs' \ msgs : m.digest = d /\ m.type \in {"prepare", "candidate"}
  <2>1. /\ PrepareMsg(n, d).digest = d /\ PrepareMsg(n, d).type = "prepare"
        /\ CandidateMsg(n, d).digest = d /\ CandidateMsg(n, d).type = "candidate"
    BY DEF PrepareMsg, CandidateMsg
  <2> QED
    BY <1>2, <2>1
<1>4. Proposed' = Proposed
  BY <1>3, ProposedUnchanged
<1>5. Known'
  <2>1. \A x \in Node : {cand'[x], cons'[x], dec'[x]} \subseteq Proposed \cup {NoDigest}
    <3> SUFFICES ASSUME NEW x \in Node
                 PROVE  {cand'[x], cons'[x], dec'[x]} \subseteq Proposed \cup {NoDigest}
      OBVIOUS
    <3>1. {cand[x], cons[x], dec[x]} \subseteq Proposed \cup {NoDigest}
      BY DEF IInv, Known
    <3>2. cand'[x] \in {cand[x], d} /\ cons'[x] \in {cons[x], d} /\ dec'[x] = dec[x]
      BY <1>1, <1>2 DEF IInv, TypeOK
    <3> QED
      BY <3>1, <3>2
  <2>2. \A x \in Node : stage'[x] = "propose" => stage[x] = "propose"
    BY <1>1 DEF IInv, TypeOK
  <2>3. \A x \in Node : cand'[x] = cand[x] \/ cand'[x] # NoDigest
    BY <1>2 DEF IInv, TypeOK
  <2>4. \A x \in Node : stage'[x] = "propose" => cand'[x] # NoDigest
    BY <2>2, <2>3 DEF IInv, Known
  <2>5. \A m \in msgs' : m.type \in {"prepare", "commit", "candidate"} => m.digest \in Proposed
    BY <1>3 DEF IInv, Known
  <2> QED
    BY <1>4, <2>1, <2>4, <2>5 DEF Known
<1>6. Unique'
  BY <1>1, <1>4 DEF IInv, Unique
<1>7. \A x \in Node : cons'[x] # NoDigest => cons'[x] = cons[x] \/ Backed(PrepareMsg, cons'[x])
  BY <1>2 DEF IInv, TypeOK
<1>8. \A m \in msgs' \ msgs : m.type # "commit"
  BY <1>3
<1>9. ConsPrepared' /\ CommitsPrepared' /\ BlocksCertified'
  BY <1>1, <1>3, <1>7, <1>8, AgreementKept
<1>10. \A x \in Node : stage'[x] \in {"fetchCandidate", "process"} => stage'[x] = stage[x]
  BY <1>1 DEF IInv, TypeOK
<1>11. Deciding'
  BY <1>1, <1>3, <1>10, DecidingKept
<1> QED
  BY <1>5, <1>6, <1>9, <1>11 DEF IInv

\* commit.run sends a COMMIT only for what a quorum has prepared.
LEMMA ReadyStep == ASSUME IInv, TypeOK', NEW n \in Node, ReadyDone(n) PROVE IInv'
<1>1. /\ UNCHANGED <<chain, cand, cons, dec, mode, clock>>
      /\ stage' = [stage EXCEPT ![n] = "commit"]
  BY DEF ReadyDone, EnterStage, round
<1>2. \/ msgs' = msgs
      \/ cons[n] # NoDigest /\ msgs' = msgs \cup {CommitMsg(n, cons[n])}
  BY DEF ReadyDone, Broadcast
<1>3. /\ msgs \subseteq msgs'
      /\ \A m \in msgs' \ msgs :
            m.type = "commit" /\ m.digest = cons[n] /\ cons[n] # NoDigest
  BY <1>2 DEF CommitMsg
<1>4. Proposed' = Proposed
  BY <1>3, ProposedUnchanged
<1>5. Known'
  <2>1. \A x \in Node : stage'[x] = "propose" => stage[x] = "propose"
    BY <1>1 DEF IInv, TypeOK
  <2>2. cons[n] # NoDigest => cons[n] \in Proposed
    BY DEF IInv, Known
  <2>3. \A m \in msgs' : m.type \in {"prepare", "commit", "candidate"} => m.digest \in Proposed
    BY <1>3, <2>2 DEF IInv, Known
  <2>4. \A x \in Node : {cand'[x], cons'[x], dec'[x]} \subseteq Proposed \cup {NoDigest}
    BY <1>1 DEF IInv, Known
  <2>5. \A x \in Node : stage'[x] = "propose" => cand'[x] # NoDigest
    BY <1>1, <2>1 DEF IInv, Known
  <2> QED
    BY <1>4, <2>3, <2>4, <2>5 DEF Known
<1>6. Unique'
  BY <1>1, <1>4 DEF IInv, Unique
<1>7. ConsPrepared'
  <2> SUFFICES ASSUME NEW x \in Node, cons'[x] # NoDigest
               PROVE  Backed(PrepareMsg, cons[x])'
    BY <1>1 DEF ConsPrepared
  <2>1. Backed(PrepareMsg, cons[x])
    BY <1>1 DEF IInv, ConsPrepared
  <2> QED
    BY <1>1, <1>3, <2>1 DEF Backed
<1>8. CommitsPrepared'
  <2> SUFFICES ASSUME NEW m \in msgs', m.type = "commit"
               PROVE  Backed(PrepareMsg, m.digest)'
    BY DEF CommitsPrepared
  <2>1. Backed(PrepareMsg, m.digest)
    BY <1>3 DEF IInv, CommitsPrepared, ConsPrepared
  <2> QED
    BY <1>3, <2>1, BackedMonotone
<1>9. BlocksCertified'
  BY <1>1, <1>3, CertifiedMonotone DEF IInv
<1>10. \A x \in Node : stage'[x] \in {"fetchCandidate", "process"} => stage'[x] = stage[x]
  BY <1>1 DEF IInv, TypeOK
<1>11. Deciding'
  BY <1>1, <1>3, <1>10, DecidingKept
<1> QED
  BY <1>5, <1>6, <1>7, <1>8, <1>9, <1>11 DEF IInv

\* A decided digest is backed by a quorum of commits, and extends the chain of
\* a node that is to process it.
LEMMA DecidedStep == ASSUME IInv, TypeOK', NEW n \in Node, Decided(n) PROVE IInv'
<1>1. UNCHANGED <<chain, cand, cons, clock>> /\ mode[n] = "consensus"
  BY DEF Decided
<1>2. PICK m \in msgs :
        /\ m.type = "commit"
        /\ Agreed(n, Committers(m.digest), cons[n], m.digest)
        /\ dec' = [dec EXCEPT ![n] = m.digest]
        /\ IF Extends(n, m.digest)
             THEN /\ EnterStage(n, IF m.digest = cand[n] THEN "process"
                                                         ELSE "fetchCandidate")
                  /\ UNCHANGED msgs
             ELSE RunViewChangeForConsensusFail(n)
  BY DEF Decided
<1>3. m.digest \in Proposed /\ Backed(CommitMsg, m.digest)
  BY <1>2 DEF IInv, Known, Agreed, Committers, Backed
<1>4. /\ UNCHANGED mode
      /\ \A x \in Node \ {n} : stage'[x] = stage[x]
      /\ stage'[n] \in {"process", "fetchCandidate", "consensusFail"}
      /\ stage'[n] # "consensusFail" => Extends(n, m.digest)
  BY <1>2 DEF EnterStage, RunViewChangeForConsensusFail, IInv, TypeOK
<1>5. /\ msgs \subseteq msgs'
      /\ \A x \in msgs' \ msgs : x.type = "consensusFail"
  <2>1. FailMsg(n, PositionAt(n, view[n])).type = "consensusFail"
    BY DEF FailMsg
  <2> QED
    BY <1>2, <2>1 DEF RunViewChangeForConsensusFail, Broadcast
<1>6. Proposed' = Proposed
  BY <1>5, ProposedUnchanged
<1>7. Known'
  <2>1. \A x \in Node : {cand'[x], cons'[x], dec'[x]} \subseteq Proposed \cup {NoDigest}
    BY <1>1, <1>2, <1>3 DEF IInv, Known, TypeOK
  <2>2. \A x \in Node : stage'[x] = "propose" => cand'[x] # NoDigest
    BY <1>1, <1>4 DEF IInv, Known
  <2>3. \A x \in msgs' : x.type \in {"prepare", "commit", "candidate"} => x.digest \in Proposed
    BY <1>5 DEF IInv, Known
  <2> QED
    BY <1>6, <2>1, <2>2, <2>3 DEF Known
<1>8. Unique'
  BY <1>1, <1>6 DEF IInv, Unique
<1>9. \A x \in msgs' \ msgs : x.type # "commit"
  BY <1>5
<1>10. ConsPrepared' /\ CommitsPrepared' /\ BlocksCertified'
  BY <1>1, <1>5, <1>9, AgreementKept
<1>11. Deciding'
  <2> SUFFICES ASSUME NEW x \in Node, stage'[x] \in {"fetchCandidate", "process"}
               PROVE  /\ mode'[x] \in {"consensus", "newView"}
                      /\ dec'[x] \in Proposed'
                      /\ Backed(CommitMsg, dec[x])'
                      /\ dec'[x].parent = Hash(x)'
    BY DEF Deciding
  <2>1. Hash(x)' = Hash(x)
    BY <1>1 DEF Hash
  <2>2. /\ mode[x] \in {"consensus", "newView"}
        /\ dec'[x] \in Proposed
        /\ Backed(CommitMsg, dec'[x])
        /\ dec'[x].parent = Hash(x)
    <3>1. CASE x = n
      BY <1>1, <1>2, <1>3, <1>4, <3>1 DEF Extends, IInv, TypeOK
    <3>2. CASE x # n
      <4>1. stage[x] \in {"fetchCandidate", "process"} /\ dec'[x] = dec[x]
        BY <1>2, <1>4, <3>2 DEF IInv, TypeOK
      <4> QED
        BY <4>1 DEF IInv, Deciding
    <3> QED
      BY <3>1, <3>2
  <2>3. Backed(CommitMsg, dec[x])'
    BY <1>5, <2>2 DEF Backed
  <2> QED
    BY <1>4, <1>6, <2>1, <2>2, <2>3
<1> QED
  BY <1>7, <1>8, <1>10, <1>11 DEF IInv

Committed == {m.digest : m \in {x \in msgs : x.type = "commit"}}

\* What a quorum has committed to, some node has committed to: a quorum is not
\* empty.
LEMMA BackedIsCommitted ==
  ASSUME NEW d, Backed(CommitMsg, d)
  PROVE  d \in Committed
<1>1. PICK Q \in Quorum : \A q \in Q : CommitMsg(q, d) \in msgs
  BY DEF Backed
<1>2. Q # {}
  BY FS_EmptySet, NAssumption DEF Quorum, Threshold
<1>3. PICK q \in Q : CommitMsg(q, d) \in msgs
  BY <1>1, <1>2
<1>4. CommitMsg(q, d).type = "commit" /\ CommitMsg(q, d).digest = d
  BY DEF CommitMsg
<1> QED
  BY <1>3, <1>4 DEF Committed

\* A decided block added to the chain it extends keeps the chain certified.
LEMMA ExtendCertified ==
  ASSUME TypeOK, BlocksCertified, msgs' = msgs, NEW n \in Node,
         NEW d \in Committed, Backed(CommitMsg, d), d.parent = Hash(n),
         chain' = [chain EXCEPT ![n] = Append(@, d.ts)]
  PROVE  BlocksCertified'
<1> SUFFICES ASSUME NEW x \in Node, NEW i \in 1 .. Len(chain'[x])
             PROVE  \E e \in Committed : /\ e.ts = chain'[x][i]
                                        /\ e.parent = Parent(chain'[x], i)
                                        /\ Backed(CommitMsg, e)
  <2>1. \A e : Backed(CommitMsg, e) => Backed(CommitMsg, e)'
    BY BackedMonotone
  <2> QED
    BY <2>1 DEF BlocksCertified, Committed
<1> DEFINE s == chain[n]
<1>1. s \in Seq(Nat)
  BY DEF TypeOK
<1>2. CASE x = n /\ i = Len(s) + 1
  <2>1. chain'[x][i] = d.ts
    BY <1>1, <1>2 DEF TypeOK
  <2>2. Parent(chain'[x], i) = Hash(n)
    BY <1>1, <1>2 DEF TypeOK, Parent, Hash
  <2> QED
    BY <2>1, <2>2
<1>3. CASE ~(x = n /\ i = Len(s) + 1)
  <2>1. /\ i \in 1 .. Len(chain[x]) /\ chain'[x][i] = chain[x][i]
        /\ Parent(chain'[x], i) = Parent(chain[x], i)
    <3>1. CASE x = n
      BY <1>1, <1>3, <3>1 DEF TypeOK, Parent
    <3>2. CASE x # n
      BY <3>2 DEF TypeOK, Parent
    <3> QED
      BY <3>1, <3>2
  <2> QED
    BY <2>1 DEF BlocksCertified, Committed
<1> QED
  BY <1>2, <1>3

\* The parts of the invariant that do not speak of chains, for steps that send
\* nothing and forget digests at most
LEMMA DigestsKept ==
  ASSUME IInv, UNCHANGED <<msgs, clock>>,
         \A x \in Node : /\ cand'[x] \in {cand[x], NoDigest}
                         /\ cons'[x] \in {cons[x], NoDigest}
                         /\ dec'[x] \in {dec[x], NoDigest}
                         /\ stage'[x] = "propose" => stage[x] = "propose" /\ cand'[x] = cand[x]
  PROVE  Known' /\ Unique' /\ ConsPrepared' /\ CommitsPrepared'
<1>1. Proposed' = Proposed
  BY DEF Proposed
<1>2. Known'
  BY <1>1 DEF IInv, Known
<1>3. Unique'
  BY <1>1 DEF IInv, Unique
<1>4. ConsPrepared'
  <2> SUFFICES ASSUME NEW x \in Node, cons'[x] # NoDigest
               PROVE  Backed(PrepareMsg, cons[x])'
    BY DEF ConsPrepared
  <2>1. Backed(PrepareMsg, cons'[x])
    BY DEF IInv, ConsPrepared
  <2> QED
    BY <2>1 DEF Backed
<1>5. CommitsPrepared'
  BY BackedMonotone DEF IInv, CommitsPrepared
<1> QED
  BY <1>2, <1>3, <1>4, <1>5

\* What Processed does, as far as the invariant is concerned
LEMMA ProcessedEffect ==
  ASSUME IInv, NEW n \in Node, Processed(n)
  PROVE  /\ dec[n] \in Committed /\ Backed(CommitMsg, dec[n]) /\ dec[n].parent = Hash(n)
         /\ chain' \in {chain, [chain EXCEPT ![n] = Append(@, dec[n].ts)]}
         /\ UNCHANGED <<msgs, clock>>
         /\ stage'[n] \in {"newTwice", "processed"}
         /\ \A x \in Node \ {n} : /\ stage'[x] = stage[x] /\ mode'[x] = mode[x]
                                  /\ cand'[x] = cand[x] /\ dec'[x] = dec[x]
         /\ \A x \in Node : /\ cand'[x] \in {cand[x], NoDigest}
                            /\ cons'[x] \in {cons[x], NoDigest}
                            /\ dec'[x] \in {dec[x], NoDigest}
<1>1. stage[n] = "process"
  BY DEF Processed
<1>2. Backed(CommitMsg, dec[n]) /\ dec[n].parent = Hash(n)
  BY <1>1 DEF IInv, Deciding
<1>3. dec[n] \in Committed
  BY <1>2, BackedIsCommitted
<1>4. UNCHANGED <<msgs, clock>> /\ RunNewConsensusRound(n, "processed")
  BY DEF Processed, net
<1>5. chain' \in {chain, [chain EXCEPT ![n] = Append(@, dec[n].ts)]}
  BY DEF Processed
<1> QED
  BY <1>2, <1>3, <1>4, <1>5 DEF RunNewConsensusRound, Goto, IInv, TypeOK

\* The block a node appends is the decided one, on the predecessor it was
\* decided for.
LEMMA ProcessedStep == ASSUME IInv, TypeOK', NEW n \in Node, Processed(n) PROVE IInv'
<1>1. /\ dec[n] \in Committed /\ Backed(CommitMsg, dec[n]) /\ dec[n].parent = Hash(n)
      /\ chain' \in {chain, [chain EXCEPT ![n] = Append(@, dec[n].ts)]}
      /\ UNCHANGED <<msgs, clock>>
      /\ stage'[n] \in {"newTwice", "processed"}
      /\ \A x \in Node \ {n} : /\ stage'[x] = stage[x] /\ mode'[x] = mode[x]
                               /\ cand'[x] = cand[x] /\ dec'[x] = dec[x]
      /\ \A x \in Node : /\ cand'[x] \in {cand[x], NoDigest}
                         /\ cons'[x] \in {cons[x], NoDigest}
                         /\ dec'[x] \in {dec[x], NoDigest}
  BY ProcessedEffect
<1>2. Known' /\ Unique' /\ ConsPrepared' /\ CommitsPrepared'
  BY <1>1, DigestsKept
<1>3. BlocksCertified'
  <2>1. TypeOK /\ BlocksCertified
    BY DEF IInv
  <2>2. CASE chain' = chain
    BY <1>1, <2>1, <2>2, CertifiedMonotone
  <2>3. CASE chain' = [chain EXCEPT ![n] = Append(@, dec[n].ts)]
    BY <1>1, <2>1, <2>3, ExtendCertified
  <2> QED
    BY <1>1, <2>2, <2>3
<1>4. Deciding'
  <2> SUFFICES ASSUME NEW x \in Node, stage'[x] \in {"fetchCandidate", "process"}
               PROVE  /\ mode'[x] \in {"consensus", "newView"}
                      /\ dec'[x] \in Proposed'
                      /\ Backed(CommitMsg, dec[x])'
                      /\ dec'[x].parent = Hash(x)'
    BY DEF Deciding
  <2>1. /\ x # n /\ mode'[x] = mode[x] /\ dec'[x] = dec[x]
        /\ stage[x] \in {"fetchCandidate", "process"}
    BY <1>1
  <2>2. chain'[x] = chain[x]
    BY <1>1, <2>1 DEF IInv, TypeOK
  <2>3. /\ mode[x] \in {"consensus", "newView"}
        /\ dec[x] \in Proposed
        /\ Backed(CommitMsg, dec[x])
        /\ dec[x].parent = Hash(x)
    BY <2>1 DEF IInv, Deciding
  <2>4. Backed(CommitMsg, dec[x])'
    BY <1>1, <2>1, <2>3 DEF Backed
  <2> QED
    BY <1>1, <2>1, <2>2, <2>3, <2>4 DEF Hash, Proposed
<1> QED
  BY <1>2, <1>3, <1>4 DEF IInv

\* A node that synchronises copies a decided block whose predecessor is its own
\* last block, or stops.
LEMMA SyncEffect ==
  ASSUME IInv, NEW n \in Node, SyncBlock(n)
  PROVE  /\ mode[n] = "fetchChain"
         /\ UNCHANGED <<msgs, clock, stage, cand, cons, dec>>
         /\ \/ chain' = chain /\ mode' = [mode EXCEPT ![n] = "exit"]
            \/ /\ mode' = mode
               /\ \E d \in Committed : /\ Backed(CommitMsg, d) /\ d.parent = Hash(n)
                                       /\ chain' = [chain EXCEPT ![n] = Append(@, d.ts)]
<1> DEFINE k == Len(chain[n])
<1>1. PICK p \in Node :
        /\ Len(chain[p]) > k
        /\ IF chain[n] = SubSeq(chain[p], 1, k)
             THEN /\ chain' = [chain EXCEPT ![n] = Append(@, chain[p][k + 1])]
                  /\ UNCHANGED mode
             ELSE /\ mode' = [mode EXCEPT ![n] = "exit"]
                  /\ UNCHANGED chain
  BY DEF SyncBlock
<1>2. chain[n] \in Seq(Nat) /\ chain[p] \in Seq(Nat) /\ k \in Nat
  BY DEF IInv, TypeOK
<1>3. PICK d \in Committed : /\ d.ts = chain[p][k + 1]
                             /\ d.parent = Parent(chain[p], k + 1)
                             /\ Backed(CommitMsg, d)
  <2>1. k + 1 \in 1 .. Len(chain[p])
    BY <1>1, <1>2
  <2> QED
    BY <2>1 DEF IInv, BlocksCertified, Committed
<1>4. ASSUME chain[n] = SubSeq(chain[p], 1, k)
      PROVE  d.parent = Hash(n)
  <2>1. CASE k = 0
    BY <1>2, <1>3, <2>1 DEF Parent, Hash
  <2>2. CASE k # 0
    <3>1. \A i \in 1 .. k : chain[p][i] \in Nat
      <4> SUFFICES ASSUME NEW i \in 1 .. k PROVE chain[p][i] \in Nat
        OBVIOUS
      <4>1. i \in 1 .. Len(chain[p])
        BY <1>1, <1>2
      <4> QED
        BY <1>2, <4>1, ElementOfSeq
    <3>2. \A i \in 1 .. k : SubSeq(chain[p], 1, k)[i] = chain[p][i]
      BY <1>2, <3>1, SubSeqProperties
    <3>3. chain[n][k] = chain[p][k]
      BY <1>2, <1>4, <2>2, <3>2
    <3> QED
      BY <1>2, <1>3, <2>2, <3>3 DEF Parent, Hash
  <2> QED
    BY <2>1, <2>2
<1>5. mode[n] = "fetchChain" /\ UNCHANGED <<msgs, clock, stage, cand, cons, dec>>
  BY DEF SyncBlock, net, round
<1> QED
  BY <1>1, <1>3, <1>4, <1>5

\* A copied block is certified because the node it is copied from holds it on
\* the same past.
LEMMA SyncStep == ASSUME IInv, TypeOK', NEW n \in Node, SyncBlock(n) PROVE IInv'
<1>1. /\ mode[n] = "fetchChain"
      /\ UNCHANGED <<msgs, clock, stage, cand, cons, dec>>
      /\ \/ chain' = chain /\ mode' = [mode EXCEPT ![n] = "exit"]
         \/ /\ mode' = mode
            /\ \E d \in Committed : /\ Backed(CommitMsg, d) /\ d.parent = Hash(n)
                                    /\ chain' = [chain EXCEPT ![n] = Append(@, d.ts)]
  BY SyncEffect
<1>2. Known' /\ Unique' /\ ConsPrepared' /\ CommitsPrepared'
  BY <1>1, DigestsKept
<1>3. BlocksCertified'
  <2>1. TypeOK /\ BlocksCertified
    BY DEF IInv
  <2>2. CASE chain' = chain
    BY <1>1, <2>1, <2>2, CertifiedMonotone
  <2>3. CASE \E d \in Committed : /\ Backed(CommitMsg, d) /\ d.parent = Hash(n)
                                  /\ chain' = [chain EXCEPT ![n] = Append(@, d.ts)]
    BY <1>1, <2>1, <2>3, ExtendCertified
  <2> QED
    BY <1>1, <2>2, <2>3
<1>4. Deciding'
  <2> SUFFICES ASSUME NEW x \in Node, stage[x] \in {"fetchCandidate", "process"}
               PROVE  /\ mode'[x] \in {"consensus", "newView"}
                      /\ dec[x] \in Proposed'
                      /\ Backed(CommitMsg, dec[x])'
                      /\ dec[x].parent = Hash(x)'
    BY <1>1 DEF Deciding
  <2>1. /\ mode[x] \in {"consensus", "newView"}
        /\ dec[x] \in Proposed
        /\ Backed(CommitMsg, dec[x])
        /\ dec[x].parent = Hash(x)
    BY DEF IInv, Deciding
  <2>2. x # n
    BY <1>1, <2>1
  <2>3. chain'[x] = chain[x] /\ mode'[x] = mode[x]
    BY <1>1, <2>2 DEF IInv, TypeOK
  <2>4. Backed(CommitMsg, dec[x])'
    BY <1>1, <2>1 DEF Backed
  <2> QED
    BY <1>1, <2>1, <2>3, <2>4 DEF Hash, Proposed
<1> QED
  BY <1>2, <1>3, <1>4 DEF IInv
-----------------------------------------------------------------------------
(* The invariant and what it says *)

\* Every step keeps the invariant.
LEMMA InvStep == ASSUME IInv, Next PROVE IInv'
<1>1. TypeOK'
  BY TypeStep DEF IInv
<1>2. PICK n \in Node :
           \/ AmalgamateRun(n) \/ AmalgamateReq(n) \/ Propose(n)
           \/ PrePrepareReq(n) \/ LeaderPrepare(n)
           \/ Prepared(n) \/ NotPrepared(n) \/ ReadyDone(n)
           \/ Decided(n) \/ NotDecided(n)
           \/ CandidateReq(n) \/ CandidateRes(n) \/ CandidateExpire(n)
           \/ Processed(n)
           \/ FailVoteSuccess(n) \/ FailVoteExpire(n)
           \/ LeaderExpire(n) \/ LeaderExpireInNewView(n) \/ InvalidSequenceExpire(n)
           \/ TimeoutVote(n) \/ NewViewReq(n) \/ NewViewDone(n)
           \/ SyncBlock(n) \/ SyncEnd(n) \/ StateSuccess(n)
           \/ (\E m \in Node : StateAnswer(m, n))
           \/ Restart(n)
  BY Actions
<1>3. CASE Propose(n)
  BY <1>1, <1>3, ProposeStep
<1>4. CASE PrePrepareReq(n) \/ LeaderPrepare(n) \/ CandidateReq(n) \/ Prepared(n)
  BY <1>1, <1>4, PassOnStep
<1>5. CASE ReadyDone(n)
  BY <1>1, <1>5, ReadyStep
<1>6. CASE Decided(n)
  BY <1>1, <1>6, DecidedStep
<1>7. CASE Processed(n)
  BY <1>1, <1>7, ProcessedStep
<1>8. CASE SyncBlock(n)
  BY <1>1, <1>8, SyncStep
<1>9. CASE \/ AmalgamateRun(n) \/ AmalgamateReq(n) \/ NotPrepared(n) \/ NotDecided(n)
           \/ CandidateRes(n) \/ CandidateExpire(n)
           \/ FailVoteSuccess(n) \/ FailVoteExpire(n)
           \/ LeaderExpire(n) \/ LeaderExpireInNewView(n) \/ InvalidSequenceExpire(n)
           \/ TimeoutVote(n) \/ NewViewReq(n) \/ NewViewDone(n)
           \/ SyncEnd(n) \/ StateSuccess(n)
           \/ (\E m \in Node : StateAnswer(m, n))
           \/ Restart(n)
  <2>1. Quiet
    BY <1>9, QuietActions
  <2> QED
    BY <1>1, <2>1, QuietStep
<1> QED
  BY <1>2, <1>3, <1>4, <1>5, <1>6, <1>7, <1>8, <1>9

\* The invariant that the safety of the consensus rests on.
THEOREM Invariance == Spec => []IInv
<1>1. Init => IInv
  <2> SUFFICES ASSUME Init PROVE IInv
    OBVIOUS
  <2>1. TypeOK
    BY NoDigestType DEF Init, TypeOK, Modes, Stages
  <2>2. Proposed = {} /\ clock = 0 /\ \A n \in Node : chain[n] = <<>>
    BY DEF Init, Proposed
  <2>3. Known /\ Unique
    BY <2>2, BoundAssumption DEF Init, Known, Unique
  <2>4. ConsPrepared /\ CommitsPrepared /\ Deciding
    BY DEF Init, ConsPrepared, CommitsPrepared, Deciding
  <2>5. BlocksCertified
    BY <2>2 DEF BlocksCertified
  <2> QED
    BY <2>1, <2>3, <2>4, <2>5 DEF IInv
<1>2. IInv /\ [Next]_vars => IInv'
  <2>1. ASSUME IInv, UNCHANGED vars PROVE IInv'
    <3>1. TypeOK' /\ Quiet
      BY <2>1 DEF vars, node, round, change, net, IInv, TypeOK, Quiet, Deciding
    <3> QED
      BY <2>1, <3>1, QuietStep
  <2> QED
    BY <2>1, InvStep
<1> QED
  BY <1>1, <1>2, PTL DEF Spec

\* A node commits only to what a quorum has prepared.
THEOREM CommitSafety == Spec => []CommitsPrepared
<1>1. IInv => CommitsPrepared
  BY DEF IInv
<1> QED
  BY <1>1, Invariance, PTL

\* Every block on a chain is decided, with the predecessor it has there.
THEOREM ChainSafety == Spec => []BlocksCertified
<1>1. IInv => BlocksCertified
  BY DEF IInv
<1> QED
  BY <1>1, Invariance, PTL
-----------------------------------------------------------------------------
(* Ripple implements Ledger: each step of the protocol certifies a block, extends
   a chain by a certified block, or is a stutter of the ledger. *)

LP == INSTANCE Ledger_proofs WITH Id <- 1 .. MaxClock, certified <- Certified

\* The block of a digest, as the ledger sees it
BlockOf(d) == [id |-> d.ts, parent |-> d.parent]

\* The certified blocks, by the digests committed to.
LEMMA CertifiedIs == Certified = {BlockOf(d) : d \in {c \in Committed : Backed(CommitMsg, c)}}
  BY DEF Certified, Committed, BlockOf

\* Only a COMMIT certifies.
LEMMA CertifiedUnchanged ==
  ASSUME msgs \subseteq msgs', \A m \in msgs' \ msgs : m.type # "commit"
  PROVE  Certified' = Certified
<1>1. Committed' = Committed
  BY DEF Committed
<1>2. ASSUME NEW d
      PROVE  Backed(CommitMsg, d)' <=> Backed(CommitMsg, d)
  <2>1. \A q : CommitMsg(q, d) \in msgs' <=> CommitMsg(q, d) \in msgs
    <3>1. \A q : CommitMsg(q, d).type = "commit"
      BY DEF CommitMsg
    <3> QED
      BY <3>1
  <2> QED
    BY <2>1 DEF Backed
<1>3. Certified' = {BlockOf(d) : d \in {c \in Committed' : Backed(CommitMsg, c)'}}
  BY DEF Certified, Committed, BlockOf
<1> QED
  BY <1>1, <1>2, <1>3, CertifiedIs

\* Steps that send no COMMIT and leave the chains alone
LEMMA NoCommit ==
  ASSUME IInv, NEW n \in Node,
         \/ Propose(n) \/ PrePrepareReq(n) \/ LeaderPrepare(n)
         \/ CandidateReq(n) \/ Prepared(n) \/ Decided(n)
  PROVE  Certified' = Certified /\ chain' = chain
<1>1. \A d, p : /\ PrePrepareMsg(n, d).type # "commit"
                /\ PrepareMsg(n, d).type # "commit"
                /\ CandidateMsg(n, d).type # "commit"
                /\ FailMsg(n, p).type # "commit"
  BY DEF PrePrepareMsg, PrepareMsg, CandidateMsg, FailMsg
<1>2. chain' = chain
  BY DEF Propose, PrePrepareReq, LeaderPrepare, CandidateReq, Prepared, Decided, node
<1>3. \/ msgs' = msgs
      \/ \E d : \/ msgs' = msgs \cup {PrePrepareMsg(n, d)}
                \/ msgs' = msgs \cup {PrepareMsg(n, d)}
                \/ msgs' = msgs \cup {CandidateMsg(n, d)}
                \/ msgs' = msgs \cup {FailMsg(n, d)}
  <2>1. CASE Propose(n)
    BY <2>1 DEF Propose, Broadcast
  <2>2. CASE PrePrepareReq(n)
    BY <2>2 DEF PrePrepareReq, Broadcast
  <2>3. CASE LeaderPrepare(n) \/ CandidateReq(n)
    BY <2>3 DEF LeaderPrepare, CandidateReq, Broadcast
  <2>4. CASE Prepared(n)
    BY <2>4 DEF Prepared, net
  <2>5. CASE Decided(n)
    BY <2>5 DEF Decided, RunViewChangeForConsensusFail, Broadcast
  <2> QED
    BY <2>1, <2>2, <2>3, <2>4, <2>5
<1>4. msgs \subseteq msgs' /\ \A m \in msgs' \ msgs : m.type # "commit"
  BY <1>1, <1>3
<1> QED
  BY <1>2, <1>4, CertifiedUnchanged

\* A COMMIT certifies at most the block it is for, and no other one of its id.
LEMMA CommitRefines ==
  ASSUME IInv, NEW n \in Node, ReadyDone(n)
  PROVE  \/ Certified' = Certified /\ chain' = chain
         \/ \E b \in L!Block : L!Certify(b)
<1>1. chain' = chain
  BY DEF ReadyDone
<1>2. CASE cons[n] = NoDigest
  <2>1. msgs' = msgs
    BY <1>2 DEF ReadyDone
  <2> QED
    BY <1>1, <2>1, CertifiedUnchanged
<1>3. CASE cons[n] # NoDigest
  <2> DEFINE d == cons[n]
  <2>1. msgs' = msgs \cup {CommitMsg(n, d)}
    BY <1>3 DEF ReadyDone, Broadcast
  <2>2. d \in Proposed
    BY <1>3 DEF IInv, Known
  <2> HIDE DEF d
  <2>3. CommitMsg(n, d).type = "commit" /\ CommitMsg(n, d).digest = d
    BY DEF CommitMsg
  <2>4. Committed' = Committed \cup {d}
    BY <2>1, <2>3 DEF Committed
  <2>5. \A c : Backed(CommitMsg, c) => Backed(CommitMsg, c)'
    BY <2>1 DEF Backed
  <2>6. ASSUME NEW c, c # d, Backed(CommitMsg, c)'
        PROVE  Backed(CommitMsg, c)
    <3>1. \A q : CommitMsg(q, c) # CommitMsg(n, d)
      BY <2>6 DEF CommitMsg
    <3> QED
      BY <2>1, <2>6, <3>1 DEF Backed
  <2>7. Certified' = {BlockOf(c) : c \in {x \in Committed' : Backed(CommitMsg, x)'}}
    BY DEF Certified, Committed, BlockOf
  <2>8. Certified \subseteq Certified' /\ Certified' \subseteq Certified \cup {BlockOf(d)}
    BY <2>4, <2>5, <2>6, <2>7, CertifiedIs
  <2>9. CASE BlockOf(d) \in Certified \/ BlockOf(d) \notin Certified'
    BY <1>1, <2>8, <2>9
  <2>10. CASE BlockOf(d) \notin Certified /\ BlockOf(d) \in Certified'
    <3>1. Certified' = Certified \cup {BlockOf(d)}
      BY <2>8, <2>10
    <3>2. d.ts \in 1 .. MaxClock /\ d.parent \in 0 .. MaxClock
      BY <2>2, BoundAssumption DEF IInv, Unique, TypeOK
    <3>3. BlockOf(d) \in L!Block
      BY <3>2 DEF BlockOf, L!Block
    <3>4. ASSUME NEW b \in Certified, b.id = BlockOf(d).id
          PROVE  FALSE
      <4>1. PICK c \in Committed : Backed(CommitMsg, c) /\ b = BlockOf(c)
        BY CertifiedIs
      <4>2. c \in Proposed
        BY <4>1 DEF IInv, Known, Committed
      <4>3. c.ts = d.ts
        BY <3>4, <4>1 DEF BlockOf
      <4>4. c = d
        BY <2>2, <4>2, <4>3 DEF IInv, Unique
      <4> QED
        BY <2>10, <4>1, <4>4
    <3>5. L!Certify(BlockOf(d))
      BY <1>1, <3>1, <3>4 DEF L!Certify
    <3> QED
      BY <3>3, <3>5
  <2> QED
    BY <2>9, <2>10
<1> QED
  BY <1>2, <1>3

\* A chain grows by a certified block that names its last one.
LEMMA GrowthRefines ==
  ASSUME IInv, msgs' = msgs, NEW n \in Node, NEW d \in Committed,
         Backed(CommitMsg, d), d.parent = Hash(n),
         chain' = [chain EXCEPT ![n] = Append(@, d.ts)]
  PROVE  \E x \in Node : \E b \in Certified : L!Extend(x, b)
<1>1. BlockOf(d) \in Certified
  BY CertifiedIs
<1>2. Certified' = Certified
  BY CertifiedUnchanged
<1>3. BlockOf(d).parent = L!LastOf(chain[n]) /\ BlockOf(d).id = d.ts
  BY DEF BlockOf, L!LastOf, Hash
<1>4. L!Extend(n, BlockOf(d))
  BY <1>2, <1>3 DEF L!Extend
<1> QED
  BY <1>1, <1>4

\* Every step of the protocol is a step of the ledger or leaves it unchanged.
LEMMA StepRefines == ASSUME IInv, Next PROVE [L!Next]_(L!vars)
<1>1. PICK n \in Node :
           \/ AmalgamateRun(n) \/ AmalgamateReq(n) \/ Propose(n)
           \/ PrePrepareReq(n) \/ LeaderPrepare(n)
           \/ Prepared(n) \/ NotPrepared(n) \/ ReadyDone(n)
           \/ Decided(n) \/ NotDecided(n)
           \/ CandidateReq(n) \/ CandidateRes(n) \/ CandidateExpire(n)
           \/ Processed(n)
           \/ FailVoteSuccess(n) \/ FailVoteExpire(n)
           \/ LeaderExpire(n) \/ LeaderExpireInNewView(n) \/ InvalidSequenceExpire(n)
           \/ TimeoutVote(n) \/ NewViewReq(n) \/ NewViewDone(n)
           \/ SyncBlock(n) \/ SyncEnd(n) \/ StateSuccess(n)
           \/ (\E m \in Node : StateAnswer(m, n))
           \/ Restart(n)
  BY Actions
<1>2. ASSUME Certified' = Certified, chain' = chain
      PROVE  [L!Next]_(L!vars)
  BY <1>2 DEF L!vars
<1>3. CASE \/ Propose(n) \/ PrePrepareReq(n) \/ LeaderPrepare(n)
           \/ CandidateReq(n) \/ Prepared(n) \/ Decided(n)
  BY <1>2, <1>3, NoCommit
<1>4. CASE ReadyDone(n)
  BY <1>2, <1>4, CommitRefines DEF L!Next
<1>5. CASE Processed(n)
  <2>1. /\ dec[n] \in Committed /\ Backed(CommitMsg, dec[n]) /\ dec[n].parent = Hash(n)
        /\ chain' \in {chain, [chain EXCEPT ![n] = Append(@, dec[n].ts)]}
        /\ msgs' = msgs
    BY <1>5, ProcessedEffect
  <2>2. CASE chain' = chain
    BY <1>2, <2>1, <2>2, CertifiedUnchanged
  <2>3. CASE chain' = [chain EXCEPT ![n] = Append(@, dec[n].ts)]
    BY <2>1, <2>3, GrowthRefines DEF L!Next
  <2> QED
    BY <2>1, <2>2, <2>3
<1>6. CASE SyncBlock(n)
  <2>1. /\ msgs' = msgs
        /\ \/ chain' = chain
           \/ \E d \in Committed : /\ Backed(CommitMsg, d) /\ d.parent = Hash(n)
                                   /\ chain' = [chain EXCEPT ![n] = Append(@, d.ts)]
    BY <1>6, SyncEffect
  <2>2. CASE chain' = chain
    BY <1>2, <2>1, <2>2, CertifiedUnchanged
  <2>3. CASE \E d \in Committed : /\ Backed(CommitMsg, d) /\ d.parent = Hash(n)
                                  /\ chain' = [chain EXCEPT ![n] = Append(@, d.ts)]
    BY <2>1, <2>3, GrowthRefines DEF L!Next
  <2> QED
    BY <2>1, <2>2, <2>3
<1>7. CASE \/ AmalgamateRun(n) \/ AmalgamateReq(n) \/ NotPrepared(n) \/ NotDecided(n)
           \/ CandidateRes(n) \/ CandidateExpire(n)
           \/ FailVoteSuccess(n) \/ FailVoteExpire(n)
           \/ LeaderExpire(n) \/ LeaderExpireInNewView(n) \/ InvalidSequenceExpire(n)
           \/ TimeoutVote(n) \/ NewViewReq(n) \/ NewViewDone(n)
           \/ SyncEnd(n) \/ StateSuccess(n)
           \/ (\E m \in Node : StateAnswer(m, n))
           \/ Restart(n)
  <2>1. Quiet
    BY <1>7, QuietActions
  <2> QED
    BY <1>2, <2>1, CertifiedUnchanged DEF Quiet, CarriesDigest
<1> QED
  BY <1>1, <1>3, <1>4, <1>5, <1>6, <1>7

\* The protocol implements the ledger: nothing that is decided or on a chain is
\* ever taken back, and chains grow by decided blocks only.
THEOREM Refinement == Spec => ImplementsLedger
<1>1. Init => L!Init
  <2> SUFFICES ASSUME Init PROVE L!Init
    OBVIOUS
  <2>1. Committed = {}
    BY DEF Init, Committed
  <2>2. Certified = {}
    BY <2>1, CertifiedIs
  <2> QED
    BY <2>2 DEF Init, L!Init
<1>2. IInv /\ [Next]_vars => [L!Next]_(L!vars)
  <2>1. ASSUME UNCHANGED vars PROVE UNCHANGED L!vars
    <3>1. msgs' = msgs /\ chain' = chain
      BY <2>1 DEF vars, node, net
    <3> QED
      BY <3>1, CertifiedUnchanged DEF L!vars
  <2> QED
    BY <2>1, StepRefines
<1> QED
  BY <1>1, <1>2, Invariance, PTL DEF Spec, ImplementsLedger, L!Spec

\* Chains that share a block share everything before it.
THEOREM PastShared == Spec => []SharedPast
<1>1. LP!Spec => []LP!SharedPast
  <2>1. 0 \notin 1 .. MaxClock
    OBVIOUS
  <2> QED
    BY <2>1, LP!LedgerSharedPast
<1>2. LP!SharedPast => SharedPast
  BY DEF LP!SharedPast, SharedPast
<1>3. L!Init => LP!Init
  BY DEF L!Init, LP!Init
<1>4. [L!Next]_(L!vars) => [LP!Next]_(LP!vars)
  BY DEF L!Next, LP!Next, L!Certify, LP!Certify, L!Extend, LP!Extend, L!Block, LP!Block,
         L!LastOf, LP!LastOf, L!vars, LP!vars
<1> QED
  BY <1>1, <1>2, <1>3, <1>4, Refinement, PTL DEF ImplementsLedger, L!Spec, LP!Spec
-----------------------------------------------------------------------------
(***************************************************************************)
(* Views of Ripple.  Two of the checks that end the process when they      *)
(* fail, "sequence below the low water line" of amalgamate.run and "not    *)
(* the leader" of newView.run, never fail.  And in the first view, as long *)
(* as no wait fails, the leader makes one chain and every node holds a     *)
(* beginning of it.                                                        *)
(***************************************************************************)

\* A vote is counted by the node that leads the view it is for.
LedBy(b, n) == Leader(b.position.view + 1) = n

VotesLed ==
    /\ \A t \in timeouts : LedBy(t.vote, t.to)
    /\ \A n \in Node : \A b \in ballots[n] : LedBy(b, n)

\* An answer to a synchronisation is about a node that is in its view.
AnswersInView ==
    \A n \in Node : \A a \in answers[n] : LowWaterLine(a.position.view) <= a.position.seq

ViewInv ==
    /\ TypeOK
    /\ SequenceInView
    /\ AnswersInView
    /\ VotesLed
    /\ NewViewLed

\* What a step of node n has to see to
Kept(n) ==
    /\ \A x \in Node \ {n} : /\ view'[x] = view[x] /\ seq'[x] = seq[x]
                             /\ mode'[x] = mode[x] /\ newView'[x] = newView[x]
                             /\ ballots'[x] = ballots[x]
    /\ LowWaterLine(view'[n]) <= seq'[n]
    /\ mode'[n] = "newView" /\ newView'[n] => Leader(view'[n]) = n
    /\ \A b \in ballots'[n] : LedBy(b, n)
    /\ \A t \in timeouts' \ timeouts : LedBy(t.vote, t.to)
    /\ \A m \in msgs' \ msgs : m.type = "newView" => Leader(m.position.view + 1) = m.from

\* A step of one node keeps the invariant when it keeps what concerns this node
\* and what it sends.
LEMMA KeptStep ==
  ASSUME ViewInv, TypeOK', NEW n \in Node, Kept(n), AnswersInView'
  PROVE  ViewInv'
<1>1. SequenceInView'
  BY DEF Kept, ViewInv, SequenceInView, LowWaterLine
<1>2. VotesLed'
  BY DEF Kept, ViewInv, VotesLed, LedBy
<1>3. NewViewLed'
  BY DEF Kept, ViewInv, NewViewLed
<1> QED
  BY <1>1, <1>2, <1>3 DEF ViewInv

\* A step that leaves the views and what the votes for them are about alone
LEMMA Still ==
  ASSUME ViewInv, NEW n \in Node,
         UNCHANGED <<view, newView, ballots, timeouts>>,
         \A x \in Node : seq'[x] >= seq[x] /\ seq'[x] \in Nat,
         \A x \in Node \ {n} : seq'[x] = seq[x] /\ mode'[x] = mode[x],
         mode'[n] = "newView" => mode[n] = "newView",
         \A m \in msgs' \ msgs : m.type # "newView"
  PROVE  Kept(n)
<1>1. LowWaterLine(view[n]) <= seq[n] /\ LowWaterLine(view[n]) \in Nat /\ seq[n] \in Nat
  BY WaterLines DEF ViewInv, SequenceInView, TypeOK
<1> QED
  BY <1>1 DEF ViewInv, NewViewLed, VotesLed, Kept

\* A step that leaves the view, sequence number and votes of every node alone.
LEMMA StillHere ==
  ASSUME ViewInv, NEW n \in Node,
         UNCHANGED <<view, seq, newView, ballots, timeouts, msgs>>,
         \A x \in Node \ {n} : mode'[x] = mode[x],
         mode'[n] = "newView" => mode[n] = "newView"
  PROVE  Kept(n)
<1>1. \A x \in Node : seq'[x] >= seq[x] /\ seq'[x] \in Nat /\ seq'[x] = seq[x]
  BY DEF ViewInv, TypeOK
<1>2. \A m \in msgs' \ msgs : m.type # "newView"
  OBVIOUS
<1> QED
  BY <1>1, <1>2, Still

\* A node that enters a view is at its low water line.
LEMMA Entered ==
  ASSUME TypeOK, NEW n \in Node, NEW v \in Nat, EnterView(n, v)
  PROVE  /\ view'[n] = v /\ LowWaterLine(view'[n]) <= seq'[n]
         /\ \A x \in Node \ {n} : view'[x] = view[x] /\ seq'[x] = seq[x]
<1>1. LowWaterLine(v) \in Nat
  BY WaterLines
<1> QED
  BY <1>1 DEF EnterView, MoveTo, TypeOK

\* A vote that its leader counts
LEMMA TallyKeeps ==
  ASSUME ViewInv, NEW n \in Node, NEW b \in Ballot, LedBy(b, n),
         NEW m \in Modes \ {"newView"}, Tally(n, b, m),
         timeouts' \subseteq timeouts
  PROVE  Kept(n)
<1> DEFINE latest  == {x \in ballots[n] : x.from # b.from} \cup {b}
           reached == {x.from : x \in SamePosition(latest, b)} \in Quorum
<1>1. /\ ballots' = [ballots EXCEPT ![n] = latest]
      /\ IF reached THEN EnterView(n, NextView(b.position)) ELSE UNCHANGED position
      /\ IF reached /\ ~newView[n]
           THEN /\ newView' = [newView EXCEPT ![n] = TRUE]
                /\ mode' = [mode EXCEPT ![n] = "newView"]
                /\ Broadcast(NewViewMsg(n, b.position))
           ELSE /\ mode' = [mode EXCEPT ![n] = m]
                /\ UNCHANGED <<newView, msgs>>
  BY Zenon DEF Tally
<1>2. /\ \A x \in latest : LedBy(x, n)
      /\ ballots'[n] = latest /\ \A x \in Node \ {n} : ballots'[x] = ballots[x]
  BY <1>1 DEF ViewInv, VotesLed, TypeOK
<1> HIDE DEF latest, reached
<1>3. b.position.view \in Nat /\ NextView(b.position) = b.position.view + 1
  BY DEF Ballot, Position, NextView
<1>4. /\ \A x \in Node \ {n} : view'[x] = view[x] /\ seq'[x] = seq[x]
      /\ LowWaterLine(view'[n]) <= seq'[n]
      /\ reached => Leader(view'[n]) = n
  <2>1. CASE reached
    <3>1. EnterView(n, b.position.view + 1) /\ b.position.view + 1 \in Nat
      BY <1>1, <1>3, <2>1
    <3> QED
      BY <3>1, Entered DEF LedBy, ViewInv
  <2>2. CASE ~reached
    BY <1>1, <2>2 DEF position, ViewInv, SequenceInView
  <2> QED
    BY <2>1, <2>2
<1>5. /\ \A x \in Node \ {n} : mode'[x] = mode[x] /\ newView'[x] = newView[x]
      /\ mode'[n] = "newView" => reached
  BY <1>1 DEF ViewInv, TypeOK
<1>6. \A x \in msgs' \ msgs : x.from = n /\ x.position = b.position
  BY <1>1 DEF Broadcast, NewViewMsg
<1>7. \A x \in msgs' \ msgs : Leader(x.position.view + 1) = x.from
  BY <1>6 DEF LedBy
<1> QED
  BY <1>2, <1>4, <1>5, <1>7 DEF Kept

\* A vote that is counted or sent
LEMMA VoteKeeps ==
  ASSUME ViewInv, NEW n \in Node, NEW v \in Nat, NEW m \in Modes \ {"newView"},
         VoteForNextView(n, v, m)
  PROVE  Kept(n)
<1> DEFINE b == [from |-> n, position |-> PositionAt(n, v)]
<1>1. b \in Ballot
  BY PositionType DEF Ballot, ViewInv
<1>2. b.position.view = v
  BY DEF PositionAt
<1>3. CASE Leader(v + 1) = n
  <2>1. Tally(n, b, m) /\ UNCHANGED timeouts
    BY <1>3 DEF VoteForNextView
  <2>2. LedBy(b, n)
    BY <1>2, <1>3 DEF LedBy
  <2> QED
    BY <1>1, <2>1, <2>2, TallyKeeps
<1>4. CASE Leader(v + 1) # n
  <2>1. /\ timeouts' = timeouts \cup {[to |-> Leader(v + 1), vote |-> b]}
        /\ mode' = [mode EXCEPT ![n] = m]
        /\ UNCHANGED <<ballots, view, seq, newView, msgs>>
    BY <1>4 DEF VoteForNextView, position
  <2>2. LedBy(b, Leader(v + 1))
    BY <1>2 DEF LedBy
  <2> HIDE DEF b
  <2> QED
    BY <2>1, <2>2 DEF Kept, ViewInv, TypeOK, SequenceInView, VotesLed
<1> QED
  BY <1>3, <1>4

\* The end of a view change, and every other way into a new round
LEMMA LeaveKeeps ==
  ASSUME ViewInv, NEW n \in Node, NEW m \in Modes, LeaveViewChange(n, m),
         UNCHANGED <<msgs, timeouts>>,
         LowWaterLine(view'[n]) <= seq'[n],
         \A x \in Node \ {n} : view'[x] = view[x] /\ seq'[x] = seq[x]
  PROVE  Kept(n)
<1>1. /\ ballots' = [ballots EXCEPT ![n] = {}]
      /\ newView' = [newView EXCEPT ![n] = FALSE]
      /\ \A x \in Node \ {n} : mode'[x] = mode[x]
  BY DEF LeaveViewChange, RunNewConsensusRound, Goto, ViewInv, TypeOK
<1> QED
  BY <1>1 DEF Kept, ViewInv, TypeOK
-----------------------------------------------------------------------------
(* The actions *)

\* The steps of a round after the request.
LEMMA RoundKeeps ==
  ASSUME ViewInv, NEW n \in Node,
         \/ AmalgamateReq(n) \/ Propose(n) \/ PrePrepareReq(n) \/ LeaderPrepare(n)
         \/ Prepared(n) \/ NotPrepared(n) \/ ReadyDone(n) \/ Decided(n) \/ NotDecided(n)
         \/ CandidateReq(n) \/ CandidateRes(n)
  PROVE  Kept(n) /\ answers' = answers
<1>1. \A d, p : /\ PrePrepareMsg(n, d).type # "newView"
                /\ PrepareMsg(n, d).type # "newView"
                /\ CommitMsg(n, d).type # "newView"
                /\ CandidateMsg(n, d).type # "newView"
                /\ FailMsg(n, p).type # "newView"
  BY DEF PrePrepareMsg, PrepareMsg, CommitMsg, CandidateMsg, FailMsg
<1>2. UNCHANGED <<view, mode, newView, ballots, timeouts, answers>>
  BY DEF AmalgamateReq, Propose, PrePrepareReq, LeaderPrepare, Prepared, NotPrepared, ReadyDone,
         Decided, NotDecided, CandidateReq, CandidateRes, RunViewChangeForConsensusFail,
         EnterStage, MoveTo, node, change, net, position, ViewInv, TypeOK
<1>3. \A x \in Node : seq'[x] >= seq[x] /\ seq'[x] \in Nat /\ (x # n => seq'[x] = seq[x])
  <2>1. CASE AmalgamateReq(n)
    <3>1. PICK m \in msgs : m.type = "amalgamate" /\ m.seq > seq[n]
                            /\ seq' = [seq EXCEPT ![n] = m.seq]
      BY <2>1 DEF AmalgamateReq, MoveTo
    <3>2. m.seq \in Nat
      BY <3>1, Content DEF ViewInv, TypeOK
    <3> QED
      BY <3>1, <3>2 DEF ViewInv, TypeOK
  <2>2. CASE ~AmalgamateReq(n)
    <3>1. seq' = seq
      BY <2>2 DEF Propose, PrePrepareReq, LeaderPrepare, Prepared, NotPrepared, ReadyDone,
                  Decided, NotDecided, CandidateReq, CandidateRes, node, position
    <3> QED
      BY <3>1 DEF ViewInv, TypeOK
  <2> QED
    BY <2>1, <2>2
<1>4. \/ msgs' = msgs
      \/ \E d : \/ msgs' = msgs \cup {PrePrepareMsg(n, d)}
                \/ msgs' = msgs \cup {PrepareMsg(n, d)}
                \/ msgs' = msgs \cup {CommitMsg(n, d)}
                \/ msgs' = msgs \cup {CandidateMsg(n, d)}
                \/ msgs' = msgs \cup {FailMsg(n, d)}
  <2>1. CASE AmalgamateReq(n) \/ Prepared(n) \/ NotPrepared(n) \/ CandidateRes(n)
    BY <2>1 DEF AmalgamateReq, Prepared, NotPrepared, CandidateRes, net
  <2>2. CASE Propose(n)
    BY <2>2 DEF Propose, Broadcast
  <2>3. CASE PrePrepareReq(n)
    BY <2>3 DEF PrePrepareReq, Broadcast
  <2>4. CASE LeaderPrepare(n) \/ CandidateReq(n)
    BY <2>4 DEF LeaderPrepare, CandidateReq, Broadcast
  <2>5. CASE ReadyDone(n)
    BY <2>5 DEF ReadyDone, Broadcast
  <2>6. CASE Decided(n) \/ NotDecided(n)
    BY <2>6 DEF Decided, NotDecided, RunViewChangeForConsensusFail, Broadcast
  <2> QED
    BY <2>1, <2>2, <2>3, <2>4, <2>5, <2>6
<1>5. \A m \in msgs' \ msgs : m.type # "newView"
  BY <1>1, <1>4
<1> QED
  BY <1>2, <1>3, <1>5, Still

\* The beginning of a round raises the sequence number or votes.
LEMMA BeginKeeps ==
  ASSUME ViewInv, NEW n \in Node, AmalgamateRun(n)
  PROVE  Kept(n) /\ answers' = answers
<1>1. answers' = answers
  BY DEF AmalgamateRun
<1>2. CASE stage[n] = "newTwice"
  <2>1. UNCHANGED <<view, seq, newView, ballots, timeouts, msgs>>
    BY <1>2 DEF AmalgamateRun, position
  <2>2. mode'[n] # "newView" /\ \A x \in Node \ {n} : mode'[x] = mode[x]
    BY <1>2 DEF AmalgamateRun, Goto, ViewInv, TypeOK
  <2> QED
    BY <1>1, <2>1, <2>2, StillHere
<1>3. CASE stage[n] # "newTwice" /\ seq[n] >= HighWaterLine(view[n])
  <2>1. CASE mode[n] = "newView"
    BY <1>1, <1>3, <2>1, StillHere DEF AmalgamateRun, position
  <2>2. CASE mode[n] # "newView"
    BY <1>3, <2>2, VoteKeeps DEF AmalgamateRun, ViewInv, TypeOK
  <2> QED
    BY <2>1, <2>2
<1>4. CASE stage[n] # "newTwice" /\ ~(seq[n] >= HighWaterLine(view[n]))
  <2>1. /\ UNCHANGED <<view, mode, newView, ballots, timeouts>>
        /\ seq' \in {seq, [seq EXCEPT ![n] = seq[n] + 1]}
        /\ msgs' \in {msgs, msgs \cup {AmalgamateMsg(n, seq[n] + 1)}}
    BY <1>4 DEF AmalgamateRun, EnterStage, MoveTo, position, Broadcast, ViewInv, TypeOK
  <2>2. AmalgamateMsg(n, seq[n] + 1).type # "newView"
    BY DEF AmalgamateMsg
  <2>3. \A m \in msgs' \ msgs : m.type # "newView"
    BY <2>1, <2>2
  <2>4. \A x \in Node : seq'[x] >= seq[x] /\ seq'[x] \in Nat /\ (x # n => seq'[x] = seq[x])
    BY <2>1 DEF ViewInv, TypeOK
  <2> QED
    BY <1>1, <2>1, <2>3, <2>4, Still
<1> QED
  BY <1>1, <1>2, <1>3, <1>4

\* The steps of a view change.
LEMMA ViewChangeKeeps ==
  ASSUME ViewInv, NEW n \in Node,
         \/ FailVoteSuccess(n) \/ LeaderExpire(n) \/ LeaderExpireInNewView(n)
         \/ InvalidSequenceExpire(n) \/ TimeoutVote(n) \/ NewViewReq(n) \/ NewViewDone(n)
  PROVE  Kept(n) /\ answers' = answers
<1>1. answers' = answers
  BY DEF FailVoteSuccess, LeaderExpire, LeaderExpireInNewView, InvalidSequenceExpire,
         TimeoutVote, NewViewReq, NewViewDone, net
<1>2. CASE FailVoteSuccess(n) \/ NewViewReq(n)
  <2>1. PICK m \in msgs : /\ m.type \in {"consensusFail", "newView"}
                          /\ EnterView(n, NextView(m.position))
    BY <1>2 DEF FailVoteSuccess, NewViewReq
  <2>2. NextView(m.position) \in Nat
    BY <2>1, Content DEF ViewInv, TypeOK, Position, NextView
  <2>3. /\ LowWaterLine(view'[n]) <= seq'[n]
        /\ \A x \in Node \ {n} : view'[x] = view[x] /\ seq'[x] = seq[x]
    BY <2>1, <2>2, Entered DEF ViewInv
  <2>4. /\ LeaveViewChange(n, mode[n]) \/ LeaveViewChange(n, "newView")
        /\ UNCHANGED <<msgs, timeouts>>
    BY <1>2 DEF FailVoteSuccess, NewViewReq, net
  <2>5. mode[n] \in Modes /\ "newView" \in Modes
    BY DEF Modes, ViewInv, TypeOK
  <2>6. CASE LeaveViewChange(n, mode[n])
    BY <1>1, <2>3, <2>4, <2>5, <2>6, LeaveKeeps
  <2>7. CASE LeaveViewChange(n, "newView")
    BY <1>1, <2>3, <2>4, <2>5, <2>7, LeaveKeeps
  <2> QED
    BY <2>4, <2>6, <2>7
<1>3. CASE NewViewDone(n)
  <2>1. LeaveViewChange(n, mode[n]) /\ UNCHANGED <<view, seq, msgs, timeouts>>
    BY <1>3 DEF NewViewDone, net, position
  <2>2. mode[n] \in Modes /\ LowWaterLine(view'[n]) <= seq'[n]
    BY <2>1 DEF ViewInv, TypeOK, SequenceInView
  <2> QED
    BY <1>1, <2>1, <2>2, LeaveKeeps
<1>4. CASE LeaderExpire(n)
  <2>1. VoteForNextView(n, view[n], "fetchChain") /\ view[n] \in Nat
    BY <1>4 DEF LeaderExpire, ViewInv, TypeOK
  <2> QED
    BY <1>1, <2>1, VoteKeeps DEF Modes
<1>5. CASE LeaderExpireInNewView(n)
  <2> DEFINE b == [from |-> n, position |-> PositionAt(n, view[n])]
  <2>1. /\ timeouts' = timeouts \cup {[to |-> Leader(view[n] + 1), vote |-> b]}
        /\ UNCHANGED <<view, seq, mode, newView, ballots, msgs>>
    BY <1>5 DEF LeaderExpireInNewView, node, change
  <2>2. LedBy(b, Leader(view[n] + 1))
    BY DEF LedBy, PositionAt
  <2> HIDE DEF b
  <2>3. \A t \in timeouts' \ timeouts : LedBy(t.vote, t.to)
    BY <2>1, <2>2
  <2> QED
    BY <1>1, <2>1, <2>3 DEF Kept, ViewInv, SequenceInView, VotesLed, NewViewLed
<1>6. CASE InvalidSequenceExpire(n)
  <2>1. CASE tries[n] >= N
    <3>1. /\ UNCHANGED <<view, seq, newView, ballots, timeouts, msgs>>
          /\ mode' = [mode EXCEPT ![n] = "fetchChain"]
      BY <1>6, <2>1 DEF InvalidSequenceExpire, change, position
    <3> QED
      BY <1>1, <3>1, Still DEF ViewInv, TypeOK
  <2>2. CASE ~(tries[n] >= N)
    <3>1. /\ VoteForNextView(n, view[n] + tries[n] + 1, mode[n]) /\ mode[n] = "consensus"
          /\ view[n] + tries[n] + 1 \in Nat
      BY <1>6, <2>2 DEF InvalidSequenceExpire, ViewInv, TypeOK
    <3> QED
      BY <1>1, <3>1, VoteKeeps DEF Modes
  <2> QED
    BY <2>1, <2>2
<1>7. CASE TimeoutVote(n)
  <2>1. PICK t \in timeouts : t.to = n /\ timeouts' = timeouts \ {t} /\ Tally(n, t.vote, mode[n])
    BY <1>7 DEF TimeoutVote
  <2>2. mode[n] = "consensus"
    BY <1>7 DEF TimeoutVote
  <2>3. t.vote \in Ballot /\ LedBy(t.vote, n)
    BY <2>1 DEF ViewInv, VotesLed, TypeOK
  <2> QED
    BY <1>1, <2>1, <2>2, <2>3, TallyKeeps DEF Modes
<1> QED
  BY <1>2, <1>3, <1>4, <1>5, <1>6, <1>7

\* The end of a round and the steps of a synchronisation.
LEMMA SyncKeeps ==
  ASSUME ViewInv, NEW n \in Node,
         \/ CandidateExpire(n) \/ FailVoteExpire(n) \/ Processed(n) \/ SyncBlock(n)
         \/ SyncEnd(n) \/ StateSuccess(n) \/ Restart(n)
  PROVE  Kept(n) /\ \A x \in Node : answers'[x] \subseteq answers[x]
<1>1. \A x \in Node : answers'[x] \subseteq answers[x]
  BY DEF CandidateExpire, FailVoteExpire, Processed, SyncBlock, SyncEnd, StateSuccess, Restart,
         net, ViewInv, TypeOK
<1>2. UNCHANGED <<msgs, timeouts>>
  BY DEF CandidateExpire, FailVoteExpire, Processed, SyncBlock, SyncEnd, StateSuccess, Restart, net
<1>3. CASE CandidateExpire(n) \/ FailVoteExpire(n) \/ Processed(n) \/ SyncBlock(n)
  <2>1. UNCHANGED <<view, seq, newView, ballots>>
    BY <1>3 DEF CandidateExpire, FailVoteExpire, Processed, SyncBlock, change, position
  <2>2. mode'[n] # "newView" \/ mode' = mode
    BY <1>3 DEF CandidateExpire, FailVoteExpire, Processed, SyncBlock, SyncProcessState,
                RunNewConsensusRound, Goto, ViewInv, TypeOK
  <2>3. \A x \in Node \ {n} : mode'[x] = mode[x]
    BY <1>3 DEF CandidateExpire, FailVoteExpire, Processed, SyncBlock, SyncProcessState,
                RunNewConsensusRound, Goto, ViewInv, TypeOK
  <2> QED
    BY <1>1, <1>2, <2>1, <2>2, <2>3, StillHere
<1>4. CASE SyncEnd(n) \/ StateSuccess(n) \/ Restart(n)
  <2>1. \E v, s \in Nat : MoveTo(n, v, s) /\ LowWaterLine(v) <= s
    <3>1. LowWaterLine(0) = 0
      BY StepAssumption DEF LowWaterLine
    <3>2. CASE SyncEnd(n) \/ Restart(n)
      BY <3>1, <3>2 DEF SyncEnd, Restart
    <3>3. CASE StateSuccess(n)
      <4>1. PICK a \in answers[n] : MoveTo(n, a.position.view, a.position.seq)
        BY <3>3 DEF StateSuccess
      <4>2. a.position.view \in Nat /\ a.position.seq \in Nat
        BY <4>1 DEF ViewInv, TypeOK, Ballot, Position
      <4> QED
        BY <4>1, <4>2 DEF ViewInv, AnswersInView
    <3> QED
      BY <1>4, <3>2, <3>3
  <2>2. /\ LowWaterLine(view'[n]) <= seq'[n]
        /\ \A x \in Node \ {n} : view'[x] = view[x] /\ seq'[x] = seq[x]
    BY <2>1 DEF MoveTo, ViewInv, TypeOK
  <2>3. /\ mode'[n] # "newView"
        /\ ballots'[n] \subseteq ballots[n]
        /\ \A x \in Node \ {n} : /\ mode'[x] = mode[x] /\ newView'[x] = newView[x]
                                 /\ ballots'[x] = ballots[x]
    BY <1>4 DEF SyncEnd, StateSuccess, Restart, RunNewConsensusRound, Goto, change, ViewInv, TypeOK
  <2> QED
    BY <1>1, <1>2, <2>2, <2>3 DEF Kept, ViewInv, VotesLed
<1> QED
  BY <1>3, <1>4

\* An answer to a synchronisation is given by a node that is in its view.
LEMMA AnswerKeeps ==
  ASSUME ViewInv, NEW n \in Node, NEW m \in Node, StateAnswer(m, n)
  PROVE  Kept(n) /\ AnswersInView'
<1>1. UNCHANGED <<view, seq, mode, newView, ballots, msgs, timeouts>>
  BY DEF StateAnswer, node, change
<1>2. Kept(n)
  BY <1>1, Still DEF ViewInv, TypeOK
<1> DEFINE a == [from |-> m, position |-> PositionAt(m, view[m])]
<1>3. answers' = [answers EXCEPT ![n] = {x \in @ : x.from # m} \cup {a}]
  BY DEF StateAnswer
<1>4. LowWaterLine(a.position.view) <= a.position.seq
  BY DEF PositionAt, ViewInv, SequenceInView
<1> HIDE DEF a
<1>5. AnswersInView'
  BY <1>3, <1>4 DEF ViewInv, AnswersInView, TypeOK, LowWaterLine
<1> QED
  BY <1>2, <1>5
-----------------------------------------------------------------------------
\* Every step keeps the invariant.
LEMMA ViewStep == ASSUME ViewInv, Next PROVE ViewInv'
<1>1. TypeOK'
  BY TypeStep DEF ViewInv
<1>2. PICK n \in Node :
           \/ AmalgamateRun(n) \/ AmalgamateReq(n) \/ Propose(n)
           \/ PrePrepareReq(n) \/ LeaderPrepare(n)
           \/ Prepared(n) \/ NotPrepared(n) \/ ReadyDone(n)
           \/ Decided(n) \/ NotDecided(n)
           \/ CandidateReq(n) \/ CandidateRes(n) \/ CandidateExpire(n)
           \/ Processed(n)
           \/ FailVoteSuccess(n) \/ FailVoteExpire(n)
           \/ LeaderExpire(n) \/ LeaderExpireInNewView(n) \/ InvalidSequenceExpire(n)
           \/ TimeoutVote(n) \/ NewViewReq(n) \/ NewViewDone(n)
           \/ SyncBlock(n) \/ SyncEnd(n) \/ StateSuccess(n)
           \/ (\E m \in Node : StateAnswer(m, n))
           \/ Restart(n)
  BY Actions
<1>3. (\A x \in Node : answers'[x] \subseteq answers[x]) => AnswersInView'
  BY DEF ViewInv, AnswersInView, LowWaterLine
<1>4. CASE \E m \in Node : StateAnswer(m, n)
  BY <1>1, <1>4, AnswerKeeps, KeptStep
<1>5. CASE ~(\E m \in Node : StateAnswer(m, n))
  <2>1. CASE \/ AmalgamateReq(n) \/ Propose(n) \/ PrePrepareReq(n) \/ LeaderPrepare(n)
             \/ Prepared(n) \/ NotPrepared(n) \/ ReadyDone(n) \/ Decided(n) \/ NotDecided(n)
             \/ CandidateReq(n) \/ CandidateRes(n) \/ AmalgamateRun(n)
    BY <1>1, <1>3, <2>1, RoundKeeps, BeginKeeps, KeptStep
  <2>2. CASE \/ FailVoteSuccess(n) \/ LeaderExpire(n) \/ LeaderExpireInNewView(n)
             \/ InvalidSequenceExpire(n) \/ TimeoutVote(n) \/ NewViewReq(n) \/ NewViewDone(n)
    BY <1>1, <1>3, <2>2, ViewChangeKeeps, KeptStep
  <2>3. CASE \/ CandidateExpire(n) \/ FailVoteExpire(n) \/ Processed(n) \/ SyncBlock(n)
             \/ SyncEnd(n) \/ StateSuccess(n) \/ Restart(n)
    BY <1>1, <1>3, <2>3, SyncKeeps, KeptStep
  <2> QED
    BY <1>2, <1>5, <2>1, <2>2, <2>3
<1> QED
  BY <1>4, <1>5

\* The invariant about views, votes and answers: a view is entered at its low water line
\* and announced by its leader.
THEOREM ViewInvariance == Spec => []ViewInv
<1>1. Init => ViewInv
  <2> SUFFICES ASSUME Init PROVE ViewInv
    OBVIOUS
  <2>1. TypeOK
    BY NoDigestType DEF Init, TypeOK, Modes, Stages
  <2>2. LowWaterLine(0) = 0
    BY StepAssumption DEF LowWaterLine
  <2>3. SequenceInView
    BY <2>2 DEF Init, SequenceInView
  <2> QED
    BY <2>1, <2>3 DEF Init, ViewInv, AnswersInView, VotesLed, NewViewLed
<1>2. ViewInv /\ [Next]_vars => ViewInv'
  <2>1. ASSUME ViewInv, UNCHANGED vars PROVE ViewInv'
    BY <2>1 DEF vars, node, round, change, net, ViewInv, TypeOK, SequenceInView,
                AnswersInView, VotesLed, LedBy, NewViewLed, LowWaterLine
  <2> QED
    BY <2>1, ViewStep
<1> QED
  BY <1>1, <1>2, PTL DEF Spec

\* No node is ever below its view's low water line: amalgamate.run never ends
\* the process for that reason.
THEOREM SequenceSafety == Spec => []SequenceInView
<1>1. ViewInv => SequenceInView
  BY DEF ViewInv
<1> QED
  BY <1>1, ViewInvariance, PTL

\* A node starts only views that it leads: newView.run never ends the process.
THEOREM NewViewSafety == Spec => []NewViewLed
<1>1. ViewInv => NewViewLed
  BY DEF ViewInv
<1> QED
  BY <1>1, ViewInvariance, PTL
-----------------------------------------------------------------------------
(* One chain in the first view: sequences of growing timestamps *)

Rising(s)    == \A j, k \in 1 .. Len(s) : j < k => s[j] < s[k]
Begins(s, t) == Len(s) <= Len(t) /\ \A i \in 1 .. Len(s) : s[i] = t[i]
Last(s)      == IF s = <<>> THEN 0 ELSE s[Len(s)]

\* In a rising sequence the element after the last one of a beginning is the next one.
LEMMA NextAfter ==
  ASSUME NEW T \in Nat, NEW f \in Seq(1 .. T), Rising(f), NEW s \in Seq(Nat), Begins(s, f),
         NEW k \in 1 .. Len(f), Parent(f, k) = Last(s)
  PROVE  k = Len(s) + 1
<1>1. Len(s) \in Nat /\ Len(f) \in Nat /\ k \in Nat
  OBVIOUS
<1>2. \A i \in 1 .. Len(f) : f[i] \in Nat /\ f[i] > 0
  OBVIOUS
<1>3. CASE s = <<>>
  <2>1. Parent(f, k) = 0 /\ Len(s) = 0
    BY <1>3 DEF Last
  <2>2. ~(k > 1)
    <3> SUFFICES ASSUME k > 1 PROVE FALSE
      OBVIOUS
    <3>1. k - 1 \in 1 .. Len(f) /\ Parent(f, k) = f[k - 1]
      BY <1>1 DEF Parent
    <3> QED
      BY <1>2, <2>1, <3>1
  <2> QED
    BY <1>1, <2>1, <2>2
<1>4. CASE s # <<>>
  <2>1. Len(s) \in 1 .. Len(s) /\ Last(s) = s[Len(s)]
    BY <1>4 DEF Last
  <2>2. Len(s) \in 1 .. Len(f) /\ Last(s) = f[Len(s)]
    BY <1>1, <2>1 DEF Begins
  <2>3. f[Len(s)] > 0 /\ k # 1
    BY <1>2, <2>2 DEF Parent
  <2>4. k - 1 \in 1 .. Len(f) /\ f[k - 1] = f[Len(s)]
    <3>1. k - 1 \in 1 .. Len(f)
      BY <1>1, <2>3
    <3> QED
      BY <2>2, <2>3, <3>1 DEF Parent
  <2>5. f[k - 1] \in Nat /\ f[Len(s)] \in Nat
    BY <1>2, <2>2, <2>4
  <2>6. /\ k - 1 < Len(s) => f[k - 1] < f[Len(s)]
        /\ Len(s) < k - 1 => f[Len(s)] < f[k - 1]
    BY <2>2, <2>4 DEF Rising
  <2>7. ~(k - 1 < Len(s)) /\ ~(Len(s) < k - 1)
    BY <2>4, <2>5, <2>6
  <2> QED
    BY <1>1, <2>7
<1> QED
  BY <1>3, <1>4

\* A sequence goes on rising with a larger element.
LEMMA AppendNew ==
  ASSUME NEW T \in Nat, NEW s \in Seq(1 .. T), Rising(s)
  PROVE  LET t == Append(s, T + 1)
         IN  /\ t \in Seq(1 .. T + 1) /\ Len(t) \in 1 .. Len(t)
             /\ Rising(t) /\ Begins(s, t)
             /\ t[Len(t)] = T + 1 /\ Parent(t, Len(t)) = Last(s)
             /\ \A k \in 1 .. Len(s) :
                   k \in 1 .. Len(t) /\ t[k] = s[k] /\ Parent(t, k) = Parent(s, k)
<1> DEFINE t == Append(s, T + 1)
<1>1. Len(s) \in Nat /\ Len(t) = Len(s) + 1 /\ t[Len(s) + 1] = T + 1
  OBVIOUS
<1>2. \A k \in 1 .. Len(s) : t[k] = s[k] /\ s[k] \in Nat /\ s[k] <= T
  OBVIOUS
<1>3. t \in Seq(1 .. T + 1)
  <2>1. s \in Seq(1 .. T + 1) /\ T + 1 \in 1 .. T + 1
    OBVIOUS
  <2> QED
    BY <2>1
<1> HIDE DEF t
<1>4. Rising(t)
  <2> SUFFICES ASSUME NEW j \in 1 .. Len(t), NEW k \in 1 .. Len(t), j < k PROVE t[j] < t[k]
    BY DEF Rising
  <2>1. j \in 1 .. Len(s)
    BY <1>1
  <2>a. t[j] = s[j] /\ s[j] \in Nat /\ s[j] <= T
    BY <1>2, <2>1
  <2>2. CASE k = Len(s) + 1
    BY <1>1, <2>a, <2>2
  <2>3. CASE k # Len(s) + 1
    <3>1. k \in 1 .. Len(s)
      BY <1>1, <2>3
    <3>2. s[j] < s[k] /\ t[k] = s[k]
      BY <1>2, <2>1, <3>1 DEF Rising
    <3> QED
      BY <2>a, <3>2
  <2> QED
    BY <2>2, <2>3
<1>5. Begins(s, t)
  BY <1>1, <1>2 DEF Begins
<1>6. Parent(t, Len(t)) = Last(s)
  <2>1. CASE s = <<>>
    BY <1>1, <2>1 DEF Parent, Last
  <2>2. CASE s # <<>>
    <3>1. Len(s) \in 1 .. Len(s)
      BY <2>2
    <3>2. Len(t) # 1 /\ Len(t) - 1 = Len(s)
      BY <1>1, <3>1
    <3> QED
      BY <1>2, <2>2, <3>1, <3>2 DEF Parent, Last
  <2> QED
    BY <2>1, <2>2
<1>7. \A k \in 1 .. Len(s) : k \in 1 .. Len(t) /\ t[k] = s[k] /\ Parent(t, k) = Parent(s, k)
  <2> SUFFICES ASSUME NEW k \in 1 .. Len(s)
               PROVE  k \in 1 .. Len(t) /\ t[k] = s[k] /\ Parent(t, k) = Parent(s, k)
    OBVIOUS
  <2>1. k \in 1 .. Len(t) /\ t[k] = s[k]
    BY <1>1, <1>2
  <2>2. k # 1 => k - 1 \in 1 .. Len(s)
    BY <1>1
  <2> QED
    BY <1>2, <2>1, <2>2 DEF Parent
<1> QED
  BY <1>1, <1>3, <1>4, <1>5, <1>6, <1>7 DEF t

\* A beginning of a beginning is a beginning.
LEMMA BeginsFurther ==
  ASSUME NEW r \in Seq(Nat), NEW s \in Seq(Nat), NEW t \in Seq(Nat), Begins(r, s), Begins(s, t)
  PROVE  Begins(r, t)
<1>1. Len(r) \in Nat /\ Len(s) \in Nat /\ Len(t) \in Nat
  OBVIOUS
<1> QED
  BY <1>1 DEF Begins

\* A beginning and the next element are a beginning.
LEMMA AppendBegins ==
  ASSUME NEW s \in Seq(Nat), NEW t \in Seq(Nat), Begins(s, t),
         Len(s) + 1 \in 1 .. Len(t), NEW e \in Nat, t[Len(s) + 1] = e
  PROVE  Begins(Append(s, e), t)
<1>1. Len(s) \in Nat /\ Len(t) \in Nat /\ Len(Append(s, e)) = Len(s) + 1
  OBVIOUS
<1>2. \A i \in 1 .. Len(s) : Append(s, e)[i] = s[i]
  OBVIOUS
<1>3. Append(s, e)[Len(s) + 1] = e
  OBVIOUS
<1>4. \A i \in 1 .. Len(s) + 1 : i \in 1 .. Len(s) \/ i = Len(s) + 1
  BY <1>1
<1> QED
  BY <1>1, <1>2, <1>3, <1>4 DEF Begins
-----------------------------------------------------------------------------
\* The first view, as long as no wait has failed
FirstView == expired = 0 /\ \A n \in Node : view[n] = 0

\* The stages in which the leader has a proposal that it is yet to append
Begun == {"propose", "prepare", "ready", "commit", "process"}

\* What the leader's chain will be at the end of the round
Future == IF stage[0] \in Begun /\ cand[0].full THEN Append(chain[0], cand[0].ts) ELSE chain[0]

\* Nothing but the failure of a wait makes a node synchronise.
NoSync == expired = 0 => \A n \in Node : mode[n] \in {"consensus", "newView", "exit"}

\* No node is changing its view.
Calm == \A n \in Node : mode[n] # "newView" /\ ~newView[n]

\* Only the leader proposes, and once for a sequence number.
OneProposer ==
    /\ \A n \in Node \ {0} : stage[n] \notin {"collect", "propose"}
    /\ \A d \in Proposed : d.seq <= seq[0] /\ (stage[0] = "collect" => d.seq < seq[0])
    /\ \A c, d \in Proposed : c.seq = d.seq => c = d

\* The leader's proposal extends its chain until it is processed, and is what the
\* leader decides.
Pending ==
    /\ stage[0] # "fetchCandidate"
    /\ stage[0] \in Begun =>
          /\ cand[0] \in Proposed
          /\ cand[0].seq = seq[0]
          /\ cand[0].parent = Hash(0)
          /\ stage[0] = "process" => dec[0] = cand[0]

\* Every proposal with a valid transaction is, or will be, on the leader's chain.
NothingSkipped ==
    \A d \in Proposed : d.full =>
        \E k \in 1 .. Len(Future) : Future[k] = d.ts /\ Parent(Future, k) = d.parent

\* Timestamps grow along the leader's chain.
Ordered == Future \in Seq(1 .. clock) /\ Rising(Future)

\* Every chain is a beginning of it.
Prefixes == \A n \in Node : Begins(chain[n], Future)

Linear == Calm /\ OneProposer /\ Pending /\ NothingSkipped /\ Ordered /\ Prefixes

ForkInv == NoSync /\ (FirstView => Linear)
-----------------------------------------------------------------------------
\* Node 0 leads the first view.
LEMMA FirstLeader == 0 \in Node /\ Leader(0) = 0
  BY NAssumption DEF Node, Leader

\* A view that a vote leads to is not the first.
LEMMA NextViewNotFirst ==
  ASSUME NEW p \in Position
  PROVE  NextView(p) # 0
  BY DEF Position, NextView

\* Counting a vote, or casting one, leaves view and modes alone in the first view.
LEMMA TallyInFirstView ==
  ASSUME TypeOK, NEW n \in Node, NEW b \in Ballot, NEW m, Tally(n, b, m), view'[n] = 0
  PROVE  UNCHANGED <<view, seq, newView, msgs>> /\ mode' = [mode EXCEPT ![n] = m]
<1>1. NextView(b.position) # 0
  BY NextViewNotFirst DEF Ballot
<1>2. ~EnterView(n, NextView(b.position))
  BY <1>1 DEF EnterView, MoveTo, TypeOK
<1> QED
  BY <1>2 DEF Tally, position

\* The same of casting a vote.
LEMMA VoteInFirstView ==
  ASSUME TypeOK, NEW n \in Node, NEW v \in Nat, NEW m, VoteForNextView(n, v, m), view'[n] = 0
  PROVE  UNCHANGED <<view, seq, newView, msgs>> /\ mode' = [mode EXCEPT ![n] = m]
<1>1. [from |-> n, position |-> PositionAt(n, v)] \in Ballot
  BY PositionType DEF Ballot
<1> QED
  BY <1>1, TallyInFirstView DEF VoteForNextView, position

\* A new view is not the first one.
LEMMA EnterNotFirst ==
  ASSUME TypeOK, NEW n \in Node, NEW p \in Position, EnterView(n, NextView(p))
  PROVE  view'[n] # 0
  BY NextViewNotFirst DEF EnterView, MoveTo, TypeOK

\* The steps that a behaviour in its first view consists of
Steady(n) ==
    \/ AmalgamateRun(n) \/ AmalgamateReq(n) \/ Propose(n)
    \/ PrePrepareReq(n) \/ LeaderPrepare(n)
    \/ Prepared(n) \/ ReadyDone(n) \/ Decided(n)
    \/ CandidateReq(n) \/ CandidateRes(n) \/ Processed(n) \/ TimeoutVote(n)


\* The others are view changes, or begin with a wait that fails.
LEMMA UnexpiredSteps ==
  ASSUME TypeOK, NoSync, Next, expired' = 0
  PROVE  /\ expired = 0
         /\ \E n \in Node : \/ Steady(n)
                            \/ FailVoteSuccess(n) \/ NewViewReq(n) \/ NewViewDone(n)
<1>1. ~Expire
  BY DEF Expire, TypeOK
<1>2. PICK n \in Node :
           \/ AmalgamateRun(n) \/ AmalgamateReq(n) \/ Propose(n)
           \/ PrePrepareReq(n) \/ LeaderPrepare(n)
           \/ Prepared(n) \/ NotPrepared(n) \/ ReadyDone(n)
           \/ Decided(n) \/ NotDecided(n)
           \/ CandidateReq(n) \/ CandidateRes(n) \/ CandidateExpire(n)
           \/ Processed(n)
           \/ FailVoteSuccess(n) \/ FailVoteExpire(n)
           \/ LeaderExpire(n) \/ LeaderExpireInNewView(n) \/ InvalidSequenceExpire(n)
           \/ TimeoutVote(n) \/ NewViewReq(n) \/ NewViewDone(n)
           \/ SyncBlock(n) \/ SyncEnd(n) \/ StateSuccess(n)
           \/ (\E m \in Node : StateAnswer(m, n))
           \/ Restart(n)
  BY Actions
<1>3. ~(\/ NotPrepared(n) \/ NotDecided(n) \/ CandidateExpire(n) \/ FailVoteExpire(n)
        \/ LeaderExpire(n) \/ LeaderExpireInNewView(n) \/ InvalidSequenceExpire(n)
        \/ Restart(n))
  BY <1>1 DEF NotPrepared, NotDecided, CandidateExpire, FailVoteExpire, LeaderExpire,
              LeaderExpireInNewView, InvalidSequenceExpire, Restart, SyncProcessState
<1>4. CASE SyncBlock(n) \/ SyncEnd(n) \/ StateSuccess(n) \/ (\E m \in Node : StateAnswer(m, n))
  <2>1. expired = 0 /\ mode[n] \in {"fetchChain", "fetchState"}
    BY <1>4 DEF SyncBlock, SyncEnd, StateSuccess, StateAnswer
  <2> QED
    BY <2>1 DEF NoSync
<1>5. CASE Steady(n)
  BY <1>5 DEF Steady, AmalgamateRun, AmalgamateReq, Propose, PrePrepareReq, LeaderPrepare,
              Prepared, ReadyDone, Decided, CandidateReq, CandidateRes, Processed, TimeoutVote
<1>6. CASE FailVoteSuccess(n) \/ NewViewReq(n) \/ NewViewDone(n)
  BY <1>6 DEF FailVoteSuccess, NewViewReq, NewViewDone
<1> QED
  BY <1>2, <1>3, <1>4, <1>5, <1>6 DEF Steady

\* Those steps never begin a synchronisation.
LEMMA NoSyncStep ==
  ASSUME TypeOK, NoSync, Next
  PROVE  NoSync'
<1> SUFFICES ASSUME expired' = 0, NEW x \in Node
             PROVE  mode'[x] \in {"consensus", "newView", "exit"}
  BY DEF NoSync
<1>1. mode[x] \in {"consensus", "newView", "exit"}
  BY UnexpiredSteps DEF NoSync
<1>2. PICK n \in Node : Steady(n) \/ FailVoteSuccess(n) \/ NewViewReq(n) \/ NewViewDone(n)
  BY UnexpiredSteps
<1>3. mode' = mode \/ \E m \in {mode[n], "consensus", "newView", "exit"} :
                          mode' = [mode EXCEPT ![n] = m]
  <2>1. CASE AmalgamateRun(n)
    BY <2>1 DEF AmalgamateRun, VoteForNextView, Tally, Goto, EnterStage
  <2>2. CASE \/ AmalgamateReq(n) \/ Propose(n) \/ PrePrepareReq(n) \/ LeaderPrepare(n)
             \/ Prepared(n) \/ ReadyDone(n) \/ Decided(n) \/ CandidateReq(n) \/ CandidateRes(n)
    BY <2>2 DEF AmalgamateReq, Propose, PrePrepareReq, LeaderPrepare, Prepared, ReadyDone,
                Decided, CandidateReq, CandidateRes, EnterStage, RunViewChangeForConsensusFail,
                node
  <2>3. CASE Processed(n)
    BY <2>3 DEF Processed, RunNewConsensusRound, Goto
  <2>4. CASE TimeoutVote(n)
    BY <2>4 DEF TimeoutVote, Tally
  <2>5. CASE FailVoteSuccess(n) \/ NewViewReq(n) \/ NewViewDone(n)
    BY <2>5 DEF FailVoteSuccess, NewViewReq, NewViewDone, LeaveViewChange,
                RunNewConsensusRound, Goto
  <2> QED
    BY <1>2, <2>1, <2>2, <2>3, <2>4, <2>5 DEF Steady
<1>4. mode[n] \in {"consensus", "newView", "exit"}
  BY UnexpiredSteps DEF NoSync
<1> QED
  BY <1>1, <1>3, <1>4 DEF TypeOK

\* A step of the round that leaves the node in the first view changes no view and begins
\* no new view.
LEMMA SteadyEffect ==
  ASSUME TypeOK, NEW n \in Node, Steady(n), view'[n] = 0
  PROVE  /\ UNCHANGED <<view, newView>>
         /\ \E m \in {mode[n], "consensus", "exit"} : mode' = [mode EXCEPT ![n] = m]
<1>0. mode = [mode EXCEPT ![n] = mode[n]] /\ view = [view EXCEPT ![n] = view[n]]
  BY DEF TypeOK
<1>1. CASE AmalgamateRun(n)
  <2>1. CASE VoteForNextView(n, view[n], mode[n])
    <3>1. view[n] \in Nat /\ mode[n] \in Modes
      BY DEF TypeOK
    <3> QED
      BY <2>1, <3>1, VoteInFirstView
  <2> QED
    BY <1>0, <1>1, <2>1 DEF AmalgamateRun, Goto, EnterStage, MoveTo, position
<1>2. CASE \/ AmalgamateReq(n) \/ Propose(n) \/ PrePrepareReq(n) \/ LeaderPrepare(n)
           \/ Prepared(n) \/ ReadyDone(n) \/ Decided(n) \/ CandidateReq(n) \/ CandidateRes(n)
  BY <1>0, <1>2 DEF AmalgamateReq, Propose, PrePrepareReq, LeaderPrepare, Prepared, ReadyDone,
              Decided, CandidateReq, CandidateRes, EnterStage, RunViewChangeForConsensusFail,
              node, position, change, MoveTo
<1>3. CASE Processed(n)
  BY <1>3 DEF Processed, RunNewConsensusRound, Goto, position
<1>4. CASE TimeoutVote(n)
  <2>1. PICK t \in timeouts : Tally(n, t.vote, mode[n])
    BY <1>4 DEF TimeoutVote
  <2>2. t.vote \in Ballot /\ mode[n] \in Modes
    BY DEF TypeOK
  <2> QED
    BY <2>1, <2>2, TallyInFirstView
<1> QED
  BY <1>1, <1>2, <1>3, <1>4 DEF Steady

\* While the views are the first ones they always were.
LEMMA FirstViewSteps ==
  ASSUME TypeOK, NoSync, FirstView => Linear, Next, FirstView'
  PROVE  FirstView /\ \E n \in Node : Steady(n)
<1>1. expired = 0 /\ \A x \in Node : view'[x] = 0
  BY UnexpiredSteps DEF FirstView
<1>2. PICK n \in Node : Steady(n) \/ FailVoteSuccess(n) \/ NewViewReq(n) \/ NewViewDone(n)
  BY UnexpiredSteps DEF FirstView
<1>3. CASE Steady(n)
  BY <1>1, <1>3, SteadyEffect DEF FirstView
<1>4. CASE FailVoteSuccess(n) \/ NewViewReq(n)
  <2>1. PICK m \in msgs : /\ m.type \in {"consensusFail", "newView"}
                          /\ EnterView(n, NextView(m.position))
    BY <1>4 DEF FailVoteSuccess, NewViewReq
  <2>2. m.position \in Position
    BY <2>1, Content DEF TypeOK
  <2> QED
    BY <1>1, <2>1, <2>2, EnterNotFirst
<1>5. CASE NewViewDone(n)
  <2>1. newView[n] /\ view' = view
    BY <1>5 DEF NewViewDone, position
  <2> QED
    BY <1>1, <2>1 DEF FirstView, Linear, Calm
<1> QED
  BY <1>2, <1>3, <1>4, <1>5
-----------------------------------------------------------------------------
(* What the steps of the first view do to the chains *)

\* The types of the chains, and of what the leader's is to be
LEMMA FutureType ==
  ASSUME IInv, Linear
  PROVE  /\ Future \in Seq(1 .. clock) /\ Future \in Seq(Nat) /\ clock \in Nat
         /\ \A n \in Node : chain[n] \in Seq(Nat) /\ Hash(n) = Last(chain[n])
<1>1. clock \in Nat /\ \A n \in Node : chain[n] \in Seq(Nat)
  BY DEF IInv, TypeOK
<1>2. Future \in Seq(1 .. clock)
  BY DEF Linear, Ordered
<1>3. Future \in Seq(Nat)
  BY <1>1, <1>2
<1> QED
  BY <1>1, <1>2, <1>3 DEF Hash, Last

\* A step that proposes nothing and extends no chain, and in which the leader goes on with
\* its proposal or has none.
LEMMA LinearKept ==
  ASSUME IInv, Linear, TypeOK',
         Proposed' = Proposed, UNCHANGED <<chain, clock, newView>>,
         \A x \in Node : mode'[x] # "newView",
         \A x \in Node \ {0} : stage'[x] \notin {"collect", "propose"},
         seq'[0] >= seq[0],
         stage'[0] = "collect" => stage[0] = "collect" \/ seq'[0] > seq[0],
         stage'[0] # "fetchCandidate",
         \/ stage[0] \notin Begun /\ stage'[0] \notin Begun
         \/ /\ {stage[0], stage'[0]} \subseteq Begun /\ cand'[0] = cand[0] /\ seq'[0] = seq[0]
            /\ stage'[0] = "process" => dec'[0] = cand[0]
  PROVE  Linear'
<1> USE FirstLeader
<1>1. Future' = Future /\ Hash(0)' = Hash(0)
  BY DEF Future, Hash
<1>2. Calm' /\ Pending'
  BY <1>1 DEF Linear, Calm, Pending
<1>3. OneProposer'
  <2>1. \A d \in Proposed : d.seq \in Nat
    BY ProposedIsDigest DEF IInv, Digest
  <2>2. seq[0] \in Nat /\ seq'[0] \in Nat
    BY DEF IInv, TypeOK
  <2> QED
    BY <2>1, <2>2 DEF Linear, OneProposer
<1>4. NothingSkipped'
  BY <1>1 DEF Linear, NothingSkipped
<1>5. Ordered' /\ Prefixes'
  BY <1>1 DEF Linear, Ordered, Prefixes
<1> QED
  BY <1>2, <1>3, <1>4, <1>5 DEF Linear

\* A proposal goes to the end of the leader's chain to be.
LEMMA ProposeLinear ==
  ASSUME IInv, Linear, TypeOK', NEW n \in Node, Propose(n),
         UNCHANGED newView, \A x \in Node : mode'[x] # "newView"
  PROVE  Linear'
<1>1. n = 0 /\ stage[0] = "collect" /\ Future = chain[0]
  BY DEF Propose, Linear, OneProposer, Future, Begun
<1>2. PICK d :
        /\ d.seq = seq[0] /\ d.parent = Hash(0) /\ d.ts = clock + 1
        /\ cand' = [cand EXCEPT ![0] = d]
        /\ msgs' = msgs \cup {PrePrepareMsg(0, d)}
  BY <1>1 DEF Propose, Broadcast
<1>3. /\ clock' = clock + 1 /\ UNCHANGED <<chain, seq>>
      /\ stage' = [stage EXCEPT ![0] = "propose"]
  BY <1>1 DEF Propose, EnterStage, position
<1>4. Proposed' = Proposed \cup {d}
  <2>1. PrePrepareMsg(0, d).type = "prePrepare" /\ PrePrepareMsg(0, d).digest = d
    BY DEF PrePrepareMsg
  <2> QED
    BY <1>2, <2>1 DEF Proposed
<1>5. 0 \in Node /\ chain[0] \in Seq(1 .. clock) /\ clock \in Nat /\ seq[0] \in Nat
  BY <1>1, FirstLeader DEF Linear, Ordered, IInv, TypeOK
<1>6. cand'[0] = d /\ stage'[0] = "propose" /\ Hash(0)' = Hash(0)
  BY <1>2, <1>3, <1>5 DEF IInv, TypeOK, Hash
<1>7. Future' = IF d.full THEN Append(chain[0], clock + 1) ELSE chain[0]
  BY <1>2, <1>3, <1>6 DEF Future, Begun
<1>8. /\ Future' \in Seq(1 .. clock + 1) /\ Rising(Future') /\ Begins(chain[0], Future')
      /\ \A k \in 1 .. Len(chain[0]) : /\ k \in 1 .. Len(Future') /\ Future'[k] = chain[0][k]
                                       /\ Parent(Future', k) = Parent(chain[0], k)
      /\ d.full => \E k \in 1 .. Len(Future') : Future'[k] = d.ts /\ Parent(Future', k) = d.parent
  <2>1. Rising(chain[0]) /\ Hash(0) = Last(chain[0])
    BY <1>1, <1>5, FutureType DEF Linear, Ordered
  <2>2. CASE d.full
    <3>1. Future' = Append(chain[0], clock + 1)
      BY <1>7, <2>2
    <3>2. LET t == Append(chain[0], clock + 1)
          IN  /\ t \in Seq(1 .. clock + 1) /\ Len(t) \in 1 .. Len(t)
              /\ Rising(t) /\ Begins(chain[0], t)
              /\ t[Len(t)] = clock + 1 /\ Parent(t, Len(t)) = Last(chain[0])
              /\ \A k \in 1 .. Len(chain[0]) :
                    k \in 1 .. Len(t) /\ t[k] = chain[0][k] /\ Parent(t, k) = Parent(chain[0], k)
      BY <1>5, <2>1, AppendNew
    <3> QED
      BY <1>2, <2>1, <3>1, <3>2
  <2>3. CASE ~d.full
    BY <1>5, <1>7, <2>1, <2>3 DEF Begins
  <2> QED
    BY <2>2, <2>3
<1>9. Calm' /\ Pending'
  BY <1>2, <1>3, <1>4, <1>6 DEF Linear, Calm, Pending
<1>10. OneProposer'
  <2>1. \A x \in Node \ {0} : stage'[x] \notin {"collect", "propose"}
    BY <1>3 DEF Linear, OneProposer, IInv, TypeOK
  <2>2. \A e \in Proposed : e.seq < seq[0] /\ e.seq \in Nat
    BY <1>1, ProposedIsDigest DEF Linear, OneProposer, IInv, Digest
  <2>3. \A e \in Proposed' : e.seq <= seq'[0]
    BY <1>2, <1>3, <1>4, <1>5, <2>2
  <2>4. \A c, e \in Proposed' : c.seq = e.seq => c = e
    BY <1>2, <1>4, <1>5, <2>2 DEF Linear, OneProposer
  <2> QED
    BY <1>6, <2>1, <2>3, <2>4 DEF OneProposer
<1>11. NothingSkipped'
  <2> SUFFICES ASSUME NEW e \in Proposed', e.full
               PROVE  \E k \in 1 .. Len(Future') :
                         Future'[k] = e.ts /\ Parent(Future', k) = e.parent
    BY DEF NothingSkipped
  <2>1. CASE e \in Proposed
    <3>1. PICK k \in 1 .. Len(chain[0]) : chain[0][k] = e.ts /\ Parent(chain[0], k) = e.parent
      BY <1>1, <2>1 DEF Linear, NothingSkipped
    <3> QED
      BY <1>8, <3>1
  <2>2. CASE e = d
    BY <1>8, <2>2
  <2> QED
    BY <1>4, <2>1, <2>2
<1>12. Ordered'
  BY <1>3, <1>8 DEF Ordered
<1>13. Prefixes'
  <2> SUFFICES ASSUME NEW x \in Node PROVE Begins(chain[x], Future')
    BY <1>3 DEF Prefixes
  <2>1. Begins(chain[x], chain[0]) /\ chain[x] \in Seq(Nat) /\ chain[0] \in Seq(Nat)
    BY <1>1, <1>5, FutureType DEF Linear, Prefixes
  <2>2. Future' \in Seq(Nat)
    BY <1>5, <1>8
  <2> QED
    BY <1>8, <2>1, <2>2, BeginsFurther
<1> QED
  BY <1>9, <1>10, <1>11, <1>12, <1>13 DEF Linear

\* The block a node appends is the next one of the leader's chain.
LEMMA NextOfLeader ==
  ASSUME IInv, Linear, NEW n \in Node, stage[n] = "process", dec[n].full
  PROVE  /\ Len(chain[n]) + 1 \in 1 .. Len(Future)
         /\ Future[Len(chain[n]) + 1] = dec[n].ts
<1>1. dec[n] \in Proposed /\ dec[n].parent = Hash(n)
  BY DEF IInv, Deciding
<1>2. PICK k \in 1 .. Len(Future) : Future[k] = dec[n].ts /\ Parent(Future, k) = Hash(n)
  BY <1>1 DEF Linear, NothingSkipped
<1>3. Rising(Future) /\ Begins(chain[n], Future)
  BY DEF Linear, Ordered, Prefixes
<1>4. k = Len(chain[n]) + 1
  BY <1>2, <1>3, FutureType, NextAfter
<1> QED
  BY <1>2, <1>4

\* Processing a block moves a node on along the leader's chain.
LEMMA ProcessedLinear ==
  ASSUME IInv, Linear, TypeOK', NEW n \in Node, Processed(n),
         UNCHANGED newView, \A x \in Node : mode'[x] # "newView"
  PROVE  Linear'
<1> USE FirstLeader
<1>1. /\ stage[n] = "process" /\ stage' = [stage EXCEPT ![n] = "processed"]
      /\ UNCHANGED <<seq, clock, msgs>>
      /\ \A x \in Node \ {n} : cand'[x] = cand[x] /\ dec'[x] = dec[x]
      /\ chain' = IF dec[n].full THEN [chain EXCEPT ![n] = Append(@, dec[n].ts)] ELSE chain
  BY DEF Processed, RunNewConsensusRound, Goto, position, net, IInv, TypeOK
<1>2. Proposed' = Proposed
  BY <1>1 DEF Proposed
<1>3. Future' = Future
  BY <1>1 DEF Linear, Pending, Future, Begun, IInv, TypeOK
<1>4. Calm'
  BY DEF Linear, Calm
<1>5. OneProposer'
  BY <1>1, <1>2 DEF Linear, OneProposer, IInv, TypeOK
<1>6. Pending'
  <2>1. CASE n = 0
    BY <1>1, <2>1 DEF Pending, Begun, IInv, TypeOK
  <2>2. CASE n # 0
    <3>1. chain'[0] = chain[0] /\ stage'[0] = stage[0] /\ cand'[0] = cand[0] /\ dec'[0] = dec[0]
      BY <1>1, <2>2 DEF IInv, TypeOK
    <3>2. Hash(0)' = Hash(0)
      BY <3>1 DEF Hash
    <3> QED
      BY <1>1, <1>2, <3>1, <3>2 DEF Linear, Pending
  <2> QED
    BY <2>1, <2>2
<1>7. NothingSkipped' /\ Ordered'
  BY <1>1, <1>2, <1>3 DEF Linear, NothingSkipped, Ordered
<1>8. Prefixes'
  <2> SUFFICES ASSUME NEW x \in Node PROVE Begins(chain'[x], Future)
    BY <1>3 DEF Prefixes
  <2>1. Begins(chain[x], Future)
    BY DEF Linear, Prefixes
  <2>2. CASE x = n /\ dec[n].full
    <3>1. chain'[x] = Append(chain[x], dec[n].ts)
      BY <1>1, <2>2 DEF IInv, TypeOK
    <3>2. Len(chain[x]) + 1 \in 1 .. Len(Future) /\ Future[Len(chain[x]) + 1] = dec[n].ts
      BY <1>1, <2>2, NextOfLeader
    <3>3. dec[n].ts \in Nat
      BY DEF IInv, TypeOK, Digest
    <3> QED
      BY <2>1, <3>1, <3>2, <3>3, FutureType, AppendBegins
  <2>3. CASE ~(x = n /\ dec[n].full)
    <3>1. chain'[x] = chain[x]
      BY <1>1, <2>3 DEF IInv, TypeOK
    <3> QED
      BY <2>1, <3>1
  <2> QED
    BY <2>2, <2>3
<1> QED
  BY <1>4, <1>5, <1>6, <1>7, <1>8 DEF Linear

\* The stages of a node other than the leader are its own affair, as long as it does not
\* propose.
LEMMA FollowerLinear ==
  ASSUME IInv, Linear, TypeOK', NEW n \in Node \ {0},
         NEW s \in Stages \ {"collect", "propose"},
         stage' = stage \/ stage' = [stage EXCEPT ![n] = s],
         Proposed' = Proposed, UNCHANGED <<chain, clock, newView, dec>>,
         \A x \in Node : mode'[x] # "newView", seq'[0] = seq[0], cand'[0] = cand[0]
  PROVE  Linear'
<1> USE FirstLeader
<1>1. stage'[0] = stage[0] /\ seq[0] \in Nat
  BY DEF IInv, TypeOK
<1>2. \A x \in Node \ {0} : stage'[x] \notin {"collect", "propose"}
  BY DEF Linear, OneProposer, IInv, TypeOK
<1>3. stage[0] # "fetchCandidate" /\ (stage[0] = "process" => dec[0] = cand[0])
  BY DEF Linear, Pending, Begun
<1> QED
  BY <1>1, <1>2, <1>3, LinearKept

\* The beginning of a round: the leader takes the next sequence number.
LEMMA BeginLinear ==
  ASSUME IInv, Linear, TypeOK', NEW n \in Node, AmalgamateRun(n), view[n] = 0, view'[n] = 0,
         UNCHANGED newView, \A x \in Node : mode'[x] # "newView"
  PROVE  Linear'
<1> USE FirstLeader
<1>1. UNCHANGED <<chain, cand, dec, clock>> /\ stage[n] \in {"new", "processed", "newTwice"}
  BY DEF AmalgamateRun, round
<1>2. seq[0] \in Nat /\ stage[0] # "fetchCandidate" /\ (stage[0] = "process" => dec[0] = cand[0])
  BY DEF IInv, TypeOK, Linear, Pending, Begun
<1>3. PICK s \in {"amalgamate", "waitView", "collect"} :
        /\ stage' = [stage EXCEPT ![n] = s]
        /\ \/ s # "collect" /\ UNCHANGED <<seq, msgs>>
           \/ /\ s = "collect" /\ n = 0 /\ seq' = [seq EXCEPT ![n] = seq[n] + 1]
              /\ msgs' = msgs \cup {AmalgamateMsg(n, seq[n] + 1)}
  <2>1. CASE stage[n] = "newTwice"
    BY <2>1 DEF AmalgamateRun, Goto, position
  <2>2. CASE stage[n] # "newTwice" /\ seq[n] >= HighWaterLine(view[n])
    <3>1. stage' = [stage EXCEPT ![n] = "waitView"]
      BY <2>2 DEF AmalgamateRun
    <3>2. view[n] \in Nat /\ mode[n] \in Modes
      BY DEF IInv, TypeOK
    <3>3. UNCHANGED <<seq, msgs>>
      BY <2>2, <3>2, VoteInFirstView DEF AmalgamateRun, position, IInv
    <3> QED
      BY <3>1, <3>3
  <2>3. CASE stage[n] # "newTwice" /\ ~(seq[n] >= HighWaterLine(view[n]))
    <3>1. n # 0 => Leader(view[n]) # n
      OBVIOUS
    <3> QED
      BY <2>3, <3>1 DEF AmalgamateRun, EnterStage, MoveTo, Broadcast, position
  <2> QED
    BY <2>1, <2>2, <2>3
<1>4. Proposed' = Proposed
  <2>1. AmalgamateMsg(n, seq[n] + 1).type # "prePrepare"
    BY DEF AmalgamateMsg
  <2> QED
    BY <1>3, <2>1, ProposedUnchanged
<1>5. CASE n # 0
  <2>1. s \in Stages \ {"collect", "propose"} /\ seq'[0] = seq[0]
    BY <1>3, <1>5 DEF Stages
  <2> QED
    BY <1>1, <1>3, <1>4, <1>5, <2>1, FollowerLinear
<1>6. CASE n = 0
  <2>1. \A x \in Node \ {0} : stage'[x] \notin {"collect", "propose"}
    BY <1>3, <1>6 DEF Linear, OneProposer, IInv, TypeOK
  <2>2. stage'[0] = s /\ stage[0] \notin Begun /\ s \notin Begun
    BY <1>1, <1>3, <1>6 DEF Begun, IInv, TypeOK
  <2>3. seq'[0] >= seq[0] /\ (s = "collect" => seq'[0] > seq[0])
    BY <1>2, <1>3, <1>6 DEF IInv, TypeOK
  <2> QED
    BY <1>1, <1>3, <1>4, <2>1, <2>2, <2>3, LinearKept
<1> QED
  BY <1>5, <1>6

\* The steps that go on with a round
LEMMA RoundLinear ==
  ASSUME IInv, Linear, TypeOK', NEW n \in Node, view[n] = 0, view'[n] = 0,
         \/ AmalgamateReq(n) \/ PrePrepareReq(n) \/ LeaderPrepare(n)
         \/ Prepared(n) \/ ReadyDone(n) \/ CandidateReq(n) \/ CandidateRes(n) \/ TimeoutVote(n),
         UNCHANGED newView, \A x \in Node : mode'[x] # "newView"
  PROVE  Linear'
<1> USE FirstLeader
<1>1. UNCHANGED <<chain, clock, dec>>
  BY DEF AmalgamateReq, PrePrepareReq, LeaderPrepare, Prepared, ReadyDone, CandidateReq,
         CandidateRes, TimeoutVote, round, node
<1>2. Proposed' = Proposed
  <2>1. \A d : {PrepareMsg(n, d).type, CommitMsg(n, d).type, CandidateMsg(n, d).type}
                  \subseteq {"prepare", "commit", "candidate"}
    BY DEF PrepareMsg, CommitMsg, CandidateMsg
  <2>2. TimeoutVote(n) => UNCHANGED <<seq, msgs>>
    <3> SUFFICES ASSUME TimeoutVote(n) PROVE UNCHANGED <<seq, msgs>>
      OBVIOUS
    <3>1. PICK t \in timeouts : Tally(n, t.vote, mode[n])
      BY DEF TimeoutVote
    <3>2. t.vote \in Ballot /\ mode[n] \in Modes
      BY DEF IInv, TypeOK
    <3> QED
      BY <3>1, <3>2, TallyInFirstView DEF IInv
  <2>3. \E d : msgs' \in {msgs, msgs \cup {PrepareMsg(n, d)}, msgs \cup {CommitMsg(n, d)},
                          msgs \cup {CandidateMsg(n, d)}}
    BY <2>2 DEF AmalgamateReq, PrePrepareReq, LeaderPrepare, Prepared, ReadyDone, CandidateReq,
           CandidateRes, TimeoutVote, net, Broadcast
  <2> QED
    BY <2>1, <2>3, ProposedUnchanged
<1>3. seq[0] \in Nat /\ stage[0] # "fetchCandidate" /\ (stage[0] = "process" => dec[0] = cand[0])
  BY DEF IInv, TypeOK, Linear, Pending, Begun
<1>4. CASE AmalgamateReq(n) \/ PrePrepareReq(n) \/ CandidateRes(n)
  <2>1. n # 0
    BY <1>3, <1>4 DEF AmalgamateReq, PrePrepareReq, CandidateRes
  <2>2. \E s \in {"prePrepare", "prepare", "process"} : stage' = [stage EXCEPT ![n] = s]
    BY <1>4 DEF AmalgamateReq, PrePrepareReq, CandidateRes, EnterStage
  <2>3. seq'[0] = seq[0] /\ cand'[0] = cand[0]
    BY <1>4, <2>1 DEF AmalgamateReq, PrePrepareReq, CandidateRes, MoveTo, position, round,
                      IInv, TypeOK
  <2> QED
    BY <1>1, <1>2, <2>1, <2>2, <2>3, FollowerLinear DEF Stages
<1>5. CASE LeaderPrepare(n) \/ Prepared(n) \/ ReadyDone(n)
  <2>1. UNCHANGED <<seq, cand>> /\ stage[n] \in {"propose", "prepare", "ready"}
    BY <1>5 DEF LeaderPrepare, Prepared, ReadyDone, position, round
  <2>2. PICK s \in {"prepare", "ready", "commit"} : stage' = [stage EXCEPT ![n] = s]
    BY <1>5 DEF LeaderPrepare, Prepared, ReadyDone, EnterStage
  <2>3. CASE n # 0
    BY <1>1, <1>2, <2>1, <2>2, <2>3, FollowerLinear DEF Stages
  <2>4. CASE n = 0
    <3>1. \A x \in Node \ {0} : stage'[x] \notin {"collect", "propose"}
      BY <2>2, <2>4 DEF Linear, OneProposer, IInv, TypeOK
    <3>2. stage'[0] = s
      BY <2>2, <2>4 DEF IInv, TypeOK
    <3> QED
      BY <1>1, <1>2, <1>3, <2>1, <2>4, <3>1, <3>2, LinearKept DEF Begun
  <2> QED
    BY <2>3, <2>4
<1>6. CASE CandidateReq(n) \/ TimeoutVote(n)
  <2>1. UNCHANGED <<seq, cand, stage>>
    <3>1. CASE TimeoutVote(n)
      <4>1. PICK t \in timeouts : Tally(n, t.vote, mode[n])
        BY <3>1 DEF TimeoutVote
      <4>2. t.vote \in Ballot /\ mode[n] \in Modes
        BY DEF IInv, TypeOK
      <4> QED
        BY <3>1, <4>1, <4>2, TallyInFirstView DEF IInv, TimeoutVote, round
    <3> QED
      BY <1>6, <3>1 DEF CandidateReq, node, round
  <2>2. \A x \in Node \ {0} : stage'[x] \notin {"collect", "propose"}
    BY <2>1 DEF Linear, OneProposer
  <2> QED
    BY <1>1, <1>2, <1>3, <2>1, <2>2, LinearKept
<1> QED
  BY <1>4, <1>5, <1>6

\* The leader decides its own proposal: there is no other one of its sequence number.
LEMMA DecidedLinear ==
  ASSUME IInv, Linear, TypeOK', NEW n \in Node, Decided(n),
         UNCHANGED newView, \A x \in Node : mode'[x] # "newView"
  PROVE  Linear'
<1> USE FirstLeader
<1>1. UNCHANGED <<chain, cand, clock, seq>> /\ stage[n] = "commit"
  BY DEF Decided, position
<1>2. PICK m \in msgs :
        /\ m.type = "commit" /\ m.digest.seq = seq[n]
        /\ dec' = [dec EXCEPT ![n] = m.digest]
        /\ IF Extends(n, m.digest)
             THEN /\ EnterStage(n, IF m.digest = cand[n] THEN "process"
                                                         ELSE "fetchCandidate")
                  /\ UNCHANGED msgs
             ELSE RunViewChangeForConsensusFail(n)
  BY DEF Decided
<1>3. m.digest \in Proposed
  BY <1>2 DEF IInv, Known
<1>4. Proposed' = Proposed
  <2>1. FailMsg(n, PositionAt(n, view[n])).type # "prePrepare"
    BY DEF FailMsg
  <2> QED
    BY <1>2, <2>1, ProposedUnchanged DEF RunViewChangeForConsensusFail, Broadcast
<1>5. \E s \in {"process", "fetchCandidate", "consensusFail"} : stage' = [stage EXCEPT ![n] = s]
  BY <1>2 DEF EnterStage, RunViewChangeForConsensusFail
<1>6. seq[0] \in Nat /\ stage[0] # "fetchCandidate"
  BY DEF IInv, TypeOK, Linear, Pending
<1>7. CASE n # 0
  <2>1. stage'[0] = stage[0] /\ dec'[0] = dec[0]
    BY <1>2, <1>5, <1>7 DEF IInv, TypeOK
  <2>2. \A x \in Node \ {0} : stage'[x] \notin {"collect", "propose"}
    BY <1>5 DEF Linear, OneProposer, IInv, TypeOK
  <2>3. stage[0] = "process" => dec[0] = cand[0]
    BY DEF Linear, Pending, Begun
  <2> QED
    BY <1>1, <1>4, <1>6, <2>1, <2>2, <2>3, LinearKept
<1>8. CASE n = 0
  <2>1. cand[0] \in Proposed /\ cand[0].seq = seq[0] /\ cand[0].parent = Hash(0)
    BY <1>1, <1>8 DEF Linear, Pending, Begun
  <2>2. m.digest = cand[0]
    BY <1>2, <1>3, <1>8, <2>1 DEF Linear, OneProposer
  <2>3. stage' = [stage EXCEPT ![0] = "process"]
    BY <1>2, <1>8, <2>1, <2>2 DEF Extends, EnterStage
  <2>4. dec'[0] = cand[0] /\ stage'[0] = "process"
    BY <1>2, <1>8, <2>2, <2>3 DEF IInv, TypeOK
  <2>5. \A x \in Node \ {0} : stage'[x] \notin {"collect", "propose"}
    BY <2>3 DEF Linear, OneProposer, IInv, TypeOK
  <2> QED
    BY <1>1, <1>4, <1>6, <1>8, <2>4, <2>5, LinearKept DEF Begun
<1> QED
  BY <1>7, <1>8

\* Every step that is possible in the first view keeps the one chain.
LEMMA LinearStep ==
  ASSUME IInv, Linear, TypeOK', NEW n \in Node, Steady(n), view[n] = 0, view'[n] = 0
  PROVE  Linear'
<1>1. UNCHANGED newView /\ \A x \in Node : mode'[x] # "newView"
  BY SteadyEffect DEF Linear, Calm, IInv, TypeOK
<1> QED
  BY <1>1, BeginLinear, RoundLinear, ProposeLinear, DecidedLinear, ProcessedLinear DEF Steady

\* So does every step, as long as the first view lasts.
LEMMA ForkStep == ASSUME IInv, ForkInv, Next PROVE ForkInv'
<1>1. NoSync'
  BY NoSyncStep DEF IInv, ForkInv
<1>2. ASSUME FirstView' PROVE Linear'
  <2>1. FirstView /\ \E n \in Node : Steady(n)
    BY <1>2, FirstViewSteps DEF IInv, ForkInv
  <2>2. Linear /\ TypeOK'
    BY <2>1, InvStep DEF ForkInv, IInv
  <2>3. \A n \in Node : view[n] = 0 /\ view'[n] = 0
    BY <1>2, <2>1 DEF FirstView
  <2> QED
    BY <2>1, <2>2, <2>3, LinearStep
<1> QED
  BY <1>1, <1>2 DEF ForkInv

\* In the first view, and while no wait fails, the leader makes one chain and every node
\* holds a beginning of it, however many rounds it misses.
THEOREM FirstViewSafety == Spec => []NoForkInView
<1>2. Init => ForkInv
  <2> SUFFICES ASSUME Init PROVE ForkInv
    OBVIOUS
  <2>1. Proposed = {} /\ Future = <<>> /\ \A n \in Node : chain[n] = <<>>
    BY FirstLeader DEF Init, Proposed, Future, Begun
  <2>2. Calm /\ OneProposer /\ Pending /\ NothingSkipped
    BY <2>1, FirstLeader DEF Init, Calm, OneProposer, Pending, Begun, NothingSkipped
  <2>3. Ordered /\ Prefixes
    BY <2>1 DEF Ordered, Rising, Prefixes, Begins
  <2> QED
    BY <2>2, <2>3 DEF Init, ForkInv, NoSync, Linear
<1>3. IInv /\ ForkInv /\ [Next]_vars => ForkInv'
  <2>1. ASSUME ForkInv, UNCHANGED vars PROVE ForkInv'
    <3>1. UNCHANGED <<view, seq, chain, mode, stage, cand, dec, newView, msgs, clock, expired>>
      BY <2>1 DEF vars, node, round, change, net
    <3>2. Proposed' = Proposed /\ Future' = Future
      BY <3>1 DEF Proposed, Future
    <3>3. FirstView' = FirstView /\ (NoSync => NoSync')
      BY <3>1 DEF FirstView, NoSync
    <3>4. Linear => Calm' /\ OneProposer' /\ Pending'
      BY <3>1, <3>2 DEF Linear, Calm, OneProposer, Pending, Hash
    <3>5. Linear => NothingSkipped' /\ Ordered' /\ Prefixes'
      BY <3>1, <3>2 DEF Linear, NothingSkipped, Ordered, Prefixes
    <3> QED
      BY <2>1, <3>3, <3>4, <3>5 DEF ForkInv, Linear
  <2> QED
    BY <2>1, ForkStep
<1>4. ForkInv => NoForkInView
  <2> SUFFICES ASSUME ForkInv, FirstView, NEW m \in Node, NEW n \in Node,
                      NEW i \in 1 .. Len(chain[m]), i <= Len(chain[n])
               PROVE  chain[m][i] = chain[n][i]
    BY DEF NoForkInView, FirstView
  <2>1. Begins(chain[m], Future) /\ Begins(chain[n], Future)
    BY DEF ForkInv, Linear, Prefixes
  <2> QED
    BY <2>1 DEF Begins
<1> QED
  BY <1>2, <1>3, <1>4, Invariance, PTL DEF Spec
=============================================================================
