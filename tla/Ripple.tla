------------------------------- MODULE Ripple -------------------------------
(***************************************************************************)
(* The consensus of consensus_full_server/ripple, all nodes together: the  *)
(* stages amalgamate, prePrepare, prepare, ready and commit of a round,    *)
(* the processing of the decided block, the view change after a failed     *)
(* consensus, the view change after a timeout with its new-view exchange,  *)
(* and the synchronisation of the block chain and of the process state.    *)
(*                                                                         *)
(* Abstractions.                                                           *)
(*  - A broadcast is a message added to msgs and never removed: it may     *)
(*    reach each node at any later time, again, or never, in any order:    *)
(*    more than a connection allows, which a safety property only gains    *)
(*    from.                                                                *)
(*  - A voting stage succeeds in one step, when a quorum of matching votes *)
(*    is among the messages sent, however they were collected.  It fails   *)
(*    in one step, by its timer or because all nodes answered without a    *)
(*    quorum: both run the same handler.                                   *)
(*  - A timer may expire at any time while it runs.                        *)
(*  - sha256 has no collisions and two proposals have different            *)
(*    timestamps (the counter clock), so a block's hash is its proposal's  *)
(*    timestamp.  A hash fixes the block's number.                         *)
(*  - Signatures are valid and senders are who they say they are.          *)
(*  - The database read of runNewConsensusRound is the step between        *)
(*    stage "new" and AmalgamateRun.                                       *)
(*  - The nodes begin together, after their first synchronisation.         *)
(***************************************************************************)
EXTENDS RippleQuorum, Sequences

CONSTANTS MaxView,    \* bound on views
          MaxClock,   \* bound on proposals
          MaxExpire,  \* bound on restarts and timers that end a wait in failure
          Restarting, \* the nodes that may restart
          Payloads    \* which proposals hold valid transactions: a subset of BOOLEAN

ASSUME BoundAssumption == /\ MaxView \in Nat
                          /\ MaxClock \in Nat
                          /\ MaxExpire \in Nat
                          /\ Restarting \subseteq Node
                          /\ Payloads \subseteq BOOLEAN

VARIABLES view, seq,  \* ripple.view, ripple.sequence
          chain,      \* the hashes of the node's blocks after genesis
          mode,       \* ripple.state, and "exit" after gentlyExitProcess
          stage,      \* ripple.stage with that stage's own state
          cand,       \* ripple.candidateDigest
          cons,       \* ripple.consensusCandidateDigest
          dec,        \* ripple.decidedCandidateDigest
          ballots,    \* viewChangeForTimeout.trimedViewChangesByAddress
          newView,    \* is the NewView stage processing
          tries,      \* newViewForInvalidSequenceTimes
          answers,    \* PROCESS_STATE_RES on their way to the node
          msgs,       \* broadcasts
          timeouts,   \* VIEW_CHANGE_FOR_TIMEOUT votes on their way
          clock,      \* Date.now()
          expired     \* such expiries, and restarts, so far

node == <<view, seq, chain, mode, stage>>
round == <<cand, cons, dec>>
change == <<ballots, newView, tries>>
net == <<answers, msgs, timeouts>>
vars == <<node, round, change, net, clock, expired>>

modeAndStage == <<mode, stage>>
position == <<view, seq>>

\* A CandidateDigest.  ts stands for the timestamp and the digest of the
\* transactions, parent for blockHash and number; full says that some of the
\* transactions is valid.  NoDigest is undefined.
NoDigest == [seq |-> 0, view |-> 0, parent |-> 0, ts |-> 0, full |-> FALSE]
Digest   == [seq : Nat, view : Nat, parent : Nat, ts : Nat, full : BOOLEAN]

\* ripple.hash, which fixes ripple.number; 0 is the genesis block
Hash(n) == IF chain[n] = <<>> THEN 0 ELSE chain[n][Len(chain[n])]

\* What a ViewChange and a PROCESS_STATE_RES say of their sender
Position == [view : Nat, seq : Nat, parent : Nat]
PositionWithoutBlock(n, v) == [view |-> v, seq |-> seq[n]]  \* mutant: no block hash
PositionAt(n, v) == [view |-> v, seq |-> seq[n], parent |-> Hash(n)]

AmalgamateMsg(n, s)  == [type |-> "amalgamate", from |-> n, seq |-> s]
PrePrepareMsg(n, d)  == [type |-> "prePrepare", from |-> n, digest |-> d]
PrepareMsg(n, d)     == [type |-> "prepare", from |-> n, digest |-> d]
CommitMsg(n, d)      == [type |-> "commit", from |-> n, digest |-> d]
CandidateMsg(n, d)   == [type |-> "candidate", from |-> n, digest |-> d]
FailMsg(n, p)        == [type |-> "consensusFail", from |-> n, position |-> p]
NewViewMsg(n, p)     == [type |-> "newView", from |-> n, position |-> p]

Ballot == [from : Node, position : Position]

\* The votes that say the same as b
SamePosition(B, b) == {x \in B : x.position = b.position}

Broadcast(m) == msgs' = msgs \cup {m}

Init ==
    /\ view = [n \in Node |-> 0]
    /\ seq = [n \in Node |-> 0]
    /\ chain = [n \in Node |-> <<>>]
    /\ mode = [n \in Node |-> "consensus"]
    /\ stage = [n \in Node |-> "new"]
    /\ cand = [n \in Node |-> NoDigest]
    /\ cons = [n \in Node |-> NoDigest]
    /\ dec = [n \in Node |-> NoDigest]
    /\ ballots = [n \in Node |-> {}]
    /\ newView = [n \in Node |-> FALSE]
    /\ tries = [n \in Node |-> 0]
    /\ answers = [n \in Node |-> {}]
    /\ msgs = {}
    /\ timeouts = {}
    /\ clock = 0
    /\ expired = 0
-----------------------------------------------------------------------------
(* Steps shared by several handlers *)

Goto(n, m, s) ==
    /\ mode' = [mode EXCEPT ![n] = m]
    /\ stage' = [stage EXCEPT ![n] = s]

EnterStage(n, s) ==
    /\ stage' = [stage EXCEPT ![n] = s]
    /\ UNCHANGED mode

MoveTo(n, v, s) ==
    /\ view' = [view EXCEPT ![n] = v]
    /\ seq' = [seq EXCEPT ![n] = s]

EnterViewSequenceFirst(n, v) ==  \* mutant: sequence assigned before view
    v <= MaxView /\ MoveTo(n, v, LowWaterLine(view[n]))

\* View v from its first sequence on
EnterView(n, v) == v <= MaxView /\ MoveTo(n, v, LowWaterLine(v))

SameView(p) == p.view  \* mutant: addn(1) forgotten

\* The view that votes saying p lead to
NextView(p) == p.view + 1

\* One of the timers whose expiry ends a wait in failure
Expire == expired < MaxExpire /\ expired' = expired + 1

\* runNewConsensusRound: s is "new", or "processed" when ripple.stage is still
\* PROCESS_CONSENSUS_CANDIDATE.  amalgamate.run follows when the node list is
\* read; a second round begun before it runs leaves two runs pending.
RunNewConsensusRound(n, s) ==
    /\ cand' = [cand EXCEPT ![n] = NoDigest]
    /\ cons' = [cons EXCEPT ![n] = NoDigest]
    /\ dec' = [dec EXCEPT ![n] = NoDigest]
    /\ tries' = [tries EXCEPT ![n] = 0]
    /\ Goto(n, "consensus",
            IF stage[n] \in {"new", "newTwice"} THEN "newTwice" ELSE s)

\* viewChangeForTimeout.validateAndProcessExchangeData, with its handler and
\* newView.run when the vote completes a quorum; mode m otherwise.
Tally(n, b, m) ==
    LET latest  == {x \in ballots[n] : x.from # b.from} \cup {b}
        reached == {x.from : x \in SamePosition(latest, b)} \in Quorum
    IN  /\ ballots' = [ballots EXCEPT ![n] = latest]
        /\ IF reached THEN EnterView(n, NextView(b.position))
                      ELSE UNCHANGED position
        /\ IF reached /\ ~newView[n]
             THEN /\ newView' = [newView EXCEPT ![n] = TRUE]
                  /\ mode' = [mode EXCEPT ![n] = "newView"]
                  /\ Broadcast(NewViewMsg(n, b.position))
             ELSE /\ mode' = [mode EXCEPT ![n] = m]
                  /\ UNCHANGED <<newView, msgs>>

\* viewChangeForTimeout.run(v) in mode "consensus": vote for the leader of the
\* view after v; mode m unless the vote is its own and completes a quorum.
VoteForNextView(n, v, m) ==
    LET b == [from |-> n, position |-> PositionAt(n, v)]
    IN  IF Leader(v + 1) = n
          THEN Tally(n, b, m) /\ UNCHANGED timeouts
          ELSE /\ timeouts' = timeouts \cup {[to |-> Leader(v + 1), vote |-> b]}
               /\ mode' = [mode EXCEPT ![n] = m]
               /\ UNCHANGED <<ballots, position, newView, msgs>>

\* viewChangeForConsensusFail.run
RunViewChangeForConsensusFail(n) ==
    /\ EnterStage(n, "consensusFail")
    /\ Broadcast(FailMsg(n, PositionAt(n, view[n])))
-----------------------------------------------------------------------------
(* The round *)

\* amalgamate.run.  At the high water line the node votes for the next view
\* and waits for it; otherwise the leader takes the next sequence number and
\* asks for candidates (stage "collect" stands for its amalgamate, "propose" for
\* its prePrepare); a follower waits for the request with the leader timer.
AmalgamateRun(n) ==
    /\ stage[n] \in {"new", "processed", "newTwice"}
    /\ mode[n] \in {"consensus", "newView"}
    /\ IF stage[n] = "newTwice"
         THEN /\ Goto(n, "exit", "amalgamate")  \* logger.fatal: state is not EMPTY
              /\ UNCHANGED <<position, ballots, newView, msgs, timeouts>>
         ELSE IF seq[n] >= HighWaterLine(view[n])
         THEN /\ stage' = [stage EXCEPT ![n] = "waitView"]
              /\ IF mode[n] = "newView"
                   THEN UNCHANGED <<position, mode, ballots, newView, msgs, timeouts>>
                   ELSE VoteForNextView(n, view[n], mode[n])
         ELSE /\ IF Leader(view[n]) = n
                   THEN /\ EnterStage(n, "collect")
                        /\ MoveTo(n, view[n], seq[n] + 1)
                        /\ Broadcast(AmalgamateMsg(n, seq[n] + 1))
                   ELSE EnterStage(n, "amalgamate") /\ UNCHANGED <<position, msgs>>
              /\ UNCHANGED <<ballots, newView, timeouts>>
    /\ UNCHANGED <<chain, round, tries, answers, clock, expired>>

AmalgamateReqKeepsSequence(n) ==  \* mutant: the sequence is not taken over
    /\ mode[n] = "consensus" /\ stage[n] = "amalgamate"
    /\ Leader(view[n]) # n
    /\ \E m \in msgs : m.type = "amalgamate" /\ m.from = Leader(view[n]) /\ m.seq > seq[n]
    /\ EnterStage(n, "prePrepare")
    /\ UNCHANGED <<position, chain, round, change, net, clock, expired>>

\* amalgamate.handleMessage of a request by the leader of the node's own view:
\* the sequence number is checked, the request's view, hash and number are not.
AmalgamateReq(n) ==
    /\ mode[n] = "consensus" /\ stage[n] = "amalgamate"
    /\ Leader(view[n]) # n
    /\ \E m \in msgs :
         /\ m.type = "amalgamate" /\ m.from = Leader(view[n])
         /\ m.seq > seq[n]
         /\ MoveTo(n, view[n], m.seq)
    /\ EnterStage(n, "prePrepare")
    /\ UNCHANGED <<chain, round, change, net, clock, expired>>

\* amalgamate.handler and prePrepare.run of the leader, once all candidates are
\* in or the timer has expired, which also runs in state NEW_VIEW: it proposes a
\* block on its own chain.  It still leads: the only view change that leaves the
\* stage alone, Tally, is to a view the node leads.
Propose(n) ==
    /\ mode[n] \in {"consensus", "newView"} /\ stage[n] = "collect"
    /\ clock < MaxClock
    /\ clock' = clock + 1
    /\ \E full \in Payloads :
         LET d == [seq |-> seq[n], view |-> view[n], parent |-> Hash(n),
                   ts |-> clock + 1, full |-> full]
         IN  /\ cand' = [cand EXCEPT ![n] = d]
             /\ Broadcast(PrePrepareMsg(n, d))
    /\ EnterStage(n, "propose")
    /\ UNCHANGED <<position, chain, cons, dec, change, answers, timeouts, expired>>

\* prePrepare.handleMessage of the proposal, and prepare.run
PrePrepareReq(n) ==
    /\ mode[n] = "consensus" /\ stage[n] = "prePrepare"
    /\ Leader(view[n]) # n
    /\ \E m \in msgs :
         /\ m.type = "prePrepare" /\ m.from = Leader(view[n])
         /\ m.digest.seq = seq[n]
         /\ cand' = [cand EXCEPT ![n] = m.digest]
         /\ Broadcast(PrepareMsg(n, m.digest))
    /\ EnterStage(n, "prepare")
    /\ UNCHANGED <<position, chain, cons, dec, change, answers, timeouts, clock, expired>>

\* prePrepare.handler of the leader, once all nodes answered or its timer has
\* expired, and prepare.run
LeaderPrepare(n) ==
    /\ mode[n] \in {"consensus", "newView"} /\ stage[n] = "propose"
    /\ EnterStage(n, "prepare")
    /\ Broadcast(PrepareMsg(n, cand[n]))
    /\ UNCHANGED <<position, chain, round, change, answers, timeouts, clock, expired>>

\* The nodes whose vote for d, or p, has been sent
Preparers(d)  == {q \in Node : PrepareMsg(q, d) \in msgs}
Committers(d) == {q \in Node : CommitMsg(q, d) \in msgs}
FailVoters(p) == {q \in Node : FailMsg(q, p) \in msgs}

AgreedByWeakQuorum(n, voters, own, d) ==  \* mutant: the smaller threshold
    \E Q \in WeakQuorum : Q \subseteq voters /\ (n \in Q => d = own)

\* The voting of a ConsensusStage: a quorum of voters for d, node n's vote being own
Agreed(n, voters, own, d) ==
    \E Q \in Quorum : Q \subseteq voters /\ (n \in Q => d = own)

\* prepare.handler(STAGE_FINISH_SUCCESS), and ready.run
Prepared(n) ==
    /\ mode[n] = "consensus" /\ stage[n] = "prepare"
    /\ \E m \in msgs :
         /\ m.type = "prepare" /\ m.digest.seq = seq[n]
         /\ Agreed(n, Preparers(m.digest), cand[n], m.digest)
         /\ cons' = [cons EXCEPT ![n] = m.digest]
    /\ EnterStage(n, "ready")
    /\ UNCHANGED <<position, chain, cand, dec, change, net, clock, expired>>

NotPreparedKeepsOwn(n) ==  \* mutant: the own candidate taken without a quorum
    /\ mode[n] \in {"consensus", "newView"} /\ stage[n] = "prepare"
    /\ Expire
    /\ cons' = [cons EXCEPT ![n] = cand[n]]
    /\ EnterStage(n, "ready")
    /\ UNCHANGED <<position, chain, cand, dec, change, net, clock>>

\* prepare.handler without a quorum, and ready.run
NotPrepared(n) ==
    /\ mode[n] \in {"consensus", "newView"} /\ stage[n] = "prepare"
    /\ Expire
    /\ EnterStage(n, "ready")
    /\ UNCHANGED <<position, chain, round, change, net, clock>>

\* ready.handler and commit.run.  No READY of another node is ever handed to
\* the stage, so the node's own digest, if any, is all it can end with.
ReadyDone(n) ==
    /\ mode[n] \in {"consensus", "newView"} /\ stage[n] = "ready"
    /\ EnterStage(n, "commit")
    /\ IF cons[n] # NoDigest THEN Broadcast(CommitMsg(n, cons[n]))
                             ELSE UNCHANGED msgs
    /\ UNCHANGED <<position, chain, round, change, answers, timeouts, clock, expired>>

ExtendsUnchecked(n, d) == TRUE  \* mutant: the comparison dropped

\* commit.handler's comparison of hash and number
Extends(n, d) == d.parent = Hash(n)

\* commit.handler(STAGE_FINISH_SUCCESS): the decided block is processed when it
\* extends the node's chain and is the node's own candidate, fetched when it is
\* another one; a block that does not extend the chain is a failed consensus.
Decided(n) ==
    /\ mode[n] = "consensus" /\ stage[n] = "commit"
    /\ \E m \in msgs :
         /\ m.type = "commit" /\ m.digest.seq = seq[n]
         /\ Agreed(n, Committers(m.digest), cons[n], m.digest)
         /\ dec' = [dec EXCEPT ![n] = m.digest]
         /\ IF Extends(n, m.digest)
              THEN /\ EnterStage(n, IF m.digest = cand[n] THEN "process"
                                                          ELSE "fetchCandidate")
                   /\ UNCHANGED msgs
              ELSE RunViewChangeForConsensusFail(n)
    /\ UNCHANGED <<position, chain, cand, cons, change, answers, timeouts, clock, expired>>

\* commit.handler without a quorum
NotDecided(n) ==
    /\ mode[n] \in {"consensus", "newView"} /\ stage[n] = "commit"
    /\ Expire
    /\ RunViewChangeForConsensusFail(n)
    /\ UNCHANGED <<position, chain, round, change, answers, timeouts, clock>>

\* fetchConsensusCandidate.handleMessage of a request for the candidate d
CandidateReq(n) ==
    /\ mode[n] = "consensus"
    /\ cand[n] # NoDigest /\ cand[n].seq = seq[n]
    /\ \E m \in Node \ {n} : stage[m] = "fetchCandidate" /\ dec[m] = cand[n]
    /\ Broadcast(CandidateMsg(n, cand[n]))
    /\ UNCHANGED <<node, round, change, answers, timeouts, clock, expired>>

\* fetchConsensusCandidate.handleMessage of the answer
CandidateRes(n) ==
    /\ mode[n] = "consensus" /\ stage[n] = "fetchCandidate"
    /\ \E m \in msgs : m.type = "candidate" /\ m.from # n /\ m.digest = dec[n]
    /\ EnterStage(n, "process")
    /\ UNCHANGED <<position, chain, round, change, net, clock, expired>>

\* processConsensusCandidate once processBlock has returned: without a valid
\* transaction the chain stays as it is.
Processed(n) ==
    /\ mode[n] \in {"consensus", "newView"} /\ stage[n] = "process"
    /\ chain' = IF dec[n].full THEN [chain EXCEPT ![n] = Append(@, dec[n].ts)]
                               ELSE chain
    /\ RunNewConsensusRound(n, "processed")
    /\ UNCHANGED <<position, ballots, newView, net, clock, expired>>
-----------------------------------------------------------------------------
(* View changes *)

\* The end of a view change: both view-change stages are reset, and a round
\* begins unless the node is still processing a block, in which case the round
\* that follows the block is to begin it.
LeaveViewChange(n, m) ==
    /\ ballots' = [ballots EXCEPT ![n] = {}]
    /\ newView' = [newView EXCEPT ![n] = FALSE]
    /\ IF stage[n] \notin {"process", "processed"}
         THEN RunNewConsensusRound(n, "new")
         ELSE /\ mode' = [mode EXCEPT ![n] = m]
              /\ UNCHANGED <<stage, round, tries>>

\* viewChangeForConsensusFail.handler(STAGE_FINISH_SUCCESS)
FailVoteSuccess(n) ==
    /\ mode[n] = "consensus" /\ stage[n] = "consensusFail"
    /\ \E m \in msgs :
         /\ m.type = "consensusFail" /\ m.position.seq = seq[n]
         /\ Agreed(n, FailVoters(m.position), PositionAt(n, view[n]), m.position)
         /\ EnterView(n, NextView(m.position))
    /\ LeaveViewChange(n, mode[n])
    /\ UNCHANGED <<chain, net, clock, expired>>

\* syncProcessState, after which the stage is not read until the next round.
\* The timer of a new view was started before the stage that now ends, and is
\* the shorter one.
SyncProcessState(n) ==
    /\ mode[n] = "consensus" /\ ~newView[n]
    /\ Expire
    /\ Goto(n, "fetchChain", "synced")

\* viewChangeForConsensusFail.handler without a quorum
FailVoteExpire(n) ==
    /\ stage[n] = "consensusFail"
    /\ SyncProcessState(n)
    /\ UNCHANGED <<position, chain, round, change, net, clock>>

\* fetchConsensusCandidate's timer
CandidateExpire(n) ==
    /\ stage[n] = "fetchCandidate"
    /\ SyncProcessState(n)
    /\ UNCHANGED <<position, chain, round, change, net, clock>>

\* The leader timer of a follower waiting for a request or for a proposal: it
\* votes for the next view, then synchronises unless it now leads that view.
LeaderExpire(n) ==
    /\ mode[n] = "consensus" /\ stage[n] \in {"amalgamate", "prePrepare"}
    /\ Leader(view[n]) # n
    /\ Expire
    /\ VoteForNextView(n, view[n], "fetchChain")
    /\ UNCHANGED <<chain, stage, round, tries, answers, clock>>

\* The same timer in a node left in state NEW_VIEW: the vote is all it does
LeaderExpireInNewView(n) ==
    /\ mode[n] = "newView" /\ stage[n] \in {"amalgamate", "prePrepare"}
    /\ Leader(view[n]) # n /\ Leader(view[n] + 1) # n
    /\ Expire
    /\ timeouts' = timeouts \cup
           {[to |-> Leader(view[n] + 1),
             vote |-> [from |-> n, position |-> PositionAt(n, view[n])]]}
    /\ UNCHANGED <<node, round, change, answers, msgs, clock>>

\* The timer of a node waiting for a new view: it votes for one view further
\* each time, and synchronises after as many votes as there are nodes.
InvalidSequenceExpire(n) ==
    /\ stage[n] = "waitView" /\ mode[n] = "consensus"
    /\ Expire
    /\ IF tries[n] >= N
         THEN /\ mode' = [mode EXCEPT ![n] = "fetchChain"]
              /\ UNCHANGED <<position, change, msgs, timeouts>>
         ELSE /\ tries' = [tries EXCEPT ![n] = @ + 1]
              /\ VoteForNextView(n, view[n] + tries[n] + 1, mode[n])
    /\ UNCHANGED <<chain, stage, round, answers, clock>>

\* viewChangeForTimeout.handleMessage
TimeoutVote(n) ==
    /\ mode[n] = "consensus"
    /\ \E t \in timeouts :
         /\ t.to = n
         /\ timeouts' = timeouts \ {t}
         /\ Tally(n, t.vote, mode[n])
    /\ UNCHANGED <<chain, stage, round, tries, answers, clock, expired>>

\* newView.handleMessage of a new view on the node's own block and sequence
\* number.  The answer to it only shortens the leader's wait.
NewViewReq(n) ==
    /\ mode[n] \in {"consensus", "newView"}
    /\ \E m \in msgs :
         /\ m.type = "newView" /\ m.from # n
         /\ m.position.parent = Hash(n)
         /\ NextView(m.position) > view[n]
         /\ m.position.seq = seq[n]
         /\ EnterView(n, NextView(m.position))
    /\ LeaveViewChange(n, "newView")
    /\ UNCHANGED <<chain, net, clock, expired>>

\* newView.handler, once all nodes answered or the timer has expired
NewViewDone(n) ==
    /\ mode[n] \in {"consensus", "newView"} /\ newView[n]
    /\ LeaveViewChange(n, mode[n])
    /\ UNCHANGED <<position, chain, net, clock, expired>>
-----------------------------------------------------------------------------
(* Synchronisation *)

\* How many of the nodes R have block b after the blocks node n has
Copies(n, R, b) == Cardinality({m \in R : chain[m][Len(chain[n]) + 1] = b})

\* FULL_BLOCK_CHAIN_UNL_SCALE_LIMIT: a network below it takes any block
ScaleLimit == 5

\* One turn of update.synchronize: the nodes R answer the query for the next
\* block and the most frequent answer is run, on its parent's state; when the
\* parent is not the node's latest block the node stops.
SyncBlock(n) ==
    /\ mode[n] = "fetchChain"
    /\ \E R \in SUBSET {m \in Node \ {n} : /\ mode[m] # "exit"
                                           /\ Len(chain[m]) > Len(chain[n])} :
       \E p \in R :
         LET b == chain[p][Len(chain[n]) + 1]
         IN  /\ \A q \in R : Copies(n, R, chain[q][Len(chain[n]) + 1]) <= Copies(n, R, b)
             /\ N < ScaleLimit \/ Copies(n, R, b) >= WeakThreshold
             /\ IF chain[n] = SubSeq(chain[p], 1, Len(chain[n]))
                  THEN /\ chain' = [chain EXCEPT ![n] = Append(@, b)]
                       /\ UNCHANGED mode
                  ELSE /\ mode' = [mode EXCEPT ![n] = "exit"]
                       /\ UNCHANGED chain
    /\ UNCHANGED <<position, stage, round, change, net, clock, expired>>

\* The end of update.synchronize, when no answer to the query for the next block
\* is good enough (or none comes), and fetchProcessState.run
SyncEnd(n) ==
    /\ mode[n] = "fetchChain"
    /\ Goto(n, "fetchState", "synced")
    /\ MoveTo(n, 0, 0)
    /\ UNCHANGED <<chain, round, change, net, clock, expired>>

\* fetchProcessState.handleMessage in node m, whatever m is doing once it has
\* read its own chain (ripple.hash is defined)
StateAnswer(m, n) ==
    /\ m # n /\ mode[m] # "exit" /\ stage[m] # "idle"
    /\ mode[n] = "fetchState"
    /\ LET a == [from |-> m, position |-> PositionAt(m, view[m])]
       IN  /\ a \notin answers[n]
           /\ answers' = [answers EXCEPT ![n] = {x \in @ : x.from # m} \cup {a}]
    /\ UNCHANGED <<node, round, change, msgs, timeouts, clock, expired>>

\* fetchProcessState.handler(STAGE_FINISH_SUCCESS): adopt the view and sequence
\* number a weak quorum has, and take part again when it has the node's block.
\* Without a quorum the handler asks again.  Answers it did not use stay in
\* msgBuffer and are read by a later synchronisation.
StateSuccess(n) ==
    /\ mode[n] = "fetchState"
    /\ \E a \in answers[n] :
         /\ {x.from : x \in SamePosition(answers[n], a)} \in WeakQuorum
         /\ MoveTo(n, a.position.view, a.position.seq)
         /\ IF a.position.parent = Hash(n)
              THEN RunNewConsensusRound(n, "new")
              ELSE /\ mode' = [mode EXCEPT ![n] = "fetchChain"]
                   /\ UNCHANGED <<stage, round, tries>>
         /\ answers' = [answers EXCEPT ![n] = @ \ SamePosition(@, a)]
    /\ UNCHANGED <<chain, ballots, newView, msgs, timeouts, clock, expired>>

\* The process ends and is started again: only the blocks are kept, and run
\* begins with syncProcessState
Restart(n) ==
    /\ n \in Restarting
    /\ Expire
    /\ Goto(n, "fetchChain", "idle")
    /\ MoveTo(n, 0, 0)
    /\ cand' = [cand EXCEPT ![n] = NoDigest]
    /\ cons' = [cons EXCEPT ![n] = NoDigest]
    /\ dec' = [dec EXCEPT ![n] = NoDigest]
    /\ ballots' = [ballots EXCEPT ![n] = {}]
    /\ newView' = [newView EXCEPT ![n] = FALSE]
    /\ tries' = [tries EXCEPT ![n] = 0]
    /\ answers' = [answers EXCEPT ![n] = {}]
    /\ UNCHANGED <<chain, msgs, timeouts, clock>>
-----------------------------------------------------------------------------
Next ==
    \E n \in Node :
        \/ AmalgamateRun(n) \/ AmalgamateReq(n) \/ Propose(n)
        \/ PrePrepareReq(n) \/ LeaderPrepare(n)
        \/ Prepared(n) \/ NotPrepared(n) \/ ReadyDone(n)
        \/ Decided(n) \/ NotDecided(n)
        \/ CandidateReq(n) \/ CandidateRes(n) \/ CandidateExpire(n)
        \/ Processed(n)
        \/ FailVoteSuccess(n) \/ FailVoteExpire(n)
        \/ LeaderExpire(n) \/ LeaderExpireInNewView(n) \/ InvalidSequenceExpire(n)
        \/ TimeoutVote(n) \/ NewViewReq(n) \/ NewViewDone(n)
        \/ SyncBlock(n) \/ SyncEnd(n) \/ StateSuccess(n)
        \/ \E m \in Node : StateAnswer(m, n)
        \/ Restart(n)

Spec == Init /\ [][Next]_vars

\* The steps of a round in which every stage succeeds.  The event loop polls
\* msgBuffer without end, a message of the node's sequence number waits there for
\* its stage, and each stage runs the next one.
RoundStep(n) ==
    \/ AmalgamateRun(n) \/ AmalgamateReq(n) \/ Propose(n)
    \/ PrePrepareReq(n) \/ LeaderPrepare(n)
    \/ Prepared(n) \/ ReadyDone(n) \/ Decided(n) \/ Processed(n)

Fairness == \A n \in Node : WF_vars(RoundStep(n))
-----------------------------------------------------------------------------
(* What must hold *)

Modes  == {"consensus", "newView", "fetchChain", "fetchState", "exit"}
Stages == {"idle", "new", "newTwice", "processed", "amalgamate", "collect",
           "waitView", "prePrepare", "propose", "prepare", "ready", "commit", "fetchCandidate",
           "process", "consensusFail", "synced"}

Message ==
         [type : {"amalgamate"}, from : Node, seq : Nat]
    \cup [type : {"prePrepare", "prepare", "commit", "candidate"},
          from : Node, digest : Digest]
    \cup [type : {"consensusFail", "newView"}, from : Node, position : Position]

\* The values the variables take.
TypeOK ==
    /\ view \in [Node -> Nat]
    /\ seq \in [Node -> Nat]
    /\ chain \in [Node -> Seq(Nat)]
    /\ mode \in [Node -> Modes]
    /\ stage \in [Node -> Stages]
    /\ cand \in [Node -> Digest]
    /\ cons \in [Node -> Digest]
    /\ dec \in [Node -> Digest]
    /\ ballots \in [Node -> SUBSET Ballot]
    /\ newView \in [Node -> BOOLEAN]
    /\ tries \in [Node -> Nat]
    /\ answers \in [Node -> SUBSET Ballot]
    /\ msgs \subseteq Message
    /\ timeouts \subseteq [to : Node, vote : Ballot]
    /\ clock \in Nat
    /\ expired \in Nat

\* A quorum of nodes has sent M(_, d)
Backed(M(_, _), d) == \E Q \in Quorum : \A q \in Q : M(q, d) \in msgs

\* The blocks decided so far, and the ledger they make with the chains: each
\* step of the protocol certifies a block, extends a chain by a certified block
\* that names the chain's last one as its predecessor, or does neither.  No view
\* change, restart or synchronisation takes anything back.
Certified ==
    {[id |-> d.ts, parent |-> d.parent] :
        d \in {c \in {m.digest : m \in {x \in msgs : x.type = "commit"}} :
                 Backed(CommitMsg, c)}}

L == INSTANCE Ledger WITH Id <- 1 .. MaxClock, certified <- Certified

ImplementsLedger == L!Spec

Parent(s, i) == IF i = 1 THEN 0 ELSE s[i - 1]

\* Every block a node holds, its own or one it copied from other nodes, is the
\* decision of a quorum about a block with exactly this predecessor.
BlocksCertified ==
    \A n \in Node : \A i \in 1 .. Len(chain[n]) :
        \E d \in {m.digest : m \in {x \in msgs : x.type = "commit"}} :
            /\ d.ts = chain[n][i]
            /\ d.parent = Parent(chain[n], i)
            /\ Backed(CommitMsg, d)

\* A node commits only to what a quorum has prepared, whatever view changes,
\* synchronisations and restarts happen between its stages.
CommitsPrepared ==
    \A m \in msgs : m.type = "commit" => Backed(PrepareMsg, m.digest)

\* A node in a round, and a node that would answer a synchronisation, is at or
\* above its view's low water line; amalgamate.run ends the process otherwise.
SequenceInView ==
    \A n \in Node : LowWaterLine(view[n]) <= seq[n]

\* A node that starts a new view is the leader of it; newView.run ends the
\* process otherwise.
NewViewLed ==
    /\ \A n \in Node : mode[n] = "newView" /\ newView[n] => Leader(view[n]) = n
    /\ \A m \in msgs : m.type = "newView" => Leader(m.position.view + 1) = m.from

\* A block is on two chains only with the same blocks before it.
SharedPast ==
    \A m, n \in Node :
        \A i \in 1 .. Len(chain[m]), j \in 1 .. Len(chain[n]) :
            chain[m][i] = chain[n][j] =>
                SubSeq(chain[m], 1, i) = SubSeq(chain[n], 1, j)

\* Two proposals of one sequence number of a view are not both decided while at
\* most one node has restarted or waited in vain, though a restarted leader
\* proposes a second time.  A node may commit twice to one sequence number, and
\* two quorums of four nodes have two in common.
OneDecision ==
    expired <= 1 =>
        \A c, d \in {m.digest : m \in {x \in msgs : x.type = "commit"}} :
            c.view = d.view /\ c.seq = d.seq /\ Backed(CommitMsg, c) /\ Backed(CommitMsg, d)
                => c = d

\* "consensus success / hash, number check failed(out of date) / try to sync"
\* (viewChangeForConsensusFail.js:90-92): a node that ends a round with a decided
\* block it cannot append is behind, and does not have that block's parent yet.
MismatchMeansOutOfDate ==
    \A n \in Node :
        stage[n] = "consensusFail" /\ dec[n] # NoDigest =>
            dec[n].parent \notin {0} \cup {chain[n][i] : i \in 1 .. Len(chain[n])}

\* "newView has begun, do not accept repeated view change message"
\* (viewChangeForTimeout.js:88-89): while a new view is under way the node counts
\* no vote and its sequence number is not set back to the view's first one.
NoRepeatedViewChange ==
    [][\A n \in Node : newView[n] /\ newView'[n] =>
           ballots'[n] = ballots[n] /\ seq'[n] >= seq[n]]_vars

\* "Amalgamate run, state should be EMPTY" ends the process (amalgamate.js:32-35):
\* no round is begun while the run of another one is still to come.
OneRunPending == \A n \in Node : stage[n] # "newTwice"

\* Progress within a view: while no wait fails, a proposal of valid transactions
\* that the leader makes below the high water line ends up on every chain.
\* At the high water line the view change that follows may overtake a slow node.
Progress ==
    \A t \in 1 .. MaxClock :
        (\E m \in msgs : /\ m.type = "prePrepare" /\ m.digest.ts = t /\ m.digest.full
                         /\ m.digest.seq < HighWaterLine(m.digest.view))
            ~> \A n \in Node : \E i \in 1 .. Len(chain[n]) : chain[n][i] = t

\* While no wait fails, no node restarts and no view ends, two nodes never hold
\* different blocks at one height, though a node may miss rounds that the others
\* complete.  It is the comparison of commit.handler that sees to it.
NoForkInView ==
    expired = 0 /\ (\A n \in Node : view[n] = 0) =>
        \A m, n \in Node :
            \A i \in 1 .. Len(chain[m]) :
                i <= Len(chain[n]) => chain[m][i] = chain[n][i]
=============================================================================
