------------------------------ MODULE MCRound -------------------------------
(* Ripple from states inside a round, which let TLC look further into what   *)
(* restarts, failed waits and view changes do to it.  Every Init below is a  *)
(* state Ripple reaches, but for the messages and failed waits before it.    *)
EXTENDS MCRipple

\* The proposals of the first sequence number of view v
FirstBlock(v)  == [seq |-> LowWaterLine(v) + 1, view |-> v, parent |-> 0,
                   ts |-> 1, full |-> TRUE]
SecondBlock(v) == [FirstBlock(v) EXCEPT !.ts = 2]

\* All nodes in view v, node n in stage s[n] with the digests c[n], q[n] and d[n];
\* no later view is entered from view MaxView.
RoundInit(v, s, c, q, d, sent, now) ==
    LET first == LowWaterLine(v) + 1
    IN  /\ view = [n \in Node |-> v]
        /\ seq = [n \in Node |-> first]
        /\ chain = [n \in Node |-> <<>>]
        /\ mode = [n \in Node |-> "consensus"]
        /\ stage = s
        /\ cand = c
        /\ cons = q
        /\ dec = d
        /\ ballots = [n \in Node |-> {}]
        /\ newView = [n \in Node |-> FALSE]
        /\ tries = [n \in Node |-> 0]
        /\ answers = [n \in Node |-> {}]
        /\ msgs = {AmalgamateMsg(Leader(v), first),
                   PrePrepareMsg(Leader(v), FirstBlock(v))} \cup sent
        /\ timeouts = {}
        /\ clock = now
        /\ expired = 0

All(x) == [n \in Node |-> x]
Last == N - 1
Prepares(S, d) == {PrepareMsg(n, d) : n \in S}
Commits(S, d)  == {CommitMsg(n, d) : n \in S}

\* The leader has restarted and proposed again: the last node has its first
\* proposal, the others have sent their COMMIT of the second
DivergedInit ==
    LET v == MaxView
        others == Node \ {Last}
    IN  RoundInit(v,
            [All("commit") EXCEPT ![Last] = "prepare"],
            [All(SecondBlock(v)) EXCEPT ![Last] = FirstBlock(v)],
            [All(SecondBlock(v)) EXCEPT ![Last] = NoDigest], All(NoDigest),
            {PrePrepareMsg(Leader(v), SecondBlock(v))}
                \cup Prepares({Leader(v), Last}, FirstBlock(v))
                \cup Prepares(others, SecondBlock(v))
                \cup Commits(others, SecondBlock(v)), 2)

\* The leader has restarted between the answers of node 0 and the first follower
\* and the arrival of its first proposal at node 0: half of the nodes commit to
\* that proposal, the other half has the second one
SplitInit ==
    LET v == MaxView
        early == Node \ {Leader(v), Leader(v) + 1}
    IN  RoundInit(v,
            [n \in Node |-> CASE n \in early -> "commit" [] n = Leader(v) -> "prepare"
                              [] OTHER -> "prePrepare"],
            [n \in Node |-> CASE n \in early -> FirstBlock(v) [] n = Leader(v) -> SecondBlock(v)
                              [] OTHER -> NoDigest],
            [n \in Node |-> IF n \in early THEN FirstBlock(v) ELSE NoDigest], All(NoDigest),
            {PrePrepareMsg(Leader(v), SecondBlock(v)), PrepareMsg(Leader(v), SecondBlock(v))}
                \cup Prepares(early \cup {Leader(v)}, FirstBlock(v))
                \cup Commits(early, FirstBlock(v)), 2)

Prepared0 == Prepares(Node, FirstBlock(0))
Decided0  == Prepared0 \cup Commits(Node, FirstBlock(0))

\* All nodes have sent their COMMIT, none has collected a quorum of them
CommittedInit ==
    RoundInit(0, All("commit"), All(FirstBlock(0)), All(FirstBlock(0)), All(NoDigest),
              Decided0, 1)

\* All nodes are about to process the decided block
DecidedInit ==
    RoundInit(0, All("process"), All(FirstBlock(0)), All(FirstBlock(0)),
              All(FirstBlock(0)), Decided0, MaxClock)

\* All nodes have failed to decide the block
FailedInit ==
    RoundInit(0, All("consensusFail"), All(FirstBlock(0)), All(FirstBlock(0)),
              All(NoDigest),
              Prepared0 \cup {FailMsg(n, [view |-> 0, seq |-> 1, parent |-> 0]) : n \in Node},
              MaxClock)

InsideInit == DivergedInit \/ SplitInit \/ DecidedInit \/ FailedInit

InsideSpec    == InsideInit /\ [][Next \/ Halt]_vars
CommittedSpec == CommittedInit /\ [][Next \/ Halt]_vars
DecidedSpec   == DecidedInit /\ [][Next \/ Halt]_vars
=============================================================================
