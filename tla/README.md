# EasyBc in TLA+

EasyBc is a permissioned block chain in node.js. A fixed list of nodes (the
*unl*) collects transactions, agrees on one block after the other with a protocol
in the style of PBFT (`consensus_full_server/ripple`), runs the agreed block on a
Merkle trie (`depends/block_chain`) and serves it to light servers, parsers and
web applications.

This directory holds TLA+ modules that model the program, TLC configurations that
check them on small instances, and proofs for the TLA+ proof system. Paths below
are relative to `src/`; `ripple/` is `consensus_full_server/ripple/`.

    tlc -config ripple_three.cfg MCRipple     model-check a run
    tlapm Ripple_proofs.tla                   check the proofs of a module

## 1. The system

| component | state | operations | talks to |
|---|---|---|---|
| round: `ripple/index.js`, `ripple/stage`, `ripple/consensusStage` | view, sequence, latest hash and number, state, stage, candidate and digests, votes of each stage, timers, `msgBuffer` | amalgamate, prePrepare, prepare, ready, commit, fetchConsensusCandidate; `processConsensusCandidate`, `runNewConsensusRound` | all nodes by broadcast; processor; transaction pool |
| view changes: `ripple/abnormalStage` | votes by sender, NewView's state, leader timer, timer for an invalid sequence | votes on a failed consensus, votes after a timeout, new-view request and answer | the round it interrupts |
| synchronisation: `ripple/update.js`, `fetchProcessState.js` | chain, view and sequence to adopt | copy blocks by HTTP, ask for the process state | block chain; all nodes |
| processor: `consensus_full_server/processor` | flag, current block | `processBlock` | block execution, pool |
| transaction pool: `consensus_full_server/mysql` | pending transactions, flag | save, read and delete | processor, round |
| peer to peer: `consensus_full_server/p2p`, `depends/fly`, `p2p_proxy_server` | connections, handshake, chunk queue | connect, authorise, frame, send, reconnect | every message above |
| block execution: `depends/block_chain` | world state, receipts, cache, checkpoints | `runBlockChain`, `runBlock`, `runTx` | trie, contracts, databases |
| trie: `depends/merkle_patricia_tree` | nodes, checkpoints, task pool | get, put, del, checkpoint, commit, revert | database |
| contracts: `consensus_constracts` | per contract account | crowd funding, multi-signature, side chain, copyright, dynamic | accounts in the cache |
| light server: `consensus_light_server` | cross-chain payments, statistics | poll side chains, send payments | MySQL, full servers |
| parsers: `consensus_transaction_parser`, `consensus_log_parser` | parsed height | parse blocks and logs | MongoDB, MySQL |
| web and tools | none of the chain's | pages, monitoring, scripts | light servers |

What is hard in it, and what makes each part correct:

* **Consensus.** Each node is one event loop, but a stage's handler may run a tick
  later, timers fire between two messages, and `runNewConsensusRound`,
  `syncProcessState` and the processing of a block are chains of awaits during
  which view changes go on. Messages are delayed, dropped when they come in the
  wrong state, or kept in `msgBuffer` for later. Nodes restart with their blocks
  only. Correct means: a chain holds nothing but decided blocks in the order they
  were decided for, commits follow prepares, views and sequence numbers stay
  together, the fatal checks never fire, rounds end, chains do not fork.
* **Network.** Two nodes dial each other at the same moment, each asks the other for
  a signature, closing crosses with the handshake, sockets fill up. Correct means:
  nothing is dropped that was sent to a node that trusts the sender, a node holds one
  connection for an address, two nodes that list each other end up with one, and a node
  that an operator excludes stays out, although its record is overwritten at every
  connection by updates that nobody awaits, and read again at the next start.
* **Execution.** A block that fails half-way must leave no trace; contracts must
  not create or destroy balances; caches must be those of the right state root.
* **Trie.** The same content must have the same root whatever was written and deleted
  in between, commits of two tries go to one database node by node, and a crash in
  the middle may not cost a saved block its state.
* **Servers around it.** Several database writes without a transaction, notices that
  are sent once and may be lost, several servers that pay the same lock: nothing may
  be paid twice, or disappear, over a restart.

`PROJECT.json` lists the hazards by line, with the properties that cover them.

## 2. Plan

Order of the modules, the most important behaviour first.

1. `RippleQuorum`, `Ripple`, `Ledger`: the consensus of all nodes, the promise it
   implements, and their proofs. **Done.**
2. `Accounts`, `BlockRun`: block execution with checkpoints, cache, failing
   transactions, crashes and the contracts for crowd funding and multi-signature.
   **Done**, except that the atomic append `Ripple` assumes is not yet stated as an
   abstract specification.
3. `SideChain`, `CrossChain`: the side-chain contract and the way of a payment through
   parsers, light servers, transaction pool and blocks, with restarts. **Done.**
4. `Network`: connections, handshake, connection manager, node list, and their proofs.
   **Done**, without the mode in which all nodes are reached through a proxy.
5. `TrieNodes`, `Trie`, `SnapshotStore`: the Merkle trie on its nodes, checkpoints and
   commits on one database, and the promise they implement. **Done.**
6. `ConsensusStage`: one voting stage at one node with votes one at a time, the
   set of finished nodes, the timer and the pending handler; that READY votes are
   not dispatched. To prove: a stage succeeds at most once per round and only on a
   quorum. *Left.*
7. `RippleLoop`: the event loop of one node, with pending handlers, continuations
   of awaits, overlapping synchronisations and the node that stays in NEW_VIEW. *Left.*

Theorems left: `OneDecision` of two and of four nodes with a failed wait or a restart.
That of every other number of nodes, and of any number without one, is proved.

## 3. Modules

| module | content |
|---|---|
| `RippleQuorum` | thresholds, leader of a view, water lines |
| `Ledger` | abstract specification: blocks are certified, chains grow by certified blocks |
| `Ripple` | all nodes: rounds, view changes, synchronisation, restart |
| `MCRipple` | `Ripple` for TLC, with leave to halt at a bound |
| `MCRound` | `Ripple` from states in the middle of a round |
| `MCFair` | `Ripple` under fairness |
| `Accounts` | accounts, the two contracts, one transaction (`runTx`): operators only |
| `BlockRun` | one node's block execution, with retries, crashes and the blocks `Update` adds |
| `MCBlockRun` | `BlockRun` for TLC: users, contracts, transactions |
| `SideChain` | the side-chain contract: votes on authorities, requests for payment; operators only |
| `CrossChain` | a lock on one chain, its parsers, the light and full servers of the paying chain |
| `MCCrossChain` | `CrossChain` for TLC: four situations |
| `TrieNodes` | nodes of a Merkle trie; get, put, del, prove and verifyProof as operators |
| `SnapshotStore` | abstract specification: maps with nested transactions and durable snapshots |
| `Trie` | checkpointed tries of one node over its database, with crashes |
| `MCTrie` | `Trie` for TLC: five kinds of behaviours |
| `Network` | connections of all nodes: dialling, handshake, manager, node list, faults |
| `MCNetwork` | `Network` for TLC: four kinds of behaviours |
| `Recursion_proofs` | induction over numbers and finite sets, functions defined by recursion |
| `Ledger_proofs`, `Ripple_proofs`, `RippleDecision_proofs` | proofs about `Ledger` and `Ripple` |
| `Accounts_proofs`, `BlockRun_proofs` | proofs about transactions and block execution |
| `CrossChain_proofs`, `Network_proofs` | proofs about `CrossChain` and `Network` |

### Ripple and the code

Every variable is a function of the node, except the network.

| variable | code |
|---|---|
| `view`, `seq` | `ripple.view`, `ripple.sequence` |
| `chain` | the blocks below `ripple.hash` / `ripple.number` |
| `mode` | `ripple.state`; "exit" after `gentlyExitProcess` |
| `stage` | `ripple.stage` with the state of that stage (below) |
| `cand`, `cons`, `dec` | `candidateDigest`, `consensusCandidateDigest`, `decidedCandidateDigest` |
| `ballots` | `viewChangeForTimeout.trimedViewChangesByAddress` |
| `newView` | `newView.state` is PROCESSING |
| `tries` | `newViewForInvalidSequenceTimes` |
| `msgs`, `timeouts`, `answers` | broadcasts; VIEW_CHANGE_FOR_TIMEOUT votes; PROCESS_STATE_RES |
| `clock`, `expired` | proposals made; failed waits and restarts, both for the bounds |

`stage` is "new" while the node list of a new round is read (`index.js:473`),
"newTwice" when that happens twice, "processed" when `ripple.stage` still says that
a block is processed meanwhile; "collect" and "propose" are the leader's amalgamate
and prePrepare, "amalgamate" and "prePrepare" a follower's; "waitView" is a node at
the high water line; "synced" and "idle" are a node in or after a synchronisation
and a restart.

An action is a whole handler with everything it calls: `Decided` is
`commit.handler` with `fetchConsensusCandidate.run`, `processConsensusCandidate` up
to its first await or `viewChangeForConsensusFail.run`; `Tally` is
`validateAndProcessExchangeData` with the handler, the new view and sequence number
and `newView.run`. `map` of `PROJECT.json` gives the lines of each definition.

What is abstracted:

* A block's hash is the timestamp of its proposal; timestamps differ. A proposal is
  `full` when one of its transactions is valid; other blocks leave the chain alone.
* Broadcasts stay in `msgs` and may be received late, again or never. That is more
  than the connections do; what holds here holds with fewer deliveries. The
  violation runs do not rest on a second delivery: their traces take each message
  at most once per node.
* A voting stage succeeds in one step, when a quorum of equal votes was sent, and
  fails in one step by its timer. Senders are authenticated and follow the protocol.
* One synchronisation at a time per node; the nodes start together.
* `READY` always ends by its timer or its votes with the same effect, so it is one
  step.

### Ledger

Two variables: the certified blocks, each with one predecessor for ever, and the
chains. `Certify` adds a block, `Extend` appends one to a chain that ends with its
predecessor. `Ripple` implements it with the digests a quorum has committed to as the
certified blocks. The ledger does not promise that two nodes never extend the same
block differently, because the code does not keep that across views (section 6).

### BlockRun and the code

| variable | code |
|---|---|
| `chain` | the blocks in `blockDb`: transactions, time, state root, receipt root |
| `disk`, `receiptDisk` | the roots whose nodes `mptDb` and `receiptMptDb` hold |
| `phase`, `block`, `next`, `failed` | where `processBlock` is, its block, the loop index and `failedTransactions` of `runBlock` |
| `root`, `cache` | `stateManager.trie` and `stateManager.cache` of the processor's `BlockChain` |
| `receipts`, `checkpoints` | root and open checkpoints of `receiptManager.trie` |
| `tainted` | history only: a pass of this block began with stale accounts in the cache |

`StartRun` is the beginning of `runBlock` (roots, warm cache, checkpoint); `RunTx` one
turn of its loop; `Retry` its early return and `delInvalidTransactions`; `Flush` to
`CommitReceipts` its end; `AddBlock` the save by `runBlockChain`. `Synchronize` is a
block that `Update` takes over with its own `BlockChain`, and so with its own cache,
on the same databases, while the processor is idle. `Crash` is possible in every
state. `Accounts` says what a transaction does, split as the code is: `Accepts` is
everything that makes a contract throw, `Run` what it does otherwise.

What is abstracted:

* A root is the accounts (or receipts) stored under it. At a crash, roots that no block
  has are counted as lost, which is the worst case for whoever needs one.
* Amounts and times are numbers; shares are compared exactly, where the code divides
  in floating point. A contract's fields are a record.
* The transactions of a block are distinct, signed, valid by themselves
  (`TransactionsAssumption`) and have well-formed arguments. A receipt event keeps what
  tells the payments of one contract apart.
* The genesis block is there at the start, with both contracts in it, which the
  program would create by transactions; a creation is among the transactions too.
* A crowd funding's missing fund is a fund of zero.

### CrossChain and the code

| variable | code |
|---|---|
| `height` | blocks of the locking chain; block number `i` holds the lock `setup.locks[i]` |
| `parser` | per node: the block `run` is at, where in the loop body it is, the table of transactions, the table `SendedSpv` |
| `newSpv` | HTTP requests `newSpv` on their way |
| `received`, `waiting`, `lastFlush` | tables `ReceivedSpv` and `WaitingCrossPay`, `waitingCrossPayLastFlushTime` |
| `handlers` | `newSpv` handlers between two awaits, with the rows and the nonce they have read |
| `pool`, `local`, `taken` | table `RawTransaction`; `localTransactions`; whether a block with them was processed |
| `contract`, `balance`, `nonce`, `paid`, `ran` | account and data of the side-chain contract, nonces, payments, transactions of blocks |
| `ended`, `events` | history only: what became of each sponsorship, faults and votes so far |

`ParseTransactions`, `SaveSendedSpv`, `SendSpv` and `SaveBlockNumber` are the awaits of the
parser's loop; `NewSpv`, `SaveWaitingCrossPay`, `LeaveWaiting`, `GetWaitingCrossPay`,
`DestroyRow`, `ReadAccount` and `SaveRawTransaction` those of the `newSpv` handler, each
of which another handler, the parser or a crash may follow; `FlushFails` an await of it that
is rejected, or an answer without a block, account or contract, after rows are destroyed; `GetRawTransactions` and
`DeleteTransactions` the pool; `ProcessBlock` one block with the transactions of some of
the servers in any order. `SideChain` has the contract's commands as operators on a record.

What is abstracted:

* A lock is its transaction's hash, which determines payee and amount; a lock is alone
  in its block, and a transaction carries one coin. Both chains are their blocks.
* `getSpvState` reads the tables at the moment it answers; its answers to one `newSpv`
  come from one state. A request that is lost is a fault, at the sender or underway.
* The flags of `getRawTransactions` are left out: its one caller never overlaps itself.
* Shares are compared exactly, the code divides in floating point. Time counts intervals
  between flushes.
* The locks are of one chain, so that a flush sends one transaction. With rows of several
  chains the code sends one for each chain with the same nonce
  (`cross_chain/index.js:352-379`), of which one can take effect.
* An account's request is a value that is there or not. The code tests the length of the
  stored buffer: an encoded empty list of authorities (`sideChainConstract.js`) and an amount of
  zero encoded as the byte 0 (`multiSignConstract.js:200`) would count as requests; neither is
  among the inputs.

### Trie and the code

| variable | code |
|---|---|
| `disk` | the nodes in `mptDb` |
| `root`, `checkpoints`, `scratch` | `root`, `_checkpoints` and `_scratch` of each trie |
| `committing`, `pending`, `creating` | the stream of `_exitCpMode`: nodes it has still to write, the one that was not found and is being created |
| `blocks` | state roots of saved blocks |

A node is its content and stands for its own hash, so that equal nodes have equal
hashes and different ones different hashes. `Size` adds up the lengths that RLP gives
a node, and `Hashed` is the comparison with 32 bytes, which decides what is a node of
its own in the database. `PutIn` and `DelIn` follow `_updateNode`, `_saveStack` and
`_deleteNode` case by case and return the root and what they put into the database.
`TrieOf` is the reference: the one trie of a content, built from the content alone.

What is abstracted: bytes of keys and values (half-bytes; the length of a value is what
counts), reading, which is one step (nodes never change), and the task executor, which
runs one task at a time. All keys have one length, as addresses and hashes do: the code
also has cases for a key that is a prefix of another one, which no caller reaches. `prove` on an
empty trie ends with a TypeError (`proof.js:30`); `Prove` has no proof then, as for any other
key without a value.

### Network and the code

| variable | code |
|---|---|
| `conn` | the pair of sockets that belong together |
| `end` | `stopWriteToBuffer`, `writeChannelClosed`, `readChannelClosed`, `allChannelClosed`, the two results of the handshake, whether `authorize` is settled |
| `out` | `sendBufferArray`, what is on the wire, whether the socket waits for "drain" |
| `held` | `connections` of the node's manager |
| `unl`, `stored` | `unlManager._unl` and the nodes' collection in the database: listed, excluded (state 2) or no record |
| `updates` | records with updates (`setNodesOnline`, `setNodesOffline`) on their way to the database |
| `dialing` | `createClient` of `reconnectAll` before its socket connects |
| `split` | a socket whose last chunk ended within a short message |
| `broken` | connections that were reset and whose ends do not both know |

An action is an event of a socket, a timer or a call of `P2p`. The continuation of
`authorize`'s promise runs before the next event, so the action that settles it
includes `pushConnection`. `SetState` begins an update of a record, which nobody waits for:
where `late` is among the kinds of a behaviour, it, an earlier or a later one reaches the database at any
moment, or none does (`SettleUpdate`; the callback of a failed update names an undefined variable,
`unlDb.js:108`, which ends the process: a `Restart` may follow). A behaviour begins with any records, and `Restart` is
`gentlyExitProcess` with the start after it: the process exits before `closeAll` has closed
anything or written a record (`consensus_full_server/index.js:19`), nothing resets the records,
and the other end of a connection sees later that it is gone. `Shut` is `Connection.close`, which waits, in turns of a loop,
until what was written is gone; `Finish` is the loop's end, `FinishLate` its giving up.

What is abstracted: signatures are genuine but for the fault "signature"; the node a token
names is the node at the other end; the heart beat and every other message after the
handshake is "data", one at a time on a wire; an end reads its messages one at a time. States 0 and
1 of a record, online and offline, are one: the program writes them and reads neither.
One `Conn` is used again after both ends are closed.

## 4. Runs

Bounds: `N` nodes; `Step` sequence numbers per view (2037 in the code); `MaxView`,
`MaxClock` (proposals), `MaxExpire` (failed waits plus restarts), `Restarting` (who may
restart), `Payloads`. When a bound is reached the system may halt, so deadlock is
checked everywhere below the bounds.

| run | instance | checks |
|---|---|---|
| `ripple_three` | 3 nodes, 2 rounds per view, 2 views, 2 proposals, 2 failures, node 0 restarts | `TypeOK`, `SharedPast`, `ImplementsLedger` |
| `ripple_view` | 4 nodes, 3 rounds of one view, no failures | `NoForkInView` |
| `ripple_inside` | 4 nodes, 1 round per view, 2 views, from the middle of a round, 1 failure or restart of node 1 | `BlocksCertified`, `CommitsPrepared`, `SequenceInView`, `NewViewLed`, `OneDecision` |
| `ripple_progress` | 4 nodes, 3 rounds of one view, 2 proposals, fair | `Progress` |
| `out_of_date`, `repeated_view_change`, `two_runs` | 4 nodes from the middle of a round | violations, section 6 |
| `block_run` | 12 transactions of 3 users, 2 contracts, 2 blocks of up to 2 transactions | `TypeOK`, `RequestsFunded`, `RequestsUndecided`, `CrowdFundsSolvent`, `PaymentsApproved`, `CoinsConserved`, `FreshBlocksValidate`, `StatesOnDisk` |
| `paid_twice` | the same, without `Synchronize` | violation, section 6 |
| `cross_chain` | 1 or 2 locks, 1 or 2 parsers, up to 3 servers, one fault or three votes | `TypeOK`, `PaidOnce`, `PaymentsVerified`, `Accounted`, `NoneLeftDue`, `QuietMeansPaid`, `AuthoritiesApproved` |
| `trie` | 7 keys, 5 lengths of values, 2 tries, 2 checkpoints, 1 crash | `TypeOK`, `Canonical`, `EveryGetAnswers`, `BlocksReadable`, `ProofsVerify`, `ImplementsStore` |
| `network` | 2 nodes, 2 connections, sockets of 2 messages, 1 fault or restart, fair | `TypeOK`, `NothingDropped`, `HeldOnce`, `ExclusionLasts`, `EstablishedLasts`, `EventuallyConnected`, `RemovedNodesLeave` |

`BlockRun` is bounded by `MaxTransactions` per block, `MaxBlocks` on the chain (genesis
included) and `MaxOpen` receipt checkpoints open when a block begins; `Syncing` says
whether `Synchronize` takes part, `Delays` how far blocks are apart. Two blocks of two
transactions are enough for a request and its answer in one block or two, at and
after the moment it expires; for funding and the end of a crowd funding; for a failing
transaction before or after one that succeeds; and for a block without a valid
transaction before one with. The transactions are chosen so that a payment, a
refusal, a payout, a refund, a payment that is overwritten, and a block that begins
with stale accounts all occur. `FreshBlocksValidate` is stated of blocks whose passes
did not begin with stale accounts, because of the others it is false (section 6).

`cross_chain` begins in one of four situations (`MCCrossChain`), because what is hard in
one of them needs no size in the others. `ThreeServers`: one lock, two nodes, three
servers of which two must sponsor, and one crash or lost request anywhere; three
servers are the fewest with a quorum that is not all of them, two nodes the fewest of
which one may not have parsed yet. They are interchangeable, hence the symmetry.
`LateServers`: the same with a time that runs out between the first sponsor and the
second. `TwoLocks`: a server whose second lock flushes what the first one left waiting,
a guarantee that covers the locks only after it was appended to, and a crash. `Votes`:
a request that adds an authority and one that removes it, asked, answered, refused and
expired, while a lock is paid. The system stops when everything is paid and no fault
is left, so deadlock is not checked.

`trie` has five kinds of behaviours. `Shapes`: the content is any of the 243 maps from five
keys to two lengths of values or none, and one key is written or deleted. The keys are
chosen so that branches lie under branches, directly and after an extention, and values
so that nodes are kept inside their parents or on their own; every join and split of
`_deleteNode` and `_updateNode` occurs. `Short` and `Long` are contents that are only read,
of keys of four and of 24 half-bytes: values of 4 bytes or less are what a branch needs to be kept raw in
its parent, 17 bytes at a leaf are what `verifyProof` takes for a branch, and with the long key such a
leaf is in the proof without being the root. `Rivals`: the processor's trie and Update's write
and commit to one database node by node, with a crash anywhere. `Nested`: two
checkpoints, one within the other. Behaviours end at their bounds, so deadlock is not
checked.

`network` has four kinds. `Alone`: one node dials for ever, the other one never, and one
of nine faults happens at any moment: an authorisation slower than the next dial, a
timeout, a refused dial, a wrong signature, a chunk that ends within a message, silence, a
reset, the deletion of a node, a restart. `Crossing`: the other node dials once, too, at any
moment, so that each closes a connection while its socket may be full, and the fault is that one
stays full until the closing node gives up. `Listing`: updates of records
arrive late or not at all, and an operator excludes a node and may take it back. `Starting`: the
databases hold any records at the start, and updates arrive late. Two connections are
what two dials need; a socket of two messages is full in the middle of a handshake.
With a second fault TLC does not end within minutes; the theorems of section 5 are
without any of these bounds.

Why the bounds of `Ripple` are enough to be of interest. Three nodes are the smallest number with a
leader and two followers; their quorum is all three, so the interesting quorums are
those of four nodes, three out of four, where one node is missing and any two
quorums share two nodes. Two views have a view change in each direction of a round;
two proposals are the smallest number that can conflict. From the start TLC gets no
further than the bounds of `ripple_three`; `MCRound` therefore starts in the states
that matter, each one a state that `Ripple` reaches: a leader that restarted and
proposed twice with the nodes split between the proposals, in two stages of that
split; all nodes about to process a decided block; all nodes in a failed consensus.
Between them the passing runs of `Ripple` fire every action.

`OneDecision` is stated for at most one failure or restart: after a restart a leader
proposes a second block for a sequence number it has proposed for, and each node that
synchronised may commit again, so with more of them two quorums may come about.
`NoForkInView` needs `Extends`, the comparison of `commit.handler`, as its mutant
shows: nodes that missed a round decide the next block all the same.

### Fairness

`Progress` assumes weak fairness of the steps of a round in which every stage
succeeds. The code justifies it: the loop of `Ripple.run` polls `msgBuffer` for ever,
a message with the node's sequence number or a later one waits there for its stage
(`fetchMsgWithSequence`), each stage starts the next one, and the leader's own two
stages end by a timer at the latest. No fairness is assumed of timers that end a wait in
failure, of view changes or of synchronisation, and the run has none of them. `MCFair`
also assumes that a node takes the requests of its leader in order, as one connection
delivers them. The property is stated below the high water line only: at the
line the new view may overtake a node that is still deciding.

`EventuallyConnected` and `RemovedNodesLeave` assume weak fairness of what a socket and a
timer do by themselves: what is on a wire is read, what is buffered is sent, events
"end" and "close" come, the loop of `close` ends, the list is read and connections are
cleared before each round, and the timer of `reconnectAll` makes the node `Persistent`
dial again every five seconds. No fairness is assumed of faults, nor of the dials of
other nodes, which are counted: two nodes that dial each other in step for ever, each
holding the connection the other one closes, would never agree, and the code relies on
its timers drifting apart.

## 5. Proofs

Every theorem is about a module's `Spec` for all values of its constants that satisfy the
assumptions named in the module that declares them: any `N >= 2` nodes, `Step >= 1`, any
bounds and any set of restarting nodes for `Ripple`; any accounts, transactions, starting
accounts and bounds for `BlockRun`; any servers, parsers, locks, amounts and situations to
start from for `CrossChain`; any nodes, connections, sockets, faults and dials for `Network`.
Three theorems have a hypothesis of their own, explained below: `DecisionSafety` on the number of
nodes, `AlwaysPaidOnce` on the contract's threshold, `QuietAlwaysPaid` on who runs a server.

| theorem | statement |
|---|---|
| `Ripple_proofs` | |
| `TypeCorrect` | `Spec => []TypeOK` |
| `Invariance` | `Spec => []IInv` |
| `CommitSafety` | `Spec => []CommitsPrepared` |
| `ChainSafety` | `Spec => []BlocksCertified` |
| `LedgerSharedPast` (`Ledger_proofs`) | the ledger's chains share the past of what they share |
| `Refinement` | `Spec => ImplementsLedger` |
| `PastShared` | `Spec => []SharedPast` |
| `ViewInvariance` | `Spec => []ViewInv` |
| `SequenceSafety` | `Spec => []SequenceInView` |
| `NewViewSafety` | `Spec => []NewViewLed` |
| `FirstViewSafety` | `Spec => []NoForkInView` |
| `RippleDecision_proofs` | |
| `DecisionInvariance` | `Spec => []DecisionInv` |
| `CalmDecisionSafety` | `Spec => [](expired = 0 => DecidedOnce)` |
| `DecisionSafety` | `ASSUME N = 3 \/ N >= 5 PROVE Spec => []OneDecision` |
| `BlockRun_proofs` | |
| `StatesAlwaysOnDisk` | `Spec => []StatesOnDisk` |
| `TypeCorrect` | `Spec => []TypeOK` |
| `RequestsAlwaysFunded` | `Spec => []RequestsFunded` |
| `RequestsAlwaysUndecided` | `Spec => []RequestsUndecided` |
| `CrowdFundsAlwaysSolvent` | `Spec => []CrowdFundsSolvent` |
| `CoinsAlwaysConserved` | `Spec => CoinsConserved` |
| `FreshBlocksAlwaysValidate` | `Spec => []FreshBlocksValidate` |
| `PaymentsAlwaysApproved` | `Spec => []PaymentsApproved` |
| `CrossChain_proofs` | |
| `TypeCorrect` | `Spec => []TypeOK` |
| `PaymentsAlwaysVerified` | `Spec => []PaymentsVerified` |
| `NeverLeftDue` | `Spec => []NoneLeftDue` |
| `AuthoritiesAlwaysApproved` | `Spec => AuthoritiesApproved` |
| `AlwaysAccounted` | `Spec => []Accounted` |
| `AlwaysPaidOnce` | `Spec => [](contract.threshold > 50 => PaidOnce)` |
| `QuietAlwaysPaid` | `Spec => [](Manned => QuietMeansPaid)` |
| `Network_proofs` | |
| `NetInvariance` | `Spec => []NetInv` |
| `DataArrives` | `Spec => []NothingDropped` |
| `OneConnection` | `Spec => []HeldOnce` |
| `ExcludedStay` | `Spec => ExclusionLasts` |
| `EstablishedStays` | `Spec => EstablishedLasts` |
| `TypeCorrect` | `Spec => []TypeOK` |

**Induction** (`Recursion_proofs`). A block is executed by a loop, and the modules write a loop
as a function of the loop's index. That such a function has the value its definition gives
it at every index is `Recursion`, proved by induction. The library's induction
theorems take an operator, which no prover here instantiates; `Induction` is stated of a
set of numbers instead, and `SubsetInduction` of a family of finite sets, both proved
from `FS_WFContainment`: inclusion of finite sets is well-founded. `Along` carries a
property of a loop from its start to its end. The other modules use these four.

**Safety of the chains** (`Ripple_proofs`). `BlocksCertified` alone is not
inductive: `Processed` appends `dec[n]`, of which it says nothing. `IInv` adds that every
digest in a message or variable was proposed with a timestamp up to `clock` (`Known`),
that a timestamp determines the proposal (`Unique`), that `cons` is backed by a
quorum of PREPAREs (`ConsPrepared`) and that a node in the stages "fetchCandidate" and
"process" has a `dec` that is backed by a quorum of COMMITs and names the end of its
chain (`Deciding`). The last one is where the interleaving matters: between the
comparison in `commit.handler` and the append any view change may happen, and none
may touch the chain. Most actions send no digest and leave chains and agreements
alone (`Quiet`); one lemma covers them. A block copied by a synchronising node is
certified because its owner holds it after the same blocks.

**Refinement** (`Ripple_proofs`, second part). Under `IInv` a COMMIT that completes a quorum is a
`Certify`, new by `Unique`; `Processed` and `SyncBlock` are an `Extend`; everything else
is a stutter. `SharedPast` is then proved of the ledger, where it needs only that a
block has one predecessor, and carried over.

**Views** (`Ripple_proofs`, third part). `ViewInv` adds that every vote on its way to, or counted by, a
node is for a view that this node leads, and that answers to a synchronisation describe
a node within its view.

**No fork in the first view** (`Ripple_proofs`, fourth part). That no two chains differ as
long as no wait has failed does not follow from quorums alone: a node that missed a round takes part
in the next one. `ForkInv` says that the leader's chain, with the proposal it is about to
append (`Future`), is the one chain there is (`Prefixes`: every chain is a beginning of
it), that only the leader proposes (`OneProposer`), that its proposals name the
predecessor they have in it (`Pending`, `NothingSkipped`) and that timestamps grow along
it (`Ordered`). A node that is behind decides a block whose parent is not its end, and
`Extends` in `commit.handler` stops it; the mutant without the comparison forks.

**One decision** (`RippleDecision_proofs`). A decision rests on the PREPAREs and COMMITs of a
quorum, and two quorums have nodes in common, so it is enough that one of these votes for
one proposal only. Two nodes may vote for two (`Odd`). One is the leader of the view: when a
vote for its view comes late, after it has begun its rounds there,
`validateAndProcessExchangeData` of `viewChangeForTimeout.js` runs the handler once more and the
leader starts over from the low water line. The other is the one node, x, that has restarted
or waited in vain and copied the state of others. `PrepareOnce` says that no other
node prepares two proposals of one sequence number of a view.

This needs that no other node ever goes back, in its view or in its sequence number, and that
is a statement about all view changes (`Views`). A node enters a view when a quorum has voted
for it, and every quorum holds a node that is neither x nor the leader. Such a node

* is done with a view once it has voted for the next one or on a failed consensus
  (`VotesDone`, `FailsDone`), does one of the two only (`Either`), and votes for the next view
  once (`VoteOnce`);
* has, in the view before the latest one, W, been counted for the step to W (`Reached`), so
  that no vote, position or answer is ahead of W (`BoundAt`, `Said`) and W + 1 is
  the only view to come;
* leaves no second quorum behind: when a leader enters a view, the votes of the quorum that
  brought it there are used up (`Entry`), so that it can be brought there again only by the
  few voters left over, while it is in the view, and never once it is in a later one (`Blocked`:
  any quorum of voters would meet a `Wall` of nodes whose votes are gone).

`DecisionInv` quantifies over x: before the first failed wait every node may still turn out
to be x, and so may none (x = N, which gives `CalmDecisionSafety`); after it the node that
failed is x, and a second failure is outside the property. Leaving out two nodes takes
quorums with three in common (`ThreeInCommon`), which all numbers of nodes have but two and
four; hence the hypothesis of `DecisionSafety`. Without x two in common are enough, and
`CalmDecisionSafety` has no hypothesis.

**Accounts and contracts** (`Accounts_proofs`, `BlockRun_proofs`). `Accounts_proofs` is about one
transaction: `Sound` (a request is covered by the balance and not decided, a crowd funding
that was not paid out holds its funds) is kept by every command of the contracts, by plain transfers
to them and by the sender's fee, in the order `runTx` writes the accounts back. `AccountInv`
then has every account sound in every block, on the disk, in the trie and in the cache; the
stale cache of a retry is sound too, only old. What makes it inductive is `Covers`: an
address that the cache takes for empty is empty in the trie, so that no contract is
created over another. `CoinsConserved` needs that a sum over accounts changes by what two of
them change (lemmas on `MapThenFoldSet`), and leaves out the payment that is overwritten.

**Blocks validate elsewhere** (`BlockRun_proofs`). `ValidInv` relates a pass half-way through its
block with the run of the same transactions from a cold cache: `SameAs` says that the two
caches agree on what the second one has, and that what only the first one has is unmodified
and as in the trie. It holds as long as the pass began with fresh accounts (`~tainted`) and
nothing failed; the flushed roots are then equal.

**Payments are approved** (`BlockRun_proofs`). `PayInv` says that the agreements an open
request counts are recorded: each is among the receipts, with the request's own fields. Receipts of
the block under way count only for the accounts its transactions touched, which is what
keeps it true when a pass is given up and its receipts are dropped, while the cache
still has what it did.

**Payments between chains** (`CrossChain_proofs`). Types are the first half: `crossPay` walks the
requests in a loop that spends, and that the balance stays a natural number is an
invariant of the loop (`SettledAs`: each request so far is kept, paid, expired or
forgotten, and what was paid is spent). From there one lemma (`RunTxCases`) says
what a transaction does, as three cases: it runs, is refused, or is a repetition. `SafeInv`
adds that wherever a server has a lock, in its table, in a handler, in the pool, in the contract or
among what is over, it has received it (`LightKnown`, `PoolKnown`, `ChainKnown`), whatever
crashed in between; that while the authorities stay only receivers of a lock sponsor it and no
request is due (`Quorate`); and that the contract's agreements are those of the latest
request (`VotesKnown`).

**A lock's way** (`CrossChain_proofs`, from `Tracked` on). `Accounted` says where a received lock
is, and in calm times (`Undisturbed`: no two flushes overlap, the authorities stay) that it
is there only. `WayInv` has for each server that its lock is in one of the five places (`Placed`),
that no transaction in the pool or about to enter it has a nonce above the account's next one,
and in calm times that the lock is in one place (`Alone`) and that a flush has yet to delete only
rows that are there, each once and no other flush's (`Flushes`). The
nonces are what makes it inductive: a transaction whose nonce is used is over for good, so a
lock that a refused transaction gives back cannot reach the contract through it later. They also
need that a transaction which ran used its nonce (`NoncesUsed`), and that what a full server
holds is in its pool until its block is processed (`PoolTaken`), since the pool is read before it is
deleted from.

**Paid once** (`CrossChain_proofs`, from `PaidFor` on). `PaidInv` counts: in calm times the sponsors
of a lock that are over as "paid" are authorities, and number at least a quota for each
payment. A transaction that pays does so for sponsors who are over for nothing before, by
`Alone`, so that shares add up (`QuotaMore`). Two quotas above one half exceed the
authorities. The hypothesis on the threshold is needed: the constructor of the contract
accepts any, the setups of the run have one above one half, and at one half or below two
disjoint sets of sponsors are enough and the lock is paid twice.

**Paid in the end** (`CrossChain_proofs`, from `Tells` on). A server refuses a notice while too
few nodes have parsed the lock, and nobody sends it again; `QuietInv` says why the lock is
received all the same: once all parsers have parsed it, a server that has not received it is being
told by one of them or is about to be (`AllParsed(l) => Heard(s, l)`). The parser that parses it
last has not told of it before, since what a parser has told of it has parsed
(`PastParsed`). At the end, then, every server has received every lock, and by `Placed` it
is noted, pending or over. If it is pending at all, every authority with a server is a
sponsor of its one request, so it would be due, and `NoneLeftDue` says no request is. The
theorem needs that there is a parser and that the authorities that run a server
reach the threshold (`Manned`); the code takes any list of authorities.

**Connections** (`Network_proofs`). That data is never dropped is a statement about two
ends and everything between them: an end sends data once *it* is authorised, and what
tells the other end so may still be buffered, on the wire or lost in a closing socket.
`NetInv` therefore speaks of the stream of an end, what is on the wire and then what is
buffered, of which the lemmas on `Flushed`, `Written` and `Tail` say that it changes at
its two ends only. `Sound` relates the flags of the writer, its stream and the flags of
the reader: the reader trusts a writer that knows itself trusted; data in the stream
comes after a success message or to a reader that has read one (`Carries`); a writer
that trusts, and may still write, has said so or it is in the stream. The conjunct with
`stop` is what makes it inductive: a writer that is closing says nothing more, and
sends no data either. `FinishInv` (an end that has finished has nothing left to write)
is needed when the other end's "end" event discards a stream. `HeldInv` adds to `HeldOnce`
that held ends are settled, authorised and belong to the node. `EstablishedLasts` follows step by step: held ends are settled, so
that no late failure of the handshake closes them, and `pushConnection` closes only
the connection that comes second.

The types (`TypeCorrect`) say how much may wait. `LoadInv` has that the ends take turns (`Turn`):
of an end's request, its peer's response and its own verdict there is one on the way at any time,
since each is written when the one before is read, and of its data one; so a stream has three
messages at most. A wire holds what its socket takes, for a flush stops where the socket is full
(`Room`). `FreedInv` adds that a closed end has no flag left to set, so that nothing happens to a
connection after both ends have closed.

**Only model-checked.**

* Liveness: `Progress`, `EventuallyConnected`, `RemovedNodesLeave`, beyond the proof system.
* `OneDecision` of two and of four nodes after one failed wait or restart. Two of their quorums
  have two nodes in common, and these may be x and the leader that begins its view again: each
  may then prepare two proposals, both proposals may be prepared by a quorum, and an argument
  about COMMITs, which come after the PREPAREs of a quorum, would have to take the place of
  `PrepareOnce`. Not attempted; `ripple_inside` checks four nodes.
* All of `Trie`: `TrieNodes` is recursive over nodes, with `RECURSIVE` operators, which the
  provers cannot reason about.

## 6. Where code and comments differ

* `out_of_date`. A comment takes a decided block that a node cannot append as a sign
  that the node is behind. The run, without any failure or restart: at the high
  water line three nodes vote a slow fourth one into the next view before it has
  appended the last block. Their votes name their block, but nobody compares it with
  the new leader's own, nor the proposal's parent before the commit. All decide a
  block on the leader's old end; the three cannot append it, the leader can: a fork.
* `repeated_view_change`. "do not accept repeated view change message" is tested on
  `ripple.state`, which `runNewConsensusRound` sets back while the new view is under way.
* `two_runs`. "Amalgamate run, state should be EMPTY" is fatal and reachable, when
  a new view arrives while the node list of the round before is being read.

* `paid_twice`. `runBlock` refuses a block whose state root is not the one it computes,
  and `Update` takes that for a corrupt database. The run agrees on such a block: a
  payout and a failing transaction share a block; the pass is given up with the
  payee's new balance in the cache; the second pass reads it there, since only senders
  and receivers are refreshed, and pays again. All nodes of the round agree,
  a node that synchronises later cannot follow.

Nothing in the repository says otherwise of the following, but the models depend on it and
whoever changes the code should know.

* State 2 of a node's record excludes it (`mongo_wrapper/unl.js:5`, set through `updateNodes`), but
  every connection made or closed and every failed dial writes 0 or 1 over it
  (`p2p/index.js:54,64,94,170`), without being awaited. An exclusion is lost when one of these comes before
  the list is next read into memory, or arrives late. `ExclusionLasts` says what is left: once
  the node is out of memory and no dial or update of it is under way, it stays out.
* Records of a node that exits say what they said: the writes of "offline" that `closeAll` would lead to
  are cut off by `process.exit`, and a node that starts resets nothing. Nothing reads 0 and 1
  (`unlOnline` has no caller) but the pages of the web application.
* READY is not among the commands `ripple/index.js:188` dispatches: such a vote records its honest
  sender as a cheater, a list nothing in the consensus reads, and the stage waits for its timer. `Ripple` has
  the stage as one step, which takes its time or not.
* A message without data whose head came in a chunk of its own waits for the next
  message (`message_chunk_queue.js:46`). For the handshake's success message that is the
  next data or the end of the connection.
* Notices of a lock are sent once. That a lock is paid rests on the last node to parse
  its block, whose notice finds enough nodes; a lost one is not repeated
  (`QuietMeansPaid` is stated without faults).
* Two flushes of one light server may use the same nonce, and the second transaction is
  lost with its locks (`CrossChain`, cause "refused").
* A due request that the guarantee does not cover ends the loop of `crossPay`
  (`sideChainConstract.js:557`), and the requests after it are forgotten, due or not.
* A request to remove an authority leaves an earlier list to add in place, which is
  carried out first.
* A commit streams the root first. Only that the block is saved afterwards keeps a crash
  harmless (`BlocksReadable`). Two tries that create the same node at once end the process.
* `verifyProof` fails on two kinds of proofs that `prove` gives (`proof.js:135-141`). A value of 17
  bytes at a leaf that is an element of the proof has 17 "elements" like a branch, and a byte is taken out of
  it; an account can be encoded in 17 bytes, as nonce and balance are not padded. And a branch
  that its parent, not an extention with one half-byte left to go, holds raw is looked up as if it were a
  hash; that takes values of 4 bytes or less, which no caller writes. `ProofsVerify` says that all other
  proofs verify; the run has both kinds.
* The receipt trie's checkpoint of a run that is given up stays open
  (`runBlock.js:65`): receipts of later blocks stay in memory, and parsers find none.

## 7. Not modelled

* A stage's votes one at a time, the event loop of one node, overlapping
  synchronisations: planned, section 2. Their hazards are listed in `PROJECT.json`, with
  the reason why `Ripple` does not reach them.
* The mode with a proxy (`ProxyConnectionsManager`, `p2p_proxy_server`): another protocol
  above the same sockets, without authorisation; it is off by default.
* The parser of receipts, which is the loop of `CrossChain`'s parser with other tables and
  no messages; the copyright contract, which records and checks nothing that changes
  later.
* Dynamic contracts: the code they run is not in the repository.
* Cryptography, and the formats of blocks, transactions and messages (data only).
* The log parser, queries, web applications, monitoring and scripts: no state of the chain.
* Messages of nodes that do not follow the protocol.
