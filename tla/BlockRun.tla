------------------------------- MODULE BlockRun -------------------------------
(***************************************************************************)
(* Block execution at one node: Processor.processBlock, which runs a block *)
(* again without the transactions that failed until all succeed,           *)
(* runBlockChain, runBlock, the cache of accounts, the checkpoints of the  *)
(* state trie and the receipt trie, and the database of blocks.  The node  *)
(* may crash between any two steps.  A second BlockChain object, that of   *)
(* Update, adds blocks of other nodes.                                     *)
(*                                                                         *)
(* A trie root stands for the accounts (receipts) under it; "disk" and     *)
(* "receiptDisk" are the roots whose nodes are in the database.            *)
(***************************************************************************)
EXTENDS Accounts

CONSTANTS Transactions,    \* signed transactions in the pools
          Genesis,         \* accounts after the genesis block
          Delays,          \* differences between the times of successive blocks
          StartTime,       \* time of the genesis block
          MaxTransactions, \* bound: transactions of a proposed block
          MaxBlocks,       \* bound: blocks of the chain
          MaxOpen,         \* bound: receipt checkpoints open between blocks
          Syncing          \* whether Update may add blocks

World == [Key -> Account]

(* Genesis transactions only transfer coins; a contract that an instance   *)
(* begins with is as its creation leaves it.                               *)
ASSUME GenesisAssumption ==
  /\ Genesis \in World
  /\ \A a \in Key : LET code == Genesis[a].code
                    IN /\ code.kind = "multiSign" => code = NewMultiSign(code)
                       /\ code.kind = "crowdFund" => code = NewCrowdFund(code)

(* Transaction.validate; "args" is decoded from the transaction's data.    *)
Valid(tx) ==
  /\ tx.from \in Address /\ tx.to \in Address /\ tx.from # tx.to
  /\ tx.value \in Nat \ {0} /\ tx.nonce \in Nat \ {0}
  /\ tx.args \in IF tx.command = Create THEN CreateArguments ELSE Arguments

ASSUME TransactionsAssumption == \A tx \in Transactions : Valid(tx)
ASSUME TimeAssumption == StartTime \in Nat /\ Delays \subseteq Nat \ {0}
ASSUME BoundsAssumption ==
  MaxTransactions \in Nat /\ MaxBlocks \in Nat /\ MaxOpen \in Nat /\ Syncing \in BOOLEAN

VARIABLES
  chain,        \* blocks in the database
  disk,         \* state roots in the database
  receiptDisk,  \* receipt roots in the database
  phase,        \* where processBlock is
  block,        \* the block being run
  next,         \* index of its next transaction
  failed,       \* transactions that failed in this pass
  root,         \* root of the processor's state trie
  cache,        \* StateManager.cache
  receipts,     \* root of the receipt trie
  checkpoints,  \* open checkpoints of the receipt trie
  tainted       \* history: a pass of this block began with stale accounts

vars == <<chain, disk, receiptDisk, phase, block, next, failed, root, cache, receipts,
          checkpoints, tainted>>

running == <<block, next, failed, root, cache, receipts, checkpoints>>

Latest == chain[Len(chain)]

NoBlock == [txs |-> << >>, time |-> 0]

NoCache == [a \in {} |-> [account |-> Empty, modified |-> FALSE]]

EmptyWorld == [a \in Key |-> Empty]

Proposals ==
  {txs \in UNION {[1 .. n -> Transactions] : n \in 1 .. MaxTransactions} : IsInjective(txs)}

(***************************************************************************)
(* The parts of runBlock.                                                  *)
(***************************************************************************)
Addresses(txs) == UNION {{txs[i].from, txs[i].to} : i \in DOMAIN txs}

Warmed(old, trie, txs) ==
  [a \in DOMAIN old \cup Addresses(txs) |->
     IF a \in Addresses(txs) THEN [account |-> trie[a], modified |-> FALSE] ELSE old[a]]

(* Accounts the cache keeps from an earlier pass or block, other than the  *)
(* parent's state has them.                                                *)
Leftover(old, trie, txs) ==
  {a \in DOMAIN old \ Addresses(txs) :
     old[a].modified \/ (old[a].account # Empty /\ old[a].account # trie[a])}

Flushed(trie, c) ==
  [a \in Key |-> IF a \in DOMAIN c /\ c[a].modified THEN c[a].account ELSE trie[a]]

(* What a node with an empty cache makes of the transactions: the cache,   *)
(* the receipts and whether all succeed.                                   *)
Replay(trie, txs, now) ==
  LET run[i \in 0 .. Len(txs)] ==
        IF i = 0 THEN [cache |-> Warmed(NoCache, trie, txs), receipts |-> {}, ok |-> TRUE]
        ELSE IF run[i - 1].ok /\ TxValid(run[i - 1].cache, txs[i], now)
             THEN [cache |-> TxCache(run[i - 1].cache, trie, txs[i], now),
                   receipts |-> run[i - 1].receipts
                                  \cup TxReceipts(run[i - 1].cache, txs[i], now),
                   ok |-> TRUE]
             ELSE [run[i - 1] EXCEPT !.ok = FALSE]
  IN run[Len(txs)]

(* delInvalidTransactions *)
Without(txs, invalid) ==
  LET kept[i \in 0 .. Len(txs)] ==
        IF i = 0 THEN << >>
        ELSE IF txs[i] \in invalid THEN kept[i - 1] ELSE Append(kept[i - 1], txs[i])
  IN kept[Len(txs)]

(***************************************************************************)
(* Actions.                                                                *)
(***************************************************************************)
Init ==
  /\ chain = <<[txs |-> << >>, time |-> StartTime, root |-> Genesis, receipts |-> {},
                faithful |-> TRUE]>>
  /\ disk = {Genesis}
  /\ receiptDisk = {{}}
  /\ phase = "idle"
  /\ block = NoBlock /\ next = 1 /\ failed = {}
  /\ root = EmptyWorld
  /\ cache = NoCache
  /\ receipts = {}
  /\ checkpoints = 0
  /\ tainted = FALSE

(* processBlock with a decided block. *)
ProcessBlock ==
  /\ phase = "idle"
  /\ Len(chain) < MaxBlocks
  /\ checkpoints <= MaxOpen
  /\ \E txs \in Proposals, delay \in Delays :
       block' = [txs |-> txs, time |-> Latest.time + delay]
  /\ phase' = "start"
  /\ tainted' = FALSE
  /\ UNCHANGED <<chain, disk, receiptDisk, next, failed, root, cache, receipts, checkpoints>>

(* The beginning of runBlock, or processBlock's return when no transaction *)
(* is left.                                                                *)
NoTransactions ==
  /\ phase = "start"
  /\ block.txs = << >>
  /\ phase' = "idle"
  /\ block' = NoBlock
  /\ UNCHANGED <<chain, disk, receiptDisk, next, failed, root, cache, receipts, checkpoints,
                 tainted>>

StartRunKeepsReceipts ==  \* mutant: the receipt trie is not emptied
  /\ phase = "start"
  /\ block.txs # << >>
  /\ Latest.root \in disk
  /\ root' = Latest.root
  /\ cache' = Warmed(cache, Latest.root, block.txs)
  /\ tainted' = (tainted \/ Leftover(cache, Latest.root, block.txs) # {})
  /\ checkpoints' = checkpoints + 1
  /\ phase' = "run"
  /\ UNCHANGED <<chain, disk, receiptDisk, block, next, failed, receipts>>

StartRun ==
  /\ phase = "start"
  /\ block.txs # << >>
  /\ Latest.root \in disk
  /\ root' = Latest.root
  /\ cache' = Warmed(cache, Latest.root, block.txs)
  /\ tainted' = (tainted \/ Leftover(cache, Latest.root, block.txs) # {})
  /\ receipts' = {}
  /\ checkpoints' = checkpoints + 1
  /\ phase' = "run"
  /\ UNCHANGED <<chain, disk, receiptDisk, block, next, failed>>

RunTx ==
  /\ phase = "run"
  /\ next <= Len(block.txs)
  /\ next' = next + 1
  /\ LET tx == block.txs[next]
     IN \/ /\ TxValid(cache, tx, block.time)
           /\ cache' = TxCache(cache, root, tx, block.time)
           /\ receipts' = receipts \cup TxReceipts(cache, tx, block.time)
           /\ UNCHANGED failed
        \/ /\ ~TxValid(cache, tx, block.time)
           /\ failed' = failed \cup {tx}
           /\ UNCHANGED <<cache, receipts>>
  /\ UNCHANGED <<chain, disk, receiptDisk, phase, block, root, checkpoints, tainted>>

(* Some transactions failed: the pass is given up as it stands. *)
Retry ==
  /\ phase = "run"
  /\ next > Len(block.txs)
  /\ failed # {}
  /\ block' = [block EXCEPT !.txs = Without(@, failed)]
  /\ next' = 1 /\ failed' = {}
  /\ phase' = "start"
  /\ UNCHANGED <<chain, disk, receiptDisk, root, cache, receipts, checkpoints, tainted>>

(* The state trie's checkpoint is opened, written and committed. *)
Flush ==
  /\ phase = "run"
  /\ next > Len(block.txs)
  /\ failed = {}
  /\ root' = Flushed(root, cache)
  /\ phase' = "commit"
  /\ UNCHANGED <<chain, disk, receiptDisk, block, next, failed, cache, receipts, checkpoints,
                 tainted>>

Commit ==
  /\ phase = "commit"
  /\ disk' = disk \cup {root}
  /\ phase' = "commitReceipts"
  /\ UNCHANGED <<chain, receiptDisk, tainted>> /\ UNCHANGED running

(* Only the outermost checkpoint's commit writes to the database. *)
CommitReceipts ==
  /\ phase = "commitReceipts"
  /\ checkpoints' = checkpoints - 1
  /\ receiptDisk' = IF checkpoints = 1 THEN receiptDisk \cup {receipts} ELSE receiptDisk
  /\ cache' = NoCache
  /\ phase' = "save"
  /\ UNCHANGED <<chain, disk, block, next, failed, root, receipts, tainted>>

AddBlockEarly ==  \* mutant: the block is saved before the commits
  /\ phase = "commit"
  /\ chain' = Append(chain, [txs |-> block.txs, time |-> block.time, root |-> root,
                             receipts |-> receipts, faithful |-> ~tainted])
  /\ phase' = "idle"
  /\ block' = NoBlock /\ next' = 1
  /\ UNCHANGED <<disk, receiptDisk, failed, root, cache, receipts, checkpoints, tainted>>

AddBlock ==
  /\ phase = "save"
  /\ chain' = Append(chain, [txs |-> block.txs, time |-> block.time, root |-> root,
                             receipts |-> receipts, faithful |-> ~tainted])
  /\ phase' = "idle"
  /\ block' = NoBlock /\ next' = 1
  /\ UNCHANGED <<disk, receiptDisk, failed, root, cache, receipts, checkpoints, tainted>>

(* Update.synchronize with a block other nodes agreed on and can run. *)
Synchronize ==
  /\ Syncing
  /\ phase = "idle"
  /\ Len(chain) < MaxBlocks
  /\ \E txs \in Proposals, delay \in Delays :
       LET now == Latest.time + delay
           result == Replay(Latest.root, txs, now)
           after == Flushed(Latest.root, result.cache)
       IN /\ result.ok
          /\ chain' = Append(chain, [txs |-> txs, time |-> now, root |-> after,
                                     receipts |-> result.receipts, faithful |-> TRUE])
          /\ disk' = disk \cup {after}
          /\ receiptDisk' = receiptDisk \cup {result.receipts}
  /\ UNCHANGED <<phase, tainted>> /\ UNCHANGED running

(* Only the databases survive.  Roots that no block has yet are counted as *)
(* lost, so that nothing can depend on them.                               *)
Crash ==
  /\ phase' = "idle"
  /\ block' = NoBlock /\ next' = 1 /\ failed' = {}
  /\ root' = EmptyWorld
  /\ cache' = NoCache
  /\ receipts' = {}
  /\ checkpoints' = 0
  /\ tainted' = FALSE
  /\ disk' = disk \cap {chain[i].root : i \in DOMAIN chain}
  /\ receiptDisk' = receiptDisk \cap {chain[i].receipts : i \in DOMAIN chain}
  /\ UNCHANGED chain

Next ==
  \/ ProcessBlock \/ NoTransactions \/ StartRun \/ RunTx \/ Retry
  \/ Flush \/ Commit \/ CommitReceipts \/ AddBlock \/ Synchronize \/ Crash

Spec == Init /\ [][Next]_vars

(***************************************************************************)
(* Properties.                                                             *)
(***************************************************************************)
Phases == {"idle", "start", "run", "commit", "commitReceipts", "save"}

Blocks == [txs : Seq(Transactions), time : Nat]

(* Every variable has its type; balances never fall below zero, though the *)
(* program's numbers would silently lose the sign.                         *)
TypeOK ==
  /\ \A i \in DOMAIN chain : chain[i].root \in World
  /\ \A i \in DOMAIN chain : chain[i].txs \in Seq(Transactions) /\ chain[i].time \in Nat
  /\ disk \subseteq World
  /\ phase \in Phases
  /\ block \in Blocks
  /\ next \in Nat \ {0}
  /\ failed \subseteq Transactions
  /\ root \in World
  /\ DOMAIN cache \subseteq Key
  /\ \A a \in DOMAIN cache : cache[a].account \in Account /\ cache[a].modified \in BOOLEAN
  /\ checkpoints \in Nat
  /\ tainted \in BOOLEAN

(* Accounts of any block of the chain, of the trie and of the cache. *)
StoredAccounts ==
  {chain[i].root[a] : i \in DOMAIN chain, a \in Key}
    \cup {root[a] : a \in Key} \cup {cache[a].account : a \in DOMAIN cache}

(* An open payment request never exceeds the balance of its contract,      *)
(* whatever is paid, transferred, retried or forgotten in a crash after    *)
(* the only check, at the request.                                         *)
RequestsFunded == \A account \in StoredAccounts : RequestFunded(account)

(* An open request is undecided: nobody has answered twice, only           *)
(* authorities have answered, and neither agreement nor refusal is         *)
(* complete, so that a payment is neither overdue nor impossible.  The     *)
(* contract takes a threshold above 100 as well: then no payment is ever   *)
(* made, and the first refusal closes the request.                         *)
RequestsUndecided == \A account \in StoredAccounts : RequestUndecided(account)

(* A live crowd funding owns what it owes: refunds, payouts, plain         *)
(* transfers and payments of other contracts leave its balance at least at *)
(* the sum of the funds it has noted.                                      *)
CrowdFundsSolvent == \A account \in StoredAccounts : Solvent(account)

(* Every payment in the receipts of the chain has enough agreements of     *)
(* different authorities to the same request in the receipts of this block *)
(* and those before it: answers of an expired or replaced request, or of a *)
(* pass that was given up, are not counted.                                *)
PaymentsApproved ==
  \A i \in DOMAIN chain : \A paid \in chain[i].receipts :
    paid.kind = "pay" =>
      LET m == chain[i].root[paid.contract].code
          agreed == {r \in UNION {chain[j].receipts : j \in 1 .. i} :
                       r = [paid EXCEPT !.kind = "agree", !.sponsor = r.sponsor]}
      IN Cardinality({r.sponsor : r \in agreed}) * 100 >= m.threshold * Len(m.authority)

(* The accounts the running pass sees. *)
Accounted == [a \in Key |-> GetOrLoad(cache, root, a)]

Coins(accounts) == Total([a \in Key |-> accounts[a].balance])

(* What a transaction pays to its own sender or contract is overwritten    *)
(* when these two are written back.                                        *)
Overwritten ==
  LET tx == block.txs[next]
      result == TxResult(cache, tx, block.time)
  IN IF TxValid(cache, tx, block.time) /\ result.payee \in {tx.from, tx.to}
     THEN result.amount ELSE 0

(* No transaction creates coins, and none destroys any but the payment     *)
(* that is overwritten.                                                    *)
CoinsConserved == [][RunTx => Coins(Accounted') = Coins(Accounted) - Overwritten]_vars

Validates(i) ==
  LET parent == chain[i - 1].root
      result == Replay(parent, chain[i].txs, chain[i].time)
  IN /\ result.ok
     /\ Flushed(parent, result.cache) = chain[i].root
     /\ result.receipts = chain[i].receipts

(* Another node that runs a block of the chain on the block before it      *)
(* comes to the same roots, if the passes at this node began without stale *)
(* accounts: given up passes, removed transactions, crashes and blocks     *)
(* without a valid transaction leave nothing else behind.                  *)
FreshBlocksValidate == \A i \in 2 .. Len(chain) : chain[i].faithful => Validates(i)

(* The same of every block: what runBlock checks at the nodes that         *)
(* synchronise, "stateRoot should be ..." (runBlock.js:122).               *)
BlocksValidate == \A i \in 2 .. Len(chain) : Validates(i)

(* A block is in the database only after its state is: after a crash in    *)
(* any step the next block finds its parent's root.                        *)
StatesOnDisk == \A i \in DOMAIN chain : chain[i].root \in disk
===============================================================================
