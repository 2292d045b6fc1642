---------------------------- MODULE BlockRun_proofs ----------------------------
(***************************************************************************)
(* Proofs about block execution for any accounts, transactions and bounds: *)
(* the state of every block is on disk, every account in any block, in the *)
(* trie and in the cache is sound, no transaction creates or destroys      *)
(* coins but for the one case that CoinsConserved names, a block made here *)
(* validates on any node that replays it, and a multi-signature payment    *)
(* has the agreements its contract asks for.                               *)
(***************************************************************************)
EXTENDS BlockRun, Accounts_proofs

(* The chain is a sequence that begins with the genesis block. *)
ChainGrown == (\E S : chain \in Seq(S)) /\ chain # << >>

(* Appending a block keeps the others where they are. *)
LEMMA AppendedBlock ==
  ASSUME NEW S, NEW s \in Seq(S), NEW b
  PROVE  /\ Append(s, b) \in Seq(S \cup {b})
         /\ Append(s, b) # << >>
         /\ DOMAIN Append(s, b) = DOMAIN s \cup {Len(s) + 1}
         /\ Append(s, b)[Len(s) + 1] = b
         /\ \A i \in DOMAIN s : Append(s, b)[i] = s[i]
<1>1. PICK T : T = S \cup {b}
  OBVIOUS
<1>2. s \in Seq(T) /\ b \in T
  BY <1>1
<1>3. DOMAIN s = 1 .. Len(s) /\ Len(s) \in Nat
  OBVIOUS
<1>4. Append(s, b) \in Seq(T) /\ Len(Append(s, b)) = Len(s) + 1
  BY <1>2
<1>5. DOMAIN Append(s, b) = 1 .. Len(s) + 1
  BY <1>4
<1>6. Append(s, b)[Len(s) + 1] = b
  BY <1>2, <1>3
<1>7. \A i \in DOMAIN s : Append(s, b)[i] = s[i]
  BY <1>2, <1>3
<1>8. Append(s, b) # << >>
  <2>1. PICK u : u = Append(s, b)
    OBVIOUS
  <2>2. PICK n : n = Len(s) /\ n \in Nat
    BY <1>3
  <2>3. Len(u) = n + 1
    BY <1>4, <2>1, <2>2
  <2>4. Len(<< >>) = 0
    OBVIOUS
  <2> QED
    BY <2>1, <2>2, <2>3, <2>4
<1> QED
  BY <1>1, <1>3, <1>4, <1>5, <1>6, <1>7, <1>8

(* The part of the invariant about the database: a state that is being     *)
(* saved with its block has been committed before.                         *)
DiskInv ==
  /\ ChainGrown
  /\ StatesOnDisk
  /\ phase \in {"commitReceipts", "save"} => root \in disk

(* The genesis block is on disk. *)
LEMMA DiskInvInit == Init => DiskInv
<1> SUFFICES ASSUME Init PROVE DiskInv
  OBVIOUS
<1> DEFINE b == [txs |-> << >>, time |-> StartTime, root |-> Genesis, receipts |-> {},
                 faithful |-> TRUE]
<1>1. chain = <<b>> /\ disk = {Genesis} /\ phase = "idle"
  BY DEF Init
<1>2. <<b>> \in Seq({b}) /\ <<b>> # << >> /\ DOMAIN <<b>> = {1} /\ <<b>>[1] = b
  OBVIOUS
<1>3. ChainGrown
  BY <1>1, <1>2 DEF ChainGrown
<1>4. b.root = Genesis
  OBVIOUS
<1> HIDE DEF b
<1>5. StatesOnDisk
  BY <1>1, <1>2, <1>4 DEF StatesOnDisk
<1> QED
  BY <1>1, <1>3, <1>5 DEF DiskInv

(* A step that appends a block whose root is on disk keeps it. *)
LEMMA DiskInvGrown ==
  ASSUME DiskInv, NEW b, chain' = Append(chain, b), b.root \in disk',
         disk \subseteq disk', phase' = "idle"
  PROVE  DiskInv'
<1>1. PICK S : chain \in Seq(S)
  BY DEF DiskInv, ChainGrown
<1>2. /\ chain' \in Seq(S \cup {b}) /\ chain' # << >>
      /\ DOMAIN chain' = DOMAIN chain \cup {Len(chain) + 1}
      /\ chain'[Len(chain) + 1] = b
      /\ \A i \in DOMAIN chain : chain'[i] = chain[i]
  BY <1>1, AppendedBlock
<1>3. ChainGrown'
  BY <1>2 DEF ChainGrown
<1>4. \A i \in DOMAIN chain : chain[i].root \in disk
  BY DEF DiskInv, StatesOnDisk
<1>5. ASSUME NEW i \in DOMAIN chain' PROVE chain'[i].root \in disk'
  <2>1. CASE i \in DOMAIN chain
    BY <1>2, <1>4, <2>1
  <2>2. CASE i = Len(chain) + 1
    BY <1>2, <2>2
  <2> QED
    BY <1>2, <2>1, <2>2
<1>6. StatesOnDisk'
  BY <1>5 DEF StatesOnDisk
<1> QED
  BY <1>3, <1>6 DEF DiskInv

(* Every step keeps it: only AddBlock and Synchronize extend the chain,    *)
(* with a root that is on disk, and a crash loses only other roots.        *)
LEMMA DiskInvStep == DiskInv /\ [Next]_vars => DiskInv'
<1> SUFFICES ASSUME DiskInv, [Next]_vars PROVE DiskInv'
  OBVIOUS
<1> USE DEF DiskInv, ChainGrown, StatesOnDisk
<1>1. CASE \/ ProcessBlock \/ NoTransactions \/ StartRun \/ RunTx \/ Retry \/ Flush
  BY <1>1 DEF ProcessBlock, NoTransactions, StartRun, RunTx, Retry, Flush
<1>2. CASE Commit
  BY <1>2 DEF Commit, running
<1>3. CASE CommitReceipts
  BY <1>3 DEF CommitReceipts
<1>4. CASE AddBlock
  <2>1. PICK b : chain' = Append(chain, b) /\ b.root = root
    BY <1>4 DEF AddBlock
  <2>2. b.root \in disk' /\ disk \subseteq disk' /\ phase' = "idle"
    BY <1>4, <2>1 DEF AddBlock
  <2> QED
    BY <2>1, <2>2, DiskInvGrown
<1>5. CASE Synchronize
  <2>1. PICK b : chain' = Append(chain, b) /\ disk' = disk \cup {b.root}
    BY <1>5 DEF Synchronize
  <2>2. phase' = "idle"
    BY <1>5 DEF Synchronize
  <2> QED
    BY <2>1, <2>2, DiskInvGrown
<1>6. CASE Crash
  BY <1>6 DEF Crash
<1>7. CASE UNCHANGED vars
  BY <1>7 DEF vars
<1> QED
  BY <1>1, <1>2, <1>3, <1>4, <1>5, <1>6, <1>7 DEF Next

(* For any transactions, crashes and synchronisations: the state of every  *)
(* block in the database is in the database too, so that the next block    *)
(* can be run after a crash in any step.                                   *)
THEOREM StatesAlwaysOnDisk == Spec => []StatesOnDisk
<1>1. DiskInv => StatesOnDisk
  BY DEF DiskInv
<1> QED
  BY <1>1, DiskInvInit, DiskInvStep, PTL DEF Spec

(***************************************************************************)
(* Sound accounts everywhere.                                              *)
(***************************************************************************)
Sealed(b) == SoundWorld(b.root) /\ b.txs \in Seq(Transactions) /\ b.time \in Nat

AccountInv ==
  /\ ChainGrown
  /\ \A i \in DOMAIN chain : Sealed(chain[i])
  /\ disk \subseteq World
  /\ phase \in Phases
  /\ block \in Blocks
  /\ next \in Nat \ {0}
  /\ failed \subseteq Transactions
  /\ SoundWorld(root)
  /\ SoundCache(cache)
  /\ checkpoints \in Nat
  /\ phase \in {"run", "commit", "commitReceipts"} => checkpoints > 0
  /\ phase = "run" => Covers(cache, root, Addresses(block.txs))
  /\ tainted \in BOOLEAN

(* The transactions of the pools are signed. *)
LEMMA SignedTransactions == \A tx \in Transactions : Signed(tx)
BY TransactionsAssumption DEF Signed, Valid

(* The transactions of a block are signed and their accounts are the block's. *)
LEMMA SignedInBlock ==
  ASSUME NEW txs \in Seq(Transactions), NEW i \in 1 .. Len(txs)
  PROVE  /\ txs[i] \in Transactions /\ Signed(txs[i])
         /\ {txs[i].from, txs[i].to} \subseteq Addresses(txs)
<1>1. txs[i] \in Transactions /\ DOMAIN txs = 1 .. Len(txs)
  OBVIOUS
<1> QED
  BY <1>1, SignedTransactions DEF Addresses

(* The accounts of a block are accounts. *)
LEMMA AddressesAreKeys ==
  ASSUME NEW txs \in Seq(Transactions)
  PROVE  Addresses(txs) \subseteq Key
<1>1. \A i \in DOMAIN txs : txs[i].from \in Key /\ txs[i].to \in Key
  BY SignedInBlock DEF Signed, Key
<1> QED
  BY <1>1 DEF Addresses

(* Proposals are sequences of transactions. *)
LEMMA ProposalsAreSeqs == \A txs \in Proposals : txs \in Seq(Transactions)
<1> SUFFICES ASSUME NEW txs \in Proposals PROVE txs \in Seq(Transactions)
  OBVIOUS
<1>1. PICK n \in 1 .. MaxTransactions : txs \in [1 .. n -> Transactions]
  BY DEF Proposals
<1>2. n \in Nat
  BY <1>1, BoundsAssumption
<1> QED
  BY <1>1, <1>2

(* The genesis block. *)
LEMMA GenesisSound == SoundWorld(Genesis) /\ SoundWorld(EmptyWorld)
<1>1. Genesis \in [Key -> Account] /\ \A a \in Key : Fresh(Genesis[a].code)
  BY GenesisAssumption DEF World, Fresh
<1>2. \A a \in Key : Sound(Genesis[a])
  BY <1>1, FreshSound
<1>3. SoundWorld(EmptyWorld)
  BY EmptySound DEF SoundWorld, EmptyWorld
<1> QED
  BY <1>1, <1>2, <1>3 DEF SoundWorld

(* Loading accounts into the cache and writing them back. *)
LEMMA WarmedSound ==
  ASSUME NEW old, SoundCache(old), NEW trie, SoundWorld(trie), NEW txs \in Seq(Transactions)
  PROVE  /\ SoundCache(Warmed(old, trie, txs))
         /\ Covers(Warmed(old, trie, txs), trie, Addresses(txs))
<1> DEFINE w == Warmed(old, trie, txs)
<1>1. DOMAIN w = DOMAIN old \cup Addresses(txs)
  BY DEF Warmed
<1>2. \A a \in Addresses(txs) : w[a] = [account |-> trie[a], modified |-> FALSE]
  BY DEF Warmed
<1>3. \A a \in DOMAIN old : a \notin Addresses(txs) => w[a] = old[a]
  BY DEF Warmed
<1> HIDE DEF w
<1>4. ASSUME NEW a \in Addresses(txs)
      PROVE  w[a].account = trie[a] /\ w[a].modified = FALSE
  <2>1. PICK e : e = w[a]
    OBVIOUS
  <2>2. e = [account |-> trie[a], modified |-> FALSE]
    BY <1>2, <2>1
  <2>3. e.account = trie[a] /\ e.modified = FALSE
    BY <2>2
  <2> QED
    BY <2>1, <2>3
<1>5. Addresses(txs) \subseteq Key
  BY AddressesAreKeys
<1>6. SoundCache(w)
  BY <1>1, <1>3, <1>4, <1>5 DEF SoundCache, SoundWorld
<1>7. Covers(w, trie, Addresses(txs))
  BY <1>1, <1>4 DEF Covers, Lookup
<1> QED
  BY <1>6, <1>7 DEF w

(* An empty cache is sound. *)
LEMMA NoCacheSound == SoundCache(NoCache)
BY DEF NoCache, SoundCache

(* A sound cache written to a sound trie leaves a sound trie. *)
LEMMA FlushedSound ==
  ASSUME NEW trie, SoundWorld(trie), NEW c, SoundCache(c)
  PROVE  SoundWorld(Flushed(trie, c))
<1>1. \A a \in Key : Sound(IF a \in DOMAIN c /\ c[a].modified THEN c[a].account ELSE trie[a])
  BY DEF SoundWorld, SoundCache
<1>2. \A a \in Key :
        Flushed(trie, c)[a] = IF a \in DOMAIN c /\ c[a].modified THEN c[a].account ELSE trie[a]
  BY DEF Flushed
<1>3. \A a \in Key : Sound(Flushed(trie, c)[a]) /\ Flushed(trie, c)[a] \in Account
  BY <1>1, <1>2 DEF Sound
<1>4. Flushed(trie, c) \in [Key -> Account]
  BY <1>2, <1>3 DEF Flushed
<1> QED
  BY <1>3, <1>4 DEF SoundWorld

(***************************************************************************)
(* Removing the transactions that failed.                                  *)
(***************************************************************************)
KeptAt(txs, invalid, i, g) ==
  IF i = 0 THEN << >>
  ELSE IF txs[i] \in invalid THEN g[i - 1] ELSE Append(g[i - 1], txs[i])

Keeps(txs, invalid, n) == \E g : g = [i \in 0 .. n |-> KeptAt(txs, invalid, i, g)]

(* The recursion that defines Without has a solution of every length. *)
LEMMA KeepsUpTo ==
  ASSUME NEW txs, NEW invalid
  PROVE  \A n \in Nat : Keeps(txs, invalid, n)
<1> DEFINE P == {n \in Nat : Keeps(txs, invalid, n)}
<1>1. 0 \in P
  <2> DEFINE g == [i \in 0 .. 0 |-> << >>]
  <2>1. g = [i \in 0 .. 0 |-> KeptAt(txs, invalid, i, g)]
    BY DEF KeptAt
  <2> HIDE DEF g
  <2>2. Keeps(txs, invalid, 0)
    BY <2>1 DEF Keeps
  <2> QED
    BY <2>2
<1>2. ASSUME NEW n \in P PROVE n + 1 \in P
  <2>1. PICK g : g = [i \in 0 .. n |-> KeptAt(txs, invalid, i, g)]
    BY DEF Keeps
  <2>2. n \in Nat /\ n + 1 \in Nat
    OBVIOUS
  <2> DEFINE h == [i \in 0 .. n + 1 |-> KeptAt(txs, invalid, i, g)]
  <2>3. \A i \in 0 .. n : h[i] = g[i]
    <3> SUFFICES ASSUME NEW i \in 0 .. n PROVE h[i] = g[i]
      OBVIOUS
    <3>1. i \in 0 .. n + 1
      BY <2>2
    <3>2. g[i] = KeptAt(txs, invalid, i, g)
      BY <2>1
    <3> QED
      BY <3>1, <3>2
  <2>4. ASSUME NEW i \in 0 .. n + 1
        PROVE  KeptAt(txs, invalid, i, g) = KeptAt(txs, invalid, i, h)
    <3>1. CASE i = 0
      BY <3>1 DEF KeptAt
    <3>2. CASE i # 0
      <4>1. i - 1 \in 0 .. n
        BY <2>2, <3>2
      <4>2. h[i - 1] = g[i - 1]
        BY <2>3, <4>1
      <4> HIDE DEF h
      <4> QED
        BY <4>2 DEF KeptAt
    <3> QED
      BY <3>1, <3>2
  <2>5. h = [i \in 0 .. n + 1 |-> KeptAt(txs, invalid, i, h)]
    BY <2>4
  <2> HIDE DEF h
  <2>6. Keeps(txs, invalid, n + 1)
    BY <2>5 DEF Keeps
  <2> QED
    BY <2>2, <2>6
<1>3. P \in SUBSET Nat
  OBVIOUS
<1> HIDE DEF P
<1>4. P = Nat
  BY <1>1, <1>2, <1>3, Induction
<1> QED
  BY <1>4 DEF P

KeptOf(txs, invalid) == CHOOSE g : g = [i \in 0 .. Len(txs) |-> KeptAt(txs, invalid, i, g)]

(* Without is the last entry of that solution. *)
LEMMA KeptOfWithout ==
  ASSUME NEW txs \in Seq(Transactions), NEW invalid
  PROVE  /\ Without(txs, invalid) = KeptOf(txs, invalid)[Len(txs)]
         /\ \A i \in 0 .. Len(txs) :
              KeptOf(txs, invalid)[i] = KeptAt(txs, invalid, i, KeptOf(txs, invalid))
<1> DEFINE n == Len(txs)
           IsKept(g) == g = [i \in 0 .. n |-> KeptAt(txs, invalid, i, g)]
           kept == CHOOSE g : IsKept(g)
<1>1. Without(txs, invalid) = kept[n]
  BY DEF Without, KeptAt
<1>2. kept = KeptOf(txs, invalid)
  BY DEF KeptOf
<1>3. n \in Nat
  OBVIOUS
<1>4. \E g : IsKept(g)
  <2>1. Keeps(txs, invalid, n)
    BY <1>3, KeepsUpTo
  <2> QED
    BY <2>1 DEF Keeps
<1> HIDE DEF n
<1>5. IsKept(kept)
  <2> HIDE DEF IsKept
  <2> QED
    BY <1>4
<1> HIDE DEF kept
<1>6. \A i \in 0 .. n : kept[i] = KeptAt(txs, invalid, i, kept)
  BY <1>5
<1> QED
  BY <1>1, <1>2, <1>6 DEF n

(* What is left of a sequence of transactions is one, with all but the     *)
(* removed ones.                                                           *)
LEMMA WithoutKeeps ==
  ASSUME NEW txs \in Seq(Transactions), NEW invalid
  PROVE  /\ Without(txs, invalid) \in Seq(Transactions)
         /\ IsInjective(txs) => IsInjective(Without(txs, invalid))
         /\ Range(Without(txs, invalid)) = Range(txs) \ invalid
<1>1. PICK n, kept : n = Len(txs) /\ kept = KeptOf(txs, invalid)
  OBVIOUS
<1>2. n \in Nat /\ DOMAIN txs = 1 .. n /\ \A i \in 1 .. n : txs[i] \in Transactions
  BY <1>1
<1>3. \A i \in 0 .. n : kept[i] = KeptAt(txs, invalid, i, kept)
  BY <1>1, KeptOfWithout
<1> DEFINE Upto(i) == {txs[j] : j \in 1 .. i}
           Good(i) == /\ kept[i] \in Seq(Transactions)
                      /\ IsInjective(txs) => IsInjective(kept[i])
                      /\ Range(kept[i]) = Upto(i) \ invalid
           P == {i \in Nat : i <= n => Good(i)}
<1>4. 0 \in P
  <2>1. kept[0] = << >>
    BY <1>2, <1>3 DEF KeptAt
  <2>2. << >> \in Seq(Transactions) /\ IsInjective(<< >>) /\ Range(<< >>) = {}
    BY DEF IsInjective, Range
  <2>3. Upto(0) = {}
    OBVIOUS
  <2>4. Good(0)
    BY <2>1, <2>2, <2>3, Zenon
  <2> QED
    BY <2>4
<1>5. ASSUME NEW i \in P PROVE i + 1 \in P
  <2> DEFINE tx == txs[i + 1]
  <2>1. i \in Nat /\ (i <= n => Good(i))
    OBVIOUS
  <2>2. ASSUME i + 1 <= n PROVE Good(i + 1)
    <3>1. i + 1 \in 0 .. n /\ i + 1 # 0 /\ (i + 1) - 1 = i /\ i <= n /\ i + 1 \in 1 .. n
      BY <1>2, <2>1, <2>2
    <3>2. kept[i + 1] = IF tx \in invalid THEN kept[i] ELSE Append(kept[i], tx)
      BY <1>3, <3>1 DEF KeptAt
    <3>3. Good(i) /\ tx \in Transactions
      BY <1>2, <2>1, <3>1
    <3>4. Upto(i + 1) = Upto(i) \cup {tx}
      BY <2>1
    <3>5. IsInjective(txs) => tx \notin Upto(i)
      BY <1>2, <2>1, <3>1 DEF IsInjective
    <3> HIDE DEF tx, Upto
    <3>6. CASE tx \in invalid
      BY <3>2, <3>3, <3>4, <3>6
    <3>7. CASE tx \notin invalid
      <4>1. PICK s : s = kept[i]
        OBVIOUS
      <4>2. s \in Seq(Transactions) /\ << >> \in Seq(Transactions)
        BY <3>3, <4>1
      <4>3. PICK e \in Seq(Transactions) : e = << >>
        BY <4>2, Zenon
      <4>4. s \o e = s /\ Append(s, tx) \o e = Append(s, tx) /\ Append(s, tx) \in Seq(Transactions)
        BY <3>3, <4>2, <4>3
      <4>5. IsInjective(txs) => IsInjective(Append(s, tx))
        <5> SUFFICES ASSUME IsInjective(txs) PROVE IsInjective(Append(s, tx))
          OBVIOUS
        <5>1. IsInjective(s \o e) /\ tx \notin Range(s \o e)
          BY <3>3, <3>5, <4>1, <4>4
        <5>2. tx \in Transactions
          BY <3>3
        <5>3. IsInjective(Append(s, tx) \o e)
          BY <4>2, <5>1, <5>2, InsertNew
        <5> QED
          BY <4>4, <5>3
      <4>6. Range(Append(s, tx)) = Range(s) \cup {tx}
        <5> <<tx>> \in Seq(Transactions)
          BY <3>3
        <5>1. PICK q \in Seq(Transactions) : q = <<tx>>
          BY Zenon
        <5>2. Append(s, tx) = s \o q /\ Range(q) = {tx}
          BY <3>3, <4>2, <5>1 DEF Range
        <5> QED
          BY <4>2, <5>2, RangeOfConcat
      <4> QED
        BY <3>2, <3>3, <3>4, <3>7, <4>1, <4>4, <4>5, <4>6
    <3> QED
      BY <3>6, <3>7
  <2> HIDE DEF Good
  <2> QED
    BY <2>1, <2>2
<1>6. P \in SUBSET Nat
  OBVIOUS
<1> HIDE DEF P
<1>7. P = Nat
  BY <1>4, <1>5, <1>6, Induction
<1>8. Good(n)
  <2> HIDE DEF Good
  <2> QED
    BY <1>2, <1>7 DEF P
<1>9. Upto(n) = Range(txs) /\ Without(txs, invalid) = kept[n]
  BY <1>1, <1>2, KeptOfWithout DEF Range
<1> QED
  BY <1>8, <1>9

(***************************************************************************)
(* Running the transactions of a block at another node.                    *)
(***************************************************************************)
ReplayStep(trie, tx, now, was) ==
  IF was.ok /\ TxValid(was.cache, tx, now)
  THEN [cache |-> TxCache(was.cache, trie, tx, now),
        receipts |-> was.receipts \cup TxReceipts(was.cache, tx, now), ok |-> TRUE]
  ELSE [was EXCEPT !.ok = FALSE]

ReplayAt(trie, txs, now, i, g) ==
  IF i = 0 THEN [cache |-> Warmed(NoCache, trie, txs), receipts |-> {}, ok |-> TRUE]
  ELSE ReplayStep(trie, txs[i], now, g[i - 1])

Replays(trie, txs, now, n) == \E g : g = [i \in 0 .. n |-> ReplayAt(trie, txs, now, i, g)]

(* The recursion that defines Replay has a solution of every length. *)
LEMMA ReplaysUpTo ==
  ASSUME NEW trie, NEW txs, NEW now
  PROVE  \A n \in Nat : Replays(trie, txs, now, n)
<1> DEFINE P == {n \in Nat : Replays(trie, txs, now, n)}
<1>1. 0 \in P
  <2> DEFINE b == [cache |-> Warmed(NoCache, trie, txs), receipts |-> {}, ok |-> TRUE]
             g == [i \in 0 .. 0 |-> b]
  <2>1. \A i \in 0 .. 0 : ReplayAt(trie, txs, now, i, g) = b
    BY DEF ReplayAt
  <2> HIDE DEF b
  <2>2. g = [i \in 0 .. 0 |-> ReplayAt(trie, txs, now, i, g)]
    BY <2>1
  <2> HIDE DEF g
  <2>3. Replays(trie, txs, now, 0)
    BY <2>2 DEF Replays
  <2> QED
    BY <2>3
<1>2. ASSUME NEW n \in P PROVE n + 1 \in P
  <2>1. PICK g : g = [i \in 0 .. n |-> ReplayAt(trie, txs, now, i, g)]
    BY DEF Replays
  <2>2. n \in Nat /\ n + 1 \in Nat
    OBVIOUS
  <2> DEFINE h == [i \in 0 .. n + 1 |-> ReplayAt(trie, txs, now, i, g)]
  <2>3. \A i \in 0 .. n : h[i] = g[i]
    <3> SUFFICES ASSUME NEW i \in 0 .. n PROVE h[i] = g[i]
      OBVIOUS
    <3>1. i \in 0 .. n + 1
      BY <2>2
    <3>2. g[i] = ReplayAt(trie, txs, now, i, g)
      BY <2>1
    <3> QED
      BY <3>1, <3>2
  <2>4. ASSUME NEW i \in 0 .. n + 1
        PROVE  ReplayAt(trie, txs, now, i, g) = ReplayAt(trie, txs, now, i, h)
    <3>1. CASE i = 0
      BY <3>1 DEF ReplayAt
    <3>2. CASE i # 0
      <4>1. i - 1 \in 0 .. n
        BY <2>2, <3>2
      <4>2. h[i - 1] = g[i - 1]
        BY <2>3, <4>1
      <4> HIDE DEF h
      <4> QED
        BY <3>2, <4>2 DEF ReplayAt
    <3> QED
      BY <3>1, <3>2
  <2>5. h = [i \in 0 .. n + 1 |-> ReplayAt(trie, txs, now, i, h)]
    BY <2>4
  <2> HIDE DEF h
  <2>6. Replays(trie, txs, now, n + 1)
    BY <2>5 DEF Replays
  <2> QED
    BY <2>2, <2>6
<1>3. P \in SUBSET Nat
  OBVIOUS
<1> HIDE DEF P
<1>4. P = Nat
  BY <1>1, <1>2, <1>3, Induction
<1> QED
  BY <1>4 DEF P

(* One transaction more keeps the accounts of the cache sound. *)
ReplayEntry(x) == "cache" \in DOMAIN x /\ SoundCache(x.cache)

(* One step of a replay keeps the cache sound, *)
LEMMA ReplayStepSound ==
  ASSUME NEW trie, SoundWorld(trie), NEW tx, Signed(tx), NEW now \in Nat,
         NEW was, ReplayEntry(was)
  PROVE  ReplayEntry(ReplayStep(trie, tx, now, was))
<1>2. CASE was.ok /\ TxValid(was.cache, tx, now)
  <2>1. SoundCache(TxCache(was.cache, trie, tx, now))
    BY <1>2, TxCacheSound DEF ReplayEntry
  <2>2. PICK c, r : /\ c = TxCache(was.cache, trie, tx, now)
                    /\ r = was.receipts \cup TxReceipts(was.cache, tx, now)
    OBVIOUS
  <2>3. ReplayStep(trie, tx, now, was) = [cache |-> c, receipts |-> r, ok |-> TRUE]
    BY <1>2, <2>2 DEF ReplayStep
  <2>4. "cache" \in DOMAIN ReplayStep(trie, tx, now, was)
    BY <2>3
  <2>5. ReplayStep(trie, tx, now, was).cache = c
    BY <2>3
  <2> QED
    BY <2>1, <2>2, <2>4, <2>5 DEF ReplayEntry
<1>3. CASE ~(was.ok /\ TxValid(was.cache, tx, now))
  <2>1. ReplayStep(trie, tx, now, was) = [was EXCEPT !.ok = FALSE]
    BY <1>3 DEF ReplayStep
  <2>2. DOMAIN [was EXCEPT !.ok = FALSE] = DOMAIN was
    OBVIOUS
  <2>3. "cache" \in DOMAIN was => [was EXCEPT !.ok = FALSE].cache = was.cache
    OBVIOUS
  <2> QED
    BY <2>1, <2>2, <2>3 DEF ReplayEntry
<1> QED
  BY <1>2, <1>3

(* and so a whole replay does. *)
LEMMA ReplaySound ==
  ASSUME NEW trie, SoundWorld(trie), NEW txs \in Seq(Transactions), NEW now \in Nat
  PROVE  SoundCache(Replay(trie, txs, now).cache)
<1> DEFINE n == Len(txs)
           IsRun(g) == g = [i \in 0 .. n |-> ReplayAt(trie, txs, now, i, g)]
           run == CHOOSE g : IsRun(g)
<1>1. n \in Nat /\ \A i \in 1 .. n : Signed(txs[i])
  BY SignedInBlock
<1>2. Replay(trie, txs, now) = run[n]
  BY DEF Replay, ReplayAt, ReplayStep
<1>3. \E g : IsRun(g)
  <2>1. Replays(trie, txs, now, n)
    BY <1>1, ReplaysUpTo
  <2> QED
    BY <2>1 DEF Replays
<1> HIDE DEF n
<1>4. IsRun(run)
  <2> HIDE DEF IsRun
  <2> QED
    BY <1>3
<1> HIDE DEF run
<1>5. \A i \in 0 .. n : run[i] = ReplayAt(trie, txs, now, i, run)
  BY <1>4
<1> DEFINE P == {i \in Nat : i <= n => ReplayEntry(run[i])}
<1>6. 0 \in P
  <2> DEFINE b == [cache |-> Warmed(NoCache, trie, txs), receipts |-> {}, ok |-> TRUE]
  <2>1. 0 \in 0 .. n
    BY <1>1
  <2>2. run[0] = ReplayAt(trie, txs, now, 0, run)
    BY <1>5, <2>1
  <2>3. run[0] = b
    BY <2>2 DEF ReplayAt
  <2>4. SoundCache(Warmed(NoCache, trie, txs))
    BY NoCacheSound, WarmedSound
  <2>5. "cache" \in DOMAIN b /\ b.cache = Warmed(NoCache, trie, txs)
    OBVIOUS
  <2> HIDE DEF b
  <2>6. ReplayEntry(run[0])
    BY <2>3, <2>4, <2>5 DEF ReplayEntry
  <2> QED
    BY <2>6
<1>7. ASSUME NEW i \in P PROVE i + 1 \in P
  <2>1. i \in Nat /\ (i <= n => ReplayEntry(run[i]))
    OBVIOUS
  <2>2. ASSUME i + 1 <= n PROVE ReplayEntry(run[i + 1])
    <3>1. i + 1 \in 0 .. n /\ i + 1 # 0 /\ (i + 1) - 1 = i /\ i <= n /\ i + 1 \in 1 .. n
      BY <1>1, <2>1, <2>2
    <3>2. run[i + 1] = ReplayStep(trie, txs[i + 1], now, run[i])
      BY <1>5, <3>1 DEF ReplayAt
    <3>3. Signed(txs[i + 1]) /\ ReplayEntry(run[i])
      BY <1>1, <2>1, <3>1
    <3> QED
      BY <3>2, <3>3, ReplayStepSound
  <2> QED
    BY <2>1, <2>2
<1>8. P \in SUBSET Nat
  OBVIOUS
<1> HIDE DEF P
<1>9. P = Nat
  BY <1>6, <1>7, <1>8, Induction
<1>10. ReplayEntry(run[n])
  BY <1>1, <1>9 DEF P
<1> QED
  BY <1>2, <1>10 DEF ReplayEntry

(***************************************************************************)
(* The steps of a node.                                                    *)
(***************************************************************************)
LEMMA AccountInvInit == Init => AccountInv
<1> SUFFICES ASSUME Init PROVE AccountInv
  OBVIOUS
<1> DEFINE b == [txs |-> << >>, time |-> StartTime, root |-> Genesis, receipts |-> {},
                 faithful |-> TRUE]
<1>1. chain = <<b>>
  BY DEF Init
<1>2. DOMAIN chain = {1} /\ chain[1] = b
  BY <1>1
<1>3. b.txs = << >> /\ b.time = StartTime /\ b.root = Genesis
  OBVIOUS
<1> HIDE DEF b
<1>4. Sealed(b)
  <2>1. << >> \in Seq(Transactions)
    OBVIOUS
  <2> QED
    BY <1>3, <2>1, GenesisSound, TimeAssumption DEF Sealed
<1>5. \A i \in DOMAIN chain : Sealed(chain[i])
  BY <1>2, <1>4
<1>6. ChainGrown
  BY DiskInvInit DEF DiskInv
<1>7. disk \subseteq World
  BY GenesisSound DEF Init, SoundWorld, World
<1>8. block \in Blocks
  BY DEF Init, NoBlock, Blocks
<1>9. SoundWorld(root) /\ SoundCache(cache)
  BY GenesisSound, NoCacheSound DEF Init
<1>10. /\ phase = "idle" /\ next = 1 /\ failed = {} /\ checkpoints = 0 /\ tainted = FALSE
  BY DEF Init
<1>11. phase \in Phases
  BY <1>10 DEF Phases
<1>12. next \in Nat \ {0} /\ checkpoints \in Nat
  BY <1>10
<1>13. tainted \in BOOLEAN
  BY Zenon DEF Init
<1>14. phase \notin {"run", "commit", "commitReceipts"}
  BY <1>10
<1> QED
  BY <1>5, <1>6, <1>7, <1>8, <1>9, <1>10, <1>11, <1>12, <1>13, <1>14 DEF AccountInv

(* The latest block. *)
LEMMA LatestSealed ==
  ASSUME AccountInv
  PROVE  Sealed(Latest) /\ Latest.time \in Nat
<1>1. PICK S : chain \in Seq(S) /\ chain # << >>
  BY DEF AccountInv, ChainGrown
<1>2. Len(chain) \in DOMAIN chain
  BY <1>1
<1> QED
  BY <1>2 DEF AccountInv, Latest, Sealed

(* A new block with a sound state. *)
LEMMA SealedGrown ==
  ASSUME AccountInv, NEW b, Sealed(b), chain' = Append(chain, b)
  PROVE  ChainGrown' /\ \A i \in DOMAIN chain' : Sealed(chain'[i])
<1>1. PICK S : chain \in Seq(S)
  BY DEF AccountInv, ChainGrown
<1>2. /\ chain' \in Seq(S \cup {b}) /\ chain' # << >>
      /\ DOMAIN chain' = DOMAIN chain \cup {Len(chain) + 1}
      /\ chain'[Len(chain) + 1] = b
      /\ \A i \in DOMAIN chain : chain'[i] = chain[i]
  BY <1>1, AppendedBlock
<1>3. ChainGrown'
  BY <1>2 DEF ChainGrown
<1>4. \A i \in DOMAIN chain : Sealed(chain[i])
  BY DEF AccountInv
<1>5. ASSUME NEW i \in DOMAIN chain' PROVE Sealed(chain'[i])
  <2>1. CASE i \in DOMAIN chain
    BY <1>2, <1>4, <2>1
  <2>2. CASE i = Len(chain) + 1
    BY <1>2, <2>2
  <2> QED
    BY <1>2, <2>1, <2>2
<1> QED
  BY <1>3, <1>5

(* The block a node is given has signed transactions and a time. *)
LEMMA AccountInvProcessBlock == AccountInv /\ ProcessBlock => AccountInv'
<1> SUFFICES ASSUME AccountInv, ProcessBlock PROVE AccountInv'
  OBVIOUS
<1>1. PICK txs \in Proposals, delay \in Delays :
        block' = [txs |-> txs, time |-> Latest.time + delay]
  BY DEF ProcessBlock
<1>2. txs \in Seq(Transactions) /\ Latest.time + delay \in Nat
  BY LatestSealed, ProposalsAreSeqs, TimeAssumption
<1>3. block' \in Blocks
  BY <1>1, <1>2 DEF Blocks
<1>4. phase' = "start" /\ tainted' = FALSE
  BY DEF ProcessBlock
<1>5. UNCHANGED <<chain, disk, next, failed, root, cache, checkpoints>>
  BY DEF ProcessBlock
<1> QED
  BY <1>3, <1>4, <1>5 DEF AccountInv, ChainGrown, Phases

(* A block without transactions runs nothing. *)
LEMMA AccountInvNoTransactions == AccountInv /\ NoTransactions => AccountInv'
<1> SUFFICES ASSUME AccountInv, NoTransactions PROVE AccountInv'
  OBVIOUS
<1>1. block' \in Blocks
  BY DEF NoTransactions, NoBlock, Blocks
<1>2. phase' = "idle" /\ UNCHANGED <<chain, disk, next, failed, root, cache, checkpoints, tainted>>
  BY DEF NoTransactions
<1> QED
  BY <1>1, <1>2 DEF AccountInv, ChainGrown, Phases

(* Loading the accounts of a block puts sound accounts in the cache. *)
LEMMA AccountInvStartRun == AccountInv /\ StartRun => AccountInv'
<1> SUFFICES ASSUME AccountInv, StartRun PROVE AccountInv'
  OBVIOUS
<1>1. SoundWorld(Latest.root)
  BY LatestSealed DEF Sealed
<1>2. SoundCache(cache) /\ block.txs \in Seq(Transactions)
  BY DEF AccountInv, Blocks
<1>3. root' = Latest.root /\ cache' = Warmed(cache, Latest.root, block.txs)
  BY DEF StartRun
<1>4. SoundWorld(root') /\ SoundCache(cache') /\ Covers(cache', root', Addresses(block.txs))
  BY <1>1, <1>2, <1>3, WarmedSound
<1>5. checkpoints' = checkpoints + 1 /\ phase' = "run"
  BY DEF StartRun
<1>6. tainted' \in BOOLEAN
  BY DEF StartRun, AccountInv
<1>7. checkpoints' \in Nat /\ checkpoints' > 0
  BY <1>5 DEF AccountInv
<1>8. UNCHANGED <<chain, disk, block, next, failed>>
  BY DEF StartRun
<1> QED
  BY <1>4, <1>5, <1>6, <1>7, <1>8 DEF AccountInv, ChainGrown, Phases

(* The transaction that is run. *)
LEMMA NextTransaction ==
  ASSUME AccountInv, phase = "run", next <= Len(block.txs)
  PROVE  /\ block.txs[next] \in Transactions /\ Signed(block.txs[next])
         /\ block.time \in Nat
         /\ Addresses(block.txs) \subseteq Key
         /\ Covers(cache, root, Addresses(block.txs))
         /\ block.txs[next].to \in Addresses(block.txs)
<1>1. block.txs \in Seq(Transactions) /\ block.time \in Nat
  BY DEF AccountInv, Blocks
<1>2. next \in 1 .. Len(block.txs)
  BY <1>1 DEF AccountInv
<1> QED
  BY <1>1, <1>2, SignedInBlock, AddressesAreKeys DEF AccountInv

(* Running a transaction: a valid one changes sound accounts to sound ones. *)
LEMMA AccountInvRunTx == AccountInv /\ RunTx => AccountInv'
<1> SUFFICES ASSUME AccountInv, RunTx PROVE AccountInv'
  OBVIOUS
<1> DEFINE tx == block.txs[next]
<1>1. phase = "run" /\ next <= Len(block.txs) /\ next' = next + 1
  BY DEF RunTx
<1>2. /\ tx \in Transactions /\ Signed(tx) /\ block.time \in Nat
      /\ Addresses(block.txs) \subseteq Key
      /\ Covers(cache, root, Addresses(block.txs))
  BY <1>1, NextTransaction
<1>3. UNCHANGED <<chain, disk, phase, block, root, checkpoints, tainted>>
  BY DEF RunTx
<1>4. SoundCache(cache) /\ SoundWorld(root) /\ failed \subseteq Transactions
  BY DEF AccountInv
<1>5. next' \in Nat \ {0}
  BY <1>1 DEF AccountInv
<1>6. \/ /\ TxValid(cache, tx, block.time)
         /\ cache' = TxCache(cache, root, tx, block.time)
         /\ failed' = failed
      \/ /\ failed' = failed \cup {tx}
         /\ cache' = cache
  BY DEF RunTx
<1> HIDE DEF tx
<1>7. /\ SoundCache(cache') /\ failed' \subseteq Transactions
      /\ Covers(cache', root, Addresses(block.txs))
  <2>1. CASE /\ TxValid(cache, tx, block.time)
             /\ cache' = TxCache(cache, root, tx, block.time)
             /\ failed' = failed
    BY <1>2, <1>4, <2>1, TxCacheSound, TxCacheCovers
  <2>2. CASE failed' = failed \cup {tx} /\ cache' = cache
    BY <1>2, <1>4, <2>2
  <2> QED
    BY <1>6, <2>1, <2>2
<1> QED
  BY <1>1, <1>3, <1>5, <1>7 DEF AccountInv, ChainGrown

(* The transactions that remain are signed. *)
LEMMA AccountInvRetry == AccountInv /\ Retry => AccountInv'
<1> SUFFICES ASSUME AccountInv, Retry PROVE AccountInv'
  OBVIOUS
<1>1. block.txs \in Seq(Transactions) /\ block.time \in Nat
  BY DEF AccountInv, Blocks
<1>2. block' = [block EXCEPT !.txs = Without(block.txs, failed)]
  BY DEF Retry
<1>3. Without(block.txs, failed) \in Seq(Transactions)
  BY <1>1, WithoutKeeps
<1>4. block' \in Blocks
  BY <1>2, <1>3 DEF AccountInv, Blocks
<1>5. /\ next' = 1 /\ failed' = {} /\ phase' = "start"
      /\ UNCHANGED <<chain, disk, root, cache, checkpoints, tainted>>
  BY DEF Retry
<1> QED
  BY <1>4, <1>5 DEF AccountInv, ChainGrown, Phases

(* A sound cache flushed to the trie. *)
LEMMA AccountInvFlush == AccountInv /\ Flush => AccountInv'
<1> SUFFICES ASSUME AccountInv, Flush PROVE AccountInv'
  OBVIOUS
<1>1. SoundWorld(root')
  BY FlushedSound DEF AccountInv, Flush
<1>2. /\ phase = "run" /\ phase' = "commit"
      /\ UNCHANGED <<chain, disk, block, next, failed, cache, checkpoints, tainted>>
  BY DEF Flush
<1> QED
  BY <1>1, <1>2 DEF AccountInv, ChainGrown, Phases

(* The committed trie is sound. *)
LEMMA AccountInvCommit == AccountInv /\ Commit => AccountInv'
<1> SUFFICES ASSUME AccountInv, Commit PROVE AccountInv'
  OBVIOUS
<1>1. /\ disk' = disk \cup {root} /\ phase = "commit" /\ phase' = "commitReceipts"
      /\ UNCHANGED <<chain, tainted, block, next, failed, root, cache, checkpoints>>
  BY DEF Commit, running
<1>2. disk' \subseteq World
  BY <1>1 DEF AccountInv, SoundWorld, World
<1> QED
  BY <1>1, <1>2 DEF AccountInv, ChainGrown, Phases

(* Committing the receipts empties the cache. *)
LEMMA AccountInvCommitReceipts == AccountInv /\ CommitReceipts => AccountInv'
<1> SUFFICES ASSUME AccountInv, CommitReceipts PROVE AccountInv'
  OBVIOUS
<1>1. /\ phase = "commitReceipts" /\ phase' = "save" /\ checkpoints' = checkpoints - 1
      /\ cache' = NoCache
      /\ UNCHANGED <<chain, disk, block, next, failed, root, tainted>>
  BY DEF CommitReceipts
<1>2. checkpoints' \in Nat
  BY <1>1 DEF AccountInv
<1>3. SoundCache(cache')
  BY <1>1, NoCacheSound
<1> QED
  BY <1>1, <1>2, <1>3 DEF AccountInv, ChainGrown, Phases

(* The block that is added has a sound state. *)
LEMMA AccountInvAddBlock == AccountInv /\ AddBlock => AccountInv'
<1> SUFFICES ASSUME AccountInv, AddBlock PROVE AccountInv'
  OBVIOUS
<1>1. PICK b : /\ b = [txs |-> block.txs, time |-> block.time, root |-> root,
                       receipts |-> receipts, faithful |-> ~tainted]
               /\ chain' = Append(chain, b)
  BY DEF AddBlock
<1>2. b.txs = block.txs /\ b.time = block.time /\ b.root = root
  BY <1>1
<1>3. Sealed(b)
  BY <1>2 DEF AccountInv, Blocks, Sealed
<1>4. ChainGrown' /\ \A i \in DOMAIN chain' : Sealed(chain'[i])
  BY <1>1, <1>3, SealedGrown
<1>5. block' \in Blocks
  BY DEF AddBlock, NoBlock, Blocks
<1>6. /\ phase' = "idle" /\ next' = 1
      /\ UNCHANGED <<disk, failed, root, cache, checkpoints, tainted>>
  BY DEF AddBlock
<1> QED
  BY <1>4, <1>5, <1>6 DEF AccountInv, Phases

(* A block of another node has a sound state: it was replayed here. *)
LEMMA AccountInvSynchronize == AccountInv /\ Synchronize => AccountInv'
<1> SUFFICES ASSUME AccountInv, Synchronize PROVE AccountInv'
  OBVIOUS
<1>1. PICK txs \in Proposals, delay \in Delays :
        LET now == Latest.time + delay
            result == Replay(Latest.root, txs, now)
            after == Flushed(Latest.root, result.cache)
        IN /\ chain' = Append(chain, [txs |-> txs, time |-> now, root |-> after,
                                      receipts |-> result.receipts, faithful |-> TRUE])
           /\ disk' = disk \cup {after}
  BY DEF Synchronize
<1> DEFINE now == Latest.time + delay
           result == Replay(Latest.root, txs, now)
           after == Flushed(Latest.root, result.cache)
<1>2. txs \in Seq(Transactions) /\ now \in Nat
  BY LatestSealed, ProposalsAreSeqs, TimeAssumption
<1>3. SoundWorld(Latest.root)
  BY LatestSealed DEF Sealed
<1> HIDE DEF now
<1>4. SoundCache(result.cache)
  BY <1>2, <1>3, ReplaySound
<1>5. SoundWorld(after)
  BY <1>3, <1>4, FlushedSound
<1>6. PICK b : /\ b = [txs |-> txs, time |-> now, root |-> after,
                       receipts |-> result.receipts, faithful |-> TRUE]
               /\ chain' = Append(chain, b)
  BY <1>1 DEF now
<1>7. disk' = disk \cup {after}
  BY <1>1 DEF now
<1> HIDE DEF result, after
<1>8. b.txs = txs /\ b.time = now /\ b.root = after
  BY <1>6
<1>9. Sealed(b)
  BY <1>2, <1>5, <1>8 DEF Sealed
<1>10. ChainGrown' /\ \A i \in DOMAIN chain' : Sealed(chain'[i])
  BY <1>6, <1>9, SealedGrown
<1>11. disk' \subseteq World
  BY <1>5, <1>7 DEF AccountInv, SoundWorld, World
<1>12. UNCHANGED <<phase, tainted, block, next, failed, root, cache, checkpoints>>
  BY DEF Synchronize, running
<1> QED
  BY <1>10, <1>11, <1>12 DEF AccountInv

(* A crash loses the cache and what was not added to the chain. *)
LEMMA AccountInvCrash == AccountInv /\ Crash => AccountInv'
<1> SUFFICES ASSUME AccountInv, Crash PROVE AccountInv'
  OBVIOUS
<1>1. /\ phase' = "idle" /\ next' = 1 /\ failed' = {} /\ checkpoints' = 0
      /\ tainted' = FALSE /\ root' = EmptyWorld /\ cache' = NoCache
      /\ disk' \subseteq disk /\ UNCHANGED chain
  BY DEF Crash
<1>2. block' \in Blocks
  BY DEF Crash, NoBlock, Blocks
<1>3. SoundWorld(root') /\ SoundCache(cache')
  BY <1>1, GenesisSound, NoCacheSound
<1>4. next' \in Nat \ {0} /\ checkpoints' \in Nat
  BY <1>1
<1>5. tainted' \in BOOLEAN
  BY Zenon DEF Crash
<1>6. phase' \in Phases /\ phase' \notin {"run", "commit", "commitReceipts"}
  BY <1>1 DEF Phases
<1>7. ChainGrown' /\ (\A i \in DOMAIN chain : Sealed(chain[i]))' /\ disk' \subseteq World
  BY <1>1 DEF AccountInv, ChainGrown
<1> QED
  BY <1>1, <1>2, <1>3, <1>4, <1>5, <1>6, <1>7 DEF AccountInv

(* So every step keeps the accounts sound, *)
LEMMA AccountInvStep == AccountInv /\ [Next]_vars => AccountInv'
<1> SUFFICES ASSUME AccountInv, [Next]_vars PROVE AccountInv'
  OBVIOUS
<1>1. CASE UNCHANGED vars
  BY <1>1 DEF vars, AccountInv, ChainGrown
<1>2. CASE Next
  BY <1>2, AccountInvProcessBlock, AccountInvNoTransactions, AccountInvStartRun,
     AccountInvRunTx, AccountInvRetry, AccountInvFlush, AccountInvCommit,
     AccountInvCommitReceipts, AccountInvAddBlock, AccountInvSynchronize,
     AccountInvCrash DEF Next
<1> QED
  BY <1>1, <1>2

(* and they always are. *)
LEMMA AccountsAlwaysSound == Spec => []AccountInv
BY AccountInvInit, AccountInvStep, PTL DEF Spec

(* Every account anywhere is sound. *)
LEMMA StoredSound ==
  ASSUME AccountInv
  PROVE  \A account \in StoredAccounts : Sound(account)
<1> SUFFICES ASSUME NEW account \in StoredAccounts PROVE Sound(account)
  OBVIOUS
<1>1. CASE \E i \in DOMAIN chain, a \in Key : account = chain[i].root[a]
  BY <1>1 DEF AccountInv, Sealed, SoundWorld
<1>2. CASE \E a \in Key : account = root[a]
  BY <1>2 DEF AccountInv, SoundWorld
<1>3. CASE \E a \in DOMAIN cache : account = cache[a].account
  BY <1>3 DEF AccountInv, SoundCache
<1> QED
  BY <1>1, <1>2, <1>3 DEF StoredAccounts

(***************************************************************************)
(* The theorems.                                                           *)
(***************************************************************************)

(* For any users, contracts, transactions, times and bounds: every         *)
(* variable has its type, so that no balance, fund or number of open       *)
(* checkpoints falls below zero, in any order of transactions, passes that *)
(* are given up, crashes and synchronisations.                             *)
THEOREM TypeCorrect == Spec => []TypeOK
<1>1. AccountInv => TypeOK
  <2> SUFFICES ASSUME AccountInv PROVE TypeOK
    OBVIOUS
  <2>1. \A i \in DOMAIN chain : /\ chain[i].root \in World
                                /\ chain[i].txs \in Seq(Transactions) /\ chain[i].time \in Nat
    BY DEF AccountInv, Sealed, SoundWorld, World
  <2>2. root \in World
    BY DEF AccountInv, SoundWorld, World
  <2>3. /\ DOMAIN cache \subseteq Key
        /\ \A a \in DOMAIN cache : cache[a].account \in Account /\ cache[a].modified \in BOOLEAN
    BY DEF AccountInv, SoundCache, Sound
  <2> QED
    BY <2>1, <2>2, <2>3 DEF AccountInv, TypeOK
<1> QED
  BY <1>1, AccountsAlwaysSound, PTL

(* An open payment request never exceeds the balance of its contract,      *)
(* though it is compared with it only once, when it is made: no other      *)
(* transaction takes coins from a contract that has an open request.       *)
THEOREM RequestsAlwaysFunded == Spec => []RequestsFunded
<1>1. AccountInv => RequestsFunded
  BY StoredSound DEF RequestsFunded, Sound
<1> QED
  BY <1>1, AccountsAlwaysSound, PTL

(* An open request is undecided: no authority has answered it twice, and   *)
(* it is paid or closed with the answer that decides it.                   *)
THEOREM RequestsAlwaysUndecided == Spec => []RequestsUndecided
<1>1. AccountInv => RequestsUndecided
  BY StoredSound DEF RequestsUndecided, Sound
<1> QED
  BY <1>1, AccountsAlwaysSound, PTL

(* A live crowd funding can pay back all the funds it has noted. *)
THEOREM CrowdFundsAlwaysSolvent == Spec => []CrowdFundsSolvent
<1>1. AccountInv => CrowdFundsSolvent
  BY StoredSound DEF CrowdFundsSolvent, Sound
<1> QED
  BY <1>1, AccountsAlwaysSound, PTL

(* No transaction creates coins, and none destroys any but a payment that  *)
(* is overwritten because it went to its own sender or contract.           *)
THEOREM CoinsAlwaysConserved == Spec => CoinsConserved
<1>1. ASSUME AccountInv, RunTx
      PROVE  Coins(Accounted') = Coins(Accounted) - Overwritten
  <2> DEFINE tx == block.txs[next]
             r == TxResult(cache, tx, block.time)
  <2>1. phase = "run" /\ next <= Len(block.txs)
    BY <1>1 DEF RunTx
  <2>2. Signed(tx) /\ block.time \in Nat /\ Covers(cache, root, {tx.to})
    BY <1>1, <2>1, NextTransaction DEF Covers
  <2>3. SoundCache(cache) /\ SoundWorld(root)
    BY <1>1 DEF AccountInv
  <2>4. Coins(Accounted) = Total(Balances(cache, root))
    <3>1. [a \in Key |-> Accounted[a].balance] = Balances(cache, root)
      BY DEF Accounted, Balances
    <3> QED
      BY <3>1 DEF Coins
  <2>5. Coins(Accounted') = Total(Balances(cache', root))
    <3>1. root' = root
      BY <1>1 DEF RunTx
    <3>2. [a \in Key |-> Accounted'[a].balance] = Balances(cache', root)
      BY <3>1 DEF Accounted, Balances
    <3> QED
      BY <3>2 DEF Coins
  <2>6. CASE TxValid(cache, tx, block.time) /\ cache' = TxCache(cache, root, tx, block.time)
    <3>1. Overwritten = IF r.payee \in {tx.from, tx.to} THEN r.amount ELSE 0
      BY <2>6 DEF Overwritten
    <3>2. Total(Balances(cache', root)) =
            Total(Balances(cache, root))
              - (IF r.payee \in {tx.from, tx.to} THEN r.amount ELSE 0)
      BY <2>2, <2>3, <2>6, TxCacheCoins
    <3> QED
      BY <2>4, <2>5, <3>1, <3>2
  <2>7. CASE ~TxValid(cache, tx, block.time) /\ cache' = cache
    <3>1. Overwritten = 0
      BY <2>7 DEF Overwritten
    <3>2. Total(Balances(cache, root)) \in Nat
      BY <2>3, BalancesType, KeysFinite, TotalBounds
    <3> QED
      BY <2>4, <2>5, <2>7, <3>1, <3>2
  <2> QED
    BY <1>1, <2>6, <2>7 DEF RunTx
<1>2. AccountInv /\ [Next]_vars =>
        [RunTx => Coins(Accounted') = Coins(Accounted) - Overwritten]_vars
  BY <1>1
<1> QED
  BY <1>2, AccountsAlwaysSound, PTL DEF Spec, CoinsConserved

(***************************************************************************)
(* Blocks that validate.  Alike(c, d, trie, A): a cache c that may have    *)
(* accounts of an earlier pass and a cache d that has not make the same of *)
(* transactions between accounts of A.                                     *)
(***************************************************************************)
Alike(c, d, trie, A) ==
  /\ A \subseteq DOMAIN d /\ DOMAIN d \subseteq DOMAIN c
  /\ \A a \in DOMAIN d : c[a] = d[a]
  /\ \A a \in DOMAIN c \ DOMAIN d : /\ c[a].modified = FALSE
                                    /\ c[a].account \in {Empty, trie[a]}

(* Caches that are alike answer alike. *)
LEMMA AlikeLookup ==
  ASSUME NEW c, NEW d, NEW trie, NEW A, Alike(c, d, trie, A)
  PROVE  /\ \A a \in A : Lookup(c, a) = Lookup(d, a)
         /\ \A a : GetOrLoad(c, trie, a) = GetOrLoad(d, trie, a)
<1>1. ASSUME NEW a \in A PROVE Lookup(c, a) = Lookup(d, a)
  BY DEF Alike, Lookup
<1>2. ASSUME NEW a PROVE GetOrLoad(c, trie, a) = GetOrLoad(d, trie, a)
  <2>1. CASE a \in DOMAIN d
    BY <2>1 DEF Alike, GetOrLoad, Lookup
  <2>2. CASE a \in DOMAIN c \ DOMAIN d
    BY <2>2 DEF Alike, GetOrLoad, Lookup
  <2>3. CASE a \notin DOMAIN c
    BY <2>3 DEF Alike, GetOrLoad, Lookup
  <2> QED
    BY <2>1, <2>2, <2>3
<1> QED
  BY <1>1, <1>2

(* Writing the same account to both keeps them alike. *)
LEMMA AlikePut ==
  ASSUME NEW c, NEW d, NEW trie, NEW A, Alike(c, d, trie, A), NEW a, NEW account
  PROVE  Alike(Put(c, a, account), Put(d, a, account), trie, A)
<1> DEFINE p == Put(c, a, account)
           q == Put(d, a, account)
           e == [account |-> account, modified |-> TRUE]
<1>1. DOMAIN p = DOMAIN c \cup {a} /\ DOMAIN q = DOMAIN d \cup {a}
  BY DEF Put
<1>2. p[a] = e /\ q[a] = e
  BY DEF Put
<1>3. /\ \A b \in DOMAIN c : b # a => p[b] = c[b]
      /\ \A b \in DOMAIN d : b # a => q[b] = d[b]
  BY DEF Put
<1> HIDE DEF p, q, e
<1>4. Alike(p, q, trie, A)
  BY <1>1, <1>2, <1>3 DEF Alike
<1> QED
  BY <1>4 DEF p, q

(* A transaction between accounts of A is as valid, leaves the same        *)
(* receipts and keeps the caches alike.                                    *)
LEMMA AlikeTx ==
  ASSUME NEW c, NEW d, NEW trie, NEW A, Alike(c, d, trie, A),
         NEW tx, tx.from \in A, tx.to \in A, NEW now
  PROVE  /\ TxValid(c, tx, now) <=> TxValid(d, tx, now)
         /\ TxReceipts(c, tx, now) = TxReceipts(d, tx, now)
         /\ Alike(TxCache(c, trie, tx, now), TxCache(d, trie, tx, now), trie, A)
<1>1. Lookup(c, tx.from) = Lookup(d, tx.from) /\ Lookup(c, tx.to) = Lookup(d, tx.to)
  BY AlikeLookup
<1>2. TxValid(c, tx, now) <=> TxValid(d, tx, now)
  BY <1>1 DEF TxValid
<1>3. TxReceipts(c, tx, now) = TxReceipts(d, tx, now)
  BY <1>1 DEF TxReceipts
<1>4. TxResult(c, tx, now) = TxResult(d, tx, now)
  BY <1>1 DEF TxResult, Sender
<1>5. PICK r : r = TxResult(c, tx, now)
  OBVIOUS
<1>6. Alike(Paid(c, trie, r), Paid(d, trie, r), trie, A)
  <2>1. GetOrLoad(c, trie, r.payee) = GetOrLoad(d, trie, r.payee)
    BY AlikeLookup
  <2> QED
    BY <2>1, AlikePut DEF Paid
<1>7. Alike(Put(Put(Paid(c, trie, r), tx.from, r.from), tx.to, r.to),
            Put(Put(Paid(d, trie, r), tx.from, r.from), tx.to, r.to), trie, A)
  BY <1>6, AlikePut
<1> QED
  BY <1>2, <1>3, <1>4, <1>5, <1>7, TxCachePaid

(* They are the same when written back. *)
LEMMA AlikeFlushed ==
  ASSUME NEW c, NEW d, NEW trie, NEW A, Alike(c, d, trie, A)
  PROVE  Flushed(trie, c) = Flushed(trie, d)
<1>1. \A a \in Key : (a \in DOMAIN c /\ c[a].modified) <=> (a \in DOMAIN d /\ d[a].modified)
  BY DEF Alike
<1>2. \A a \in Key : a \in DOMAIN d => c[a] = d[a]
  BY DEF Alike
<1>3. \A a \in Key :
        (IF a \in DOMAIN c /\ c[a].modified THEN c[a].account ELSE trie[a])
          = IF a \in DOMAIN d /\ d[a].modified THEN d[a].account ELSE trie[a]
  BY <1>1, <1>2
<1> QED
  BY <1>3 DEF Flushed

(* A cache without leftovers is alike to an empty one, when both have been *)
(* warmed.                                                                 *)
LEMMA AlikeWarmed ==
  ASSUME NEW c, SoundCache(c), NEW trie, NEW txs, Leftover(c, trie, txs) = {}
  PROVE  Alike(Warmed(c, trie, txs), Warmed(NoCache, trie, txs), trie, Addresses(txs))
<1> DEFINE p == Warmed(c, trie, txs)
           q == Warmed(NoCache, trie, txs)
           A == Addresses(txs)
<1>1. DOMAIN p = DOMAIN c \cup A /\ DOMAIN q = A
  BY DEF Warmed, NoCache
<1>2. \A a \in A : p[a] = q[a]
  BY DEF Warmed, NoCache
<1>3. \A a \in DOMAIN c : a \notin A => p[a] = c[a]
  BY DEF Warmed
<1>4. \A a \in DOMAIN c \ A : c[a].modified = FALSE /\ c[a].account \in {Empty, trie[a]}
  BY DEF Leftover, SoundCache
<1> HIDE DEF p, q, A
<1>5. Alike(p, q, trie, A)
  BY <1>1, <1>2, <1>3, <1>4 DEF Alike
<1> QED
  BY <1>5 DEF p, q, A

(***************************************************************************)
(* The run at another node, transaction by transaction.                    *)
(***************************************************************************)
RunOf(trie, txs, now) ==
  CHOOSE g : g = [i \in 0 .. Len(txs) |-> ReplayAt(trie, txs, now, i, g)]

(* Replay is the last entry of its run. *)
LEMMA RunOfReplay ==
  ASSUME NEW trie, NEW txs \in Seq(Transactions), NEW now
  PROVE  /\ Replay(trie, txs, now) = RunOf(trie, txs, now)[Len(txs)]
         /\ \A i \in 0 .. Len(txs) :
              RunOf(trie, txs, now)[i] = ReplayAt(trie, txs, now, i, RunOf(trie, txs, now))
<1> DEFINE n == Len(txs)
           IsRun(g) == g = [i \in 0 .. n |-> ReplayAt(trie, txs, now, i, g)]
           run == CHOOSE g : IsRun(g)
<1>1. Replay(trie, txs, now) = run[n]
  BY DEF Replay, ReplayAt, ReplayStep
<1>2. run = RunOf(trie, txs, now)
  BY DEF RunOf
<1>3. n \in Nat
  OBVIOUS
<1>4. \E g : IsRun(g)
  <2>1. Replays(trie, txs, now, n)
    BY <1>3, ReplaysUpTo
  <2> QED
    BY <2>1 DEF Replays
<1>5. IsRun(run)
  <2> HIDE DEF IsRun
  <2> QED
    BY <1>4
<1> HIDE DEF run
<1>6. \A i \in 0 .. n : run[i] = ReplayAt(trie, txs, now, i, run)
  BY <1>5
<1> QED
  BY <1>1, <1>2, <1>6

(* What a pass without leftovers and failures has come to is what the run  *)
(* at another node has.                                                    *)
SameAs(c, r, x, trie, A) == x.ok /\ r = x.receipts /\ Alike(c, x.cache, trie, A)

(* The pass and its replay begin alike when no earlier block left anything. *)
LEMMA SameAsStart ==
  ASSUME NEW c, SoundCache(c), NEW trie, NEW txs \in Seq(Transactions), NEW now,
         Leftover(c, trie, txs) = {}
  PROVE  SameAs(Warmed(c, trie, txs), {}, RunOf(trie, txs, now)[0], trie, Addresses(txs))
<1>1. PICK x : x = RunOf(trie, txs, now)[0]
  OBVIOUS
<1>2. 0 \in 0 .. Len(txs)
  OBVIOUS
<1>3. x = ReplayAt(trie, txs, now, 0, RunOf(trie, txs, now))
  BY <1>1, <1>2, RunOfReplay
<1>4. x = [cache |-> Warmed(NoCache, trie, txs), receipts |-> {}, ok |-> TRUE]
  BY <1>3 DEF ReplayAt
<1>5. x.cache = Warmed(NoCache, trie, txs) /\ x.receipts = {} /\ x.ok
  BY <1>4
<1> QED
  BY <1>1, <1>5, AlikeWarmed DEF SameAs

(* A valid transaction keeps a pass and its replay alike. *)
LEMMA SameAsStep ==
  ASSUME NEW c, NEW r, NEW trie, NEW txs \in Seq(Transactions), NEW now,
         NEW i \in 1 .. Len(txs),
         SameAs(c, r, RunOf(trie, txs, now)[i - 1], trie, Addresses(txs)),
         TxValid(c, txs[i], now)
  PROVE  SameAs(TxCache(c, trie, txs[i], now), r \cup TxReceipts(c, txs[i], now),
                RunOf(trie, txs, now)[i], trie, Addresses(txs))
<1> DEFINE A == Addresses(txs)
<1>1. PICK was : was = RunOf(trie, txs, now)[i - 1]
  OBVIOUS
<1>2. PICK x : x = RunOf(trie, txs, now)[i]
  OBVIOUS
<1>3. PICK tx : tx = txs[i]
  OBVIOUS
<1>4. i \in 0 .. Len(txs) /\ i # 0
  OBVIOUS
<1>5. x = ReplayStep(trie, tx, now, was)
  BY <1>1, <1>2, <1>3, <1>4, RunOfReplay DEF ReplayAt
<1>6. was.ok /\ r = was.receipts /\ Alike(c, was.cache, trie, A)
  BY <1>1 DEF SameAs
<1>7. tx.from \in A /\ tx.to \in A
  BY <1>3, SignedInBlock
<1>8. /\ TxValid(was.cache, tx, now)
      /\ TxReceipts(c, tx, now) = TxReceipts(was.cache, tx, now)
      /\ Alike(TxCache(c, trie, tx, now), TxCache(was.cache, trie, tx, now), trie, A)
  BY <1>3, <1>6, <1>7, AlikeTx
<1>9. PICK d, s : /\ d = TxCache(was.cache, trie, tx, now)
                  /\ s = was.receipts \cup TxReceipts(was.cache, tx, now)
  OBVIOUS
<1>10. x = [cache |-> d, receipts |-> s, ok |-> TRUE]
  BY <1>5, <1>6, <1>8, <1>9 DEF ReplayStep
<1>11. x.cache = d /\ x.receipts = s /\ x.ok
  BY <1>10
<1> QED
  BY <1>2, <1>3, <1>6, <1>8, <1>9, <1>11 DEF SameAs

(* What a block comes to at another node that has the block before it.     *)
Repeats(txs, now, state, r) ==
  LET result == Replay(Latest.root, txs, now)
  IN result.ok /\ Flushed(Latest.root, result.cache) = state /\ result.receipts = r

Committing == {"commit", "commitReceipts", "save"}

ValidInv ==
  /\ phase # "run" => failed = {}
  /\ phase \in {"idle", "start"} => next = 1
  /\ phase = "run" =>
       /\ root = Latest.root
       /\ next <= Len(block.txs) + 1
       /\ ~tainted /\ failed = {} =>
            SameAs(cache, receipts, RunOf(root, block.txs, block.time)[next - 1], root,
                   Addresses(block.txs))
  /\ phase \in Committing /\ ~tainted => Repeats(block.txs, block.time, root, receipts)
  /\ FreshBlocksValidate

(* There is no block but genesis, and no pass. *)
LEMMA ValidInvInit == Init => ValidInv
<1> SUFFICES ASSUME Init PROVE ValidInv
  OBVIOUS
<1>1. phase = "idle" /\ failed = {} /\ next = 1
  BY DEF Init
<1>2. Len(chain) = 1
  BY DEF Init
<1>3. FreshBlocksValidate
  BY <1>2 DEF FreshBlocksValidate
<1> QED
  BY <1>1, <1>3 DEF ValidInv, Committing

(* Steps that neither run a transaction nor extend the chain.              *)
LEMMA ValidInvKept ==
  ASSUME ValidInv, UNCHANGED <<chain, block, next, failed, root, cache, receipts, tainted>>,
         phase' = phase \/ (phase \in Committing /\ phase' \in Committing)
  PROVE  ValidInv'
<1>1. FreshBlocksValidate'
  BY DEF ValidInv, FreshBlocksValidate, Validates
<1>2. phase \in Committing /\ ~tainted => Repeats(block.txs, block.time, root, receipts)'
  BY DEF ValidInv, Repeats, Latest
<1>3. Latest' = Latest
  BY DEF Latest
<1> QED
  BY <1>1, <1>2, <1>3 DEF ValidInv, Committing

(* A pass begins like the replay of its block. *)
LEMMA ValidInvStartRun == AccountInv /\ ValidInv /\ StartRun => ValidInv'
<1> SUFFICES ASSUME AccountInv, ValidInv, StartRun PROVE ValidInv'
  OBVIOUS
<1>1. /\ phase = "start" /\ phase' = "run" /\ root' = Latest.root
      /\ cache' = Warmed(cache, Latest.root, block.txs) /\ receipts' = {}
      /\ UNCHANGED <<chain, block, next, failed>>
      /\ tainted' = (tainted \/ Leftover(cache, Latest.root, block.txs) # {})
  BY DEF StartRun
<1>2. next = 1 /\ failed = {}
  BY <1>1 DEF ValidInv
<1>3. SoundCache(cache) /\ block.txs \in Seq(Transactions)
  BY DEF AccountInv, Blocks
<1>4. ASSUME ~tainted'
      PROVE  SameAs(cache', receipts', RunOf(root', block'.txs, block'.time)[next' - 1], root',
                    Addresses(block'.txs))
  <2>1. Leftover(cache, Latest.root, block.txs) = {}
    BY <1>1, <1>4
  <2>2. next' - 1 = 0
    BY <1>1, <1>2
  <2> QED
    BY <1>1, <1>3, <2>1, <2>2, SameAsStart
<1>5. next' <= Len(block'.txs) + 1
  <2>1. Len(block.txs) \in Nat
    BY <1>3
  <2> QED
    BY <1>1, <1>2, <2>1
<1>6. FreshBlocksValidate' /\ Latest' = Latest
  BY <1>1 DEF ValidInv, FreshBlocksValidate, Validates, Latest
<1> QED
  BY <1>1, <1>4, <1>5, <1>6 DEF ValidInv, Committing

(* A pass goes on like the replay of its block. *)
LEMMA ValidInvRunTx == AccountInv /\ ValidInv /\ RunTx => ValidInv'
<1> SUFFICES ASSUME AccountInv, ValidInv, RunTx PROVE ValidInv'
  OBVIOUS
<1>1. /\ phase = "run" /\ next <= Len(block.txs) /\ next' = next + 1
      /\ UNCHANGED <<chain, phase, block, root, tainted>>
  BY DEF RunTx
<1>2. block.txs \in Seq(Transactions) /\ next \in Nat \ {0} /\ failed \subseteq Transactions
  BY DEF AccountInv, Blocks
<1>3. next \in 1 .. Len(block.txs) /\ next' - 1 = next /\ next' <= Len(block.txs) + 1
  BY <1>1, <1>2
<1>4. ASSUME ~tainted, failed' = {}
      PROVE  SameAs(cache', receipts', RunOf(root, block.txs, block.time)[next], root,
                    Addresses(block.txs))
  <2> DEFINE tx == block.txs[next]
  <2>1. /\ failed = {} /\ TxValid(cache, tx, block.time)
        /\ cache' = TxCache(cache, root, tx, block.time)
        /\ receipts' = receipts \cup TxReceipts(cache, tx, block.time)
    BY <1>4 DEF RunTx
  <2>2. SameAs(cache, receipts, RunOf(root, block.txs, block.time)[next - 1], root,
               Addresses(block.txs))
    BY <1>1, <1>4, <2>1 DEF ValidInv
  <2> QED
    BY <1>2, <1>3, <2>1, <2>2, SameAsStep
<1>5. FreshBlocksValidate' /\ Latest' = Latest
  BY <1>1 DEF ValidInv, FreshBlocksValidate, Validates, Latest
<1>6. root = Latest.root
  BY <1>1 DEF ValidInv
<1> QED
  BY <1>1, <1>3, <1>4, <1>5, <1>6 DEF ValidInv, Committing

(* When a pass has run every transaction its state is that of the replay. *)
LEMMA ValidInvFlush == AccountInv /\ ValidInv /\ Flush => ValidInv'
<1> SUFFICES ASSUME AccountInv, ValidInv, Flush PROVE ValidInv'
  OBVIOUS
<1>1. /\ phase = "run" /\ phase' = "commit" /\ next > Len(block.txs) /\ failed = {}
      /\ root' = Flushed(root, cache)
      /\ UNCHANGED <<chain, block, next, failed, cache, receipts, tainted>>
  BY DEF Flush
<1>2. block.txs \in Seq(Transactions) /\ next \in Nat \ {0}
  BY DEF AccountInv, Blocks
<1>3. root = Latest.root /\ next <= Len(block.txs) + 1
  BY <1>1 DEF ValidInv
<1>4. next - 1 = Len(block.txs)
  <2>1. Len(block.txs) \in Nat
    BY <1>2
  <2> QED
    BY <1>1, <1>2, <1>3, <2>1
<1>5. ASSUME ~tainted PROVE Repeats(block.txs, block.time, root', receipts)
  <2>1. SameAs(cache, receipts, Replay(root, block.txs, block.time), root, Addresses(block.txs))
    BY <1>1, <1>2, <1>4, <1>5, RunOfReplay DEF ValidInv
  <2> QED
    BY <1>1, <1>3, <2>1, AlikeFlushed DEF SameAs, Repeats
<1>6. FreshBlocksValidate' /\ Latest' = Latest
  BY <1>1 DEF ValidInv, FreshBlocksValidate, Validates, Latest
<1>7. ~tainted' => Repeats(block.txs, block.time, root, receipts)'
  BY <1>1, <1>5, <1>6 DEF Repeats
<1> QED
  BY <1>1, <1>6, <1>7 DEF ValidInv, Committing

(* A block that is appended validates if it repeats. *)
LEMMA FreshGrown ==
  ASSUME AccountInv, FreshBlocksValidate, NEW b, chain' = Append(chain, b),
         b.faithful => Repeats(b.txs, b.time, b.root, b.receipts)
  PROVE  FreshBlocksValidate'
<1>1. PICK S : chain \in Seq(S) /\ chain # << >>
  BY DEF AccountInv, ChainGrown
<1>2. PICK n \in Nat : n = Len(chain) /\ n > 0 /\ DOMAIN chain = 1 .. n
  BY <1>1
<1>3. /\ Len(chain') = n + 1 /\ chain'[n + 1] = b
      /\ \A i \in 1 .. n : chain'[i] = chain[i]
  BY <1>1, <1>2, AppendedBlock
<1>4. ASSUME NEW i \in 2 .. Len(chain'), chain'[i].faithful PROVE Validates(i)'
  <2>1. CASE i <= n
    <3>1. i \in 2 .. Len(chain) /\ i \in 1 .. n /\ i - 1 \in 1 .. n
      BY <1>2, <1>3, <2>1
    <3>2. chain'[i] = chain[i] /\ chain'[i - 1] = chain[i - 1]
      BY <1>3, <3>1
    <3>3. Validates(i)
      BY <1>4, <3>1, <3>2 DEF FreshBlocksValidate
    <3> QED
      BY <3>2, <3>3 DEF Validates
  <2>2. CASE i > n
    <3>1. i = n + 1 /\ i - 1 = n /\ n \in 1 .. n
      BY <1>2, <1>3, <2>2
    <3>2. chain'[i] = b /\ chain'[i - 1] = Latest
      BY <1>2, <1>3, <3>1 DEF Latest
    <3>3. Repeats(b.txs, b.time, b.root, b.receipts)
      BY <1>4, <3>2
    <3> QED
      BY <3>2, <3>3 DEF Repeats, Validates
  <2> QED
    BY <1>2, <1>3, <2>1, <2>2
<1> QED
  BY <1>4 DEF FreshBlocksValidate

(* The added block is the one that was run. *)
LEMMA ValidInvAddBlock == AccountInv /\ ValidInv /\ AddBlock => ValidInv'
<1> SUFFICES ASSUME AccountInv, ValidInv, AddBlock PROVE ValidInv'
  OBVIOUS
<1>1. PICK b : /\ b = [txs |-> block.txs, time |-> block.time, root |-> root,
                       receipts |-> receipts, faithful |-> ~tainted]
               /\ chain' = Append(chain, b)
  BY DEF AddBlock
<1>2. /\ b.txs = block.txs /\ b.time = block.time /\ b.root = root /\ b.receipts = receipts
      /\ b.faithful = ~tainted
  BY <1>1
<1>3. /\ phase = "save" /\ phase' = "idle" /\ next' = 1
      /\ UNCHANGED <<failed, root, cache, receipts, tainted>>
  BY DEF AddBlock
<1>4. b.faithful => Repeats(b.txs, b.time, b.root, b.receipts)
  BY <1>2, <1>3 DEF ValidInv, Committing
<1>5. FreshBlocksValidate'
  BY <1>1, <1>4, FreshGrown DEF ValidInv
<1> QED
  BY <1>3, <1>5 DEF ValidInv, Committing

(* A synchronised block is a replay. *)
LEMMA ValidInvSynchronize == AccountInv /\ ValidInv /\ Synchronize => ValidInv'
<1> SUFFICES ASSUME AccountInv, ValidInv, Synchronize PROVE ValidInv'
  OBVIOUS
<1>1. PICK txs \in Proposals, delay \in Delays :
        LET now == Latest.time + delay
            result == Replay(Latest.root, txs, now)
            after == Flushed(Latest.root, result.cache)
        IN /\ result.ok
           /\ chain' = Append(chain, [txs |-> txs, time |-> now, root |-> after,
                                      receipts |-> result.receipts, faithful |-> TRUE])
  BY DEF Synchronize
<1> DEFINE now == Latest.time + delay
           result == Replay(Latest.root, txs, now)
           after == Flushed(Latest.root, result.cache)
<1>2. PICK b : /\ b = [txs |-> txs, time |-> now, root |-> after,
                       receipts |-> result.receipts, faithful |-> TRUE]
               /\ chain' = Append(chain, b)
  BY <1>1
<1> HIDE DEF now
<1>3. b.txs = txs /\ b.time = now /\ b.root = after /\ b.receipts = result.receipts
  BY <1>2
<1>4. result.ok
  BY <1>1 DEF now
<1>5. Repeats(b.txs, b.time, b.root, b.receipts)
  BY <1>3, <1>4 DEF Repeats
<1>6. FreshBlocksValidate'
  BY <1>2, <1>5, FreshGrown DEF ValidInv
<1>7. phase = "idle" /\ UNCHANGED <<phase, tainted, block, next, failed, root, cache, receipts>>
  BY DEF Synchronize, running
<1> QED
  BY <1>6, <1>7 DEF ValidInv, Committing

(* So every step keeps it. *)
LEMMA ValidInvStep == AccountInv /\ ValidInv /\ [Next]_vars => ValidInv'
<1> SUFFICES ASSUME AccountInv, ValidInv, [Next]_vars PROVE ValidInv'
  OBVIOUS
<1>1. CASE ProcessBlock
  <2>1. /\ phase = "idle" /\ phase' = "start" /\ UNCHANGED <<chain, next, failed>>
    BY <1>1 DEF ProcessBlock
  <2> QED
    BY <2>1 DEF ValidInv, FreshBlocksValidate, Validates, Committing
<1>2. CASE NoTransactions
  <2>1. /\ phase = "start" /\ phase' = "idle" /\ UNCHANGED <<chain, next, failed>>
    BY <1>2 DEF NoTransactions
  <2> QED
    BY <2>1 DEF ValidInv, FreshBlocksValidate, Validates, Committing
<1>3. CASE Retry
  <2>1. phase' = "start" /\ next' = 1 /\ failed' = {} /\ UNCHANGED chain
    BY <1>3 DEF Retry
  <2> QED
    BY <2>1 DEF ValidInv, FreshBlocksValidate, Validates, Committing
<1>4. CASE Crash
  <2>1. phase' = "idle" /\ next' = 1 /\ failed' = {} /\ UNCHANGED chain
    BY <1>4 DEF Crash
  <2> QED
    BY <2>1 DEF ValidInv, FreshBlocksValidate, Validates, Committing
<1>5. CASE Commit
  BY <1>5, ValidInvKept DEF Commit, running, Committing
<1>6. CASE CommitReceipts
  <2>1. /\ phase = "commitReceipts" /\ phase' = "save"
        /\ UNCHANGED <<chain, block, next, failed, root, receipts, tainted>>
    BY <1>6 DEF CommitReceipts
  <2>2. FreshBlocksValidate' /\ Latest' = Latest
    BY <2>1 DEF ValidInv, FreshBlocksValidate, Validates, Latest
  <2>3. ~tainted => Repeats(block.txs, block.time, root, receipts)'
    BY <2>1, <2>2 DEF ValidInv, Repeats, Committing
  <2> QED
    BY <2>1, <2>2, <2>3 DEF ValidInv, Committing
<1>7. CASE UNCHANGED vars
  BY <1>7, ValidInvKept DEF vars
<1> QED
  BY <1>1, <1>2, <1>3, <1>4, <1>5, <1>6, <1>7, ValidInvStartRun, ValidInvRunTx,
     ValidInvFlush, ValidInvAddBlock, ValidInvSynchronize DEF Next

(* Another node that runs a block on the block before it comes to the same *)
(* state and receipts, if the passes at this node began without stale      *)
(* accounts: failed passes, removed transactions, crashes and blocks that  *)
(* Update adds leave nothing else behind.                                  *)
THEOREM FreshBlocksAlwaysValidate == Spec => []FreshBlocksValidate
<1>1. Init => AccountInv /\ ValidInv
  BY AccountInvInit, ValidInvInit
<1>2. AccountInv /\ ValidInv /\ [Next]_vars => AccountInv' /\ ValidInv'
  BY AccountInvStep, ValidInvStep
<1>3. ValidInv => FreshBlocksValidate
  BY DEF ValidInv
<1> QED
  BY <1>1, <1>2, <1>3, PTL DEF Spec


(***************************************************************************)
(* Payments.  Seen(ch, i) are the receipts of the first i blocks.  In any  *)
(* block of the chain the open requests' agreements are among them, and    *)
(* the payments have enough.  In a pass the receipts so far are seen too,  *)
(* by the contracts that a transaction of this pass has changed: what the  *)
(* cache has besides is of an earlier block.                               *)
(***************************************************************************)
Seen(ch, i) == UNION {ch[j].receipts : j \in 1 .. i}

History == Seen(chain, Len(chain))

WorldRecorded(world, seen) == \A a \in Key : Recorded(world[a].code, a, seen)

WorldPays(world, r, seen) ==
  \A p \in r : /\ Sponsored(p)
               /\ p.kind = "pay" => /\ p.contract \in Key
                                   /\ world[p.contract].code.kind = "multiSign"
                                   /\ Endorsed(p, world[p.contract].code, seen)

CacheRecorded(c, A, seen, more) ==
  \A a \in DOMAIN c : \/ Recorded(c[a].account.code, a, seen)
                      \/ a \in A /\ Recorded(c[a].account.code, a, more)

Touched == {block.txs[i].to : i \in {j \in 1 .. next - 1 : block.txs[j] \notin failed}}

ChainPays(ch) ==
  \A i \in DOMAIN ch : /\ WorldRecorded(ch[i].root, Seen(ch, i))
                       /\ WorldPays(ch[i].root, ch[i].receipts, Seen(ch, i))

PayInv ==
  /\ ChainPays(chain)
  /\ IsInjective(block.txs)
  /\ phase = "idle" => \A a \in DOMAIN cache : Recorded(cache[a].account.code, a, History)
  /\ phase = "start" =>
       \A a \in DOMAIN cache : \/ a \in Addresses(block.txs)
                               \/ Recorded(cache[a].account.code, a, History)
  /\ phase = "run" =>
       /\ failed \subseteq {block.txs[i] : i \in 1 .. next - 1}
       /\ CacheRecorded(cache, Touched, History, History \cup receipts)
       /\ CachePays(cache, receipts, History \cup receipts)
  /\ phase \in Committing => /\ WorldRecorded(root, History \cup receipts)
                             /\ WorldPays(root, receipts, History \cup receipts)
  /\ phase = "save" => cache = NoCache

(* A new block whose payments are right.                                   *)
LEMMA PaysGrown ==
  ASSUME AccountInv, ChainPays(chain), NEW b, chain' = Append(chain, b),
         WorldRecorded(b.root, History \cup b.receipts),
         WorldPays(b.root, b.receipts, History \cup b.receipts)
  PROVE  ChainPays(chain') /\ History' = History \cup b.receipts
<1>1. PICK S : chain \in Seq(S)
  BY DEF AccountInv, ChainGrown
<1> DEFINE n == Len(chain)
<1>2. /\ chain' \in Seq(S \cup {b})
      /\ DOMAIN chain' = DOMAIN chain \cup {n + 1}
      /\ chain'[n + 1] = b
      /\ \A i \in DOMAIN chain : chain'[i] = chain[i]
  BY <1>1, AppendedBlock
<1>3. n \in Nat /\ DOMAIN chain = 1 .. n /\ Len(chain') = n + 1
  BY <1>1
<1>4. \A i \in DOMAIN chain : Seen(chain', i) = Seen(chain, i)
  <2> SUFFICES ASSUME NEW i \in DOMAIN chain PROVE Seen(chain', i) = Seen(chain, i)
    OBVIOUS
  <2>1. \A j \in 1 .. i : chain'[j] = chain[j]
    BY <1>2, <1>3
  <2> QED
    BY <2>1 DEF Seen
<1>5. Seen(chain', n + 1) = Seen(chain, n) \cup b.receipts
  <2>1. 1 .. n + 1 = (1 .. n) \cup {n + 1}
    BY <1>3
  <2>2. \A j \in 1 .. n : chain'[j] = chain[j]
    BY <1>2, <1>3
  <2> HIDE DEF n
  <2> QED
    BY <1>2, <2>1, <2>2 DEF Seen
<1>6. History' = History \cup b.receipts
  BY <1>3, <1>5 DEF History
<1>7. ASSUME NEW i \in DOMAIN chain'
      PROVE  /\ WorldRecorded(chain'[i].root, Seen(chain', i))
             /\ WorldPays(chain'[i].root, chain'[i].receipts, Seen(chain', i))
  <2>1. CASE i \in DOMAIN chain
    BY <1>2, <1>4, <2>1 DEF ChainPays
  <2>2. CASE i = n + 1
    BY <1>2, <1>5, <2>2 DEF History
  <2> QED
    BY <1>2, <2>1, <2>2
<1> QED
  BY <1>6, <1>7 DEF ChainPays

(* Writing the cache back.                                                 *)
LEMMA FlushedPays ==
  ASSUME NEW trie, NEW c, SoundCache(c), NEW seen, WorldRecorded(trie, seen),
         \A a \in DOMAIN c : Recorded(c[a].account.code, a, seen),
         NEW r, CachePays(c, r, seen)
  PROVE  WorldRecorded(Flushed(trie, c), seen) /\ WorldPays(Flushed(trie, c), r, seen)
<1> DEFINE w == Flushed(trie, c)
<1>1. \A a \in Key : w[a] = IF a \in DOMAIN c /\ c[a].modified THEN c[a].account ELSE trie[a]
  BY DEF Flushed
<1> HIDE DEF w
<1>2. DOMAIN c \subseteq Key
  BY DEF SoundCache
<1>3. WorldRecorded(w, seen)
  BY <1>1 DEF WorldRecorded
<1>4. WorldPays(w, r, seen)
  BY <1>1, <1>2 DEF WorldPays, CachePays
<1> QED
  BY <1>3, <1>4 DEF w

(* One transaction more.                                                   *)
LEMMA RecordsMore ==
  ASSUME NEW c, SoundCache(c), NEW trie, SoundWorld(trie), NEW tx, Signed(tx), NEW now \in Nat,
         TxValid(c, tx, now), NEW seen, WorldRecorded(trie, seen),
         NEW s, NEW A, CacheRecorded(c, A, seen, seen \cup s),
         NEW e, e = TxReceipts(c, tx, now)
  PROVE  /\ Recorded(Lookup(c, tx.to).code, tx.to, seen \cup s)
         /\ CacheRecorded(TxCache(c, trie, tx, now), A \cup {tx.to}, seen, seen \cup (s \cup e))
<1>1. PICK r, d, most : /\ r = TxResult(c, tx, now) /\ d = TxCache(c, trie, tx, now)
                        /\ most = (seen \cup s) \cup e
  OBVIOUS
<1>2. CodesFrom(c, trie, tx, r, d)
  BY <1>1, TxCacheCodes
<1>3. \A a : Recorded(NoCode, a, seen)
  BY DEF Recorded, NoCode
<1>4. \A code, a : Recorded(code, a, seen) => Recorded(code, a, seen \cup s)
  <2>1. seen \subseteq seen \cup s
    OBVIOUS
  <2> QED
    BY <2>1, RecordedMore
<1>5. \A code, a : Recorded(code, a, seen \cup s) => Recorded(code, a, most)
  <2>1. seen \cup s \subseteq most
    BY <1>1
  <2> QED
    BY <2>1, RecordedMore
<1>6. Recorded(Lookup(c, tx.to).code, tx.to, seen \cup s)
  <2>1. Empty.code = NoCode
    BY DEF Empty
  <2> QED
    BY <1>3, <1>4, <2>1 DEF Lookup, CacheRecorded
<1>7. Recorded(r.to.code, tx.to, most)
  <2>1. most = (seen \cup s) \cup TxReceipts(c, tx, now)
    BY <1>1
  <2> QED
    BY <1>1, <1>6, <2>1, ResultRecorded
<1>8. ASSUME NEW a \in DOMAIN d
      PROVE  \/ Recorded(d[a].account.code, a, seen)
             \/ a \in A \cup {tx.to} /\ Recorded(d[a].account.code, a, most)
  <2>1. CASE a = tx.to
    BY <1>2, <1>7, <2>1 DEF CodesFrom
  <2>2. CASE a # tx.to /\ d[a].account.code = NoCode
    BY <1>3, <2>2
  <2>3. CASE a # tx.to /\ a \in DOMAIN c /\ d[a].account.code = c[a].account.code
    BY <1>5, <2>3 DEF CacheRecorded
  <2>4. CASE a # tx.to /\ a \in Key /\ d[a].account.code = trie[a].code
    BY <2>4 DEF WorldRecorded
  <2> QED
    BY <1>2, <2>1, <2>2, <2>3, <2>4 DEF CodesFrom
<1>9. most = seen \cup (s \cup e)
  BY <1>1
<1> QED
  BY <1>1, <1>6, <1>8, <1>9 DEF CacheRecorded

(* Loading accounts into the cache.                                        *)
IsWarmed(old, trie, A, w) ==
  /\ DOMAIN w = DOMAIN old \cup A
  /\ \A a \in A : w[a].account = trie[a]
  /\ \A a \in DOMAIN old : a \notin A => w[a] = old[a]

(* What a loaded cache has is the old entry or the account of the trie. *)
LEMMA WarmedEntries ==
  ASSUME NEW old, NEW trie, NEW txs
  PROVE  IsWarmed(old, trie, Addresses(txs), Warmed(old, trie, txs))
<1> DEFINE w == Warmed(old, trie, txs)
<1>1. DOMAIN w = DOMAIN old \cup Addresses(txs)
  BY DEF Warmed
<1>2. \A a \in Addresses(txs) : w[a] = [account |-> trie[a], modified |-> FALSE]
  BY DEF Warmed
<1>3. \A a \in DOMAIN old : a \notin Addresses(txs) => w[a] = old[a]
  BY DEF Warmed
<1> HIDE DEF w
<1>4. ASSUME NEW a \in Addresses(txs) PROVE w[a].account = trie[a]
  <2>1. PICK e : e = w[a]
    OBVIOUS
  <2>2. e = [account |-> trie[a], modified |-> FALSE]
    BY <1>2, <2>1
  <2> QED
    BY <2>1, <2>2
<1>5. IsWarmed(old, trie, Addresses(txs), w)
  BY <1>1, <1>3, <1>4 DEF IsWarmed
<1> QED
  BY <1>5 DEF w

(* What a run at another node has come to.                                 *)
Replayed(x, seen) ==
  /\ {"cache", "receipts"} \subseteq DOMAIN x
  /\ SoundCache(x.cache)
  /\ CacheRecorded(x.cache, Key, seen, seen \cup x.receipts)
  /\ CachePays(x.cache, x.receipts, seen \cup x.receipts)

(* A replay begins with the contracts of the trie, *)
LEMMA ReplayedStart ==
  ASSUME NEW trie, SoundWorld(trie), NEW txs \in Seq(Transactions),
         NEW seen, WorldRecorded(trie, seen), NEW x,
         x = [cache |-> Warmed(NoCache, trie, txs), receipts |-> {}, ok |-> TRUE]
  PROVE  Replayed(x, seen)
<1>1. PICK c : c = Warmed(NoCache, trie, txs)
  OBVIOUS
<1>2. {"cache", "receipts"} \subseteq DOMAIN x /\ x.cache = c /\ x.receipts = {}
  BY <1>1
<1>3. SoundCache(c)
  BY <1>1, NoCacheSound, WarmedSound
<1>4. Addresses(txs) \subseteq Key /\ DOMAIN NoCache = {}
  BY AddressesAreKeys DEF NoCache
<1>5. DOMAIN c = Addresses(txs) /\ \A a \in Addresses(txs) : c[a].account = trie[a]
  <2>1. IsWarmed(NoCache, trie, Addresses(txs), c)
    BY <1>1, WarmedEntries
  <2> QED
    BY <1>4, <2>1 DEF IsWarmed
<1>6. CacheRecorded(c, Key, seen, seen \cup {})
  BY <1>4, <1>5 DEF CacheRecorded, WorldRecorded
<1>7. CachePays(c, {}, seen \cup {})
  BY DEF CachePays
<1> QED
  BY <1>2, <1>3, <1>6, <1>7 DEF Replayed

(* each of its steps records what it pays, *)
LEMMA ReplayedStep ==
  ASSUME NEW trie, SoundWorld(trie), NEW tx, Signed(tx), NEW now \in Nat,
         NEW seen, WorldRecorded(trie, seen), NEW was, Replayed(was, seen)
  PROVE  Replayed(ReplayStep(trie, tx, now, was), seen)
<1>1. CASE was.ok /\ TxValid(was.cache, tx, now)
  <2>1. PICK c, s, e, d : /\ c = was.cache /\ s = was.receipts
                          /\ e = TxReceipts(c, tx, now) /\ d = TxCache(c, trie, tx, now)
    OBVIOUS
  <2>2. PICK x : x = [cache |-> d, receipts |-> s \cup e, ok |-> TRUE]
    OBVIOUS
  <2>3. ReplayStep(trie, tx, now, was) = x
    BY <1>1, <2>1, <2>2 DEF ReplayStep
  <2>4. {"cache", "receipts"} \subseteq DOMAIN x /\ x.cache = d /\ x.receipts = s \cup e
    BY <2>2
  <2>5. /\ SoundCache(c) /\ TxValid(c, tx, now)
        /\ CacheRecorded(c, Key, seen, seen \cup s) /\ CachePays(c, s, seen \cup s)
    BY <1>1, <2>1 DEF Replayed
  <2>6. SoundCache(d)
    BY <2>1, <2>5, TxCacheSound
  <2>7. /\ Recorded(Lookup(c, tx.to).code, tx.to, seen \cup s)
        /\ CacheRecorded(TxCache(c, trie, tx, now), Key \cup {tx.to}, seen, seen \cup (s \cup e))
    BY <2>1, <2>5, RecordsMore
  <2>8. CachePays(TxCache(c, trie, tx, now), s \cup e, (seen \cup s) \cup e)
    BY <2>1, <2>5, <2>7, PaysMore
  <2>9. (seen \cup s) \cup e = seen \cup (s \cup e) /\ Key \cup {tx.to} = Key
    BY DEF Signed, Key
  <2> QED
    BY <2>1, <2>3, <2>4, <2>6, <2>7, <2>8, <2>9 DEF Replayed
<1>2. CASE ~(was.ok /\ TxValid(was.cache, tx, now))
  <2>1. PICK x : x = [was EXCEPT !.ok = FALSE]
    OBVIOUS
  <2>2. ReplayStep(trie, tx, now, was) = x
    BY <1>2, <2>1 DEF ReplayStep
  <2>3. {"cache", "receipts"} \subseteq DOMAIN was
    BY DEF Replayed
  <2>4. DOMAIN x = DOMAIN was /\ x.cache = was.cache /\ x.receipts = was.receipts
    BY <2>1, <2>3
  <2> QED
    BY <2>2, <2>4 DEF Replayed
<1> QED
  BY <1>1, <1>2

(* and so its end has enough agreements for every payment. *)
LEMMA ReplayPays ==
  ASSUME NEW trie, SoundWorld(trie), NEW txs \in Seq(Transactions), NEW now \in Nat,
         NEW seen, WorldRecorded(trie, seen)
  PROVE  Replayed(Replay(trie, txs, now), seen)
<1>1. PICK n, run : n = Len(txs) /\ run = RunOf(trie, txs, now)
  OBVIOUS
<1>2. n \in Nat /\ \A i \in 1 .. n : Signed(txs[i])
  BY <1>1, SignedInBlock
<1>3. \A i \in 0 .. n : run[i] = ReplayAt(trie, txs, now, i, run)
  BY <1>1, RunOfReplay
<1> DEFINE P == {i \in Nat : i <= n => Replayed(run[i], seen)}
<1>4. 0 \in P
  <2>1. run[0] = [cache |-> Warmed(NoCache, trie, txs), receipts |-> {}, ok |-> TRUE]
    <3>1. 0 \in 0 .. n
      BY <1>2
    <3>2. run[0] = ReplayAt(trie, txs, now, 0, run)
      BY <1>3, <3>1
    <3> QED
      BY <3>2 DEF ReplayAt
  <2>2. Replayed(run[0], seen)
    BY <2>1, ReplayedStart
  <2> QED
    BY <2>2
<1>5. ASSUME NEW i \in P PROVE i + 1 \in P
  <2>1. i \in Nat /\ (i <= n => Replayed(run[i], seen))
    OBVIOUS
  <2>2. ASSUME i + 1 <= n PROVE Replayed(run[i + 1], seen)
    <3>1. i + 1 \in 0 .. n /\ i + 1 # 0 /\ (i + 1) - 1 = i /\ i <= n /\ i + 1 \in 1 .. n
      BY <1>2, <2>1, <2>2
    <3>2. run[i + 1] = ReplayStep(trie, txs[i + 1], now, run[i])
      BY <1>3, <3>1 DEF ReplayAt
    <3>3. Signed(txs[i + 1]) /\ Replayed(run[i], seen)
      BY <1>2, <2>1, <3>1
    <3> QED
      BY <3>2, <3>3, ReplayedStep
  <2> QED
    BY <2>1, <2>2
<1>6. P \in SUBSET Nat
  OBVIOUS
<1> HIDE DEF P
<1>7. P = Nat
  BY <1>4, <1>5, <1>6, Induction
<1>8. Replayed(run[n], seen)
  BY <1>2, <1>7 DEF P
<1> QED
  BY <1>1, <1>8, RunOfReplay

(* The steps of a node.                                                    *)
LEMMA PayInvInit == Init => PayInv
<1> SUFFICES ASSUME Init PROVE PayInv
  OBVIOUS
<1> DEFINE b == [txs |-> << >>, time |-> StartTime, root |-> Genesis, receipts |-> {},
                 faithful |-> TRUE]
<1>1. chain = <<b>>
  BY DEF Init
<1>2. DOMAIN chain = {1} /\ chain[1] = b
  BY <1>1
<1>3. b.root = Genesis /\ b.receipts = {}
  OBVIOUS
<1> HIDE DEF b
<1>4. \A a \in Key : Genesis[a].code.kind = "multiSign" => Genesis[a].code.payee = NoOne
  <2>1. \A code : code = NewMultiSign(code) => code.payee = NoOne
    BY DEF NewMultiSign
  <2> QED
    BY <2>1, GenesisAssumption
<1>5. ChainPays(chain)
  BY <1>2, <1>3, <1>4 DEF ChainPays, WorldRecorded, WorldPays, Recorded, RequestOpen
<1>6. block.txs = << >>
  BY DEF Init, NoBlock
<1>7. phase = "idle" /\ DOMAIN cache = {}
  BY DEF Init, NoCache
<1> QED
  BY <1>5, <1>6, <1>7 DEF PayInv, Committing, IsInjective

(* The latest block has what the chain has.                                *)
LEMMA LatestRecorded ==
  ASSUME AccountInv, ChainPays(chain)
  PROVE  WorldRecorded(Latest.root, History)
<1>1. PICK S : chain \in Seq(S) /\ chain # << >>
  BY DEF AccountInv, ChainGrown
<1>2. Len(chain) \in DOMAIN chain
  BY <1>1
<1> QED
  BY <1>2 DEF ChainPays, Latest, History

(* A pass begins with the contracts of the chain's last state. *)
LEMMA PayInvStartRun == AccountInv /\ ValidInv /\ PayInv /\ StartRun => PayInv'
<1> SUFFICES ASSUME AccountInv, ValidInv, PayInv, StartRun PROVE PayInv'
  OBVIOUS
<1>1. /\ phase = "start" /\ phase' = "run" /\ receipts' = {} /\ root' = Latest.root
      /\ cache' = Warmed(cache, Latest.root, block.txs)
      /\ UNCHANGED <<chain, block, next, failed>>
  BY DEF StartRun
<1>2. IsWarmed(cache, Latest.root, Addresses(block.txs), cache')
  BY <1>1, WarmedEntries
<1>3. Addresses(block.txs) \subseteq Key
  BY AddressesAreKeys DEF AccountInv, Blocks
<1>4. WorldRecorded(Latest.root, History)
  BY LatestRecorded DEF PayInv
<1>5. History' = History
  BY <1>1 DEF History
<1>6. \A a \in DOMAIN cache' : Recorded(cache'[a].account.code, a, History)
  BY <1>1, <1>2, <1>3, <1>4 DEF WorldRecorded, PayInv, IsWarmed
<1>7. CacheRecorded(cache', Touched', History', History' \cup receipts')
  BY <1>5, <1>6 DEF CacheRecorded
<1>8. CachePays(cache', receipts', History' \cup receipts')
  BY <1>1 DEF CachePays
<1>9. failed' = {}
  BY <1>1 DEF ValidInv
<1> QED
  BY <1>1, <1>7, <1>8, <1>9 DEF PayInv, Committing

(* The transaction that is run is not among the failed ones.               *)
LEMMA NextUnfailed ==
  ASSUME AccountInv, PayInv, phase = "run", next <= Len(block.txs)
  PROVE  block.txs[next] \notin failed
<1>1. next \in 1 .. Len(block.txs) /\ DOMAIN block.txs = 1 .. Len(block.txs)
  BY DEF AccountInv, Blocks
<1>2. \A i \in 1 .. next - 1 : i \in DOMAIN block.txs /\ i # next
  BY <1>1
<1> QED
  BY <1>1, <1>2 DEF PayInv, IsInjective

(* A transaction that pays has the agreements, in this pass or in earlier blocks. *)
LEMMA PayInvRunTx == AccountInv /\ ValidInv /\ PayInv /\ RunTx => PayInv'
<1> SUFFICES ASSUME AccountInv, ValidInv, PayInv, RunTx PROVE PayInv'
  OBVIOUS
<1>1. PICK tx : tx = block.txs[next]
  OBVIOUS
<1>2. phase = "run" /\ next <= Len(block.txs) /\ next' = next + 1
  BY DEF RunTx
<1>3. UNCHANGED <<chain, phase, block, root>>
  BY DEF RunTx
<1>4. Signed(tx) /\ block.time \in Nat
  BY <1>1, <1>2, NextTransaction
<1>5. SoundCache(cache) /\ SoundWorld(root)
  BY DEF AccountInv
<1>6. next \in Nat /\ next' - 1 = next /\ 1 .. next' - 1 = (1 .. next - 1) \cup {next}
  BY <1>2 DEF AccountInv
<1>7. tx \notin failed
  BY <1>1, <1>2, NextUnfailed
<1>8. History' = History
  BY <1>3 DEF History
<1>9. /\ failed \subseteq {block.txs[i] : i \in 1 .. next - 1}
      /\ CacheRecorded(cache, Touched, History, History \cup receipts)
      /\ CachePays(cache, receipts, History \cup receipts)
  BY <1>2 DEF PayInv
<1>10. WorldRecorded(root, History)
  BY <1>2, LatestRecorded DEF ValidInv, PayInv
<1>11. failed' \subseteq {block.txs[i] : i \in 1 .. next' - 1}
  BY <1>1, <1>6, <1>9 DEF RunTx
<1>12. /\ CacheRecorded(cache', Touched', History, History \cup receipts')
       /\ CachePays(cache', receipts', History \cup receipts')
  <2>1. CASE /\ TxValid(cache, tx, block.time)
             /\ cache' = TxCache(cache, root, tx, block.time)
             /\ receipts' = receipts \cup TxReceipts(cache, tx, block.time)
             /\ failed' = failed
    <3>1. PICK e : e = TxReceipts(cache, tx, block.time)
      OBVIOUS
    <3>2. Touched' = Touched \cup {tx.to}
      BY <1>1, <1>3, <1>6, <1>7, <2>1 DEF Touched
    <3>3. /\ Recorded(Lookup(cache, tx.to).code, tx.to, History \cup receipts)
          /\ CacheRecorded(cache', Touched \cup {tx.to}, History, History \cup (receipts \cup e))
      BY <1>4, <1>5, <1>9, <1>10, <2>1, <3>1, RecordsMore
    <3>4. CachePays(cache', receipts \cup e, (History \cup receipts) \cup e)
      BY <1>4, <1>5, <1>9, <2>1, <3>1, <3>3, PaysMore
    <3>5. (History \cup receipts) \cup e = History \cup (receipts \cup e)
      OBVIOUS
    <3> QED
      BY <2>1, <3>1, <3>2, <3>3, <3>4, <3>5
  <2>2. CASE cache' = cache /\ receipts' = receipts /\ failed' = failed \cup {tx}
    <3>1. Touched \subseteq Touched'
      <4> SUFFICES ASSUME NEW i \in 1 .. next - 1, block.txs[i] \notin failed
                   PROVE  block.txs[i].to \in Touched'
        BY DEF Touched
      <4>1. next \in DOMAIN block.txs /\ i \in DOMAIN block.txs /\ i # next
        BY <1>2, <1>6 DEF AccountInv, Blocks
      <4>2. block.txs[i] # tx
        BY <1>1, <4>1 DEF PayInv, IsInjective
      <4> QED
        BY <1>3, <1>6, <2>2, <4>2 DEF Touched
    <3>2. CacheRecorded(cache, Touched', History, History \cup receipts)
      BY <1>9, <3>1 DEF CacheRecorded
    <3> QED
      BY <1>9, <2>2, <3>2
  <2> QED
    BY <1>1, <2>1, <2>2 DEF RunTx
<1> QED
  BY <1>2, <1>3, <1>8, <1>11, <1>12 DEF PayInv, Committing

(* A failed pass is run again without what failed: its receipts are forgotten. *)
LEMMA PayInvRetry == AccountInv /\ ValidInv /\ PayInv /\ Retry => PayInv'
<1> SUFFICES ASSUME AccountInv, ValidInv, PayInv, Retry PROVE PayInv'
  OBVIOUS
<1>1. PICK rest : rest = Without(block.txs, failed)
  OBVIOUS
<1>2. /\ phase = "run" /\ phase' = "start" /\ UNCHANGED <<chain, cache>>
      /\ block' = [block EXCEPT !.txs = rest]
  BY <1>1 DEF Retry
<1>3. block.txs \in Seq(Transactions) /\ block'.txs = rest
  BY <1>2 DEF AccountInv, Blocks
<1>4. IsInjective(rest) /\ Range(rest) = Range(block.txs) \ failed
  BY <1>1, <1>3, WithoutKeeps DEF PayInv
<1>5. \A i \in DOMAIN block.txs :
        block.txs[i] \notin failed => block.txs[i].to \in Addresses(rest)
  <2> SUFFICES ASSUME NEW i \in DOMAIN block.txs, block.txs[i] \notin failed
               PROVE  block.txs[i].to \in Addresses(rest)
    OBVIOUS
  <2>1. block.txs[i] \in Range(rest)
    BY <1>4 DEF Range
  <2>2. PICK j \in DOMAIN rest : rest[j] = block.txs[i]
    BY <2>1 DEF Range
  <2> QED
    BY <2>2 DEF Addresses
<1>6. Touched \subseteq Addresses(rest)
  <2>1. next \in Nat /\ DOMAIN block.txs = 1 .. Len(block.txs) /\ next <= Len(block.txs) + 1
    BY <1>2, <1>3 DEF AccountInv, ValidInv
  <2>2. \A i \in 1 .. next - 1 : i \in DOMAIN block.txs
    BY <2>1
  <2> QED
    BY <1>5, <2>2 DEF Touched
<1>7. \A a \in DOMAIN cache : \/ a \in Addresses(rest)
                               \/ Recorded(cache[a].account.code, a, History)
  BY <1>2, <1>6 DEF PayInv, CacheRecorded
<1>8. History' = History
  BY <1>2 DEF History
<1> QED
  BY <1>2, <1>3, <1>4, <1>7, <1>8 DEF PayInv, Committing

(* Flushing writes the contracts this pass has changed. *)
LEMMA PayInvFlush == AccountInv /\ ValidInv /\ PayInv /\ Flush => PayInv'
<1> SUFFICES ASSUME AccountInv, ValidInv, PayInv, Flush PROVE PayInv'
  OBVIOUS
<1>1. PICK seen : seen = History \cup receipts
  OBVIOUS
<1>2. /\ phase = "run" /\ phase' = "commit" /\ root' = Flushed(root, cache)
      /\ UNCHANGED <<chain, block, receipts>>
  BY DEF Flush
<1>3. \A code, a : Recorded(code, a, History) => Recorded(code, a, seen)
  BY <1>1, RecordedMore
<1>4. WorldRecorded(root, seen)
  BY <1>2, <1>3, LatestRecorded DEF ValidInv, PayInv, WorldRecorded
<1>5. \A a \in DOMAIN cache : Recorded(cache[a].account.code, a, seen)
  BY <1>1, <1>2, <1>3 DEF PayInv, CacheRecorded
<1>6. SoundCache(cache) /\ CachePays(cache, receipts, seen)
  BY <1>1, <1>2 DEF AccountInv, PayInv
<1>7. WorldRecorded(root', seen) /\ WorldPays(root', receipts, seen)
  BY <1>2, <1>4, <1>5, <1>6, FlushedPays
<1>8. History' \cup receipts' = seen
  BY <1>1, <1>2 DEF History
<1> QED
  BY <1>2, <1>7, <1>8 DEF PayInv

(* The block that is added has the receipts of its pass. *)
LEMMA PayInvAddBlock == AccountInv /\ PayInv /\ AddBlock => PayInv'
<1> SUFFICES ASSUME AccountInv, PayInv, AddBlock PROVE PayInv'
  OBVIOUS
<1>1. PICK b : /\ b = [txs |-> block.txs, time |-> block.time, root |-> root,
                       receipts |-> receipts, faithful |-> ~tainted]
               /\ chain' = Append(chain, b)
  BY DEF AddBlock
<1>2. b.root = root /\ b.receipts = receipts
  BY <1>1
<1>3. phase = "save" /\ phase' = "idle" /\ cache' = cache /\ block'.txs = << >>
  BY DEF AddBlock, NoBlock
<1>4. /\ WorldRecorded(b.root, History \cup b.receipts)
      /\ WorldPays(b.root, b.receipts, History \cup b.receipts)
  BY <1>2, <1>3 DEF PayInv, Committing
<1>5. ChainPays(chain')
  BY <1>1, <1>4, PaysGrown DEF PayInv
<1>6. DOMAIN cache' = {}
  BY <1>3 DEF PayInv, NoCache
<1> QED
  BY <1>3, <1>5, <1>6 DEF PayInv, Committing, IsInjective

(* A synchronised block has the receipts of its replay. *)
LEMMA PayInvSynchronize == AccountInv /\ PayInv /\ Synchronize => PayInv'
<1> SUFFICES ASSUME AccountInv, PayInv, Synchronize PROVE PayInv'
  OBVIOUS
<1>1. PICK txs \in Proposals, delay \in Delays :
        LET now == Latest.time + delay
            result == Replay(Latest.root, txs, now)
            after == Flushed(Latest.root, result.cache)
        IN chain' = Append(chain, [txs |-> txs, time |-> now, root |-> after,
                                   receipts |-> result.receipts, faithful |-> TRUE])
  BY DEF Synchronize
<1>2. PICK now, result, after :
        /\ now = Latest.time + delay
        /\ result = Replay(Latest.root, txs, now)
        /\ after = Flushed(Latest.root, result.cache)
  OBVIOUS
<1>3. PICK b : /\ b = [txs |-> txs, time |-> now, root |-> after,
                       receipts |-> result.receipts, faithful |-> TRUE]
               /\ chain' = Append(chain, b)
  BY <1>1, <1>2
<1>4. b.root = after /\ b.receipts = result.receipts
  BY <1>3
<1>5. txs \in Seq(Transactions) /\ now \in Nat
  BY <1>2, LatestSealed, ProposalsAreSeqs, TimeAssumption
<1>6. SoundWorld(Latest.root) /\ WorldRecorded(Latest.root, History)
  BY LatestSealed, LatestRecorded DEF Sealed, PayInv
<1>7. PICK seen : seen = History \cup result.receipts
  OBVIOUS
<1>8. /\ SoundCache(result.cache) /\ CacheRecorded(result.cache, Key, History, seen)
      /\ CachePays(result.cache, result.receipts, seen)
  BY <1>2, <1>5, <1>6, <1>7, ReplayPays DEF Replayed
<1>9. \A code, a : Recorded(code, a, History) => Recorded(code, a, seen)
  BY <1>7, RecordedMore
<1>10. WorldRecorded(after, seen) /\ WorldPays(after, result.receipts, seen)
  <2>1. WorldRecorded(Latest.root, seen)
    BY <1>6, <1>9 DEF WorldRecorded
  <2>2. \A a \in DOMAIN result.cache : Recorded(result.cache[a].account.code, a, seen)
    BY <1>8, <1>9 DEF CacheRecorded
  <2> QED
    BY <1>2, <1>8, <2>1, <2>2, FlushedPays
<1>11. ChainPays(chain') /\ History' = seen
  BY <1>3, <1>4, <1>7, <1>10, PaysGrown DEF PayInv
<1>12. phase = "idle" /\ UNCHANGED <<phase, block, cache>>
  BY DEF Synchronize, running
<1> QED
  BY <1>9, <1>11, <1>12 DEF PayInv, Committing

(* So every step keeps it. *)
LEMMA PayInvStep == AccountInv /\ ValidInv /\ PayInv /\ [Next]_vars => PayInv'
<1> SUFFICES ASSUME AccountInv, ValidInv, PayInv, [Next]_vars PROVE PayInv'
  OBVIOUS
<1>1. CASE ProcessBlock
  <2>1. PICK txs \in Proposals : block'.txs = txs
    BY <1>1 DEF ProcessBlock
  <2>2. phase = "idle" /\ phase' = "start" /\ UNCHANGED <<chain, cache>>
    BY <1>1 DEF ProcessBlock
  <2> QED
    BY <2>1, <2>2 DEF PayInv, Committing, History, Proposals
<1>2. CASE NoTransactions
  <2>1. /\ phase = "start" /\ phase' = "idle" /\ block.txs = << >> /\ block'.txs = << >>
        /\ UNCHANGED <<chain, cache>>
    BY <1>2 DEF NoTransactions, NoBlock
  <2>2. Addresses(block.txs) = {}
    BY <2>1 DEF Addresses
  <2> QED
    BY <2>1, <2>2 DEF PayInv, Committing, History, IsInjective
<1>3. CASE Commit
  <2>1. phase = "commit" /\ phase' = "commitReceipts" /\ UNCHANGED <<chain, block, root, receipts>>
    BY <1>3 DEF Commit, running
  <2> QED
    BY <2>1 DEF PayInv, Committing, History
<1>4. CASE CommitReceipts
  <2>1. /\ phase = "commitReceipts" /\ phase' = "save" /\ cache' = NoCache
        /\ UNCHANGED <<chain, block, root, receipts>>
    BY <1>4 DEF CommitReceipts
  <2> QED
    BY <2>1 DEF PayInv, Committing, History
<1>5. CASE Crash
  <2>1. phase' = "idle" /\ chain' = chain /\ block'.txs = << >> /\ DOMAIN cache' = {}
    BY <1>5 DEF Crash, NoBlock, NoCache
  <2> QED
    BY <2>1 DEF PayInv, Committing, IsInjective
<1>6. CASE UNCHANGED vars
  BY <1>6 DEF vars, PayInv, History, Touched
<1> QED
  BY <1>1, <1>2, <1>3, <1>4, <1>5, <1>6, PayInvStartRun, PayInvRunTx, PayInvRetry,
     PayInvFlush, PayInvAddBlock, PayInvSynchronize DEF Next

(* What is endorsed has enough agreements.                                 *)
LEMMA EnoughAgreements ==
  ASSUME NEW seen, \A r \in seen : Sponsored(r),
         NEW paid \in seen, NEW code, code.threshold \in Nat, Len(code.authority) \in Nat,
         Endorsed(paid, code, seen)
  PROVE  LET agreed == {r \in seen : r = [paid EXCEPT !.kind = "agree", !.sponsor = r.sponsor]}
         IN Cardinality({r.sponsor : r \in agreed}) * 100 >= code.threshold * Len(code.authority)
<1> DEFINE agreed == {r \in seen : r = [paid EXCEPT !.kind = "agree", !.sponsor = r.sponsor]}
           T == {r.sponsor : r \in agreed}
<1>1. PICK S \in SUBSET Address :
        /\ \A who \in S : AgreedBy(paid, who) \in seen
        /\ Cardinality(S) * 100 >= code.threshold * Len(code.authority)
  BY DEF Endorsed
<1>2. T \subseteq Key
  BY DEF Sponsored
<1>3. ASSUME NEW who \in S PROVE who \in T
  <2>1. PICK r : r = AgreedBy(paid, who)
    OBVIOUS
  <2>2. "sponsor" \in DOMAIN paid
    BY DEF Sponsored
  <2>3. r.sponsor = who
    BY <2>1, <2>2 DEF AgreedBy
  <2>4. r \in agreed
    BY <1>1, <2>1, <2>3 DEF AgreedBy
  <2> HIDE DEF agreed
  <2> QED
    BY <2>3, <2>4
<1> HIDE DEF T
<1>4. IsFiniteSet(T) /\ IsFiniteSet(S) /\ Cardinality(S) <= Cardinality(T)
  BY <1>2, <1>3, KeysFinite, FS_Subset
<1>5. Cardinality(S) \in Nat /\ Cardinality(T) \in Nat
  BY <1>4, FS_CardinalityType
<1>6. PICK x : x = code.threshold * Len(code.authority)
  OBVIOUS
<1>7. x \in Nat
  BY <1>6
<1>8. Cardinality(T) * 100 >= x
  BY <1>1, <1>4, <1>5, <1>6, <1>7
<1> QED
  BY <1>6, <1>8 DEF T

(* Every payment a block reports has enough agreements of different        *)
(* authorities to the same request, in the receipts of this block and of   *)
(* those before it, whatever passes are given up, accounts stay in the     *)
(* cache between passes, and blocks come from other nodes.                 *)
THEOREM PaymentsAlwaysApproved == Spec => []PaymentsApproved
<1>1. Init => AccountInv /\ ValidInv /\ PayInv
  BY AccountInvInit, ValidInvInit, PayInvInit
<1>2. AccountInv /\ ValidInv /\ PayInv /\ [Next]_vars => AccountInv' /\ ValidInv' /\ PayInv'
  BY AccountInvStep, ValidInvStep, PayInvStep
<1>3. AccountInv /\ PayInv => PaymentsApproved
  <2> SUFFICES ASSUME AccountInv, PayInv, NEW i \in DOMAIN chain,
                      NEW paid \in chain[i].receipts, paid.kind = "pay"
               PROVE  LET m == chain[i].root[paid.contract].code
                          agreed == {r \in UNION {chain[j].receipts : j \in 1 .. i} :
                                       r = [paid EXCEPT !.kind = "agree", !.sponsor = r.sponsor]}
                      IN Cardinality({r.sponsor : r \in agreed}) * 100
                           >= m.threshold * Len(m.authority)
    BY DEF PaymentsApproved
  <2>1. PICK seen : seen = Seen(chain, i)
    OBVIOUS
  <2>2. PICK S : chain \in Seq(S)
    BY DEF AccountInv, ChainGrown
  <2>3. i \in Nat /\ i \in 1 .. i /\ \A j \in 1 .. i : j \in DOMAIN chain
    BY <2>2
  <2>4. \A r \in seen : Sponsored(r)
    BY <2>1, <2>3 DEF Seen, PayInv, ChainPays, WorldPays
  <2>5. paid \in seen
    BY <2>1, <2>3 DEF Seen
  <2>6. PICK code : code = chain[i].root[paid.contract].code
    OBVIOUS
  <2>7. Endorsed(paid, code, seen)
    BY <2>1, <2>6 DEF PayInv, ChainPays, WorldPays
  <2>8. code.threshold \in Nat /\ Len(code.authority) \in Nat
    <3>1. paid.contract \in Key /\ code.kind = "multiSign"
      BY <2>6 DEF PayInv, ChainPays, WorldPays
    <3>2. Sound(chain[i].root[paid.contract])
      BY <3>1 DEF AccountInv, Sealed, SoundWorld
    <3>3. code \in MultiSigns
      BY <2>6, <3>1, <3>2, Kinds DEF Sound
    <3> QED
      BY <3>3, MultiSignFields
  <2> QED
    BY <2>1, <2>4, <2>5, <2>6, <2>7, <2>8, EnoughAgreements DEF Seen
<1> QED
  BY <1>1, <1>2, <1>3, PTL DEF Spec
================================================================================
