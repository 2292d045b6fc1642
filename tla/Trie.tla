-------------------------------- MODULE Trie --------------------------------
(***************************************************************************)
(* The checkpointed tries of a node over its one database of trie nodes:   *)
(* the trie of the processor and that of Update, each used by one run of a *)
(* block at a time.  Under a checkpoint put and del write to a scratch in  *)
(* memory.  The commit of the outermost checkpoint streams the whole trie  *)
(* into the database, one node at a time, a node after the node that       *)
(* refers to it; only then is a block with the trie's root saved.  The     *)
(* process may crash between any two of these steps.                       *)
(*                                                                         *)
(* A key is looked up in steps that read nodes; as nodes never change and  *)
(* are never removed from a database, a lookup is one step here.           *)
(***************************************************************************)
EXTENDS TrieNodes

CONSTANTS Tries,       \* the users of the database
          Keys,        \* keys, sequences over Slots
          Values,      \* lengths of values
          Bounds       \* bounds of the behaviours, see "bound"

ASSUME KeysAssumption == IsFiniteSet(Keys) /\ \A k \in Keys : \A i \in DOMAIN k : k[i] \in Slots
ASSUME ValuesAssumption == Values \subseteq 1 .. 55
ASSUME BoundsAssumption ==
  \A b \in Bounds :
    /\ b.keys \subseteq Keys /\ b.values \subseteq Values /\ b.users \subseteq Tries
    /\ b.writes \in Nat /\ b.open \in Nat /\ b.saves \in Nat /\ b.restarts \in Nat

VARIABLES
  disk,         \* nodes in the database
  blocks,       \* state roots of the saved blocks
  root,         \* trie -> its root
  checkpoints,  \* trie -> roots at its open checkpoints
  scratch,      \* trie -> nodes in its scratch, None without one
  committing,   \* trie -> a commit streams into the database
  pending,      \* trie -> nodes its commit has still to write
  creating,     \* trie -> the node found not to exist and about to be created
  writes,       \* trie -> puts and dels since a root was loaded
  restarts,     \* of the process so far
  bound         \* of this behaviour: the tries in use, the keys and values they write, puts
                \* and dels of a run, nested checkpoints, blocks saved, restarts; never changes

vars ==
  <<disk, blocks, root, checkpoints, scratch, committing, pending, creating, writes, restarts,
    bound>>

stream == <<committing, pending, creating>>

limits == <<restarts, bound>>

Maps == [Keys -> Values \cup {None}]

Present(map) == [k \in {x \in Keys : map[x] # None} |-> map[k]]

Content(r) == [k \in Keys |-> ValueIn(r, k)]

DatabaseOfScratch(t) ==  \* mutant: a scratch without the database behind it
  IF scratch[t] = None THEN disk ELSE scratch[t]

(* ScratchDB.get asks the scratch first and the database then. *)
Database(t) == IF scratch[t] = None THEN disk ELSE disk \cup scratch[t]

Idle(t) == ~committing[t]

TrieInit(map, b) ==
  LET first == TrieOf(Present(map))
  IN /\ disk = Stored(first) /\ blocks = {first}
     /\ root = [t \in Tries |-> None]
     /\ checkpoints = [t \in Tries |-> << >>]
     /\ scratch = [t \in Tries |-> None]
     /\ committing = [t \in Tries |-> FALSE]
     /\ pending = [t \in Tries |-> {}]
     /\ creating = [t \in Tries |-> None]
     /\ writes = [t \in Tries |-> 0]
     /\ restarts = 0
     /\ bound = b

(* resetTrieRoot: runBlock begins from the state of the parent block. *)
ResetTrieRoot(t, r) ==
  /\ Idle(t) /\ checkpoints[t] = << >>
  /\ restarts <= bound.restarts
  /\ r \in blocks
  /\ r = None \/ r \in disk
  /\ root' = [root EXCEPT ![t] = r]
  /\ writes' = [writes EXCEPT ![t] = 0]
  /\ UNCHANGED <<disk, blocks, checkpoints, scratch, stream, limits>>

Written(t, result) ==
  /\ Idle(t) /\ scratch[t] # None
  /\ writes[t] < bound.writes
  /\ root' = [root EXCEPT ![t] = result.root]
  /\ scratch' = [scratch EXCEPT ![t] = @ \cup result.puts]
  /\ writes' = [writes EXCEPT ![t] = @ + 1]
  /\ UNCHANGED <<disk, blocks, checkpoints, stream, limits>>

Put(t, k, v) ==
  k \in bound.keys /\ v \in bound.values /\ Written(t, PutIn(root[t], k, v, Database(t)))

Del(t, k) == k \in bound.keys /\ Written(t, DelIn(root[t], k, Database(t)))

Checkpoint(t) ==
  /\ Idle(t)
  /\ Len(checkpoints[t]) < bound.open /\ writes[t] < bound.writes
  /\ checkpoints' = [checkpoints EXCEPT ![t] = Append(@, root[t])]
  /\ scratch' = IF checkpoints[t] = << >> THEN [scratch EXCEPT ![t] = {}] ELSE scratch
  /\ UNCHANGED <<disk, blocks, root, stream, writes, limits>>

(* The nodes the stream of a commit finds: all of the trie, until one is   *)
(* missing.                                                                *)
RECURSIVE FoundFrom(_, _, _)
FoundFrom(n, top, db) ==
  IF n = None \/ ((top \/ Hashed(n)) /\ n \notin db) THEN {}
  ELSE (IF top \/ Hashed(n) THEN {n} ELSE {})
         \cup UNION {FoundFrom(c, FALSE, db) : c \in Children(n)}

FoundInScratch(r, db, known) ==  \* mutant: what the database has is not walked again
  FoundFrom(r, TRUE, db \ known)

FindDbNodes(r, db, known) == FoundFrom(r, TRUE, db)

Outermost(t) == Len(checkpoints[t]) = 1

ExitCpModeAlways(t) ==  \* mutant: a nested checkpoint drops the scratch, too
  scratch' = [scratch EXCEPT ![t] = None]

(* _exitCpMode; without the commit the scratch is dropped. *)
ExitCpMode(t) ==
  scratch' = IF Outermost(t) THEN [scratch EXCEPT ![t] = None] ELSE scratch

Popped(t) == checkpoints' = [checkpoints EXCEPT ![t] = Front(@)]

Commit(t) ==
  /\ Idle(t) /\ checkpoints[t] # << >>
  /\ Outermost(t) => Cardinality(blocks) <= bound.saves
  /\ Popped(t)
  /\ ExitCpMode(t)
  /\ committing' = [committing EXCEPT ![t] = Outermost(t)]
  /\ pending' = [pending EXCEPT ![t] =
                   IF Outermost(t) THEN FindDbNodes(root[t], Database(t), disk) ELSE {}]
  /\ UNCHANGED <<disk, blocks, root, creating, writes, limits>>

RevertToFirst(t) ==  \* mutant: to where the outermost checkpoint was
  /\ Idle(t) /\ checkpoints[t] # << >>
  /\ root' = [root EXCEPT ![t] = Head(checkpoints[t])]
  /\ Popped(t)
  /\ ExitCpMode(t)
  /\ UNCHANGED <<disk, blocks, stream, writes, limits>>

Revert(t) ==
  /\ Idle(t) /\ checkpoints[t] # << >>
  /\ root' = [root EXCEPT ![t] = Last(checkpoints[t])]
  /\ Popped(t)
  /\ ExitCpMode(t)
  /\ UNCHANGED <<disk, blocks, stream, writes, limits>>

(* Nodes come down the stream after the nodes that refer to them. *)
MayWrite(t, n) ==
  /\ n \in pending[t]
  /\ \A p \in pending[t] \ {n} : n \notin NodesOf(p)

(* TrieNodeDb.batch: whether the node exists, and its creation. *)
NodeExists(t, n) ==
  /\ committing[t] /\ creating[t] = None
  /\ MayWrite(t, n)
  /\ IF n \in disk THEN pending' = [pending EXCEPT ![t] = @ \ {n}] /\ UNCHANGED creating
     ELSE creating' = [creating EXCEPT ![t] = n] /\ UNCHANGED pending
  /\ UNCHANGED <<disk, blocks, root, checkpoints, scratch, committing, writes, limits>>

CreateNode(t) ==
  /\ creating[t] # None
  /\ creating[t] \notin disk
  /\ disk' = disk \cup {creating[t]}
  /\ pending' = [pending EXCEPT ![t] = @ \ {creating[t]}]
  /\ creating' = [creating EXCEPT ![t] = None]
  /\ UNCHANGED <<blocks, root, checkpoints, scratch, committing, writes, limits>>

(* The stream has closed: runBlock returns and addBlock saves the block. *)
SaveBlock(t) ==
  /\ committing[t] /\ pending[t] = {}
  /\ blocks' = blocks \cup {root[t]}
  /\ committing' = [committing EXCEPT ![t] = FALSE]
  /\ writes' = [writes EXCEPT ![t] = bound.writes]
  /\ UNCHANGED <<disk, root, checkpoints, scratch, pending, creating, limits>>

Restarted ==
  /\ root' = [t \in Tries |-> None]
  /\ checkpoints' = [t \in Tries |-> << >>]
  /\ scratch' = [t \in Tries |-> None]
  /\ committing' = [t \in Tries |-> FALSE]
  /\ pending' = [t \in Tries |-> {}]
  /\ creating' = [t \in Tries |-> None]
  /\ writes' = [t \in Tries |-> 0]
  /\ restarts' = restarts + 1
  /\ UNCHANGED <<disk, blocks, bound>>

(* A second creation of a node violates the unique index; nobody handles   *)
(* the error of the stream, and the process ends as in a crash.            *)
Duplicate(t) == creating[t] \in disk /\ Restarted

Crash == restarts < bound.restarts /\ Restarted

NextOf(t) ==
  \/ \E r \in blocks : ResetTrieRoot(t, r)
  \/ \E k \in Keys, v \in Values : Put(t, k, v)
  \/ \E k \in Keys : Del(t, k)
  \/ Checkpoint(t) \/ Commit(t) \/ Revert(t)
  \/ \E n \in pending[t] : NodeExists(t, n)
  \/ CreateNode(t) \/ SaveBlock(t) \/ Duplicate(t)

Next == (\E t \in bound.users : NextOf(t)) \/ Crash

(***************************************************************************)
(* Properties.                                                             *)
(***************************************************************************)
(* Every variable has its type; a trie has a scratch exactly while it has  *)
(* a checkpoint.                                                           *)
TypeOK ==
  /\ blocks \subseteq disk \cup {None}
  /\ \A t \in Tries :
       /\ Content(root[t]) \in Maps /\ checkpoints[t] \in Seq({None} \cup Database(t))
       /\ (scratch[t] = None) = (checkpoints[t] = << >>)
       /\ creating[t] \in pending[t] \cup {None}
       /\ committing[t] \in BOOLEAN /\ writes[t] \in 0 .. bound.writes
  /\ restarts \in Nat

(* The order of puts and dels leaves no trace in a trie: nodes that hold   *)
(* the same accounts have the same root (the stateRoot they compare).      *)
Canonical == \A t \in Tries : root[t] = TrieOf(Present(Content(root[t])))

(* A trie in use finds the nodes of its root, in the scratch, in the       *)
(* database or raw in others: every get returns what the trie holds.       *)
EveryGetAnswers ==
  \A t \in Tries : Idle(t) =>
    \A k \in Keys : Get(root[t], k, Database(t)) = Content(root[t])[k]

(* After any crash the state of every saved block can be read completely.  *)
BlocksReadable == \A r \in blocks : Stored(r) \subseteq disk

(* The element of the proof that has the value is a leaf and the value has *)
(* 17 bytes: verifyProof takes them for the slots of a branch and fails.   *)
TakenForBranch(r, k) ==
  /\ ValueIn(r, k) = 17
  /\ LET last == Last(FindPath(r, k, disk).stack) IN last.kind = "leaf" /\ (last = r \/ Hashed(last))

(* On the way is a branch its parent holds raw, which takes values of 4    *)
(* bytes or less: verifyProof finds the value there only when the parent   *)
(* is an extention and one half-byte of the key is left.                   *)
InRawBranch(r, k) ==
  \E n \in ToSet(FindPath(r, k, disk).stack) \ {r} : n.kind = "branch" /\ ~Hashed(n)

(* prove and verifyProof agree on every key of a saved state that is not   *)
(* one of these two cases, whether its leaf is raw in a branch or not and  *)
(* also when the root is shorter than a hash.                              *)
ProofsVerify ==
  \A r \in blocks : \A k \in Keys :
    \/ ValueIn(r, k) = None \/ TakenForBranch(r, k) \/ InRawBranch(r, k)
    \/ VerifyProof(r, k, Prove(r, k, disk)) = ValueIn(r, k)

(* The tries and the database implement maps with nested transactions and  *)
(* saved snapshots: put and del change one key, commit keeps and revert    *)
(* takes back what was written since the checkpoint, nested or not.        *)
Store ==
  INSTANCE SnapshotStore WITH
    Users <- Tries,
    content <- [t \in Tries |-> Content(root[t])],
    open <- [t \in Tries |->
               [i \in DOMAIN checkpoints[t] |-> Content(checkpoints[t][i])]],
    snapshots <- {Content(r) : r \in blocks}

ImplementsStore ==
  /\ \E r \in blocks : Store!StoreInit(Content(r))
  /\ [][Store!StoreNext]_(Store!store)
=============================================================================
