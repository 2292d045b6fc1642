------------------------------ MODULE TrieNodes ------------------------------
(***************************************************************************)
(* The Merkle Patricia trie of depends/merkle_patricia_tree as pure        *)
(* operators on nodes: the walk to a key, put, del, prove and verifyProof. *)
(*                                                                         *)
(* A node refers to another by its hash or, when the other takes less than *)
(* 32 bytes, holds it raw.  Hashes do not collide: a reference is the node *)
(* it stands for, and a database is the set of nodes stored in it.  A key  *)
(* is its sequence of half-bytes, a value its length in bytes.             *)
(***************************************************************************)
EXTENDS Integers, FiniteSetsExt, SequencesExt

CONSTANTS Slots,    \* half-bytes the keys are made of, some of the 16
          None      \* no node, no value, and the hash of the empty trie

ASSUME SlotsAssumption == Slots \subseteq 0 .. 15 /\ IsFiniteSet(Slots)

Drop(s, n) == SubSeq(s, n + 1, Len(s))

Less(s, n) == SubSeq(s, 1, Len(s) - n)

(***************************************************************************)
(* Nodes.                                                                  *)
(***************************************************************************)
Leaf(key, value) == [kind |-> "leaf", key |-> key, value |-> value]

Extention(key, node) == [kind |-> "extention", key |-> key, next |-> node]

Branch(slots, value) == [kind |-> "branch", slot |-> slots, value |-> value]

KeyOf(n) == IF n.kind = "branch" THEN << >> ELSE n.key

ValueOf(n) == IF n.kind = "extention" THEN n.next ELSE n.value

Children(n) ==
  CASE n.kind = "leaf" -> {}
    [] n.kind = "extention" -> {n.next}
    [] n.kind = "branch" -> {n.slot[s] : s \in Slots} \ {None}

(* Lengths of the RLP encoding: a string of one byte (below 0x80) takes    *)
(* one, a longer one its length besides.                                   *)
StringBytes(length) == IF length <= 1 THEN 1 ELSE length + 1

(* A key is stored with a prefix of a half-byte or two (addHexPrefix).     *)
KeyBytes(key) == StringBytes(Len(key) \div 2 + 1)

RECURSIVE Size(_)

RefSize(n) == IF n = None THEN 1 ELSE LET size == Size(n) IN IF size >= 32 THEN 33 ELSE size

Size(n) ==
  1 + CASE n.kind = "leaf" -> KeyBytes(n.key) + StringBytes(n.value)
        [] n.kind = "extention" -> KeyBytes(n.key) + RefSize(n.next)
        [] n.kind = "branch" ->
             16 - Cardinality(Slots) + MapThenSumSet(LAMBDA s : RefSize(n.slot[s]), Slots)
               + (IF n.value = None THEN 1 ELSE StringBytes(n.value))

Hashed(n) == Size(n) >= 32

RECURSIVE NodesOf(_)
NodesOf(n) == {n} \cup UNION {NodesOf(c) : c \in Children(n)}

(* The nodes of a trie that have to be in a database. *)
Stored(root) ==
  IF root = None THEN {} ELSE {root} \cup {n \in NodesOf(root) : Hashed(n)}

(***************************************************************************)
(* The walk to a key: the nodes on the way, what remains of the key, and   *)
(* whether it ended at the key's node or at a node the database lacks.     *)
(***************************************************************************)
Ended(stack, rest, how) == [stack |-> stack, rest |-> rest, how |-> how]

RECURSIVE Walk(_, _, _, _)
Walk(n, rest, stack, db) ==
  LET path == Append(stack, n)
      Down(child, left) ==
        IF Hashed(child) /\ child \notin db THEN Ended(path, left, "missing")
        ELSE Walk(child, left, path, db)
  IN CASE n.kind = "branch" /\ rest = << >> -> Ended(path, << >>, "found")
       [] n.kind = "branch" /\ rest # << >> ->
            IF n.slot[Head(rest)] = None THEN Ended(path, rest, "absent")
            ELSE Down(n.slot[Head(rest)], Tail(rest))
       [] n.kind = "leaf" ->
            IF n.key = rest THEN Ended(path, << >>, "found") ELSE Ended(path, rest, "absent")
       [] n.kind = "extention" ->
            IF IsPrefix(n.key, rest) THEN Down(n.next, Drop(rest, Len(n.key)))
            ELSE Ended(path, rest, "absent")

FindPath(root, key, db) ==
  IF root = None THEN Ended(<< >>, key, "absent")
  ELSE IF root \notin db THEN Ended(<< >>, key, "missing")
  ELSE Walk(root, key, << >>, db)

Missing == -1   \* no value: the answer of a get or a verification that fails

Get(root, key, db) ==
  LET path == FindPath(root, key, db)
  IN CASE path.how = "found" -> ValueOf(Last(path.stack))
       [] path.how = "absent" -> None
       [] path.how = "missing" -> Missing

(***************************************************************************)
(* _saveStack: the nodes of a path are linked from the last to the first;  *)
(* the result is the new root and the nodes to be put into the database.   *)
(***************************************************************************)
Linked(n, below, key) ==
  CASE below = None \/ n.kind = "leaf" -> n
    [] below # None /\ n.kind = "extention" -> [n EXCEPT !.next = below]
    [] below # None /\ n.kind = "branch" -> [n EXCEPT !.slot[Last(key)] = below]

Consumed(n, below) ==
  IF n.kind # "branch" THEN Len(n.key) ELSE IF below = None THEN 0 ELSE 1

SaveStack(stack, key, saved) ==
  LET Save(n, acc) ==
        LET linked == Linked(n, acc.root, acc.key)
        IN [root |-> linked, key |-> Less(acc.key, Consumed(n, acc.root)),
            puts |-> acc.puts \cup (IF Hashed(linked) THEN {linked} ELSE {})]
      all == FoldRight(Save, stack, [root |-> None, key |-> key, puts |-> saved])
  IN [root |-> all.root, puts |-> all.puts \cup {all.root}, ok |-> TRUE]

Unchanged(root, fine) == [root |-> root, puts |-> {}, ok |-> fine]

(***************************************************************************)
(* put                                                                     *)
(***************************************************************************)
NoSlots == [s \in Slots |-> None]

(* A leaf or an extention the key leaves in its middle: the common part    *)
(* becomes an extention to a branch of the old node and the new value.     *)
SplitNode(last, rest, value) ==
  LET common == LongestCommonPrefix({last.key, rest})
      old == Drop(last.key, Len(common))
      new == Drop(rest, Len(common))
      displaced ==
        CASE last.kind = "leaf" /\ old # << >> -> Leaf(Tail(old), last.value)
          [] last.kind = "extention" /\ Len(old) > 1 -> Extention(Tail(old), last.next)
          [] last.kind = "extention" /\ Len(old) = 1 -> last.next
          [] OTHER -> None
      branch ==
        Branch(IF displaced = None THEN NoSlots ELSE [NoSlots EXCEPT ![Head(old)] = displaced],
               CASE new = << >> -> value
                 [] new # << >> /\ displaced = None -> last.value
                 [] OTHER -> None)
  IN [stack |-> (IF common = << >> THEN << >> ELSE <<Extention(common, None)>>)
                  \o <<branch>>
                  \o (IF new = << >> THEN << >> ELSE <<Leaf(Tail(new), value)>>),
      saved |-> IF displaced # None /\ (last.kind = "leaf" \/ Len(old) > 1) /\ Hashed(displaced)
                THEN {displaced} ELSE {}]

UpdateNode(path, key, value) ==
  LET last == Last(path.stack)
      above == Front(path.stack)
  IN CASE last.kind = "leaf" /\ path.how = "found" ->
            SaveStack(Append(above, [last EXCEPT !.value = value]), key, {})
       [] last.kind = "branch" /\ path.rest = << >> ->
            SaveStack(Append(above, [last EXCEPT !.value = value]), key, {})
       [] last.kind = "branch" /\ path.rest # << >> ->
            SaveStack(path.stack \o <<Leaf(Tail(path.rest), value)>>, key, {})
       [] OTHER ->
            LET split == SplitNode(last, path.rest, value)
            IN SaveStack(above \o split.stack, key, split.saved)

CreateInitialNode(key, value) ==
  [root |-> Leaf(key, value), puts |-> {Leaf(key, value)}, ok |-> TRUE]

PutIn(root, key, value, db) ==
  LET path == FindPath(root, key, db)
  IN CASE root = None -> CreateInitialNode(key, value)
       [] root # None /\ path.how = "missing" -> Unchanged(root, FALSE)
       [] root # None /\ path.how # "missing" -> UpdateNode(path, key, value)

(***************************************************************************)
(* del: a leaf is taken out of the branch above it; a branch left with one *)
(* child is replaced by that child, joined with the node above.            *)
(***************************************************************************)
Prefixed(n, front) == [n EXCEPT !.key = front \o @]

(* processBranchNode: "above" ends with the parent of the branch, which    *)
(* had the path "key"; the only child is in the slot.                      *)
JoinedKeepsExtention(above, child, slot, key) ==  \* mutant: two extentions in a row
  CASE child.kind = "branch" ->
         SaveStack(above \o <<Extention(<<slot>>, None), child>>, Append(key, slot), {})
    [] child.kind # "branch" ->
         SaveStack(Append(above, Prefixed(child, <<slot>>)), key \o <<slot>> \o child.key, {})

Joined(above, child, slot, key) ==
  LET parent == Last(above)
  IN CASE above # << >> /\ parent.kind = "extention" /\ child.kind = "branch" ->
            SaveStack(Front(above) \o <<[parent EXCEPT !.key = Append(@, slot)], child>>,
                      Append(key, slot), {})
       [] above # << >> /\ parent.kind = "extention" /\ child.kind # "branch" ->
            SaveStack(Append(Front(above), Prefixed(child, Append(parent.key, slot))),
                      key \o <<slot>> \o child.key, {})
       [] (above = << >> \/ parent.kind = "branch") /\ child.kind = "branch" ->
            SaveStack(above \o <<Extention(<<slot>>, None), child>>, Append(key, slot), {})
       [] (above = << >> \/ parent.kind = "branch") /\ child.kind # "branch" ->
            SaveStack(Append(above, Prefixed(child, <<slot>>)), key \o <<slot>> \o child.key, {})

(* The branch without the leaf.  The value of a branch counts as one of    *)
(* its children and is looked up in the database as a node when it is the  *)
(* only one.                                                               *)
WithoutLeaf(root, above, branch, key, db) ==
  LET used == {s \in Slots : branch.slot[s] # None}
      slot == CHOOSE s \in used : TRUE
      child == branch.slot[slot]
  IN CASE Cardinality(used) = 1 /\ branch.value = None ->
            IF Hashed(child) /\ child \notin db THEN Unchanged(root, FALSE)
            ELSE Joined(above, child, slot, key)
       [] used = {} /\ branch.value # None -> Unchanged(root, FALSE)
       [] OTHER -> SaveStack(Append(above, branch), key, {})

DeleteNode(root, stack, key, db) ==
  LET last == Last(stack)
      above == Front(stack)
      place == Less(key, Len(KeyOf(last)))   \* of the leaf, ending with its slot
  IN CASE above = << >> -> Unchanged(None, TRUE)
       [] above # << >> /\ last.kind = "branch" ->
            SaveStack(Append(above, [last EXCEPT !.value = None]), key, {})
       [] above # << >> /\ last.kind # "branch" ->
            WithoutLeaf(root, Front(above), [Last(above) EXCEPT !.slot[Last(place)] = None],
                        Front(place), db)

DelIn(root, key, db) ==
  LET path == FindPath(root, key, db)
  IN CASE path.how = "found" -> DeleteNode(root, path.stack, key, db)
       [] path.how = "absent" -> Unchanged(root, TRUE)
       [] path.how = "missing" -> Unchanged(root, FALSE)

(***************************************************************************)
(* proof.js: the nodes on the way to a key that are not raw inside another *)
(* one, and the verification of such a sequence against a root.            *)
(***************************************************************************)
ProveHashed(root, key, db) ==  \* mutant: a root of less than 32 bytes is left out
  LET path == FindPath(root, key, db)
  IN IF root = None \/ path.how = "missing" \/ path.rest # << >> THEN << >>
     ELSE SelectSeq(path.stack, Hashed)

(* The error for a key without a value is the empty sequence, and so is    *)
(* the TypeError of an empty trie, whose walk hands over no remainder.     *)
Prove(root, key, db) ==
  LET path == FindPath(root, key, db)
  IN IF root = None \/ path.how = "missing" \/ path.rest # << >> THEN << >>
     ELSE <<Head(path.stack)>> \o SelectSeq(Tail(path.stack), Hashed)

Answer(proof, value) == IF Len(proof) > 1 THEN Missing ELSE value

RECURSIVE VerifyProof(_, _, _)

(* A branch: a raw leaf in the slot answers, anything else is the next node. *)
VerifyBranch(n, key, proof) ==
  LET child == n.slot[Head(key)]
  IN IF child # None /\ ~Hashed(child) /\ child.kind # "branch"
     THEN IF KeyOf(child) = Tail(key) THEN Answer(proof, ValueOf(child)) ELSE Missing
     ELSE VerifyProof(child, Tail(key), Tail(proof))

(* A leaf or an extention; 17 elements are taken for a raw branch, also    *)
(* when they are the bytes of a value.                                     *)
VerifyPair(n, key, proof) ==
  LET left == Drop(key, Len(n.key))
      child == ValueOf(n)
      rawBranch == n.kind = "extention" /\ child.kind = "branch" /\ ~Hashed(child)
  IN CASE ~IsPrefix(n.key, key) -> Missing
       [] IsPrefix(n.key, key) /\ n.kind = "leaf" /\ (left # << >> \/ child = 17) -> Missing
       [] IsPrefix(n.key, key) /\ n.kind = "leaf" /\ ~(left # << >> \/ child = 17) ->
            Answer(proof, child)
       [] IsPrefix(n.key, key) /\ rawBranch /\ Len(left) = 1 /\ child.slot[left[1]] # None ->
            Answer(proof, ValueOf(child.slot[left[1]]))
       [] OTHER -> VerifyProof(child, left, Tail(proof))

VerifyProof(root, key, proof) ==
  CASE proof = << >> -> Missing
    [] proof # << >> /\ Head(proof) # root -> Missing
    [] proof # << >> /\ Head(proof) = root /\ root.kind = "branch" /\ key = << >> ->
         Answer(proof, root.value)
    [] proof # << >> /\ Head(proof) = root /\ root.kind = "branch" /\ key # << >> ->
         VerifyBranch(root, key, proof)
    [] proof # << >> /\ Head(proof) = root /\ root.kind # "branch" -> VerifyPair(root, key, proof)

(***************************************************************************)
(* What a trie stands for, and the only trie that stands for it.           *)
(***************************************************************************)
Tails(m, front) == [k \in {Drop(key, Len(front)) : key \in {x \in DOMAIN m : IsPrefix(front, x)}}
                      |-> m[front \o k]]

RECURSIVE TrieOf(_)
TrieOf(m) ==
  LET common == LongestCommonPrefix(DOMAIN m)
  IN IF DOMAIN m = {} THEN None
     ELSE IF Cardinality(DOMAIN m) = 1 THEN Leaf(common, m[common])
     ELSE IF common # << >> THEN Extention(common, TrieOf(Tails(m, common)))
     ELSE Branch([s \in Slots |-> TrieOf(Tails(m, <<s>>))],
                 IF << >> \in DOMAIN m THEN m[<< >>] ELSE None)

RECURSIVE ValueIn(_, _)
ValueIn(n, key) ==
  CASE n = None -> None
    [] n # None /\ n.kind = "leaf" -> IF n.key = key THEN n.value ELSE None
    [] n # None /\ n.kind = "extention" ->
         IF IsPrefix(n.key, key) THEN ValueIn(n.next, Drop(key, Len(n.key))) ELSE None
    [] n # None /\ n.kind = "branch" ->
         IF key = << >> THEN n.value ELSE ValueIn(n.slot[Head(key)], Tail(key))
=============================================================================
