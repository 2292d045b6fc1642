------------------------------- MODULE MCTrie -------------------------------
(***************************************************************************)
(* Tries for model checking.  "Shapes": one trie on every content of five  *)
(* keys whose paths branch, run together, split and join.  "Short" and     *)
(* "Long": values of lengths that make branches raw, or that look like a   *)
(* branch, at short and long keys.  "Rivals": the two tries of a node      *)
(* write, commit and crash on one database.  "Nested": one trie with a     *)
(* checkpoint within a checkpoint.                                         *)
(***************************************************************************)
EXTENDS Trie

CONSTANTS t1, t2

MCTries == {t1, t2}

HalfBytes == {0, 1}

(* Four half-bytes each: branches under branches, under an extention, and  *)
(* an extention under a branch.                                            *)
FiveKeys == {<<0, 0, 0, 0>>, <<0, 0, 0, 1>>, <<0, 0, 1, 0>>, <<1, 0, 0, 0>>, <<1, 1, 1, 1>>}

TwoKeys == {<<0, 0, 0, 0>>, <<0, 0, 0, 1>>}

ShortKeys == TwoKeys \cup {<<0, 0, 1, 0>>}

(* A leaf of 17 bytes is no longer raw when most of such a key is left. *)
LongKeys == {[i \in 1 .. 24 |-> IF i = one THEN 1 ELSE 0] : one \in {0, 1}}

MCKeys == FiveKeys \cup LongKeys

Shapes == [keys |-> FiveKeys, values |-> {6, 40}, users |-> {t1}, writes |-> 1, open |-> 1,
           saves |-> 0, restarts |-> 0]

Short == [keys |-> ShortKeys, values |-> {4, 17, 20}, users |-> {t1}, writes |-> 0, open |-> 0,
          saves |-> 0, restarts |-> 0]

Long == [keys |-> LongKeys, values |-> {17, 20}, users |-> {t1}, writes |-> 0, open |-> 0,
         saves |-> 0, restarts |-> 0]

Rivals == [keys |-> {<<0, 0, 0, 1>>}, values |-> {40}, users |-> {t1, t2}, writes |-> 1,
           open |-> 1, saves |-> 1, restarts |-> 1]

Nested == [keys |-> TwoKeys, values |-> {40}, users |-> {t1}, writes |-> 3, open |-> 2,
           saves |-> 1, restarts |-> 0]

MCBounds == {Shapes, Short, Long, Rivals, Nested}

(* Every content of the keys of a bound. *)
Contents(b) ==
  {[k \in Keys |-> IF k \in b.keys THEN map[k] ELSE None] :
     map \in [b.keys -> b.values \cup {None}]}

First == [k \in Keys |-> IF k \in TwoKeys THEN 6 ELSE IF k = <<1, 0, 0, 0>> THEN 40 ELSE None]

FirstOfTwo ==
  [k \in Keys |-> IF k = <<0, 0, 0, 0>> THEN 6 ELSE IF k = <<1, 0, 0, 0>> THEN 40 ELSE None]

Init ==
  \/ \E b \in {Shapes, Short, Long} : \E map \in Contents(b) : TrieInit(map, b)
  \/ TrieInit(FirstOfTwo, Rivals)
  \/ TrieInit(First, Nested)

Spec == Init /\ [][Next]_vars
=============================================================================
