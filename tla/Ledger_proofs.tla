--------------------------- MODULE Ledger_proofs ----------------------------
(***************************************************************************)
(* What a Ledger guarantees: chains that share a block share its past.     *)
(***************************************************************************)
EXTENDS Ledger, SequenceTheorems, TLAPS

Before(s, i) == IF i = 1 THEN 0 ELSE s[i - 1]

\* The inductive invariant: a block has one predecessor, and follows it on every chain.
LInv ==
    /\ certified \subseteq Block
    /\ chain \in [Node -> Seq(Id)]
    /\ \A b, c \in certified : b.id = c.id => b = c
    /\ \A n \in Node : \A i \in 1 .. Len(chain[n]) :
          \E b \in certified : b.id = chain[n][i] /\ b.parent = Before(chain[n], i)
    /\ SharedPast

\* A prefix of a sequence with one element more
LEMMA PrefixOfAppend ==
  ASSUME NEW S, NEW s \in Seq(S), NEW e \in S
  PROVE  /\ \A i \in 1 .. Len(s) : SubSeq(Append(s, e), 1, i) = SubSeq(s, 1, i)
         /\ SubSeq(Append(s, e), 1, Len(s) + 1) = Append(s, e)
<1>1. /\ Append(s, e) = s \o <<e>> /\ <<e>> \in Seq(S)
      /\ Append(s, e) \in Seq(S) /\ Len(Append(s, e)) = Len(s) + 1
  BY AppendIsConcat, AppendProperties
<1>2. \A i \in 1 .. Len(s) : SubSeq(Append(s, e), 1, i) = SubSeq(s, 1, i)
  <2> SUFFICES ASSUME NEW i \in 1 .. Len(s)
               PROVE  SubSeq(s \o <<e>>, 1, i) = SubSeq(s, 1, i)
    BY <1>1
  <2>1. 1 \in 1 .. Len(s)
    BY LenProperties
  <2> QED
    BY <1>1, <2>1, SubSeqOfConcat1
<1>3. SubSeq(Append(s, e), 1, Len(s) + 1) = Append(s, e)
  BY <1>1, SubSeqFull
<1> QED
  BY <1>2, <1>3

\* A nonempty prefix ends in its last element.
LEMMA PrefixLast ==
  ASSUME NEW S, NEW s \in Seq(S), NEW i \in 1 .. Len(s)
  PROVE  SubSeq(s, 1, i) = Append(SubSeq(s, 1, i - 1), s[i])
<1>1. Len(s) \in Nat /\ i \in Int
  BY LenProperties
<1>2. 1 \in 1 .. Len(s) /\ i \in 1 .. Len(s) /\ i - 1 \in 0 .. Len(s)
  BY <1>1
<1>3. SubSeq(s, 1, i) = SubSeq(s, 1, i - 1) \o <<s[i]>>
  BY <1>2, SubSeqRecursiveSecond
<1>4. \A j \in 1 .. i - 1 : s[j] \in S
  BY <1>1, ElementOfSeq
<1>5. SubSeq(s, 1, i - 1) \in Seq(S) /\ s[i] \in S
  BY <1>1, <1>4, SubSeqProperties, ElementOfSeq
<1> QED
  BY <1>3, <1>5, AppendIsConcat

\* Certifying a new block leaves the chains, and the predecessors they agree
\* on, alone.
LEMMA CertifyStep ==
  ASSUME LInv, NEW b \in Block, Certify(b)
  PROVE  LInv'
<1>1. certified' = certified \cup {b} /\ chain' = chain /\ \A c \in certified : c.id # b.id
  BY DEF Certify
<1>2. /\ certified' \subseteq Block
      /\ \A c, d \in certified' : c.id = d.id => c = d
  BY <1>1 DEF LInv
<1>3. SharedPast'
  BY <1>1 DEF LInv, SharedPast
<1> QED
  BY <1>1, <1>2, <1>3 DEF LInv

\* A chain that holds the block now appended to another one agrees with that one.
LEMMA SamePast ==
  ASSUME LInv, 0 \notin Id, NEW n \in Node, NEW b \in certified,
         b.parent = LastOf(chain[n]),
         NEW m \in Node, NEW i \in 1 .. Len(chain[m]), chain[m][i] = b.id
  PROVE  SubSeq(chain[m], 1, i) = Append(chain[n], b.id)
<1> DEFINE s == chain[m]
           t == chain[n]
<1>1. s \in Seq(Id) /\ t \in Seq(Id) /\ Len(s) \in Nat /\ Len(t) \in Nat /\ i \in Nat
  BY DEF LInv
<1>2. b.parent = Before(s, i)
  BY DEF LInv
<1>3. SubSeq(s, 1, i - 1) = t
  <2>1. CASE i = 1
    <3>1. LastOf(t) = 0
      BY <1>2, <2>1 DEF Before
    <3>2. t = <<>>
      BY <1>1, <3>1, ElementOfSeq DEF LastOf
    <3>3. SubSeq(s, 1, 0) = <<>>
      BY SubSeqEmpty
    <3> QED
      BY <2>1, <3>2, <3>3
  <2>2. CASE i # 1
    <3>1. i - 1 \in 1 .. Len(s) /\ LastOf(t) = s[i - 1]
      BY <1>1, <1>2, <2>2 DEF Before
    <3>2. s[i - 1] \in Id
      BY <1>1, <3>1, ElementOfSeq
    <3>3. t # <<>> /\ Len(t) \in 1 .. Len(t) /\ t[Len(t)] = s[i - 1]
      BY <1>1, <3>1, <3>2 DEF LastOf
    <3>4. SubSeq(s, 1, i - 1) = SubSeq(t, 1, Len(t))
      BY <3>1, <3>3 DEF LInv, SharedPast
    <3> QED
      BY <1>1, <3>4, SubSeqFull
  <2> QED
    BY <2>1, <2>2
<1>4. SubSeq(s, 1, i) = Append(SubSeq(s, 1, i - 1), s[i])
  BY <1>1, PrefixLast
<1> QED
  BY <1>3, <1>4

\* Extending a chain by a certified block keeps the invariant.
LEMMA ExtendStep ==
  ASSUME LInv, 0 \notin Id, NEW n \in Node, NEW b \in certified, Extend(n, b)
  PROVE  LInv'
<1> DEFINE t == chain[n]
           s == Append(t, b.id)
<1>1. /\ certified' = certified /\ b.parent = LastOf(t)
      /\ chain' = [chain EXCEPT ![n] = s]
  BY DEF Extend
<1>2. /\ t \in Seq(Id) /\ Len(t) \in Nat /\ b.id \in Id
      /\ chain \in [Node -> Seq(Id)]
  BY DEF LInv, Block
<1>3. /\ s \in Seq(Id) /\ Len(s) = Len(t) + 1 /\ s[Len(s)] = b.id
      /\ \A i \in 1 .. Len(t) : s[i] = t[i]
  BY <1>2, AppendProperties
<1>4. /\ \A i \in 1 .. Len(t) : SubSeq(s, 1, i) = SubSeq(t, 1, i)
      /\ SubSeq(s, 1, Len(s)) = s
  BY <1>2, <1>3, PrefixOfAppend
<1> HIDE DEF s
<1>5. chain' \in [Node -> Seq(Id)] /\ chain'[n] = s /\ \A m \in Node \ {n} : chain'[m] = chain[m]
  BY <1>1, <1>2, <1>3
<1>6. ASSUME NEW m \in Node, NEW i \in 1 .. Len(chain'[m]), ~(m = n /\ i = Len(s))
      PROVE  /\ i \in 1 .. Len(chain[m])
             /\ chain'[m][i] = chain[m][i]
             /\ Before(chain'[m], i) = Before(chain[m], i)
             /\ SubSeq(chain'[m], 1, i) = SubSeq(chain[m], 1, i)
  <2>1. CASE m = n
    <3>1. i \in 1 .. Len(t)
      BY <1>2, <1>3, <1>5, <1>6, <2>1
    <3>2. i = 1 \/ i - 1 \in 1 .. Len(t)
      BY <1>2, <3>1
    <3> QED
      BY <1>3, <1>4, <1>5, <2>1, <3>1, <3>2 DEF Before
  <2>2. CASE m # n
    BY <1>5, <2>2
  <2> QED
    BY <2>1, <2>2
<1>7. ASSUME NEW m \in Node, NEW i \in 1 .. Len(chain'[m])
      PROVE  \E c \in certified : c.id = chain'[m][i] /\ c.parent = Before(chain'[m], i)
  <2>1. CASE m = n /\ i = Len(s)
    <3>1. Before(s, Len(s)) = LastOf(t)
      <4>1. CASE Len(t) = 0
        BY <1>2, <1>3, <4>1 DEF Before, LastOf
      <4>2. CASE Len(t) # 0
        BY <1>2, <1>3, <4>2 DEF Before, LastOf
      <4> QED
        BY <4>1, <4>2
    <3> QED
      BY <1>1, <1>3, <1>5, <2>1, <3>1
  <2>2. CASE ~(m = n /\ i = Len(s))
    <3>1. /\ i \in 1 .. Len(chain[m])
          /\ chain'[m][i] = chain[m][i]
          /\ Before(chain'[m], i) = Before(chain[m], i)
      BY <1>6, <2>2
    <3>2. \E c \in certified : c.id = chain[m][i] /\ c.parent = Before(chain[m], i)
      BY <3>1 DEF LInv
    <3> QED
      BY <3>1, <3>2
  <2> QED
    BY <2>1, <2>2
<1>8. ASSUME NEW m \in Node, NEW i \in 1 .. Len(chain'[m]), ~(m = n /\ i = Len(s)),
             chain'[m][i] = b.id
      PROVE  SubSeq(chain'[m], 1, i) = s
  BY <1>1, <1>6, <1>8, SamePast DEF s
<1>9. SharedPast'
  <2> SUFFICES ASSUME NEW m \in Node, NEW k \in Node,
                      NEW i \in 1 .. Len(chain'[m]), NEW j \in 1 .. Len(chain'[k]),
                      chain'[m][i] = chain'[k][j]
               PROVE  SubSeq(chain'[m], 1, i) = SubSeq(chain'[k], 1, j)
    BY DEF SharedPast
  <2>1. CASE m = n /\ i = Len(s) /\ k = n /\ j = Len(s)
    BY <2>1
  <2>2. CASE m = n /\ i = Len(s) /\ ~(k = n /\ j = Len(s))
    BY <1>3, <1>4, <1>5, <1>8, <2>2
  <2>3. CASE ~(m = n /\ i = Len(s)) /\ k = n /\ j = Len(s)
    BY <1>3, <1>4, <1>5, <1>8, <2>3
  <2>4. CASE ~(m = n /\ i = Len(s)) /\ ~(k = n /\ j = Len(s))
    BY <1>6, <2>4 DEF LInv, SharedPast
  <2> QED
    BY <2>1, <2>2, <2>3, <2>4
<1> QED
  BY <1>1, <1>5, <1>7, <1>9 DEF LInv

\* Chains that share a block share everything before it.
THEOREM LedgerSharedPast == ASSUME 0 \notin Id PROVE Spec => []SharedPast
<1>1. Init => LInv
  BY DEF Init, LInv, SharedPast
<1>2. LInv /\ [Next]_vars => LInv'
  <2>1. ASSUME LInv, UNCHANGED vars PROVE LInv'
    BY <2>1 DEF vars, LInv, SharedPast
  <2>2. ASSUME LInv, Next PROVE LInv'
    BY <2>2, CertifyStep, ExtendStep DEF Next
  <2> QED
    BY <2>1, <2>2
<1>3. LInv => SharedPast
  BY DEF LInv
<1> QED
  BY <1>1, <1>2, <1>3, PTL DEF Spec
=============================================================================
