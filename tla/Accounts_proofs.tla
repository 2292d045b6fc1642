---------------------------- MODULE Accounts_proofs ----------------------------
(***************************************************************************)
(* Lemmas about accounts: sums of amounts, and what one transaction does   *)
(* to an account that is sound.                                            *)
(***************************************************************************)
EXTENDS Accounts, Recursion_proofs

(***************************************************************************)
(* Sums.  Sums(f, g): g gives the sum of f over every set of indices.      *)
(***************************************************************************)
Sums(f, g) ==
  /\ g \in [SUBSET DOMAIN f -> Nat]
  /\ g[{}] = 0
  /\ \A s \in SUBSET DOMAIN f : \A a \in s : g[s] = f[a] + g[s \ {a}]

Chosen(s) == CHOOSE x \in s : TRUE

(* The fold that defines Total, up to sets of size n. *)
Folded(f, s, g) == IF s = {} THEN 0 ELSE f[Chosen(s)] + g[s \ {Chosen(s)}]

Small(S, n) == {s \in SUBSET S : Cardinality(s) <= n}

Foldable(S, f, n) == \E g : g = [s \in Small(S, n) |-> Folded(f, s, g)]

(* Taking an element from a finite set leaves a smaller one. *)
LEMMA SmallStep ==
  ASSUME NEW S, IsFiniteSet(S), NEW n \in Nat, NEW s \in Small(S, n + 1), NEW a \in s
  PROVE  s \ {a} \in Small(S, n)
<1>1. IsFiniteSet(s)
  BY FS_Subset DEF Small
<1>2. Cardinality(s \ {a}) = Cardinality(s) - 1 /\ Cardinality(s) \in Nat
  BY <1>1, FS_RemoveElement, FS_CardinalityType
<1> QED
  BY <1>2 DEF Small

(* The fold exists up to any size. *)
LEMMA FoldUpTo ==
  ASSUME NEW S, IsFiniteSet(S), NEW f
  PROVE  \A n \in Nat : Foldable(S, f, n)
<1> DEFINE P == {n \in Nat : Foldable(S, f, n)}
<1>1. 0 \in P
  <2>1. \A s \in Small(S, 0) : s = {}
    <3> SUFFICES ASSUME NEW s \in Small(S, 0) PROVE s = {}
      OBVIOUS
    <3>1. IsFiniteSet(s) /\ Cardinality(s) <= 0
      BY FS_Subset DEF Small
    <3> QED
      BY <3>1, FS_CardinalityType, FS_EmptySet
  <2> DEFINE g == [s \in Small(S, 0) |-> 0]
  <2>2. g = [s \in Small(S, 0) |-> Folded(f, s, g)]
    BY <2>1 DEF Folded
  <2> HIDE DEF g
  <2>3. Foldable(S, f, 0)
    BY <2>2 DEF Foldable
  <2> QED
    BY <2>3
<1>2. ASSUME NEW n \in P PROVE n + 1 \in P
  <2>1. PICK g : g = [s \in Small(S, n) |-> Folded(f, s, g)]
    BY DEF Foldable
  <2> DEFINE h == [s \in Small(S, n + 1) |-> Folded(f, s, g)]
  <2>2. \A s \in Small(S, n) : s \in Small(S, n + 1) /\ h[s] = g[s]
    <3> SUFFICES ASSUME NEW s \in Small(S, n) PROVE s \in Small(S, n + 1) /\ h[s] = g[s]
      OBVIOUS
    <3>1. s \in Small(S, n + 1)
      BY FS_Subset, FS_CardinalityType DEF Small
    <3>2. g[s] = Folded(f, s, g)
      BY <2>1
    <3> QED
      BY <3>1, <3>2
  <2>3. ASSUME NEW s \in Small(S, n + 1) PROVE Folded(f, s, g) = Folded(f, s, h)
    <3>1. CASE s = {}
      BY <3>1 DEF Folded
    <3>2. CASE s # {}
      <4>1. Chosen(s) \in s
        BY <3>2 DEF Chosen
      <4>2. s \ {Chosen(s)} \in Small(S, n)
        BY <4>1, SmallStep
      <4>3. h[s \ {Chosen(s)}] = g[s \ {Chosen(s)}]
        BY <2>2, <4>2
      <4> QED
        BY <4>3 DEF Folded
    <3> QED
      BY <3>1, <3>2
  <2>4. h = [s \in Small(S, n + 1) |-> Folded(f, s, h)]
    BY <2>3
  <2>5. n \in Nat /\ n + 1 \in Nat
    OBVIOUS
  <2> HIDE DEF h
  <2>6. Foldable(S, f, n + 1)
    BY <2>4 DEF Foldable
  <2> QED
    BY <2>5, <2>6
<1>3. P \in SUBSET Nat
  OBVIOUS
<1> HIDE DEF P
<1>4. P = Nat
  BY <1>1, <1>2, <1>3, Induction
<1> QED
  BY <1>4 DEF P

(* It exists for all subsets of a finite set, and its value for all        *)
(* elements is the total.                                                  *)
LEMMA FoldExists ==
  ASSUME NEW f, IsFiniteSet(DOMAIN f)
  PROVE  \E g : /\ g = [s \in SUBSET DOMAIN f |-> Folded(f, s, g)]
                /\ Total(f) = g[DOMAIN f]
<1> DEFINE S == DOMAIN f
           IsFold(g) == g = [s \in SUBSET S |-> Folded(f, s, g)]
           fold == CHOOSE g : IsFold(g)
<1>1. \E g : IsFold(g)
  <2>1. Cardinality(S) \in Nat
    BY FS_CardinalityType
  <2>2. Small(S, Cardinality(S)) = SUBSET S
    <3>1. \A s \in SUBSET S : Cardinality(s) <= Cardinality(S)
      BY FS_Subset
    <3> QED
      BY <3>1 DEF Small
  <2>3. IsFiniteSet(S)
    OBVIOUS
  <2>4. Foldable(S, f, Cardinality(S))
    BY <2>1, <2>3, FoldUpTo
  <2> QED
    BY <2>2, <2>4 DEF Foldable
<1>2. Total(f) = fold[S]
  BY DEF Total, FoldFunction, FoldFunctionOnSet, MapThenFoldSet, Folded, Chosen
<1>3. IsFold(fold)
  <2> HIDE DEF IsFold
  <2> QED
    BY <1>1
<1> QED
  BY <1>2, <1>3

(* It gives the sum of every set of indices, whichever element is added    *)
(* last.                                                                   *)
LEMMA SumsExist ==
  ASSUME NEW S, IsFiniteSet(S), NEW f \in [S -> Nat]
  PROVE  \E g : Sums(f, g) /\ Total(f) = g[S]
<1>1. DOMAIN f = S
  OBVIOUS
<1>2. PICK g : /\ g = [s \in SUBSET S |-> Folded(f, s, g)]
               /\ Total(f) = g[S]
  BY <1>1, FoldExists
<1>3. g[{}] = 0 /\ DOMAIN g = SUBSET S
  BY <1>2 DEF Folded
<1>4. ASSUME NEW s \in SUBSET S, s # {}
      PROVE  Chosen(s) \in s /\ g[s] = f[Chosen(s)] + g[s \ {Chosen(s)}]
  <2>1. Chosen(s) \in s
    BY <1>4 DEF Chosen
  <2>2. g[s] = Folded(f, s, g)
    BY <1>2
  <2> QED
    BY <1>4, <2>1, <2>2 DEF Folded
<1> DEFINE P == {s \in SUBSET S : g[s] \in Nat /\ \A a \in s : g[s] = f[a] + g[s \ {a}]}
<1>5. ASSUME NEW A \in SUBSET S, \A B \in SUBSET A : B # A => B \in P
      PROVE  A \in P
  <2>1. CASE A = {}
    BY <1>3, <2>1
  <2>2. CASE A # {}
    <3> DEFINE c == Chosen(A)
    <3>1. c \in A /\ g[A] = f[c] + g[A \ {c}]
      BY <1>4, <2>2
    <3> HIDE DEF c
    <3>2. A \ {c} \in P
      BY <1>5, <3>1
    <3>3. g[A] \in Nat
      BY <3>1, <3>2
    <3>4. ASSUME NEW a \in A PROVE g[A] = f[a] + g[A \ {a}]
      <4>1. CASE a = c
        BY <3>1, <4>1
      <4>2. CASE a # c
        <5>1. A \ {a} \in P
          BY <1>5
        <5>2. c \in A \ {a} /\ a \in A \ {c}
          BY <3>1, <4>2
        <5>3. g[A \ {a}] = f[c] + g[(A \ {a}) \ {c}]
          BY <5>1, <5>2
        <5>4. g[A \ {c}] = f[a] + g[(A \ {c}) \ {a}]
          BY <3>2, <5>2
        <5>5. (A \ {c}) \ {a} = (A \ {a}) \ {c}
          OBVIOUS
        <5>6. (A \ {a}) \ {c} \in P
          BY <1>5
        <5>7. f[a] \in Nat /\ f[c] \in Nat /\ g[(A \ {a}) \ {c}] \in Nat
          BY <3>1, <5>6
        <5> QED
          BY <3>1, <5>3, <5>4, <5>5, <5>7
      <4> QED
        BY <4>1, <4>2
    <3> QED
      BY <3>3, <3>4
  <2> QED
    BY <2>1, <2>2
<1>6. P \in SUBSET SUBSET S
  OBVIOUS
<1> HIDE DEF P
<1>7. P = SUBSET S
  BY <1>5, <1>6, SubsetInduction
<1>8. \A s \in SUBSET S : g[s] \in Nat /\ \A a \in s : g[s] = f[a] + g[s \ {a}]
  BY <1>7 DEF P
<1>9. g \in [SUBSET S -> Nat]
  BY <1>2, <1>8
<1>10. Sums(f, g)
  BY <1>1, <1>3, <1>8, <1>9 DEF Sums
<1> QED
  BY <1>2, <1>10

(* Two functions that agree on a set of indices have the same sum there.   *)
LEMMA SumsAgree ==
  ASSUME NEW S, IsFiniteSet(S), NEW f, DOMAIN f = S, NEW g, Sums(f, g),
         NEW e, DOMAIN e = S, NEW h, Sums(e, h),
         NEW T \in SUBSET S, \A a \in T : f[a] = e[a]
  PROVE  g[T] = h[T]
<1> DEFINE P == {s \in SUBSET T : g[s] = h[s]}
<1>1. ASSUME NEW A \in SUBSET T, \A B \in SUBSET A : B # A => B \in P
      PROVE  A \in P
  <2>1. CASE A = {}
    BY <2>1 DEF Sums
  <2>2. CASE A # {}
    <3>1. PICK a \in A : TRUE
      BY <2>2
    <3>2. A \ {a} \in P
      BY <1>1, <3>1
    <3>3. A \in SUBSET S
      OBVIOUS
    <3>4. g[A] = f[a] + g[A \ {a}] /\ h[A] = e[a] + h[A \ {a}]
      BY <3>1, <3>3 DEF Sums
    <3> QED
      BY <3>1, <3>2, <3>4
  <2> QED
    BY <2>1, <2>2
<1>2. P \in SUBSET SUBSET T /\ IsFiniteSet(T)
  BY FS_Subset
<1> HIDE DEF P
<1>3. P = SUBSET T
  BY <1>1, <1>2, SubsetInduction
<1> QED
  BY <1>3 DEF P

(* A total is a natural number, and no part of it is larger. *)
LEMMA TotalBounds ==
  ASSUME NEW S, IsFiniteSet(S), NEW f \in [S -> Nat]
  PROVE  /\ Total(f) \in Nat
         /\ \A a \in S : f[a] <= Total(f)
<1>1. PICK g : Sums(f, g) /\ Total(f) = g[S]
  BY SumsExist
<1>2. DOMAIN f = S
  OBVIOUS
<1>3. g[S] \in Nat
  BY <1>1, <1>2 DEF Sums
<1>4. ASSUME NEW a \in S PROVE f[a] <= g[S]
  <2>1. g[S] = f[a] + g[S \ {a}] /\ g[S \ {a}] \in Nat /\ f[a] \in Nat
    BY <1>1, <1>2 DEF Sums
  <2> QED
    BY <2>1
<1> QED
  BY <1>1, <1>3, <1>4

(* Changing one value changes the total by the difference. *)
LEMMA TotalChange ==
  ASSUME NEW S, IsFiniteSet(S), NEW f \in [S -> Nat], NEW e \in [S -> Nat], NEW a \in S,
         \A b \in S \ {a} : e[b] = f[b]
  PROVE  Total(e) = Total(f) - f[a] + e[a]
<1>1. DOMAIN f = S /\ DOMAIN e = S
  OBVIOUS
<1>2. PICK g : Sums(f, g) /\ Total(f) = g[S]
  BY SumsExist
<1>3. PICK h : Sums(e, h) /\ Total(e) = h[S]
  BY SumsExist
<1>4. S \ {a} \in SUBSET S /\ \A b \in S \ {a} : f[b] = e[b]
  OBVIOUS
<1>5. g[S \ {a}] = h[S \ {a}]
  BY <1>1, <1>2, <1>3, <1>4, SumsAgree
<1>6. g[S] = f[a] + g[S \ {a}] /\ g[S \ {a}] \in Nat
  BY <1>1, <1>2 DEF Sums
<1>7. h[S] = e[a] + h[S \ {a}] /\ h[S \ {a}] \in Nat
  BY <1>1, <1>3 DEF Sums
<1>8. f[a] \in Nat /\ e[a] \in Nat
  OBVIOUS
<1> QED
  BY <1>2, <1>3, <1>5, <1>6, <1>7, <1>8

(* Changing one amount changes the sum by the difference. *)
LEMMA TotalExcept ==
  ASSUME NEW S, IsFiniteSet(S), NEW f \in [S -> Nat], NEW a \in S, NEW v \in Nat
  PROVE  Total([f EXCEPT ![a] = v]) = Total(f) - f[a] + v
<1> DEFINE e == [f EXCEPT ![a] = v]
<1>1. e \in [S -> Nat] /\ e[a] = v /\ \A b \in S \ {a} : e[b] = f[b]
  OBVIOUS
<1> HIDE DEF e
<1>2. Total(e) = Total(f) - f[a] + v
  BY <1>1, TotalChange
<1> QED
  BY <1>2 DEF e

(* Nothing adds up to nothing. *)
LEMMA TotalZero ==
  ASSUME NEW S, IsFiniteSet(S)
  PROVE  Total([a \in S |-> 0]) = 0
<1> DEFINE f == [a \in S |-> 0]
<1>1. f \in [S -> Nat] /\ DOMAIN f = S /\ \A a \in S : f[a] = 0
  OBVIOUS
<1> HIDE DEF f
<1>2. PICK g : Sums(f, g) /\ Total(f) = g[S]
  BY <1>1, SumsExist
<1> DEFINE P == {s \in SUBSET S : g[s] = 0}
<1>3. ASSUME NEW A \in SUBSET S, \A B \in SUBSET A : B # A => B \in P
      PROVE  A \in P
  <2>1. CASE A = {}
    BY <1>2, <2>1 DEF Sums
  <2>2. CASE A # {}
    <3>1. PICK a \in A : TRUE
      BY <2>2
    <3>2. A \ {a} \in P
      BY <1>3, <3>1
    <3>3. g[A] = f[a] + g[A \ {a}]
      BY <1>1, <1>2, <3>1 DEF Sums
    <3> QED
      BY <1>1, <3>1, <3>2, <3>3
  <2> QED
    BY <2>1, <2>2
<1>4. P \in SUBSET SUBSET S
  OBVIOUS
<1> HIDE DEF P
<1>5. P = SUBSET S
  BY <1>3, <1>4, SubsetInduction
<1>6. Total(f) = 0
  BY <1>2, <1>5 DEF P
<1> QED
  BY <1>6 DEF f

(***************************************************************************)
(* Answers to a request: two sequences of authorities.                     *)
(***************************************************************************)

(* The elements of a concatenation and of an extended sequence. *)
LEMMA RangeOfConcat ==
  ASSUME NEW S, NEW s \in Seq(S), NEW t \in Seq(S)
  PROVE  Range(s \o t) = Range(s) \cup Range(t)
<1>1. DOMAIN (s \o t) = 1 .. Len(s) + Len(t)
  OBVIOUS
<1>2. \A i \in 1 .. Len(s) : (s \o t)[i] = s[i]
  OBVIOUS
<1>3. \A i \in 1 .. Len(t) : (s \o t)[Len(s) + i] = t[i]
  OBVIOUS
<1>4. \A i \in DOMAIN (s \o t) :
        \/ i \in 1 .. Len(s)
        \/ \E j \in 1 .. Len(t) : i = Len(s) + j
  <2> SUFFICES ASSUME NEW i \in DOMAIN (s \o t), i \notin 1 .. Len(s)
               PROVE  \E j \in 1 .. Len(t) : i = Len(s) + j
    OBVIOUS
  <2>1. i - Len(s) \in 1 .. Len(t) /\ i = Len(s) + (i - Len(s))
    BY <1>1
  <2> QED
    BY <2>1
<1>5. \A j \in 1 .. Len(t) : Len(s) + j \in DOMAIN (s \o t)
  BY <1>1
<1>6. \A i \in 1 .. Len(s) : i \in DOMAIN (s \o t)
  BY <1>1
<1>7. DOMAIN s = 1 .. Len(s) /\ DOMAIN t = 1 .. Len(t)
  OBVIOUS
<1>8. Range(s \o t) \subseteq Range(s) \cup Range(t)
  BY <1>2, <1>3, <1>4, <1>7 DEF Range
<1>9. Range(s) \cup Range(t) \subseteq Range(s \o t)
  BY <1>2, <1>3, <1>5, <1>6, <1>7 DEF Range
<1> QED
  BY <1>8, <1>9

(* A new element anywhere leaves a sequence without repetition. *)
LEMMA InsertNew ==
  ASSUME NEW S, NEW s \in Seq(S), NEW t \in Seq(S), NEW x \in S,
         IsInjective(s \o t), x \notin Range(s \o t)
  PROVE  /\ IsInjective(Append(s, x) \o t)
         /\ Range(Append(s, x) \o t) = Range(s \o t) \cup {x}
<1> DEFINE v == s \o t
           u == Append(s, x) \o t
<1>1. v \in Seq(S) /\ u \in Seq(S) /\ Len(v) = Len(s) + Len(t) /\ Len(u) = Len(v) + 1
  OBVIOUS
<1>2. \A i \in 1 .. Len(u) :
        /\ i <= Len(s) => u[i] = v[i]
        /\ i = Len(s) + 1 => u[i] = x
        /\ i > Len(s) + 1 => u[i] = v[i - 1]
  OBVIOUS
<1>3. Len(s) \in Nat /\ Len(t) \in Nat /\ DOMAIN v = 1 .. Len(v) /\ DOMAIN u = 1 .. Len(u)
  OBVIOUS
<1>4. \A i \in 1 .. Len(v) : v[i] # x
  BY <1>3 DEF Range
<1>5. \A i, j \in 1 .. Len(v) : v[i] = v[j] => i = j
  BY <1>3 DEF IsInjective
<1> HIDE DEF u, v
<1>6. ASSUME NEW i \in 1 .. Len(u), NEW j \in 1 .. Len(u), u[i] = u[j]
      PROVE  i = j
  <2>1. CASE i <= Len(s)
    <3>1. i \in 1 .. Len(v) /\ u[i] = v[i]
      BY <1>1, <1>2, <1>3, <2>1
    <3>2. CASE j <= Len(s)
      <4>1. j \in 1 .. Len(v) /\ u[j] = v[j]
        BY <1>1, <1>2, <1>3, <3>2
      <4> QED
        BY <1>5, <1>6, <3>1, <4>1
    <3>3. CASE j = Len(s) + 1
      BY <1>2, <1>4, <1>6, <3>1, <3>3
    <3>4. CASE j > Len(s) + 1
      <4>1. j - 1 \in 1 .. Len(v) /\ u[j] = v[j - 1]
        BY <1>1, <1>2, <1>3, <3>4
      <4>2. i = j - 1
        BY <1>5, <1>6, <3>1, <4>1
      <4> QED
        BY <1>3, <2>1, <3>4, <4>2
    <3> QED
      BY <1>3, <3>2, <3>3, <3>4
  <2>2. CASE i = Len(s) + 1
    <3>1. CASE j <= Len(s)
      BY <1>1, <1>2, <1>3, <1>4, <1>6, <2>2, <3>1
    <3>2. CASE j > Len(s) + 1
      <4>1. j - 1 \in 1 .. Len(v) /\ u[j] = v[j - 1]
        BY <1>1, <1>2, <1>3, <3>2
      <4> QED
        BY <1>2, <1>4, <1>6, <2>2, <4>1
    <3> QED
      BY <1>3, <2>2, <3>1, <3>2
  <2>3. CASE i > Len(s) + 1
    <3>1. i - 1 \in 1 .. Len(v) /\ u[i] = v[i - 1]
      BY <1>1, <1>2, <1>3, <2>3
    <3>2. CASE j <= Len(s)
      <4>1. j \in 1 .. Len(v) /\ u[j] = v[j]
        BY <1>1, <1>2, <1>3, <3>2
      <4>2. i - 1 = j
        BY <1>5, <1>6, <3>1, <4>1
      <4> QED
        BY <1>3, <2>3, <3>2, <4>2
    <3>3. CASE j = Len(s) + 1
      BY <1>2, <1>4, <1>6, <3>1, <3>3
    <3>4. CASE j > Len(s) + 1
      <4>1. j - 1 \in 1 .. Len(v) /\ u[j] = v[j - 1]
        BY <1>1, <1>2, <1>3, <3>4
      <4>2. i - 1 = j - 1
        BY <1>5, <1>6, <3>1, <4>1
      <4> QED
        BY <4>2
    <3> QED
      BY <1>3, <3>2, <3>3, <3>4
  <2> QED
    BY <1>3, <2>1, <2>2, <2>3
<1>7. IsInjective(u)
  BY <1>3, <1>6 DEF IsInjective
<1>8. \A p, q \in Seq(S) : Range(p \o q) = Range(p) \cup Range(q)
  BY RangeOfConcat
<1>9. Range(u) = Range(v) \cup {x}
  <2> Append(s, x) \in Seq(S) /\ <<x>> \in Seq(S)
    OBVIOUS
  <2>1. PICK p \in Seq(S) : p = Append(s, x)
    BY Zenon
  <2>2. PICK q \in Seq(S) : q = <<x>>
    BY Zenon
  <2>3. p = s \o q /\ u = p \o t /\ v = s \o t
    BY <2>1, <2>2 DEF u, v
  <2>4. Range(q) = {x}
    BY <2>2 DEF Range
  <2>5. Range(u) = Range(p) \cup Range(t) /\ Range(v) = Range(s) \cup Range(t)
    BY <1>8, <2>3
  <2>6. Range(p) = Range(s) \cup {x}
    BY <1>8, <2>3, <2>4
  <2> QED
    BY <2>5, <2>6
<1> QED
  BY <1>7, <1>9 DEF u, v

(* So does one at the end. *)
LEMMA AppendNew ==
  ASSUME NEW S, NEW s \in Seq(S), NEW t \in Seq(S), NEW x \in S,
         IsInjective(s \o t), x \notin Range(s \o t)
  PROVE  /\ IsInjective(s \o Append(t, x))
         /\ Range(s \o Append(t, x)) = Range(s \o t) \cup {x}
<1> s \o t \in Seq(S) /\ << >> \in Seq(S)
  OBVIOUS
<1>1. PICK v \in Seq(S) : v = s \o t
  BY Zenon
<1>2. PICK e \in Seq(S) : e = << >>
  BY Zenon
<1>3. v \o e = s \o t /\ Append(v, x) \o e = s \o Append(t, x)
  BY <1>1, <1>2
<1>4. IsInjective(v \o e) /\ x \notin Range(v \o e)
  BY <1>3
<1>5. IsInjective(Append(v, x) \o e) /\ Range(Append(v, x) \o e) = Range(v \o e) \cup {x}
  BY <1>4, InsertNew
<1> QED
  BY <1>3, <1>5

(***************************************************************************)
(* Accounts.                                                               *)
(***************************************************************************)
Sound(account) ==
  /\ account \in Account
  /\ RequestFunded(account)
  /\ RequestUndecided(account)
  /\ Solvent(account)

(* What the kind of its code says of an account. *)
LEMMA Kinds ==
  ASSUME NEW a \in Account
  PROVE  /\ a.nonce \in Nat /\ a.balance \in Nat
         /\ a.code \in {NoCode} \cup MultiSigns \cup CrowdFunds
         /\ a.code.kind \in {"none", "multiSign", "crowdFund"}
         /\ a.code.kind = "none" <=> a.code = NoCode
         /\ a.code.kind = "multiSign" <=> a.code \in MultiSigns
         /\ a.code.kind = "crowdFund" <=> a.code \in CrowdFunds
<1>1. a.nonce \in Nat /\ a.balance \in Nat /\ a.code \in {NoCode} \cup MultiSigns \cup CrowdFunds
  BY DEF Account
<1>2. NoCode.kind = "none"
  BY DEF NoCode
<1>3. \A m \in MultiSigns : m.kind = "multiSign"
  BY DEF MultiSigns
<1>4. \A c \in CrowdFunds : c.kind = "crowdFund"
  BY DEF CrowdFunds
<1> QED
  BY <1>1, <1>2, <1>3, <1>4

(* An account without code is sound. *)
LEMMA PlainSound ==
  ASSUME NEW a \in Account, a.code = NoCode
  PROVE  Sound(a)
<1>1. a.code.kind = "none"
  BY Kinds
<1> QED
  BY <1>1 DEF Sound, RequestFunded, RequestUndecided, Solvent

(* An account that does not exist yet is sound. *)
LEMMA EmptySound == Empty \in Account /\ Empty.code = NoCode /\ Sound(Empty)
<1>1. Empty \in Account /\ Empty.code = NoCode
  BY DEF Empty, Account
<1> QED
  BY <1>1, PlainSound

(* Coins that come in leave an account sound. *)
LEMMA CreditedSound ==
  ASSUME NEW a, Sound(a), NEW v \in Nat
  PROVE  /\ Sound(Credited(a, v))
         /\ Credited(a, v).nonce = a.nonce
         /\ Credited(a, v).balance = a.balance + v
         /\ Credited(a, v).code = a.code
<1> DEFINE b == Credited(a, v)
<1>1. a \in Account
  BY DEF Sound
<1>2. b.nonce = a.nonce /\ b.balance = a.balance + v /\ b.code = a.code /\ b \in Account
  BY <1>1 DEF Credited, Account
<1> HIDE DEF b
<1>3. RequestUndecided(b)
  BY <1>2 DEF Sound, RequestUndecided
<1>4. RequestFunded(b)
  <2> SUFFICES ASSUME b.code.kind = "multiSign", RequestOpen(b.code)
               PROVE  b.code.amount <= b.balance
    BY DEF RequestFunded
  <2>1. a.code.amount <= a.balance
    BY <1>2 DEF Sound, RequestFunded
  <2>2. a.code.amount \in Nat
    BY <1>1, <1>2, Kinds DEF MultiSigns
  <2> QED
    BY <1>1, <1>2, <2>1, <2>2, Kinds
<1>5. Solvent(b)
  <2> SUFFICES ASSUME b.code.kind = "crowdFund", b.code.live
               PROVE  Total(b.code.funds) <= b.balance
    BY DEF Solvent
  <2>1. Total(a.code.funds) <= a.balance
    BY <1>2 DEF Sound, Solvent
  <2>2. a.code.funds \in [Address -> Nat]
    BY <1>1, <1>2, Kinds DEF CrowdFunds
  <2>3. Total(a.code.funds) \in Nat
    BY <2>2, TotalBounds, AddressAssumption
  <2> QED
    BY <1>1, <1>2, <2>1, <2>3, Kinds
<1> QED
  BY <1>2, <1>3, <1>4, <1>5 DEF Sound, b

(* Other code, another balance. *)
LEMMA Recoded ==
  ASSUME NEW a \in Account, NEW c \in {NoCode} \cup MultiSigns \cup CrowdFunds, NEW b,
         b = [a EXCEPT !.code = c]
  PROVE  b \in Account /\ b.nonce = a.nonce /\ b.balance = a.balance /\ b.code = c
BY DEF Account

(* Another balance leaves the rest of an account alone. *)
LEMMA Rebalanced ==
  ASSUME NEW a \in Account, NEW v \in Nat, NEW b, b = [a EXCEPT !.balance = v]
  PROVE  b \in Account /\ b.nonce = a.nonce /\ b.balance = v /\ b.code = a.code
BY DEF Account

(***************************************************************************)
(* A transaction.  Signed is what Transaction.validate makes sure of.      *)
(***************************************************************************)
Signed(tx) ==
  /\ tx.from \in Address /\ tx.to \in Address /\ tx.from # tx.to
  /\ tx.value \in Nat \ {0} /\ tx.nonce \in Nat \ {0}
  /\ tx.args \in IF tx.command = Create THEN CreateArguments ELSE Arguments

(* What running a command has to leave: sound accounts that hold, with the *)
(* payment, the coins they held before.                                    *)
Outcome(from, to, r) ==
  /\ r.from \in Account /\ r.from.code = NoCode /\ r.from.nonce = from.nonce
  /\ Sound(r.to) /\ r.to # Empty
  /\ r.amount \in Nat /\ r.payee \in Key /\ r.paid \in BOOLEAN
  /\ ~r.paid => r.payee = NoOne /\ r.amount = 0
  /\ r.from.balance + r.to.balance + r.amount = from.balance + to.balance

(* Without a payment it is enough that the contract is sound. *)
LEMMA UnpaidOutcome ==
  ASSUME NEW from \in Account, NEW to \in Account,
         NEW sender \in Account, sender.code = NoCode, sender.nonce = from.nonce,
         NEW after, Sound(after), after # Empty,
         sender.balance + after.balance = from.balance + to.balance
  PROVE  Outcome(from, to, Unpaid(sender, after))
<1>1. after.balance \in Nat /\ sender.balance \in Nat
  BY Kinds DEF Sound
<1> QED
  BY <1>1 DEF Outcome, Unpaid, Key

(***************************************************************************)
(* The multi-signature contract.                                           *)
(***************************************************************************)

(* The fields of a contract. *)
LEMMA MultiSignFields ==
  ASSUME NEW m \in MultiSigns
  PROVE  /\ m.kind = "multiSign" /\ m.authority \in Seq(Address) /\ m.threshold \in Nat
         /\ m.expireInterval \in Nat /\ m.timestamp \in Nat /\ m.payee \in Key
         /\ m.amount \in Nat /\ m.agree \in Seq(Address) /\ m.reject \in Seq(Address)
BY DEF MultiSigns

(* A new request, and a settled one. *)
LEMMA NewRequest ==
  ASSUME NEW m \in MultiSigns, NEW args \in Arguments, NEW now \in Nat
  PROVE  LET q == Request(m, args, now)
         IN /\ q \in MultiSigns /\ q.amount = args.amount /\ q.authority = m.authority
            /\ q.agree = << >> /\ q.reject = << >>
<1>1. args.payee \in Key /\ args.amount \in Nat /\ << >> \in Seq(Address)
  BY DEF Arguments
<1>2. PICK q : q = Request(m, args, now)
  OBVIOUS
<1>3. PICK e \in Seq(Address) : e = << >>
  BY <1>1, Zenon
<1>4. q = [m EXCEPT !.payee = args.payee, !.amount = args.amount, !.timestamp = now,
                    !.agree = e, !.reject = e]
  BY <1>2, <1>3 DEF Request
<1>5. /\ q \in MultiSigns /\ q.amount = args.amount /\ q.authority = m.authority
      /\ q.agree = e /\ q.reject = e
  BY <1>1, <1>4 DEF MultiSigns
<1> QED
  BY <1>2, <1>3, <1>5

(* A reset contract has no open request. *)
LEMMA ResetFields ==
  ASSUME NEW m \in MultiSigns
  PROVE  Reset(m) \in MultiSigns /\ Reset(m).payee = NoOne
<1>1. NoOne \in Key /\ << >> \in Seq(Address)
  BY DEF Key
<1>2. PICK q : q = Reset(m)
  OBVIOUS
<1>3. PICK e \in Seq(Address) : e = << >>
  BY <1>1, Zenon
<1>4. PICK z \in Nat : z = 0
  OBVIOUS
<1>5. q = [m EXCEPT !.payee = NoOne, !.amount = z, !.timestamp = z,
                    !.agree = e, !.reject = e]
  BY <1>2, <1>3, <1>4 DEF Reset
<1>6. q \in MultiSigns /\ q.payee = NoOne
  BY <1>1, <1>5 DEF MultiSigns
<1> QED
  BY <1>2, <1>6

(* No refusal is complete before the first one, unless the threshold is    *)
(* above 100.                                                              *)
LEMMA NoneRefuses ==
  ASSUME NEW m \in MultiSigns, Len(m.reject) = 0, m.threshold <= 100
  PROVE  ~Refused(m)
<1>1. Len(m.authority) \in Nat /\ m.threshold \in Nat
  BY MultiSignFields
<1>2. \A x, y \in Nat : x * y >= 0
  OBVIOUS
<1>3. (100 - m.threshold) * Len(m.authority) >= 0
  BY <1>1, <1>2
<1> QED
  BY <1>1, <1>3 DEF Refused

(* What the answer makes of the request, before it is settled. *)
Answers(to, tx, m) ==
  /\ m \in MultiSigns
  /\ tx.command \in {SendOrFund, AgreeOrRefund} => m.amount <= to.balance
  /\ RequestOpen(m) =>
       /\ m.amount <= to.balance
       /\ IsInjective(m.agree \o m.reject)
       /\ Range(m.agree \o m.reject) \subseteq Range(m.authority)
       /\ tx.command \notin {SendOrFund, AgreeOrRefund} => ~Approved(m)
       /\ tx.command # RejectOrReceive => (m.threshold <= 100 => ~Refused(m))

(* A sound contract's open request, as the contract has it. *)
LEMMA OpenRequest ==
  ASSUME NEW to, Sound(to), to.code \in MultiSigns, RequestOpen(to.code)
  PROVE  /\ to.code.amount <= to.balance
         /\ IsInjective(to.code.agree \o to.code.reject)
         /\ Range(to.code.agree \o to.code.reject) \subseteq Range(to.code.authority)
         /\ ~Approved(to.code)
         /\ to.code.threshold <= 100 => ~Refused(to.code)
BY MultiSignFields DEF Sound, RequestFunded, RequestUndecided

(* Asking for a payment: the request has the asker's agreement only. *)
LEMMA RequestAnswers ==
  ASSUME NEW to, Sound(to), to.code \in MultiSigns, NEW tx, Signed(tx), NEW now \in Nat,
         tx.command = SendOrFund, MultiSignAccepts(to.code, to.balance, tx, now),
         NEW m, m = Voted(to.code, tx, now)
  PROVE  Answers(to, tx, m)
<1> DEFINE c == to.code
<1>1. tx.args \in Arguments /\ tx.from \in Address
  BY DEF Signed, SendOrFund, Create
<1>2. tx.from \in Range(c.authority) /\ tx.args.amount <= to.balance
  BY DEF MultiSignAccepts, CanRequest
<1>3. m = Agree(Request(c, tx.args, now), tx.from)
  BY DEF Voted, SendOrFund, AgreeOrRefund, RejectOrReceive
<1>4. /\ tx.args.payee \in Key /\ tx.args.amount \in Nat
  BY <1>1 DEF Arguments
<1> DEFINE q == Request(c, tx.args, now)
<1>5. /\ q \in MultiSigns /\ q.amount = tx.args.amount /\ q.authority = c.authority
      /\ q.agree = << >> /\ q.reject = << >>
  BY <1>1, NewRequest
<1> HIDE DEF q
<1>6. /\ m \in MultiSigns /\ m.amount = q.amount /\ m.authority = q.authority
      /\ m.agree = Append(q.agree, tx.from) /\ m.reject = q.reject
  <2>1. m = [q EXCEPT !.agree = Append(@, tx.from)]
    BY <1>3 DEF Agree, q
  <2>2. Append(q.agree, tx.from) \in Seq(Address)
    BY <1>1, <1>5, MultiSignFields
  <2> QED
    BY <1>5, <2>1, <2>2 DEF MultiSigns
<1>7. m.agree \o m.reject = <<tx.from>>
  BY <1>5, <1>6
<1>8. IsInjective(m.agree \o m.reject) /\ Range(m.agree \o m.reject) = {tx.from}
  BY <1>7 DEF IsInjective, Range
<1>9. m.threshold <= 100 => ~Refused(m)
  <2>1. Len(m.reject) = 0
    BY <1>5, <1>6
  <2> QED
    BY <1>6, <2>1, NoneRefuses
<1> QED
  BY <1>2, <1>5, <1>6, <1>8, <1>9 DEF Answers

(* Agreeing adds one agreement of an authority. *)
LEMMA AgreementAnswers ==
  ASSUME NEW to, Sound(to), to.code \in MultiSigns, NEW tx, Signed(tx), NEW now \in Nat,
         tx.command = AgreeOrRefund, MultiSignAccepts(to.code, to.balance, tx, now),
         NEW m, m = Voted(to.code, tx, now)
  PROVE  Answers(to, tx, m)
<1> DEFINE c == to.code
<1>1. tx.from \in Range(c.authority) /\ RequestOpen(c) /\ ~Answered(c, tx.from)
  BY DEF MultiSignAccepts, CanAnswer, SendOrFund, AgreeOrRefund
<1>2. m = [c EXCEPT !.agree = Append(@, tx.from)]
  <2>1. m = Agree(c, tx.from)
    BY DEF Voted, SendOrFund, AgreeOrRefund, RejectOrReceive
  <2> QED
    BY <2>1 DEF Agree
<1>3. /\ c.amount <= to.balance
      /\ IsInjective(c.agree \o c.reject)
      /\ Range(c.agree \o c.reject) \subseteq Range(c.authority)
      /\ c.threshold <= 100 => ~Refused(c)
  BY <1>1, OpenRequest
<1>4. tx.from \in Address /\ c.agree \in Seq(Address) /\ c.reject \in Seq(Address)
  BY MultiSignFields DEF Signed
<1> HIDE DEF c
<1>5. /\ m \in MultiSigns /\ m.amount = c.amount /\ m.authority = c.authority
      /\ m.agree = Append(c.agree, tx.from) /\ m.reject = c.reject
      /\ m.threshold = c.threshold
  <2>1. Append(c.agree, tx.from) \in Seq(Address)
    BY <1>4
  <2> QED
    BY <1>2, <2>1 DEF MultiSigns, c
<1>6. tx.from \notin Range(c.agree \o c.reject)
  BY <1>1, <1>4, RangeOfConcat DEF Answered
<1>7. /\ IsInjective(m.agree \o m.reject)
      /\ Range(m.agree \o m.reject) = Range(c.agree \o c.reject) \cup {tx.from}
  BY <1>3, <1>4, <1>5, <1>6, InsertNew
<1>8. m.threshold <= 100 => ~Refused(m)
  BY <1>3, <1>5 DEF Refused
<1> QED
  BY <1>1, <1>3, <1>5, <1>7, <1>8 DEF Answers

(* Refusing adds one refusal of an authority. *)
LEMMA RefusalAnswers ==
  ASSUME NEW to, Sound(to), to.code \in MultiSigns, NEW tx, Signed(tx), NEW now \in Nat,
         tx.command = RejectOrReceive, MultiSignAccepts(to.code, to.balance, tx, now),
         NEW m, m = Voted(to.code, tx, now)
  PROVE  Answers(to, tx, m)
<1> DEFINE c == to.code
<1>1. tx.from \in Range(c.authority) /\ RequestOpen(c) /\ ~Answered(c, tx.from)
  BY DEF MultiSignAccepts, CanAnswer, SendOrFund, RejectOrReceive
<1>2. m = [c EXCEPT !.reject = Append(@, tx.from)]
  BY DEF Voted, Reject, SendOrFund, AgreeOrRefund, RejectOrReceive
<1>3. /\ c.amount <= to.balance
      /\ IsInjective(c.agree \o c.reject)
      /\ Range(c.agree \o c.reject) \subseteq Range(c.authority)
      /\ ~Approved(c)
  BY <1>1, OpenRequest
<1>4. tx.from \in Address /\ c.agree \in Seq(Address) /\ c.reject \in Seq(Address)
  BY MultiSignFields DEF Signed
<1> HIDE DEF c
<1>5. /\ m \in MultiSigns /\ m.amount = c.amount /\ m.authority = c.authority
      /\ m.agree = c.agree /\ m.reject = Append(c.reject, tx.from)
      /\ m.threshold = c.threshold
  <2>1. Append(c.reject, tx.from) \in Seq(Address)
    BY <1>4
  <2> QED
    BY <1>2, <2>1 DEF MultiSigns, c
<1>6. tx.from \notin Range(c.agree \o c.reject)
  BY <1>1, <1>4, RangeOfConcat DEF Answered
<1>7. /\ IsInjective(m.agree \o m.reject)
      /\ Range(m.agree \o m.reject) = Range(c.agree \o c.reject) \cup {tx.from}
  BY <1>3, <1>4, <1>5, <1>6, AppendNew
<1>8. ~Approved(m)
  BY <1>3, <1>5 DEF Approved
<1> QED
  BY <1>1, <1>3, <1>5, <1>7, <1>8 DEF Answers, SendOrFund, AgreeOrRefund, RejectOrReceive

(* A settled contract is as sound as its account, and pays what it has. *)
LEMMA SettledSound ==
  ASSUME NEW to \in Account, NEW tx, NEW m, Answers(to, tx, m),
         NEW b \in Account, b.code = Settled(m, tx),
         b.balance = IF Pays(m, tx) THEN to.balance - m.amount ELSE to.balance
  PROVE  Sound(b)
<1>1. m \in MultiSigns
  BY DEF Answers
<1>2. CASE Pays(m, tx) \/ (tx.command = RejectOrReceive /\ Refused(m))
  <2>1. b.code = Reset(m)
    BY <1>2 DEF Settled
  <2>2. b.code.payee = NoOne /\ b.code.kind = "multiSign"
    BY <1>1, <2>1, ResetFields, MultiSignFields
  <2>3. ~RequestOpen(b.code)
    BY <2>2 DEF RequestOpen
  <2> QED
    BY <2>2, <2>3 DEF Sound, RequestFunded, RequestUndecided, Solvent
<1>3. CASE ~(Pays(m, tx) \/ (tx.command = RejectOrReceive /\ Refused(m)))
  <2>1. b.code = m /\ b.balance = to.balance
    BY <1>3 DEF Settled
  <2>2. m.kind = "multiSign"
    BY <1>1, MultiSignFields
  <2>3. RequestOpen(m) => ~Approved(m) /\ (m.threshold <= 100 => ~Refused(m))
    BY <1>3 DEF Answers, Pays
  <2>4. RequestFunded(b) /\ Solvent(b)
    BY <2>1, <2>2 DEF Answers, RequestFunded, Solvent
  <2>5. RequestUndecided(b)
    BY <2>1, <2>2, <2>3 DEF Answers, RequestUndecided
  <2> QED
    BY <2>4, <2>5 DEF Sound
<1> QED
  BY <1>2, <1>3

(* A command of a multi-signature contract. *)
LEMMA MultiSignOutcome ==
  ASSUME NEW from \in Account, from.code = NoCode,
         NEW to, Sound(to), to.code \in MultiSigns,
         NEW tx, Signed(tx), tx.command # Create, NEW now \in Nat,
         MultiSignAccepts(to.code, to.balance, tx, now)
  PROVE  Outcome(from, to, RunMultiSign(from, to, tx, now))
<1> DEFINE m == Voted(to.code, tx, now)
           after == [to EXCEPT !.code = Settled(m, tx)]
<1>1. to \in Account /\ to.balance \in Nat /\ from.balance \in Nat
  BY Kinds DEF Sound
<1>2. Answers(to, tx, m)
  <2>1. CASE tx.command \notin {SendOrFund, AgreeOrRefund, RejectOrReceive}
    <3>1. m = to.code
      BY <2>1 DEF Voted
    <3> QED
      BY <2>1, <3>1, OpenRequest DEF Answers
  <2> QED
    BY <2>1, RequestAnswers, AgreementAnswers, RefusalAnswers
<1>3. m \in MultiSigns /\ m.amount \in Nat /\ m.payee \in Key
  BY <1>2, MultiSignFields DEF Answers
<1> HIDE DEF m
<1>4. Settled(m, tx) \in MultiSigns
  BY <1>3, ResetFields DEF Settled
<1>5. after \in Account /\ after.balance = to.balance /\ after.code = Settled(m, tx)
  BY <1>1, <1>4, Recoded
<1>6. RunMultiSign(from, to, tx, now) =
        IF Pays(m, tx)
        THEN [from |-> from, to |-> [after EXCEPT !.balance = @ - m.amount],
              paid |-> TRUE, payee |-> m.payee, amount |-> m.amount]
        ELSE Unpaid(from, after)
  BY DEF RunMultiSign, m
<1> HIDE DEF after
<1>7. \A b \in Account : b.code \in MultiSigns => b # Empty
  BY MultiSignFields DEF Empty, NoCode
<1>8. CASE Pays(m, tx)
  <2> DEFINE b == [after EXCEPT !.balance = @ - m.amount]
  <2>1. m.amount <= to.balance
    BY <1>2, <1>8 DEF Answers, Pays
  <2>2. to.balance - m.amount \in Nat
    BY <1>1, <1>3, <2>1
  <2>3. b = [after EXCEPT !.balance = to.balance - m.amount]
    BY <1>5
  <2> HIDE DEF b
  <2>4. b \in Account /\ b.code = Settled(m, tx) /\ b.balance = to.balance - m.amount
    BY <1>5, <2>2, <2>3, Rebalanced
  <2>5. Sound(b) /\ b # Empty
    BY <1>1, <1>2, <1>4, <1>7, <1>8, <2>4, SettledSound
  <2>6. from.balance + b.balance + m.amount = from.balance + to.balance
    BY <1>1, <1>3, <2>4
  <2> DEFINE r == [from |-> from, to |-> b, paid |-> TRUE, payee |-> m.payee,
                   amount |-> m.amount]
  <2>7. RunMultiSign(from, to, tx, now) = r
    BY <1>6, <1>8 DEF b
  <2>8. r.from = from /\ r.to = b /\ r.paid = TRUE /\ r.payee = m.payee /\ r.amount = m.amount
    OBVIOUS
  <2> HIDE DEF r
  <2> QED
    BY <1>3, <2>5, <2>6, <2>7, <2>8 DEF Outcome
<1>9. CASE ~Pays(m, tx)
  <2>1. Sound(after) /\ after # Empty
    BY <1>1, <1>2, <1>4, <1>5, <1>7, <1>9, SettledSound
  <2>2. from.balance + after.balance = from.balance + to.balance
    BY <1>5
  <2> QED
    BY <1>1, <1>6, <1>9, <2>1, <2>2, UnpaidOutcome
<1> QED
  BY <1>8, <1>9

(***************************************************************************)
(* The crowd-funding contract.                                             *)
(***************************************************************************)
LEMMA CrowdFundFields ==
  ASSUME NEW c \in CrowdFunds
  PROVE  /\ c.kind = "crowdFund" /\ c.live \in BOOLEAN /\ c.receiver \in Address
         /\ c.funds \in [Address -> Nat]
BY DEF CrowdFunds

(* A fund that grows, is deleted or is paid out. *)
LEMMA FundFields ==
  ASSUME NEW c \in CrowdFunds, NEW who \in Address, NEW v \in Nat
  PROVE  LET d == [c EXCEPT !.funds[who] = v]
         IN d \in CrowdFunds /\ d.live = c.live /\ d.funds = [c.funds EXCEPT ![who] = v]
<1>1. c.funds \in [Address -> Nat]
  BY CrowdFundFields
<1>2. PICK f : f = [c.funds EXCEPT ![who] = v] /\ f \in [Address -> Nat]
  <2>1. [c.funds EXCEPT ![who] = v] \in [Address -> Nat]
    BY <1>1
  <2> QED
    BY <2>1, Zenon
<1>3. [c EXCEPT !.funds[who] = v] = [c EXCEPT !.funds = f]
  BY <1>2
<1> QED
  BY <1>2, <1>3 DEF CrowdFunds

(* Closing a crowd funding. *)
LEMMA ClosedFields ==
  ASSUME NEW c \in CrowdFunds
  PROVE  LET d == [c EXCEPT !.live = FALSE]
         IN d \in CrowdFunds /\ d.live = FALSE
BY DEF CrowdFunds

(* What the three commands do to the record of a crowd funding. *)
LEMMA FundedCases ==
  ASSUME NEW c, NEW tx
  PROVE  /\ tx.command = SendOrFund =>
              Funded(c, tx) = [c EXCEPT !.funds[tx.from] = c.funds[tx.from] + tx.value]
         /\ tx.command = AgreeOrRefund => Funded(c, tx) = [c EXCEPT !.funds[tx.from] = 0]
         /\ tx.command = RejectOrReceive => Funded(c, tx) = [c EXCEPT !.live = FALSE]
BY DEF Funded, SendOrFund, AgreeOrRefund, RejectOrReceive

(* What an account with a crowd funding has to show to be sound. *)
LEMMA CrowdFundSound ==
  ASSUME NEW b \in Account, b.code \in CrowdFunds,
         b.code.live => Total(b.code.funds) <= b.balance
  PROVE  Sound(b) /\ b # Empty
<1>1. b.code.kind = "crowdFund"
  BY CrowdFundFields
<1>2. b # Empty
  BY <1>1 DEF Empty, NoCode
<1> QED
  BY <1>1, <1>2 DEF Sound, RequestFunded, RequestUndecided, Solvent

(* A command of a crowd funding; the account has received the value of the *)
(* transaction already, on top of what was enough before.                  *)
LEMMA CrowdFundOutcome ==
  ASSUME NEW from \in Account, from.code = NoCode,
         NEW to \in Account, to.code \in CrowdFunds,
         NEW tx, Signed(tx), NEW now \in Nat,
         to.code.live => Total(to.code.funds) + tx.value <= to.balance,
         CrowdFundAccepts(to.code, to.balance, tx, now)
  PROVE  Outcome(from, to, RunCrowdFund(from, to, tx))
<1> DEFINE c == to.code
           share == c.funds[tx.from]
           total == Total(c.funds)
           after == [to EXCEPT !.code = Funded(c, tx)]
<1>1. /\ from.nonce \in Nat /\ from.balance \in Nat
      /\ to.balance \in Nat /\ tx.value \in Nat /\ tx.from \in Address
  BY Kinds DEF Signed
<1>2. c \in CrowdFunds /\ c.funds \in [Address -> Nat] /\ c.receiver \in Address
  BY CrowdFundFields
<1>3. share \in Nat /\ total \in Nat /\ share <= total
  BY <1>1, <1>2, TotalBounds, AddressAssumption
<1>4. total + tx.value <= to.balance
  BY DEF CrowdFundAccepts
<1>5. RunCrowdFund(from, to, tx) =
        CASE tx.command = AgreeOrRefund ->
               Unpaid(Credited(from, share), [after EXCEPT !.balance = @ - share])
          [] tx.command = RejectOrReceive ->
               [from |-> from, to |-> [after EXCEPT !.balance = 0],
                paid |-> TRUE, payee |-> c.receiver, amount |-> to.balance]
          [] OTHER -> Unpaid(from, after)
  BY DEF RunCrowdFund
<1>6. \/ tx.command = SendOrFund
      \/ tx.command = AgreeOrRefund
      \/ tx.command = RejectOrReceive
  BY DEF CrowdFundAccepts
<1>7. \A d \in CrowdFunds : Funded(c, tx) = d =>
        after \in Account /\ after.nonce = to.nonce /\ after.balance = to.balance /\ after.code = d
  BY Recoded
<1>8. CASE tx.command = SendOrFund
  <2> DEFINE d == [c EXCEPT !.funds[tx.from] = share + tx.value]
  <2>1. Funded(c, tx) = d
    BY <1>8, FundedCases
  <2>2. share + tx.value \in Nat
    BY <1>1, <1>3
  <2>3. d \in CrowdFunds /\ d.funds = [c.funds EXCEPT ![tx.from] = share + tx.value]
    BY <1>1, <1>2, <2>2, FundFields
  <2>4. Total(d.funds) = total - share + (share + tx.value)
    BY <1>1, <1>2, <2>2, <2>3, TotalExcept, AddressAssumption
  <2> HIDE DEF d
  <2>5. after \in Account /\ after.balance = to.balance /\ after.code = d
    BY <1>7, <2>1, <2>3
  <2>6. RunCrowdFund(from, to, tx) = Unpaid(from, after)
    BY <1>5, <1>8 DEF SendOrFund, AgreeOrRefund, RejectOrReceive
  <2> HIDE DEF after, c, share, total
  <2>7. Total(d.funds) <= to.balance
    BY <1>1, <1>3, <1>4, <2>4
  <2>8. Sound(after) /\ after # Empty
    BY <2>3, <2>5, <2>7, CrowdFundSound
  <2>9. from.balance + after.balance = from.balance + to.balance
    BY <2>5
  <2> QED
    BY <2>6, <2>8, <2>9, UnpaidOutcome
<1>9. CASE tx.command = AgreeOrRefund
  <2> DEFINE d == [c EXCEPT !.funds[tx.from] = 0]
             b == [after EXCEPT !.balance = @ - share]
             sender == Credited(from, share)
  <2>1. Funded(c, tx) = d
    BY <1>9, FundedCases
  <2>2. 0 \in Nat
    OBVIOUS
  <2>3. d \in CrowdFunds /\ d.funds = [c.funds EXCEPT ![tx.from] = 0]
    BY <1>1, <1>2, <2>2, FundFields
  <2>4. Total(d.funds) = total - share + 0
    <3>1. Total([c.funds EXCEPT ![tx.from] = 0]) = Total(c.funds) - c.funds[tx.from] + 0
      BY <1>1, <1>2, <2>2, TotalExcept, AddressAssumption
    <3> QED
      BY <2>3, <3>1
  <2> HIDE DEF d
  <2>5. after \in Account /\ after.balance = to.balance /\ after.code = d
    BY <1>7, <2>1, <2>3
  <2>6. RunCrowdFund(from, to, tx) = Unpaid(sender, b)
    BY <1>5, <1>9 DEF SendOrFund, AgreeOrRefund, RejectOrReceive
  <2> HIDE DEF after, c, share, total
  <2>7. to.balance - share \in Nat /\ b = [after EXCEPT !.balance = to.balance - share]
    BY <1>1, <1>3, <1>4, <2>5
  <2>8. b \in Account /\ b.balance = to.balance - share /\ b.code = d
    BY <2>5, <2>7, Rebalanced
  <2>9. Total(d.funds) <= to.balance - share
    BY <1>1, <1>3, <1>4, <2>4
  <2>10. Sound(b) /\ b # Empty
    BY <2>3, <2>8, <2>9, CrowdFundSound
  <2>11. Sound(from)
    BY PlainSound
  <2>12. /\ sender \in Account /\ sender.code = NoCode /\ sender.nonce = from.nonce
         /\ sender.balance = from.balance + share
    BY <1>3, <2>11, CreditedSound DEF Sound
  <2> HIDE DEF sender, b
  <2>13. sender.balance + b.balance = from.balance + to.balance
    BY <1>1, <1>3, <2>8, <2>12
  <2> QED
    BY <2>6, <2>10, <2>12, <2>13, UnpaidOutcome
<1>10. CASE tx.command = RejectOrReceive
  <2> DEFINE d == [c EXCEPT !.live = FALSE]
             b == [after EXCEPT !.balance = 0]
             r == [from |-> from, to |-> b, paid |-> TRUE, payee |-> c.receiver,
                   amount |-> to.balance]
  <2>1. Funded(c, tx) = d
    BY <1>10, FundedCases
  <2>2. d \in CrowdFunds /\ d.live = FALSE
    BY <1>2, ClosedFields
  <2> HIDE DEF d
  <2>3. after \in Account /\ after.code = d
    BY <1>7, <2>1, <2>2
  <2>4. RunCrowdFund(from, to, tx) = r
    BY <1>5, <1>10 DEF SendOrFund, AgreeOrRefund, RejectOrReceive
  <2>5. c.receiver \in Key
    BY <1>2 DEF Key
  <2> HIDE DEF after, c, share, total
  <2>6. 0 \in Nat
    OBVIOUS
  <2>7. b \in Account /\ b.balance = 0 /\ b.code = d
    BY <2>3, <2>6, Rebalanced
  <2>8. Sound(b) /\ b # Empty
    BY <2>2, <2>7, CrowdFundSound
  <2> HIDE DEF b
  <2>9. /\ r.from = from /\ r.to = b /\ r.paid = TRUE /\ r.payee = c.receiver
        /\ r.amount = to.balance
    OBVIOUS
  <2>10. from.balance + b.balance + to.balance = from.balance + to.balance
    BY <1>1, <2>7
  <2> HIDE DEF r
  <2> QED
    BY <1>1, <2>4, <2>5, <2>8, <2>9, <2>10 DEF Outcome
<1> QED
  BY <1>6, <1>8, <1>9, <1>10

(***************************************************************************)
(* Any command.                                                            *)
(***************************************************************************)

(* A contract as it is created is sound with any balance. *)
Fresh(code) ==
  /\ code.kind = "multiSign" => code = NewMultiSign(code)
  /\ code.kind = "crowdFund" => code = NewCrowdFund(code)

(* An account whose contract was just created is sound. *)
LEMMA FreshSound ==
  ASSUME NEW b \in Account, Fresh(b.code)
  PROVE  Sound(b)
<1>1. CASE b.code.kind = "none"
  BY <1>1, PlainSound, Kinds
<1>2. CASE b.code.kind = "multiSign"
  <2>1. b.code = NewMultiSign(b.code)
    BY <1>2 DEF Fresh
  <2>2. b.code.payee = NoOne
    BY <2>1 DEF NewMultiSign
  <2> QED
    BY <1>2, <2>2 DEF Sound, RequestFunded, RequestUndecided, RequestOpen, Solvent
<1>3. CASE b.code.kind = "crowdFund"
  <2>1. b.code = NewCrowdFund(b.code)
    BY <1>3 DEF Fresh
  <2>2. b.code.funds = [a \in Address |-> 0]
    BY <2>1 DEF NewCrowdFund
  <2>3. Total(b.code.funds) = 0
    BY <2>2, TotalZero, AddressAssumption
  <2>4. b.balance \in Nat
    BY Kinds
  <2> QED
    BY <1>3, <2>3, <2>4 DEF Sound, RequestFunded, RequestUndecided, Solvent
<1> QED
  BY <1>1, <1>2, <1>3, Kinds

(* A transaction that creates a contract creates a fresh one. *)
LEMMA CreatedFresh ==
  ASSUME NEW tx, Signed(tx), tx.command = Create
  PROVE  Created(tx) \in MultiSigns \cup CrowdFunds /\ Fresh(Created(tx))
<1> DEFINE args == tx.args
<1>1. args \in CreateArguments
  BY DEF Signed
<1>2. CASE args.kind = "multiSign"
  <2>1. /\ args.authority \in Seq(Address) /\ args.threshold \in Nat
        /\ args.expireInterval \in Nat
    BY <1>1, <1>2 DEF CreateArguments
  <2>2. Created(tx) = NewMultiSign(args)
    BY <1>2 DEF Created
  <2> HIDE DEF args
  <2>3. NoOne \in Key /\ << >> \in Seq(Address)
    BY DEF Key
  <2>4. NewMultiSign(args) \in MultiSigns
    BY <2>1, <2>3 DEF NewMultiSign, MultiSigns
  <2>5. NewMultiSign(args) = NewMultiSign(NewMultiSign(args))
    BY DEF NewMultiSign
  <2>6. NewMultiSign(args).kind = "multiSign"
    BY DEF NewMultiSign
  <2> QED
    BY <2>2, <2>4, <2>5, <2>6 DEF Fresh
<1>3. CASE args.kind # "multiSign"
  <2>1. /\ args.beginTime \in Nat /\ args.endTime \in Nat /\ args.receiver \in Address
        /\ args.target \in Nat /\ args.limit \in Nat
    BY <1>1, <1>3 DEF CreateArguments
  <2>2. Created(tx) = NewCrowdFund(args)
    BY <1>3 DEF Created
  <2> HIDE DEF args
  <2>3. NewCrowdFund(args) \in CrowdFunds
    BY <2>1 DEF NewCrowdFund, CrowdFunds
  <2>4. NewCrowdFund(args) = NewCrowdFund(NewCrowdFund(args))
    BY DEF NewCrowdFund
  <2>5. NewCrowdFund(args).kind = "crowdFund"
    BY DEF NewCrowdFund
  <2> QED
    BY <2>2, <2>3, <2>4, <2>5 DEF Fresh
<1> QED
  BY <1>2, <1>3

(* A transaction the contract accepts leaves sound accounts that hold,     *)
(* with what is paid, the coins of before.                                 *)
LEMMA RunOutcome ==
  ASSUME NEW from \in Account, from.code = NoCode, NEW old, Sound(old),
         NEW tx, Signed(tx), NEW now \in Nat, Accepts(old, tx, now)
  PROVE  LET to == Credited(old, tx.value)
         IN Outcome(from, to, Run(from, to, tx, now))
<1> DEFINE to == Credited(old, tx.value)
<1>1. old \in Account /\ old.balance \in Nat /\ tx.value \in Nat /\ tx.value > 0
  BY Kinds DEF Sound, Signed
<1>2. /\ Sound(to) /\ to.nonce = old.nonce /\ to.balance = old.balance + tx.value
      /\ to.code = old.code
  BY <1>1, CreditedSound
<1> SUFFICES Outcome(from, to, Run(from, to, tx, now))
  OBVIOUS
<1> HIDE DEF to
<1>3. to \in Account /\ to.balance \in Nat /\ to.balance > 0
  BY <1>1, <1>2 DEF Sound
<1>4. to # Empty
  BY <1>3 DEF Empty
<1>5. CASE tx.command = Transfer
  <2>1. Run(from, to, tx, now) = Unpaid(from, to)
    BY <1>5 DEF Run, Transfer, Create
  <2> QED
    BY <1>2, <1>3, <1>4, <2>1, UnpaidOutcome
<1>6. CASE tx.command = Create
  <2> DEFINE after == [to EXCEPT !.code = Created(tx)]
  <2>1. Run(from, to, tx, now) = Unpaid(from, after)
    BY <1>6 DEF Run, Transfer, Create
  <2>2. Created(tx) \in MultiSigns \cup CrowdFunds /\ Fresh(Created(tx))
    BY <1>6, CreatedFresh
  <2>3. after \in Account /\ after.balance = to.balance /\ after.code = Created(tx)
    BY <1>3, <2>2, Recoded
  <2> HIDE DEF after
  <2>4. Sound(after) /\ after # Empty
    BY <1>3, <2>2, <2>3, FreshSound DEF Empty
  <2>5. from.balance + after.balance = from.balance + to.balance
    BY <2>3
  <2> QED
    BY <1>3, <2>1, <2>4, <2>5, UnpaidOutcome
<1>7. CASE tx.command \notin {Transfer, Create} /\ to.code.kind = "multiSign"
  <2>1. Run(from, to, tx, now) = RunMultiSign(from, to, tx, now)
    BY <1>7 DEF Run
  <2>2. MultiSignAccepts(to.code, to.balance, tx, now)
    BY <1>2, <1>7 DEF Accepts
  <2>3. to.code \in MultiSigns
    BY <1>3, <1>7, Kinds
  <2> QED
    BY <1>2, <1>7, <2>1, <2>2, <2>3, MultiSignOutcome
<1>8. CASE tx.command \notin {Transfer, Create} /\ to.code.kind # "multiSign"
  <2>1. Run(from, to, tx, now) = RunCrowdFund(from, to, tx)
    BY <1>8 DEF Run
  <2>2. CrowdFundAccepts(to.code, to.balance, tx, now) /\ to.code.kind = "crowdFund"
    BY <1>2, <1>8 DEF Accepts
  <2>3. to.code \in CrowdFunds
    BY <1>3, <2>2, Kinds
  <2>4. to.code.live => Total(to.code.funds) + tx.value <= to.balance
    <3> SUFFICES ASSUME to.code.live PROVE Total(to.code.funds) + tx.value <= to.balance
      OBVIOUS
    <3>1. Total(old.code.funds) <= old.balance
      BY <1>2, <2>2 DEF Sound, Solvent
    <3>2. Total(old.code.funds) \in Nat
      BY <1>2, <2>3, CrowdFundFields, TotalBounds, AddressAssumption
    <3> QED
      BY <1>1, <1>2, <3>1, <3>2
  <2> QED
    BY <1>3, <2>1, <2>2, <2>3, <2>4, CrowdFundOutcome
<1> QED
  BY <1>5, <1>6, <1>7, <1>8

(***************************************************************************)
(* The cache.                                                              *)
(***************************************************************************)
SoundWorld(world) == world \in [Key -> Account] /\ \A a \in Key : Sound(world[a])

SoundCache(cache) ==
  /\ DOMAIN cache \subseteq Key
  /\ \A a \in DOMAIN cache : Sound(cache[a].account) /\ cache[a].modified \in BOOLEAN

(* What the cache has for an address tells whether there is an account.    *)
Covers(cache, trie, A) == \A a \in A : Lookup(cache, a) = Empty => trie[a] = Empty

(* What a sound cache answers is sound, *)
LEMMA LookupSound ==
  ASSUME NEW cache, SoundCache(cache), NEW a
  PROVE  Sound(Lookup(cache, a))
BY EmptySound DEF SoundCache, Lookup

(* and so is what is loaded from a sound trie when the cache has nothing. *)
LEMMA GetSound ==
  ASSUME NEW cache, SoundCache(cache), NEW trie, SoundWorld(trie), NEW a \in Key
  PROVE  Sound(GetOrLoad(cache, trie, a))
BY LookupSound DEF SoundWorld, GetOrLoad

(* Writing one account. *)
LEMMA PutLookup ==
  ASSUME NEW cache, NEW a, NEW account
  PROVE  /\ Lookup(Put(cache, a, account), a) = account
         /\ \A b : b # a => Lookup(Put(cache, a, account), b) = Lookup(cache, b)
<1> DEFINE p == Put(cache, a, account)
<1>1. DOMAIN p = DOMAIN cache \cup {a}
  BY DEF Put
<1>2. p[a] = [account |-> account, modified |-> TRUE]
  BY DEF Put
<1>3. \A b \in DOMAIN cache : b # a => p[b] = cache[b]
  BY DEF Put
<1>4. [account |-> account, modified |-> TRUE].account = account
  OBVIOUS
<1> HIDE DEF p
<1>5. Lookup(p, a) = account
  BY <1>1, <1>2, <1>4 DEF Lookup
<1>6. \A b : b # a => Lookup(p, b) = Lookup(cache, b)
  BY <1>1, <1>3 DEF Lookup
<1> QED
  BY <1>5, <1>6 DEF p

(* Writing a sound account keeps a cache sound. *)
LEMMA PutSound ==
  ASSUME NEW cache, SoundCache(cache), NEW a \in Key, NEW account, Sound(account)
  PROVE  SoundCache(Put(cache, a, account))
<1> DEFINE p == Put(cache, a, account)
           entry == [account |-> account, modified |-> TRUE]
<1>1. DOMAIN p = DOMAIN cache \cup {a}
  BY DEF Put
<1>2. p[a] = entry
  BY DEF Put
<1>3. \A b \in DOMAIN cache : b # a => p[b] = cache[b]
  BY DEF Put
<1>4. entry.account = account /\ entry.modified = TRUE
  OBVIOUS
<1> HIDE DEF p, entry
<1>5. SoundCache(p)
  BY <1>1, <1>2, <1>3, <1>4 DEF SoundCache
<1> QED
  BY <1>5 DEF p

(* The sender of a valid transaction. *)
LEMMA SenderPlain ==
  ASSUME NEW cache, SoundCache(cache), NEW tx, Signed(tx), NEW now, TxValid(cache, tx, now)
  PROVE  /\ Lookup(cache, tx.from) # Empty
         /\ Sender(cache, tx) \in Account /\ Sender(cache, tx).code = NoCode
         /\ Sender(cache, tx).nonce > 0
         /\ Sender(cache, tx).balance = Lookup(cache, tx.from).balance - tx.value
<1> DEFINE a == Lookup(cache, tx.from)
<1>1. a \in Account /\ a.nonce \in Nat /\ a.balance \in Nat
  BY LookupSound, Kinds DEF Sound
<1>2. tx.value \in Nat /\ tx.value > 0
  BY DEF Signed
<1>3. a.code = NoCode /\ a.balance >= tx.value
  BY DEF TxValid
<1> HIDE DEF a
<1>4. a.balance - tx.value \in Nat /\ a.nonce + 1 \in Nat /\ a.balance > 0
  BY <1>1, <1>2, <1>3
<1>5. a # Empty
  BY <1>4 DEF Empty
<1> DEFINE b == [a EXCEPT !.nonce = a.nonce + 1, !.balance = a.balance - tx.value]
<1>6. b = Sender(cache, tx)
  BY DEF Sender, a
<1>7. b \in Account /\ b.code = NoCode /\ b.nonce = a.nonce + 1 /\ b.balance = a.balance - tx.value
  BY <1>1, <1>3, <1>4 DEF Account
<1> HIDE DEF b
<1>8. b.nonce > 0
  BY <1>1, <1>7
<1> QED
  BY <1>5, <1>6, <1>7, <1>8 DEF a

(* What a valid transaction leaves to be written to the cache. *)
LEMMA TxOutcome ==
  ASSUME NEW cache, SoundCache(cache), NEW tx, Signed(tx), NEW now \in Nat,
         TxValid(cache, tx, now)
  PROVE  LET r == TxResult(cache, tx, now)
         IN /\ Sound(r.from) /\ r.from # Empty /\ Sound(r.to) /\ r.to # Empty
            /\ r.amount \in Nat /\ r.payee \in Key /\ r.paid \in BOOLEAN
            /\ ~r.paid => r.payee = NoOne /\ r.amount = 0
            /\ r.from.balance + r.to.balance + r.amount =
                 Lookup(cache, tx.from).balance + Lookup(cache, tx.to).balance
<1> DEFINE from == Sender(cache, tx)
           old == Lookup(cache, tx.to)
           to == Credited(old, tx.value)
           r == TxResult(cache, tx, now)
<1>1. /\ from \in Account /\ from.code = NoCode /\ from.nonce > 0
      /\ from.balance = Lookup(cache, tx.from).balance - tx.value
  BY SenderPlain
<1>2. Sound(old) /\ Accepts(old, tx, now)
  BY LookupSound DEF TxValid
<1>3. Outcome(from, to, r)
  BY <1>1, <1>2, RunOutcome DEF TxResult
<1>4. /\ Sound(Lookup(cache, tx.from)) /\ Lookup(cache, tx.from).balance \in Nat
      /\ old.balance \in Nat /\ tx.value \in Nat
  BY LookupSound, Kinds DEF Sound, Signed
<1>5. to.balance = old.balance + tx.value
  BY <1>2, <1>4, CreditedSound
<1> HIDE DEF from, old, to, r
<1>6. r.from.nonce > 0 /\ r.from \in Account /\ r.from.code = NoCode
  BY <1>1, <1>3 DEF Outcome
<1>7. r.from # Empty
  BY <1>6 DEF Empty
<1>8. Sound(r.from)
  BY <1>6, PlainSound
<1>9. from.balance + to.balance = Lookup(cache, tx.from).balance + old.balance
  BY <1>1, <1>4, <1>5
<1>10. /\ r.amount \in Nat /\ r.payee \in Key /\ r.paid \in BOOLEAN
       /\ ~r.paid => r.payee = NoOne /\ r.amount = 0
       /\ Sound(r.to) /\ r.to # Empty
       /\ r.from.balance + r.to.balance + r.amount = from.balance + to.balance
  BY <1>3 DEF Outcome
<1> QED
  BY <1>7, <1>8, <1>9, <1>10 DEF r, old

(* The cache with what has been paid. *)
Paid(cache, trie, r) ==
  IF ~r.paid THEN cache
  ELSE Put(cache, r.payee, Credited(GetOrLoad(cache, trie, r.payee), r.amount))

(* A transaction writes the payee first, then the sender, then the receiver. *)
LEMMA TxCachePaid ==
  ASSUME NEW cache, NEW trie, NEW tx, NEW now
  PROVE  LET r == TxResult(cache, tx, now)
         IN TxCache(cache, trie, tx, now) =
              Put(Put(Paid(cache, trie, r), tx.from, r.from), tx.to, r.to)
BY DEF TxCache, Paid

(* A valid transaction leaves the accounts of the cache sound. *)
LEMMA TxCacheSound ==
  ASSUME NEW cache, SoundCache(cache), NEW trie, SoundWorld(trie),
         NEW tx, Signed(tx), NEW now \in Nat, TxValid(cache, tx, now)
  PROVE  SoundCache(TxCache(cache, trie, tx, now))
<1>1. PICK r : r = TxResult(cache, tx, now)
  OBVIOUS
<1>2. Sound(r.from) /\ Sound(r.to) /\ r.amount \in Nat /\ r.payee \in Key
  BY <1>1, TxOutcome
<1>3. tx.from \in Key /\ tx.to \in Key
  BY DEF Signed, Key
<1>4. SoundCache(Paid(cache, trie, r))
  <2>1. Sound(Credited(GetOrLoad(cache, trie, r.payee), r.amount))
    BY <1>2, GetSound, CreditedSound
  <2> QED
    BY <1>2, <2>1, PutSound DEF Paid
<1>5. SoundCache(Put(Put(Paid(cache, trie, r), tx.from, r.from), tx.to, r.to))
  BY <1>2, <1>3, <1>4, PutSound
<1> QED
  BY <1>1, <1>5, TxCachePaid

(* Nothing is credited and is empty. *)
LEMMA CreditedEmpty ==
  ASSUME NEW a, Sound(a), NEW v \in Nat, Credited(a, v) = Empty
  PROVE  a = Empty
<1>1. a \in Account /\ a.nonce \in Nat /\ a.balance \in Nat
  BY Kinds DEF Sound
<1>2. a.nonce = Empty.nonce /\ a.balance + v = Empty.balance /\ a.code = Empty.code
  BY CreditedSound
<1>3. Empty.nonce = 0 /\ Empty.balance = 0
  BY DEF Empty
<1>4. a.balance = Empty.balance
  BY <1>1, <1>2, <1>3
<1>5. Empty \in Account
  BY EmptySound
<1> QED
  BY <1>1, <1>2, <1>4, <1>5 DEF Account

(* An account that is not empty stays so, in the cache and behind it. *)
LEMMA TxCacheCovers ==
  ASSUME NEW cache, SoundCache(cache), NEW trie, SoundWorld(trie),
         NEW tx, Signed(tx), NEW now \in Nat, TxValid(cache, tx, now),
         NEW A \in SUBSET Key, Covers(cache, trie, A)
  PROVE  Covers(TxCache(cache, trie, tx, now), trie, A)
<1>1. PICK r : r = TxResult(cache, tx, now)
  OBVIOUS
<1>2. r.from # Empty /\ r.to # Empty /\ r.amount \in Nat /\ r.payee \in Key
  BY <1>1, TxOutcome
<1> DEFINE p == Paid(cache, trie, r)
           q == Put(p, tx.from, r.from)
<1>3. ASSUME NEW a \in A, Lookup(p, a) = Empty PROVE trie[a] = Empty
  <2>1. CASE ~r.paid \/ a # r.payee
    <3>1. Lookup(p, a) = Lookup(cache, a)
      BY <2>1, PutLookup DEF Paid
    <3> QED
      BY <1>3, <3>1 DEF Covers
  <2>2. CASE r.paid /\ a = r.payee
    <3> DEFINE old == GetOrLoad(cache, trie, a)
    <3>1. Lookup(p, a) = Credited(old, r.amount)
      BY <2>2, PutLookup DEF Paid
    <3>2. Sound(old)
      BY GetSound
    <3>3. old = Empty
      BY <1>2, <1>3, <3>1, <3>2, CreditedEmpty
    <3> QED
      BY <3>3 DEF GetOrLoad
  <2> QED
    BY <2>1, <2>2
<1> HIDE DEF p
<1>4. ASSUME NEW a \in A, Lookup(q, a) = Empty PROVE trie[a] = Empty
  <2>1. a # tx.from
    BY <1>2, <1>4, PutLookup
  <2> QED
    BY <1>3, <1>4, <2>1, PutLookup
<1> HIDE DEF q
<1>5. ASSUME NEW a \in A, Lookup(Put(q, tx.to, r.to), a) = Empty PROVE trie[a] = Empty
  <2>1. a # tx.to
    BY <1>2, <1>5, PutLookup
  <2> QED
    BY <1>4, <1>5, <2>1, PutLookup
<1>6. TxCache(cache, trie, tx, now) = Put(q, tx.to, r.to)
  BY <1>1, TxCachePaid DEF p, q
<1> QED
  BY <1>5, <1>6 DEF Covers

(***************************************************************************)
(* Coins.                                                                  *)
(***************************************************************************)
Balances(cache, trie) == [a \in Key |-> GetOrLoad(cache, trie, a).balance]

(* The balances of sound accounts are numbers. *)
LEMMA BalancesType ==
  ASSUME NEW cache, SoundCache(cache), NEW trie, SoundWorld(trie)
  PROVE  Balances(cache, trie) \in [Key -> Nat]
<1>1. \A a \in Key : GetOrLoad(cache, trie, a).balance \in Nat
  BY GetSound, Kinds DEF Sound
<1> QED
  BY <1>1 DEF Balances

(* Sums over the accounts are finite. *)
LEMMA KeysFinite == IsFiniteSet(Key)
BY AddressAssumption, FS_AddElement DEF Key

(* Writing an account replaces its balance, unless it is empty. *)
LEMMA PutCoins ==
  ASSUME NEW cache, NEW trie, NEW a \in Key, NEW account, account.balance \in Nat,
         account = Empty => trie[a] = Empty,
         NEW B, B = Balances(cache, trie), B \in [Key -> Nat],
         NEW C, C = Balances(Put(cache, a, account), trie)
  PROVE  /\ C \in [Key -> Nat]
         /\ C[a] = account.balance
         /\ \A b \in Key : b # a => C[b] = B[b]
         /\ Total(C) = Total(B) - B[a] + C[a]
<1> DEFINE p == Put(cache, a, account)
<1>1. GetOrLoad(p, trie, a) = account
  BY PutLookup DEF GetOrLoad
<1>2. \A b \in Key : b # a => GetOrLoad(p, trie, b) = GetOrLoad(cache, trie, b)
  BY PutLookup DEF GetOrLoad
<1> HIDE DEF p
<1>3. C = [b \in Key |-> GetOrLoad(p, trie, b).balance]
  BY DEF Balances, p
<1>4. C[a] = account.balance
  BY <1>1, <1>3
<1>5. \A b \in Key : b # a => C[b] = B[b]
  BY <1>2, <1>3 DEF Balances
<1>6. \A b \in Key : C[b] \in Nat
  BY <1>4, <1>5
<1>7. C \in [Key -> Nat]
  BY <1>3, <1>6
<1>8. IsFiniteSet(Key)
  BY KeysFinite
<1>9. Total(C) = Total(B) - B[a] + C[a]
  BY <1>5, <1>7, <1>8, TotalChange
<1> QED
  BY <1>4, <1>5, <1>7, <1>9

(* A valid transaction only moves coins, but for a payment to its own      *)
(* sender or contract, which is overwritten.                               *)
LEMMA TxCacheCoins ==
  ASSUME NEW cache, SoundCache(cache), NEW trie, SoundWorld(trie),
         NEW tx, Signed(tx), NEW now \in Nat, TxValid(cache, tx, now),
         Covers(cache, trie, {tx.to})
  PROVE  LET r == TxResult(cache, tx, now)
         IN Total(Balances(TxCache(cache, trie, tx, now), trie)) =
              Total(Balances(cache, trie))
                - (IF r.payee \in {tx.from, tx.to} THEN r.amount ELSE 0)
<1>1. PICK r : r = TxResult(cache, tx, now)
  OBVIOUS
<1>2. /\ Sound(r.from) /\ r.from # Empty /\ Sound(r.to) /\ r.to # Empty
      /\ r.amount \in Nat /\ r.payee \in Key /\ r.paid \in BOOLEAN
      /\ ~r.paid => r.payee = NoOne /\ r.amount = 0
      /\ r.from.balance + r.to.balance + r.amount =
           Lookup(cache, tx.from).balance + Lookup(cache, tx.to).balance
  BY <1>1, TxOutcome
<1> DEFINE p == Paid(cache, trie, r)
           q == Put(p, tx.from, r.from)
           B == Balances(cache, trie)
           C == Balances(p, trie)
           D == Balances(q, trie)
           E == Balances(Put(q, tx.to, r.to), trie)
<1>3. tx.from \in Key /\ tx.to \in Key /\ tx.from # tx.to /\ NoOne \notin {tx.from, tx.to}
  BY NoOneAssumption DEF Signed, Key
<1>4. IsFiniteSet(Key)
  BY KeysFinite
<1>5. B \in [Key -> Nat]
  BY BalancesType
<1>6. /\ B[tx.from] = Lookup(cache, tx.from).balance
      /\ B[tx.to] = Lookup(cache, tx.to).balance
  <2>1. GetOrLoad(cache, trie, tx.from) = Lookup(cache, tx.from)
    BY SenderPlain DEF GetOrLoad
  <2>2. GetOrLoad(cache, trie, tx.to) = Lookup(cache, tx.to)
    BY DEF GetOrLoad, Covers
  <2> QED
    BY <1>3, <2>1, <2>2 DEF Balances
<1>7. /\ C \in [Key -> Nat] /\ Total(C) = Total(B) + r.amount
      /\ \A a \in Key : C[a] = IF a = r.payee THEN B[a] + r.amount ELSE B[a]
  <2>1. CASE ~r.paid
    <3>1. C = B /\ r.amount = 0
      BY <1>2, <2>1 DEF Paid
    <3>2. Total(B) \in Nat
      BY <1>4, <1>5, TotalBounds
    <3> HIDE DEF B, C
    <3>3. \A a \in Key : B[a] \in Nat
      BY <1>5
    <3> QED
      BY <1>5, <3>1, <3>2, <3>3
  <2>2. CASE r.paid
    <3> DEFINE old == GetOrLoad(cache, trie, r.payee)
               v == B[r.payee] + r.amount
    <3>1. Sound(old) /\ old.balance = B[r.payee]
      BY <1>2, GetSound DEF Balances
    <3>2. Credited(old, r.amount).balance = v
      BY <1>2, <3>1, CreditedSound
    <3>3. Credited(old, r.amount) = Empty => trie[r.payee] = Empty
      <4> SUFFICES ASSUME Credited(old, r.amount) = Empty PROVE trie[r.payee] = Empty
        OBVIOUS
      <4>1. old = Empty
        BY <1>2, <3>1, CreditedEmpty
      <4> QED
        BY <4>1 DEF GetOrLoad
    <3>4. p = Put(cache, r.payee, Credited(old, r.amount))
      BY <2>2 DEF Paid
    <3> HIDE DEF B, C, old
    <3>5. B[r.payee] \in Nat /\ v \in Nat
      BY <1>2, <1>5
    <3>6. /\ C \in [Key -> Nat] /\ C[r.payee] = v
          /\ \A b \in Key : b # r.payee => C[b] = B[b]
          /\ Total(C) = Total(B) - B[r.payee] + C[r.payee]
      BY <1>2, <1>5, <3>2, <3>3, <3>4, <3>5, PutCoins DEF B, C
    <3>7. Total(B) \in Nat
      BY <1>4, <1>5, TotalBounds
    <3>8. Total(C) = Total(B) + r.amount
      BY <1>2, <3>5, <3>6, <3>7
    <3> QED
      BY <1>2, <3>6, <3>8
  <2> QED
    BY <2>1, <2>2
<1> HIDE DEF B, C, p
<1>8. r.from.balance \in Nat /\ r.to.balance \in Nat
  BY <1>2, Kinds DEF Sound
<1>9. /\ D \in [Key -> Nat] /\ D[tx.from] = r.from.balance
      /\ \A b \in Key : b # tx.from => D[b] = C[b]
      /\ Total(D) = Total(C) - C[tx.from] + D[tx.from]
  BY <1>2, <1>3, <1>7, <1>8, PutCoins DEF C
<1> HIDE DEF q, D
<1>10. /\ E[tx.to] = r.to.balance
       /\ Total(E) = Total(D) - D[tx.to] + E[tx.to]
  BY <1>2, <1>3, <1>8, <1>9, PutCoins DEF D
<1> HIDE DEF E
<1>11. D[tx.to] = C[tx.to]
  BY <1>3, <1>9
<1>12. Total(D) = Total(C) - C[tx.from] + r.from.balance
  BY <1>9
<1>13. Total(E) = Total(D) - D[tx.to] + r.to.balance
  BY <1>10
<1>14. /\ Total(B) \in Nat /\ B[tx.from] \in Nat /\ B[tx.to] \in Nat
       /\ C[tx.from] = IF tx.from = r.payee THEN B[tx.from] + r.amount ELSE B[tx.from]
       /\ C[tx.to] = IF tx.to = r.payee THEN B[tx.to] + r.amount ELSE B[tx.to]
  BY <1>3, <1>4, <1>5, <1>7, TotalBounds
<1>15. Total(E) = Total(B) - (IF r.payee \in {tx.from, tx.to} THEN r.amount ELSE 0)
  <2>1. CASE r.payee = tx.from
    BY <1>2, <1>3, <1>6, <1>7, <1>8, <1>11, <1>12, <1>13, <1>14, <2>1
  <2>2. CASE r.payee = tx.to
    BY <1>2, <1>3, <1>6, <1>7, <1>8, <1>11, <1>12, <1>13, <1>14, <2>2
  <2>3. CASE r.payee \notin {tx.from, tx.to}
    BY <1>2, <1>3, <1>6, <1>7, <1>8, <1>11, <1>12, <1>13, <1>14, <2>3
  <2> QED
    BY <2>1, <2>2, <2>3
<1>16. TxCache(cache, trie, tx, now) = Put(q, tx.to, r.to)
  BY <1>1, TxCachePaid DEF p, q
<1> QED
  BY <1>1, <1>15, <1>16 DEF E, B

(***************************************************************************)
(* Payments.  An open request's agreements are in the receipts, and so are *)
(* enough of different authorities for every payment.                      *)
(***************************************************************************)
AgreeEvent(contract, m, who) ==
  [kind |-> "agree", contract |-> contract, timestamp |-> m.timestamp, payee |-> m.payee,
   amount |-> m.amount, sponsor |-> who]

PayEvent(contract, m) ==
  [kind |-> "pay", contract |-> contract, timestamp |-> m.timestamp, payee |-> m.payee,
   amount |-> m.amount, sponsor |-> NoOne]

Sponsored(event) == "sponsor" \in DOMAIN event /\ event.sponsor \in Key

Recorded(code, a, seen) ==
  (code.kind = "multiSign" /\ RequestOpen(code))
    => \A who \in Range(code.agree) : AgreeEvent(a, code, who) \in seen

AgreedBy(paid, who) == [paid EXCEPT !.kind = "agree", !.sponsor = who]

Endorsed(paid, code, seen) ==
  \E S \in SUBSET Address :
    /\ \A who \in S : AgreedBy(paid, who) \in seen
    /\ Cardinality(S) * 100 >= code.threshold * Len(code.authority)

(* The payments of some receipts, to contracts that the cache has.         *)
CachePays(c, r, seen) ==
  \A p \in r :
    /\ Sponsored(p)
    /\ p.kind = "pay" =>
         /\ p.contract \in DOMAIN c /\ c[p.contract].modified
         /\ c[p.contract].account.code.kind = "multiSign"
         /\ Endorsed(p, c[p.contract].account.code, seen)

(* As many answers as different ones. *)
LEMMA DifferentAnswers ==
  ASSUME NEW S, NEW s \in Seq(S), IsInjective(s)
  PROVE  Range(s) \subseteq S /\ Cardinality(Range(s)) = Len(s)
<1>1. Len(s) \in Nat /\ DOMAIN s = 1 .. Len(s) /\ \A i \in DOMAIN s : s[i] \in S
  OBVIOUS
<1>2. s \in [1 .. Len(s) -> Range(s)]
  BY <1>1 DEF Range
<1>3. s \in Bijection(1 .. Len(s), Range(s))
  BY <1>1, <1>2 DEF Bijection, Injection, Surjection, IsInjective, Range
<1>4. ExistsBijection(1 .. Len(s), Range(s))
  BY <1>3 DEF ExistsBijection
<1> QED
  BY <1>1, <1>4, FS_CountingElements DEF Range

(* The first of two sequences. *)
LEMMA FirstInjective ==
  ASSUME NEW S, NEW s \in Seq(S), NEW t \in Seq(S), IsInjective(s \o t)
  PROVE  IsInjective(s)
<1>1. DOMAIN s = 1 .. Len(s) /\ Len(s) \in Nat /\ Len(t) \in Nat
  OBVIOUS
<1>2. DOMAIN (s \o t) = 1 .. Len(s) + Len(t)
  OBVIOUS
<1>3. \A i \in 1 .. Len(s) : (s \o t)[i] = s[i]
  OBVIOUS
<1>4. \A i \in 1 .. Len(s) : i \in DOMAIN (s \o t)
  BY <1>1, <1>2
<1> QED
  BY <1>1, <1>3, <1>4 DEF IsInjective

(* What is in the receipts stays there. *)
LEMMA RecordedMore ==
  ASSUME NEW seen, NEW more, seen \subseteq more
  PROVE  /\ \A code, a : Recorded(code, a, seen) => Recorded(code, a, more)
         /\ \A p, code : Endorsed(p, code, seen) => Endorsed(p, code, more)
         /\ \A c, r : CachePays(c, r, seen) => CachePays(c, r, more)
<1>1. \A p, code : Endorsed(p, code, seen) => Endorsed(p, code, more)
  BY DEF Endorsed
<1> QED
  BY <1>1 DEF Recorded, CachePays

(* A payment stands for its agreements. *)
LEMMA AgreedByEvent ==
  ASSUME NEW contract, NEW m, NEW who
  PROVE  AgreedBy(PayEvent(contract, m), who) = AgreeEvent(contract, m, who)
<1>1. PICK t, y, a : t = m.timestamp /\ y = m.payee /\ a = m.amount
  OBVIOUS
<1>2. PICK p : p = [kind |-> "pay", contract |-> contract, timestamp |-> t, payee |-> y,
                    amount |-> a, sponsor |-> NoOne]
  OBVIOUS
<1>3. PICK q : q = [p EXCEPT !.kind = "agree", !.sponsor = who]
  OBVIOUS
<1> DEFINE events == [kind : {"agree"}, contract : {contract}, timestamp : {t}, payee : {y},
                      amount : {a}, sponsor : {who}]
<1>8. q \in events
  BY <1>2, <1>3
<1>9. q = [kind |-> "agree", contract |-> contract, timestamp |-> t, payee |-> y,
           amount |-> a, sponsor |-> who]
  BY <1>8
<1> HIDE DEF events
<1>4. PayEvent(contract, m) = p
  BY <1>1, <1>2 DEF PayEvent
<1>5. PICK e : e = [kind |-> "agree", contract |-> contract, timestamp |-> t, payee |-> y,
                    amount |-> a, sponsor |-> who]
  OBVIOUS
<1>6. AgreedBy(p, who) = e
  BY <1>3, <1>5, <1>9 DEF AgreedBy
<1>7. AgreeEvent(contract, m, who) = e
  BY <1>1, <1>5 DEF AgreeEvent
<1> QED
  BY <1>4, <1>6, <1>7

(* A multi-signature contract c with the answer of a transaction. *)
VotedFor(c, tx, m) ==
  /\ m \in MultiSigns /\ m.threshold = c.threshold /\ m.authority = c.authority
  /\ tx.command = SendOrFund => m.agree = <<tx.from>>
  /\ tx.command # SendOrFund =>
       m.timestamp = c.timestamp /\ m.payee = c.payee /\ m.amount = c.amount
  /\ tx.command = AgreeOrRefund => Range(m.agree) = Range(c.agree) \cup {tx.from}
  /\ tx.command \notin {SendOrFund, AgreeOrRefund} => m.agree = c.agree

(* What a vote on a payment leaves of the contract. *)
LEMMA VotedFields ==
  ASSUME NEW c \in MultiSigns, NEW balance, NEW tx, Signed(tx), NEW now \in Nat,
         tx.command # Create, MultiSignAccepts(c, balance, tx, now),
         NEW m, m = Voted(c, tx, now)
  PROVE  VotedFor(c, tx, m)
<1>1. tx.from \in Address /\ c.agree \in Seq(Address) /\ c.reject \in Seq(Address)
  BY MultiSignFields DEF Signed
<1>2. CASE tx.command = SendOrFund
  <2>1. tx.args \in Arguments
    BY <1>2 DEF Signed, SendOrFund, Create
  <2>2. PICK q : q = Request(c, tx.args, now)
    OBVIOUS
  <2>3. /\ q \in MultiSigns /\ q.authority = c.authority /\ q.threshold = c.threshold
        /\ q.agree = << >>
    <3>1. q.threshold = c.threshold
      BY <2>2 DEF Request, MultiSigns
    <3> QED
      BY <2>1, <2>2, <3>1, NewRequest
  <2>4. m = [q EXCEPT !.agree = Append(@, tx.from)]
    BY <1>2, <2>2 DEF Voted, Agree, SendOrFund, AgreeOrRefund, RejectOrReceive
  <2>5. Append(q.agree, tx.from) \in Seq(Address) /\ Append(q.agree, tx.from) = <<tx.from>>
    BY <1>1, <2>3
  <2>6. /\ m \in MultiSigns /\ m.authority = q.authority /\ m.threshold = q.threshold
        /\ m.agree = Append(q.agree, tx.from)
    BY <2>3, <2>4, <2>5 DEF MultiSigns
  <2> QED
    BY <1>2, <2>3, <2>5, <2>6 DEF VotedFor, SendOrFund, AgreeOrRefund
<1>3. CASE tx.command = AgreeOrRefund
  <2>1. m = [c EXCEPT !.agree = Append(@, tx.from)]
    BY <1>3 DEF Voted, Agree, SendOrFund, AgreeOrRefund, RejectOrReceive
  <2>2. Append(c.agree, tx.from) \in Seq(Address)
    BY <1>1
  <2>3. /\ m \in MultiSigns /\ m.authority = c.authority /\ m.threshold = c.threshold
        /\ m.timestamp = c.timestamp /\ m.payee = c.payee /\ m.amount = c.amount
        /\ m.agree = Append(c.agree, tx.from)
    BY <2>1, <2>2 DEF MultiSigns
  <2> <<tx.from>> \in Seq(Address)
    BY <1>1
  <2>4. PICK q \in Seq(Address) : q = <<tx.from>>
    BY Zenon
  <2>5. m.agree = c.agree \o q /\ Range(q) = {tx.from}
    <3>1. c.agree \o q = Append(c.agree, tx.from)
      BY <1>1, <2>4
    <3>2. DOMAIN q = {1} /\ q[1] = tx.from
      BY <2>4
    <3> QED
      BY <2>3, <3>1, <3>2 DEF Range
  <2>6. Range(m.agree) = Range(c.agree) \cup {tx.from}
    BY <1>1, <2>5, RangeOfConcat
  <2> QED
    BY <1>3, <2>3, <2>6 DEF VotedFor, SendOrFund, AgreeOrRefund
<1>4. CASE tx.command = RejectOrReceive
  <2>1. m = [c EXCEPT !.reject = Append(@, tx.from)]
    BY <1>4 DEF Voted, Reject, SendOrFund, AgreeOrRefund, RejectOrReceive
  <2>2. Append(c.reject, tx.from) \in Seq(Address)
    BY <1>1
  <2>3. /\ m \in MultiSigns /\ m.authority = c.authority /\ m.threshold = c.threshold
        /\ m.timestamp = c.timestamp /\ m.payee = c.payee /\ m.amount = c.amount
        /\ m.agree = c.agree
    BY <2>1, <2>2 DEF MultiSigns
  <2> QED
    BY <1>4, <2>3 DEF VotedFor, SendOrFund, AgreeOrRefund, RejectOrReceive
<1>5. CASE tx.command \notin {SendOrFund, AgreeOrRefund, RejectOrReceive}
  <2>1. m = c
    BY <1>5 DEF Voted
  <2> QED
    BY <1>5, <2>1 DEF VotedFor
<1> QED
  BY <1>2, <1>3, <1>4, <1>5

(* The receipts of that transaction.                                       *)
LEMMA ReceiptsOf ==
  ASSUME NEW cache, NEW tx, Signed(tx), NEW now,
         NEW m, m = Voted(Lookup(cache, tx.to).code, tx, now)
  PROVE  LET r == TxReceipts(cache, tx, now)
         IN /\ (/\ Lookup(cache, tx.to).code.kind = "multiSign"
                /\ tx.command \in {SendOrFund, AgreeOrRefund})
                  => AgreeEvent(tx.to, m, tx.from) \in r
            /\ \A p \in r :
                 /\ Sponsored(p)
                 /\ p.kind = "pay" =>
                      /\ Lookup(cache, tx.to).code.kind = "multiSign"
                      /\ tx.command \in {SendOrFund, AgreeOrRefund} /\ Pays(m, tx)
                      /\ p = PayEvent(tx.to, m)
<1> DEFINE code == Lookup(cache, tx.to).code
           answer == IF tx.command = RejectOrReceive THEN "reject" ELSE "agree"
           given == [kind |-> answer, contract |-> tx.to, timestamp |-> m.timestamp,
                     payee |-> m.payee, amount |-> m.amount, sponsor |-> tx.from]
           r == TxReceipts(cache, tx, now)
<1>1. r = IF \/ code.kind # "multiSign"
             \/ tx.command \notin {SendOrFund, AgreeOrRefund, RejectOrReceive}
          THEN {}
          ELSE {given} \cup (IF Pays(m, tx) THEN {PayEvent(tx.to, m)} ELSE {})
  BY DEF TxReceipts, PayEvent
<1>2. tx.command \in {SendOrFund, AgreeOrRefund} => given = AgreeEvent(tx.to, m, tx.from)
  BY DEF AgreeEvent, SendOrFund, AgreeOrRefund, RejectOrReceive
<1>3. given.sponsor = tx.from /\ given.kind = answer /\ answer # "pay"
  OBVIOUS
<1>4. PayEvent(tx.to, m).sponsor = NoOne
  BY DEF PayEvent
<1>7. "sponsor" \in DOMAIN given /\ "sponsor" \in DOMAIN PayEvent(tx.to, m)
  BY DEF PayEvent
<1>5. Sponsored(given) /\ Sponsored(PayEvent(tx.to, m))
  BY <1>3, <1>4, <1>7 DEF Sponsored, Signed, Key
<1>6. Pays(m, tx) => tx.command \in {SendOrFund, AgreeOrRefund}
  BY DEF Pays
<1> HIDE DEF r, given, answer
<1> QED
  BY <1>1, <1>2, <1>3, <1>4, <1>5, <1>6 DEF r

(* What a valid transaction leaves as the contract's code.                 *)
LEMMA ResultCode ==
  ASSUME NEW cache, SoundCache(cache), NEW tx, Signed(tx), NEW now \in Nat,
         TxValid(cache, tx, now), NEW r, r = TxResult(cache, tx, now)
  PROVE  LET old == Lookup(cache, tx.to)
         IN /\ r.from.code = NoCode
            /\ \/ tx.command = Transfer /\ r.to.code = old.code
               \/ /\ tx.command = Create /\ old.code = NoCode
                  /\ Fresh(r.to.code) /\ r.to.code \in MultiSigns \cup CrowdFunds
               \/ /\ tx.command \notin {Transfer, Create} /\ old.code \in MultiSigns
                  /\ MultiSignAccepts(old.code, old.balance + tx.value, tx, now)
                  /\ r.to.code = Settled(Voted(old.code, tx, now), tx)
               \/ /\ tx.command \notin {Transfer, Create}
                  /\ old.code.kind = "crowdFund" /\ r.to.code.kind = "crowdFund"
<1> DEFINE from == Sender(cache, tx)
           old == Lookup(cache, tx.to)
           to == Credited(old, tx.value)
<1>1. /\ from \in Account /\ from.code = NoCode
  BY SenderPlain
<1>2. Sound(old) /\ Accepts(old, tx, now)
  BY LookupSound DEF TxValid
<1>3. tx.value \in Nat
  BY DEF Signed
<1>4. Sound(to) /\ to.code = old.code /\ to.balance = old.balance + tx.value
  BY <1>2, <1>3, CreditedSound
<1>5. r = Run(from, to, tx, now)
  BY DEF TxResult
<1>6. Outcome(from, to, r)
  BY <1>1, <1>2, <1>5, RunOutcome
<1>7. r.from.code = NoCode
  BY <1>6 DEF Outcome
<1>8. old \in Account /\ to \in Account
  BY <1>2, <1>4 DEF Sound
<1> HIDE DEF from, to, old
<1>9. CASE tx.command = Transfer
  <2>1. r = Unpaid(from, to)
    BY <1>5, <1>9 DEF Run, Transfer, Create
  <2>2. r.to = to
    BY <2>1 DEF Unpaid
  <2> QED
    BY <1>4, <1>7, <1>9, <2>2 DEF old
<1>10. CASE tx.command = Create
  <2>1. r = Unpaid(from, [to EXCEPT !.code = Created(tx)])
    BY <1>5, <1>10 DEF Run, Transfer, Create
  <2>2. PICK after : after = [to EXCEPT !.code = Created(tx)]
    OBVIOUS
  <2>3. r.to = after
    BY <2>1, <2>2 DEF Unpaid
  <2>4. Created(tx) \in MultiSigns \cup CrowdFunds /\ Fresh(Created(tx))
    BY <1>10, CreatedFresh
  <2>5. after.code = Created(tx)
    BY <1>8, <2>2, <2>4, Recoded
  <2>6. old.code = NoCode
    BY <1>2, <1>10, EmptySound DEF Accepts, Transfer, Create
  <2> QED
    BY <1>7, <1>10, <2>3, <2>4, <2>5, <2>6 DEF old
<1>11. CASE tx.command \notin {Transfer, Create} /\ old.code.kind = "multiSign"
  <2> DEFINE m == Voted(old.code, tx, now)
             after == [to EXCEPT !.code = Settled(m, tx)]
  <2>1. old.code \in MultiSigns
    BY <1>8, <1>11, Kinds
  <2>2. MultiSignAccepts(old.code, old.balance + tx.value, tx, now)
    BY <1>2, <1>11 DEF Accepts
  <2>3. m \in MultiSigns
    BY <1>11, <2>1, <2>2, VotedFields DEF VotedFor
  <2>4. r = RunMultiSign(from, to, tx, now)
    BY <1>4, <1>5, <1>11 DEF Run
  <2>5. r = IF Pays(m, tx)
            THEN [from |-> from, to |-> [after EXCEPT !.balance = @ - m.amount],
                  paid |-> TRUE, payee |-> m.payee, amount |-> m.amount]
            ELSE Unpaid(from, after)
    BY <1>4, <2>4 DEF RunMultiSign
  <2> HIDE DEF m
  <2>6. Settled(m, tx) \in MultiSigns
    BY <2>3, ResetFields DEF Settled
  <2>7. after \in Account /\ after.code = Settled(m, tx)
    BY <1>8, <2>6, Recoded
  <2> HIDE DEF after
  <2>8. CASE Pays(m, tx)
    <3>1. r.to = [after EXCEPT !.balance = @ - m.amount]
      BY <2>5, <2>8
    <3>2. r.to.code = after.code
      BY <2>7, <3>1 DEF Account
    <3> QED
      BY <1>7, <1>11, <2>1, <2>2, <2>7, <3>2 DEF m, old
  <2>9. CASE ~Pays(m, tx)
    <3>1. r.to = after
      BY <2>5, <2>9 DEF Unpaid
    <3> QED
      BY <1>7, <1>11, <2>1, <2>2, <2>7, <3>1 DEF m, old
  <2> QED
    BY <2>8, <2>9
<1>12. CASE tx.command \notin {Transfer, Create} /\ old.code.kind # "multiSign"
  <2>1. old.code.kind = "crowdFund" /\ old.code \in CrowdFunds
    BY <1>2, <1>8, <1>12, Kinds DEF Accepts
  <2>2. r = RunCrowdFund(from, to, tx)
    BY <1>4, <1>5, <1>12 DEF Run
  <2>3. Funded(to.code, tx).kind = "crowdFund"
    BY <1>4, <2>1, CrowdFundFields DEF Funded, CrowdFunds
  <2>4. PICK code : code = Funded(to.code, tx)
    OBVIOUS
  <2>5. PICK after : after = [to EXCEPT !.code = code]
    OBVIOUS
  <2>6. after.code = code /\ DOMAIN after = DOMAIN to
    BY <1>8, <2>5 DEF Account
  <2>7. r.to \in {after, [after EXCEPT !.balance = 0],
                 [after EXCEPT !.balance = @ - to.code.funds[tx.from]]}
    BY <2>2, <2>4, <2>5 DEF RunCrowdFund, Unpaid
  <2>8. \A v : [after EXCEPT !.balance = v].code = after.code
    BY <1>8, <2>6 DEF Account
  <2>9. r.to.code = code
    <3>1. r.to = after \/ \E v : r.to = [after EXCEPT !.balance = v]
      BY <2>7
    <3> QED
      BY <2>6, <2>8, <3>1
  <2> QED
    BY <1>7, <1>12, <2>1, <2>3, <2>4, <2>9 DEF old
<1> QED
  BY <1>9, <1>10, <1>11, <1>12

(* What a valid transaction adds to the receipts records its agreement,    *)
(* and what it pays has been agreed on.                                    *)
TermsKept(old, new) ==
  old.kind = "multiSign" =>
    /\ new.kind = "multiSign"
    /\ new.threshold = old.threshold /\ new.authority = old.authority

AddedRight(added, tx, code, seen) ==
  \A p \in added :
    /\ Sponsored(p)
    /\ p.kind = "pay" => /\ p.contract = tx.to /\ code.kind = "multiSign"
                        /\ Endorsed(p, code, seen)

(* A valid transaction to a contract leaves a receipt of what it did. *)
LEMMA ResultRecorded ==
  ASSUME NEW cache, SoundCache(cache), NEW tx, Signed(tx), NEW now \in Nat,
         TxValid(cache, tx, now), NEW r, r = TxResult(cache, tx, now),
         NEW seen, Recorded(Lookup(cache, tx.to).code, tx.to, seen),
         NEW added, added = TxReceipts(cache, tx, now), NEW more, more = seen \cup added
  PROVE  /\ Recorded(r.to.code, tx.to, more)
         /\ TermsKept(Lookup(cache, tx.to).code, r.to.code)
         /\ AddedRight(added, tx, r.to.code, more)
<1> DEFINE old == Lookup(cache, tx.to)
           m == Voted(old.code, tx, now)
<1>1. Sound(old) /\ old \in Account
  BY LookupSound DEF Sound
<1>2. /\ (old.code.kind = "multiSign" /\ tx.command \in {SendOrFund, AgreeOrRefund})
           => AgreeEvent(tx.to, m, tx.from) \in more
      /\ \A p \in added :
           /\ Sponsored(p)
           /\ p.kind = "pay" => /\ old.code.kind = "multiSign" /\ Pays(m, tx)
                               /\ tx.command \in {SendOrFund, AgreeOrRefund}
                               /\ p = PayEvent(tx.to, m)
  BY ReceiptsOf
<1>3. CASE tx.command = Transfer
  <2>1. r.to.code = old.code
    BY <1>3, ResultCode DEF Transfer, Create
  <2>2. Recorded(old.code, tx.to, more)
    BY RecordedMore
  <2>3. tx.command \notin {SendOrFund, AgreeOrRefund}
    BY <1>3 DEF Transfer, SendOrFund, AgreeOrRefund
  <2> QED
    BY <1>2, <2>1, <2>2, <2>3 DEF TermsKept, AddedRight
<1>4. CASE tx.command = Create
  <2>1. old.code = NoCode /\ Fresh(r.to.code) /\ r.to.code \in MultiSigns \cup CrowdFunds
    BY <1>4, ResultCode DEF Transfer, Create
  <2>2. r.to.code.kind = "multiSign" => r.to.code.payee = NoOne
    BY <2>1 DEF Fresh, NewMultiSign
  <2>3. Recorded(r.to.code, tx.to, more)
    BY <2>2 DEF Recorded, RequestOpen
  <2>4. old.code.kind # "multiSign"
    BY <2>1 DEF NoCode
  <2> QED
    BY <1>2, <2>3, <2>4 DEF TermsKept, AddedRight
<1>5. CASE tx.command \notin {Transfer, Create} /\ old.code \in MultiSigns
  <2>1. /\ MultiSignAccepts(old.code, old.balance + tx.value, tx, now)
        /\ r.to.code = Settled(m, tx)
    <3>1. old.code.kind # "crowdFund"
      BY <1>5, MultiSignFields
    <3> QED
      BY <1>5, <3>1, ResultCode
  <2>2. VotedFor(old.code, tx, m)
    BY <1>5, <2>1, VotedFields
  <2>3. old.code.kind = "multiSign" /\ m.kind = "multiSign"
    BY <1>5, <2>2, MultiSignFields DEF VotedFor
  <2> DEFINE given == \A who \in Range(m.agree) : AgreeEvent(tx.to, m, who) \in more
  <2>4. tx.command # SendOrFund =>
          \A who : AgreeEvent(tx.to, m, who) = AgreeEvent(tx.to, old.code, who)
    BY <2>2 DEF AgreeEvent, VotedFor
  <2>5. RequestOpen(old.code) =>
          \A who \in Range(old.code.agree) : AgreeEvent(tx.to, old.code, who) \in more
    BY <2>3 DEF Recorded
  <2>6. tx.command = AgreeOrRefund => RequestOpen(old.code)
    BY <2>1 DEF MultiSignAccepts, CanAnswer, SendOrFund, AgreeOrRefund
  <2>7. tx.command # SendOrFund => RequestOpen(m) = RequestOpen(old.code)
    BY <2>2 DEF RequestOpen, VotedFor
  <2> HIDE DEF m, old
  <2>8. tx.command \in {SendOrFund, AgreeOrRefund} => given
    <3>1. CASE tx.command = SendOrFund
      <4>1. Range(m.agree) = {tx.from}
        BY <2>2, <3>1 DEF VotedFor, Range
      <4> QED
        BY <1>2, <2>3, <3>1, <4>1
    <3>2. CASE tx.command = AgreeOrRefund
      <4>1. tx.command # SendOrFund
        BY <3>2 DEF SendOrFund, AgreeOrRefund
      <4> QED
        BY <1>2, <2>2, <2>3, <2>4, <2>5, <2>6, <3>2, <4>1 DEF VotedFor
    <3> QED
      BY <3>1, <3>2
  <2>9. RequestOpen(m) => given
    BY <2>2, <2>4, <2>5, <2>7, <2>8 DEF VotedFor, SendOrFund
  <2>10. r.to.code \in {m, Reset(m)}
    BY <2>1 DEF Settled
  <2>11. Recorded(m, tx.to, more)
    BY <2>9 DEF Recorded
  <2>12. /\ Reset(m).kind = "multiSign" /\ Reset(m).threshold = m.threshold
         /\ Reset(m).authority = m.authority /\ Reset(m).payee = NoOne
    BY <2>2, <2>3, ResetFields DEF VotedFor, Reset, MultiSigns
  <2>13. Recorded(Reset(m), tx.to, more)
    BY <2>12 DEF Recorded, RequestOpen
  <2>14. /\ r.to.code.kind = "multiSign" /\ r.to.code.threshold = m.threshold
         /\ r.to.code.authority = m.authority
    BY <2>3, <2>10, <2>12
  <2>15. ASSUME NEW p \in added, p.kind = "pay"
         PROVE  p.contract = tx.to /\ Endorsed(p, r.to.code, more)
    <3>1. /\ p = PayEvent(tx.to, m) /\ Pays(m, tx)
          /\ tx.command \in {SendOrFund, AgreeOrRefund}
      BY <1>2, <2>15
    <3>2. m.agree \in Seq(Address) /\ IsInjective(m.agree)
      <4>1. CASE tx.command = SendOrFund
        BY <2>2, <4>1, MultiSignFields DEF VotedFor, IsInjective
      <4>2. CASE tx.command = AgreeOrRefund
        <5>1. PICK to : to = Credited(old, tx.value)
          OBVIOUS
        <5>2. Sound(to) /\ to.code = old.code /\ to.balance = old.balance + tx.value
          BY <1>1, <5>1, CreditedSound DEF old, Signed
        <5>3. Answers(to, tx, m)
          BY <1>5, <2>1, <4>2, <5>2, AgreementAnswers DEF m, old
        <5>4. RequestOpen(m)
          BY <2>6, <2>7, <4>2 DEF SendOrFund, AgreeOrRefund
        <5>5. IsInjective(m.agree \o m.reject) /\ m \in MultiSigns
          BY <5>3, <5>4 DEF Answers
        <5> QED
          BY <5>5, MultiSignFields, FirstInjective
      <4> QED
        BY <3>1, <4>1, <4>2
    <3>4. Range(m.agree) \subseteq Address /\ Cardinality(Range(m.agree)) = Len(m.agree)
      BY <3>2, DifferentAnswers
    <3>5. Cardinality(Range(m.agree)) * 100 >= r.to.code.threshold * Len(r.to.code.authority)
      BY <2>14, <3>1, <3>4 DEF Pays, Approved
    <3>6. \A who : AgreedBy(p, who) = AgreeEvent(tx.to, m, who)
      BY <3>1, AgreedByEvent
    <3>7. \A who \in Range(m.agree) : AgreedBy(p, who) \in more
      BY <2>8, <3>1, <3>6
    <3>8. p.contract = tx.to
      BY <3>1 DEF PayEvent
    <3> QED
      BY <3>4, <3>5, <3>7, <3>8 DEF Endorsed
  <2> QED
    BY <1>2, <2>2, <2>10, <2>11, <2>13, <2>14, <2>15 DEF old, VotedFor, TermsKept, AddedRight
<1>6. CASE /\ tx.command \notin {Transfer, Create}
           /\ old.code.kind = "crowdFund" /\ r.to.code.kind = "crowdFund"
  BY <1>2, <1>6 DEF Recorded, TermsKept, AddedRight
<1> QED
  BY <1>3, <1>4, <1>5, <1>6, ResultCode

(* The entries of the cache after one is written.                          *)
Wrote(cache, a, account, new) ==
  /\ DOMAIN new = DOMAIN cache \cup {a}
  /\ new[a].account = account /\ new[a].modified
  /\ \A b \in DOMAIN cache : b # a => new[b] = cache[b]

(* Writing one account touches no other. *)
LEMMA PutWrites ==
  ASSUME NEW cache, NEW a, NEW account
  PROVE  Wrote(cache, a, account, Put(cache, a, account))
<1> DEFINE p == Put(cache, a, account)
           entry == [account |-> account, modified |-> TRUE]
<1>1. DOMAIN p = DOMAIN cache \cup {a}
  BY DEF Put
<1>2. p[a] = entry
  BY DEF Put
<1>3. \A b \in DOMAIN cache : b # a => p[b] = cache[b]
  BY DEF Put
<1>4. entry.account = account /\ entry.modified
  OBVIOUS
<1> HIDE DEF p, entry
<1>5. Wrote(cache, a, account, p)
  BY <1>1, <1>2, <1>3, <1>4 DEF Wrote
<1> QED
  BY <1>5 DEF p

(* Where the codes in the cache after a transaction d come from.           *)
CodesFrom(cache, trie, tx, r, d) ==
  /\ DOMAIN cache \subseteq DOMAIN d /\ tx.to \in DOMAIN d
  /\ d[tx.to].account = r.to /\ d[tx.to].modified
  /\ \A a \in DOMAIN d \ {tx.to} :
       \/ d[a].account.code = NoCode
       \/ a \in DOMAIN cache /\ d[a].account.code = cache[a].account.code
       \/ a \in Key /\ d[a].account.code = trie[a].code
  /\ \A a \in DOMAIN cache \ {tx.to} :
       cache[a].account.code.kind = "multiSign" =>
         /\ d[a].account.code = cache[a].account.code
         /\ cache[a].modified => d[a].modified

(* Every contract in the cache is as before or what the transaction made it. *)
LEMMA TxCacheCodes ==
  ASSUME NEW cache, SoundCache(cache), NEW trie, SoundWorld(trie),
         NEW tx, Signed(tx), NEW now \in Nat, TxValid(cache, tx, now),
         NEW r, r = TxResult(cache, tx, now)
  PROVE  CodesFrom(cache, trie, tx, r, TxCache(cache, trie, tx, now))
<1>1. /\ r.amount \in Nat /\ r.payee \in Key /\ r.from.code = NoCode
  BY TxOutcome, ResultCode
<1> DEFINE old == GetOrLoad(cache, trie, r.payee)
           new == Credited(old, r.amount)
           p == Paid(cache, trie, r)
           q == Put(p, tx.from, r.from)
           d == Put(q, tx.to, r.to)
<1>2. new.code = old.code
  BY <1>1, GetSound, CreditedSound
<1>3. old = IF r.payee \in DOMAIN cache /\ cache[r.payee].account # Empty
            THEN cache[r.payee].account ELSE trie[r.payee]
  BY DEF GetOrLoad, Lookup
<1>4. p = cache \/ Wrote(cache, r.payee, new, p)
  BY PutWrites DEF Paid
<1> HIDE DEF old, new, p
<1>5. /\ DOMAIN cache \subseteq DOMAIN p
      /\ DOMAIN p \subseteq DOMAIN cache \cup {r.payee}
      /\ \A a \in DOMAIN cache : a # r.payee => p[a] = cache[a]
      /\ p = cache \/ (p[r.payee].account = new /\ p[r.payee].modified)
  BY <1>4 DEF Wrote
<1>6. Wrote(p, tx.from, r.from, q)
  BY PutWrites
<1>7. Wrote(q, tx.to, r.to, d)
  BY PutWrites
<1>8. TxCache(cache, trie, tx, now) = d
  BY TxCachePaid DEF p
<1> HIDE DEF q, d
<1>9. Empty.code = NoCode /\ NoCode.kind # "multiSign"
  BY DEF Empty, NoCode
<1>10. ASSUME NEW a \in DOMAIN d \ {tx.to}
       PROVE  \/ d[a].account.code = NoCode
              \/ a \in DOMAIN cache /\ d[a].account.code = cache[a].account.code
              \/ a \in Key /\ d[a].account.code = trie[a].code
  <2>1. d[a] = q[a] /\ a \in DOMAIN q
    BY <1>7 DEF Wrote
  <2>2. CASE a = tx.from
    BY <1>1, <1>6, <2>1, <2>2 DEF Wrote
  <2>3. CASE a # tx.from /\ a = r.payee
    <3>1. d[a] = p[a] /\ a \in DOMAIN p
      BY <1>5, <1>6, <2>1, <2>3 DEF Wrote
    <3>2. CASE p = cache
      BY <3>1, <3>2
    <3>3. CASE p[r.payee].account = new
      BY <1>1, <1>2, <1>3, <2>3, <3>1, <3>3
    <3> QED
      BY <1>5, <3>2, <3>3
  <2>4. CASE a # tx.from /\ a # r.payee
    BY <1>5, <1>6, <2>1, <2>4 DEF Wrote
  <2> QED
    BY <2>2, <2>3, <2>4
<1>11. ASSUME NEW a \in DOMAIN cache \ {tx.to}, cache[a].account.code.kind = "multiSign"
       PROVE  /\ d[a].account.code = cache[a].account.code
              /\ cache[a].modified => d[a].modified
  <2>1. a # tx.from
    BY <1>9, <1>11 DEF TxValid, Lookup
  <2>2. d[a] = p[a]
    BY <1>5, <1>6, <1>7, <2>1 DEF Wrote
  <2>3. CASE a = r.payee
    <3>1. cache[a].account # Empty
      BY <1>9, <1>11
    <3>2. old = cache[a].account
      BY <1>3, <2>3, <3>1
    <3> QED
      BY <1>2, <1>5, <2>2, <2>3, <3>2
  <2>4. CASE a # r.payee
    BY <1>5, <2>2, <2>4
  <2> QED
    BY <2>3, <2>4
<1>12. DOMAIN cache \subseteq DOMAIN d /\ tx.to \in DOMAIN d /\ d[tx.to].modified
  BY <1>5, <1>6, <1>7 DEF Wrote
<1>13. CodesFrom(cache, trie, tx, r, d)
  BY <1>7, <1>10, <1>11, <1>12 DEF CodesFrom, Wrote
<1> QED
  BY <1>8, <1>13

(* Every payment in the receipts stays one to a contract with agreements.  *)
LEMMA PaysMore ==
  ASSUME NEW cache, SoundCache(cache), NEW trie, SoundWorld(trie),
         NEW tx, Signed(tx), NEW now \in Nat, TxValid(cache, tx, now),
         NEW s, NEW seen, CachePays(cache, s, seen),
         Recorded(Lookup(cache, tx.to).code, tx.to, seen),
         NEW e, e = TxReceipts(cache, tx, now)
  PROVE  CachePays(TxCache(cache, trie, tx, now), s \cup e, seen \cup e)
<1>1. PICK r, d, more : /\ r = TxResult(cache, tx, now) /\ d = TxCache(cache, trie, tx, now)
                        /\ more = seen \cup e
  OBVIOUS
<1>2. CodesFrom(cache, trie, tx, r, d)
  BY <1>1, TxCacheCodes
<1>3. TermsKept(Lookup(cache, tx.to).code, r.to.code) /\ AddedRight(e, tx, r.to.code, more)
  BY <1>1, ResultRecorded
<1>4. CachePays(cache, s, more)
  BY <1>1, RecordedMore
<1>5. ASSUME NEW p \in s, p.kind = "pay"
      PROVE  /\ p.contract \in DOMAIN d /\ d[p.contract].modified
             /\ d[p.contract].account.code.kind = "multiSign"
             /\ Endorsed(p, d[p.contract].account.code, more)
  <2>1. /\ p.contract \in DOMAIN cache /\ cache[p.contract].modified
        /\ cache[p.contract].account.code.kind = "multiSign"
        /\ Endorsed(p, cache[p.contract].account.code, more)
    BY <1>4, <1>5 DEF CachePays
  <2>2. CASE p.contract = tx.to
    <3>1. Lookup(cache, tx.to) = cache[p.contract].account
      BY <2>1, <2>2 DEF Lookup
    <3>2. Endorsed(p, r.to.code, more)
      BY <1>3, <2>1, <3>1 DEF Endorsed, TermsKept
    <3> QED
      BY <1>2, <1>3, <2>1, <2>2, <3>1, <3>2 DEF CodesFrom, TermsKept
  <2>3. CASE p.contract # tx.to
    BY <1>2, <2>1, <2>3 DEF CodesFrom
  <2> QED
    BY <2>2, <2>3
<1>6. CachePays(d, s \cup e, more)
  BY <1>2, <1>3, <1>4, <1>5 DEF CachePays, CodesFrom, AddedRight
<1> QED
  BY <1>1, <1>6
================================================================================
