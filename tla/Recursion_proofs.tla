---------------------------- MODULE Recursion_proofs ---------------------------
(***************************************************************************)
(* Induction and recursion over data, for the functions that the models    *)
(* define by recursion on a sequence.                                      *)
(***************************************************************************)
EXTENDS Integers, Sequences, FiniteSets, FiniteSetTheorems, WellFoundedInduction, TLAPS

(***************************************************************************)
(* Induction.  The induction rules of the library take an operator, these  *)
(* are about sets; they follow from the well-foundedness of inclusion.     *)
(***************************************************************************)

(* Of any sets of elements of S one includes no other. *)
LEMMA SmallestSubset ==
  ASSUME NEW S, IsFiniteSet(S), NEW X \in SUBSET SUBSET S, X # {}
  PROVE  \E A \in X : \A B \in X : B \subseteq A => B = A
<1>1. FiniteSubsetsOf(S) = SUBSET S
  BY FS_FiniteSubsetsOfFinite
<1>2. \E A \in X : \A B \in X : ~(<<B, A>> \in StrictSubsetOrdering(S))
  BY <1>1, FS_StrictSubsetOrderingWellFounded, WFMin
<1> QED
  BY <1>2 DEF StrictSubsetOrdering

(* A set of numbers has a least element. *)
LEMMA Least ==
  ASSUME NEW T \in SUBSET Nat, T # {}
  PROVE  \E x \in T : \A y \in T : x <= y
<1> PICK m \in T : TRUE
  OBVIOUS
<1> DEFINE S == 0 .. m
           X == {0 .. n : n \in {k \in T : k <= m}}
<1>1. IsFiniteSet(S)
  BY FS_Interval
<1>2. X \in SUBSET SUBSET S /\ X # {}
  OBVIOUS
<1> HIDE DEF X, S
<1>3. PICK A \in X : \A B \in X : B \subseteq A => B = A
  BY <1>1, <1>2, SmallestSubset
<1>4. PICK x \in T : x <= m /\ A = 0 .. x
  BY DEF X
<1>5. ASSUME NEW y \in T, y < x PROVE FALSE
  <2>1. 0 .. y \in X
    BY <1>4, <1>5 DEF X
  <2>2. 0 .. y \subseteq 0 .. x /\ x \in 0 .. x /\ x \notin 0 .. y
    BY <1>5
  <2> QED
    BY <1>3, <1>4, <2>1, <2>2
<1> QED
  BY <1>5

(* A set of numbers with zero and every successor is all of them. *)
LEMMA Induction ==
  ASSUME NEW P \in SUBSET Nat, 0 \in P, \A n \in P : n + 1 \in P
  PROVE  P = Nat
<1> SUFFICES ASSUME P # Nat PROVE FALSE
  OBVIOUS
<1>1. PICK n \in Nat \ P : \A y \in Nat \ P : n <= y
  BY Least
<1> QED
  BY <1>1

(* A set with every subset of S whose proper subsets it has, has them all. *)
LEMMA SubsetInduction ==
  ASSUME NEW S, IsFiniteSet(S), NEW P \in SUBSET SUBSET S,
         \A A \in SUBSET S : (\A B \in SUBSET A : B # A => B \in P) => A \in P
  PROVE  P = SUBSET S
<1> SUFFICES ASSUME P # SUBSET S PROVE FALSE
  OBVIOUS
<1> DEFINE X == (SUBSET S) \ P
<1>1. X \in SUBSET SUBSET S /\ X # {}
  OBVIOUS
<1> HIDE DEF X
<1>2. PICK A \in X : \A B \in X : B \subseteq A => B = A
  BY <1>1, SmallestSubset
<1>3. A \in SUBSET S /\ A \notin P
  BY DEF X
<1>4. ASSUME NEW B \in SUBSET A, B # A PROVE B \in P
  BY <1>2, <1>3, <1>4 DEF X
<1> QED
  BY <1>3, <1>4

(***************************************************************************)
(* Recursion: what starts in S and whose steps stay in S is defined all    *)
(* the way, and stays in S.                                                *)
(***************************************************************************)
Follows(f, n, base, step) ==
  /\ f[0] = base
  /\ \A i \in 1 .. n : f[i] = step[<<f[i - 1], i>>]

Solvable(S, n, base, step) == \E f \in [0 .. n -> S] : Follows(f, n, base, step)

(* A recursion with n steps has a solution. *)
LEMMA Recursion ==
  ASSUME NEW n \in Nat, NEW S, NEW base \in S, NEW step \in [S \X (1 .. n) -> S]
  PROVE  Solvable(S, n, base, step)
<1> DEFINE P == {m \in Nat : m <= n => Solvable(S, m, base, step)}
<1>1. 0 \in P
  <2> DEFINE f == [i \in 0 .. 0 |-> base]
  <2>1. f \in [0 .. 0 -> S] /\ f[0] = base
    OBVIOUS
  <2>2. \A i \in 1 .. 0 : f[i] = step[<<f[i - 1], i>>]
    OBVIOUS
  <2> HIDE DEF f
  <2>3. Solvable(S, 0, base, step)
    BY <2>1, <2>2 DEF Solvable, Follows
  <2> QED
    BY <2>3
<1>2. ASSUME NEW m \in P PROVE m + 1 \in P
  <2> SUFFICES ASSUME m + 1 <= n PROVE Solvable(S, m + 1, base, step)
    OBVIOUS
  <2>1. m \in Nat /\ m <= n /\ Solvable(S, m, base, step)
    OBVIOUS
  <2>2. PICK f \in [0 .. m -> S] : Follows(f, m, base, step)
    BY <2>1 DEF Solvable
  <2>3. PICK v \in S : v = step[<<f[m], m + 1>>]
    <3>1. f[m] \in S /\ m + 1 \in 1 .. n
      BY <2>1
    <3> QED
      BY <3>1
  <2> DEFINE g == [i \in 0 .. m + 1 |-> IF i \in 0 .. m THEN f[i] ELSE v]
  <2>4. g \in [0 .. m + 1 -> S]
    BY <2>1
  <2>5. (\A i \in 0 .. m : g[i] = f[i]) /\ g[m + 1] = v
    BY <2>1
  <2> HIDE DEF g
  <2>6. g[0] = base
    BY <2>1, <2>2, <2>5 DEF Follows
  <2>7. ASSUME NEW i \in 1 .. m + 1 PROVE g[i] = step[<<g[i - 1], i>>]
    <3>1. CASE i = m + 1
      <4>1. i - 1 = m /\ m \in 0 .. m
        BY <2>1, <3>1
      <4>2. g[i - 1] = f[m]
        BY <2>5, <4>1
      <4> QED
        BY <2>3, <2>5, <3>1, <4>2
    <3>2. CASE i # m + 1
      <4>1. i \in 1 .. m /\ i \in 0 .. m /\ i - 1 \in 0 .. m
        BY <2>1, <3>2
      <4>2. g[i] = f[i] /\ g[i - 1] = f[i - 1] /\ f[i] = step[<<f[i - 1], i>>]
        BY <2>2, <2>5, <4>1 DEF Follows
      <4> QED
        BY <4>2
    <3> QED
      BY <3>1, <3>2
  <2> QED
    BY <2>4, <2>6, <2>7 DEF Solvable, Follows
<1>3. P \in SUBSET Nat
  OBVIOUS
<1> HIDE DEF P
<1>4. P = Nat
  BY <1>1, <1>2, <1>3, Induction
<1> QED
  BY <1>4 DEF P

(* What holds at first and is kept by each of n steps holds all along. *)
LEMMA Along ==
  ASSUME NEW n \in Nat, NEW Q \in SUBSET (0 .. n), 0 \in Q,
         \A i \in 1 .. n : i - 1 \in Q => i \in Q
  PROVE  Q = 0 .. n
<1> DEFINE P == {m \in Nat : m <= n => m \in Q}
<1>1. 0 \in P
  OBVIOUS
<1>2. ASSUME NEW m \in P PROVE m + 1 \in P
  <2> SUFFICES ASSUME m + 1 <= n PROVE m + 1 \in Q
    OBVIOUS
  <2>1. m \in Nat /\ m \in Q /\ m + 1 \in 1 .. n /\ (m + 1) - 1 = m
    OBVIOUS
  <2> QED
    BY <2>1
<1>3. P \in SUBSET Nat
  OBVIOUS
<1> HIDE DEF P
<1>4. P = Nat
  BY <1>1, <1>2, <1>3, Induction
<1>5. ASSUME NEW m \in 0 .. n PROVE m \in Q
  <2>1. m \in P /\ m <= n
    BY <1>4
  <2> QED
    BY <2>1 DEF P
<1> QED
  BY <1>5
================================================================================
