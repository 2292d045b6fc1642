---------------------------- MODULE CrossChain_proofs ----------------------------
(***************************************************************************)
(* Proofs about payments from one chain to another, for any servers,       *)
(* parsers, locks and situations to start from: every variable keeps its   *)
(* type, whoever sponsors a lock has seen it confirmed, no request that is *)
(* due is left unpaid, the authorities change only when enough of them     *)
(* have agreed, a lock that was received is accounted for as long as       *)
(* nothing fails, a contract that asks for more than half of its           *)
(* authorities pays a lock once, and without faults a lock is paid in the  *)
(* end or there is a reason.                                               *)
(***************************************************************************)
EXTENDS CrossChain, Recursion_proofs

(***************************************************************************)
(* Tables: sequences of rows.                                              *)
(***************************************************************************)

(* The first i rows of s without those in T are t: e gives each its place in s. *)
Kept(e, s, T, i, t) ==
  /\ e \in [1 .. Len(t) -> 1 .. i]
  /\ \A j \in 1 .. Len(t) : t[j] = s[e[j]] /\ s[e[j]] \notin T
  /\ \A j, k \in 1 .. Len(t) : e[j] = e[k] => j = k
  /\ \A k \in 1 .. i : s[k] \notin T => \E j \in 1 .. Len(t) : e[j] = k

KeptRun(f, s, T) ==
  /\ f[0] = << >>
  /\ \A i \in 1 .. Len(s) :
       f[i] = IF s[i] \in T THEN f[i - 1] ELSE Append(f[i - 1], s[i])

(* The recursion that defines Without. *)
LEMMA WithoutRun ==
  ASSUME NEW S, NEW s \in Seq(S), NEW T
  PROVE  \E f \in [0 .. Len(s) -> Seq(S)] : Without(s, T) = f[Len(s)] /\ KeptRun(f, s, T)
<1> DEFINE n == Len(s)
           next(x, i) == IF s[i] \in T THEN x ELSE Append(x, s[i])
           step == [x \in Seq(S) \X (1 .. n) |-> next(x[1], x[2])]
           Is(g) == g = [i \in 0 .. n |->
                           IF i = 0 THEN << >>
                           ELSE IF s[i] \in T THEN g[i - 1] ELSE Append(g[i - 1], s[i])]
<1>1. n \in Nat /\ << >> \in Seq(S)
  OBVIOUS
<1>2. step \in [Seq(S) \X (1 .. n) -> Seq(S)]
  <2> SUFFICES ASSUME NEW x \in Seq(S), NEW i \in 1 .. n PROVE next(x, i) \in Seq(S)
    OBVIOUS
  <2>1. s[i] \in S
    OBVIOUS
  <2> QED
    BY <2>1
<1>3. \A x \in Seq(S) : \A i \in 1 .. n : step[<<x, i>>] = next(x, i)
  OBVIOUS
<1> HIDE DEF step
<1>4. PICK f \in [0 .. n -> Seq(S)] : Follows(f, n, << >>, step)
  <2> HIDE DEF n
  <2> QED
    BY <1>1, <1>2, Recursion DEF Solvable
<1>5. \A i \in 1 .. n : f[i] = next(f[i - 1], i)
  <2> SUFFICES ASSUME NEW i \in 1 .. n PROVE f[i] = next(f[i - 1], i)
    OBVIOUS
  <2>1. i - 1 \in 0 .. n
    OBVIOUS
  <2>2. f[i - 1] \in Seq(S)
    BY <2>1
  <2> QED
    BY <1>3, <1>4, <2>2 DEF Follows
<1>6. Is(f)
  <2> SUFFICES ASSUME NEW i \in 0 .. n, i # 0 PROVE f[i] = next(f[i - 1], i)
    BY <1>4 DEF Follows
  <2>1. i \in 1 .. n
    BY <1>1
  <2> QED
    BY <1>5, <2>1
<1>7. Is(CHOOSE g : Is(g))
  <2> HIDE DEF Is
  <2> QED
    BY <1>6
<1> DEFINE h == CHOOSE g : Is(g)
<1>8. Without(s, T) = h[n]
  BY DEF Without
<1> HIDE DEF h
<1>9. h = [i \in 0 .. n |-> IF i = 0 THEN << >>
                           ELSE IF s[i] \in T THEN h[i - 1] ELSE Append(h[i - 1], s[i])]
  BY <1>7 DEF h
<1> DEFINE Q == {i \in 0 .. n : h[i] = f[i]}
<1>10. Q = 0 .. n
  <2>1. 0 \in Q
    BY <1>4, <1>9 DEF Follows
  <2>2. ASSUME NEW i \in 1 .. n, i - 1 \in Q PROVE i \in Q
    <3>1. i \in 0 .. n /\ h[i - 1] = f[i - 1] /\ i # 0
      BY <2>2
    <3>2. h[i] = next(h[i - 1], i)
      BY <1>9, <3>1
    <3> QED
      BY <1>5, <3>1, <3>2
  <2>3. Q \in SUBSET (0 .. n)
    OBVIOUS
  <2> HIDE DEF Q, n
  <2> QED
    BY <1>1, <2>1, <2>2, <2>3, Along
<1>11. h[n] = f[n]
  BY <1>1, <1>10
<1> QED
  BY <1>4, <1>5, <1>8, <1>11 DEF Follows, KeptRun

(* What Without keeps: every other row, once, in its order. *)
LEMMA WithoutKept ==
  ASSUME NEW S, NEW s \in Seq(S), NEW T
  PROVE  /\ Without(s, T) \in Seq(S)
         /\ \E e : Kept(e, s, T, Len(s), Without(s, T))
<1>1. PICK f \in [0 .. Len(s) -> Seq(S)] : Without(s, T) = f[Len(s)] /\ KeptRun(f, s, T)
  BY WithoutRun
<1>2. PICK n \in Nat : n = Len(s)
  OBVIOUS
<1> DEFINE Q == {i \in 0 .. n : \E e : Kept(e, s, T, i, f[i])}
<1>3. 0 \in Q
  <2> DEFINE e == [j \in 1 .. 0 |-> j]
  <2>1. Kept(e, s, T, 0, << >>)
    BY DEF Kept
  <2> HIDE DEF e
  <2> QED
    BY <1>1, <1>2, <2>1 DEF KeptRun
<1>4. ASSUME NEW i \in 1 .. n, i - 1 \in Q PROVE i \in Q
  <2>1. i \in 0 .. n /\ f[i - 1] \in Seq(S) /\ s[i] \in S /\ i \in 1 .. Len(s) /\ i \in Nat
    BY <1>2
  <2>2. PICK e : Kept(e, s, T, i - 1, f[i - 1])
    BY <1>4
  <2>3. PICK m \in Nat : m = Len(f[i - 1])
    BY <2>1
  <2>4. CASE s[i] \in T
    <3>1. f[i] = f[i - 1]
      BY <1>1, <2>1, <2>4 DEF KeptRun
    <3>2. Kept(e, s, T, i, f[i])
      BY <2>1, <2>2, <2>4, <3>1 DEF Kept
    <3> QED
      BY <2>1, <3>2
  <2>5. CASE s[i] \notin T
    <3>1. PICK t : t = f[i - 1]
      OBVIOUS
    <3>2. PICK u : u = Append(t, s[i])
      OBVIOUS
    <3>3. f[i] = u
      BY <1>1, <2>1, <2>5, <3>1, <3>2 DEF KeptRun
    <3>4. Len(u) = m + 1 /\ u[m + 1] = s[i] /\ \A j \in 1 .. m : u[j] = t[j]
      BY <2>1, <2>3, <3>1, <3>2
    <3> DEFINE d == [j \in 1 .. m + 1 |-> IF j \in 1 .. m THEN e[j] ELSE i]
    <3>5. e \in [1 .. m -> 1 .. i - 1]
      BY <2>2, <2>3, <3>1 DEF Kept
    <3>6. d \in [1 .. m + 1 -> 1 .. i]
      BY <2>1, <3>5
    <3>7. (\A j \in 1 .. m : d[j] = e[j]) /\ d[m + 1] = i
      OBVIOUS
    <3>8. \A j \in 1 .. m + 1 : j \in 1 .. m \/ j = m + 1
      OBVIOUS
    <3>9. m + 1 \in 1 .. m + 1 /\ \A j \in 1 .. m : j \in 1 .. m + 1
      OBVIOUS
    <3> HIDE DEF d
    <3>10. \A j \in 1 .. m : t[j] = s[e[j]] /\ s[e[j]] \notin T /\ e[j] # i
      <4>1. \A j \in 1 .. m : t[j] = s[e[j]] /\ s[e[j]] \notin T
        BY <2>2, <2>3, <3>1 DEF Kept
      <4>2. ASSUME NEW j \in 1 .. m PROVE e[j] # i
        <5>1. e[j] \in 1 .. i - 1
          BY <3>5
        <5> QED
          BY <2>1, <5>1
      <4> QED
        BY <4>1, <4>2
    <3>11. \A j, k \in 1 .. m : e[j] = e[k] => j = k
      BY <2>2, <2>3, <3>1 DEF Kept
    <3>12. \A j \in 1 .. m + 1 : u[j] = s[d[j]] /\ s[d[j]] \notin T
      BY <2>5, <3>4, <3>7, <3>8, <3>10
    <3>13. \A j, k \in 1 .. m + 1 : d[j] = d[k] => j = k
      BY <3>7, <3>8, <3>10, <3>11
    <3>14. ASSUME NEW k \in 1 .. i, s[k] \notin T PROVE \E j \in 1 .. m + 1 : d[j] = k
      <4>1. CASE k = i
        BY <3>7, <3>9, <4>1
      <4>2. CASE k # i
        <5>1. k \in 1 .. i - 1
          BY <2>1, <4>2
        <5>2. PICK j \in 1 .. m : e[j] = k
          BY <2>2, <2>3, <3>1, <3>14, <5>1 DEF Kept
        <5> QED
          BY <3>7, <3>9, <5>2
      <4> QED
        BY <4>1, <4>2
    <3>15. Kept(d, s, T, i, u)
      BY <3>4, <3>6, <3>12, <3>13, <3>14 DEF Kept
    <3> QED
      BY <2>1, <3>3, <3>15
  <2> QED
    BY <2>4, <2>5
<1>5. Q \in SUBSET (0 .. n)
  OBVIOUS
<1> HIDE DEF Q
<1>6. Q = 0 .. n
  BY <1>3, <1>4, <1>5, Along
<1>7. n \in Q /\ f[n] \in Seq(S)
  BY <1>2, <1>6
<1> QED
  BY <1>1, <1>2, <1>7 DEF Q

(***************************************************************************)
(* The requests of the contract.                                           *)
(***************************************************************************)

(* No two requests are for one lock. *)
Distinct(q) == \A i, j \in DOMAIN q : q[i].lock = q[j].lock => i = j

Sponsors(q, s, l) == \E i \in DOMAIN q : q[i].lock = l /\ s \in q[i].sponsors

(* Besides the sponsors of q, r has one for each lock of K. *)
MoreSponsors(q, r, from, K) ==
  \A s, k : Sponsors(r, s, k) <=> Sponsors(q, s, k) \/ (s = from /\ k \in K)

(* Sponsoring a lock adds the sponsor to its request. *)
LEMMA SponsoredOnce ==
  ASSUME NEW q \in Seq(PayRequest), Distinct(q), NEW l \in Lock, NEW from \in Server,
         NEW time \in Nat, NEW r, r = Sponsored(q, l, from, time)
  PROVE  r \in Seq(PayRequest) /\ Distinct(r) /\ MoreSponsors(q, r, from, {l})
<1>1. PICK n \in Nat : n = Len(q)
  OBVIOUS
<1>2. q \in [1 .. n -> PayRequest] /\ DOMAIN q = 1 .. n
  BY <1>1
<1>3. CASE \E i \in DOMAIN q : q[i].lock = l
  <2>1. PICK m \in 1 .. n : q[m].lock = l
    BY <1>2, <1>3
  <2> DEFINE add(x) == IF x.lock = l THEN [x EXCEPT !.sponsors = x.sponsors \cup {from}] ELSE x
  <2>2. \A x \in PayRequest :
          /\ add(x) \in PayRequest /\ add(x).lock = x.lock
          /\ add(x).sponsors = x.sponsors \cup IF x.lock = l THEN {from} ELSE {}
    BY DEF PayRequest
  <2>3. r = [i \in 1 .. n |-> add(q[i])]
    BY <1>2, <1>3 DEF Sponsored
  <2> HIDE DEF add
  <2>4. DOMAIN r = 1 .. n /\ \A i \in 1 .. n : r[i] = add(q[i]) /\ q[i] \in PayRequest
    BY <1>2, <2>3
  <2>5. \A i \in 1 .. n :
          /\ r[i] \in PayRequest /\ r[i].lock = q[i].lock
          /\ r[i].sponsors = q[i].sponsors \cup IF q[i].lock = l THEN {from} ELSE {}
    BY <2>2, <2>4
  <2>6. r \in Seq(PayRequest)
    BY <2>3, <2>4, <2>5
  <2>7. Distinct(r)
    BY <1>2, <2>4, <2>5 DEF Distinct
  <2>8. \A s, k : Sponsors(r, s, k) <=> Sponsors(q, s, k) \/ (s = from /\ k = l)
    BY <1>2, <2>1, <2>4, <2>5 DEF Sponsors
  <2> QED
    BY <2>6, <2>7, <2>8 DEF MoreSponsors
<1>4. CASE ~\E i \in DOMAIN q : q[i].lock = l
  <2>1. PICK x : x = [lock |-> l, timestamp |-> time, sponsors |-> {from}]
    OBVIOUS
  <2>2. x \in PayRequest /\ x.lock = l /\ x.sponsors = {from}
    BY <2>1 DEF PayRequest
  <2>3. r = Append(q, x)
    BY <1>4, <2>1 DEF Sponsored
  <2>4. /\ r \in Seq(PayRequest) /\ DOMAIN r = 1 .. n + 1
        /\ r[n + 1] = x /\ \A i \in 1 .. n : r[i] = q[i]
    BY <1>1, <2>2, <2>3
  <2>5. \A i \in 1 .. n + 1 : i \in 1 .. n \/ i = n + 1
    OBVIOUS
  <2>6. n + 1 \in 1 .. n + 1 /\ \A i \in 1 .. n : i \in 1 .. n + 1
    OBVIOUS
  <2>7. \A i \in 1 .. n : q[i].lock # l
    BY <1>2, <1>4
  <2>8. Distinct(r)
    BY <1>2, <2>2, <2>4, <2>5, <2>7 DEF Distinct
  <2>9. \A s, k : Sponsors(r, s, k) <=> Sponsors(q, s, k) \/ (s = from /\ k = l)
    BY <1>2, <2>2, <2>4, <2>5, <2>6 DEF Sponsors
  <2> QED
    BY <2>4, <2>8, <2>9 DEF MoreSponsors
<1> QED
  BY <1>3, <1>4

Requests == {q \in Seq(PayRequest) : Distinct(q)}

SponsoredRun(f, q, locks, from, time) ==
  /\ f[0] = q
  /\ \A i \in 1 .. Len(locks) : f[i] = Sponsored(f[i - 1], locks[i], from, time)

(* The recursion that defines SponsoredAll. *)
LEMMA SponsoredAllRun ==
  ASSUME NEW q \in Requests, NEW locks \in Seq(Lock), NEW from \in Server, NEW time \in Nat
  PROVE  \E f \in [0 .. Len(locks) -> Requests] :
           /\ SponsoredAll(q, locks, from, time) = f[Len(locks)]
           /\ SponsoredRun(f, q, locks, from, time)
<1> DEFINE n == Len(locks)
           next(x, i) == Sponsored(x, locks[i], from, time)
           step == [x \in Requests \X (1 .. n) |-> next(x[1], x[2])]
           Is(g) == g = [i \in 0 .. n |->
                           IF i = 0 THEN q ELSE Sponsored(g[i - 1], locks[i], from, time)]
<1>1. n \in Nat
  OBVIOUS
<1>2. \A x \in Requests : \A i \in 1 .. n : next(x, i) \in Requests
  <2> SUFFICES ASSUME NEW x \in Requests, NEW i \in 1 .. n PROVE next(x, i) \in Requests
    OBVIOUS
  <2>1. locks[i] \in Lock
    OBVIOUS
  <2> QED
    BY <2>1, SponsoredOnce DEF Requests
<1>3. step \in [Requests \X (1 .. n) -> Requests]
  <2> HIDE DEF next
  <2> QED
    BY <1>2
<1>4. \A x \in Requests : \A i \in 1 .. n : step[<<x, i>>] = next(x, i)
  OBVIOUS
<1> HIDE DEF step
<1>5. PICK f \in [0 .. n -> Requests] : Follows(f, n, q, step)
  <2> HIDE DEF n
  <2> QED
    BY <1>1, <1>3, Recursion DEF Solvable
<1>6. \A i \in 1 .. n : f[i] = next(f[i - 1], i)
  <2> SUFFICES ASSUME NEW i \in 1 .. n PROVE f[i] = next(f[i - 1], i)
    OBVIOUS
  <2>1. f[i - 1] \in Requests
    OBVIOUS
  <2> QED
    BY <1>4, <1>5, <2>1 DEF Follows
<1>7. Is(f)
  <2> SUFFICES ASSUME NEW i \in 0 .. n, i # 0 PROVE f[i] = next(f[i - 1], i)
    BY <1>5 DEF Follows
  <2>1. i \in 1 .. n
    BY <1>1
  <2> QED
    BY <1>6, <2>1
<1>8. Is(CHOOSE g : Is(g))
  <2> HIDE DEF Is
  <2> QED
    BY <1>7
<1> DEFINE h == CHOOSE g : Is(g)
<1>9. SponsoredAll(q, locks, from, time) = h[n]
  BY DEF SponsoredAll
<1> HIDE DEF h
<1>10. h = [i \in 0 .. n |-> IF i = 0 THEN q ELSE Sponsored(h[i - 1], locks[i], from, time)]
  BY <1>8 DEF h
<1> DEFINE Q == {i \in 0 .. n : h[i] = f[i]}
<1>11. 0 \in Q
  BY <1>5, <1>10 DEF Follows
<1>12. ASSUME NEW i \in 1 .. n, i - 1 \in Q PROVE i \in Q
  <2>1. i \in 0 .. n /\ h[i - 1] = f[i - 1] /\ i # 0
    BY <1>12
  <2>2. h[i] = next(h[i - 1], i)
    BY <1>10, <2>1
  <2> QED
    BY <1>6, <2>1, <2>2
<1>13. Q \in SUBSET (0 .. n)
  OBVIOUS
<1>14. Q = 0 .. n
  <2> HIDE DEF Q, n
  <2> QED
    BY <1>1, <1>11, <1>12, <1>13, Along
<1>15. h[n] = f[n]
  BY <1>1, <1>14
<1> QED
  BY <1>5, <1>6, <1>9, <1>15 DEF Follows, SponsoredRun

(* Sponsoring several locks adds the sponsor to the request of each. *)
LEMMA SponsoredByAll ==
  ASSUME NEW q \in Requests, NEW locks \in Seq(Lock), NEW from \in Server, NEW time \in Nat,
         NEW r, r = SponsoredAll(q, locks, from, time)
  PROVE  r \in Requests /\ MoreSponsors(q, r, from, ToSet(locks))
<1>1. PICK f \in [0 .. Len(locks) -> Requests] :
        r = f[Len(locks)] /\ SponsoredRun(f, q, locks, from, time)
  BY SponsoredAllRun
<1>2. PICK n \in Nat : n = Len(locks)
  OBVIOUS
<1> DEFINE Has(k, i) == \E j \in 1 .. i : locks[j] = k
           Q == {i \in 0 .. n : \A s, k : Sponsors(f[i], s, k)
                                          <=> Sponsors(q, s, k) \/ (s = from /\ Has(k, i))}
<1>3. 0 \in Q
  BY <1>1, <1>2 DEF SponsoredRun
<1>4. ASSUME NEW i \in 1 .. n, i - 1 \in Q PROVE i \in Q
  <2>1. i \in 0 .. n /\ i \in 1 .. Len(locks) /\ f[i - 1] \in Requests /\ locks[i] \in Lock
    BY <1>2
  <2>2. f[i] = Sponsored(f[i - 1], locks[i], from, time)
    BY <1>1, <2>1 DEF SponsoredRun
  <2>3. \A s, k : Sponsors(f[i], s, k)
                  <=> Sponsors(f[i - 1], s, k) \/ (s = from /\ k = locks[i])
    <3>1. PICK x, y, l \in Lock : x = f[i - 1] /\ y = f[i] /\ l = locks[i]
      BY <2>1
    <3>2. x \in Seq(PayRequest) /\ Distinct(x)
      BY <2>1, <3>1 DEF Requests
    <3>3. y = Sponsored(x, l, from, time)
      BY <2>2, <3>1
    <3>4. MoreSponsors(x, y, from, {l})
      BY <3>2, <3>3, SponsoredOnce
    <3> QED
      BY <3>1, <3>4 DEF MoreSponsors
  <2>4. \A k : Has(k, i) <=> Has(k, i - 1) \/ k = locks[i]
    <3>1. i \in Nat /\ \A j \in 1 .. i : j \in 1 .. i - 1 \/ j = i
      OBVIOUS
    <3>2. i \in 1 .. i /\ \A j \in 1 .. i - 1 : j \in 1 .. i
      OBVIOUS
    <3> QED
      BY <3>1, <3>2
  <2>5. \A s, k : Sponsors(f[i - 1], s, k) <=> Sponsors(q, s, k) \/ (s = from /\ Has(k, i - 1))
    BY <1>4
  <2> HIDE DEF Has
  <2> QED
    BY <2>1, <2>3, <2>4, <2>5
<1>5. Q \in SUBSET (0 .. n)
  OBVIOUS
<1> HIDE DEF Q
<1>6. Q = 0 .. n
  BY <1>3, <1>4, <1>5, Along
<1>7. n \in Q /\ f[n] \in Requests
  BY <1>2, <1>6
<1>8. \A k : Has(k, n) <=> k \in ToSet(locks)
  BY <1>2 DEF ToSet
<1> HIDE DEF Has
<1> QED
  BY <1>1, <1>2, <1>7, <1>8 DEF Q, MoreSponsors

(***************************************************************************)
(* Settling the requests.                                                  *)
(***************************************************************************)

(* An element more at the end. *)
Appended(q, x, r) ==
  /\ ToSet(r) = ToSet(q) \cup {x}
  /\ DOMAIN r = DOMAIN q \cup {Len(q) + 1} /\ r[Len(q) + 1] = x
  /\ \A i \in DOMAIN q : r[i] = q[i] /\ i # Len(q) + 1

(* Appending does that. *)
LEMMA AppendSet ==
  ASSUME NEW S, NEW q \in Seq(S), NEW x \in S, NEW r, r = Append(q, x)
  PROVE  r \in Seq(S) /\ Appended(q, x, r)
<1>1. PICK n \in Nat : n = Len(q) /\ DOMAIN q = 1 .. n
  OBVIOUS
<1>2. /\ r \in Seq(S) /\ DOMAIN r = 1 .. n + 1
      /\ r[n + 1] = x /\ \A i \in 1 .. n : r[i] = q[i]
  BY <1>1
<1>3. 1 .. n + 1 = (1 .. n) \cup {n + 1} /\ \A i \in 1 .. n : i # n + 1
  BY <1>1
<1>4. ToSet(r) = ToSet(q) \cup {x}
  BY <1>1, <1>2, <1>3 DEF ToSet
<1> QED
  BY <1>1, <1>2, <1>3, <1>4 DEF Appended

SettleStates(money) ==
  {s \in [kept : Seq(PayRequest), paid : Seq(Lock), expired : Seq(PayRequest),
          forgotten : Seq(PayRequest), spent : Nat, starved : BOOLEAN] : s.spent <= money}

(* The requests among the first i of r that have met a fate. *)
Fated(r, fate, i, w) == {r[k] : k \in {j \in 1 .. i : fate[j] = w}}

Fates == {"kept", "paid", "expired", "forgotten"}

(* Each of the first i requests has met one fate, and s tells which. *)
SettledAs(s, fate, r, i, c) ==
  /\ fate \in [1 .. i -> Fates]
  /\ ToSet(s.kept) = Fated(r, fate, i, "kept") /\ Distinct(s.kept)
  /\ ToSet(s.paid) = {x.lock : x \in Fated(r, fate, i, "paid")} /\ IsInjective(s.paid)
  /\ ToSet(s.expired) = Fated(r, fate, i, "expired")
  /\ ToSet(s.forgotten) = Fated(r, fate, i, "forgotten")
  /\ \A x \in Fated(r, fate, i, "kept") : ~Due(c, x)
  /\ \A x \in Fated(r, fate, i, "paid") : Due(c, x)

(* The fate of one request more. *)
LEMMA FatedMore ==
  ASSUME NEW r, NEW i \in Nat, i > 0, NEW fate \in [1 .. i - 1 -> Fates], NEW w \in Fates,
         NEW g, g = [k \in 1 .. i |-> IF k = i THEN w ELSE fate[k]]
  PROVE  /\ g \in [1 .. i -> Fates]
         /\ Fated(r, g, i, w) = Fated(r, fate, i - 1, w) \cup {r[i]}
         /\ \A v : v # w => Fated(r, g, i, v) = Fated(r, fate, i - 1, v)
<1>1. \A k \in 1 .. i - 1 : k \in 1 .. i /\ k # i
  OBVIOUS
<1>2. i \in 1 .. i /\ \A k \in 1 .. i : k = i \/ k \in 1 .. i - 1
  OBVIOUS
<1>3. g \in [1 .. i -> Fates]
  BY <1>2
<1>4. g[i] = w /\ \A k \in 1 .. i - 1 : g[k] = fate[k]
  BY <1>1, <1>2
<1>5. {j \in 1 .. i : g[j] = w} = {j \in 1 .. i - 1 : fate[j] = w} \cup {i}
  BY <1>1, <1>2, <1>4
<1>6. \A v : v # w => {j \in 1 .. i : g[j] = v} = {j \in 1 .. i - 1 : fate[j] = v}
  BY <1>1, <1>2, <1>4
<1>7. Fated(r, g, i, w) = Fated(r, fate, i - 1, w) \cup {r[i]}
  BY <1>5 DEF Fated
<1>8. \A v : v # w => Fated(r, g, i, v) = Fated(r, fate, i - 1, v)
  BY <1>6 DEF Fated
<1> QED
  BY <1>3, <1>7, <1>8

(* The lock of a request that is not settled yet differs from all that are. *)
LEMMA NewLock ==
  ASSUME NEW r \in Requests, NEW i \in 1 .. Len(r), NEW fate, NEW w
  PROVE  \A x \in Fated(r, fate, i - 1, w) : x.lock # r[i].lock
<1>1. PICK n \in Nat : n = Len(r) /\ DOMAIN r = 1 .. n
  BY DEF Requests
<1>2. \A k \in 1 .. i - 1 : k \in 1 .. n /\ k # i
  BY <1>1
<1>3. i \in 1 .. n
  BY <1>1
<1> QED
  BY <1>1, <1>2, <1>3 DEF Fated, Requests, Distinct

(* What settling one request changes. *)
Forgets(s, t, x) ==
  /\ t.forgotten = Append(s.forgotten, x)
  /\ t.kept = s.kept /\ t.paid = s.paid /\ t.expired = s.expired

Pays(s, t, x) ==
  /\ t.paid = Append(s.paid, x.lock)
  /\ t.kept = s.kept /\ t.forgotten = s.forgotten /\ t.expired = s.expired

Expires(s, t, x) ==
  /\ t.expired = Append(s.expired, x)
  /\ t.kept = s.kept /\ t.paid = s.paid /\ t.forgotten = s.forgotten

Keeps(s, t, x) ==
  /\ t.kept = Append(s.kept, x)
  /\ t.paid = s.paid /\ t.forgotten = s.forgotten /\ t.expired = s.expired

(* A request is forgotten, paid when due, expired, or kept when not due. *)
LEMMA SettleCases ==
  ASSUME NEW money \in Nat, NEW c \in Contract, NEW x \in PayRequest, NEW time,
         NEW s \in SettleStates(money), NEW t, t = Settle(c, money, s, x, time)
  PROVE  /\ t \in SettleStates(money)
         /\ \/ Forgets(s, t, x) \/ Expires(s, t, x)
            \/ Due(c, x) /\ Pays(s, t, x)
            \/ ~Due(c, x) /\ Keeps(s, t, x)
<1>1. /\ s.kept \in Seq(PayRequest) /\ s.paid \in Seq(Lock) /\ s.expired \in Seq(PayRequest)
      /\ s.forgotten \in Seq(PayRequest) /\ s.spent \in Nat /\ s.starved \in BOOLEAN
      /\ s.spent <= money
  BY DEF SettleStates
<1>2. x.lock \in Lock /\ Amount[x.lock] \in Nat /\ c.mints \in BOOLEAN
  BY AmountAssumption DEF PayRequest, Contract
<1>6. /\ Append(s.kept, x) \in Seq(PayRequest) /\ Append(s.expired, x) \in Seq(PayRequest)
      /\ Append(s.forgotten, x) \in Seq(PayRequest) /\ Append(s.paid, x.lock) \in Seq(Lock)
  BY <1>1, <1>2, AppendSet
<1>3. CASE s.starved \/ (Due(c, x) /\ ~Affordable(c, money - s.spent, x))
  <2>1. PICK q \in Seq(PayRequest) : q = Append(s.forgotten, x)
    BY <1>6
  <2>4. t \in {[s EXCEPT !.forgotten = q], [s EXCEPT !.starved = TRUE, !.forgotten = q]}
    BY <1>3, <2>1 DEF Settle
  <2>2. t \in SettleStates(money)
    BY <2>1, <2>4 DEF SettleStates
  <2>3. Forgets(s, t, x)
    BY <2>1, <2>4 DEF SettleStates, Forgets
  <2> QED
    BY <2>2, <2>3
<1>4. CASE ~s.starved /\ Due(c, x) /\ Affordable(c, money - s.spent, x)
  <2>1. PICK q \in Seq(Lock) : q = Append(s.paid, x.lock)
    BY <1>6
  <2>4. PICK v : v = IF c.mints THEN s.spent ELSE s.spent + Amount[x.lock]
    OBVIOUS
  <2>5. v \in Nat /\ v <= money
    BY <1>1, <1>2, <1>4, <2>4 DEF Affordable
  <2>6. t = [s EXCEPT !.paid = q, !.spent = v]
    BY <1>4, <2>1, <2>4 DEF Settle
  <2>2. t \in SettleStates(money)
    BY <2>1, <2>5, <2>6 DEF SettleStates
  <2>3. Pays(s, t, x)
    BY <2>1, <2>6 DEF SettleStates, Pays
  <2> QED
    BY <1>4, <2>2, <2>3
<1>5. CASE ~s.starved /\ ~Due(c, x)
  <2>1. CASE Expired(x, time)
    <3>1. PICK q \in Seq(PayRequest) : q = Append(s.expired, x)
      BY <1>6
    <3>2. t = [s EXCEPT !.expired = q]
      BY <1>5, <2>1, <3>1 DEF Settle
    <3>3. t \in SettleStates(money)
      BY <3>2 DEF SettleStates
    <3>4. Expires(s, t, x)
      BY <3>1, <3>2 DEF SettleStates, Expires
    <3> QED
      BY <3>3, <3>4
  <2>2. CASE ~Expired(x, time)
    <3>1. PICK q \in Seq(PayRequest) : q = Append(s.kept, x)
      BY <1>6
    <3>2. t = [s EXCEPT !.kept = q]
      BY <1>5, <2>2, <3>1 DEF Settle
    <3>3. t \in SettleStates(money)
      BY <3>2 DEF SettleStates
    <3>4. Keeps(s, t, x)
      BY <3>1, <3>2 DEF SettleStates, Keeps
    <3> QED
      BY <1>5, <3>3, <3>4
  <2> QED
    BY <2>1, <2>2
<1> QED
  BY <1>1, <1>3, <1>4, <1>5

(* Settling one request more gives it one fate. *)
LEMMA SettleStep ==
  ASSUME NEW money \in Nat, NEW c \in Contract, NEW r \in Requests, NEW i \in 1 .. Len(r),
         NEW time, NEW s \in SettleStates(money), NEW fate, SettledAs(s, fate, r, i - 1, c),
         NEW t, t = Settle(c, money, s, r[i], time)
  PROVE  \E g : SettledAs(t, g, r, i, c)
<1>1. PICK x \in PayRequest : x = r[i]
  BY DEF Requests
<1>2. /\ i \in Nat /\ i > 0 /\ fate \in [1 .. i - 1 -> Fates] /\ x.lock \in Lock
      /\ \A w : \A y \in Fated(r, fate, i - 1, w) : y.lock # x.lock
  BY <1>1, NewLock DEF SettledAs, PayRequest
<1>3. /\ s.kept \in Seq(PayRequest) /\ s.paid \in Seq(Lock) /\ s.expired \in Seq(PayRequest)
      /\ s.forgotten \in Seq(PayRequest)
  BY DEF SettleStates
<1> DEFINE G(w) == [k \in 1 .. i |-> IF k = i THEN w ELSE fate[k]]
<1>4. /\ ToSet(s.kept) = Fated(r, fate, i - 1, "kept") /\ Distinct(s.kept)
      /\ ToSet(s.paid) = {y.lock : y \in Fated(r, fate, i - 1, "paid")} /\ IsInjective(s.paid)
      /\ ToSet(s.expired) = Fated(r, fate, i - 1, "expired")
      /\ ToSet(s.forgotten) = Fated(r, fate, i - 1, "forgotten")
      /\ \A y \in Fated(r, fate, i - 1, "kept") : ~Due(c, y)
      /\ \A y \in Fated(r, fate, i - 1, "paid") : Due(c, y)
  BY DEF SettledAs
<1>5. \A w \in Fates : /\ G(w) \in [1 .. i -> Fates]
                       /\ Fated(r, G(w), i, w) = Fated(r, fate, i - 1, w) \cup {x}
                       /\ \A v : v # w => Fated(r, G(w), i, v) = Fated(r, fate, i - 1, v)
  BY <1>1, <1>2, FatedMore
<1> HIDE DEF G
<1>6. {"kept", "paid", "expired", "forgotten"} \subseteq Fates
  BY DEF Fates
<1>7. CASE Forgets(s, t, x)
  <2>1. ToSet(t.forgotten) = ToSet(s.forgotten) \cup {x}
    <3>1. PICK q, u : /\ q = s.forgotten /\ u = t.forgotten
                      /\ q \in Seq(PayRequest) /\ u = Append(q, x)
      BY <1>3, <1>7 DEF Forgets
    <3>2. Appended(q, x, u)
      BY <3>1, AppendSet
    <3> QED
      BY <3>1, <3>2 DEF Appended
  <2>2. SettledAs(t, G("forgotten"), r, i, c)
    BY <1>4, <1>5, <1>6, <1>7, <2>1 DEF SettledAs, Forgets
  <2> QED
    BY <2>2
<1>8. CASE Expires(s, t, x)
  <2>1. ToSet(t.expired) = ToSet(s.expired) \cup {x}
    <3>1. PICK q, u : q = s.expired /\ u = t.expired /\ q \in Seq(PayRequest) /\ u = Append(q, x)
      BY <1>3, <1>8 DEF Expires
    <3>2. Appended(q, x, u)
      BY <3>1, AppendSet
    <3> QED
      BY <3>1, <3>2 DEF Appended
  <2>2. SettledAs(t, G("expired"), r, i, c)
    BY <1>4, <1>5, <1>6, <1>8, <2>1 DEF SettledAs, Expires
  <2> QED
    BY <2>2
<1>9. CASE Due(c, x) /\ Pays(s, t, x)
  <2>1. PICK q : q = s.paid /\ q \in Seq(Lock)
    BY <1>3
  <2>2. PICK u : u = t.paid /\ u = Append(q, x.lock)
    BY <1>9, <2>1 DEF Pays
  <2>3. Appended(q, x.lock, u)
    BY <1>2, <2>1, <2>2, AppendSet
  <2>4. x.lock \notin ToSet(q)
    BY <1>2, <1>4, <2>1
  <2>5. \A k \in DOMAIN q : q[k] # x.lock
    BY <2>4 DEF ToSet
  <2>6. IsInjective(u)
    BY <1>4, <2>1, <2>3, <2>5 DEF IsInjective, Appended
  <2>7. ToSet(u) = {y.lock : y \in Fated(r, G("paid"), i, "paid")}
    BY <1>4, <1>5, <1>6, <2>1, <2>3 DEF Appended
  <2>8. /\ ToSet(t.kept) = Fated(r, G("paid"), i, "kept") /\ Distinct(t.kept)
        /\ ToSet(t.expired) = Fated(r, G("paid"), i, "expired")
        /\ ToSet(t.forgotten) = Fated(r, G("paid"), i, "forgotten")
        /\ \A y \in Fated(r, G("paid"), i, "kept") : ~Due(c, y)
    BY <1>4, <1>5, <1>6, <1>9 DEF Pays
  <2>9. \A y \in Fated(r, G("paid"), i, "paid") : Due(c, y)
    BY <1>4, <1>5, <1>6, <1>9
  <2>10. SettledAs(t, G("paid"), r, i, c)
    BY <1>5, <1>6, <2>2, <2>6, <2>7, <2>8, <2>9 DEF SettledAs
  <2> QED
    BY <2>10
<1>10. CASE ~Due(c, x) /\ Keeps(s, t, x)
  <2>1. PICK q : q = s.kept /\ q \in Seq(PayRequest)
    BY <1>3
  <2>2. PICK u : u = t.kept /\ u = Append(q, x)
    BY <1>10, <2>1 DEF Keeps
  <2>3. Appended(q, x, u)
    BY <2>1, <2>2, AppendSet
  <2>4. \A k \in DOMAIN q : q[k].lock # x.lock
    BY <1>2, <1>4, <2>1 DEF ToSet
  <2>5. Distinct(u)
    BY <1>4, <2>1, <2>3, <2>4 DEF Distinct, Appended
  <2>6. /\ ToSet(u) = Fated(r, G("kept"), i, "kept")
        /\ \A y \in Fated(r, G("kept"), i, "kept") : ~Due(c, y)
    BY <1>4, <1>5, <1>6, <1>10, <2>1, <2>3 DEF Appended
  <2>7. /\ ToSet(t.paid) = {y.lock : y \in Fated(r, G("kept"), i, "paid")} /\ IsInjective(t.paid)
        /\ ToSet(t.expired) = Fated(r, G("kept"), i, "expired")
        /\ ToSet(t.forgotten) = Fated(r, G("kept"), i, "forgotten")
        /\ \A y \in Fated(r, G("kept"), i, "paid") : Due(c, y)
    BY <1>4, <1>5, <1>6, <1>10 DEF Keeps
  <2>8. SettledAs(t, G("kept"), r, i, c)
    BY <1>5, <1>6, <2>2, <2>5, <2>6, <2>7 DEF SettledAs
  <2> QED
    BY <2>8
<1> QED
  BY <1>1, <1>7, <1>8, <1>9, <1>10, SettleCases

SettledRun(f, c, money, r, time) ==
  /\ f[0] = Unsettled
  /\ \A i \in 1 .. Len(r) : f[i] = Settle(c, money, f[i - 1], r[i], time)

(* Nothing settled is a beginning. *)
LEMMA UnsettledType ==
  ASSUME NEW money \in Nat
  PROVE  Unsettled \in SettleStates(money)
<1>1. << >> \in Seq(PayRequest) /\ << >> \in Seq(Lock)
  OBVIOUS
<1> QED
  BY <1>1 DEF Unsettled, SettleStates

(* The recursion that defines Settled. *)
LEMMA SettledRuns ==
  ASSUME NEW money \in Nat, NEW c \in Contract, NEW r \in Requests, NEW time
  PROVE  \E f \in [0 .. Len(r) -> SettleStates(money)] :
           Settled(c, money, r, time) = f[Len(r)] /\ SettledRun(f, c, money, r, time)
<1> DEFINE S == SettleStates(money)
           n == Len(r)
           next(x, i) == Settle(c, money, x, r[i], time)
           step == [x \in S \X (1 .. n) |-> next(x[1], x[2])]
           Is(g) == g = [i \in 0 .. n |-> IF i = 0 THEN Unsettled
                                         ELSE Settle(c, money, g[i - 1], r[i], time)]
<1>1. n \in Nat /\ Unsettled \in S
  BY UnsettledType DEF Requests
<1>2. \A x \in S : \A i \in 1 .. n : next(x, i) \in S
  <2> SUFFICES ASSUME NEW x \in S, NEW i \in 1 .. n PROVE next(x, i) \in S
    OBVIOUS
  <2>1. r[i] \in PayRequest
    BY DEF Requests
  <2> QED
    BY <2>1, SettleCases
<1> HIDE DEF S
<1>3. step \in [S \X (1 .. n) -> S]
  <2> HIDE DEF next
  <2> QED
    BY <1>2
<1>4. \A x \in S : \A i \in 1 .. n : step[<<x, i>>] = next(x, i)
  OBVIOUS
<1> HIDE DEF step
<1>5. PICK f \in [0 .. n -> S] : Follows(f, n, Unsettled, step)
  <2> HIDE DEF n
  <2> QED
    BY <1>1, <1>3, Recursion DEF Solvable
<1>6. \A i \in 1 .. n : f[i] = next(f[i - 1], i)
  <2> SUFFICES ASSUME NEW i \in 1 .. n PROVE f[i] = next(f[i - 1], i)
    OBVIOUS
  <2>1. f[i - 1] \in S
    BY <1>1
  <2> QED
    BY <1>4, <1>5, <2>1 DEF Follows
<1>7. Is(f)
  <2> SUFFICES ASSUME NEW i \in 0 .. n, i # 0 PROVE f[i] = next(f[i - 1], i)
    BY <1>5 DEF Follows
  <2>1. i \in 1 .. n
    BY <1>1
  <2> QED
    BY <1>6, <2>1
<1>8. Is(CHOOSE g : Is(g))
  <2> HIDE DEF Is
  <2> QED
    BY <1>7
<1> DEFINE h == CHOOSE g : Is(g)
<1>9. Settled(c, money, r, time) = h[n]
  BY DEF Settled
<1> HIDE DEF h
<1>10. h = [i \in 0 .. n |-> IF i = 0 THEN Unsettled
                            ELSE Settle(c, money, h[i - 1], r[i], time)]
  BY <1>8 DEF h
<1> DEFINE Q == {i \in 0 .. n : h[i] = f[i]}
<1>11. 0 \in Q
  BY <1>1, <1>5, <1>10 DEF Follows
<1>12. ASSUME NEW i \in 1 .. n, i - 1 \in Q PROVE i \in Q
  <2>1. i \in 0 .. n /\ h[i - 1] = f[i - 1] /\ i # 0
    BY <1>12
  <2>2. h[i] = next(h[i - 1], i)
    BY <1>10, <2>1
  <2> QED
    BY <1>6, <2>1, <2>2
<1>13. Q \in SUBSET (0 .. n)
  OBVIOUS
<1>14. Q = 0 .. n
  <2> HIDE DEF Q, n
  <2> QED
    BY <1>1, <1>11, <1>12, <1>13, Along
<1>15. h[n] = f[n]
  BY <1>1, <1>14
<1> QED
  BY <1>5, <1>6, <1>9, <1>15 DEF Follows, SettledRun, S

(* Settling gives every request one fate, and spends no more than there is. *)
LEMMA SettledSplit ==
  ASSUME NEW money \in Nat, NEW c \in Contract, NEW r \in Requests, NEW time,
         NEW s, s = Settled(c, money, r, time)
  PROVE  s \in SettleStates(money) /\ \E fate : SettledAs(s, fate, r, Len(r), c)
<1>1. PICK f \in [0 .. Len(r) -> SettleStates(money)] :
        s = f[Len(r)] /\ SettledRun(f, c, money, r, time)
  BY SettledRuns
<1>2. PICK n \in Nat : n = Len(r)
  BY DEF Requests
<1> DEFINE Q == {i \in 0 .. n : \E fate : SettledAs(f[i], fate, r, i, c)}
<1>3. 0 \in Q
  <2> DEFINE fate == [i \in 1 .. 0 |-> "kept"]
  <2>1. fate \in [1 .. 0 -> Fates] /\ \A w : Fated(r, fate, 0, w) = {}
    BY DEF Fated
  <2> HIDE DEF fate
  <2>2. PICK u : u = Unsettled
    OBVIOUS
  <2>3. u.kept = << >> /\ u.paid = << >> /\ u.expired = << >> /\ u.forgotten = << >>
    BY <2>2 DEF Unsettled
  <2>4. ToSet(<< >>) = {} /\ Distinct(<< >>) /\ IsInjective(<< >>)
    BY DEF ToSet, Distinct, IsInjective
  <2>5. SettledAs(u, fate, r, 0, c)
    BY <2>1, <2>3, <2>4 DEF SettledAs
  <2> QED
    BY <1>1, <1>2, <2>2, <2>5 DEF SettledRun
<1>4. ASSUME NEW i \in 1 .. n, i - 1 \in Q PROVE i \in Q
  <2>1. PICK x, fate : x = f[i - 1] /\ SettledAs(x, fate, r, i - 1, c)
    BY <1>4
  <2>2. i \in 0 .. n /\ i \in 1 .. Len(r) /\ x \in SettleStates(money)
    BY <1>2, <2>1
  <2>3. PICK y : y = f[i] /\ y = Settle(c, money, x, r[i], time)
    BY <1>1, <2>1, <2>2 DEF SettledRun
  <2>4. \E g : SettledAs(y, g, r, i, c)
    BY <2>1, <2>2, <2>3, SettleStep
  <2> QED
    BY <2>2, <2>3, <2>4
<1>5. Q \in SUBSET (0 .. n)
  OBVIOUS
<1> HIDE DEF Q
<1>6. Q = 0 .. n
  BY <1>3, <1>4, <1>5, Along
<1>7. n \in Q /\ f[n] \in SettleStates(money)
  BY <1>2, <1>6
<1> QED
  BY <1>1, <1>2, <1>7 DEF Q

(***************************************************************************)
(* Concatenations.                                                         *)
(***************************************************************************)

(* The elements of a concatenation. *)
LEMMA ConcatSet ==
  ASSUME NEW S, NEW s \in Seq(S), NEW t \in Seq(S)
  PROVE  s \o t \in Seq(S) /\ ToSet(s \o t) = ToSet(s) \cup ToSet(t)
<1>1. PICK m \in Nat, n \in Nat : m = Len(s) /\ n = Len(t)
  OBVIOUS
<1>9. s \o t \in Seq(S)
  OBVIOUS
<1>2. PICK u \in Seq(S) : u = s \o t
  BY <1>9
<1>3. DOMAIN u = 1 .. m + n /\ DOMAIN s = 1 .. m /\ DOMAIN t = 1 .. n
  BY <1>1, <1>2
<1>4. (\A i \in 1 .. m : u[i] = s[i]) /\ (\A i \in 1 .. n : u[m + i] = t[i])
  BY <1>1, <1>2
<1>5. ASSUME NEW i \in 1 .. m + n, i \notin 1 .. m PROVE \E j \in 1 .. n : i = m + j
  <2>1. i - m \in 1 .. n /\ i = m + (i - m)
    BY <1>5
  <2> QED
    BY <2>1
<1>6. (\A i \in 1 .. m : i \in 1 .. m + n) /\ (\A j \in 1 .. n : m + j \in 1 .. m + n)
  OBVIOUS
<1>7. ToSet(u) \subseteq ToSet(s) \cup ToSet(t)
  <2> SUFFICES ASSUME NEW i \in 1 .. m + n PROVE u[i] \in ToSet(s) \cup ToSet(t)
    BY <1>3 DEF ToSet
  <2>1. CASE i \in 1 .. m
    BY <1>3, <1>4, <2>1 DEF ToSet
  <2>2. CASE i \notin 1 .. m
    BY <1>3, <1>4, <1>5, <2>2 DEF ToSet
  <2> QED
    BY <2>1, <2>2
<1>8. ToSet(s) \cup ToSet(t) \subseteq ToSet(u)
  BY <1>3, <1>4, <1>6 DEF ToSet
<1> QED
  BY <1>2, <1>7, <1>8

FlattenRun(f, q) ==
  /\ f[1] = q[1]
  /\ \A i \in 2 .. Len(q) : f[i] = f[i - 1] \o q[i]

(* The recursion that defines FlattenSeq. *)
LEMMA FlattenRuns ==
  ASSUME NEW S, NEW q \in Seq(Seq(S)), Len(q) > 0
  PROVE  \E f \in [1 .. Len(q) -> Seq(S)] : FlattenSeq(q) = f[Len(q)] /\ FlattenRun(f, q)
<1> DEFINE n == Len(q)
           next(x, i) == IF i = 1 THEN q[i] ELSE x \o q[i]
           step == [x \in Seq(S) \X (1 .. n) |-> next(x[1], x[2])]
           Is(g) == g = [i \in 1 .. n |-> IF i = 1 THEN q[i] ELSE g[i - 1] \o q[i]]
<1>1. n \in Nat /\ << >> \in Seq(S) /\ n > 0
  OBVIOUS
<1>2. \A x \in Seq(S) : \A i \in 1 .. n : next(x, i) \in Seq(S)
  <2> SUFFICES ASSUME NEW x \in Seq(S), NEW i \in 1 .. n PROVE next(x, i) \in Seq(S)
    OBVIOUS
  <2>1. q[i] \in Seq(S)
    OBVIOUS
  <2> QED
    BY <2>1
<1>3. step \in [Seq(S) \X (1 .. n) -> Seq(S)]
  <2> HIDE DEF next
  <2> QED
    BY <1>2
<1>4. \A x \in Seq(S) : \A i \in 1 .. n : step[<<x, i>>] = next(x, i)
  OBVIOUS
<1> HIDE DEF step
<1>5. PICK e \in [0 .. n -> Seq(S)] : Follows(e, n, << >>, step)
  <2> HIDE DEF n
  <2> QED
    BY <1>1, <1>3, Recursion DEF Solvable
<1>6. \A i \in 1 .. n : e[i] = next(e[i - 1], i)
  <2> SUFFICES ASSUME NEW i \in 1 .. n PROVE e[i] = next(e[i - 1], i)
    OBVIOUS
  <2>2. i - 1 \in 0 .. n
    BY <1>1
  <2>1. e[i - 1] \in Seq(S)
    <3> HIDE DEF n
    <3> QED
      BY <2>2
  <2> QED
    BY <1>4, <1>5, <2>1 DEF Follows
<1> DEFINE f == [i \in 1 .. n |-> e[i]]
<1>7. f \in [1 .. n -> Seq(S)] /\ \A i \in 1 .. n : f[i] = e[i]
  BY <1>1
<1> HIDE DEF f
<1>8. \A i \in 1 .. n : f[i] = IF i = 1 THEN q[i] ELSE f[i - 1] \o q[i]
  <2> SUFFICES ASSUME NEW i \in 1 .. n, i # 1 PROVE f[i] = f[i - 1] \o q[i]
    BY <1>6, <1>7
  <2>1. i - 1 \in 1 .. n
    BY <1>1
  <2>2. f[i - 1] = e[i - 1] /\ f[i] = e[i] /\ e[i] = next(e[i - 1], i)
    BY <1>6, <1>7, <2>1
  <2> QED
    BY <2>2
<1>9. Is(f)
  BY <1>7, <1>8
<1>10. Is(CHOOSE g : Is(g))
  <2> HIDE DEF Is
  <2> QED
    BY <1>9
<1> DEFINE h == CHOOSE g : Is(g)
<1>11. FlattenSeq(q) = h[n]
  BY <1>1 DEF FlattenSeq
<1> HIDE DEF h
<1>12. h = [i \in 1 .. n |-> IF i = 1 THEN q[i] ELSE h[i - 1] \o q[i]]
  BY <1>10 DEF h
<1> DEFINE Q == {0} \cup {i \in 1 .. n : h[i] = f[i]}
<1>13. ASSUME NEW i \in 1 .. n, i - 1 \in Q PROVE i \in Q
  <2>1. CASE i = 1
    BY <1>8, <1>12, <2>1
  <2>2. CASE i # 1
    <3>1. h[i - 1] = f[i - 1]
      BY <1>13, <2>2
    <3> QED
      BY <1>8, <1>12, <2>2, <3>1
  <2> QED
    BY <2>1, <2>2
<1>14. Q \in SUBSET (0 .. n) /\ 0 \in Q
  BY <1>1
<1>15. Q = 0 .. n
  <2> HIDE DEF Q, n
  <2> QED
    BY <1>1, <1>13, <1>14, Along
<1>16. h[n] = f[n]
  BY <1>1, <1>15
<1>17. FlattenRun(f, q)
  <2>1. f[1] = q[1]
    <3>1. 1 \in 1 .. n
      BY <1>1
    <3> QED
      BY <1>8, <3>1
  <2>2. \A i \in 2 .. n : i \in 1 .. n /\ i # 1
    OBVIOUS
  <2> QED
    BY <1>8, <2>1, <2>2 DEF FlattenRun
<1> QED
  BY <1>7, <1>11, <1>16, <1>17

Flattened(q, r) == \A x : x \in ToSet(r) <=> \E i \in 1 .. Len(q) : x \in ToSet(q[i])

(* A flattened sequence has the elements of all the sequences. *)
LEMMA FlattenedSet ==
  ASSUME NEW S, NEW q \in Seq(Seq(S)), Len(q) > 0
  PROVE  FlattenSeq(q) \in Seq(S) /\ Flattened(q, FlattenSeq(q))
<1>1. PICK f \in [1 .. Len(q) -> Seq(S)] : FlattenSeq(q) = f[Len(q)] /\ FlattenRun(f, q)
  BY FlattenRuns
<1>2. PICK n \in Nat : n = Len(q) /\ n > 0
  OBVIOUS
<1>8. \A j \in 1 .. Len(q) : f[j] \in Seq(S)
  BY Zenon
<1>9. \A j \in 1 .. Len(q) : q[j] \in Seq(S)
  <2>1. q \in [1 .. Len(q) -> Seq(S)]
    OBVIOUS
  <2> QED
    BY <2>1, Zenon
<1> DEFINE Has(x, i) == \E j \in 1 .. i : x \in ToSet(q[j])
           Q == {0} \cup {i \in 1 .. n : \A x : x \in ToSet(f[i]) <=> Has(x, i)}
<1>3. ASSUME NEW i \in 1 .. n, i - 1 \in Q PROVE i \in Q
  <2>1. CASE i = 1
    <3>1. f[1] = q[1] /\ 1 .. 1 = {1}
      BY <1>1 DEF FlattenRun
    <3> QED
      BY <2>1, <3>1
  <2>2. CASE i # 1
    <3>1. i \in 2 .. Len(q) /\ i - 1 \in 1 .. n /\ i \in Nat
      BY <1>2, <2>2
    <3>2. f[i] = f[i - 1] \o q[i]
      BY <1>1, <3>1 DEF FlattenRun
    <3>8. f[i - 1] \in Seq(S) /\ q[i] \in Seq(S)
      <4> HIDE DEF Q, Has
      <4>1. i - 1 \in 1 .. Len(q) /\ i \in 1 .. Len(q)
        BY <1>2, <3>1
      <4> QED
        BY <1>8, <1>9, <4>1, Zenon
    <3>3. ToSet(f[i]) = ToSet(f[i - 1]) \cup ToSet(q[i])
      BY <3>2, <3>8, ConcatSet
    <3>4. \A x : x \in ToSet(f[i - 1]) <=> Has(x, i - 1)
      BY <1>3, <3>1
    <3>5. \A j \in 1 .. i : j \in 1 .. i - 1 \/ j = i
      BY <3>1
    <3>6. i \in 1 .. i /\ \A j \in 1 .. i - 1 : j \in 1 .. i
      BY <3>1
    <3>7. \A x : Has(x, i) <=> Has(x, i - 1) \/ x \in ToSet(q[i])
      BY <3>5, <3>6
    <3> HIDE DEF Has
    <3> QED
      BY <3>3, <3>4, <3>7
  <2> QED
    BY <2>1, <2>2
<1>4. Q \in SUBSET (0 .. n) /\ 0 \in Q
  BY <1>2
<1> HIDE DEF Q
<1>5. Q = 0 .. n
  BY <1>2, <1>3, <1>4, Along
<1>6. n \in Q /\ f[n] \in Seq(S)
  <2>1. n \in 0 .. n /\ n \in 1 .. Len(q)
    BY <1>2
  <2> QED
    BY <1>5, <1>8, <2>1, Zenon
<1>7. \A x : x \in ToSet(f[n]) <=> Has(x, n)
  BY <1>2, <1>6 DEF Q
<1> QED
  BY <1>1, <1>2, <1>6, <1>7 DEF Flattened

(***************************************************************************)
(* What a transaction does to the requests.                                *)
(***************************************************************************)

Over(e, s, l) == \E c \in Causes : <<s, l, c>> \in e

(* Of the sponsors of R some are kept by K, the others end in N; P is paid. *)
Moved(R, K, N, P) ==
  /\ N \subseteq Server \X Lock \X Causes
  /\ \A s \in Server, l \in Lock :
       /\ Sponsors(R, s, l) <=> Sponsors(K, s, l) \/ Over(N, s, l)
       /\ Sponsors(K, s, l) => ~Over(N, s, l)
       /\ \A c, d \in Causes : <<s, l, c>> \in N /\ <<s, l, d>> \in N => c = d
       /\ <<s, l, "paid">> \in N <=> l \in P /\ Sponsors(R, s, l)

(* The requests of R with fate w, as sponsors see them. *)
Meets(R, fate, w, s, l) ==
  \E k \in 1 .. Len(R) : fate[k] = w /\ R[k].lock = l /\ s \in R[k].sponsors

EndsOf(R, s) ==
  (UNION {{<<z, l, "paid">> : z \in {y \in Server : Sponsors(R, y, l)}} : l \in ToSet(s.paid)})
    \cup EndedRequests(s.expired, "expired") \cup EndedRequests(s.forgotten, "forgotten")

(* Which requests a settled sequence has. *)
LEMMA FatedSponsors ==
  ASSUME NEW R \in Requests, NEW fate, NEW w, NEW q, ToSet(q) = Fated(R, fate, Len(R), w),
         NEW s, NEW l
  PROVE  /\ Sponsors(q, s, l) <=> Meets(R, fate, w, s, l)
         /\ \A how : <<s, l, how>> \in EndedRequests(q, how) <=> Meets(R, fate, w, s, l)
<1>1. \A x : x \in ToSet(q) <=> \E k \in 1 .. Len(R) : fate[k] = w /\ x = R[k]
  BY DEF Fated
<1>2. Sponsors(q, s, l) <=> \E x \in ToSet(q) : x.lock = l /\ s \in x.sponsors
  BY DEF Sponsors, ToSet
<1>3. \A how : <<s, l, how>> \in EndedRequests(q, how)
                 <=> \E x \in ToSet(q) : x.lock = l /\ s \in x.sponsors
  BY DEF EndedRequests
<1> QED
  BY <1>1, <1>2, <1>3 DEF Meets

(* Ended requests tell how they ended. *)
LEMMA EndedHow ==
  ASSUME NEW q, ToSet(q) \subseteq PayRequest, NEW how \in Causes
  PROVE  /\ EndedRequests(q, how) \subseteq Server \X Lock \X Causes
         /\ \A s, l, c : <<s, l, c>> \in EndedRequests(q, how) => c = how
<1>1. \A x \in ToSet(q) : x.lock \in Lock /\ x.sponsors \subseteq Server
  BY DEF PayRequest
<1>2. \A e \in EndedRequests(q, how) :
        \E x \in ToSet(q) : \E s \in x.sponsors : e = <<s, x.lock, how>>
  BY DEF EndedRequests
<1> QED
  BY <1>1, <1>2

(* Settling moves every sponsor to one place. *)
LEMMA SettledMoves ==
  ASSUME NEW R \in Requests, NEW fate, NEW c, NEW s, SettledAs(s, fate, R, Len(R), c),
         s.paid \in Seq(Lock)
  PROVE  Moved(R, s.kept, EndsOf(R, s), ToSet(s.paid))
<1> DEFINE N == EndsOf(R, s)
           P == ToSet(s.paid)
           E(z, l) == Meets(R, fate, "expired", z, l)
           F(z, l) == Meets(R, fate, "forgotten", z, l)
           G(z, l) == Meets(R, fate, "paid", z, l)
           K(z, l) == Meets(R, fate, "kept", z, l)
<1>1. PICK n \in Nat : n = Len(R) /\ DOMAIN R = 1 .. n
  BY DEF Requests
<1>2. /\ fate \in [1 .. n -> Fates] /\ ToSet(s.kept) = Fated(R, fate, Len(R), "kept")
      /\ P = {x.lock : x \in Fated(R, fate, n, "paid")}
      /\ ToSet(s.expired) = Fated(R, fate, Len(R), "expired")
      /\ ToSet(s.forgotten) = Fated(R, fate, Len(R), "forgotten")
  BY <1>1 DEF SettledAs
<1>3. \A i, j \in 1 .. n : R[i].lock = R[j].lock => i = j
  BY <1>1 DEF Requests, Distinct
<1>4. \A x \in ToSet(s.expired) \cup ToSet(s.forgotten) : x \in PayRequest
  BY <1>1, <1>2 DEF Fated, Requests
<1>5. P \subseteq Lock
  <2>1. PICK m \in Nat : DOMAIN s.paid = 1 .. m /\ \A i \in 1 .. m : s.paid[i] \in Lock
    BY s.paid \in Seq(Lock)
  <2> QED
    BY <2>1 DEF ToSet
<1>6. {"expired", "forgotten", "paid"} \subseteq Causes
  BY DEF Causes
<1> DEFINE X == EndedRequests(s.expired, "expired")
           Y == EndedRequests(s.forgotten, "forgotten")
           Z == UNION {{<<z, l, "paid">> : z \in {y \in Server : Sponsors(R, y, l)}} : l \in P}
<1>7. N = Z \cup X \cup Y
  BY DEF EndsOf
<1>8. /\ X \subseteq Server \X Lock \X Causes /\ Y \subseteq Server \X Lock \X Causes
      /\ \A z, l, how : <<z, l, how>> \in X => how = "expired"
      /\ \A z, l, how : <<z, l, how>> \in Y => how = "forgotten"
  BY <1>4, <1>6, EndedHow
<1>9. \A z, l : /\ Sponsors(s.kept, z, l) <=> K(z, l)
                /\ <<z, l, "expired">> \in X <=> E(z, l)
                /\ <<z, l, "forgotten">> \in Y <=> F(z, l)
  BY <1>2, FatedSponsors
<1> HIDE DEF X, Y, N
<1>10. Z \subseteq Server \X Lock \X Causes
  BY <1>5, <1>6
<1>11. \A z, l, how : <<z, l, how>> \in Z <=> how = "paid" /\ l \in P /\ z \in Server
                                              /\ Sponsors(R, z, l)
  OBVIOUS
<1> HIDE DEF Z
<1>12. \A z, l : l \in P /\ Sponsors(R, z, l) <=> G(z, l)
  <2>1. \A l : l \in P <=> \E k \in 1 .. n : fate[k] = "paid" /\ R[k].lock = l
    BY <1>2 DEF Fated
  <2>2. \A z, l : Sponsors(R, z, l) <=> \E k \in 1 .. n : R[k].lock = l /\ z \in R[k].sponsors
    BY <1>1 DEF Sponsors
  <2> HIDE DEF P
  <2> QED
    BY <1>1, <1>3, <2>1, <2>2 DEF Meets
<1>13. \A z, l : Sponsors(R, z, l) <=> K(z, l) \/ E(z, l) \/ F(z, l) \/ G(z, l)
  <2>1. \A z, l : Sponsors(R, z, l) <=> \E k \in 1 .. n : R[k].lock = l /\ z \in R[k].sponsors
    BY <1>1 DEF Sponsors
  <2>2. \A k \in 1 .. n : fate[k] \in {"kept", "paid", "expired", "forgotten"}
    BY <1>2 DEF Fates
  <2> QED
    BY <1>1, <2>1, <2>2 DEF Meets
<1>14. \A z, l : /\ K(z, l) => ~E(z, l) /\ ~F(z, l) /\ ~G(z, l)
                 /\ E(z, l) => ~F(z, l) /\ ~G(z, l)
                 /\ F(z, l) => ~G(z, l)
  <2>1. \A w, v, z, l : Meets(R, fate, w, z, l) /\ Meets(R, fate, v, z, l) => w = v
    BY <1>1, <1>3 DEF Meets
  <2> QED
    BY <2>1
<1> HIDE DEF E, F, G, K, P
<1>15. ASSUME NEW z \in Server, NEW l \in Lock
       PROVE  /\ <<z, l, "expired">> \in N <=> E(z, l)
              /\ <<z, l, "forgotten">> \in N <=> F(z, l)
              /\ <<z, l, "paid">> \in N <=> G(z, l)
              /\ \A how : <<z, l, how>> \in N => how \in {"expired", "forgotten", "paid"}
  BY <1>7, <1>8, <1>9, <1>11, <1>12
<1>16. ASSUME NEW z \in Server, NEW l \in Lock
       PROVE  Over(N, z, l) <=> E(z, l) \/ F(z, l) \/ G(z, l)
  BY <1>6, <1>15 DEF Over
<1>17. N \subseteq Server \X Lock \X Causes
  BY <1>7, <1>8, <1>10
<1>18. ASSUME NEW z \in Server, NEW l \in Lock
       PROVE  /\ Sponsors(R, z, l) <=> Sponsors(s.kept, z, l) \/ Over(N, z, l)
              /\ Sponsors(s.kept, z, l) => ~Over(N, z, l)
              /\ \A d, e \in Causes : <<z, l, d>> \in N /\ <<z, l, e>> \in N => d = e
              /\ <<z, l, "paid">> \in N <=> l \in P /\ Sponsors(R, z, l)
  <2>1. /\ Sponsors(R, z, l) <=> Sponsors(s.kept, z, l) \/ Over(N, z, l)
        /\ Sponsors(s.kept, z, l) => ~Over(N, z, l)
    BY <1>9, <1>13, <1>14, <1>16
  <2>2. \A d, e \in Causes : <<z, l, d>> \in N /\ <<z, l, e>> \in N => d = e
    <3>1. ASSUME NEW d, NEW e, <<z, l, d>> \in N, <<z, l, e>> \in N PROVE d = e
      <4>1. d \in {"expired", "forgotten", "paid"} /\ e \in {"expired", "forgotten", "paid"}
        BY <1>15, <3>1
      <4>2. /\ <<z, l, "expired">> \in N => E(z, l)
            /\ <<z, l, "forgotten">> \in N => F(z, l)
            /\ <<z, l, "paid">> \in N => G(z, l)
        BY <1>15
      <4>3. ~(E(z, l) /\ F(z, l)) /\ ~(E(z, l) /\ G(z, l)) /\ ~(F(z, l) /\ G(z, l))
        BY <1>14
      <4>4. CASE d = "expired"
        BY <3>1, <4>1, <4>2, <4>3, <4>4
      <4>5. CASE d = "forgotten"
        BY <3>1, <4>1, <4>2, <4>3, <4>5
      <4>6. CASE d = "paid"
        BY <3>1, <4>1, <4>2, <4>3, <4>6
      <4> QED
        BY <4>1, <4>4, <4>5, <4>6
    <3> QED
      BY <3>1
  <2>3. <<z, l, "paid">> \in N <=> l \in P /\ Sponsors(R, z, l)
    BY <1>12, <1>15
  <2> QED
    BY <2>1, <2>2, <2>3
<1> QED
  BY <1>17, <1>18 DEF Moved, N, P

(* What CROSS_PAY does: R has the sponsors it adds, s what is settled.     *)
PayOutcome(o, c, money, from, K, R, s, fate) ==
  /\ R \in Requests /\ s \in SettleStates(money)
  /\ MoreSponsors(c.requests, R, from, K)
  /\ SettledAs(s, fate, R, Len(R), c)
  /\ o.contract = [c EXCEPT !.requests = s.kept]
  /\ o.balance = money - s.spent
  /\ o.paid = s.paid /\ o.expired = s.expired /\ o.forgotten = s.forgotten

(* Requests have the type of requests. *)
LEMMA RequestTypes ==
  ASSUME NEW R \in Requests, NEW i \in DOMAIN R
  PROVE  R[i] \in PayRequest /\ R[i].sponsors \in SUBSET Server /\ R[i].lock \in Lock
<1>1. R[i] \in PayRequest
  BY DEF Requests
<1> QED
  BY <1>1 DEF PayRequest

(* Crossing payments: the lock's sponsors are added, then all is settled. *)
LEMMA PaySplit ==
  ASSUME NEW c \in Contract, Distinct(c.requests), NEW money \in Nat, NEW from \in Server,
         NEW locks \in Seq(Lock), NEW time \in Nat,
         NEW o, o = CrossPaid(c, money, from, locks, time)
  PROVE  \E R, s, fate : PayOutcome(o, c, money, from, ToSet(locks), R, s, fate)
<1>1. c.requests \in Requests
  BY DEF Requests, Contract
<1>2. PICK R : R = SponsoredAll(c.requests, locks, from, time)
  OBVIOUS
<1>3. R \in Requests /\ MoreSponsors(c.requests, R, from, ToSet(locks))
  <2>1. PICK q : q = c.requests /\ q \in Requests
    BY <1>1
  <2>2. R = SponsoredAll(q, locks, from, time)
    BY <1>2, <2>1
  <2>3. R \in Requests /\ MoreSponsors(q, R, from, ToSet(locks))
    BY <2>1, <2>2, SponsoredByAll
  <2> QED
    BY <2>1, <2>3
<1>4. PICK s : s = Settled(c, money, R, time)
  OBVIOUS
<1>5. s \in SettleStates(money) /\ \E fate : SettledAs(s, fate, R, Len(R), c)
  BY <1>3, <1>4, SettledSplit
<1>6. o = [contract |-> [c EXCEPT !.requests = s.kept], balance |-> money - s.spent,
           paid |-> s.paid, expired |-> s.expired, forgotten |-> s.forgotten]
  BY <1>2, <1>4 DEF CrossPaid
<1>7. /\ o.contract = [c EXCEPT !.requests = s.kept] /\ o.balance = money - s.spent
      /\ o.paid = s.paid /\ o.expired = s.expired /\ o.forgotten = s.forgotten
  BY <1>6
<1> QED
  BY <1>3, <1>5, <1>7 DEF PayOutcome

(* An injective sequence has every element at one place. *)
LEMMA OncePaid ==
  ASSUME NEW q \in Seq(Lock), IsInjective(q), NEW l
  PROVE  Cardinality({i \in DOMAIN q : q[i] = l}) = IF l \in ToSet(q) THEN 1 ELSE 0
<1>1. CASE l \in ToSet(q)
  <2>1. PICK i \in DOMAIN q : q[i] = l
    BY <1>1 DEF ToSet
  <2>2. {j \in DOMAIN q : q[j] = l} = {i}
    BY <2>1 DEF IsInjective
  <2> QED
    BY <1>1, <2>2, FS_Singleton
<1>2. CASE l \notin ToSet(q)
  <2>1. {j \in DOMAIN q : q[j] = l} = {}
    BY <1>2 DEF ToSet
  <2> QED
    BY <1>2, <2>1, FS_EmptySet
<1> QED
  BY <1>1, <1>2

BlockState ==
  [contract : {c \in Contract : Distinct(c.requests)}, balance : Nat, nonce : [Server -> Nat],
   paid : [Lock -> Nat], ran : SUBSET RawTx, ended : SUBSET (Server \X Lock \X Causes)]

(* All of a contract but its requests. *)
SameContract(c, d) ==
  /\ d.mints = c.mints /\ d.threshold = c.threshold /\ d.expireInterval = c.expireInterval
  /\ d.timestamp = c.timestamp /\ d.authority = c.authority /\ d.new = c.new /\ d.del = c.del
  /\ d.agree = c.agree /\ d.reject = c.reject

(* A transaction that ran: it added to the sponsors, R, some of whom stay; *)
(* the others end in N and the locks P are paid.                           *)
RanAs(a, tx, b, R, N, P) ==
  /\ R \in Requests /\ MoreSponsors(a.contract.requests, R, tx.from, ToSet(tx.locks))
  /\ Moved(R, b.contract.requests, N, P)
  /\ SameContract(a.contract, b.contract)
  /\ b.nonce = [a.nonce EXCEPT ![tx.from] = tx.nonce]
  /\ b.ran = a.ran \cup {tx} /\ b.ended = a.ended \cup N
  /\ \A l \in Lock : b.paid[l] = a.paid[l] + IF l \in P THEN 1 ELSE 0
  /\ \A l \in P : \E A \in SUBSET Server :
       Reaches(a.contract, Cardinality(A)) /\ \A s : s \in A <=> Sponsors(R, s, l)
  /\ \A i \in DOMAIN b.contract.requests : ~Due(a.contract, b.contract.requests[i])

(* Its outcome is of that kind. *)
LEMMA RunsStep ==
  ASSUME NEW a \in BlockState, NEW tx \in RawTx, Runs(a, tx), now \in Nat,
         NEW b, b = RunTx(a, tx)
  PROVE  b \in BlockState /\ \E R, N, P : RanAs(a, tx, b, R, N, P)
<1>1. PICK c \in Contract : c = a.contract /\ Distinct(c.requests)
  BY DEF BlockState
<1>2. a.balance + 1 \in Nat /\ tx.from \in Server /\ tx.locks \in Seq(Lock) /\ tx.nonce \in Nat
  BY DEF BlockState, RawTx
<1>3. PICK o : o = CrossPaid(c, a.balance + 1, tx.from, tx.locks, now)
  OBVIOUS
<1>21. PICK m \in Nat : m = a.balance + 1
  BY <1>2
<1>20. PICK R, s, fate : PayOutcome(o, c, m, tx.from, ToSet(tx.locks), R, s, fate)
  <2>1. PICK f \in Server, k \in Seq(Lock) : f = tx.from /\ k = tx.locks
    BY <1>2
  <2>2. o = CrossPaid(c, m, f, k, now)
    BY <1>3, <1>21, <2>1
  <2>3. \E R, s, fate : PayOutcome(o, c, m, f, ToSet(k), R, s, fate)
    BY <1>1, <2>2, PaySplit
  <2> QED
    BY <2>1, <2>3
<1>4. /\ R \in Requests /\ s \in SettleStates(m)
      /\ MoreSponsors(c.requests, R, tx.from, ToSet(tx.locks))
      /\ SettledAs(s, fate, R, Len(R), c)
      /\ o.contract = [c EXCEPT !.requests = s.kept]
      /\ o.balance = m - s.spent
      /\ o.paid = s.paid /\ o.expired = s.expired /\ o.forgotten = s.forgotten
  BY <1>20 DEF PayOutcome
<1>5. /\ s.kept \in Seq(PayRequest) /\ s.paid \in Seq(Lock) /\ s.expired \in Seq(PayRequest)
      /\ s.forgotten \in Seq(PayRequest) /\ s.spent \in Nat /\ s.spent <= m
  BY <1>4 DEF SettleStates
<1> DEFINE N == EndsOf(R, s)
           P == ToSet(s.paid)
<1>6. Moved(R, s.kept, N, P)
  BY <1>4, <1>5, SettledMoves
<1>7. PICK d : d = o.contract
  OBVIOUS
<1>8. d \in Contract /\ d.requests = s.kept /\ SameContract(c, d) /\ Distinct(d.requests)
  <2>1. PICK q \in Seq(PayRequest) : q = s.kept
    BY <1>5
  <2>2. d = [c EXCEPT !.requests = q]
    BY <1>4, <1>7, <2>1
  <2>3. d \in Contract /\ d.requests = q /\ SameContract(c, d)
    BY <2>2 DEF Contract, SameContract
  <2>4. Distinct(q)
    BY <1>4, <2>1 DEF SettledAs
  <2> QED
    BY <2>1, <2>3, <2>4
<1> DEFINE before(l) == {r \in ToSet(a.contract.requests) : r.lock = l}
           payers(l) == (UNION {r.sponsors : r \in before(l)})
                          \cup (IF l \in ToSet(tx.locks) THEN {tx.from} ELSE {})
<1>9. \A l : payers(l) = {y \in Server : Sponsors(R, y, l)}
  <2>1. \A y, l : Sponsors(R, y, l) <=> Sponsors(c.requests, y, l)
                                        \/ (y = tx.from /\ l \in ToSet(tx.locks))
    BY <1>4 DEF MoreSponsors
  <2>2. \A y, l : Sponsors(c.requests, y, l) <=> \E r \in before(l) : y \in r.sponsors
    BY <1>1 DEF Sponsors, ToSet
  <2>3. \A y, l : y \in payers(l) <=> Sponsors(R, y, l)
    <3> HIDE DEF before
    <3> QED
      BY <2>1, <2>2
  <2>4. \A y, l : Sponsors(R, y, l) => y \in Server
    <3>1. \A i \in DOMAIN R : R[i].sponsors \subseteq Server
      BY <1>4, RequestTypes
    <3> QED
      BY <3>1 DEF Sponsors
  <2> HIDE DEF payers
  <2> QED
    BY <2>3, <2>4
<1> DEFINE tally == [l \in Lock |-> a.paid[l]
                                     + Cardinality({i \in DOMAIN o.paid : o.paid[i] = l})]
           ends == (UNION {{<<z, l, "paid">> : z \in payers(l)} : l \in ToSet(o.paid)})
                     \cup EndedRequests(o.expired, "expired")
                     \cup EndedRequests(o.forgotten, "forgotten")
<1>10. b = [contract |-> o.contract, balance |-> o.balance,
            nonce |-> [a.nonce EXCEPT ![tx.from] = tx.nonce],
            paid |-> tally, ran |-> a.ran \cup {tx},
            ended |-> a.ended
                        \cup (UNION {{<<z, l, "paid">> : z \in payers(l)} : l \in ToSet(o.paid)})
                        \cup EndedRequests(o.expired, "expired")
                        \cup EndedRequests(o.forgotten, "forgotten")]
  BY <1>1, <1>3 DEF RunTx
<1>11. ends = N
  <2> HIDE DEF payers
  <2> QED
    BY <1>4, <1>9 DEF EndsOf
<1>12. tally \in [Lock -> Nat] /\ \A l \in Lock : tally[l] = a.paid[l] + IF l \in P THEN 1 ELSE 0
  <2>1. a.paid \in [Lock -> Nat]
    BY DEF BlockState
  <2>2. \A l : Cardinality({i \in DOMAIN o.paid : o.paid[i] = l}) = IF l \in P THEN 1 ELSE 0
    <3>1. IsInjective(s.paid)
      BY <1>4 DEF SettledAs
    <3>2. PICK q \in Seq(Lock) : q = s.paid /\ q = o.paid
      BY <1>4, <1>5
    <3>3. \A l : Cardinality({i \in DOMAIN q : q[i] = l}) = IF l \in ToSet(q) THEN 1 ELSE 0
      BY <3>1, <3>2, OncePaid
    <3> QED
      BY <3>2, <3>3
  <2> HIDE DEF P
  <2>3. \A l \in Lock : a.paid[l] \in Nat
    BY <2>1
  <2>4. \A l \in Lock : Cardinality({i \in DOMAIN o.paid : o.paid[i] = l}) \in Nat
    BY <2>2
  <2>5. \A l \in Lock :
          tally[l] = a.paid[l] + Cardinality({i \in DOMAIN o.paid : o.paid[i] = l})
    OBVIOUS
  <2>6. ASSUME NEW l \in Lock PROVE tally[l] \in Nat
    <3>1. PICK x \in Nat : x = a.paid[l]
      BY <2>3
    <3>2. PICK y \in Nat : y = Cardinality({i \in DOMAIN o.paid : o.paid[i] = l})
      BY <2>4
    <3>3. tally[l] = x + y
      BY <2>5, <3>1, <3>2
    <3> QED
      BY <3>3
  <2>7. DOMAIN tally = Lock /\ tally = [l \in Lock |-> tally[l]]
    OBVIOUS
  <2> HIDE DEF tally
  <2>8. tally \in [Lock -> Nat]
    BY <2>6, <2>7
  <2> QED
    BY <2>2, <2>5, <2>8
<1> HIDE DEF tally, payers, before
<1>13. /\ b.contract = d /\ b.balance = o.balance /\ b.ran = a.ran \cup {tx} /\ b.paid = tally
       /\ b.nonce = [a.nonce EXCEPT ![tx.from] = tx.nonce] /\ b.ended = a.ended \cup ends
  BY <1>7, <1>10
<1> HIDE DEF ends, N
<1>14. N \subseteq Server \X Lock \X Causes
  BY <1>6 DEF Moved
<1>15. b \in BlockState
  <2>1. o.balance \in Nat
    <3>1. PICK k \in Nat : k = s.spent /\ k <= m
      BY <1>5
    <3>2. o.balance = m - k
      BY <1>4, <3>1
    <3> QED
      BY <3>1, <3>2
  <2>2. b.nonce \in [Server -> Nat] /\ b.ran \subseteq RawTx
    BY <1>2, <1>13 DEF BlockState
  <2>3. b.ended \subseteq Server \X Lock \X Causes
    BY <1>11, <1>13, <1>14 DEF BlockState
  <2>4. b = [contract |-> b.contract, balance |-> b.balance, nonce |-> b.nonce,
             paid |-> b.paid, ran |-> b.ran, ended |-> b.ended]
    BY <1>10
  <2>5. b.contract \in {x \in Contract : Distinct(x.requests)}
    BY <1>8, <1>13
  <2> QED
    BY <1>12, <1>13, <2>1, <2>2, <2>3, <2>4, <2>5 DEF BlockState
<1>16. ASSUME NEW l \in P
       PROVE  \E A \in SUBSET Server :
                Reaches(c, Cardinality(A)) /\ \A y : y \in A <=> Sponsors(R, y, l)
  <2>1. PICK x : x \in Fated(R, fate, Len(R), "paid") /\ x.lock = l /\ Due(c, x)
    BY <1>4 DEF SettledAs
  <2>2. PICK k \in DOMAIN R : x = R[k]
    BY <1>4, <2>1 DEF Fated, Requests
  <2>3. x.sponsors \in SUBSET Server
    BY <1>4, <2>2, RequestTypes
  <2>4. \A y : y \in x.sponsors <=> Sponsors(R, y, l)
    BY <1>4, <2>1, <2>2 DEF Sponsors, Requests, Distinct
  <2> QED
    BY <2>1, <2>3, <2>4 DEF Due
<1>17. \A i \in DOMAIN s.kept : ~Due(c, s.kept[i])
  BY <1>4 DEF SettledAs, ToSet
<1> HIDE DEF P
<1>18. /\ b.contract.requests = s.kept /\ a.contract.requests = c.requests
       /\ SameContract(a.contract, b.contract) /\ b.ended = a.ended \cup N
       /\ \A l \in Lock : b.paid[l] = a.paid[l] + IF l \in P THEN 1 ELSE 0
  BY <1>1, <1>8, <1>11, <1>12, <1>13
<1>19. RanAs(a, tx, b, R, N, P)
  BY <1>1, <1>4, <1>6, <1>13, <1>16, <1>17, <1>18 DEF RanAs
<1> QED
  BY <1>15, <1>19

Refuses(a, tx, b) ==
  /\ ~Runs(a, tx) /\ tx \notin a.ran
  /\ b.contract = a.contract /\ b.balance = a.balance /\ b.nonce = a.nonce /\ b.paid = a.paid
  /\ b.ran = a.ran \cup {tx} /\ b.ended = a.ended \cup Ended(tx.from, ToSet(tx.locks), "refused")

Idles(a, tx, b) == ~Runs(a, tx) /\ tx \in a.ran /\ b = a

(* A sequence's elements have its type. *)
LEMMA ElementType ==
  ASSUME NEW S, NEW q \in Seq(S)
  PROVE  ToSet(q) \subseteq S
<1>1. PICK n \in Nat : DOMAIN q = 1 .. n /\ \A i \in 1 .. n : q[i] \in S
  OBVIOUS
<1> QED
  BY <1>1 DEF ToSet

(* A transaction of a block runs, is refused, or was here before. *)
LEMMA RunTxCases ==
  ASSUME NEW a \in BlockState, NEW tx \in RawTx, now \in Nat, NEW b, b = RunTx(a, tx)
  PROVE  /\ b \in BlockState
         /\ \/ Runs(a, tx) /\ \E R, N, P : RanAs(a, tx, b, R, N, P)
            \/ Refuses(a, tx, b)
            \/ Idles(a, tx, b)
<1>1. CASE Runs(a, tx)
  BY <1>1, RunsStep
<1>2. CASE ~Runs(a, tx) /\ tx \in a.ran
  <2>1. b = a
    BY <1>2 DEF RunTx
  <2> QED
    BY <1>2, <2>1 DEF Idles
<1>3. CASE ~Runs(a, tx) /\ tx \notin a.ran
  <2>1. PICK N : N = Ended(tx.from, ToSet(tx.locks), "refused")
    OBVIOUS
  <2>2. b = [a EXCEPT !.ran = @ \cup {tx}, !.ended = @ \cup N]
    BY <1>3, <2>1 DEF RunTx
  <2>3. Refuses(a, tx, b)
    BY <1>3, <2>1, <2>2 DEF Refuses, BlockState
  <2>4. N \subseteq Server \X Lock \X Causes
    <3>1. tx.from \in Server /\ ToSet(tx.locks) \subseteq Lock /\ "refused" \in Causes
      BY ElementType DEF RawTx, Causes
    <3> QED
      BY <2>1, <3>1 DEF Ended
  <2>5. b \in BlockState
    BY <2>2, <2>4 DEF BlockState
  <2> QED
    BY <2>3, <2>5
<1> QED
  BY <1>1, <1>2, <1>3

RunsAlong(f, a, txs) ==
  /\ f[0] = a
  /\ \A i \in 1 .. Len(txs) : f[i] = RunTx(f[i - 1], txs[i])

(* The recursion that defines RunAll. *)
LEMMA RunAllRun ==
  ASSUME NEW a \in BlockState, NEW txs \in Seq(RawTx), now \in Nat
  PROVE  \E f \in [0 .. Len(txs) -> BlockState] :
           RunAll(a, txs) = f[Len(txs)] /\ RunsAlong(f, a, txs)
<1> DEFINE S == BlockState
           n == Len(txs)
           next(x, i) == RunTx(x, txs[i])
           step == [x \in S \X (1 .. n) |-> next(x[1], x[2])]
           Is(g) == g = [i \in 0 .. n |-> IF i = 0 THEN a ELSE RunTx(g[i - 1], txs[i])]
<1>1. n \in Nat /\ a \in S
  OBVIOUS
<1>2. \A x \in S : \A i \in 1 .. n : next(x, i) \in S
  <2> SUFFICES ASSUME NEW x \in S, NEW i \in 1 .. n PROVE next(x, i) \in S
    OBVIOUS
  <2>1. txs[i] \in RawTx
    OBVIOUS
  <2> QED
    BY <2>1, RunTxCases
<1> HIDE DEF S
<1>3. step \in [S \X (1 .. n) -> S]
  <2> HIDE DEF next
  <2> QED
    BY <1>2
<1>4. \A x \in S : \A i \in 1 .. n : step[<<x, i>>] = next(x, i)
  OBVIOUS
<1> HIDE DEF step
<1>5. PICK f \in [0 .. n -> S] : Follows(f, n, a, step)
  <2> HIDE DEF n
  <2> QED
    BY <1>1, <1>3, Recursion DEF Solvable
<1>6. \A i \in 1 .. n : f[i] = next(f[i - 1], i)
  <2> SUFFICES ASSUME NEW i \in 1 .. n PROVE f[i] = next(f[i - 1], i)
    OBVIOUS
  <2>1. f[i - 1] \in S
    BY <1>1
  <2> QED
    BY <1>4, <1>5, <2>1 DEF Follows
<1>7. Is(f)
  <2> SUFFICES ASSUME NEW i \in 0 .. n, i # 0 PROVE f[i] = next(f[i - 1], i)
    BY <1>5 DEF Follows
  <2>1. i \in 1 .. n
    BY <1>1
  <2> QED
    BY <1>6, <2>1
<1>8. Is(CHOOSE g : Is(g))
  <2> HIDE DEF Is
  <2> QED
    BY <1>7
<1> DEFINE h == CHOOSE g : Is(g)
<1>9. RunAll(a, txs) = h[n]
  BY DEF RunAll
<1> HIDE DEF h
<1>10. h = [i \in 0 .. n |-> IF i = 0 THEN a ELSE RunTx(h[i - 1], txs[i])]
  BY <1>8 DEF h
<1> DEFINE Q == {i \in 0 .. n : h[i] = f[i]}
<1>11. 0 \in Q
  BY <1>1, <1>5, <1>10 DEF Follows
<1>12. ASSUME NEW i \in 1 .. n, i - 1 \in Q PROVE i \in Q
  <2>1. i \in 0 .. n /\ h[i - 1] = f[i - 1] /\ i # 0
    BY <1>12
  <2>2. h[i] = next(h[i - 1], i)
    BY <1>10, <2>1
  <2> QED
    BY <1>6, <2>1, <2>2
<1>13. Q \in SUBSET (0 .. n)
  OBVIOUS
<1>14. Q = 0 .. n
  <2> HIDE DEF Q, n
  <2> QED
    BY <1>1, <1>11, <1>12, <1>13, Along
<1>15. h[n] = f[n]
  BY <1>1, <1>14
<1> QED
  BY <1>5, <1>6, <1>9, <1>15 DEF Follows, RunsAlong, S

(* What every transaction of T keeps, a block of them keeps. *)
LEMMA BlockKeeps ==
  ASSUME NEW S \in SUBSET BlockState, NEW T \in SUBSET RawTx, now \in Nat,
         \A a \in S : \A tx \in T : RunTx(a, tx) \in S,
         NEW a \in S, NEW txs \in Seq(RawTx), ToSet(txs) \subseteq T
  PROVE  RunAll(a, txs) \in S
<1>1. PICK f \in [0 .. Len(txs) -> BlockState] :
        RunAll(a, txs) = f[Len(txs)] /\ RunsAlong(f, a, txs)
  BY RunAllRun
<1>2. PICK n \in Nat : n = Len(txs)
  OBVIOUS
<1> DEFINE Q == {i \in 0 .. n : f[i] \in S}
<1>3. 0 \in Q
  BY <1>1 DEF RunsAlong
<1>4. ASSUME NEW i \in 1 .. n, i - 1 \in Q PROVE i \in Q
  <2>1. i \in 0 .. n /\ f[i - 1] \in S /\ i \in DOMAIN txs
    BY <1>2, <1>4
  <2>2. txs[i] \in T
    BY <2>1 DEF ToSet
  <2>3. f[i] = RunTx(f[i - 1], txs[i])
    BY <1>1, <1>2 DEF RunsAlong
  <2> QED
    BY <2>1, <2>2, <2>3
<1>5. Q \in SUBSET (0 .. n)
  OBVIOUS
<1> HIDE DEF Q
<1>6. Q = 0 .. n
  BY <1>3, <1>4, <1>5, Along
<1>7. n \in Q
  BY <1>6
<1> QED
  BY <1>1, <1>2, <1>7 DEF Q

(***************************************************************************)
(* Types.  The parts of a state, each with the bounds its types rest on.   *)
(***************************************************************************)
ParserType ==
  /\ height \in 0 .. Len(setup.locks)
  /\ parser \in [Parser -> ParserState]
  /\ \A p \in Parser : /\ parser[p].block > 0
                       /\ parser[p].step # "idle" => parser[p].block <= height

SpvType == newSpv \subseteq Parser \X Server \X Lock

SoundHandler ==
  {h \in Handler : /\ h.step = "flushing" => h.destroyed < Len(h.rows)
                   /\ h.step \in {"flushed", "read"} => h.destroyed = Len(h.rows)
                   /\ h.step \in {"received", "saved"} => h.rows = << >> /\ h.destroyed = 0}

HandlerSets == {H \in SUBSET SoundHandler : IsFiniteSet(H)}

LightType ==
  /\ received \in [Server -> SUBSET Lock]
  /\ waiting \in [Server -> Seq(Lock)]
  /\ lastFlush \in [Server -> Nat]
  /\ handlers \in [Server -> HandlerSets]

PoolType == pool \in [Server -> Seq(RawTx)]

FullType == local \in [Server -> Seq(RawTx)] /\ taken \in [Server -> BOOLEAN]

(* The chain of the paying side, as one value. *)
Chain == [contract |-> contract, balance |-> balance, nonce |-> nonce, paid |-> paid,
          ran |-> ran, ended |-> ended]

ChainType == Chain \in BlockState

EventType ==
  events \in [faults : Nat, changes : Nat, overlaps : BOOLEAN, agreed : SUBSET Server]

TypeInv ==
  /\ setup \in Setups /\ now \in Nat
  /\ ParserType /\ SpvType /\ LightType /\ PoolType /\ FullType /\ ChainType /\ EventType

(* The types of the parts are the type of the whole. *)
LEMMA TypeInvType == TypeInv => TypeOK
<1> SUFFICES ASSUME TypeInv PROVE TypeOK
  OBVIOUS
<1>1. height \in Nat /\ parser \in [Parser -> ParserState]
  BY DEF TypeInv, ParserType
<1>2. DOMAIN handlers = Server /\ \A s \in Server : handlers[s] \subseteq Handler
  BY DEF TypeInv, LightType, HandlerSets, SoundHandler
<1>3. /\ contract \in Contract /\ balance \in Nat /\ nonce \in [Server -> Nat]
      /\ paid \in [Lock -> Nat] /\ ran \subseteq RawTx /\ ended \subseteq Server \X Lock \X Causes
  BY DEF TypeInv, ChainType, Chain, BlockState
<1> QED
  BY <1>1, <1>2, <1>3
     DEF TypeInv, TypeOK, SpvType, LightType, PoolType, FullType, EventType

(* What a situation is. *)
LEMMA SetupFacts ==
  ASSUME setup \in Setups
  PROVE  /\ Servers \subseteq Server /\ Parsers \subseteq Parser
         /\ setup.locks \in Seq(Lock) /\ Len(setup.locks) > 0 /\ setup.locks[1] \in Lock
         /\ setup.threshold \in 1 .. 100 /\ setup.authority \subseteq Server
         /\ setup.expireInterval \in Nat /\ setup.mints \in BOOLEAN /\ setup.guarantee \in Nat
<1>1. setup \in Setup /\ setup.locks # << >>
  BY CrossAssumption
<1>2. setup.locks \in Seq(Lock)
  BY <1>1 DEF Setup
<1>3. Len(setup.locks) > 0 /\ setup.locks[1] \in Lock
  BY <1>1, <1>2
<1> QED
  BY <1>1, <1>2, <1>3 DEF Setup, Servers, Parsers

(* The parts of the first state. *)
LEMMA InitType == Init => TypeInv
<1> SUFFICES ASSUME Init PROVE TypeInv
  OBVIOUS
<1>1. setup \in Setups /\ now \in Nat
  BY CrossAssumption DEF Init
<1>2. ParserType
  <2>1. height = 0 /\ Len(setup.locks) \in Nat
    BY <1>1, SetupFacts DEF Init
  <2>2. [block |-> 1, step |-> "idle", parsed |-> {}, sent |-> {}] \in ParserState
    BY DEF ParserState
  <2>3. parser = [p \in Parser |-> [block |-> 1, step |-> "idle", parsed |-> {}, sent |-> {}]]
    BY DEF Init
  <2> QED
    BY <2>1, <2>2, <2>3 DEF ParserType
<1>3. SpvType
  BY DEF Init, SpvType
<1>4. LightType
  <2>1. {} \in HandlerSets
    BY FS_EmptySet DEF HandlerSets
  <2> QED
    BY <2>1 DEF Init, LightType
<1>5. PoolType /\ FullType
  BY DEF Init, PoolType, FullType
<1>6. ChainType
  <2>1. Created(setup) \in Contract /\ Distinct(Created(setup).requests)
    BY <1>1, SetupFacts DEF Created, Contract, Distinct
  <2>2. setup.guarantee \in Nat
    BY <1>1, SetupFacts
  <2> QED
    BY <2>1, <2>2 DEF Init, ChainType, Chain, BlockState
<1>7. EventType
  BY DEF Init, EventType
<1> QED
  BY <1>1, <1>2, <1>3, <1>4, <1>5, <1>6, <1>7 DEF TypeInv

(* The steps of the locking chain and its parsers keep the types. *)
LEMMA ParserStepType ==
  ASSUME TypeInv, NEW p \in Parser, NEW from, NEW to \in ParserState, ParserStep(p, from, to),
         to.block > 0, to.step # "idle" => to.block <= height
  PROVE  ParserType' /\ LightType' /\ PoolType' /\ FullType' /\ ChainType' /\ EventType'
         /\ setup' \in Setups /\ now' \in Nat
<1>1. ParserType'
  <2>1. parser' = [parser EXCEPT ![p] = to] /\ setup' = setup /\ height' = height
    BY DEF ParserStep
  <2>2. parser' \in [Parser -> ParserState]
    BY <2>1 DEF TypeInv, ParserType
  <2>3. \A q \in Parser : parser'[q] = IF q = p THEN to ELSE parser[q]
    BY <2>1 DEF TypeInv, ParserType
  <2> QED
    BY <2>1, <2>2, <2>3 DEF TypeInv, ParserType
<1>2. UNCHANGED <<setup, lightVars, pool, fullVars, chainVars, ended, events>>
  BY DEF ParserStep
<1> QED
  BY <1>1, <1>2 DEF TypeInv, LightType, PoolType, FullType, ChainType, Chain, EventType,
     lightVars, fullVars, chainVars

(* Every step of a parser keeps the types. *)
LEMMA ParsersType ==
  ASSUME TypeInv, NEW p \in Parsers,
         \/ ParseTransactions(p) \/ SaveSendedSpv(p) \/ SendSpv(p)
         \/ SaveBlockNumber(p) \/ ParserCrash(p)
  PROVE  TypeInv'
<1>1. PICK x \in ParserState : /\ x = parser[p] /\ x.block > 0 /\ height \in Nat
                               /\ (x.step # "idle" => x.block <= height)
                               /\ height <= Len(setup.locks)
  <2>1. p \in Parser /\ setup.locks \in Seq(Lock)
    BY SetupFacts DEF TypeInv
  <2> QED
    BY <2>1 DEF TypeInv, ParserType
<1>2. p \in Parser /\ Servers \subseteq Server /\ setup.locks \in Seq(Lock)
  BY SetupFacts DEF TypeInv
<1>3. x \in ParserState /\ x.block \in Nat /\ x.parsed \in SUBSET Lock /\ x.sent \in SUBSET Lock
  BY DEF ParserState
<1>4. ASSUME x.block <= height PROVE Parsing(p) \in Lock
  BY <1>1, <1>2, <1>3, <1>4 DEF Parsing
<1>5. ASSUME NEW to \in ParserState, NEW from, ParserStep(p, from, to),
             to.block > 0, to.step # "idle" => to.block <= height, SpvType'
      PROVE  TypeInv'
  BY <1>2, <1>5, ParserStepType DEF TypeInv
<1>6. CASE ParseTransactions(p)
  <2> DEFINE to == [x EXCEPT !.step = "parsed", !.parsed = @ \cup {Parsing(p)}]
  <2>1. x.block <= height /\ ParserStep(p, "idle", to) /\ UNCHANGED newSpv
    BY <1>1, <1>6 DEF ParseTransactions
  <2>2. Parsing(p) \in Lock
    BY <1>4, <2>1
  <2>3. to \in ParserState /\ to.block = x.block
    BY <1>3, <2>2 DEF ParserState
  <2>4. SpvType'
    BY <2>1 DEF TypeInv, SpvType
  <2> HIDE DEF to
  <2> QED
    BY <1>1, <1>5, <2>1, <2>3, <2>4
<1>7. CASE SaveSendedSpv(p)
  <2> DEFINE to == [x EXCEPT !.step = IF Parsing(p) \in x.sent THEN "sent" ELSE "saved",
                             !.sent = @ \cup {Parsing(p)}]
  <2>1. ParserStep(p, "parsed", to) /\ UNCHANGED newSpv
    BY <1>1, <1>7 DEF SaveSendedSpv
  <2>2. x.block <= height
    BY <1>1, <2>1 DEF ParserStep
  <2>3. to \in ParserState /\ to.block = x.block
    BY <1>3, <1>4, <2>2 DEF ParserState
  <2>4. SpvType'
    BY <2>1 DEF TypeInv, SpvType
  <2> HIDE DEF to
  <2> QED
    BY <1>1, <1>5, <2>1, <2>2, <2>3, <2>4
<1>8. CASE SendSpv(p)
  <2> DEFINE to == [x EXCEPT !.step = "sent"]
  <2>1. ParserStep(p, "saved", to) /\ newSpv' = newSpv \cup ({p} \X Servers \X {Parsing(p)})
    BY <1>1, <1>8 DEF SendSpv
  <2>2. x.block <= height
    BY <1>1, <2>1 DEF ParserStep
  <2>3. to \in ParserState /\ to.block = x.block
    BY <1>3 DEF ParserState
  <2>4. SpvType'
    BY <1>2, <1>4, <2>1, <2>2 DEF TypeInv, SpvType
  <2> HIDE DEF to
  <2> QED
    BY <1>1, <1>5, <2>1, <2>2, <2>3, <2>4
<1>9. CASE SaveBlockNumber(p)
  <2> DEFINE to == [x EXCEPT !.step = "idle", !.block = @ + 1]
  <2>1. ParserStep(p, "sent", to) /\ UNCHANGED newSpv
    BY <1>1, <1>9 DEF SaveBlockNumber
  <2>2. PICK n \in Nat \ {0} : n = x.block + 1
    BY <1>3 DEF ParserState
  <2>3. to = [x EXCEPT !.step = "idle", !.block = n]
    BY <2>2
  <2>4. to \in ParserState /\ to.block = n /\ to.step = "idle"
    BY <2>3 DEF ParserState
  <2>5. SpvType'
    BY <2>1 DEF TypeInv, SpvType
  <2> HIDE DEF to
  <2> QED
    BY <1>1, <1>5, <2>1, <2>2, <2>4, <2>5
<1>10. CASE ParserCrash(p)
  <2> DEFINE to == [x EXCEPT !.step = "idle"]
  <2>1. /\ parser' = [parser EXCEPT ![p] = to] /\ Fault
        /\ UNCHANGED <<setup, height, newSpv, lightVars, pool, fullVars, chainVars, ended>>
    BY <1>1, <1>10 DEF ParserCrash
  <2>2. to \in ParserState /\ to.block > 0 /\ to.step = "idle"
    BY <1>1, <1>3 DEF ParserState
  <2> HIDE DEF to
  <2>3. parser' \in [Parser -> ParserState]
    BY <2>1, <2>2 DEF TypeInv, ParserType
  <2>4. \A q \in Parser : parser'[q] = IF q = p THEN to ELSE parser[q]
    BY <2>1 DEF TypeInv, ParserType
  <2>5. ParserType'
    BY <2>1, <2>2, <2>3, <2>4 DEF TypeInv, ParserType
  <2>6. EventType'
    BY <2>1 DEF TypeInv, EventType, Fault
  <2> QED
    BY <2>1, <2>5, <2>6 DEF TypeInv, SpvType, LightType, PoolType, FullType, ChainType, Chain,
       lightVars, fullVars, chainVars
<1> QED
  BY <1>6, <1>7, <1>8, <1>9, <1>10

(* The handlers of a server stay a finite set of sound ones. *)
LEMMA HandlersKept ==
  ASSUME NEW H \in HandlerSets, NEW h, NEW to, to = {} \/ \E g \in SoundHandler : to = {g}
  PROVE  (H \ {h}) \cup to \in HandlerSets
<1>1. IsFiniteSet(H) /\ H \subseteq SoundHandler
  BY DEF HandlerSets
<1>2. IsFiniteSet(H \ {h})
  BY <1>1, FS_RemoveElement
<1>3. IsFiniteSet(to)
  BY FS_EmptySet, FS_Singleton
<1>4. IsFiniteSet((H \ {h}) \cup to)
  BY <1>2, <1>3, FS_Union
<1> QED
  BY <1>1, <1>4 DEF HandlerSets

(* A step of a handler that leaves the notes of a type keeps the types. *)
LEMMA HandlerStepType ==
  ASSUME TypeInv, NEW s \in Server, NEW h, NEW from, NEW to,
         to = {} \/ \E g \in SoundHandler : to = {g}, HandlerStep(s, h, from, to),
         waiting' \in [Server -> Seq(Lock)], lastFlush' \in [Server -> Nat],
         PoolType', EventType'
  PROVE  TypeInv'
<1>1. /\ handlers' = [handlers EXCEPT ![s] = (@ \ {h}) \cup to]
      /\ UNCHANGED <<setup, parserVars, newSpv, received, fullVars, chainVars, ended>>
  BY DEF HandlerStep
<1>2. handlers' \in [Server -> HandlerSets]
  <2>1. handlers \in [Server -> HandlerSets]
    BY DEF TypeInv, LightType
  <2>2. (handlers[s] \ {h}) \cup to \in HandlerSets
    BY <2>1, HandlersKept
  <2> QED
    BY <1>1, <2>1, <2>2
<1>3. LightType'
  BY <1>1, <1>2 DEF TypeInv, LightType
<1> QED
  BY <1>1, <1>3 DEF TypeInv, ParserType, SpvType, FullType, ChainType, Chain,
     parserVars, fullVars, chainVars

(* The parts of a handler. *)
LEMMA HandlerParts ==
  ASSUME NEW H \in HandlerSets, NEW h \in H
  PROVE  /\ h \in SoundHandler /\ h.lock \in Lock /\ h.rows \in Seq(Lock)
         /\ h.destroyed \in Nat /\ h.nonce \in Nat /\ Len(h.rows) \in Nat
         /\ h.destroyed <= Len(h.rows)
         /\ h.step \in {"received", "saved", "flushing", "flushed", "read"}
         /\ h = [lock |-> h.lock, step |-> h.step, rows |-> h.rows, destroyed |-> h.destroyed,
                 nonce |-> h.nonce]
         /\ h.step = "flushing" => h.destroyed < Len(h.rows)
         /\ h.step \in {"flushed", "read"} => h.destroyed = Len(h.rows)
         /\ h.step \in {"received", "saved"} => h.rows = << >> /\ h.destroyed = 0
<1>1. h \in SoundHandler /\ h \in Handler
  BY DEF HandlerSets, SoundHandler
<1>2. h.rows \in Seq(Lock) /\ h.destroyed \in Nat /\ Len(h.rows) \in Nat
  BY <1>1 DEF Handler
<1>3. h.destroyed <= Len(h.rows)
  BY <1>1, <1>2 DEF SoundHandler, Handler
<1> QED
  BY <1>1, <1>2, <1>3 DEF SoundHandler, Handler

(* What the steps of a handler make of it. *)
Became(g, lock, step, rows, destroyed, n) ==
  /\ g \in Handler
  /\ g.lock = lock /\ g.step = step /\ g.rows = rows /\ g.destroyed = destroyed /\ g.nonce = n

Steps == {"received", "saved", "flushing", "flushed", "read"}

(* A handler begins with an empty record.                                 *)
LEMMA HandlerRecord ==
  ASSUME NEW lock \in Lock, NEW g,
         g = [lock |-> lock, step |-> "received", rows |-> << >>, destroyed |-> 0, nonce |-> 0]
  PROVE  Became(g, lock, "received", << >>, 0, 0)
<1>1. g \in Handler /\ g.step = "received" /\ g.rows = << >> /\ g.destroyed = 0 /\ g.lock = lock
      /\ g.nonce = 0
  BY DEF Handler
<1> QED
  BY <1>1 DEF Became

(* newSpv starts a handler for its lock.                                  *)
LEMMA HandlerStarts ==
  ASSUME NEW x \in Lock, NEW lock \in Lock, NEW h,
         h = [lock |-> x, step |-> "saved", rows |-> << >>, destroyed |-> 0, nonce |-> 0],
         NEW g, g = [h EXCEPT !.lock = lock, !.step = "received"]
  PROVE  Became(g, lock, "received", << >>, 0, 0)
<1>1. g = [lock |-> lock, step |-> "received", rows |-> << >>, destroyed |-> 0, nonce |-> 0]
  OBVIOUS
<1> QED
  BY <1>1, HandlerRecord

(* A handler that saves its lock changes its step only.                   *)
LEMMA HandlerSaves ==
  ASSUME NEW h \in Handler, NEW g, g = [h EXCEPT !.step = "saved"]
  PROVE  Became(g, h.lock, "saved", h.rows, h.destroyed, h.nonce)
  BY DEF Handler, Became

(* A handler that flushes takes the rows it read.                         *)
LEMMA HandlerFlushes ==
  ASSUME NEW h \in Handler, NEW rows \in Seq(Lock),
         NEW g, g = [h EXCEPT !.step = "flushing", !.rows = rows]
  PROVE  Became(g, h.lock, "flushing", rows, h.destroyed, h.nonce)
  BY DEF Handler, Became

(* A handler that deletes a row counts it.                                *)
LEMMA HandlerDestroys ==
  ASSUME NEW h \in Handler, NEW d \in Nat, NEW step \in Steps,
         NEW g, g = [h EXCEPT !.destroyed = d, !.step = step]
  PROVE  Became(g, h.lock, step, h.rows, d, h.nonce)
  BY DEF Handler, Became, Steps

(* After the last row it has flushed all.                                 *)
LEMMA HandlerDestroysRow ==
  ASSUME NEW h \in Handler, h.step = "flushing",
         NEW step, step = IF h.destroyed + 1 = Len(h.rows) THEN "flushed" ELSE h.step,
         NEW g, g = [h EXCEPT !.destroyed = h.destroyed + 1, !.step = step]
  PROVE  Became(g, h.lock, step, h.rows, h.destroyed + 1, h.nonce)
<1>1. PICK d \in Nat : d = h.destroyed + 1
  BY DEF Handler
<1>2. step \in Steps
  BY DEF Steps
<1> QED
  BY <1>1, <1>2, HandlerDestroys

(* ReadAccount: it takes the account's next nonce.                        *)
LEMMA HandlerReadsNonce ==
  ASSUME NEW h \in Handler, NEW s, nonce[s] \in Nat,
         NEW g, g = [h EXCEPT !.step = "read", !.nonce = nonce[s] + 1]
  PROVE  Became(g, h.lock, "read", h.rows, h.destroyed, nonce[s] + 1)
<1>1. PICK n \in Nat : n = nonce[s] + 1
  OBVIOUS
<1>2. Became(g, h.lock, "read", h.rows, h.destroyed, n)
  BY <1>1 DEF Handler, Became
<1> QED
  BY <1>1, <1>2

(* A part of a sequence has some of its elements. *)
Prefix(q, k, r) ==
  /\ Len(r) = k /\ \A i \in 1 .. k : r[i] = q[i]
  /\ \A x : x \in ToSet(r) <=> \E i \in 1 .. k : x = q[i]
  /\ ToSet(r) \subseteq ToSet(q)

(* SubSeq from the first element gives such a part.                       *)
LEMMA PrefixSet ==
  ASSUME NEW S, NEW q \in Seq(S), NEW k \in Nat, k <= Len(q), NEW r, r = SubSeq(q, 1, k)
  PROVE  r \in Seq(S) /\ Prefix(q, k, r)
<1>1. r \in Seq(S) /\ Len(r) = k /\ \A i \in 1 .. k : r[i] = q[i]
  OBVIOUS
<1>2. DOMAIN r = 1 .. k
  BY <1>1
<1>3. \A x : x \in ToSet(r) <=> \E i \in 1 .. k : x = q[i]
  BY <1>1, <1>2 DEF ToSet
<1>4. 1 .. k \subseteq DOMAIN q
  OBVIOUS
<1> QED
  BY <1>1, <1>3, <1>4 DEF ToSet, Prefix

(* What is left of a table. *)
LEMMA WithoutSet ==
  ASSUME NEW S, NEW q \in Seq(S), NEW T, NEW r, r = Without(q, T)
  PROVE  ToSet(r) = ToSet(q) \ T
<1>1. r \in Seq(S) /\ \E e : Kept(e, q, T, Len(q), r)
  BY WithoutKept
<1>2. PICK e : Kept(e, q, T, Len(q), r)
  BY <1>1
<1>3. PICK m \in Nat, n \in Nat : m = Len(r) /\ n = Len(q) /\ DOMAIN r = 1 .. m /\ DOMAIN q = 1 .. n
  BY <1>1
<1>4. \A j \in 1 .. m : e[j] \in 1 .. n /\ r[j] = q[e[j]] /\ q[e[j]] \notin T
  BY <1>2, <1>3 DEF Kept
<1>5. \A k \in 1 .. n : q[k] \notin T => \E j \in 1 .. m : e[j] = k
  BY <1>2, <1>3 DEF Kept
<1>6. ASSUME NEW x \in ToSet(r) PROVE x \in ToSet(q) /\ x \notin T
  <2>1. PICK j \in 1 .. m : r[j] = x
    BY <1>3, <1>6 DEF ToSet
  <2>2. PICK k \in 1 .. n : k = e[j] /\ q[k] = x /\ x \notin T
    BY <1>4, <2>1
  <2> QED
    BY <1>3, <2>2 DEF ToSet
<1>7. ASSUME NEW x \in ToSet(q), x \notin T PROVE x \in ToSet(r)
  <2>1. PICK k \in 1 .. n : q[k] = x
    BY <1>3, <1>7 DEF ToSet
  <2>2. PICK j \in 1 .. m : e[j] = k
    BY <1>5, <1>7, <2>1
  <2>3. r[j] = x
    BY <1>4, <2>1, <2>2
  <2> QED
    BY <1>3, <2>3 DEF ToSet
<1> QED
  BY <1>6, <1>7

(* A handler that reads its account takes a nonce.                        *)
LEMMA HandlerReads ==
  ASSUME NEW h \in Handler, NEW n \in Nat, NEW g, g = [h EXCEPT !.step = "read", !.nonce = n]
  PROVE  Became(g, h.lock, "read", h.rows, h.destroyed, n)
  BY DEF Handler, Became

(* What a flush reads: the first rows of the table. *)
LEMMA FirstRows ==
  ASSUME NEW S, NEW q \in Seq(S), NEW n \in Nat, NEW rows,
         rows = SubSeq(q, 1, IF Len(q) < n THEN Len(q) ELSE n)
  PROVE  /\ rows \in Seq(S) /\ Len(rows) \in Nat /\ (rows # << >> => Len(rows) > 0)
         /\ Len(rows) <= Len(q) /\ \A i \in 1 .. Len(rows) : rows[i] = q[i]
<1> DEFINE k == IF Len(q) < n THEN Len(q) ELSE n
<1>1. k \in Nat /\ k <= Len(q) /\ rows = SubSeq(q, 1, k)
  OBVIOUS
<1> HIDE DEF k
<1>2. rows \in Seq(S) /\ Len(rows) = k /\ \A i \in 1 .. k : rows[i] = q[i]
  BY <1>1
<1> QED
  BY <1>1, <1>2

(* The steps of the light server's handlers keep the types. *)
LEMMA HandlersType ==
  ASSUME TypeInv, NEW s \in Servers, NEW h \in handlers[s],
         \/ SaveWaitingCrossPay(s, h) \/ LeaveWaiting(s, h) \/ GetWaitingCrossPay(s, h)
         \/ DestroyRow(s, h) \/ ReadAccount(s, h) \/ SaveRawTransaction(s, h)
  PROVE  TypeInv'
<1>1. s \in Server
  BY SetupFacts DEF TypeInv
<1>2. /\ handlers[s] \in HandlerSets
      /\ waiting \in [Server -> Seq(Lock)] /\ waiting[s] \in Seq(Lock)
      /\ lastFlush \in [Server -> Nat] /\ now \in Nat
      /\ pool \in [Server -> Seq(RawTx)] /\ pool[s] \in Seq(RawTx)
      /\ EventType /\ PoolType
  BY <1>1 DEF TypeInv, LightType, PoolType
<1>3. /\ h \in SoundHandler /\ h.lock \in Lock /\ h.rows \in Seq(Lock)
      /\ h.destroyed \in Nat /\ h.nonce \in Nat /\ Len(h.rows) \in Nat
      /\ h.step = "flushing" => h.destroyed < Len(h.rows)
      /\ h.step \in {"flushed", "read"} => h.destroyed = Len(h.rows)
      /\ h.step \in {"received", "saved"} => h.rows = << >> /\ h.destroyed = 0
  BY <1>2, HandlerParts
<1>4. h \in Handler
  BY <1>3 DEF SoundHandler
<1>5. CASE SaveWaitingCrossPay(s, h)
  <2> DEFINE g == [h EXCEPT !.step = "saved"]
  <2>1. /\ HandlerStep(s, h, "received", {g})
        /\ waiting' = [waiting EXCEPT ![s] = Append(@, h.lock)]
        /\ UNCHANGED <<lastFlush, pool, events>>
    BY <1>5 DEF SaveWaitingCrossPay
  <2>2. h.step = "received"
    BY <2>1 DEF HandlerStep
  <2>3. g \in SoundHandler
    BY <1>3, <1>4, <2>2 DEF SoundHandler, Handler
  <2>4. waiting' \in [Server -> Seq(Lock)]
    <3>1. Append(waiting[s], h.lock) \in Seq(Lock)
      BY <1>2, <1>3
    <3> QED
      BY <1>2, <2>1, <3>1
  <2>5. lastFlush' \in [Server -> Nat] /\ PoolType' /\ EventType'
    BY <1>2, <2>1 DEF PoolType, EventType
  <2> HIDE DEF g
  <2> QED
    BY <1>1, <2>1, <2>3, <2>4, <2>5, HandlerStepType
<1>6. CASE LeaveWaiting(s, h)
  <2>1. HandlerStep(s, h, "saved", {}) /\ UNCHANGED <<waiting, lastFlush, pool, events>>
    BY <1>6 DEF LeaveWaiting
  <2>2. lastFlush' \in [Server -> Nat] /\ PoolType' /\ EventType'
        /\ waiting' \in [Server -> Seq(Lock)]
    BY <1>2, <2>1 DEF PoolType, EventType
  <2> QED
    BY <1>1, <2>1, <2>2, HandlerStepType
<1>7. CASE GetWaitingCrossPay(s, h)
  <2>1. PICK rows : rows = SubSeq(waiting[s], 1, IF Len(waiting[s]) < FlushLimit
                                                 THEN Len(waiting[s]) ELSE FlushLimit)
    OBVIOUS
  <2>2. PICK to : to = IF rows = << >> THEN {} ELSE {[h EXCEPT !.step = "flushing", !.rows = rows]}
    OBVIOUS
  <2>3. /\ HandlerStep(s, h, "saved", to) /\ lastFlush' = [lastFlush EXCEPT ![s] = now]
        /\ \E o \in BOOLEAN : events' = [events EXCEPT !.overlaps = o]
        /\ UNCHANGED <<waiting, pool>>
    <3>1. events.overlaps \in BOOLEAN
      BY <1>2 DEF EventType
    <3> QED
      BY <1>7, <2>1, <2>2, <3>1 DEF GetWaitingCrossPay
  <2>4. rows \in Seq(Lock) /\ (rows # << >> => Len(rows) > 0)
    BY <1>2, <2>1, CrossAssumption, FirstRows
  <2>5. h.step = "saved"
    BY <2>3 DEF HandlerStep
  <2>6. to = {} \/ \E g \in SoundHandler : to = {g}
    <3> SUFFICES ASSUME rows # << >> PROVE \E g \in SoundHandler : to = {g}
      BY <2>2
    <3> DEFINE g == [h EXCEPT !.step = "flushing", !.rows = rows]
    <3>1. g \in SoundHandler
      <4>1. g \in Handler /\ g.step = "flushing" /\ g.rows = rows /\ g.destroyed = 0
        BY <1>3, <1>4, <2>4, <2>5 DEF Handler
      <4>2. 0 < Len(g.rows)
        BY <2>4, <4>1
      <4> QED
        BY <4>1, <4>2 DEF SoundHandler
    <3> QED
      BY <2>2, <3>1
  <2>7. PoolType' /\ EventType' /\ waiting' \in [Server -> Seq(Lock)]
        /\ lastFlush' \in [Server -> Nat]
    BY <1>2, <2>3 DEF PoolType, EventType
  <2> QED
    BY <1>1, <2>3, <2>6, <2>7, HandlerStepType
<1>8. CASE DestroyRow(s, h)
  <2> DEFINE g == [h EXCEPT !.destroyed = @ + 1,
                            !.step = IF h.destroyed + 1 = Len(h.rows) THEN "flushed" ELSE h.step]
             row == h.rows[h.destroyed + 1]
  <2>1. /\ HandlerStep(s, h, "flushing", {g})
        /\ waiting' = [waiting EXCEPT ![s] = Without(@, {row})]
        /\ UNCHANGED <<lastFlush, pool, events>>
    BY <1>8 DEF DestroyRow
  <2>2. h.step = "flushing"
    BY <2>1 DEF HandlerStep
  <2>3. g \in SoundHandler
    <3>1. PICK d \in Nat : d = h.destroyed + 1
      BY <1>3
    <3>2. PICK step \in Steps : step = IF h.destroyed + 1 = Len(h.rows) THEN "flushed" ELSE h.step
      BY <2>2 DEF Steps
    <3>3. Became(g, h.lock, step, h.rows, d, h.nonce)
      BY <1>4, <3>1, <3>2, HandlerDestroys
    <3> HIDE DEF g
    <3>4. g \in Handler /\ g.step = step /\ g.rows = h.rows /\ g.destroyed = d
      BY <3>3 DEF Became
    <3>5. d <= Len(h.rows) /\ (step = "flushed" => d = Len(h.rows))
          /\ (step = "flushing" => d < Len(h.rows)) /\ step \in {"flushed", "flushing"}
      BY <1>3, <2>2, <3>1, <3>2
    <3> QED
      BY <3>4, <3>5 DEF SoundHandler
  <2>4. waiting' \in [Server -> Seq(Lock)]
    <3>1. Without(waiting[s], {row}) \in Seq(Lock)
      BY <1>2, WithoutKept
    <3> QED
      BY <1>2, <2>1, <3>1
  <2>5. lastFlush' \in [Server -> Nat] /\ PoolType' /\ EventType'
    BY <1>2, <2>1 DEF PoolType, EventType
  <2> HIDE DEF g
  <2> QED
    BY <1>1, <2>1, <2>3, <2>4, <2>5, HandlerStepType
<1>9. CASE ReadAccount(s, h)
  <2> DEFINE g == [h EXCEPT !.step = "read", !.nonce = nonce[s] + 1]
  <2>1. HandlerStep(s, h, "flushed", {g}) /\ UNCHANGED <<waiting, lastFlush, pool, events>>
    BY <1>9 DEF ReadAccount
  <2>2. h.step = "flushed"
    BY <2>1 DEF HandlerStep
  <2>3. nonce[s] \in Nat
    BY <1>1 DEF TypeInv, ChainType, Chain, BlockState
  <2>4. g \in SoundHandler
    <3>1. PICK n \in Nat : n = nonce[s] + 1
      BY <2>3
    <3>2. Became(g, h.lock, "read", h.rows, h.destroyed, n)
      BY <1>4, <3>1, HandlerReads
    <3> QED
      BY <1>3, <2>2, <3>2 DEF SoundHandler, Became
  <2>5. lastFlush' \in [Server -> Nat] /\ PoolType' /\ EventType'
        /\ waiting' \in [Server -> Seq(Lock)]
    BY <1>2, <2>1 DEF PoolType, EventType
  <2> HIDE DEF g
  <2> QED
    BY <1>1, <2>1, <2>4, <2>5, HandlerStepType
<1>10. CASE SaveRawTransaction(s, h)
  <2> DEFINE tx == [from |-> s, nonce |-> h.nonce, locks |-> h.rows]
  <2>1. /\ HandlerStep(s, h, "read", {}) /\ pool' = [pool EXCEPT ![s] = Append(@, tx)]
        /\ UNCHANGED <<waiting, lastFlush, events>>
    BY <1>10 DEF SaveRawTransaction
  <2>2. tx \in RawTx
    BY <1>1, <1>3 DEF RawTx
  <2> HIDE DEF tx
  <2>3. PoolType'
    <3>1. Append(pool[s], tx) \in Seq(RawTx)
      BY <1>2, <2>2
    <3> QED
      BY <1>2, <2>1, <3>1 DEF PoolType
  <2>4. lastFlush' \in [Server -> Nat] /\ EventType' /\ waiting' \in [Server -> Seq(Lock)]
    BY <1>2, <2>1 DEF EventType
  <2> QED
    BY <1>1, <2>1, <2>3, <2>4, HandlerStepType
<1> QED
  BY <1>5, <1>6, <1>7, <1>8, <1>9, <1>10

(* A message that arrives, or is lost, keeps the types. *)
LEMMA MessagesType ==
  ASSUME TypeInv, NEW m \in newSpv, NewSpv(m) \/ Lose(m)
  PROVE  TypeInv'
<1>1. CASE Lose(m)
  <2>1. /\ Fault /\ newSpv' = newSpv \ {m}
        /\ UNCHANGED <<setup, parserVars, lightVars, pool, fullVars, chainVars, ended>>
    BY <1>1 DEF Lose
  <2>2. EventType'
    BY <2>1 DEF TypeInv, EventType, Fault
  <2>3. SpvType' /\ ParserType'
    BY <2>1 DEF TypeInv, SpvType, ParserType, parserVars
  <2> QED
    BY <2>1, <2>2, <2>3 DEF TypeInv, LightType, PoolType, FullType, ChainType, Chain,
       lightVars, fullVars, chainVars
<1>2. CASE NewSpv(m)
  <2>1. PICK s \in Server, lock \in Lock : s = m[2] /\ lock = m[3]
    BY DEF TypeInv, SpvType
  <2>2. /\ newSpv' = newSpv \ {m}
        /\ \/ /\ received' = [received EXCEPT ![s] = @ \cup {lock}]
              /\ handlers' = [handlers EXCEPT ![s] =
                                @ \cup {[Idle EXCEPT !.lock = lock, !.step = "received"]}]
           \/ UNCHANGED <<received, handlers>>
        /\ UNCHANGED <<setup, parserVars, waiting, lastFlush, pool, fullVars, chainVars, ended,
                       events>>
    BY <1>2, <2>1 DEF NewSpv
  <2>3. received \in [Server -> SUBSET Lock] /\ handlers \in [Server -> HandlerSets]
    BY DEF TypeInv, LightType
  <2>4. received' \in [Server -> SUBSET Lock] /\ handlers' \in [Server -> HandlerSets]
    <3>1. CASE UNCHANGED <<received, handlers>>
      BY <2>3, <3>1
    <3>2. ASSUME received' = [received EXCEPT ![s] = @ \cup {lock}],
                 handlers' = [handlers EXCEPT ![s] =
                                @ \cup {[Idle EXCEPT !.lock = lock, !.step = "received"]}]
          PROVE  received' \in [Server -> SUBSET Lock] /\ handlers' \in [Server -> HandlerSets]
      <4> DEFINE h == [Idle EXCEPT !.lock = lock, !.step = "received"]
      <4>1. h \in SoundHandler
        <5>1. setup.locks[1] \in Lock
          BY SetupFacts DEF TypeInv
        <5>2. Became(h, lock, "received", << >>, 0, 0)
          BY <5>1, HandlerStarts DEF Idle
        <5> HIDE DEF h
        <5> QED
          BY <5>2 DEF SoundHandler, Became
      <4>2. handlers' = [handlers EXCEPT ![s] = @ \cup {h}]
        BY <3>2
      <4> HIDE DEF h
      <4>3. handlers[s] \cup {h} \in HandlerSets
        BY <2>3, <4>1, FS_AddElement DEF HandlerSets
      <4> QED
        BY <2>3, <3>2, <4>2, <4>3
    <3> QED
      BY <2>2, <3>1, <3>2
  <2> QED
    BY <2>2, <2>4 DEF TypeInv, ParserType, SpvType, LightType, PoolType, FullType, ChainType,
       Chain, EventType, parserVars, lightVars, fullVars, chainVars
<1> QED
  BY <1>1, <1>2

(* Handlers K of server s end with the rows they hold: a flush that fails, *)
(* or a crash of the light server.                                         *)
EndsWith(s, K) ==
  /\ Fault
  /\ handlers' = [handlers EXCEPT ![s] = @ \ K]
  /\ \E t \in [Server -> Nat] : lastFlush' = t
  /\ ended' = ended \cup Ended(s, UNION {Held(s, h) : h \in K}, "crashed")
  /\ UNCHANGED <<setup, parserVars, newSpv, received, waiting, pool, fullVars, chainVars>>

(* Both are so.                                                            *)
LEMMA HandlersEnd ==
  ASSUME TypeInv, NEW s \in Servers, FlushFails(s) \/ LightServerCrash(s)
  PROVE  \E K \in SUBSET handlers[s] : EndsWith(s, K)
<1>1. s \in Server
  BY SetupFacts DEF TypeInv
<1>2. lastFlush \in [Server -> Nat] /\ handlers \in [Server -> HandlerSets]
  BY DEF TypeInv, LightType
<1>3. CASE FlushFails(s)
  <2>1. PICK h \in handlers[s] :
          /\ Fault
          /\ handlers' = [handlers EXCEPT ![s] = @ \ {h}]
          /\ ended' = ended \cup Ended(s, Held(s, h), "crashed")
          /\ UNCHANGED <<setup, parserVars, newSpv, received, waiting, lastFlush, pool, fullVars,
                         chainVars>>
    BY <1>3 DEF FlushFails
  <2>2. UNION {Held(s, g) : g \in {h}} = Held(s, h)
    OBVIOUS
  <2>3. EndsWith(s, {h})
    BY <1>2, <2>1, <2>2 DEF EndsWith
  <2> QED
    BY <2>3
<1>4. CASE LightServerCrash(s)
  <2>1. /\ Fault /\ handlers' = [handlers EXCEPT ![s] = {}]
        /\ lastFlush' = [lastFlush EXCEPT ![s] = 0]
        /\ ended' = ended \cup Ended(s, UNION {Held(s, h) : h \in handlers[s]}, "crashed")
        /\ UNCHANGED <<setup, parserVars, newSpv, received, waiting, pool, fullVars, chainVars>>
    BY <1>4 DEF LightServerCrash
  <2>2. handlers[s] \ handlers[s] = {} /\ lastFlush' \in [Server -> Nat]
    BY <1>1, <1>2, <2>1
  <2>3. handlers' = [handlers EXCEPT ![s] = @ \ handlers[s]]
    BY <2>1, <2>2
  <2>4. EndsWith(s, handlers[s])
    BY <2>1, <2>2, <2>3 DEF EndsWith
  <2> QED
    BY <2>4
<1> QED
  BY <1>3, <1>4

(* The steps of the full server, and crashes, keep the types.             *)
LEMMA ServersType ==
  ASSUME TypeInv, NEW s \in Servers,
         \/ GetRawTransactions(s) \/ DeleteTransactions(s)
         \/ FlushFails(s) \/ LightServerCrash(s) \/ FullServerCrash(s)
  PROVE  TypeInv'
<1>1. s \in Server
  BY SetupFacts DEF TypeInv
<1>2. /\ pool \in [Server -> Seq(RawTx)] /\ pool[s] \in Seq(RawTx)
      /\ local \in [Server -> Seq(RawTx)] /\ taken \in [Server -> BOOLEAN]
      /\ << >> \in Seq(RawTx)
  BY <1>1 DEF TypeInv, PoolType, FullType
<1>3. CASE GetRawTransactions(s)
  <2>1. FullType'
    BY <1>2, <1>3 DEF GetRawTransactions, FullType
  <2> QED
    BY <1>3, <2>1 DEF GetRawTransactions, TypeInv, ParserType, SpvType, LightType, PoolType,
       ChainType, Chain, EventType, parserVars, lightVars, chainVars
<1>4. CASE DeleteTransactions(s)
  <2>1. Without(pool[s], ToSet(local[s])) \in Seq(RawTx)
    BY <1>2, WithoutKept
  <2>2. FullType' /\ PoolType'
    BY <1>2, <1>4, <2>1 DEF DeleteTransactions, FullType, PoolType
  <2> QED
    BY <1>4, <2>2 DEF DeleteTransactions, TypeInv, ParserType, SpvType, LightType, ChainType, Chain,
       EventType, parserVars, lightVars, chainVars
<1>5. CASE FullServerCrash(s)
  <2>1. FullType'
    BY <1>2, <1>5 DEF FullServerCrash, FullType
  <2>2. EventType'
    BY <1>5 DEF FullServerCrash, Fault, TypeInv, EventType
  <2> QED
    BY <1>5, <2>1, <2>2 DEF FullServerCrash, TypeInv, ParserType, SpvType, LightType, PoolType,
       ChainType, Chain, parserVars, lightVars, chainVars
<1>6. ASSUME NEW K \in SUBSET handlers[s], EndsWith(s, K) PROVE TypeInv'
  <2>1. /\ handlers' = [handlers EXCEPT ![s] = @ \ K] /\ lastFlush' \in [Server -> Nat]
        /\ ended' = ended \cup Ended(s, UNION {Held(s, h) : h \in K}, "crashed")
        /\ Fault
        /\ UNCHANGED <<setup, parserVars, newSpv, received, waiting, pool, fullVars, chainVars>>
    BY <1>6 DEF EndsWith
  <2>2. LightType'
    <3>1. handlers[s] \in HandlerSets
      BY <1>1 DEF TypeInv, LightType
    <3>2. handlers[s] \ K \in HandlerSets
      BY <3>1, FS_Difference DEF HandlerSets
    <3> QED
      BY <2>1, <3>2 DEF TypeInv, LightType
  <2>3. ChainType'
    <3>1. handlers[s] \in HandlerSets
      BY <1>1 DEF TypeInv, LightType
    <3>2. ASSUME NEW h \in K PROVE Held(s, h) \subseteq Lock
      <4>1. h.lock \in Lock /\ h.rows \in Seq(Lock) /\ h.destroyed \in Nat
            /\ h.destroyed <= Len(h.rows)
        BY <3>1, HandlerParts
      <4>2. SubSeq(h.rows, 1, h.destroyed) \in Seq(Lock)
        BY <4>1
      <4>3. ToSet(SubSeq(h.rows, 1, h.destroyed)) \subseteq Lock
        BY <4>2, ElementType
      <4> QED
        BY <4>1, <4>3 DEF Held
    <3>3. Ended(s, UNION {Held(s, h) : h \in K}, "crashed")
            \subseteq Server \X Lock \X Causes
      BY <1>1, <3>2 DEF Ended, Causes
    <3> QED
      BY <2>1, <3>3 DEF TypeInv, ChainType, Chain, BlockState, chainVars
  <2>4. EventType'
    BY <2>1 DEF TypeInv, EventType, Fault
  <2> QED
    BY <2>1, <2>2, <2>3, <2>4 DEF TypeInv, ParserType, SpvType, PoolType, FullType,
       parserVars, fullVars, chainVars
<1> QED
  BY <1>3, <1>4, <1>5, <1>6, HandlersEnd

(* The transactions of a block are those its servers hold. *)
InBlock(order, txs) ==
  \A x : x \in ToSet(txs) <=> \E s \in ToSet(order) : x \in ToSet(local[s])

(* A block is a sequence of transactions of its servers.                  *)
LEMMA BlockTransactions ==
  ASSUME TypeInv, NEW order \in Orders, NEW txs,
         txs = FlattenSeq([i \in DOMAIN order |-> local[order[i]]])
  PROVE  /\ txs \in Seq(RawTx) /\ InBlock(order, txs)
         /\ ToSet(order) \subseteq Servers /\ IsInjective(order)
<1>1. IsFiniteSet(Servers) /\ Servers \subseteq Server
  BY SetupFacts, CrossAssumption, FS_Subset DEF TypeInv
<1>2. Cardinality(Servers) \in Nat
  BY <1>1, FS_CardinalityType
<1>3. PICK n \in 1 .. Cardinality(Servers) : order \in [1 .. n -> Servers] /\ IsInjective(order)
  BY DEF Orders
<1>4. n \in Nat /\ n > 0
  BY <1>2
<1>5. PICK q : q = [i \in 1 .. n |-> local[order[i]]]
  OBVIOUS
<1>6. local \in [Server -> Seq(RawTx)]
  BY DEF TypeInv, FullType
<1>7. q \in [1 .. n -> Seq(RawTx)] /\ \A i \in 1 .. n : q[i] = local[order[i]]
  BY <1>1, <1>3, <1>5, <1>6
<1>8. q \in Seq(Seq(RawTx)) /\ Len(q) = n
  BY <1>4, <1>7
<1>9. txs = FlattenSeq(q)
  BY <1>3, <1>5
<1>10. txs \in Seq(RawTx) /\ Flattened(q, txs)
  BY <1>4, <1>8, <1>9, FlattenedSet
<1>11. ToSet(order) = {order[i] : i \in 1 .. n}
  BY <1>3 DEF ToSet
<1>12. InBlock(order, txs)
  <2> SUFFICES ASSUME NEW x
               PROVE  x \in ToSet(txs) <=> \E s \in ToSet(order) : x \in ToSet(local[s])
    BY DEF InBlock
  <2>1. x \in ToSet(txs) <=> \E i \in 1 .. n : x \in ToSet(q[i])
    BY <1>8, <1>10 DEF Flattened
  <2>2. \A i \in 1 .. n : ToSet(q[i]) = ToSet(local[order[i]])
    BY <1>7
  <2> QED
    BY <1>11, <2>1, <2>2
<1> QED
  BY <1>3, <1>10, <1>11, <1>12

(* A block takes the chain where its transactions, in turn, take it. *)
LEMMA BlockChain ==
  ASSUME TypeInv, NEW order \in Orders, ProcessBlock(order)
  PROVE  \E txs \in Seq(RawTx) :
           /\ InBlock(order, txs) /\ Chain' = RunAll(Chain, txs) /\ Chain' \in BlockState
           /\ ToSet(order) \subseteq Servers
<1>1. PICK txs : txs = FlattenSeq([i \in DOMAIN order |-> local[order[i]]])
  OBVIOUS
<1>2. txs \in Seq(RawTx) /\ InBlock(order, txs) /\ ToSet(order) \subseteq Servers
  BY <1>1, BlockTransactions
<1>3. PICK after : after = RunAll(Chain, txs)
  OBVIOUS
<1>4. after \in BlockState
  <2>1. \A a \in BlockState : \A tx \in RawTx : RunTx(a, tx) \in BlockState
    BY RunTxCases DEF TypeInv
  <2>2. Chain \in BlockState /\ now \in Nat
    BY DEF TypeInv, ChainType
  <2>3. ToSet(txs) \subseteq RawTx
    BY <1>2, ElementType
  <2> QED
    BY <1>2, <1>3, <2>1, <2>2, <2>3, BlockKeeps
<1>5. /\ contract' = after.contract /\ balance' = after.balance /\ nonce' = after.nonce
      /\ paid' = after.paid /\ ran' = after.ran /\ ended' = after.ended
  BY <1>1, <1>3 DEF ProcessBlock, Chain
<1>6. Chain' = after
  BY <1>4, <1>5 DEF Chain, BlockState
<1> QED
  BY <1>2, <1>3, <1>4, <1>6

(* Votes change a contract's authorities and what is voted on. *)
Voted(c, d) ==
  /\ d \in Contract
  /\ d.requests = c.requests /\ d.threshold = c.threshold /\ d.mints = c.mints

(* The agreements are counted: among the authorities, those in agreed, and *)
(* only who reaches the threshold changes the authorities.                 *)
Counted(c, d, agreed) ==
  /\ d.agree \subseteq agreed \cap d.authority
  /\ d.authority # c.authority =>
       \E A \in SUBSET (agreed \cap c.authority) : Reaches(c, Cardinality(A))

(* An agreement changes the authorities only when it reaches the threshold. *)
LEMMA AgreedVoted ==
  ASSUME NEW c \in Contract, NEW from \in Server
  PROVE  /\ Voted(c, Agreed(c, from))
         /\ \A agreed : from \in c.authority /\ c.agree \subseteq agreed \cap c.authority
                        => Counted(c, Agreed(c, from), agreed \cup {from})
<1> DEFINE agree == c.agree \cup {from}
           m == Modified(c)
           d == [c EXCEPT !.agree = agree]
<1>1. Voted(c, m)
  <2>1. m = [c EXCEPT !.authority = m.authority] /\ m.authority \in SUBSET Server
    BY DEF Modified, Contract
  <2> HIDE DEF m
  <2> QED
    BY <2>1 DEF Voted, Contract
<1>2. Voted(c, Reset(m)) /\ Reset(m).agree = {}
  <2> HIDE DEF m
  <2> QED
    BY <1>1 DEF Voted, Reset, Contract
<1>3. Voted(c, d) /\ d.agree = agree /\ d.authority = c.authority
  BY DEF Voted, Contract
<1>4. Agreed(c, from) = IF Reaches(c, Cardinality(agree)) THEN Reset(m) ELSE d
  BY DEF Agreed
<1> HIDE DEF d, m
<1>5. ASSUME NEW agreed, from \in c.authority, c.agree \subseteq agreed \cap c.authority
      PROVE  Counted(c, Agreed(c, from), agreed \cup {from})
  <2>1. agree \in SUBSET ((agreed \cup {from}) \cap c.authority)
    BY <1>5
  <2>2. CASE Reaches(c, Cardinality(agree))
    BY <1>2, <1>4, <2>1, <2>2 DEF Counted
  <2>3. CASE ~Reaches(c, Cardinality(agree))
    BY <1>3, <1>4, <2>1, <2>3 DEF Counted
  <2> QED
    BY <2>2, <2>3
<1> QED
  BY <1>2, <1>3, <1>4, <1>5

(* A rejection changes no authorities.                                    *)
LEMMA RejectedVoted ==
  ASSUME NEW c \in Contract, NEW from \in Server
  PROVE  /\ Voted(c, Rejected(c, from))
         /\ \A agreed : c.agree \subseteq agreed \cap c.authority
                        => Counted(c, Rejected(c, from), agreed)
<1>1. Voted(c, Reset(c)) /\ Reset(c).agree = {} /\ Reset(c).authority = c.authority
  BY DEF Voted, Reset, Contract
<1> DEFINE d == [c EXCEPT !.reject = c.reject \cup {from}]
<1>2. Voted(c, d) /\ d.agree = c.agree /\ d.authority = c.authority
  BY DEF Voted, Contract
<1>3. Rejected(c, from) \in {Reset(c), d}
  BY DEF Rejected
<1> HIDE DEF d
<1> QED
  BY <1>1, <1>2, <1>3 DEF Counted

(* The request that is asked for, before its author agrees to it. *)
Proposed(c, new, del, time) ==
  [c EXCEPT !.new = IF new # {} THEN new ELSE @, !.del = IF del # {} THEN del ELSE @,
            !.timestamp = time, !.agree = {}, !.reject = {}]

(* A proposal changes no authorities and clears the agreements.           *)
LEMMA ProposedVoted ==
  ASSUME NEW c \in Contract, NEW new \in SUBSET Server, NEW del \in SUBSET Server, NEW time \in Nat
  PROVE  /\ Voted(c, Proposed(c, new, del, time))
         /\ Proposed(c, new, del, time).authority = c.authority
         /\ Proposed(c, new, del, time).agree = {}
  BY DEF Voted, Proposed, Contract

(* Asking is a proposal and the agreement of its author.                  *)
LEMMA AskedVoted ==
  ASSUME NEW c \in Contract, NEW from \in Server, NEW new \in SUBSET Server,
         NEW del \in SUBSET Server, NEW time \in Nat
  PROVE  /\ Voted(c, Asked(c, from, new, del, time))
         /\ from \in c.authority => Counted(c, Asked(c, from, new, del, time), {from})
<1>1. Asked(c, from, new, del, time) = Agreed(Proposed(c, new, del, time), from)
  BY DEF Asked, Proposed
<1>2. PICK d \in Contract : /\ d = Proposed(c, new, del, time) /\ Voted(c, d)
                            /\ d.authority = c.authority /\ d.agree = {}
  <2>1. Voted(c, Proposed(c, new, del, time))
    BY ProposedVoted
  <2>2. Proposed(c, new, del, time) \in Contract
    BY <2>1 DEF Voted
  <2> QED
    BY <2>1, <2>2, ProposedVoted
<1>3. Voted(d, Agreed(d, from))
  BY AgreedVoted
<1>4. ASSUME from \in c.authority PROVE Counted(d, Agreed(d, from), {from})
  <2>1. \A agreed : from \in d.authority /\ d.agree \subseteq agreed \cap d.authority
                    => Counted(d, Agreed(d, from), agreed \cup {from})
    BY AgreedVoted
  <2>2. Counted(d, Agreed(d, from), {} \cup {from})
    BY <1>2, <1>4, <2>1
  <2> QED
    BY <2>2
<1>5. \A n : Reaches(d, n) <=> Reaches(c, n)
  BY <1>2 DEF Reaches, Voted
<1> QED
  BY <1>1, <1>2, <1>3, <1>4, <1>5 DEF Voted, Counted

(* An authority's own transaction keeps the types. *)
LEMMA OwnType ==
  ASSUME TypeInv, NEW from \in Server, NEW agreed \in SUBSET Server, NEW c, Voted(contract, c),
         OwnTransaction(from, agreed, c)
  PROVE  TypeInv'
<1>1. /\ events' = [events EXCEPT !.changes = @ + 1, !.agreed = agreed]
      /\ contract' = c /\ nonce' = [nonce EXCEPT ![from] = @ + 1]
      /\ UNCHANGED <<setup, parserVars, newSpv, lightVars, pool, fullVars, now, balance, paid, ran,
                     ended>>
  BY DEF OwnTransaction
<1>2. EventType'
  <2>1. events \in [faults : Nat, changes : Nat, overlaps : BOOLEAN, agreed : SUBSET Server]
    BY DEF TypeInv, EventType
  <2>2. PICK n \in Nat : n = events.changes + 1
    BY <2>1
  <2>3. events' = [events EXCEPT !.changes = n, !.agreed = agreed]
    BY <1>1, <2>2
  <2> QED
    BY <2>1, <2>3 DEF EventType
<1>3. /\ Distinct(contract.requests) /\ balance \in Nat /\ nonce \in [Server -> Nat]
      /\ paid \in [Lock -> Nat] /\ ran \subseteq RawTx /\ ended \subseteq Server \X Lock \X Causes
  BY DEF TypeInv, ChainType, Chain, BlockState
<1>4. ChainType'
  <2>1. nonce' \in [Server -> Nat]
    BY <1>1, <1>3
  <2>2. contract' \in {x \in Contract : Distinct(x.requests)}
    BY <1>1, <1>3 DEF Voted
  <2> QED
    BY <1>1, <1>3, <2>1, <2>2 DEF ChainType, Chain, BlockState
<1> QED
  BY <1>1, <1>2, <1>4 DEF TypeInv, ParserType, SpvType, LightType, PoolType, FullType,
     parserVars, lightVars, fullVars

(* The votes of the authorities are such transactions. *)
Own(s, agreed, c) ==
  /\ Voted(contract, c) /\ OwnTransaction(s, agreed, c)
  /\ contract.agree \subseteq events.agreed \cap contract.authority => Counted(contract, c, agreed)

(* Modify, agree and reject are such transactions.                        *)
LEMMA VotesOwn ==
  ASSUME TypeInv, NEW s \in Servers,
         \/ \E t \in Servers : ModifyAuthorities(s, {t}, {}) \/ ModifyAuthorities(s, {}, {t})
         \/ Agree(s) \/ Reject(s)
  PROVE  \E agreed \in SUBSET Server : \E c : Own(s, agreed, c)
<1>1. /\ Servers \subseteq Server /\ s \in Server /\ contract \in Contract /\ now \in Nat
      /\ events.agreed \subseteq Server
  BY SetupFacts DEF TypeInv, ChainType, Chain, BlockState, EventType
<1>2. ASSUME NEW new \in SUBSET Server, NEW del \in SUBSET Server, ModifyAuthorities(s, new, del)
      PROVE  \E agreed \in SUBSET Server : \E c : Own(s, agreed, c)
  <2>1. PICK c : c = Asked(contract, s, new, del, now)
    OBVIOUS
  <2>2. Voted(contract, c) /\ (s \in contract.authority => Counted(contract, c, {s}))
    BY <1>1, <2>1, AskedVoted
  <2>3. OwnTransaction(s, {s}, c) /\ s \in contract.authority
    BY <1>2, <2>1 DEF ModifyAuthorities, MayModify
  <2>4. Own(s, {s}, c)
    BY <2>2, <2>3 DEF Own
  <2> QED
    BY <1>1, <2>4
<1>3. CASE Agree(s)
  <2>1. PICK c : c = Agreed(contract, s)
    OBVIOUS
  <2>2. /\ Voted(contract, c)
        /\ \A agreed : s \in contract.authority
                         /\ contract.agree \subseteq agreed \cap contract.authority
                       => Counted(contract, c, agreed \cup {s})
    BY <1>1, <2>1, AgreedVoted
  <2>3. OwnTransaction(s, events.agreed \cup {s}, c) /\ s \in contract.authority
    BY <1>3, <2>1 DEF Agree, MayAnswer
  <2>4. Own(s, events.agreed \cup {s}, c)
    BY <2>2, <2>3 DEF Own
  <2> QED
    BY <1>1, <2>4
<1>4. CASE Reject(s)
  <2>1. PICK c : c = Rejected(contract, s)
    OBVIOUS
  <2>2. /\ Voted(contract, c)
        /\ \A agreed : contract.agree \subseteq agreed \cap contract.authority
                       => Counted(contract, c, agreed)
    BY <1>1, <2>1, RejectedVoted
  <2>3. OwnTransaction(s, events.agreed, c)
    BY <1>4, <2>1 DEF Reject
  <2>4. Own(s, events.agreed, c)
    BY <2>2, <2>3 DEF Own
  <2> QED
    BY <1>1, <2>4
<1>5. CASE \E t \in Servers : ModifyAuthorities(s, {t}, {}) \/ ModifyAuthorities(s, {}, {t})
  <2>1. PICK t \in Servers : ModifyAuthorities(s, {t}, {}) \/ ModifyAuthorities(s, {}, {t})
    BY <1>5
  <2>2. {t} \in SUBSET Server /\ {} \in SUBSET Server
    BY <1>1
  <2> QED
    BY <1>2, <2>1, <2>2
<1> QED
  BY <1>3, <1>4, <1>5

(* Every step keeps the types. *)
LEMMA NextType == TypeInv /\ [Next]_vars => TypeInv'
<1> SUFFICES ASSUME TypeInv, [Next]_vars PROVE TypeInv'
  OBVIOUS
<1>1. ASSUME NEW p \in Parsers,
             \/ ParseTransactions(p) \/ SaveSendedSpv(p) \/ SendSpv(p)
             \/ SaveBlockNumber(p) \/ ParserCrash(p)
      PROVE  TypeInv'
  BY <1>1, ParsersType
<1>2. ASSUME NEW m \in newSpv, NewSpv(m) \/ Lose(m) PROVE TypeInv'
  BY <1>2, MessagesType
<1>3. ASSUME NEW s \in Servers, NEW h \in handlers[s],
             \/ SaveWaitingCrossPay(s, h) \/ LeaveWaiting(s, h) \/ GetWaitingCrossPay(s, h)
             \/ DestroyRow(s, h) \/ ReadAccount(s, h) \/ SaveRawTransaction(s, h)
      PROVE  TypeInv'
  BY <1>3, HandlersType
<1>4. ASSUME NEW s \in Servers,
             \/ GetRawTransactions(s) \/ DeleteTransactions(s)
             \/ FlushFails(s) \/ LightServerCrash(s) \/ FullServerCrash(s)
      PROVE  TypeInv'
  BY <1>4, ServersType
<1>5. ASSUME NEW order \in Orders, ProcessBlock(order) PROVE TypeInv'
  <2>1. ChainType'
    BY <1>5, BlockChain DEF ChainType
  <2>2. /\ taken' = [s \in Server |-> taken[s] \/ s \in ToSet(order)]
        /\ UNCHANGED <<setup, parserVars, newSpv, lightVars, pool, local, now, events>>
    BY <1>5 DEF ProcessBlock
  <2>3. FullType'
    BY <2>2 DEF TypeInv, FullType
  <2> QED
    BY <2>1, <2>2, <2>3 DEF TypeInv, ParserType, SpvType, LightType, PoolType, EventType,
       parserVars, lightVars
<1>6. ASSUME NEW s \in Servers,
             \/ \E t \in Servers : ModifyAuthorities(s, {t}, {}) \/ ModifyAuthorities(s, {}, {t})
             \/ Agree(s) \/ Reject(s)
      PROVE  TypeInv'
  <2>1. s \in Server
    BY SetupFacts DEF TypeInv
  <2> QED
    BY <1>6, <2>1, VotesOwn, OwnType DEF Own
<1>7. CASE LockCoins
  <2>1. height' \in 0 .. Len(setup.locks) /\ height < height' /\ height \in Nat
    <3>1. setup.locks \in Seq(Lock)
      BY SetupFacts DEF TypeInv
    <3> QED
      BY <1>7, <3>1 DEF LockCoins, TypeInv, ParserType
  <2>2. UNCHANGED <<setup, parser, newSpv, lightVars, pool, fullVars, chainVars, ended, events>>
    BY <1>7 DEF LockCoins
  <2>3. ParserType'
    <3>1. \A p \in Parser : parser[p].block \in Nat
      BY DEF TypeInv, ParserType, ParserState
    <3> QED
      BY <2>1, <2>2, <3>1 DEF TypeInv, ParserType
  <2> QED
    BY <2>2, <2>3 DEF TypeInv, SpvType, LightType, PoolType, FullType, ChainType, Chain, EventType,
       lightVars, fullVars, chainVars
<1>8. CASE AppendGuarantee
  <2>1. ChainType'
    <3>1. balance \in Nat
      BY DEF TypeInv, ChainType, Chain, BlockState
    <3>2. PICK n \in Nat : n = balance'
      BY <1>8, <3>1 DEF AppendGuarantee
    <3> QED
      BY <1>8, <3>2 DEF AppendGuarantee, TypeInv, ChainType, Chain, BlockState
  <2> QED
    BY <1>8, <2>1 DEF AppendGuarantee, TypeInv, ParserType, SpvType, LightType, PoolType, FullType,
       EventType, parserVars, lightVars, fullVars
<1>9. CASE Tick
  <2>1. setup.times \subseteq Nat
    BY CrossAssumption DEF TypeInv, Setup
  <2> QED
    BY <1>9, <2>1 DEF Tick, TypeInv, ParserType, SpvType, LightType, PoolType, FullType, ChainType,
       Chain, EventType, parserVars, lightVars, fullVars
<1>10. CASE UNCHANGED vars
  BY <1>10 DEF vars, TypeInv, ParserType, SpvType, LightType, PoolType, FullType, ChainType,
     Chain, EventType, parserVars, lightVars, fullVars, chainVars
<1> QED
  BY <1>1, <1>2, <1>3, <1>4, <1>5, <1>6, <1>7, <1>8, <1>9, <1>10 DEF Next

(* Every variable keeps its type, whatever crashes, is lost or repeated;  *)
(* in particular the side-chain contract never pays more than it has.     *)
THEOREM TypeCorrect == Spec => []TypeOK
<1>1. Spec => []TypeInv
  BY InitType, NextType, PTL DEF Spec
<1> QED
  BY <1>1, TypeInvType, PTL

(***************************************************************************)
(* What is known.  Where a server has a lock, it has received it.          *)
(***************************************************************************)
Signed(s) == {tx \in RawTx : tx.from = s /\ ToSet(tx.locks) \subseteq received[s]}

LightKnown ==
  \A s \in Server :
    /\ \A l \in received[s] : EnoughValid(l)
    /\ ToSet(waiting[s]) \subseteq received[s]
    /\ \A h \in handlers[s] : h.lock \in received[s] /\ ToSet(h.rows) \subseteq received[s]

PoolKnown ==
  \A s \in Server : ToSet(pool[s]) \subseteq Signed(s) /\ ToSet(local[s]) \subseteq Signed(s)

KnownChain(b) ==
  \A s \in Server, l \in Lock :
    Sponsors(b.contract.requests, s, l) \/ Over(b.ended, s, l) => l \in received[s]

Receivers(l) == {s \in setup.authority : l \in received[s]}

(* While nobody changes the authorities, payments have their threshold.    *)
Quorate(b) ==
  /\ b.contract.authority = setup.authority
  /\ \A s \in Server, l \in Lock : Sponsors(b.contract.requests, s, l) => s \in setup.authority
  /\ \A i \in DOMAIN b.contract.requests : ~Due(b.contract, b.contract.requests[i])
  /\ \A l \in Lock : b.paid[l] > 0 => Reaches(b.contract, Cardinality(Receivers(l)))

VotesKnown == contract.agree \subseteq events.agreed \cap contract.authority

ChainKnown == KnownChain(Chain) /\ VotesKnown /\ (events.changes = 0 => Quorate(Chain))

SafeInv == TypeInv /\ LightKnown /\ PoolKnown /\ ChainKnown

(***************************************************************************)
(* Steps that leave the way of a lock alone.                               *)
(***************************************************************************)
SameVotes == events'.changes = events.changes /\ events'.agreed = events.agreed

SameEvents == SameVotes /\ events'.overlaps = events.overlaps

MoreParsed == \A p \in Parser : parser[p].parsed \subseteq parser'[p].parsed

Far ==
  /\ setup' = setup /\ received' = received /\ waiting' = waiting /\ handlers' = handlers
  /\ pool' = pool /\ local' = local /\ taken' = taken /\ contract' = contract /\ nonce' = nonce
  /\ paid' = paid /\ ran' = ran /\ ended' = ended
  /\ SameEvents /\ MoreParsed

(* A fault is counted, and no other event.                                 *)
LEMMA FaultEvents ==
  ASSUME TypeInv, Fault
  PROVE  SameEvents
  BY DEF Fault, TypeInv, EventType, SameEvents, SameVotes

(* They are: the locking chain and its parsers, a lost message, time and   *)
(* the guarantee.                                                          *)
LEMMA FarSteps ==
  ASSUME TypeInv,
         \/ LockCoins \/ AppendGuarantee \/ Tick \/ UNCHANGED vars
         \/ \E m \in newSpv : Lose(m)
         \/ \E p \in Parsers : \/ ParseTransactions(p) \/ SaveSendedSpv(p) \/ SendSpv(p)
                               \/ SaveBlockNumber(p) \/ ParserCrash(p)
  PROVE  Far
<1>1. CASE LockCoins
  BY <1>1 DEF LockCoins, Far, SameEvents, SameVotes, MoreParsed, lightVars, fullVars, chainVars
<1>2. CASE AppendGuarantee
  BY <1>2 DEF AppendGuarantee, Far, SameEvents, SameVotes, MoreParsed, parserVars,
     lightVars, fullVars
<1>3. CASE Tick
  BY <1>3 DEF Tick, Far, SameEvents, SameVotes, MoreParsed, parserVars,
     lightVars, fullVars
<1>4. CASE UNCHANGED vars
  BY <1>4 DEF vars, Far, SameEvents, SameVotes, MoreParsed, parserVars,
     lightVars, fullVars, chainVars
<1>5. ASSUME NEW m \in newSpv, Lose(m) PROVE Far
  BY <1>5, FaultEvents DEF Lose, Far, MoreParsed, parserVars, lightVars, fullVars, chainVars
<1>6. ASSUME NEW p \in Parsers, \/ ParseTransactions(p) \/ SaveSendedSpv(p) \/ SendSpv(p)
                                \/ SaveBlockNumber(p) \/ ParserCrash(p)
      PROVE  Far
  <2>1. parser \in [Parser -> ParserState] /\ p \in Parser /\ parser[p] \in ParserState
    BY SetupFacts DEF TypeInv, ParserType
  <2>2. ASSUME NEW to, parser' = [parser EXCEPT ![p] = to], parser[p].parsed \subseteq to.parsed
        PROVE  MoreParsed
    BY <2>1, <2>2 DEF MoreParsed
  <2>3. ASSUME NEW from, NEW to, ParserStep(p, from, to), parser[p].parsed \subseteq to.parsed
        PROVE  Far
    <3>1. MoreParsed
      BY <2>2, <2>3 DEF ParserStep
    <3> QED
      BY <2>3, <3>1 DEF ParserStep, Far, SameEvents, SameVotes, lightVars, fullVars, chainVars
  <2>4. CASE ParserCrash(p)
    <3>1. parser' = [parser EXCEPT ![p] = [parser[p] EXCEPT !.step = "idle"]]
      BY <2>4 DEF ParserCrash
    <3>2. MoreParsed
      BY <2>1, <2>2, <3>1 DEF ParserState
    <3> QED
      BY <2>4, <3>2, FaultEvents DEF ParserCrash, Far, lightVars, fullVars, chainVars
  <2>5. CASE ParseTransactions(p)
    BY <2>1, <2>3, <2>5 DEF ParseTransactions, ParserState
  <2>6. CASE SaveSendedSpv(p)
    BY <2>1, <2>3, <2>6 DEF SaveSendedSpv, ParserState
  <2>7. CASE SendSpv(p)
    BY <2>1, <2>3, <2>7 DEF SendSpv, ParserState
  <2>8. CASE SaveBlockNumber(p)
    BY <2>1, <2>3, <2>8 DEF SaveBlockNumber, ParserState
  <2> QED
    BY <1>6, <2>4, <2>5, <2>6, <2>7, <2>8
<1> QED
  BY <1>1, <1>2, <1>3, <1>4, <1>5, <1>6

(* A larger part of the servers reaches what a smaller one reaches.        *)
LEMMA MoreReaches ==
  ASSUME NEW c \in Contract, NEW B, IsFiniteSet(B), NEW A \in SUBSET B, Reaches(c, Cardinality(A))
  PROVE  Reaches(c, Cardinality(B))
<1>1. PICK a \in Nat, b \in Nat : a = Cardinality(A) /\ b = Cardinality(B) /\ a <= b
  BY FS_Subset, FS_CardinalityType
<1>2. PICK n \in Nat : n = Cardinality(c.authority)
  BY FS_Subset, FS_CardinalityType, CrossAssumption DEF Contract
<1>3. PICK t \in Nat : t = c.threshold
  BY DEF Contract
<1>4. PICK k \in Int : k = t * n
  OBVIOUS
<1>5. a * 100 >= k
  BY <1>1, <1>2, <1>3, <1>4 DEF Reaches
<1>6. b * 100 >= k
  BY <1>1, <1>4, <1>5
<1> QED
  BY <1>1, <1>2, <1>3, <1>4, <1>6 DEF Reaches

(* What is confirmed stays so: parsers forget no transaction.              *)
LEMMA ConfirmedStays ==
  ASSUME TypeInv, setup' = setup, MoreParsed, NEW l, EnoughValid(l)
  PROVE  EnoughValid(l)'
<1> DEFINE A == {p \in Parsers : SpvValid(p, l)}
           B == {p \in Parsers : l \in parser'[p].parsed}
<1>1. Parsers \subseteq Parser /\ IsFiniteSet(Parsers) /\ Parsers' = Parsers
  BY SetupFacts, CrossAssumption, FS_Subset DEF TypeInv, Parsers
<1>2. A \subseteq B /\ B \subseteq Parsers
  BY <1>1 DEF MoreParsed, SpvValid
<1>3. IsFiniteSet(B)
  BY <1>1, <1>2, FS_Subset
<1>4. PICK a \in Nat, b \in Nat : a = Cardinality(A) /\ b = Cardinality(B) /\ a <= b
  BY <1>2, <1>3, FS_Subset, FS_CardinalityType
<1>5. PICK n \in Nat : n = Cardinality(Parsers)
  BY <1>1, FS_CardinalityType
<1>6. a * 10 >= 8 * n
  BY <1>4, <1>5 DEF EnoughValid
<1>7. b * 10 >= 8 * n
  BY <1>4, <1>6
<1>8. EnoughValid(l)' <=> Cardinality(B) * 10 >= 8 * Cardinality(Parsers)
  BY <1>1 DEF EnoughValid, SpvValid
<1> QED
  BY <1>4, <1>5, <1>7, <1>8

MoreReceived ==
  /\ received' \in [Server -> SUBSET Lock]
  /\ \A s \in Server : received[s] \subseteq received'[s]

(* What is known of the chain stays when the chain does.                   *)
LEMMA ChainStays ==
  ASSUME TypeInv, ChainKnown, setup' = setup, contract' = contract, paid' = paid, ended' = ended,
         SameVotes, MoreReceived
  PROVE  ChainKnown'
<1>1. KnownChain(Chain)'
  BY DEF ChainKnown, KnownChain, Chain, MoreReceived
<1>2. VotesKnown'
  BY DEF ChainKnown, VotesKnown, SameVotes
<1>3. ASSUME events.changes = 0 PROVE Quorate(Chain)'
  <2>1. Quorate(Chain)
    BY <1>3 DEF ChainKnown
  <2>2. contract \in Contract /\ setup.authority \subseteq Server
    BY SetupFacts DEF TypeInv, ChainType, Chain, BlockState
  <2>3. ASSUME NEW l \in Lock, paid[l] > 0
        PROVE  Reaches(contract, Cardinality({s \in setup.authority : l \in received'[s]}))
    <3> DEFINE B == {s \in setup.authority : l \in received'[s]}
    <3>1. Receivers(l) \in SUBSET B
      BY <2>2 DEF Receivers, MoreReceived
    <3>2. IsFiniteSet(B)
      BY <2>2, CrossAssumption, FS_Subset
    <3>3. Reaches(contract, Cardinality(Receivers(l)))
      BY <2>1, <2>3 DEF Quorate, Chain
    <3> HIDE DEF B
    <3>4. Reaches(contract, Cardinality(B))
      BY <2>2, <3>1, <3>2, <3>3, MoreReaches
    <3> QED
      BY <3>4 DEF B
  <2> QED
    BY <2>1, <2>3 DEF Quorate, Chain, Receivers, Reaches, Due
<1> QED
  BY <1>1, <1>2, <1>3 DEF ChainKnown, SameVotes

(* A step that leaves the way of a lock alone keeps what is known.         *)
LEMMA FarKnown ==
  ASSUME SafeInv, TypeInv', Far
  PROVE  SafeInv'
<1>1. ChainKnown'
  BY ChainStays DEF SafeInv, Far, SameEvents, MoreReceived, TypeInv, LightType
<1>2. LightKnown'
  BY ConfirmedStays DEF SafeInv, Far, LightKnown
<1>3. PoolKnown'
  BY DEF SafeInv, Far, PoolKnown, Signed
<1> QED
  BY <1>1, <1>2, <1>3 DEF SafeInv

(* So does a message that arrives.                                         *)
LEMMA ReceivedKnown ==
  ASSUME SafeInv, TypeInv', NEW m \in newSpv, NewSpv(m)
  PROVE  SafeInv'
<1>1. PICK s \in Server, lock \in Lock : s = m[2] /\ lock = m[3]
  BY DEF SafeInv, TypeInv, SpvType
<1>2. /\ \/ /\ received' = [received EXCEPT ![s] = @ \cup {lock}]
            /\ handlers' = [handlers EXCEPT ![s] =
                              @ \cup {[Idle EXCEPT !.lock = lock, !.step = "received"]}]
            /\ EnoughValid(lock)
         \/ UNCHANGED <<received, handlers>>
      /\ UNCHANGED <<setup, parserVars, waiting, lastFlush, pool, fullVars, chainVars, ended,
                     events>>
  BY <1>1 DEF NewSpv
<1>3. /\ received \in [Server -> SUBSET Lock] /\ received' \in [Server -> SUBSET Lock]
      /\ handlers \in [Server -> HandlerSets]
  BY DEF SafeInv, TypeInv, LightType
<1>4. MoreReceived
  BY <1>2, <1>3 DEF MoreReceived
<1>5. ChainKnown'
  BY <1>2, <1>4, ChainStays DEF SafeInv, SameVotes, chainVars
<1>6. PoolKnown'
  <2>1. \A r \in Server : Signed(r) \subseteq {tx \in RawTx : tx.from = r
                                                /\ ToSet(tx.locks) \subseteq received'[r]}
    BY <1>4 DEF Signed, MoreReceived
  <2> QED
    BY <1>2, <2>1 DEF SafeInv, PoolKnown, Signed, fullVars
<1>7. LightKnown'
  <2>1. \A l : EnoughValid(l)' <=> EnoughValid(l)
    BY <1>2 DEF EnoughValid, SpvValid, Parsers, parserVars
  <2>2. CASE UNCHANGED <<received, handlers>>
    BY <1>2, <2>1, <2>2 DEF SafeInv, LightKnown
  <2>3. ASSUME received' = [received EXCEPT ![s] = @ \cup {lock}], EnoughValid(lock),
               handlers' = [handlers EXCEPT ![s] =
                              @ \cup {[Idle EXCEPT !.lock = lock, !.step = "received"]}]
        PROVE  LightKnown'
    <3>1. PICK h : h = [Idle EXCEPT !.lock = lock, !.step = "received"]
      OBVIOUS
    <3>2. h.lock = lock /\ ToSet(h.rows) = {}
      <4>1. Became(h, lock, "received", << >>, 0, 0)
        BY <3>1, HandlerStarts, SetupFacts DEF Idle, SafeInv, TypeInv
      <4> QED
        BY <4>1 DEF Became, ToSet
    <3>3. \A r \in Server : /\ received'[r] = IF r = s THEN received[r] \cup {lock} ELSE received[r]
                            /\ handlers'[r] = IF r = s THEN handlers[r] \cup {h} ELSE handlers[r]
      BY <1>3, <2>3, <3>1
    <3>4. waiting' = waiting
      BY <1>2
    <3> QED
      <4>1. ASSUME NEW r \in Server
            PROVE  /\ \A l \in received'[r] : EnoughValid(l)'
                   /\ ToSet(waiting'[r]) \subseteq received'[r]
                   /\ \A g \in handlers'[r] : /\ g.lock \in received'[r]
                                             /\ ToSet(g.rows) \subseteq received'[r]
        <5>1. /\ \A l \in received[r] : EnoughValid(l)
              /\ ToSet(waiting[r]) \subseteq received[r]
              /\ \A g \in handlers[r] :
                   g.lock \in received[r] /\ ToSet(g.rows) \subseteq received[r]
          BY DEF SafeInv, LightKnown
        <5>2. received[r] \subseteq received'[r]
          BY <1>4 DEF MoreReceived
        <5>3. \A g \in handlers'[r] : g \in handlers[r] \/ (r = s /\ g = h)
          BY <3>3
        <5>4. \A l \in received'[r] : l \in received[r] \/ l = lock
          BY <3>3
        <5>5. r = s => lock \in received'[r]
          BY <3>3
        <5>6. \A l \in received'[r] : EnoughValid(l)'
          BY <2>1, <2>3, <5>1, <5>4
        <5>7. \A g \in handlers'[r] :
                g.lock \in received'[r] /\ ToSet(g.rows) \subseteq received'[r]
          BY <3>2, <5>1, <5>2, <5>3, <5>5
        <5> QED
          BY <3>4, <5>1, <5>2, <5>6, <5>7
      <4> QED
        BY <4>1 DEF LightKnown
  <2> QED
    BY <1>2, <2>2, <2>3
<1> QED
  BY <1>5, <1>6, <1>7 DEF SafeInv

(* And the steps of a handler: rows come from the table or the handler.    *)
LEMMA HandlerKnown ==
  ASSUME SafeInv, TypeInv', NEW s \in Server, NEW h, NEW from, NEW to, HandlerStep(s, h, from, to),
         \A g \in to : g.lock \in received[s] /\ ToSet(g.rows) \subseteq received[s],
         \A r \in Server : ToSet(waiting'[r]) \subseteq received[r],
         \A r \in Server : ToSet(pool'[r]) \subseteq Signed(r), SameVotes
  PROVE  SafeInv'
<1>1. /\ handlers' = [handlers EXCEPT ![s] = (@ \ {h}) \cup to]
      /\ UNCHANGED <<setup, parserVars, newSpv, received, fullVars, chainVars, ended>>
  BY DEF HandlerStep
<1>2. ChainKnown'
  <2>1. MoreReceived
    BY <1>1 DEF SafeInv, TypeInv, LightType, MoreReceived
  <2> QED
    BY <1>1, <2>1, ChainStays DEF SafeInv, chainVars
<1>3. PoolKnown'
  BY <1>1 DEF SafeInv, PoolKnown, Signed, fullVars
<1>4. LightKnown'
  <2>1. \A l : EnoughValid(l)' <=> EnoughValid(l)
    BY <1>1 DEF EnoughValid, SpvValid, Parsers, parserVars
  <2>2. \A r \in Server : handlers'[r] = IF r = s THEN (handlers[r] \ {h}) \cup to ELSE handlers[r]
    BY <1>1 DEF SafeInv, TypeInv, LightType
  <2> QED
    BY <1>1, <2>1, <2>2 DEF SafeInv, LightKnown
<1> QED
  BY <1>2, <1>3, <1>4 DEF SafeInv

(* The steps of a server's handler keep what is known.                    *)
LEMMA HandlersKnown ==
  ASSUME SafeInv, TypeInv', NEW s \in Servers, NEW h \in handlers[s],
         \/ SaveWaitingCrossPay(s, h) \/ LeaveWaiting(s, h) \/ GetWaitingCrossPay(s, h)
         \/ DestroyRow(s, h) \/ ReadAccount(s, h) \/ SaveRawTransaction(s, h)
  PROVE  SafeInv'
<1>1. s \in Server
  BY SetupFacts DEF SafeInv, TypeInv
<1>2. /\ handlers[s] \in HandlerSets /\ pool \in [Server -> Seq(RawTx)]
      /\ waiting \in [Server -> Seq(Lock)] /\ waiting[s] \in Seq(Lock) /\ pool[s] \in Seq(RawTx)
      /\ events \in [faults : Nat, changes : Nat, overlaps : BOOLEAN, agreed : SUBSET Server]
  BY <1>1 DEF SafeInv, TypeInv, LightType, PoolType, EventType
<1>3. h.lock \in Lock /\ h.rows \in Seq(Lock) /\ h \in Handler /\ h.nonce \in Nat
      /\ h.destroyed \in Nat
  BY <1>2, HandlerParts DEF SoundHandler
<1>4. h.lock \in received[s] /\ ToSet(h.rows) \subseteq received[s]
  BY <1>1 DEF SafeInv, LightKnown
<1>5. /\ \A r \in Server : ToSet(waiting[r]) \subseteq received[r]
      /\ \A r \in Server : ToSet(pool[r]) \subseteq Signed(r)
  BY DEF SafeInv, LightKnown, PoolKnown
<1>6. CASE SaveWaitingCrossPay(s, h)
  <2> DEFINE g == [h EXCEPT !.step = "saved"]
  <2>1. /\ HandlerStep(s, h, "received", {g}) /\ UNCHANGED <<lastFlush, pool, events>>
        /\ waiting' = [waiting EXCEPT ![s] = Append(@, h.lock)]
    BY <1>6 DEF SaveWaitingCrossPay
  <2>2. g.lock = h.lock /\ g.rows = h.rows
    BY <1>3, HandlerSaves DEF Became
  <2>3. ToSet(Append(waiting[s], h.lock)) = ToSet(waiting[s]) \cup {h.lock}
    <3>1. PICK r : r = Append(waiting[s], h.lock)
      OBVIOUS
    <3>2. Appended(waiting[s], h.lock, r)
      BY <1>2, <1>3, <3>1, AppendSet
    <3> QED
      BY <3>1, <3>2 DEF Appended
  <2>4. \A r \in Server : ToSet(waiting'[r]) \subseteq received[r]
    BY <1>2, <1>4, <1>5, <2>1, <2>3
  <2> HIDE DEF g
  <2> QED
    BY <1>1, <1>4, <1>5, <2>1, <2>2, <2>4, HandlerKnown DEF SameVotes
<1>7. CASE LeaveWaiting(s, h)
  BY <1>1, <1>5, <1>7, HandlerKnown DEF LeaveWaiting, SameVotes
<1>8. CASE GetWaitingCrossPay(s, h)
  <2>1. PICK rows : rows = SubSeq(waiting[s], 1, IF Len(waiting[s]) < FlushLimit
                                                 THEN Len(waiting[s]) ELSE FlushLimit)
    OBVIOUS
  <2>2. PICK to : to = IF rows = << >> THEN {} ELSE {[h EXCEPT !.step = "flushing", !.rows = rows]}
    OBVIOUS
  <2>3. /\ HandlerStep(s, h, "saved", to) /\ UNCHANGED <<waiting, pool>>
        /\ \E o : events' = [events EXCEPT !.overlaps = o]
    BY <1>8, <2>1, <2>2 DEF GetWaitingCrossPay
  <2>4. rows \in Seq(Lock) /\ ToSet(rows) \subseteq ToSet(waiting[s])
    <3>1. rows \in Seq(Lock) /\ Len(rows) <= Len(waiting[s])
          /\ \A i \in 1 .. Len(rows) : rows[i] = waiting[s][i]
      BY <1>2, <2>1, CrossAssumption, FirstRows
    <3>2. PICK m \in Nat, n \in Nat : m = Len(rows) /\ n = Len(waiting[s])
                                      /\ DOMAIN rows = 1 .. m /\ DOMAIN waiting[s] = 1 .. n
      BY <1>2, <3>1
    <3> QED
      BY <3>1, <3>2 DEF ToSet
  <2>5. ASSUME NEW g \in to PROVE g.lock \in received[s] /\ ToSet(g.rows) \subseteq received[s]
    <3>1. Became(g, h.lock, "flushing", rows, h.destroyed, h.nonce)
      BY <1>3, <2>2, <2>4, <2>5, HandlerFlushes
    <3> QED
      BY <1>1, <1>4, <1>5, <2>4, <3>1 DEF Became
  <2>6. SameVotes
    BY <1>2, <2>3 DEF SameVotes
  <2> QED
    BY <1>1, <1>5, <2>3, <2>5, <2>6, HandlerKnown
<1>9. CASE DestroyRow(s, h)
  <2> DEFINE row == h.rows[h.destroyed + 1]
             step == IF h.destroyed + 1 = Len(h.rows) THEN "flushed" ELSE h.step
             g == [h EXCEPT !.destroyed = @ + 1, !.step = step]
  <2>1. /\ HandlerStep(s, h, "flushing", {g}) /\ UNCHANGED <<lastFlush, pool, events>>
        /\ waiting' = [waiting EXCEPT ![s] = Without(@, {row})]
    BY <1>9 DEF DestroyRow
  <2>2. g.lock = h.lock /\ g.rows = h.rows
    <3>1. h.step = "flushing"
      BY <2>1 DEF HandlerStep
    <3> HIDE DEF step
    <3>2. Became(g, h.lock, step, h.rows, h.destroyed + 1, h.nonce)
      BY <1>3, <3>1, HandlerDestroysRow DEF step
    <3> QED
      BY <3>2 DEF Became
  <2>3. ToSet(Without(waiting[s], {row})) \subseteq ToSet(waiting[s])
    BY <1>2, WithoutSet
  <2>4. \A r \in Server : ToSet(waiting'[r]) \subseteq received[r]
    BY <1>2, <1>5, <2>1, <2>3
  <2>5. HandlerStep(s, h, "flushing", {g}) /\ SameVotes
        /\ \A r \in Server : ToSet(pool'[r]) \subseteq Signed(r)
    BY <1>5, <2>1 DEF SameVotes
  <2> HIDE DEF g, row, step
  <2> QED
    BY <1>1, <1>4, <2>2, <2>4, <2>5, HandlerKnown
<1>10. CASE ReadAccount(s, h)
  <2> DEFINE g == [h EXCEPT !.step = "read", !.nonce = nonce[s] + 1]
  <2>1. HandlerStep(s, h, "flushed", {g}) /\ UNCHANGED <<waiting, lastFlush, pool, events>>
    BY <1>10 DEF ReadAccount
  <2>2. g.lock = h.lock /\ g.rows = h.rows
    <3>1. nonce[s] \in Nat
      BY <1>1 DEF SafeInv, TypeInv, ChainType, Chain, BlockState
    <3>2. Became(g, h.lock, "read", h.rows, h.destroyed, nonce[s] + 1)
      BY <1>3, <3>1, HandlerReadsNonce
    <3> QED
      BY <3>2 DEF Became
  <2> HIDE DEF g
  <2> QED
    BY <1>1, <1>4, <1>5, <2>1, <2>2, HandlerKnown DEF SameVotes
<1>11. CASE SaveRawTransaction(s, h)
  <2> DEFINE tx == [from |-> s, nonce |-> h.nonce, locks |-> h.rows]
  <2>1. /\ HandlerStep(s, h, "read", {}) /\ pool' = [pool EXCEPT ![s] = Append(@, tx)]
        /\ UNCHANGED <<waiting, lastFlush, events>>
    BY <1>11 DEF SaveRawTransaction
  <2>2. tx \in RawTx /\ tx \in Signed(s)
    BY <1>1, <1>3, <1>4 DEF RawTx, Signed
  <2> HIDE DEF tx
  <2>3. ToSet(Append(pool[s], tx)) = ToSet(pool[s]) \cup {tx}
    <3>1. PICK r : r = Append(pool[s], tx)
      OBVIOUS
    <3>2. Appended(pool[s], tx, r)
      BY <1>2, <2>2, <3>1, AppendSet
    <3> QED
      BY <3>1, <3>2 DEF Appended
  <2>4. \A r \in Server : ToSet(pool'[r]) \subseteq Signed(r)
    BY <1>2, <1>5, <2>1, <2>2, <2>3
  <2> QED
    BY <1>1, <1>5, <2>1, <2>4, HandlerKnown DEF SameVotes
<1> QED
  BY <1>6, <1>7, <1>8, <1>9, <1>10, <1>11

(* The steps of the full server, and crashes, keep what is known.          *)
LEMMA ServersKnown ==
  ASSUME SafeInv, TypeInv', NEW s \in Servers,
         \/ GetRawTransactions(s) \/ DeleteTransactions(s)
         \/ FlushFails(s) \/ LightServerCrash(s) \/ FullServerCrash(s)
  PROVE  SafeInv'
<1>1. s \in Server
  BY SetupFacts DEF SafeInv, TypeInv
<1>2. /\ pool \in [Server -> Seq(RawTx)] /\ pool[s] \in Seq(RawTx)
      /\ local \in [Server -> Seq(RawTx)] /\ handlers \in [Server -> HandlerSets]
      /\ handlers[s] \in HandlerSets /\ received \in [Server -> SUBSET Lock]
  BY <1>1 DEF SafeInv, TypeInv, LightType, PoolType, FullType
<1>3. UNCHANGED <<setup, parserVars, received, waiting, chainVars>>
  BY DEF GetRawTransactions, DeleteTransactions, FlushFails, LightServerCrash,
     FullServerCrash, lightVars
<1>4. SameVotes
  <2>1. Fault \/ events' = events
    BY DEF GetRawTransactions, DeleteTransactions, FlushFails, LightServerCrash,
       FullServerCrash
  <2> QED
    BY <2>1, FaultEvents DEF SafeInv, SameEvents, SameVotes
<1>5. \A r \in Server : handlers'[r] \subseteq handlers[r]
  BY <1>2 DEF GetRawTransactions, DeleteTransactions, FlushFails, LightServerCrash,
     FullServerCrash, lightVars
<1>6. LightKnown'
  <2>1. \A l : EnoughValid(l)' <=> EnoughValid(l)
    BY <1>3 DEF EnoughValid, SpvValid, Parsers, parserVars
  <2> QED
    BY <1>3, <1>5, <2>1 DEF SafeInv, LightKnown
<1>7. ASSUME GetRawTransactions(s) \/ DeleteTransactions(s) \/ FullServerCrash(s)
      PROVE  ChainKnown'
  <2>1. ended' = ended
    BY <1>7 DEF GetRawTransactions, DeleteTransactions, FullServerCrash
  <2> QED
    BY <1>2, <1>3, <1>4, <2>1, ChainStays DEF SafeInv, MoreReceived, chainVars
<1>8. ASSUME NEW P \in [Server -> Seq(RawTx)], NEW Q \in [Server -> Seq(RawTx)],
             \A r \in Server :
               ToSet(P[r]) \cup ToSet(Q[r]) \subseteq ToSet(pool[r]) \cup ToSet(local[r]),
             pool' = P, local' = Q
      PROVE  PoolKnown'
  BY <1>3, <1>8 DEF SafeInv, PoolKnown, Signed
<1>9. CASE GetRawTransactions(s)
  <2>1. pool' = pool /\ local' = [local EXCEPT ![s] = pool[s]]
    BY <1>9 DEF GetRawTransactions
  <2>2. local' \in [Server -> Seq(RawTx)]
    BY <1>2, <2>1
  <2>3. \A r \in Server : ToSet(local'[r]) \subseteq ToSet(pool[r]) \cup ToSet(local[r])
    BY <1>2, <2>1
  <2>4. PoolKnown'
    BY <1>2, <1>8, <2>1, <2>2, <2>3
  <2> QED
    BY <1>6, <1>7, <1>9, <2>4 DEF SafeInv
<1>10. CASE DeleteTransactions(s)
  <2>1. PICK P : P = Without(pool[s], ToSet(local[s]))
    OBVIOUS
  <2>2. P \in Seq(RawTx) /\ ToSet(P) \subseteq ToSet(pool[s])
    BY <1>2, <2>1, WithoutKept, WithoutSet
  <2>3. pool' = [pool EXCEPT ![s] = P] /\ local' = [local EXCEPT ![s] = << >>]
    BY <1>10, <2>1 DEF DeleteTransactions
  <2>4. << >> \in Seq(RawTx) /\ ToSet(<< >>) = {}
    BY DEF ToSet
  <2>5. /\ pool' \in [Server -> Seq(RawTx)] /\ local' \in [Server -> Seq(RawTx)]
        /\ \A r \in Server :
             ToSet(pool'[r]) \cup ToSet(local'[r]) \subseteq ToSet(pool[r]) \cup ToSet(local[r])
    BY <1>2, <2>2, <2>3, <2>4
  <2>6. PoolKnown'
    BY <1>8, <2>5
  <2> QED
    BY <1>6, <1>7, <1>10, <2>6 DEF SafeInv
<1>11. CASE FullServerCrash(s)
  <2>1. pool' = pool /\ local' = [local EXCEPT ![s] = << >>]
    BY <1>11 DEF FullServerCrash
  <2>2. << >> \in Seq(RawTx) /\ ToSet(<< >>) = {}
    BY DEF ToSet
  <2>3. /\ local' \in [Server -> Seq(RawTx)]
        /\ \A r \in Server : ToSet(local'[r]) \subseteq ToSet(local[r])
    BY <1>2, <2>1, <2>2
  <2>4. PoolKnown'
    BY <1>2, <1>8, <2>1, <2>3
  <2> QED
    BY <1>6, <1>7, <1>11, <2>4 DEF SafeInv
<1>12. ASSUME NEW K \in SUBSET handlers[s], EndsWith(s, K) PROVE SafeInv'
  <2>1. PoolKnown'
    BY <1>3, <1>12 DEF EndsWith, SafeInv, PoolKnown, Signed, fullVars
  <2>2. PICK X : X = UNION {Held(s, h) : h \in K}
    OBVIOUS
  <2>3. X \subseteq received[s]
    <3>1. ASSUME NEW h \in K PROVE Held(s, h) \subseteq received[s]
      <4>1. h.rows \in Seq(Lock) /\ h.destroyed \in Nat /\ h.destroyed <= Len(h.rows)
        BY <1>2, HandlerParts
      <4>2. ToSet(SubSeq(h.rows, 1, h.destroyed)) \subseteq ToSet(h.rows)
        <5>1. PICK q \in Seq(Lock), d \in Nat : q = h.rows /\ d = h.destroyed /\ d <= Len(q)
          BY <4>1
        <5>2. Prefix(q, d, SubSeq(q, 1, d))
          BY <5>1, PrefixSet
        <5> QED
          BY <5>1, <5>2 DEF Prefix
      <4>3. h.lock \in received[s] /\ ToSet(h.rows) \subseteq received[s]
        BY <1>1 DEF SafeInv, LightKnown
      <4> QED
        BY <4>2, <4>3 DEF Held
    <3> QED
      BY <2>2, <3>1
  <2>4. ended' = ended \cup Ended(s, X, "crashed")
    BY <1>12, <2>2 DEF EndsWith
  <2>5. \A r, l : Over(ended', r, l) => Over(ended, r, l) \/ (r = s /\ l \in X)
    BY <2>4 DEF Over, Ended
  <2>6. KnownChain(Chain)'
    <3>1. KnownChain(Chain)
      BY DEF SafeInv, ChainKnown
    <3>2. UNCHANGED <<contract, received>>
      BY <1>3 DEF chainVars
    <3> QED
      BY <1>1, <2>3, <2>5, <3>1, <3>2 DEF KnownChain, Chain
  <2>7. VotesKnown' /\ (events'.changes = 0 => Quorate(Chain)')
    BY <1>3, <1>4 DEF SafeInv, ChainKnown, VotesKnown, SameVotes, Quorate, Chain, Receivers,
       Reaches, Due, chainVars
  <2> QED
    BY <1>6, <2>1, <2>6, <2>7 DEF SafeInv, ChainKnown
<1> QED
  BY <1>9, <1>10, <1>11, <1>12, HandlersEnd DEF SafeInv

(* What a transaction of received locks keeps.                             *)
SafeChains ==
  {b \in BlockState : /\ KnownChain(b) /\ SameContract(contract, b.contract)
                      /\ events.changes = 0 => Quorate(b)}

ReceivedTx == {tx \in RawTx : ToSet(tx.locks) \subseteq received[tx.from]}

(* A transaction of a block keeps what is known.                          *)
LEMMA TxKnown ==
  ASSUME SafeInv, NEW a \in SafeChains, NEW tx \in ReceivedTx
  PROVE  RunTx(a, tx) \in SafeChains
<1>1. PICK b : b = RunTx(a, tx)
  OBVIOUS
<1>2. a \in BlockState /\ tx \in RawTx /\ ToSet(tx.locks) \subseteq received[tx.from]
      /\ tx.from \in Server
  BY DEF SafeChains, ReceivedTx, RawTx
<1>3. KnownChain(a) /\ SameContract(contract, a.contract) /\ (events.changes = 0 => Quorate(a))
  BY DEF SafeChains
<1>4. /\ b \in BlockState
      /\ \/ Runs(a, tx) /\ \E R, N, P : RanAs(a, tx, b, R, N, P)
         \/ Refuses(a, tx, b)
         \/ Idles(a, tx, b)
  BY <1>1, <1>2, RunTxCases DEF SafeInv, TypeInv
<1>5. CASE Idles(a, tx, b)
  BY <1>1, <1>5 DEF Idles
<1>6. CASE Refuses(a, tx, b)
  <2>1. /\ b.contract = a.contract /\ b.paid = a.paid
        /\ b.ended = a.ended \cup Ended(tx.from, ToSet(tx.locks), "refused")
    BY <1>6 DEF Refuses
  <2>2. \A s, l : Over(b.ended, s, l) =>
          Over(a.ended, s, l) \/ (s = tx.from /\ l \in ToSet(tx.locks))
    BY <2>1 DEF Over, Ended
  <2>3. KnownChain(b)
    BY <1>2, <1>3, <2>1, <2>2 DEF KnownChain
  <2>4. events.changes = 0 => Quorate(b)
    BY <1>3, <2>1 DEF Quorate
  <2> QED
    BY <1>1, <1>3, <1>4, <2>1, <2>3, <2>4 DEF SafeChains
<1>7. ASSUME Runs(a, tx), NEW R, NEW N, NEW P, RanAs(a, tx, b, R, N, P)
      PROVE  b \in SafeChains
  <2>1. /\ R \in Requests /\ MoreSponsors(a.contract.requests, R, tx.from, ToSet(tx.locks))
        /\ Moved(R, b.contract.requests, N, P)
        /\ SameContract(a.contract, b.contract)
        /\ b.ended = a.ended \cup N
        /\ \A l \in Lock : b.paid[l] = a.paid[l] + IF l \in P THEN 1 ELSE 0
        /\ \A l \in P : \E A \in SUBSET Server :
             Reaches(a.contract, Cardinality(A)) /\ \A s : s \in A <=> Sponsors(R, s, l)
        /\ \A i \in DOMAIN b.contract.requests : ~Due(a.contract, b.contract.requests[i])
    BY <1>7 DEF RanAs
  <2>2. \A s, l : Sponsors(R, s, l) <=> Sponsors(a.contract.requests, s, l)
                                        \/ (s = tx.from /\ l \in ToSet(tx.locks))
    BY <2>1 DEF MoreSponsors
  <2>3. \A s \in Server, l \in Lock :
          Sponsors(R, s, l) <=> Sponsors(b.contract.requests, s, l) \/ Over(N, s, l)
    BY <2>1 DEF Moved
  <2>4. \A s \in Server, l \in Lock : Sponsors(R, s, l) => l \in received[s]
    BY <1>2, <1>3, <2>2 DEF KnownChain
  <2>5. \A s, l : Over(b.ended, s, l) => Over(a.ended, s, l) \/ Over(N, s, l)
    BY <2>1 DEF Over
  <2>6. KnownChain(b)
    BY <1>3, <2>3, <2>4, <2>5 DEF KnownChain
  <2>7. SameContract(contract, b.contract)
    BY <1>3, <2>1 DEF SameContract
  <2>8. ASSUME events.changes = 0 PROVE Quorate(b)
    <3>1. Quorate(a) /\ a.contract \in Contract /\ b.contract \in Contract
      BY <1>2, <1>3, <1>4, <2>8 DEF BlockState
    <3>2. tx.from \in setup.authority
      BY <1>7, <3>1 DEF Runs, MayCrossPay, Quorate
    <3>3. \A s \in Server, l \in Lock : Sponsors(R, s, l) => s \in setup.authority
      BY <2>2, <3>1, <3>2 DEF Quorate
    <3>4. b.contract.authority = a.contract.authority /\ b.contract.threshold = a.contract.threshold
      BY <2>1 DEF SameContract
    <3>5. \A n : Reaches(b.contract, n) <=> Reaches(a.contract, n)
      BY <3>4 DEF Reaches
    <3>6. \A i \in DOMAIN b.contract.requests : ~Due(b.contract, b.contract.requests[i])
      BY <2>1, <3>5 DEF Due
    <3>7. ASSUME NEW l \in Lock, b.paid[l] > 0
          PROVE  Reaches(b.contract, Cardinality(Receivers(l)))
      <4>1. a.paid[l] \in Nat
        BY <1>2 DEF BlockState
      <4>2. CASE a.paid[l] > 0
        BY <3>1, <3>5, <4>2 DEF Quorate
      <4>3. CASE l \in P
        <5>1. PICK A \in SUBSET Server : /\ Reaches(a.contract, Cardinality(A))
                                         /\ \A s : s \in A <=> Sponsors(R, s, l)
          BY <2>1, <4>3
        <5>2. A \in SUBSET Receivers(l)
          BY <2>4, <3>3, <5>1 DEF Receivers
        <5>3. IsFiniteSet(Receivers(l))
          <6>1. Receivers(l) \subseteq Server
            BY SetupFacts DEF Receivers, SafeInv, TypeInv
          <6> QED
            BY <6>1, CrossAssumption, FS_Subset
        <5>4. Reaches(a.contract, Cardinality(Receivers(l)))
          BY <3>1, <5>1, <5>2, <5>3, MoreReaches
        <5> QED
          BY <3>5, <5>4
      <4> QED
        BY <2>1, <3>7, <4>1, <4>2, <4>3
    <3>8. \A s \in Server, l \in Lock : Sponsors(b.contract.requests, s, l) => s \in setup.authority
      BY <2>3, <3>3
    <3>9. b.contract.authority = setup.authority
      BY <3>1, <3>4 DEF Quorate
    <3> QED
      BY <3>6, <3>7, <3>8, <3>9 DEF Quorate
  <2> QED
    BY <1>4, <2>6, <2>7, <2>8 DEF SafeChains
<1> QED
  BY <1>1, <1>4, <1>5, <1>6, <1>7

(* A block keeps what is known, and the rest of the contract.              *)
LEMMA BlockKnown ==
  ASSUME SafeInv, TypeInv', NEW order \in Orders, ProcessBlock(order)
  PROVE  SafeInv' /\ SameContract(contract, contract')
<1>1. PICK txs \in Seq(RawTx) :
        /\ InBlock(order, txs) /\ Chain' = RunAll(Chain, txs) /\ ToSet(order) \subseteq Servers
  BY BlockChain DEF SafeInv
<1>2. ToSet(txs) \subseteq ReceivedTx
  <2>1. ToSet(order) \subseteq Server
    BY <1>1, SetupFacts DEF SafeInv, TypeInv
  <2>2. \A s \in Server : ToSet(local[s]) \subseteq ReceivedTx
    BY DEF SafeInv, PoolKnown, Signed, ReceivedTx
  <2> QED
    BY <1>1, <2>1, <2>2 DEF InBlock
<1>3. Chain \in SafeChains
  <2>1. SameContract(contract, Chain.contract)
    BY DEF SameContract, Chain
  <2> QED
    BY <2>1 DEF SafeChains, SafeInv, ChainKnown, TypeInv, ChainType
<1>4. Chain' \in SafeChains
  <2>1. SafeChains \in SUBSET BlockState /\ ReceivedTx \in SUBSET RawTx /\ now \in Nat
    BY DEF SafeChains, ReceivedTx, SafeInv, TypeInv
  <2>2. \A a \in SafeChains : \A tx \in ReceivedTx : RunTx(a, tx) \in SafeChains
    BY TxKnown
  <2> QED
    BY <1>1, <1>2, <1>3, <2>1, <2>2, BlockKeeps
<1>5. UNCHANGED <<setup, parserVars, newSpv, lightVars, pool, local, now, events>>
  BY DEF ProcessBlock
<1>6. PICK b \in SafeChains : b = Chain' /\ b.contract = contract'
  BY <1>4 DEF Chain
<1>7. SameContract(contract, contract') /\ KnownChain(b) /\ (events.changes = 0 => Quorate(b))
  BY <1>6 DEF SafeChains
<1>8. ChainKnown'
  <2>1. KnownChain(Chain)'
    BY <1>5, <1>6, <1>7 DEF KnownChain, lightVars
  <2>2. (events.changes = 0 => Quorate(Chain))'
    BY <1>5, <1>6, <1>7 DEF Quorate, Receivers, lightVars
  <2>3. VotesKnown'
    BY <1>5, <1>7 DEF SafeInv, ChainKnown, VotesKnown, SameContract
  <2> QED
    BY <2>1, <2>2, <2>3 DEF ChainKnown
<1>9. LightKnown'
  BY <1>5 DEF SafeInv, LightKnown, EnoughValid, SpvValid, Parsers, parserVars, lightVars
<1>10. PoolKnown'
  BY <1>5 DEF SafeInv, PoolKnown, Signed, lightVars
<1> QED
  BY <1>7, <1>8, <1>9, <1>10 DEF SafeInv

(* And so does a vote.                                                     *)
LEMMA VotesSafe ==
  ASSUME SafeInv, TypeInv', NEW s \in Server, NEW agreed \in SUBSET Server, NEW c, Own(s, agreed, c)
  PROVE  SafeInv'
<1>1. /\ events' = [events EXCEPT !.changes = @ + 1, !.agreed = agreed] /\ contract' = c
      /\ UNCHANGED <<setup, parserVars, newSpv, lightVars, pool, fullVars, paid, ended>>
      /\ c.requests = contract.requests
  BY DEF Own, OwnTransaction, Voted
<1>2. events'.changes # 0 /\ events'.agreed = agreed
  <2>1. events \in [faults : Nat, changes : Nat, overlaps : BOOLEAN, agreed : SUBSET Server]
    BY DEF SafeInv, TypeInv, EventType
  <2>2. PICK n \in Nat : n = events.changes + 1 /\ n # 0
    BY <2>1
  <2> QED
    BY <1>1, <2>1, <2>2
<1>3. Counted(contract, c, agreed)
  BY DEF Own, SafeInv, ChainKnown, VotesKnown
<1>4. ChainKnown'
  <2>1. VotesKnown'
    BY <1>1, <1>2, <1>3 DEF VotesKnown, Counted
  <2>2. KnownChain(Chain)'
    BY <1>1 DEF SafeInv, ChainKnown, KnownChain, Chain, lightVars
  <2> QED
    BY <1>2, <2>1, <2>2 DEF ChainKnown
<1>5. LightKnown'
  BY <1>1 DEF SafeInv, LightKnown, EnoughValid, SpvValid, Parsers, parserVars, lightVars
<1>6. PoolKnown'
  BY <1>1 DEF SafeInv, PoolKnown, Signed, lightVars, fullVars
<1> QED
  BY <1>4, <1>5, <1>6 DEF SafeInv

(* What is known at first: nothing.                                        *)
LEMMA InitKnown == Init => SafeInv
<1> SUFFICES ASSUME Init PROVE SafeInv
  OBVIOUS
<1>1. TypeInv
  BY InitType
<1>2. ToSet(<< >>) = {}
  BY DEF ToSet
<1>3. LightKnown /\ PoolKnown
  BY <1>2 DEF Init, LightKnown, PoolKnown
<1>4. contract = Created(setup) /\ ended = {} /\ paid = [l \in Lock |-> 0]
  BY DEF Init
<1>5. contract.requests = << >> /\ contract.agree = {} /\ contract.authority = setup.authority
  BY <1>4 DEF Created
<1>6. \A s, l : ~Sponsors(contract.requests, s, l) /\ ~Over(ended, s, l)
  BY <1>4, <1>5 DEF Sponsors, Over
<1>7. ChainKnown
  BY <1>4, <1>5, <1>6 DEF ChainKnown, KnownChain, VotesKnown, Quorate, Chain
<1> QED
  BY <1>1, <1>3, <1>7 DEF SafeInv

(* Every step keeps what is known.                                         *)
LEMMA NextKnown == SafeInv /\ [Next]_vars => SafeInv'
<1> SUFFICES ASSUME SafeInv, [Next]_vars PROVE SafeInv'
  OBVIOUS
<1>1. TypeInv'
  BY NextType DEF SafeInv
<1>2. ASSUME NEW p \in Parsers,
             \/ ParseTransactions(p) \/ SaveSendedSpv(p) \/ SendSpv(p)
             \/ SaveBlockNumber(p) \/ ParserCrash(p)
      PROVE  SafeInv'
  BY <1>1, <1>2, FarSteps, FarKnown DEF SafeInv
<1>3. ASSUME NEW m \in newSpv, NewSpv(m) PROVE SafeInv'
  BY <1>1, <1>3, ReceivedKnown
<1>4. ASSUME NEW m \in newSpv, Lose(m) PROVE SafeInv'
  BY <1>1, <1>4, FarSteps, FarKnown DEF SafeInv
<1>5. ASSUME NEW s \in Servers, NEW h \in handlers[s],
             \/ SaveWaitingCrossPay(s, h) \/ LeaveWaiting(s, h) \/ GetWaitingCrossPay(s, h)
             \/ DestroyRow(s, h) \/ ReadAccount(s, h) \/ SaveRawTransaction(s, h)
      PROVE  SafeInv'
  BY <1>1, <1>5, HandlersKnown
<1>6. ASSUME NEW s \in Servers,
             \/ GetRawTransactions(s) \/ DeleteTransactions(s)
             \/ FlushFails(s) \/ LightServerCrash(s) \/ FullServerCrash(s)
      PROVE  SafeInv'
  BY <1>1, <1>6, ServersKnown
<1>7. ASSUME NEW order \in Orders, ProcessBlock(order) PROVE SafeInv'
  BY <1>1, <1>7, BlockKnown
<1>8. ASSUME NEW s \in Servers,
             \/ \E t \in Servers : ModifyAuthorities(s, {t}, {}) \/ ModifyAuthorities(s, {}, {t})
             \/ Agree(s) \/ Reject(s)
      PROVE  SafeInv'
  <2>1. s \in Server
    BY SetupFacts DEF SafeInv, TypeInv
  <2>2. PICK agreed, c : agreed \in SUBSET Server /\ Own(s, agreed, c)
    BY <1>8, VotesOwn DEF SafeInv
  <2> QED
    BY <1>1, <2>1, <2>2, VotesSafe
<1>9. CASE LockCoins \/ AppendGuarantee \/ Tick \/ UNCHANGED vars
  BY <1>1, <1>9, FarSteps, FarKnown DEF SafeInv
<1> QED
  BY <1>2, <1>3, <1>4, <1>5, <1>6, <1>7, <1>8, <1>9 DEF Next

(* What is known is known always.                                         *)
LEMMA Safe == Spec => []SafeInv
  BY InitKnown, NextKnown, PTL DEF Spec

(* It implies that payments are verified.                                 *)
LEMMA SafeVerified == SafeInv => PaymentsVerified
<1> SUFFICES ASSUME SafeInv PROVE PaymentsVerified
  OBVIOUS
<1>1. contract.requests \in Requests
  BY DEF SafeInv, TypeInv, ChainType, Chain, BlockState, Requests, Contract
<1>2. ASSUME NEW i \in DOMAIN contract.requests, NEW s \in contract.requests[i].sponsors
      PROVE  contract.requests[i].lock \in received[s]
  <2>1. s \in Server /\ contract.requests[i].lock \in Lock
    BY <1>1, <1>2, RequestTypes
  <2>2. Sponsors(contract.requests, s, contract.requests[i].lock)
    BY <1>2 DEF Sponsors
  <2> QED
    BY <2>1, <2>2 DEF SafeInv, ChainKnown, KnownChain, Chain
<1>3. ASSUME NEW s \in Servers, NEW l \in received[s]
      PROVE  10 * Cardinality({p \in Parsers : SpvValid(p, l)}) >= 8 * Cardinality(Parsers)
  <2>1. EnoughValid(l)
    BY SetupFacts DEF SafeInv, LightKnown, TypeInv
  <2>2. IsFiniteSet(Parsers)
    BY SetupFacts, CrossAssumption, FS_Subset DEF SafeInv, TypeInv
  <2>3. PICK a \in Nat, n \in Nat : a = Cardinality({p \in Parsers : SpvValid(p, l)})
                                   /\ n = Cardinality(Parsers)
    BY <2>2, FS_Subset, FS_CardinalityType
  <2>4. a * 10 >= 8 * n
    BY <2>1, <2>3 DEF EnoughValid
  <2>5. 10 * a >= 8 * n
    BY <2>4
  <2> QED
    BY <2>3, <2>5
<1>4. ASSUME NEW l \in Lock, paid[l] > 0, events.changes = 0
      PROVE  Reaches(contract, Cardinality({s \in setup.authority : l \in received[s]}))
  BY <1>4 DEF SafeInv, ChainKnown, Quorate, Chain, Receivers
<1> QED
  BY <1>2, <1>3, <1>4 DEF PaymentsVerified

(* A server sponsors only a lock it has seen confirmed by enough nodes of *)
(* the locking chain, and while the authorities stay a paid lock was seen *)
(* by the threshold of them.                                              *)
THEOREM PaymentsAlwaysVerified == Spec => []PaymentsVerified
  BY Safe, SafeVerified, PTL

(* While the authorities stay, CROSS_PAY leaves no request that has its   *)
(* sponsors.                                                              *)
THEOREM NeverLeftDue == Spec => []NoneLeftDue
<1>1. SafeInv => NoneLeftDue
  BY DEF SafeInv, ChainKnown, Quorate, Chain, NoneLeftDue
<1> QED
  BY <1>1, Safe, PTL

(* The authorities change only by a vote in which the threshold of them   *)
(* agreed to the latest request.                                          *)
THEOREM AuthoritiesAlwaysApproved == Spec => AuthoritiesApproved
<1> DEFINE Approved == contract'.authority # contract.authority =>
                         Reaches(contract, Cardinality(events'.agreed \cap contract.authority))
<1>1. SafeInv /\ [Next]_vars => Approved
  <2> SUFFICES ASSUME SafeInv, [Next]_vars, contract' # contract PROVE Approved
    OBVIOUS
  <2>1. TypeInv'
    BY NextType DEF SafeInv
  <2>2. ASSUME NEW order \in Orders, ProcessBlock(order) PROVE Approved
    BY <2>1, <2>2, BlockKnown DEF SameContract
  <2>3. ASSUME NEW s \in Servers,
               \/ \E t \in Servers : ModifyAuthorities(s, {t}, {}) \/ ModifyAuthorities(s, {}, {t})
               \/ Agree(s) \/ Reject(s)
        PROVE  Approved
    <3>1. PICK agreed, c : agreed \in SUBSET Server /\ Own(s, agreed, c)
      BY <2>3, VotesOwn DEF SafeInv
    <3>2. Counted(contract, c, agreed) /\ contract' = c
      BY <3>1 DEF Own, OwnTransaction, SafeInv, ChainKnown, VotesKnown
    <3>3. events'.agreed = agreed
      <4>1. events \in [faults : Nat, changes : Nat, overlaps : BOOLEAN, agreed : SUBSET Server]
        BY DEF SafeInv, TypeInv, EventType
      <4> QED
        BY <3>1, <4>1 DEF Own, OwnTransaction
    <3>4. IsFiniteSet(agreed \cap contract.authority) /\ contract \in Contract
      BY <3>1, CrossAssumption, FS_Subset DEF SafeInv, TypeInv, ChainType, Chain, BlockState
    <3> QED
      BY <3>2, <3>3, <3>4, MoreReaches DEF Counted
  <2>4. ASSUME NEW s \in Servers, NEW h \in handlers[s],
               \/ SaveWaitingCrossPay(s, h) \/ LeaveWaiting(s, h) \/ GetWaitingCrossPay(s, h)
               \/ DestroyRow(s, h) \/ ReadAccount(s, h) \/ SaveRawTransaction(s, h)
        PROVE  FALSE
    <3>1. contract' = contract
      BY <2>4 DEF SaveWaitingCrossPay, LeaveWaiting, GetWaitingCrossPay, DestroyRow, ReadAccount,
         SaveRawTransaction, HandlerStep, chainVars
    <3> QED
      BY <3>1
  <2>5. ASSUME NEW s \in Servers,
               \/ GetRawTransactions(s) \/ DeleteTransactions(s)
               \/ FlushFails(s) \/ LightServerCrash(s) \/ FullServerCrash(s)
        PROVE  FALSE
    <3>1. contract' = contract
      BY <2>5 DEF GetRawTransactions, DeleteTransactions, FlushFails, LightServerCrash,
         FullServerCrash, chainVars
    <3> QED
      BY <3>1
  <2>6. ASSUME NEW m \in newSpv, NewSpv(m) PROVE FALSE
    <3>1. contract' = contract
      BY <2>6 DEF NewSpv, chainVars
    <3> QED
      BY <3>1
  <2>7. ~Far
    BY DEF Far
  <2> QED
    BY <2>2, <2>3, <2>4, <2>5, <2>6, <2>7, FarSteps DEF Next, SafeInv
<1> QED
  BY <1>1, Safe, PTL DEF Spec, AuthoritiesApproved

(***************************************************************************)
(* The way of a lock.  The places where server s may have lock l: noted in *)
(* its table w, held by a handler of H, queued in its pool P, and on chain *)
(* b among the sponsors of a request or over.                              *)
(***************************************************************************)
Noted(w, l) == \E i \in DOMAIN w : w[i] = l

InHand(H, s, l) == \E h \in H : l \in Held(s, h)

QueuedAt(P, R, l, i) == P[i] \notin R /\ l \in ToSet(P[i].locks)

Queued(P, R, l) == \E i \in DOMAIN P : QueuedAt(P, R, l, i)

Placed(w, H, P, b, s, l) ==
  \/ Noted(w, l) \/ InHand(H, s, l) \/ Queued(P, b.ran, l)
  \/ Sponsors(b.contract.requests, s, l) \/ Over(b.ended, s, l)

NotedOnce(w, l) == \A i, j \in DOMAIN w : w[i] = l /\ w[j] = l => i = j

HeldOnce(H, s, l) == \A g, h \in H : l \in Held(s, g) /\ l \in Held(s, h) => g = h

QueuedOnce(P, R, l) ==
  \A i, j \in DOMAIN P : QueuedAt(P, R, l, i) /\ QueuedAt(P, R, l, j) => i = j

OverOnce(e, s, l) == \A c, d \in Causes : <<s, l, c>> \in e /\ <<s, l, d>> \in e => c = d

AtMostOne(a, b, c, d, e) ==
  /\ a => ~b /\ ~c /\ ~d /\ ~e
  /\ b => ~c /\ ~d /\ ~e
  /\ c => ~d /\ ~e
  /\ d => ~e

(* It is at one place at most, and once. *)
Alone(w, H, P, b, s, l) ==
  /\ NotedOnce(w, l) /\ HeldOnce(H, s, l) /\ QueuedOnce(P, b.ran, l) /\ OverOnce(b.ended, s, l)
  /\ AtMostOne(Noted(w, l), InHand(H, s, l), Queued(P, b.ran, l),
               Sponsors(b.contract.requests, s, l), Over(b.ended, s, l))

(* A flush has yet to delete only rows that are there, each once, and no   *)
(* other flush deletes them.                                               *)
Flushes(w, H) ==
  /\ \A h \in H : h.step = "flushing" =>
       /\ \A i \in 1 .. Len(h.rows) : i > h.destroyed => Noted(w, h.rows[i])
       /\ \A i, j \in 1 .. Len(h.rows) : h.rows[i] = h.rows[j] => i = j
  /\ \A g, h \in H : g.step = "flushing" /\ h.step = "flushing" /\ g # h =>
       ToSet(g.rows) \cap ToSet(h.rows) = {}

(* The received locks are somewhere, no nonce is ahead, and in calm times  *)
(* locks are alone.                                                        *)
Tracked(w, H, P, b, s, rec, calm) ==
  /\ \A l \in rec : Placed(w, H, P, b, s, l)
  /\ \A h \in H : h.step = "read" => h.nonce <= b.nonce[s] + 1
  /\ \A i \in DOMAIN P : P[i].nonce <= b.nonce[s] + 1
  /\ calm => Flushes(w, H) /\ \A l \in Lock : Alone(w, H, P, b, s, l)

(* What a handler holds. *)
LEMMA HeldCases ==
  ASSUME NEW h \in SoundHandler, NEW s
  PROVE  /\ h.step = "received" => Held(s, h) = {h.lock}
         /\ h.step = "saved" => Held(s, h) = {}
         /\ h.step \in {"flushing", "flushed", "read"} =>
              \A x : x \in Held(s, h) <=> \E i \in 1 .. h.destroyed : x = h.rows[i]
         /\ h.step \in {"flushed", "read"} => Held(s, h) = ToSet(h.rows)
<1>1. /\ h \in Handler /\ h.rows \in Seq(Lock) /\ h.destroyed \in Nat
      /\ h.step \in {"flushing", "flushed", "read"} => h.destroyed <= Len(h.rows)
      /\ h.step \in {"flushed", "read"} => h.destroyed = Len(h.rows)
  BY DEF SoundHandler, Handler
<1>2. ASSUME h.step \in {"flushing", "flushed", "read"}
      PROVE  \A x : x \in Held(s, h) <=> \E i \in 1 .. h.destroyed : x = h.rows[i]
  <2>1. PICK q \in Seq(Lock), d \in Nat : q = h.rows /\ d = h.destroyed /\ d <= Len(q)
    BY <1>1, <1>2
  <2>2. PICK r : r = SubSeq(q, 1, d) /\ Prefix(q, d, r)
    BY <2>1, PrefixSet
  <2>3. Held(s, h) = ToSet(r)
    BY <1>2, <2>1, <2>2 DEF Held
  <2> QED
    BY <2>1, <2>2, <2>3 DEF Prefix
<1>3. ASSUME h.step \in {"flushed", "read"} PROVE Held(s, h) = ToSet(h.rows)
  <2>1. \A x : x \in Held(s, h) <=> \E i \in 1 .. Len(h.rows) : x = h.rows[i]
    BY <1>1, <1>2, <1>3
  <2>2. DOMAIN h.rows = 1 .. Len(h.rows)
    BY <1>1
  <2> QED
    BY <2>1, <2>2 DEF ToSet
<1> QED
  BY <1>2, <1>3 DEF Held

(* A handler that is replaced by one, or by none, that holds what it held. *)
Swapped(H, h, to) == (H \ {h}) \cup to

(* After the swap the others hold what they held, and the new one its own. *)
LEMMA SwapHolds ==
  ASSUME NEW H, NEW h \in H, NEW s, NEW g, NEW l
  PROVE  /\ InHand(Swapped(H, h, {g}), s, l) <=> l \in Held(s, g) \/ InHand(H \ {h}, s, l)
         /\ InHand(Swapped(H, h, {}), s, l) <=> InHand(H \ {h}, s, l)
         /\ InHand(H, s, l) <=> l \in Held(s, h) \/ InHand(H \ {h}, s, l)
         /\ HeldOnce(H, s, l) /\ l \in Held(s, h) => ~InHand(H \ {h}, s, l)
         /\ HeldOnce(H, s, l) => HeldOnce(H \ {h}, s, l) /\ HeldOnce(Swapped(H, h, {}), s, l)
         /\ HeldOnce(H \ {h}, s, l) /\ (l \in Held(s, g) => ~InHand(H \ {h}, s, l))
              => HeldOnce(Swapped(H, h, {g}), s, l)
  BY DEF InHand, HeldOnce, Swapped

(* A lock is noted at the end of the table.                                *)
LEMMA NoteMore ==
  ASSUME NEW w \in Seq(Lock), NEW x \in Lock, NEW v, v = Append(w, x), NEW l
  PROVE  /\ Noted(v, l) <=> Noted(w, l) \/ l = x
         /\ NotedOnce(w, l) /\ (l = x => ~Noted(w, l)) => NotedOnce(v, l)
<1>1. Appended(w, x, v)
  BY AppendSet
<1>2. /\ DOMAIN v = DOMAIN w \cup {Len(w) + 1} /\ v[Len(w) + 1] = x
      /\ \A i \in DOMAIN w : v[i] = w[i]
  BY <1>1 DEF Appended
<1>3. PICK k : k = Len(w) + 1
  OBVIOUS
<1> QED
  BY <1>2, <1>3 DEF Noted, NotedOnce

(* A lock is deleted from it.                                              *)
LEMMA NoteLess ==
  ASSUME NEW w \in Seq(Lock), NEW x, NEW D, D = {x}, NEW v, v = Without(w, D), NEW l
  PROVE  /\ Noted(v, l) <=> Noted(w, l) /\ l # x
         /\ NotedOnce(w, l) => NotedOnce(v, l)
<1>1. v \in Seq(Lock) /\ \E e : Kept(e, w, D, Len(w), v)
  BY WithoutKept
<1>2. PICK e : Kept(e, w, D, Len(w), v)
  BY <1>1
<1>3. PICK m \in Nat, n \in Nat : m = Len(v) /\ n = Len(w) /\ DOMAIN v = 1 .. m /\ DOMAIN w = 1 .. n
  BY <1>1
<1>4. /\ \A j \in 1 .. m : e[j] \in 1 .. n /\ v[j] = w[e[j]] /\ w[e[j]] # x
      /\ \A j, k \in 1 .. m : e[j] = e[k] => j = k
      /\ \A k \in 1 .. n : w[k] # x => \E j \in 1 .. m : e[j] = k
  BY <1>2, <1>3 DEF Kept
<1>5. Noted(v, l) <=> Noted(w, l) /\ l # x
  <2>1. ASSUME NEW j \in 1 .. m, v[j] = l PROVE Noted(w, l) /\ l # x
    <3>1. PICK k \in 1 .. n : k = e[j]
      BY <1>4
    <3>2. w[k] = l /\ w[k] # x
      BY <1>4, <2>1, <3>1
    <3> QED
      BY <1>3, <3>2 DEF Noted
  <2>2. ASSUME NEW k \in 1 .. n, w[k] = l, l # x PROVE Noted(v, l)
    <3>1. PICK j \in 1 .. m : e[j] = k
      BY <1>4, <2>2
    <3>2. v[j] = l
      BY <1>4, <2>2, <3>1
    <3> QED
      BY <1>3, <3>2 DEF Noted
  <2> QED
    BY <1>3, <2>1, <2>2 DEF Noted
<1>6. ASSUME NotedOnce(w, l), NEW i \in 1 .. m, NEW j \in 1 .. m, v[i] = l, v[j] = l PROVE i = j
  <2>1. e[i] \in 1 .. n /\ e[j] \in 1 .. n /\ w[e[i]] = l /\ w[e[j]] = l
    BY <1>4, <1>6
  <2>2. e[i] = e[j]
    BY <1>3, <1>6, <2>1 DEF NotedOnce
  <2> QED
    BY <1>4, <2>2
<1> QED
  BY <1>3, <1>5, <1>6 DEF NotedOnce

Deleted(w, x, v) ==
  \A l : /\ Noted(v, l) <=> Noted(w, l) /\ l # x
         /\ NotedOnce(w, l) => NotedOnce(v, l)

(* The same for all locks.                                                 *)
LEMMA NoteDeleted ==
  ASSUME NEW w \in Seq(Lock), NEW x, NEW v, v = Without(w, {x})
  PROVE  Deleted(w, x, v)
<1>1. ASSUME NEW l PROVE Noted(v, l) <=> Noted(w, l) /\ l # x
  BY NoteLess
<1>2. ASSUME NEW l PROVE NotedOnce(w, l) => NotedOnce(v, l)
  BY NoteLess
<1> QED
  BY <1>1, <1>2 DEF Deleted

(* The step that saves a lock in the table.                                *)
LEMMA TrackSave ==
  ASSUME NEW w \in Seq(Lock), NEW H \in HandlerSets, NEW P, NEW b, NEW s, NEW rec, NEW calm,
         Tracked(w, H, P, b, s, rec, calm),
         NEW h \in H, h.step = "received", NEW g \in SoundHandler, g.step = "saved",
         NEW v, v = Append(w, h.lock)
  PROVE  Tracked(v, Swapped(H, h, {g}), P, b, s, rec, calm)
<1> DEFINE G == Swapped(H, h, {g})
<1>1. /\ h \in SoundHandler /\ h.lock \in Lock
      /\ \A f \in G : f = g \/ f \in H
  BY HandlerParts DEF Swapped
<1>2. Held(s, h) = {h.lock} /\ Held(s, g) = {}
  BY <1>1, HeldCases
<1>3. ASSUME NEW l
      PROVE  /\ InHand(G, s, l) <=> InHand(H \ {h}, s, l)
             /\ InHand(H, s, l) <=> l = h.lock \/ InHand(H \ {h}, s, l)
             /\ Noted(v, l) <=> Noted(w, l) \/ l = h.lock
             /\ NotedOnce(w, l) /\ (l = h.lock => ~Noted(w, l)) => NotedOnce(v, l)
  <2>1. /\ InHand(G, s, l) <=> l \in Held(s, g) \/ InHand(H \ {h}, s, l)
        /\ InHand(H, s, l) <=> l \in Held(s, h) \/ InHand(H \ {h}, s, l)
    BY SwapHolds
  <2>2. PICK x \in Lock : x = h.lock /\ v = Append(w, x)
    BY <1>1
  <2>3. /\ Noted(v, l) <=> Noted(w, l) \/ l = x
        /\ NotedOnce(w, l) /\ (l = x => ~Noted(w, l)) => NotedOnce(v, l)
    BY <2>2, NoteMore
  <2> QED
    BY <1>2, <2>1, <2>2, <2>3
<1>4. ASSUME NEW l \in rec PROVE Placed(v, G, P, b, s, l)
  <2>1. Placed(w, H, P, b, s, l)
    BY DEF Tracked
  <2> QED
    BY <1>3, <2>1 DEF Placed
<1>5. \A f \in G : f.step = "read" => f.nonce <= b.nonce[s] + 1
  BY <1>1 DEF Tracked
<1>6. ASSUME calm PROVE Flushes(v, G)
  <2>1. Flushes(w, H)
    BY <1>6 DEF Tracked
  <2>2. \A f \in G : f.step = "flushing" => f \in H
    BY <1>1
  <2> HIDE DEF G
  <2> QED
    BY <1>3, <2>1, <2>2 DEF Flushes
<1>7. ASSUME calm, NEW l \in Lock PROVE Alone(v, G, P, b, s, l)
  <2>1. Alone(w, H, P, b, s, l)
    BY <1>7 DEF Tracked
  <2>2. HeldOnce(G, s, l)
    BY <1>2, <2>1, SwapHolds DEF Alone
  <2>3. l = h.lock => ~Noted(w, l) /\ ~InHand(H \ {h}, s, l)
    BY <1>2, <1>3, <2>1, SwapHolds DEF Alone, AtMostOne
  <2>4. NotedOnce(v, l)
    BY <1>3, <2>1, <2>3 DEF Alone
  <2> HIDE DEF G
  <2> QED
    BY <1>3, <2>1, <2>2, <2>3, <2>4 DEF Alone, AtMostOne
<1> QED
  BY <1>4, <1>5, <1>6, <1>7 DEF Tracked

(* A handler that holds nothing ends.                                      *)
LEMMA TrackLeave ==
  ASSUME NEW w, NEW H \in HandlerSets, NEW P, NEW b, NEW s, NEW rec, NEW calm,
         Tracked(w, H, P, b, s, rec, calm), NEW h \in H, h.step = "saved"
  PROVE  Tracked(w, Swapped(H, h, {}), P, b, s, rec, calm)
<1> DEFINE G == Swapped(H, h, {})
<1>1. h \in SoundHandler /\ G \subseteq H
  BY HandlerParts DEF Swapped
<1>2. Held(s, h) = {}
  BY <1>1, HeldCases
<1>3. \A l : InHand(G, s, l) <=> InHand(H, s, l)
  BY <1>2, SwapHolds
<1>4. \A l : HeldOnce(H, s, l) => HeldOnce(G, s, l)
  BY SwapHolds
<1>5. ASSUME NEW l \in rec PROVE Placed(w, G, P, b, s, l)
  BY <1>3, <1>5 DEF Tracked, Placed
<1> HIDE DEF G
<1>6. \A f \in G : f.step = "read" => f.nonce <= b.nonce[s] + 1
  BY <1>1 DEF Tracked
<1>7. ASSUME calm PROVE Flushes(w, G)
  BY <1>1, <1>7 DEF Tracked, Flushes
<1>8. ASSUME calm, NEW l \in Lock PROVE Alone(w, G, P, b, s, l)
  <2>1. Alone(w, H, P, b, s, l)
    BY <1>8 DEF Tracked
  <2> QED
    BY <1>3, <1>4, <2>1 DEF Alone, AtMostOne
<1>9. Tracked(w, G, P, b, s, rec, calm)
  BY <1>5, <1>6, <1>7, <1>8 DEF Tracked
<1> QED
  BY <1>9 DEF G

(* A handler begins to flush the first rows of the table.  In calm times   *)
(* no other flush has read one of them.                                    *)
LEMMA TrackFlush ==
  ASSUME NEW w \in Seq(Lock), NEW H \in HandlerSets, NEW P, NEW b, NEW s, NEW rec, NEW calm,
         NEW still, Tracked(w, H, P, b, s, rec, calm),
         NEW h \in H, h.step = "saved", NEW g \in SoundHandler, g.step = "flushing",
         g.destroyed = 0,
         Len(g.rows) <= Len(w), \A i \in 1 .. Len(g.rows) : g.rows[i] = w[i],
         still => calm /\ \A f \in H : f.step = "flushing" => ToSet(f.rows) \cap ToSet(g.rows) = {}
  PROVE  Tracked(w, Swapped(H, h, {g}), P, b, s, rec, still)
<1> DEFINE G == Swapped(H, h, {g})
<1>1. /\ h \in SoundHandler /\ g.rows \in Seq(Lock) /\ Len(g.rows) \in Nat
      /\ \A f \in G : f = g \/ f \in H
  BY HandlerParts DEF Swapped, SoundHandler, Handler
<1>2. Held(s, h) = {}
  BY <1>1, HeldCases
<1>3. Held(s, g) = {}
  <2>1. \A x : x \in Held(s, g) <=> \E i \in 1 .. 0 : x = g.rows[i]
    BY HeldCases
  <2> QED
    BY <2>1
<1>4. \A l : InHand(G, s, l) <=> InHand(H, s, l)
  BY <1>2, <1>3, SwapHolds
<1>5. \A l : HeldOnce(H, s, l) => HeldOnce(G, s, l)
  BY <1>3, SwapHolds
<1>6. ASSUME NEW l \in rec PROVE Placed(w, G, P, b, s, l)
  BY <1>4, <1>6 DEF Tracked, Placed
<1> HIDE DEF G
<1>7. \A f \in G : f.step = "read" => f.nonce <= b.nonce[s] + 1
  BY <1>1 DEF Tracked
<1>8. ASSUME still PROVE Flushes(w, G)
  <2>1. Flushes(w, H) /\ \A l \in Lock : Alone(w, H, P, b, s, l)
    BY <1>8 DEF Tracked
  <2>2. PICK m \in Nat, n \in Nat : /\ m = Len(g.rows) /\ n = Len(w) /\ m <= n
                                    /\ DOMAIN w = 1 .. n /\ \A i \in 1 .. n : w[i] \in Lock
    BY <1>1
  <2>3. \A i \in 1 .. m : Noted(w, g.rows[i])
    <3>1. \A i \in 1 .. m : i \in 1 .. n
      BY <2>2
    <3> QED
      BY <2>2, <3>1 DEF Noted
  <2>4. ASSUME NEW i \in 1 .. m, NEW j \in 1 .. m, g.rows[i] = g.rows[j] PROVE i = j
    <3>1. i \in 1 .. n /\ j \in 1 .. n /\ w[i] \in Lock /\ w[i] = w[j]
      BY <2>2, <2>4
    <3>2. NotedOnce(w, w[i])
      BY <2>1, <3>1 DEF Alone
    <3> QED
      BY <2>2, <3>1, <3>2 DEF NotedOnce
  <2>5. \A f \in H : f.step = "flushing" => ToSet(f.rows) \cap ToSet(g.rows) = {}
    BY <1>8
  <2>6. ASSUME NEW f \in G, f.step = "flushing"
        PROVE  /\ \A i \in 1 .. Len(f.rows) : i > f.destroyed => Noted(w, f.rows[i])
               /\ \A i, j \in 1 .. Len(f.rows) : f.rows[i] = f.rows[j] => i = j
    BY <1>1, <2>1, <2>2, <2>3, <2>4, <2>6 DEF Flushes
  <2>7. ASSUME NEW e \in G, NEW f \in G, e.step = "flushing", f.step = "flushing", e # f
        PROVE  ToSet(e.rows) \cap ToSet(f.rows) = {}
    <3>1. CASE e \in H /\ f \in H
      BY <2>1, <2>7, <3>1 DEF Flushes
    <3>2. CASE e = g \/ f = g
      BY <1>1, <2>5, <2>7, <3>2
    <3> QED
      BY <1>1, <3>1, <3>2
  <2> QED
    BY <2>6, <2>7 DEF Flushes
<1>9. ASSUME still, NEW l \in Lock PROVE Alone(w, G, P, b, s, l)
  <2>1. Alone(w, H, P, b, s, l)
    BY <1>9 DEF Tracked
  <2> QED
    BY <1>4, <1>5, <2>1 DEF Alone, AtMostOne
<1>10. Tracked(w, G, P, b, s, rec, still)
  BY <1>6, <1>7, <1>8, <1>9 DEF Tracked
<1> QED
  BY <1>10 DEF G

(* A handler deletes a row, and holds it from then on.                     *)
LEMMA TrackDestroy ==
  ASSUME NEW w \in Seq(Lock), NEW H \in HandlerSets, NEW P, NEW b, NEW s, NEW rec, NEW calm,
         Tracked(w, H, P, b, s, rec, calm),
         NEW h \in H, h.step = "flushing", NEW g \in SoundHandler,
         g.step \in {"flushing", "flushed"},
         g.rows = h.rows, g.destroyed = h.destroyed + 1,
         NEW x, x = h.rows[h.destroyed + 1], NEW v, v = Without(w, {x})
  PROVE  Tracked(v, Swapped(H, h, {g}), P, b, s, rec, calm)
<1> DEFINE G == Swapped(H, h, {g})
           O == H \ {h}
<1>1. /\ h \in SoundHandler /\ h.rows \in Seq(Lock) /\ h.destroyed \in Nat /\ Len(h.rows) \in Nat
      /\ h.destroyed < Len(h.rows)
  BY HandlerParts
<1>2. PICK d \in Nat, n \in Nat : d = h.destroyed /\ n = Len(h.rows) /\ d < n
  BY <1>1
<1>3. \A f \in G : f = g \/ (f \in H /\ f # h)
  BY DEF Swapped
<1>4. /\ \A l : l \in Held(s, h) <=> \E i \in 1 .. d : l = h.rows[i]
      /\ \A l : l \in Held(s, g) <=> \E i \in 1 .. d + 1 : l = h.rows[i]
  BY <1>1, <1>2, HeldCases
<1>5. \A l : l \in Held(s, g) <=> l \in Held(s, h) \/ l = x
  BY <1>2, <1>4
<1>6. x \in Lock
  BY <1>1, <1>2
<1>7. ASSUME NEW l
      PROVE  /\ InHand(G, s, l) <=> l \in Held(s, g) \/ InHand(O, s, l)
             /\ InHand(H, s, l) <=> l \in Held(s, h) \/ InHand(O, s, l)
             /\ HeldOnce(H, s, l) /\ l \in Held(s, h) => ~InHand(O, s, l)
             /\ HeldOnce(H, s, l) => HeldOnce(O, s, l)
             /\ HeldOnce(O, s, l) /\ (l \in Held(s, g) => ~InHand(O, s, l)) => HeldOnce(G, s, l)
             /\ Noted(v, l) <=> Noted(w, l) /\ l # x
             /\ NotedOnce(w, l) => NotedOnce(v, l)
  <2>1. /\ InHand(G, s, l) <=> l \in Held(s, g) \/ InHand(O, s, l)
        /\ InHand(H, s, l) <=> l \in Held(s, h) \/ InHand(O, s, l)
        /\ HeldOnce(H, s, l) /\ l \in Held(s, h) => ~InHand(O, s, l)
        /\ HeldOnce(H, s, l) => HeldOnce(O, s, l)
        /\ HeldOnce(O, s, l) /\ (l \in Held(s, g) => ~InHand(O, s, l)) => HeldOnce(G, s, l)
    BY SwapHolds
  <2>2. Deleted(w, x, v)
    BY NoteDeleted
  <2> QED
    BY <2>1, <2>2 DEF Deleted
<1> HIDE DEF G, O
<1>8. ASSUME NEW l \in rec PROVE Placed(v, G, P, b, s, l)
  <2>1. Placed(w, H, P, b, s, l)
    BY DEF Tracked
  <2> QED
    BY <1>5, <1>7, <2>1 DEF Placed
<1>9. \A f \in G : f.step = "read" => f.nonce <= b.nonce[s] + 1
  BY <1>3 DEF Tracked
<1>10. ASSUME calm PROVE Flushes(w, H) /\ Noted(w, x)
  <2>1. Flushes(w, H)
    BY <1>10 DEF Tracked
  <2>2. d + 1 \in 1 .. n /\ d + 1 > d
    BY <1>2
  <2> QED
    BY <1>2, <2>1, <2>2 DEF Flushes
<1>11. ASSUME calm PROVE Flushes(v, G)
  <2>1. Flushes(w, H)
    BY <1>10, <1>11
  <2>2. /\ \A i \in 1 .. n : i > d => Noted(w, h.rows[i])
        /\ \A i, j \in 1 .. n : h.rows[i] = h.rows[j] => i = j
    BY <1>2, <2>1 DEF Flushes
  <2>3. ASSUME NEW i \in 1 .. n, i > d + 1 PROVE Noted(v, h.rows[i])
    <3>1. d + 1 \in 1 .. n /\ i > d /\ i # d + 1
      <4>1. d \in Nat /\ n \in Nat /\ d < n
        BY <1>2
      <4> QED
        BY <2>3, <4>1
    <3>2. h.rows[i] # x
      BY <1>2, <2>2, <3>1
    <3> QED
      BY <1>7, <2>2, <3>1, <3>2
  <2>4. x \in ToSet(h.rows)
    <3>1. d + 1 \in DOMAIN h.rows
      BY <1>1, <1>2
    <3> QED
      BY <1>2, <3>1 DEF ToSet
  <2>5. ASSUME NEW f \in G, f.step = "flushing"
        PROVE  /\ \A i \in 1 .. Len(f.rows) : i > f.destroyed => Noted(v, f.rows[i])
               /\ \A i, j \in 1 .. Len(f.rows) : f.rows[i] = f.rows[j] => i = j
    <3>1. CASE f = g
      <4>1. Len(f.rows) = n /\ f.rows = h.rows /\ f.destroyed = d + 1
        BY <1>2, <3>1
      <4>2. \A i \in 1 .. n : i > d + 1 => Noted(v, h.rows[i])
        BY <2>3
      <4> QED
        BY <2>2, <4>1, <4>2
    <3>2. CASE f \in H /\ f # h
      <4>1. ToSet(f.rows) \cap ToSet(h.rows) = {}
        BY <2>1, <2>5, <3>2 DEF Flushes
      <4>2. f.rows \in Seq(Lock)
        BY <3>2, HandlerParts
      <4>3. ASSUME NEW i \in 1 .. Len(f.rows) PROVE f.rows[i] # x
        <5>1. f.rows[i] \in ToSet(f.rows)
          BY <4>2, <4>3 DEF ToSet
        <5> QED
          BY <2>4, <4>1, <5>1
      <4>4. /\ \A i \in 1 .. Len(f.rows) : i > f.destroyed => Noted(w, f.rows[i])
            /\ \A i, j \in 1 .. Len(f.rows) : f.rows[i] = f.rows[j] => i = j
        BY <2>1, <2>5, <3>2 DEF Flushes
      <4> QED
        BY <1>7, <4>3, <4>4
    <3> QED
      BY <1>3, <3>1, <3>2
  <2>6. ASSUME NEW e \in G, NEW f \in G, e.step = "flushing", f.step = "flushing", e # f
        PROVE  ToSet(e.rows) \cap ToSet(f.rows) = {}
    BY <1>3, <2>1, <2>6 DEF Flushes
  <2> QED
    BY <2>5, <2>6 DEF Flushes
<1>12. ASSUME calm, NEW l \in Lock PROVE Alone(v, G, P, b, s, l)
  <2>1. Alone(w, H, P, b, s, l) /\ Noted(w, x)
    BY <1>10, <1>12 DEF Tracked
  <2>2. HeldOnce(G, s, l)
    BY <1>5, <1>7, <2>1 DEF Alone, AtMostOne
  <2> QED
    BY <1>5, <1>7, <2>1, <2>2 DEF Alone, AtMostOne
<1>13. Tracked(v, G, P, b, s, rec, calm)
  BY <1>8, <1>9, <1>11, <1>12 DEF Tracked
<1> QED
  BY <1>13 DEF G

(* A handler takes the next nonce.                                         *)
LEMMA TrackRead ==
  ASSUME NEW w, NEW H \in HandlerSets, NEW P, NEW b, NEW s, NEW rec, NEW calm,
         Tracked(w, H, P, b, s, rec, calm),
         NEW h \in H, h.step = "flushed", NEW g \in SoundHandler, g.step = "read",
         g.rows = h.rows, g.nonce = b.nonce[s] + 1, b.nonce[s] \in Nat
  PROVE  Tracked(w, Swapped(H, h, {g}), P, b, s, rec, calm)
<1> DEFINE G == Swapped(H, h, {g})
           O == H \ {h}
<1>1. h \in SoundHandler /\ \A f \in G : f = g \/ f \in H
  BY HandlerParts DEF Swapped
<1>2. Held(s, g) = Held(s, h)
  BY <1>1, HeldCases
<1>3. ASSUME NEW l
      PROVE  /\ InHand(G, s, l) <=> l \in Held(s, g) \/ InHand(O, s, l)
             /\ InHand(H, s, l) <=> l \in Held(s, h) \/ InHand(O, s, l)
             /\ HeldOnce(H, s, l) /\ l \in Held(s, h) => ~InHand(O, s, l)
             /\ HeldOnce(H, s, l) => HeldOnce(O, s, l)
             /\ HeldOnce(O, s, l) /\ (l \in Held(s, g) => ~InHand(O, s, l)) => HeldOnce(G, s, l)
  BY SwapHolds
<1> HIDE DEF G, O
<1>4. \A l : InHand(G, s, l) <=> InHand(H, s, l)
  BY <1>2, <1>3
<1>5. \A l : HeldOnce(H, s, l) => HeldOnce(G, s, l)
  BY <1>2, <1>3
<1>6. ASSUME NEW l \in rec PROVE Placed(w, G, P, b, s, l)
  BY <1>4, <1>6 DEF Tracked, Placed
<1>7. \A f \in G : f.step = "read" => f.nonce <= b.nonce[s] + 1
  BY <1>1 DEF Tracked
<1>8. ASSUME calm PROVE Flushes(w, G)
  <2>1. \A f \in G : f.step = "flushing" => f \in H
    BY <1>1
  <2> QED
    BY <1>8, <2>1 DEF Tracked, Flushes
<1>9. ASSUME calm, NEW l \in Lock PROVE Alone(w, G, P, b, s, l)
  <2>1. Alone(w, H, P, b, s, l)
    BY <1>9 DEF Tracked
  <2> QED
    BY <1>4, <1>5, <2>1 DEF Alone, AtMostOne
<1>10. Tracked(w, G, P, b, s, rec, calm)
  BY <1>6, <1>7, <1>8, <1>9 DEF Tracked
<1> QED
  BY <1>10 DEF G

(* What ran left its locks with their sponsors or over.                    *)
Placing(b) ==
  \A tx \in b.ran : \A l \in ToSet(tx.locks) :
    Sponsors(b.contract.requests, tx.from, l) \/ Over(b.ended, tx.from, l)

(* A transaction enters the pool.                                          *)
LEMMA QueueMore ==
  ASSUME NEW P \in Seq(RawTx), NEW tx \in RawTx, NEW Q, Q = Append(P, tx), NEW R, NEW l
  PROVE  /\ Queued(Q, R, l) <=> Queued(P, R, l) \/ (tx \notin R /\ l \in ToSet(tx.locks))
         /\ QueuedOnce(P, R, l) /\ (tx \notin R /\ l \in ToSet(tx.locks) => ~Queued(P, R, l))
              => QueuedOnce(Q, R, l)
<1>1. Appended(P, tx, Q)
  BY AppendSet
<1>2. /\ DOMAIN Q = DOMAIN P \cup {Len(P) + 1} /\ Q[Len(P) + 1] = tx
      /\ \A i \in DOMAIN P : Q[i] = P[i]
  BY <1>1 DEF Appended
<1>3. PICK k : k = Len(P) + 1
  OBVIOUS
<1>4. DOMAIN Q = DOMAIN P \cup {k} /\ Q[k] = tx /\ \A i \in DOMAIN P : Q[i] = P[i]
  BY <1>2, <1>3
<1>5. /\ \A i \in DOMAIN P : QueuedAt(Q, R, l, i) <=> QueuedAt(P, R, l, i)
      /\ QueuedAt(Q, R, l, k) <=> tx \notin R /\ l \in ToSet(tx.locks)
  BY <1>4 DEF QueuedAt
<1> QED
  BY <1>4, <1>5 DEF Queued, QueuedOnce

(* Transactions that ran leave it.                                         *)
LEMMA QueueLess ==
  ASSUME NEW P \in Seq(RawTx), NEW D, NEW Q, Q = Without(P, D), NEW R, D \subseteq R, NEW l
  PROVE  /\ Queued(Q, R, l) <=> Queued(P, R, l)
         /\ QueuedOnce(P, R, l) => QueuedOnce(Q, R, l)
<1>1. Q \in Seq(RawTx) /\ \E e : Kept(e, P, D, Len(P), Q)
  BY WithoutKept
<1>2. PICK e : Kept(e, P, D, Len(P), Q)
  BY <1>1
<1>3. PICK m \in Nat, n \in Nat : m = Len(Q) /\ n = Len(P) /\ DOMAIN Q = 1 .. m /\ DOMAIN P = 1 .. n
  BY <1>1
<1>4. /\ \A j \in 1 .. m : e[j] \in 1 .. n /\ Q[j] = P[e[j]] /\ P[e[j]] \notin D
      /\ \A j, k \in 1 .. m : e[j] = e[k] => j = k
      /\ \A k \in 1 .. n : P[k] \notin D => \E j \in 1 .. m : e[j] = k
  BY <1>2, <1>3 DEF Kept
<1>5. ASSUME NEW j \in 1 .. m, QueuedAt(Q, R, l, j)
      PROVE  e[j] \in 1 .. n /\ QueuedAt(P, R, l, e[j])
  BY <1>4, <1>5 DEF QueuedAt
<1>6. ASSUME NEW k \in 1 .. n, QueuedAt(P, R, l, k)
      PROVE  \E j \in 1 .. m : QueuedAt(Q, R, l, j)
  <2>1. P[k] \notin D
    BY <1>6 DEF QueuedAt
  <2>2. PICK j \in 1 .. m : e[j] = k
    BY <1>4, <2>1
  <2>3. Q[j] = P[k]
    BY <1>4, <2>2
  <2> QED
    BY <1>6, <2>3 DEF QueuedAt
<1>7. ASSUME QueuedOnce(P, R, l), NEW i \in 1 .. m, NEW j \in 1 .. m,
             QueuedAt(Q, R, l, i), QueuedAt(Q, R, l, j)
      PROVE  i = j
  <2>1. e[i] = e[j]
    BY <1>3, <1>5, <1>7 DEF QueuedOnce
  <2> QED
    BY <1>4, <2>1
<1> QED
  BY <1>3, <1>5, <1>6, <1>7 DEF Queued, QueuedOnce

(* A handler sends its transaction.                                        *)
LEMMA TrackSend ==
  ASSUME NEW w, NEW H \in HandlerSets, NEW P \in Seq(RawTx), NEW b, NEW s, NEW rec, NEW calm,
         Tracked(w, H, P, b, s, rec, calm), Placing(b),
         NEW h \in H, h.step = "read", NEW tx \in RawTx, tx.from = s, tx.locks = h.rows,
         tx.nonce = h.nonce, NEW Q, Q = Append(P, tx)
  PROVE  Tracked(w, Swapped(H, h, {}), Q, b, s, rec, calm)
<1> DEFINE G == Swapped(H, h, {})
           O == H \ {h}
<1>1. h \in SoundHandler /\ G \subseteq H
  BY HandlerParts DEF Swapped
<1>2. Held(s, h) = ToSet(tx.locks)
  BY <1>1, HeldCases
<1>3. ASSUME NEW l
      PROVE  /\ InHand(G, s, l) <=> InHand(O, s, l)
             /\ InHand(H, s, l) <=> l \in Held(s, h) \/ InHand(O, s, l)
             /\ HeldOnce(H, s, l) /\ l \in Held(s, h) => ~InHand(O, s, l)
             /\ HeldOnce(H, s, l) => HeldOnce(G, s, l)
  BY SwapHolds
<1>4. \A l :
        Queued(Q, b.ran, l) <=> Queued(P, b.ran, l) \/ (tx \notin b.ran /\ l \in ToSet(tx.locks))
  BY QueueMore
<1>5. \A l :
        /\ QueuedOnce(P, b.ran, l)
        /\ (tx \notin b.ran /\ l \in ToSet(tx.locks) => ~Queued(P, b.ran, l))
        => QueuedOnce(Q, b.ran, l)
  BY QueueMore
<1>6. tx \in b.ran => \A l \in ToSet(tx.locks) :
        Sponsors(b.contract.requests, s, l) \/ Over(b.ended, s, l)
  BY DEF Placing
<1>7. /\ DOMAIN Q = DOMAIN P \cup {Len(P) + 1} /\ Q[Len(P) + 1] = tx
      /\ \A i \in DOMAIN P : Q[i] = P[i]
  BY AppendSet DEF Appended
<1> HIDE DEF G, O
<1>8. ASSUME NEW l \in rec PROVE Placed(w, G, Q, b, s, l)
  <2>1. Placed(w, H, P, b, s, l)
    BY <1>8 DEF Tracked
  <2> QED
    BY <1>2, <1>3, <1>4, <1>6, <2>1 DEF Placed
<1>9. \A f \in G : f.step = "read" => f.nonce <= b.nonce[s] + 1
  BY <1>1 DEF Tracked
<1>10. \A i \in DOMAIN Q : Q[i].nonce <= b.nonce[s] + 1
  BY <1>7 DEF Tracked
<1>11. ASSUME calm PROVE Flushes(w, G)
  BY <1>1, <1>11 DEF Tracked, Flushes
<1>12. ASSUME calm, NEW l \in Lock PROVE Alone(w, G, Q, b, s, l)
  <2>1. Alone(w, H, P, b, s, l)
    BY <1>12 DEF Tracked
  <2>2. HeldOnce(G, s, l)
    BY <1>3, <2>1 DEF Alone
  <2>3. tx \notin b.ran /\ l \in ToSet(tx.locks) => ~Queued(P, b.ran, l)
    BY <1>2, <1>3, <2>1 DEF Alone, AtMostOne
  <2>4. QueuedOnce(Q, b.ran, l)
    BY <1>5, <2>1, <2>3 DEF Alone
  <2> QED
    BY <1>2, <1>3, <1>4, <2>1, <2>2, <2>4 DEF Alone, AtMostOne
<1>13. Tracked(w, G, Q, b, s, rec, calm)
  BY <1>8, <1>9, <1>10, <1>11, <1>12 DEF Tracked
<1> QED
  BY <1>13 DEF G

(* Transactions that ran are deleted.                                      *)
LEMMA TrackDelete ==
  ASSUME NEW w, NEW H, NEW P \in Seq(RawTx), NEW b, NEW s, NEW rec, NEW calm,
         Tracked(w, H, P, b, s, rec, calm), NEW D, D \subseteq b.ran, NEW Q, Q = Without(P, D)
  PROVE  Tracked(w, H, Q, b, s, rec, calm)
<1>1. /\ \A l : Queued(Q, b.ran, l) <=> Queued(P, b.ran, l)
      /\ \A l : QueuedOnce(P, b.ran, l) => QueuedOnce(Q, b.ran, l)
  BY QueueLess
<1>2. \A i \in DOMAIN Q : Q[i].nonce <= b.nonce[s] + 1
  <2>1. ToSet(Q) \subseteq ToSet(P)
    BY WithoutSet
  <2> QED
    BY <2>1 DEF Tracked, ToSet
<1>3. ASSUME NEW l \in rec PROVE Placed(w, H, Q, b, s, l)
  BY <1>1, <1>3 DEF Tracked, Placed
<1>4. ASSUME calm, NEW l \in Lock PROVE Alone(w, H, Q, b, s, l)
  <2>1. Alone(w, H, P, b, s, l)
    BY <1>4 DEF Tracked
  <2> QED
    BY <1>1, <2>1 DEF Alone, AtMostOne
<1> QED
  BY <1>2, <1>3, <1>4 DEF Tracked

(* Handlers of the server end, and what they hold is over.                 *)
LEMMA TrackEnd ==
  ASSUME NEW w, NEW H, NEW K \in SUBSET H, NEW P, NEW a, NEW b, NEW s, NEW rec, NEW calm,
         Tracked(w, H, P, a, s, rec, calm), b.contract = a.contract, b.ran = a.ran,
         b.nonce = a.nonce,
         \A l, c : <<s, l, c>> \in b.ended <=>
           <<s, l, c>> \in a.ended \/ (c = "crashed" /\ InHand(K, s, l))
  PROVE  Tracked(w, H \ K, P, b, s, rec, calm)
<1> DEFINE G == H \ K
<1>1. \A l : Over(b.ended, s, l) <=> Over(a.ended, s, l) \/ InHand(K, s, l)
  BY DEF Over, Causes
<1>2. ASSUME NEW l
      PROVE  /\ InHand(H, s, l) <=> InHand(G, s, l) \/ InHand(K, s, l)
             /\ HeldOnce(H, s, l) => HeldOnce(G, s, l) /\ ~(InHand(G, s, l) /\ InHand(K, s, l))
  BY DEF InHand, HeldOnce
<1>3. G \subseteq H
  OBVIOUS
<1> HIDE DEF G
<1>4. ASSUME NEW l \in rec PROVE Placed(w, G, P, b, s, l)
  BY <1>1, <1>2, <1>4 DEF Tracked, Placed
<1>5. ASSUME calm, NEW l \in Lock PROVE Alone(w, G, P, b, s, l)
  <2>1. Alone(w, H, P, a, s, l)
    BY <1>5 DEF Tracked
  <2>2. OverOnce(b.ended, s, l)
    BY <1>2, <2>1 DEF Alone, OverOnce, Over, AtMostOne
  <2> QED
    BY <1>1, <1>2, <2>1, <2>2 DEF Alone, AtMostOne
<1>6. calm => Flushes(w, G)
  BY <1>3 DEF Tracked, Flushes
<1>7. \A f \in G : f.step = "read" => f.nonce <= b.nonce[s] + 1
  BY <1>3 DEF Tracked
<1>8. Tracked(w, G, P, b, s, rec, calm)
  BY <1>4, <1>5, <1>6, <1>7 DEF Tracked
<1> QED
  BY <1>8 DEF G

(* A lock is received that is nowhere.                                     *)
LEMMA TrackReceive ==
  ASSUME NEW w, NEW H, NEW P, NEW b, NEW s, NEW rec, NEW calm,
         Tracked(w, H, P, b, s, rec, calm), NEW x, ~Placed(w, H, P, b, s, x),
         NEW g \in SoundHandler, g.step = "received", g.lock = x
  PROVE  Tracked(w, H \cup {g}, P, b, s, rec \cup {x}, calm)
<1> DEFINE G == H \cup {g}
<1>1. Held(s, g) = {x}
  BY HeldCases
<1>2. /\ \A l : InHand(G, s, l) <=> InHand(H, s, l) \/ l = x
      /\ \A l : HeldOnce(H, s, l) /\ (l = x => ~InHand(H, s, l)) => HeldOnce(G, s, l)
  BY <1>1 DEF InHand, HeldOnce
<1>3. \A f \in G : f \in H \/ (f = g /\ f.step = "received")
  OBVIOUS
<1> HIDE DEF G
<1>4. ASSUME NEW l \in rec \cup {x} PROVE Placed(w, G, P, b, s, l)
  BY <1>2, <1>4 DEF Tracked, Placed
<1>5. \A f \in G : f.step = "read" => f.nonce <= b.nonce[s] + 1
  BY <1>3 DEF Tracked
<1>6. ASSUME calm PROVE Flushes(w, G)
  <2>1. Flushes(w, H) /\ \A f \in G : f.step = "flushing" => f \in H
    BY <1>3, <1>6 DEF Tracked
  <2> QED
    BY <2>1 DEF Flushes
<1>7. ASSUME calm, NEW l \in Lock PROVE Alone(w, G, P, b, s, l)
  <2>1. Alone(w, H, P, b, s, l)
    BY <1>7 DEF Tracked
  <2>2. l = x => /\ ~Noted(w, l) /\ ~InHand(H, s, l) /\ ~Queued(P, b.ran, l)
                 /\ ~Sponsors(b.contract.requests, s, l) /\ ~Over(b.ended, s, l)
    BY DEF Placed
  <2>3. HeldOnce(G, s, l)
    BY <1>2, <2>1, <2>2 DEF Alone
  <2> QED
    BY <1>2, <2>1, <2>2, <2>3 DEF Alone, AtMostOne
<1>8. Tracked(w, G, P, b, s, rec \cup {x}, calm)
  BY <1>4, <1>5, <1>6, <1>7 DEF Tracked
<1> QED
  BY <1>8 DEF G

(***************************************************************************)
(* A block.  A transaction that runs or is refused adds N to what is over; *)
(* its locks get its sender as a sponsor or are over for it.               *)
(***************************************************************************)
Sends(tx, s, l) == s = tx.from /\ l \in ToSet(tx.locks)

Advances(a, tx, b, N) ==
  /\ b.ran = a.ran \cup {tx} /\ b.ended = a.ended \cup N
  /\ \A s \in Server, l \in Lock :
       /\ Sponsors(b.contract.requests, s, l) \/ Over(N, s, l)
            <=> Sponsors(a.contract.requests, s, l) \/ Sends(tx, s, l)
       /\ Sponsors(b.contract.requests, s, l) /\ Over(N, s, l)
            => Sponsors(a.contract.requests, s, l) /\ Sends(tx, s, l)
       /\ OverOnce(N, s, l)
  /\ \A s \in Server : a.nonce[s] <= b.nonce[s]
  /\ SameContract(a.contract, b.contract)

(* So do transactions that run, *)
LEMMA RanAdvances ==
  ASSUME NEW a \in BlockState, NEW b \in BlockState, NEW tx \in RawTx, Runs(a, tx),
         NEW R, NEW N, NEW K, RanAs(a, tx, b, R, N, K)
  PROVE  Advances(a, tx, b, N) /\ b.nonce[tx.from] = tx.nonce /\ tx.from \in a.contract.authority
<1>1. /\ a.nonce \in [Server -> Nat] /\ tx.from \in Server
      /\ tx.nonce = a.nonce[tx.from] + 1 /\ tx.from \in a.contract.authority
  BY DEF BlockState, RawTx, Runs, MayCrossPay
<1>2. b.nonce = [a.nonce EXCEPT ![tx.from] = tx.nonce]
  BY DEF RanAs
<1>3. b.nonce[tx.from] = tx.nonce /\ \A s \in Server : a.nonce[s] <= b.nonce[s]
  <2>1. PICK f, n : f = a.nonce /\ n = tx.nonce /\ f \in [Server -> Nat] /\ n = f[tx.from] + 1
    BY <1>1
  <2>2. b.nonce = [f EXCEPT ![tx.from] = n]
    BY <1>2, <2>1
  <2> QED
    BY <1>1, <2>1, <2>2
<1>4. MoreSponsors(a.contract.requests, R, tx.from, ToSet(tx.locks))
      /\ Moved(R, b.contract.requests, N, K)
  BY DEF RanAs
<1>5. ASSUME NEW s \in Server, NEW l \in Lock
      PROVE  /\ Sponsors(R, s, l) <=> Sponsors(a.contract.requests, s, l) \/ Sends(tx, s, l)
             /\ Sponsors(R, s, l) <=> Sponsors(b.contract.requests, s, l) \/ Over(N, s, l)
             /\ Sponsors(b.contract.requests, s, l) => ~Over(N, s, l)
             /\ OverOnce(N, s, l)
  BY <1>4 DEF MoreSponsors, Moved, Sends, OverOnce
<1> QED
  BY <1>1, <1>3, <1>5 DEF Advances, RanAs

(* and those that are refused.                                             *)
LEMMA RefusedAdvances ==
  ASSUME NEW a \in BlockState, NEW b \in BlockState, NEW tx \in RawTx, Refuses(a, tx, b)
  PROVE  \E N : Advances(a, tx, b, N)
<1>1. PICK N : N = Ended(tx.from, ToSet(tx.locks), "refused")
  OBVIOUS
<1>2. /\ b.contract = a.contract /\ b.nonce = a.nonce
      /\ b.ran = a.ran \cup {tx} /\ b.ended = a.ended \cup N
  BY <1>1 DEF Refuses
<1>3. ASSUME NEW s, NEW l, NEW c
      PROVE  <<s, l, c>> \in N <=> Sends(tx, s, l) /\ c = "refused"
  BY <1>1 DEF Ended, Sends
<1>4. ASSUME NEW s, NEW l
      PROVE  (Over(N, s, l) <=> Sends(tx, s, l)) /\ OverOnce(N, s, l)
  BY <1>3 DEF Over, OverOnce, Causes
<1>5. \A s \in Server : a.nonce[s] <= b.nonce[s]
  BY <1>2 DEF BlockState
<1>6. SameContract(a.contract, b.contract)
  BY <1>2 DEF SameContract
<1>7. Advances(a, tx, b, N)
  BY <1>2, <1>4, <1>5, <1>6 DEF Advances
<1> QED
  BY <1>7

(* The transactions of authorities that ran used a nonce.                  *)
NoncesUsed(b) ==
  \A tx \in b.ran : tx.nonce <= b.nonce[tx.from] \/ tx.from \notin b.contract.authority

(* What a transaction from the pool does to the way of a server's locks.   *)
LEMMA TrackAdvance ==
  ASSUME NEW a \in BlockState, NEW b \in BlockState, NEW tx \in RawTx, NEW N,
         Advances(a, tx, b, N), NEW s \in Server, NEW w, NEW H \in HandlerSets, NEW P,
         \A i \in DOMAIN P : P[i].from = s,
         NEW rec \in SUBSET Lock, NEW calm, Tracked(w, H, P, a, s, rec, calm),
         tx.from = s => tx \in ToSet(P), calm => tx \notin a.ran,
         \A i \in DOMAIN P : P[i].nonce \in Nat
  PROVE  Tracked(w, H, P, b, s, rec, calm)
<1>1. ASSUME NEW l \in Lock
      PROVE  /\ Sponsors(b.contract.requests, s, l) \/ Over(N, s, l)
                  <=> Sponsors(a.contract.requests, s, l) \/ Sends(tx, s, l)
             /\ Sponsors(b.contract.requests, s, l) /\ Over(N, s, l)
                  => Sponsors(a.contract.requests, s, l) /\ Sends(tx, s, l)
             /\ OverOnce(N, s, l)
             /\ Over(b.ended, s, l) <=> Over(a.ended, s, l) \/ Over(N, s, l)
             /\ OverOnce(a.ended, s, l) /\ ~(Over(a.ended, s, l) /\ Over(N, s, l))
                  => OverOnce(b.ended, s, l)
  <2>1. b.ended = a.ended \cup N
    BY DEF Advances
  <2>2. Over(b.ended, s, l) <=> Over(a.ended, s, l) \/ Over(N, s, l)
    BY <2>1 DEF Over
  <2>3. /\ Sponsors(b.contract.requests, s, l) \/ Over(N, s, l)
             <=> Sponsors(a.contract.requests, s, l) \/ Sends(tx, s, l)
        /\ Sponsors(b.contract.requests, s, l) /\ Over(N, s, l)
             => Sponsors(a.contract.requests, s, l) /\ Sends(tx, s, l)
        /\ OverOnce(N, s, l)
    BY DEF Advances
  <2>4. OverOnce(a.ended, s, l) /\ ~(Over(a.ended, s, l) /\ Over(N, s, l))
          => OverOnce(b.ended, s, l)
    BY <2>1, <2>3 DEF Over, OverOnce
  <2> QED
    BY <2>2, <2>3, <2>4
<1>2. ASSUME NEW l, NEW i \in DOMAIN P
      PROVE  QueuedAt(P, b.ran, l, i) <=> QueuedAt(P, a.ran, l, i) /\ P[i] # tx
  BY DEF QueuedAt, Advances
<1>3. ASSUME NEW l, NEW i \in DOMAIN P, QueuedAt(P, a.ran, l, i), P[i] = tx
      PROVE  Sends(tx, s, l)
  BY <1>3 DEF QueuedAt, Sends
<1>4. ASSUME NEW l \in rec PROVE Placed(w, H, P, b, s, l)
  <2>1. Placed(w, H, P, a, s, l) /\ l \in Lock
    BY <1>4 DEF Tracked
  <2>2. Queued(P, a.ran, l) => Queued(P, b.ran, l) \/ Sends(tx, s, l)
    BY <1>2, <1>3 DEF Queued
  <2> QED
    BY <1>1, <2>1, <2>2 DEF Placed
<1>5. \A n : n <= a.nonce[s] + 1 /\ n \in Nat => n <= b.nonce[s] + 1
  <2>1. a.nonce[s] \in Nat /\ b.nonce[s] \in Nat
    BY DEF BlockState
  <2>2. a.nonce[s] <= b.nonce[s]
    BY DEF Advances
  <2> QED
    BY <2>1, <2>2
<1>6. ASSUME calm, NEW l \in Lock PROVE Alone(w, H, P, b, s, l)
  <2>1. Alone(w, H, P, a, s, l)
    BY <1>6 DEF Tracked
  <2>2. QueuedOnce(P, b.ran, l)
    BY <1>2, <2>1 DEF Alone, QueuedOnce
  <2>3. Queued(P, b.ran, l) => Queued(P, a.ran, l)
    BY <1>2 DEF Queued
  <2>4. ASSUME Sends(tx, s, l)
        PROVE  Queued(P, a.ran, l) /\ ~Queued(P, b.ran, l)
    <3>1. PICK i \in DOMAIN P : P[i] = tx
      BY <2>4 DEF Sends, ToSet
    <3>2. QueuedAt(P, a.ran, l, i)
      BY <1>6, <2>4, <3>1 DEF QueuedAt, Sends
    <3>3. ASSUME NEW j \in DOMAIN P, QueuedAt(P, b.ran, l, j) PROVE FALSE
      <4>1. QueuedAt(P, a.ran, l, j) /\ P[j] # tx
        BY <1>2, <3>3
      <4>2. i = j
        BY <2>1, <3>2, <4>1 DEF Alone, QueuedOnce
      <4> QED
        BY <3>1, <4>1, <4>2
    <3> QED
      BY <3>2, <3>3 DEF Queued
  <2>5. CASE Sends(tx, s, l)
    BY <1>1, <2>1, <2>2, <2>4, <2>5 DEF Alone, AtMostOne
  <2>6. CASE ~Sends(tx, s, l)
    BY <1>1, <2>1, <2>2, <2>3, <2>6 DEF Alone, AtMostOne
  <2> QED
    BY <2>5, <2>6
<1>7. ASSUME NEW h \in H, h.step = "read" PROVE h.nonce <= b.nonce[s] + 1
  <2>1. h.nonce \in Nat
    BY HandlerParts DEF Handler
  <2> QED
    BY <1>5, <1>7, <2>1 DEF Tracked
<1>8. \A i \in DOMAIN P : P[i].nonce <= b.nonce[s] + 1
  BY <1>5 DEF Tracked
<1> QED
  BY <1>4, <1>6, <1>7, <1>8 DEF Tracked

(***************************************************************************)
(* The way of every server's locks.                                        *)
(***************************************************************************)
OnItsWay(s) == Tracked(waiting[s], handlers[s], pool[s], Chain, s, received[s], Undisturbed)

(* What a full server holds is in the pool until its block is processed.   *)
PoolTaken ==
  \A s \in Server :
    /\ ToSet(local[s]) \subseteq ToSet(pool[s])
    /\ taken[s] => local[s] # << >> /\ ToSet(local[s]) \subseteq ran

ChainWay == Placing(Chain) /\ (Undisturbed => NoncesUsed(Chain))

WayInv == SafeInv /\ (\A s \in Server : OnItsWay(s)) /\ ChainWay /\ PoolTaken

(* A chain that is the same for the server, but for a higher nonce.        *)
LEMMA TrackSame ==
  ASSUME NEW w, NEW H \in HandlerSets, NEW P \in Seq(RawTx), NEW a, NEW b, NEW s, NEW rec,
         NEW calm, NEW still, Tracked(w, H, P, a, s, rec, calm), still => calm,
         b.contract.requests = a.contract.requests, b.ran = a.ran,
         \A l, c : <<s, l, c>> \in b.ended <=> <<s, l, c>> \in a.ended,
         NEW m \in Nat, NEW n \in Nat, a.nonce[s] = m, b.nonce[s] = n, m <= n
  PROVE  Tracked(w, H, P, b, s, rec, still)
<1>1. \A l : /\ Over(b.ended, s, l) <=> Over(a.ended, s, l)
             /\ OverOnce(b.ended, s, l) <=> OverOnce(a.ended, s, l)
  BY DEF Over, OverOnce
<1>2. ASSUME NEW l \in rec PROVE Placed(w, H, P, b, s, l)
  BY <1>1, <1>2 DEF Tracked, Placed
<1>3. ASSUME NEW h \in H, h.step = "read" PROVE h.nonce <= n + 1
  <2>1. h.nonce \in Nat
    BY HandlerParts
  <2>2. h.nonce <= m + 1
    BY <1>3 DEF Tracked
  <2> QED
    BY <2>1, <2>2
<1>4. ASSUME NEW i \in DOMAIN P PROVE P[i].nonce <= n + 1
  <2>1. P[i].nonce \in Nat
    <3>1. P[i] \in RawTx
      BY <1>4
    <3> QED
      BY <3>1 DEF RawTx
  <2>2. P[i].nonce <= m + 1
    BY <1>4 DEF Tracked
  <2> QED
    BY <2>1, <2>2
<1>5. ASSUME still, NEW l \in Lock PROVE Alone(w, H, P, b, s, l)
  <2>1. Alone(w, H, P, a, s, l)
    BY <1>5 DEF Tracked
  <2> QED
    BY <1>1, <2>1 DEF Alone, AtMostOne
<1>6. still => Flushes(w, H)
  BY DEF Tracked
<1> QED
  BY <1>2, <1>3, <1>4, <1>5, <1>6 DEF Tracked

(* The chain, and what is over for server r, stay as they are.             *)
SameFor(r) ==
  /\ waiting'[r] = waiting[r] /\ handlers'[r] = handlers[r] /\ pool'[r] = pool[r]
  /\ received'[r] = received[r]
  /\ \A l, c : <<r, l, c>> \in ended' <=> <<r, l, c>> \in ended

SameRun ==
  /\ contract'.requests = contract.requests /\ ran' = ran
  /\ \A r \in Server : nonce[r] <= nonce'[r]
  /\ Undisturbed' => Undisturbed

(* Such a server's locks stay where they are.                              *)
LEMMA StayOnWay ==
  ASSUME WayInv, TypeInv', SameRun, NEW r \in Server, SameFor(r)
  PROVE  OnItsWay(r)'
<1>1. /\ Chain.contract = contract /\ Chain.ran = ran /\ Chain.ended = ended /\ Chain.nonce = nonce
      /\ Chain'.contract = contract' /\ Chain'.ran = ran' /\ Chain'.ended = ended'
      /\ Chain'.nonce = nonce'
  BY DEF Chain
<1>2. PICK w, H, P, rec, a, b, calm, still :
        /\ w = waiting[r] /\ H = handlers[r] /\ P = pool[r] /\ rec = received[r]
        /\ a = Chain /\ b = Chain' /\ calm = Undisturbed /\ still = Undisturbed'
  OBVIOUS
<1>3. Tracked(w, H, P, a, r, rec, calm)
  BY <1>2 DEF WayInv, OnItsWay
<1>4. H \in HandlerSets /\ P \in Seq(RawTx) /\ a.nonce[r] \in Nat /\ b.nonce[r] \in Nat
  BY <1>1, <1>2 DEF WayInv, SafeInv, TypeInv, LightType, PoolType, ChainType, Chain, BlockState
<1>5. /\ b.contract.requests = a.contract.requests /\ b.ran = a.ran
      /\ \A l, c : <<r, l, c>> \in b.ended <=> <<r, l, c>> \in a.ended
      /\ a.nonce[r] <= b.nonce[r] /\ (still => calm)
  BY <1>1, <1>2 DEF SameRun, SameFor
<1>6. Tracked(w, H, P, b, r, rec, still)
  BY <1>3, <1>4, <1>5, TrackSame
<1> QED
  BY <1>2, <1>6 DEF OnItsWay, SameFor

(* What ran, and whom it was for, stays.                                   *)
LEMMA StayChain ==
  ASSUME ChainWay, ChainType, SameRun, nonce' = nonce, contract' = contract, ended \subseteq ended'
  PROVE  ChainWay'
<1>1. /\ Chain.contract = contract /\ Chain.ran = ran /\ Chain.ended = ended /\ Chain.nonce = nonce
      /\ Chain'.contract = contract' /\ Chain'.ran = ran' /\ Chain'.ended = ended'
      /\ Chain'.nonce = nonce'
  BY DEF Chain
<1>2. Placing(Chain')
  BY <1>1 DEF ChainWay, Placing, SameRun, Over
<1>3. Undisturbed' => NoncesUsed(Chain')
  BY <1>1 DEF ChainWay, NoncesUsed, SameRun
<1> QED
  BY <1>2, <1>3 DEF ChainWay

(* A step that is far from the way of the locks keeps everything on it.    *)
LEMMA FarWay ==
  ASSUME WayInv, SafeInv', Far
  PROVE  WayInv'
<1>1. events'.changes = events.changes /\ events'.overlaps = events.overlaps
  BY DEF Far, SameEvents, SameVotes
<1>2. SameRun /\ \A r \in Server : SameFor(r)
  <2>1. \A r \in Server : nonce[r] \in Nat
    BY DEF WayInv, SafeInv, TypeInv, ChainType, Chain, BlockState
  <2> QED
    BY <1>1, <2>1 DEF Far, SameRun, SameFor, Undisturbed
<1>3. \A r \in Server : OnItsWay(r)'
  BY <1>2, StayOnWay DEF SafeInv
<1>4. ChainWay'
  BY <1>2, StayChain DEF Far, WayInv, SafeInv, TypeInv
<1>5. PoolTaken'
  BY DEF Far, WayInv, PoolTaken
<1> QED
  BY <1>3, <1>4, <1>5 DEF WayInv

(* A vote is not calm, and no lock moves.                                  *)
LEMMA VotesWay ==
  ASSUME WayInv, SafeInv', NEW s \in Server, NEW agreed \in SUBSET Server, NEW c, Own(s, agreed, c)
  PROVE  WayInv'
<1>1. /\ events' = [events EXCEPT !.changes = @ + 1, !.agreed = agreed] /\ contract' = c
      /\ nonce' = [nonce EXCEPT ![s] = @ + 1]
      /\ UNCHANGED <<setup, parserVars, newSpv, lightVars, pool, fullVars, paid, ran, ended>>
      /\ c.requests = contract.requests
  BY DEF Own, OwnTransaction, Voted
<1>2. ~Undisturbed'
  <2>1. events \in [faults : Nat, changes : Nat, overlaps : BOOLEAN, agreed : SUBSET Server]
    BY DEF WayInv, SafeInv, TypeInv, EventType
  <2>2. PICK n \in Nat : n = events.changes + 1 /\ n # 0
    BY <2>1
  <2>3. events'.changes = n
    BY <1>1, <2>1, <2>2
  <2> QED
    BY <2>2, <2>3 DEF Undisturbed
<1>3. \A r \in Server : nonce[r] <= nonce'[r]
  <2>1. PICK f \in [Server -> Nat] : f = nonce
    BY DEF WayInv, SafeInv, TypeInv, ChainType, Chain, BlockState
  <2>2. PICK n \in Nat : n = f[s] + 1
    BY <2>1
  <2>3. nonce' = [f EXCEPT ![s] = n]
    BY <1>1, <2>1, <2>2
  <2> QED
    BY <2>1, <2>2, <2>3
<1>4. SameRun /\ \A r \in Server : SameFor(r)
  BY <1>1, <1>2, <1>3 DEF SameRun, SameFor, lightVars
<1>5. \A r \in Server : OnItsWay(r)'
  BY <1>4, StayOnWay DEF SafeInv
<1>6. Placing(Chain)'
  BY <1>1 DEF WayInv, ChainWay, Placing, Chain
<1>7. PoolTaken'
  BY <1>1 DEF WayInv, PoolTaken, fullVars
<1> QED
  BY <1>2, <1>5, <1>6, <1>7 DEF WayInv, ChainWay

(* The full server reads the pool, and deletes what ran.                   *)
LEMMA FullWay ==
  ASSUME WayInv, SafeInv', NEW s \in Servers,
         GetRawTransactions(s) \/ DeleteTransactions(s) \/ FullServerCrash(s)
  PROVE  WayInv'
<1>1. s \in Server
  BY SetupFacts DEF WayInv, SafeInv, TypeInv
<1>2. /\ pool \in [Server -> Seq(RawTx)] /\ local \in [Server -> Seq(RawTx)]
      /\ taken \in [Server -> BOOLEAN] /\ TypeInv' /\ pool[s] \in Seq(RawTx)
  BY <1>1 DEF WayInv, SafeInv, TypeInv, PoolType, FullType
<1>3. UNCHANGED <<setup, lightVars, chainVars, ended>> /\ (Fault \/ events' = events)
  BY DEF GetRawTransactions, DeleteTransactions, FullServerCrash
<1>4. events'.changes = events.changes /\ events'.overlaps = events.overlaps
  BY <1>3, FaultEvents DEF SameEvents, SameVotes, WayInv, SafeInv
<1>5. SameRun
  <2>1. \A r \in Server : nonce[r] \in Nat
    BY DEF WayInv, SafeInv, TypeInv, ChainType, Chain, BlockState
  <2> QED
    BY <1>3, <1>4, <2>1 DEF SameRun, Undisturbed, chainVars
<1>6. ChainWay'
  BY <1>3, <1>5, StayChain DEF WayInv, SafeInv, TypeInv, chainVars
<1>7. ASSUME NEW r \in Server, pool'[r] = pool[r] PROVE OnItsWay(r)'
  BY <1>2, <1>3, <1>5, <1>7, StayOnWay DEF SameFor, lightVars
<1>8. ToSet(<< >>) = {}
  BY DEF ToSet
<1>9. CASE GetRawTransactions(s) \/ FullServerCrash(s)
  <2>1. /\ pool' = pool
        /\ \A r \in Server : \/ local'[r] = local[r] /\ taken'[r] = taken[r]
                             \/ local'[r] \in {pool[r], << >>} /\ ~taken'[r]
    <3>1. CASE GetRawTransactions(s)
      <4>1. ~taken[s]
        BY <1>1, <3>1 DEF GetRawTransactions, WayInv, PoolTaken
      <4> QED
        BY <1>1, <1>2, <3>1, <4>1 DEF GetRawTransactions
    <3>2. CASE FullServerCrash(s)
      BY <1>1, <1>2, <3>2 DEF FullServerCrash
    <3> QED
      BY <1>9, <3>1, <3>2
  <2>2. PoolTaken'
    BY <1>3, <1>8, <2>1 DEF WayInv, PoolTaken, chainVars
  <2> QED
    BY <1>6, <1>7, <2>1, <2>2 DEF WayInv
<1>10. CASE DeleteTransactions(s)
  <2>1. PICK D, Q : D = ToSet(local[s]) /\ Q = Without(pool[s], D)
    OBVIOUS
  <2>2. /\ taken[s] /\ pool' = [pool EXCEPT ![s] = Q]
        /\ local' = [local EXCEPT ![s] = << >>] /\ taken' = [taken EXCEPT ![s] = FALSE]
    BY <1>10, <2>1 DEF DeleteTransactions
  <2>3. D \subseteq ran
    BY <1>1, <2>1, <2>2 DEF WayInv, PoolTaken
  <2>4. OnItsWay(s)'
    <3>1. Tracked(waiting[s], handlers[s], pool[s], Chain, s, received[s], Undisturbed)
      BY <1>1 DEF WayInv, OnItsWay
    <3>2. Chain.ran = ran
      BY DEF Chain
    <3>3. Tracked(waiting[s], handlers[s], Q, Chain, s, received[s], Undisturbed)
      <4>1. PICK w, H, rec, b, calm : /\ w = waiting[s] /\ H = handlers[s] /\ rec = received[s]
                                      /\ b = Chain /\ calm = Undisturbed
        OBVIOUS
      <4>2. Tracked(w, H, Q, b, s, rec, calm)
        BY <1>2, <2>1, <2>3, <3>1, <3>2, <4>1, TrackDelete
      <4> QED
        BY <4>1, <4>2
    <3>4. pool'[s] = Q
      BY <1>1, <1>2, <2>2
    <3>5. Chain' = Chain /\ (Undisturbed' <=> Undisturbed)
      BY <1>3, <1>4 DEF Chain, chainVars, Undisturbed
    <3> QED
      BY <1>3, <3>3, <3>4, <3>5 DEF OnItsWay, lightVars, Tracked
  <2>5. \A r \in Server : r # s => OnItsWay(r)'
    BY <1>2, <1>7, <2>2
  <2>6. PoolTaken'
    BY <1>1, <1>2, <1>3, <1>8, <2>2 DEF WayInv, PoolTaken, chainVars
  <2> QED
    BY <1>6, <2>4, <2>5, <2>6 DEF WayInv
<1> QED
  BY <1>9, <1>10

(* What a handler holds its server has received.                           *)
LEMMA HeldReceived ==
  ASSUME SafeInv, NEW s \in Server, NEW h \in handlers[s]
  PROVE  Held(s, h) \subseteq received[s]
<1>1. handlers[s] \in HandlerSets
  BY DEF SafeInv, TypeInv, LightType
<1>2. h.rows \in Seq(Lock) /\ h.destroyed \in Nat /\ h.destroyed <= Len(h.rows)
  BY <1>1, HandlerParts
<1>3. ToSet(SubSeq(h.rows, 1, h.destroyed)) \subseteq ToSet(h.rows)
  <2>1. PICK q \in Seq(Lock), d \in Nat : q = h.rows /\ d = h.destroyed /\ d <= Len(q)
    BY <1>2
  <2>2. Prefix(q, d, SubSeq(q, 1, d))
    BY <2>1, PrefixSet
  <2> QED
    BY <2>1, <2>2 DEF Prefix
<1>4. h.lock \in received[s] /\ ToSet(h.rows) \subseteq received[s]
  BY DEF SafeInv, LightKnown
<1> QED
  BY <1>3, <1>4 DEF Held

(* So has it every lock that is somewhere.                                 *)
LEMMA PlacedReceived ==
  ASSUME SafeInv, NEW s \in Server, NEW l \in Lock,
         Placed(waiting[s], handlers[s], pool[s], Chain, s, l)
  PROVE  l \in received[s]
<1>1. Chain.contract = contract /\ Chain.ended = ended
  BY DEF Chain
<1>2. Noted(waiting[s], l) => l \in received[s]
  BY DEF SafeInv, LightKnown, Noted, ToSet
<1>3. InHand(handlers[s], s, l) => l \in received[s]
  BY HeldReceived DEF InHand
<1>4. Queued(pool[s], Chain.ran, l) => l \in received[s]
  <2>1. \A tx \in ToSet(pool[s]) : ToSet(tx.locks) \subseteq received[s]
    BY DEF SafeInv, PoolKnown, Signed
  <2> QED
    BY <2>1 DEF Queued, QueuedAt, ToSet
<1>5. Sponsors(contract.requests, s, l) \/ Over(ended, s, l) => l \in received[s]
  BY <1>1 DEF SafeInv, ChainKnown, KnownChain
<1> QED
  BY <1>1, <1>2, <1>3, <1>4, <1>5 DEF Placed

(* What the handlers that end hold is over.                                *)
LEMMA EndWay ==
  ASSUME WayInv, SafeInv', NEW s \in Servers, NEW K \in SUBSET handlers[s], EndsWith(s, K)
  PROVE  WayInv'
<1>1. s \in Server
  BY SetupFacts DEF WayInv, SafeInv, TypeInv
<1>2. /\ Fault /\ handlers' = [handlers EXCEPT ![s] = @ \ K]
      /\ ended' = ended \cup Ended(s, UNION {Held(s, h) : h \in K}, "crashed")
      /\ UNCHANGED <<setup, parserVars, newSpv, received, waiting, pool, fullVars, chainVars>>
  BY DEF EndsWith
<1>3. events'.changes = events.changes /\ events'.overlaps = events.overlaps
  BY <1>2, FaultEvents DEF SameEvents, SameVotes, WayInv, SafeInv
<1>4. SameRun
  <2>1. \A r \in Server : nonce[r] \in Nat
    BY DEF WayInv, SafeInv, TypeInv, ChainType, Chain, BlockState
  <2> QED
    BY <1>2, <1>3, <2>1 DEF SameRun, Undisturbed, chainVars
<1>5. ASSUME NEW r, NEW l, NEW c
      PROVE  <<r, l, c>> \in ended' <=>
               <<r, l, c>> \in ended \/ (r = s /\ c = "crashed" /\ InHand(K, s, l))
  <2>1. <<r, l, c>> \in Ended(s, UNION {Held(s, h) : h \in K}, "crashed") <=>
          r = s /\ c = "crashed" /\ InHand(K, s, l)
    BY DEF Ended, InHand
  <2> QED
    BY <1>2, <2>1
<1>6. ASSUME NEW r \in Server, r # s PROVE OnItsWay(r)'
  <2>1. SameFor(r)
    <3>1. handlers'[r] = handlers[r]
      BY <1>2, <1>6 DEF WayInv, SafeInv, TypeInv, LightType
    <3> QED
      BY <1>2, <1>5, <1>6, <3>1 DEF SameFor
  <2> QED
    BY <1>4, <2>1, StayOnWay DEF SafeInv
<1>7. OnItsWay(s)'
  <2>1. PICK w, H, P, rec, a, b, calm :
          /\ w = waiting[s] /\ H = handlers[s] /\ P = pool[s] /\ rec = received[s]
          /\ a = Chain /\ b = Chain' /\ calm = Undisturbed
    OBVIOUS
  <2>2. Tracked(w, H, P, a, s, rec, calm)
    BY <1>1, <2>1 DEF WayInv, OnItsWay
  <2>3. /\ b.contract = a.contract /\ b.ran = a.ran /\ b.nonce = a.nonce
        /\ a.ended = ended /\ b.ended = ended'
    BY <1>2, <2>1 DEF Chain, chainVars
  <2>4. \A l, c : <<s, l, c>> \in b.ended <=>
                    <<s, l, c>> \in a.ended \/ (c = "crashed" /\ InHand(K, s, l))
    BY <1>5, <2>1, <2>3
  <2>5. Tracked(w, H \ K, P, b, s, rec, calm)
    BY <2>1, <2>2, <2>3, <2>4, TrackEnd
  <2>6. handlers'[s] = H \ K
    BY <1>1, <1>2, <2>1 DEF WayInv, SafeInv, TypeInv, LightType
  <2>7. calm <=> Undisturbed'
    BY <1>3, <2>1 DEF Undisturbed
  <2> QED
    BY <1>2, <2>1, <2>5, <2>6, <2>7 DEF OnItsWay, Tracked
<1>8. ChainWay'
  <2>1. ended \subseteq ended'
    BY <1>2
  <2> QED
    BY <1>2, <1>4, <2>1, StayChain DEF WayInv, SafeInv, TypeInv, chainVars
<1>9. PoolTaken'
  BY <1>2 DEF WayInv, PoolTaken, fullVars, chainVars
<1> QED
  BY <1>6, <1>7, <1>8, <1>9 DEF WayInv

(* A lock that is received goes to a handler.                              *)
LEMMA ReceivedWay ==
  ASSUME WayInv, SafeInv', NEW m \in newSpv, NewSpv(m)
  PROVE  WayInv'
<1>1. PICK s \in Server, lock \in Lock : s = m[2] /\ lock = m[3]
  BY DEF WayInv, SafeInv, TypeInv, SpvType
<1>2. /\ \/ /\ received' = [received EXCEPT ![s] = @ \cup {lock}]
            /\ handlers' = [handlers EXCEPT ![s] =
                              @ \cup {[Idle EXCEPT !.lock = lock, !.step = "received"]}]
            /\ lock \notin received[s]
         \/ UNCHANGED <<received, handlers>>
      /\ UNCHANGED <<setup, parserVars, waiting, lastFlush, pool, fullVars, chainVars, ended,
                     events>>
  BY <1>1 DEF NewSpv, ReceivedSpvCreated
<1>3. /\ received \in [Server -> SUBSET Lock] /\ received' \in [Server -> SUBSET Lock]
      /\ handlers \in [Server -> HandlerSets]
  BY DEF WayInv, SafeInv, TypeInv, LightType
<1>4. SameRun /\ Chain' = Chain /\ (Undisturbed' <=> Undisturbed)
  <2>1. \A r \in Server : nonce[r] \in Nat
    BY DEF WayInv, SafeInv, TypeInv, ChainType, Chain, BlockState
  <2> QED
    BY <1>2, <2>1 DEF SameRun, Undisturbed, Chain, chainVars
<1>5. ChainWay' /\ PoolTaken'
  BY <1>2, <1>4, StayChain DEF WayInv, SafeInv, TypeInv, PoolTaken, fullVars, chainVars
<1>6. ASSUME NEW r \in Server, received'[r] = received[r], handlers'[r] = handlers[r]
      PROVE  OnItsWay(r)'
  BY <1>2, <1>4, <1>6, StayOnWay DEF SameFor, SafeInv
<1>7. CASE UNCHANGED <<received, handlers>>
  BY <1>5, <1>6, <1>7 DEF WayInv
<1>8. ASSUME received' = [received EXCEPT ![s] = @ \cup {lock}],
             handlers' = [handlers EXCEPT ![s] =
                            @ \cup {[Idle EXCEPT !.lock = lock, !.step = "received"]}],
             lock \notin received[s]
      PROVE  WayInv'
  <2>1. PICK g : g = [Idle EXCEPT !.lock = lock, !.step = "received"]
    OBVIOUS
  <2>2. Became(g, lock, "received", << >>, 0, 0)
    BY <2>1, HandlerStarts, SetupFacts DEF Idle, WayInv, SafeInv, TypeInv
  <2>3. g \in SoundHandler /\ g.step = "received" /\ g.lock = lock
    BY <2>2 DEF Became, SoundHandler
  <2>4. /\ received'[s] = received[s] \cup {lock} /\ handlers'[s] = handlers[s] \cup {g}
        /\ \A r \in Server : r # s => received'[r] = received[r] /\ handlers'[r] = handlers[r]
    BY <1>3, <1>8, <2>1
  <2>5. PICK w, H, P, rec, b, calm :
          /\ w = waiting[s] /\ H = handlers[s] /\ P = pool[s] /\ rec = received[s]
          /\ b = Chain /\ calm = Undisturbed
    OBVIOUS
  <2>6. Tracked(w, H, P, b, s, rec, calm)
    BY <1>1, <2>5 DEF WayInv, OnItsWay
  <2>7. ~Placed(w, H, P, b, s, lock)
    BY <1>8, <2>5, PlacedReceived DEF WayInv
  <2>8. Tracked(w, H \cup {g}, P, b, s, rec \cup {lock}, calm)
    BY <2>3, <2>6, <2>7, TrackReceive
  <2>9. OnItsWay(s)'
    BY <1>2, <1>4, <2>4, <2>5, <2>8 DEF OnItsWay, Tracked
  <2> QED
    BY <1>5, <1>6, <2>4, <2>9 DEF WayInv
<1> QED
  BY <1>2, <1>7, <1>8

(* A step of a handler concerns its server.                                *)
LEMMA HandlerWay ==
  ASSUME WayInv, SafeInv', NEW s \in Server, NEW h, NEW from, NEW to, HandlerStep(s, h, from, to),
         OnItsWay(s)', \A r \in Server : r # s => waiting'[r] = waiting[r] /\ pool'[r] = pool[r],
         ToSet(pool[s]) \subseteq ToSet(pool'[s]), Undisturbed' => Undisturbed
  PROVE  WayInv'
<1>1. /\ handlers' = [handlers EXCEPT ![s] = (@ \ {h}) \cup to]
      /\ UNCHANGED <<setup, parserVars, newSpv, received, fullVars, chainVars, ended>>
  BY DEF HandlerStep
<1>2. SameRun
  <2>1. \A r \in Server : nonce[r] \in Nat
    BY DEF WayInv, SafeInv, TypeInv, ChainType, Chain, BlockState
  <2> QED
    BY <1>1, <2>1 DEF SameRun, chainVars
<1>3. ASSUME NEW r \in Server, r # s PROVE OnItsWay(r)'
  <2>1. handlers'[r] = handlers[r]
    BY <1>1, <1>3 DEF WayInv, SafeInv, TypeInv, LightType
  <2>2. SameFor(r)
    BY <1>1, <1>3, <2>1 DEF SameFor
  <2> QED
    BY <1>2, <2>2, StayOnWay DEF SafeInv
<1>4. ChainWay'
  BY <1>1, <1>2, StayChain DEF WayInv, SafeInv, TypeInv, chainVars
<1>5. PoolTaken'
  <2>1. \A r \in Server : ToSet(pool[r]) \subseteq ToSet(pool'[r])
    OBVIOUS
  <2> QED
    BY <1>1, <2>1 DEF WayInv, PoolTaken, fullVars, chainVars
<1> QED
  BY <1>3, <1>4, <1>5 DEF WayInv

(* The way of a server's locks after a step of its handler h.              *)
LEMMA HandlerMoves ==
  ASSUME WayInv, NEW s \in Server, NEW h, NEW from, NEW to, HandlerStep(s, h, from, to),
         NEW v, NEW H, NEW P, NEW b, NEW rec, NEW still, Tracked(v, H, P, b, s, rec, still),
         v = waiting'[s], H = Swapped(handlers[s], h, to), P = pool'[s], b = Chain,
         rec = received[s], still = Undisturbed'
  PROVE  OnItsWay(s)'
<1>1. handlers'[s] = Swapped(handlers[s], h, to)
  BY DEF HandlerStep, Swapped, WayInv, SafeInv, TypeInv, LightType
<1>2. Chain' = Chain /\ received' = received
  BY DEF HandlerStep, Chain, chainVars
<1> QED
  BY <1>1, <1>2 DEF OnItsWay

(* Every step of a handler keeps the locks on their way.                   *)
LEMMA HandlersWay ==
  ASSUME WayInv, SafeInv', NEW s \in Servers, NEW h \in handlers[s],
         \/ SaveWaitingCrossPay(s, h) \/ LeaveWaiting(s, h) \/ GetWaitingCrossPay(s, h)
         \/ DestroyRow(s, h) \/ ReadAccount(s, h) \/ SaveRawTransaction(s, h)
  PROVE  WayInv'
<1>1. s \in Server
  BY SetupFacts DEF WayInv, SafeInv, TypeInv
<1>2. /\ handlers[s] \in HandlerSets /\ pool \in [Server -> Seq(RawTx)]
      /\ waiting \in [Server -> Seq(Lock)] /\ waiting[s] \in Seq(Lock) /\ pool[s] \in Seq(RawTx)
      /\ events \in [faults : Nat, changes : Nat, overlaps : BOOLEAN, agreed : SUBSET Server]
  BY <1>1 DEF WayInv, SafeInv, TypeInv, LightType, PoolType, EventType
<1>3. h \in SoundHandler /\ h.lock \in Lock /\ h.rows \in Seq(Lock) /\ h \in Handler
      /\ h.nonce \in Nat /\ h.destroyed \in Nat
  BY <1>2, HandlerParts DEF SoundHandler
<1>4. PICK w, H, P, rec, b, calm :
        /\ w = waiting[s] /\ H = handlers[s] /\ P = pool[s] /\ rec = received[s]
        /\ b = Chain /\ calm = Undisturbed
  OBVIOUS
<1>5. /\ Tracked(w, H, P, b, s, rec, calm) /\ h \in H /\ H \in HandlerSets
      /\ w \in Seq(Lock) /\ P \in Seq(RawTx)
  BY <1>1, <1>2, <1>4 DEF WayInv, OnItsWay
<1>6. CASE SaveWaitingCrossPay(s, h)
  <2>1. PICK g, v : g = [h EXCEPT !.step = "saved"] /\ v = Append(w, h.lock)
    OBVIOUS
  <2>2. /\ HandlerStep(s, h, "received", {g}) /\ UNCHANGED <<lastFlush, pool, events>>
        /\ waiting' = [waiting EXCEPT ![s] = v]
    BY <1>4, <1>6, <2>1 DEF SaveWaitingCrossPay
  <2>3. h.step = "received"
    BY <2>2 DEF HandlerStep
  <2>4. g \in SoundHandler /\ g.step = "saved"
    <3>1. Became(g, h.lock, "saved", h.rows, h.destroyed, h.nonce)
      BY <1>3, <2>1, HandlerSaves
    <3> QED
      BY <1>3, <2>3, <3>1 DEF Became, SoundHandler
  <2>5. Tracked(v, Swapped(H, h, {g}), P, b, s, rec, calm)
    BY <1>5, <2>1, <2>3, <2>4, TrackSave
  <2>6. waiting'[s] = v /\ \A r \in Server : r # s => waiting'[r] = waiting[r]
    BY <1>1, <1>2, <2>2
  <2>7. Undisturbed' = Undisturbed
    BY <2>2 DEF Undisturbed
  <2>8. OnItsWay(s)'
    <3>1. PICK G : G = Swapped(H, h, {g})
      OBVIOUS
    <3> QED
      BY <1>1, <1>4, <2>2, <2>5, <2>6, <2>7, <3>1, HandlerMoves
  <2> QED
    BY <1>1, <2>2, <2>6, <2>7, <2>8, HandlerWay
<1>7. CASE LeaveWaiting(s, h)
  <2>1. HandlerStep(s, h, "saved", {}) /\ UNCHANGED <<waiting, lastFlush, pool, events>>
    BY <1>7 DEF LeaveWaiting
  <2>2. h.step = "saved"
    BY <2>1 DEF HandlerStep
  <2>3. Tracked(w, Swapped(H, h, {}), P, b, s, rec, calm)
    BY <1>5, <2>2, TrackLeave
  <2>4. Undisturbed' = Undisturbed
    BY <2>1 DEF Undisturbed
  <2>5. OnItsWay(s)'
    BY <1>1, <1>4, <2>1, <2>3, <2>4, HandlerMoves
  <2> QED
    BY <1>1, <2>1, <2>4, <2>5, HandlerWay
<1>8. CASE GetWaitingCrossPay(s, h)
  <2>1. PICK rows : rows = SubSeq(w, 1, IF Len(w) < FlushLimit THEN Len(w) ELSE FlushLimit)
    OBVIOUS
  <2>2. PICK g, to : /\ g = [h EXCEPT !.step = "flushing", !.rows = rows]
                     /\ to = IF rows = << >> THEN {} ELSE {g}
    OBVIOUS
  <2>3. PICK o : o = (events.overlaps \/ \E f \in handlers[s] :
                        f.step = "flushing" /\ ToSet(f.rows) \cap ToSet(rows) # {})
    OBVIOUS
  <2>4. /\ HandlerStep(s, h, "saved", to) /\ UNCHANGED <<waiting, pool>>
        /\ events' = [events EXCEPT !.overlaps = o]
    BY <1>4, <1>8, <2>1, <2>2, <2>3 DEF GetWaitingCrossPay
  <2>5. h.step = "saved" /\ h.destroyed = 0
    <3>1. h.step = "saved"
      BY <2>4 DEF HandlerStep
    <3> QED
      BY <1>2, <3>1, HandlerParts
  <2>6. rows \in Seq(Lock) /\ Len(rows) \in Nat /\ (rows # << >> => Len(rows) > 0)
        /\ Len(rows) <= Len(w) /\ \A i \in 1 .. Len(rows) : rows[i] = w[i]
    BY <1>5, <2>1, CrossAssumption, FirstRows
  <2>7. Undisturbed' => Undisturbed /\ \A f \in H :
          f.step = "flushing" => ToSet(f.rows) \cap ToSet(rows) = {}
    <3>1. events'.overlaps = o /\ events'.changes = events.changes
      BY <1>2, <2>4
    <3> QED
      BY <1>4, <2>3, <3>1 DEF Undisturbed
  <2>8. PICK still : still = Undisturbed'
    OBVIOUS
  <2>9. Tracked(w, Swapped(H, h, to), P, b, s, rec, still)
    <3>1. CASE rows = << >>
      <4>1. Tracked(w, Swapped(H, h, {}), P, b, s, rec, calm)
        BY <1>5, <2>5, TrackLeave
      <4>2. to = {} /\ (still => calm)
        BY <1>4, <2>2, <2>7, <2>8, <3>1
      <4> QED
        BY <4>1, <4>2 DEF Tracked
    <3>2. CASE rows # << >>
      <4>1. Became(g, h.lock, "flushing", rows, h.destroyed, h.nonce)
        BY <1>3, <2>2, <2>6, HandlerFlushes
      <4>2. /\ g \in Handler /\ g.step = "flushing" /\ g.rows = rows /\ g.destroyed = 0
        BY <2>5, <4>1 DEF Became
      <4>3. g \in SoundHandler
        BY <2>6, <3>2, <4>2 DEF SoundHandler
      <4>4. /\ Len(g.rows) <= Len(w) /\ \A i \in 1 .. Len(g.rows) : g.rows[i] = w[i]
            /\ still => calm /\ \A f \in H :
                 f.step = "flushing" => ToSet(f.rows) \cap ToSet(g.rows) = {}
        BY <1>4, <2>6, <2>7, <2>8, <4>2
      <4>5. Tracked(w, Swapped(H, h, {g}), P, b, s, rec, still)
        BY <1>5, <2>5, <4>2, <4>3, <4>4, TrackFlush
      <4> QED
        BY <2>2, <3>2, <4>5
    <3> QED
      BY <3>1, <3>2
  <2>10. OnItsWay(s)'
    BY <1>1, <1>4, <2>4, <2>8, <2>9, HandlerMoves
  <2> QED
    BY <1>1, <2>4, <2>7, <2>10, HandlerWay
<1>9. CASE DestroyRow(s, h)
  <2>1. PICK step, d, x : /\ step = IF h.destroyed + 1 = Len(h.rows) THEN "flushed" ELSE h.step
                          /\ d = h.destroyed + 1 /\ x = h.rows[h.destroyed + 1]
    OBVIOUS
  <2>2. PICK g, v : /\ g = [h EXCEPT !.destroyed = h.destroyed + 1, !.step = step]
                    /\ v = Without(w, {x})
    OBVIOUS
  <2>3. /\ HandlerStep(s, h, "flushing", {g}) /\ UNCHANGED <<lastFlush, pool, events>>
        /\ waiting' = [waiting EXCEPT ![s] = v]
    BY <1>4, <1>9, <2>1, <2>2 DEF DestroyRow
  <2>4. h.step = "flushing"
    BY <2>3 DEF HandlerStep
  <2>5. /\ g \in Handler /\ g.step = step /\ g.rows = h.rows /\ g.destroyed = h.destroyed + 1
        /\ step \in {"flushing", "flushed"}
    <3>1. Became(g, h.lock, step, h.rows, h.destroyed + 1, h.nonce)
      BY <1>3, <2>1, <2>2, <2>4, HandlerDestroysRow
    <3> QED
      BY <2>1, <2>4, <3>1 DEF Became
  <2>6. g \in SoundHandler
    <3>1. h.destroyed < Len(h.rows) /\ Len(h.rows) \in Nat
      BY <1>2, <2>4, HandlerParts
    <3>2. g.step = "flushing" => g.destroyed < Len(g.rows)
      BY <1>3, <2>1, <2>5, <3>1
    <3>3. g.step = "flushed" => g.destroyed = Len(g.rows)
      BY <2>1, <2>4, <2>5
    <3> QED
      BY <2>5, <3>2, <3>3 DEF SoundHandler
  <2>7. Tracked(v, Swapped(H, h, {g}), P, b, s, rec, calm)
    BY <1>5, <2>1, <2>2, <2>4, <2>5, <2>6, TrackDestroy
  <2>8. waiting'[s] = v /\ \A r \in Server : r # s => waiting'[r] = waiting[r]
    BY <1>1, <1>2, <2>3
  <2>9. Undisturbed' = Undisturbed
    BY <2>3 DEF Undisturbed
  <2>10. OnItsWay(s)'
    BY <1>1, <1>4, <2>3, <2>7, <2>8, <2>9, HandlerMoves
  <2> QED
    BY <1>1, <2>3, <2>8, <2>9, <2>10, HandlerWay
<1>10. CASE ReadAccount(s, h)
  <2>1. PICK g : g = [h EXCEPT !.step = "read", !.nonce = nonce[s] + 1]
    OBVIOUS
  <2>2. HandlerStep(s, h, "flushed", {g}) /\ UNCHANGED <<waiting, lastFlush, pool, events>>
    BY <1>10, <2>1 DEF ReadAccount
  <2>3. h.step = "flushed" /\ h.destroyed = Len(h.rows)
    <3>1. h.step = "flushed"
      BY <2>2 DEF HandlerStep
    <3> QED
      BY <1>2, <3>1, HandlerParts
  <2>4. nonce[s] \in Nat /\ b.nonce[s] = nonce[s]
    BY <1>1, <1>4 DEF WayInv, SafeInv, TypeInv, ChainType, Chain, BlockState
  <2>5. Became(g, h.lock, "read", h.rows, h.destroyed, nonce[s] + 1)
    BY <1>3, <2>1, <2>4, HandlerReadsNonce
  <2>6. g \in SoundHandler /\ g.step = "read" /\ g.rows = h.rows /\ g.nonce = b.nonce[s] + 1
    BY <2>3, <2>4, <2>5 DEF Became, SoundHandler
  <2>7. Tracked(w, Swapped(H, h, {g}), P, b, s, rec, calm)
    BY <1>5, <2>3, <2>4, <2>6, TrackRead
  <2>8. Undisturbed' = Undisturbed
    BY <2>2 DEF Undisturbed
  <2>9. OnItsWay(s)'
    BY <1>1, <1>4, <2>2, <2>7, <2>8, HandlerMoves
  <2> QED
    BY <1>1, <2>2, <2>8, <2>9, HandlerWay
<1>11. CASE SaveRawTransaction(s, h)
  <2>1. PICK tx : tx = [from |-> s, nonce |-> h.nonce, locks |-> h.rows]
    OBVIOUS
  <2>2. PICK Q : Q = Append(P, tx)
    OBVIOUS
  <2>3. /\ HandlerStep(s, h, "read", {}) /\ pool' = [pool EXCEPT ![s] = Q]
        /\ UNCHANGED <<waiting, lastFlush, events>>
    BY <1>4, <1>11, <2>1, <2>2 DEF SaveRawTransaction
  <2>4. tx \in RawTx /\ tx.from = s /\ tx.locks = h.rows /\ tx.nonce = h.nonce
    BY <1>1, <1>3, <2>1 DEF RawTx
  <2>5. h.step = "read"
    BY <2>3 DEF HandlerStep
  <2>6. Placing(b)
    BY <1>4 DEF WayInv, ChainWay
  <2>7. Tracked(w, Swapped(H, h, {}), Q, b, s, rec, calm)
    BY <1>5, <2>2, <2>4, <2>5, <2>6, TrackSend
  <2>8. ToSet(P) \subseteq ToSet(Q)
    <3>1. Appended(P, tx, Q)
      BY <1>5, <2>2, <2>4, AppendSet
    <3> QED
      BY <3>1 DEF Appended
  <2>9. pool'[s] = Q /\ \A r \in Server : r # s => pool'[r] = pool[r]
    BY <1>1, <1>2, <2>3
  <2>10. Undisturbed' = Undisturbed
    BY <2>3 DEF Undisturbed
  <2>11. OnItsWay(s)'
    BY <1>1, <1>4, <2>3, <2>7, <2>9, <2>10, HandlerMoves
  <2> QED
    BY <1>1, <1>4, <2>3, <2>8, <2>9, <2>10, <2>11, HandlerWay
<1> QED
  BY <1>6, <1>7, <1>8, <1>9, <1>10, <1>11

(* A block has its transactions among what ran.                            *)
LEMMA BlockRan ==
  ASSUME NEW a \in BlockState, NEW txs \in Seq(RawTx), now \in Nat
  PROVE  a.ran \cup ToSet(txs) \subseteq RunAll(a, txs).ran
<1>1. PICK f \in [0 .. Len(txs) -> BlockState] :
        RunAll(a, txs) = f[Len(txs)] /\ RunsAlong(f, a, txs)
  BY RunAllRun
<1>2. PICK n \in Nat : n = Len(txs) /\ DOMAIN txs = 1 .. n
  OBVIOUS
<1> DEFINE Q == {i \in 0 .. n : a.ran \subseteq f[i].ran /\ \A k \in 1 .. i : txs[k] \in f[i].ran}
<1>3. 0 \in Q
  <2>1. f[0] = a
    BY <1>1 DEF RunsAlong
  <2> QED
    BY <2>1
<1>4. ASSUME NEW i \in 1 .. n, i - 1 \in Q PROVE i \in Q
  <2>1. PICK j \in 0 .. n : j = i - 1 /\ f[j] \in BlockState /\ txs[i] \in RawTx
    BY <1>2
  <2>2. f[i] = RunTx(f[j], txs[i])
    BY <1>1, <1>2, <2>1 DEF RunsAlong
  <2>3. PICK b : b = RunTx(f[j], txs[i])
    OBVIOUS
  <2>4. \/ \E R, N, P : RanAs(f[j], txs[i], b, R, N, P)
        \/ Refuses(f[j], txs[i], b)
        \/ Idles(f[j], txs[i], b)
    BY <2>1, <2>3, RunTxCases
  <2>5. b.ran = f[j].ran \cup {txs[i]}
    BY <2>4 DEF RanAs, Refuses, Idles
  <2>6. a.ran \subseteq f[j].ran /\ \A k \in 1 .. j : txs[k] \in f[j].ran
    BY <1>4, <2>1
  <2>7. \A k \in 1 .. i : k \in 1 .. j \/ k = i
    BY <2>1
  <2> QED
    BY <2>2, <2>3, <2>5, <2>6, <2>7
<1>5. Q \in SUBSET (0 .. n)
  OBVIOUS
<1> HIDE DEF Q
<1>6. Q = 0 .. n
  BY <1>3, <1>4, <1>5, Along
<1>7. n \in Q
  BY <1>6
<1> QED
  BY <1>1, <1>2, <1>7 DEF Q, ToSet

(* What a transaction from the pool keeps.                                 *)
WayChains ==
  {b \in BlockState :
     /\ SameContract(contract, b.contract) /\ Placing(b) /\ (Undisturbed => NoncesUsed(b))
     /\ \A s \in Server :
          Tracked(waiting[s], handlers[s], pool[s], b, s, received[s], Undisturbed)}

PooledTx == {tx \in RawTx : tx \in ToSet(pool[tx.from])}

(* Its locks are with their sponsor or over, like those of the others.     *)
LEMMA AdvancePlaces ==
  ASSUME NEW a \in BlockState, Placing(a), NEW tx \in RawTx, NEW b, NEW N, Advances(a, tx, b, N)
  PROVE  Placing(b)
<1>1. /\ b.ran = a.ran \cup {tx} /\ b.ended = a.ended \cup N
      /\ \A s \in Server, l \in Lock :
           Sponsors(b.contract.requests, s, l) \/ Over(N, s, l)
             <=> Sponsors(a.contract.requests, s, l) \/ Sends(tx, s, l)
  BY DEF Advances
<1>2. \A s, l : Over(b.ended, s, l) <=> Over(a.ended, s, l) \/ Over(N, s, l)
  BY <1>1 DEF Over
<1>3. ASSUME NEW t \in b.ran, NEW l \in ToSet(t.locks)
      PROVE  Sponsors(b.contract.requests, t.from, l) \/ Over(b.ended, t.from, l)
  <2>1. t \in RawTx
    BY <1>1 DEF BlockState
  <2>2. t.from \in Server /\ t.locks \in Seq(Lock)
    BY <2>1 DEF RawTx
  <2>3. l \in Lock
    BY <2>2, ElementType
  <2>4. CASE t \in a.ran
    BY <1>1, <1>2, <2>2, <2>3, <2>4 DEF Placing
  <2>5. CASE t = tx
    BY <1>1, <1>2, <2>2, <2>3, <2>5 DEF Sends
  <2> QED
    BY <1>1, <2>4, <2>5
<1> QED
  BY <1>3 DEF Placing

(* A transaction that runs or is refused keeps the locks on their way.     *)
LEMMA AdvanceWay ==
  ASSUME WayInv, NEW a \in WayChains, NEW tx \in PooledTx, NEW b \in BlockState, NEW N,
         Advances(a, tx, b, N), Undisturbed => tx \notin a.ran,
         Undisturbed => tx.nonce <= b.nonce[tx.from] \/ tx.from \notin b.contract.authority
  PROVE  b \in WayChains
<1>1. /\ a \in BlockState /\ SameContract(contract, a.contract) /\ Placing(a)
      /\ Undisturbed => NoncesUsed(a)
      /\ \A s \in Server :
           Tracked(waiting[s], handlers[s], pool[s], a, s, received[s], Undisturbed)
  BY DEF WayChains
<1>2. tx \in RawTx /\ tx \in ToSet(pool[tx.from])
  BY DEF PooledTx
<1>3. /\ b.ran = a.ran \cup {tx} /\ SameContract(a.contract, b.contract)
      /\ \A s \in Server : a.nonce[s] <= b.nonce[s]
  BY DEF Advances
<1>4. SameContract(contract, b.contract)
  BY <1>1, <1>3 DEF SameContract
<1>5. Placing(b)
  BY <1>1, <1>2, AdvancePlaces
<1>6. ASSUME Undisturbed PROVE NoncesUsed(b)
  <2>1. ASSUME NEW t \in a.ran
        PROVE  t.nonce <= b.nonce[t.from] \/ t.from \notin b.contract.authority
    <3>1. t \in RawTx
      BY <1>1 DEF BlockState
    <3>2. t.from \in Server /\ t.nonce \in Nat
      BY <3>1 DEF RawTx
    <3>3. a.nonce[t.from] \in Nat /\ b.nonce[t.from] \in Nat
      BY <1>1, <3>2 DEF BlockState
    <3>4. t.nonce <= a.nonce[t.from] \/ t.from \notin a.contract.authority
      BY <1>1, <1>6, <2>1 DEF NoncesUsed
    <3>5. b.contract.authority = a.contract.authority
      BY <1>3 DEF SameContract
    <3>6. a.nonce[t.from] <= b.nonce[t.from]
      BY <1>3, <3>2
    <3> QED
      BY <3>2, <3>3, <3>4, <3>5, <3>6
  <2> QED
    BY <1>3, <1>6, <2>1 DEF NoncesUsed
<1>7. ASSUME NEW s \in Server
      PROVE  Tracked(waiting[s], handlers[s], pool[s], b, s, received[s], Undisturbed)
  <2>1. PICK w, H, P, rec, calm :
          /\ w = waiting[s] /\ H = handlers[s] /\ P = pool[s] /\ rec = received[s]
          /\ calm = Undisturbed
    OBVIOUS
  <2>2. /\ Tracked(w, H, P, a, s, rec, calm) /\ (calm => tx \notin a.ran)
        /\ (tx.from = s => tx \in ToSet(P))
    BY <1>1, <1>2, <2>1
  <2>3. H \in HandlerSets /\ P \in Seq(RawTx) /\ rec \in SUBSET Lock
    BY <2>1 DEF WayInv, SafeInv, TypeInv, LightType, PoolType
  <2>4. ASSUME NEW i \in DOMAIN P PROVE P[i].from = s /\ P[i].nonce \in Nat
    <3>1. P[i] \in ToSet(P)
      BY DEF ToSet
    <3>2. P[i] \in Signed(s)
      BY <2>1, <3>1 DEF WayInv, SafeInv, PoolKnown
    <3> QED
      BY <3>2 DEF Signed, RawTx
  <2>5. Tracked(w, H, P, b, s, rec, calm)
    BY <1>1, <1>2, <2>2, <2>3, <2>4, TrackAdvance
  <2> QED
    BY <2>1, <2>5
<1> QED
  BY <1>4, <1>5, <1>6, <1>7 DEF WayChains

(* So every transaction does.                                              *)
LEMMA TxWay ==
  ASSUME WayInv, NEW a \in WayChains, NEW tx \in PooledTx
  PROVE  RunTx(a, tx) \in WayChains
<1>1. PICK b : b = RunTx(a, tx)
  OBVIOUS
<1>2. a \in BlockState /\ tx \in RawTx /\ tx.from \in Server /\ tx.nonce \in Nat
  BY DEF WayChains, PooledTx, RawTx
<1>3. /\ b \in BlockState
      /\ \/ Runs(a, tx) /\ \E R, N, P : RanAs(a, tx, b, R, N, P)
         \/ Refuses(a, tx, b)
         \/ Idles(a, tx, b)
  BY <1>1, <1>2, RunTxCases DEF WayInv, SafeInv, TypeInv
<1>4. Undisturbed => NoncesUsed(a)
  BY DEF WayChains
<1>5. a.nonce[tx.from] \in Nat
  BY <1>2 DEF BlockState
<1>6. CASE Idles(a, tx, b)
  BY <1>1, <1>6 DEF Idles
<1>7. CASE Refuses(a, tx, b)
  <2>1. PICK N : Advances(a, tx, b, N)
    BY <1>2, <1>3, <1>7, RefusedAdvances
  <2>2. tx \notin a.ran /\ ~Runs(a, tx) /\ b.nonce = a.nonce /\ b.contract = a.contract
    BY <1>7 DEF Refuses
  <2>3. tx.nonce <= a.nonce[tx.from] + 1
    <3>1. PICK i \in DOMAIN pool[tx.from] : pool[tx.from][i] = tx
      BY DEF PooledTx, ToSet
    <3> QED
      BY <1>2, <3>1 DEF WayChains, Tracked
  <2>4. tx.nonce <= b.nonce[tx.from] \/ tx.from \notin b.contract.authority
    BY <1>2, <1>5, <2>2, <2>3 DEF Runs, MayCrossPay
  <2> QED
    BY <1>1, <1>3, <2>1, <2>2, <2>4, AdvanceWay
<1>8. ASSUME Runs(a, tx), NEW R, NEW N, NEW P, RanAs(a, tx, b, R, N, P)
      PROVE  b \in WayChains
  <2>1. Advances(a, tx, b, N) /\ b.nonce[tx.from] = tx.nonce /\ tx.from \in a.contract.authority
    BY <1>2, <1>3, <1>8, RanAdvances
  <2>2. tx.nonce = a.nonce[tx.from] + 1
    BY <1>8 DEF Runs
  <2>3. Undisturbed => tx \notin a.ran
    BY <1>2, <1>4, <1>5, <2>1, <2>2 DEF NoncesUsed
  <2>4. tx.nonce <= b.nonce[tx.from]
    BY <1>2, <2>1
  <2> QED
    BY <1>3, <2>1, <2>3, <2>4, AdvanceWay
<1> QED
  BY <1>1, <1>3, <1>6, <1>7, <1>8

(* A block keeps the locks on their way.                                   *)
LEMMA BlockWay ==
  ASSUME WayInv, SafeInv', NEW order \in Orders, ProcessBlock(order)
  PROVE  WayInv'
<1>1. PICK txs \in Seq(RawTx) :
        /\ InBlock(order, txs) /\ Chain' = RunAll(Chain, txs) /\ ToSet(order) \subseteq Servers
  BY BlockChain DEF WayInv, SafeInv
<1>2. /\ UNCHANGED <<setup, parserVars, newSpv, lightVars, pool, local, now, events>>
      /\ taken' = [s \in Server |-> taken[s] \/ s \in ToSet(order)]
      /\ \A i \in DOMAIN order : local[order[i]] # << >>
  BY DEF ProcessBlock
<1>3. ToSet(order) \subseteq Server /\ now \in Nat /\ Chain \in BlockState
  BY <1>1, SetupFacts DEF WayInv, SafeInv, TypeInv, ChainType
<1>4. ToSet(txs) \subseteq PooledTx
  <2>1. ASSUME NEW s \in Server, NEW tx \in ToSet(local[s]) PROVE tx \in PooledTx
    <3>1. tx \in RawTx /\ tx.from = s
      BY DEF WayInv, SafeInv, PoolKnown, Signed
    <3>2. tx \in ToSet(pool[s])
      BY DEF WayInv, PoolTaken
    <3> QED
      BY <3>1, <3>2 DEF PooledTx
  <2> QED
    BY <1>1, <1>3, <2>1 DEF InBlock
<1>5. Chain \in WayChains
  <2>1. SameContract(contract, Chain.contract)
    BY DEF SameContract, Chain
  <2> QED
    BY <1>3, <2>1 DEF WayChains, WayInv, ChainWay, OnItsWay
<1>6. Chain' \in WayChains
  <2>1. WayChains \in SUBSET BlockState /\ PooledTx \in SUBSET RawTx
    BY DEF WayChains, PooledTx
  <2>2. \A a \in WayChains : \A tx \in PooledTx : RunTx(a, tx) \in WayChains
    BY TxWay
  <2> QED
    BY <1>1, <1>3, <1>4, <1>5, <2>1, <2>2, BlockKeeps
<1>7. PICK b \in WayChains : b = Chain'
  BY <1>6
<1>8. /\ Placing(b) /\ (Undisturbed => NoncesUsed(b))
      /\ \A s \in Server :
           Tracked(waiting[s], handlers[s], pool[s], b, s, received[s], Undisturbed)
  BY DEF WayChains
<1>9. Undisturbed' = Undisturbed
  BY <1>2 DEF Undisturbed
<1>10. \A s \in Server : OnItsWay(s)'
  BY <1>2, <1>7, <1>8, <1>9 DEF OnItsWay, lightVars
<1>11. ChainWay'
  BY <1>7, <1>8, <1>9 DEF ChainWay
<1>12. PoolTaken'
  <2>1. ran \subseteq ran' /\ ToSet(txs) \subseteq ran'
    <3>1. Chain.ran \cup ToSet(txs) \subseteq RunAll(Chain, txs).ran
      BY <1>3, BlockRan
    <3>2. Chain.ran = ran /\ Chain'.ran = ran'
      BY DEF Chain
    <3> QED
      BY <1>1, <3>1, <3>2
  <2>2. ASSUME NEW s \in Server, taken'[s]
        PROVE  local[s] # << >> /\ ToSet(local[s]) \subseteq ran'
    <3>1. CASE taken[s]
      BY <2>1, <2>2, <3>1 DEF WayInv, PoolTaken
    <3>2. CASE s \in ToSet(order)
      <4>1. local[s] # << >>
        BY <1>2, <3>2 DEF ToSet
      <4>2. ToSet(local[s]) \subseteq ToSet(txs)
        BY <1>1, <3>2 DEF InBlock
      <4> QED
        BY <2>1, <4>1, <4>2
    <3> QED
      BY <1>2, <2>2, <3>1, <3>2
  <2> QED
    BY <1>2, <2>2 DEF WayInv, PoolTaken
<1> QED
  BY <1>10, <1>11, <1>12 DEF WayInv

(* At first no lock is on its way.                                         *)
LEMMA InitWay == Init => WayInv
<1> SUFFICES ASSUME Init PROVE WayInv
  OBVIOUS
<1>1. SafeInv
  BY InitKnown
<1>2. /\ ran = {} /\ Chain.ran = {} /\ received = [s \in Server |-> {}]
      /\ waiting = [s \in Server |-> << >>] /\ handlers = [s \in Server |-> {}]
      /\ pool = [s \in Server |-> << >>] /\ local = [s \in Server |-> << >>]
      /\ taken = [s \in Server |-> FALSE]
  BY DEF Init, Chain
<1>3. Chain.contract.requests = << >> /\ Chain.ended = {}
  BY DEF Init, Created, Chain
<1>4. ASSUME NEW s \in Server PROVE OnItsWay(s)
  <2>1. ASSUME NEW l PROVE Alone(<< >>, {}, << >>, Chain, s, l)
    <3>1. ~Noted(<< >>, l) /\ NotedOnce(<< >>, l) /\ ~InHand({}, s, l) /\ HeldOnce({}, s, l)
      BY DEF Noted, NotedOnce, InHand, HeldOnce
    <3>2. ~Queued(<< >>, Chain.ran, l) /\ QueuedOnce(<< >>, Chain.ran, l)
      BY DEF Queued, QueuedOnce
    <3>3. ~Sponsors(Chain.contract.requests, s, l) /\ ~Over(Chain.ended, s, l)
          /\ OverOnce(Chain.ended, s, l)
      BY <1>3 DEF Sponsors, Over, OverOnce
    <3> QED
      BY <3>1, <3>2, <3>3 DEF Alone, AtMostOne
  <2>2. Flushes(<< >>, {})
    BY DEF Flushes
  <2>3. Tracked(<< >>, {}, << >>, Chain, s, {}, Undisturbed)
    BY <2>1, <2>2 DEF Tracked
  <2>4. waiting[s] = << >> /\ handlers[s] = {} /\ pool[s] = << >> /\ received[s] = {}
    BY <1>2
  <2> QED
    BY <2>3, <2>4 DEF OnItsWay
<1>5. ChainWay
  BY <1>2 DEF ChainWay, Placing, NoncesUsed
<1>6. PoolTaken
  BY <1>2 DEF PoolTaken, ToSet
<1> QED
  BY <1>1, <1>4, <1>5, <1>6 DEF WayInv

(* Every step keeps the locks on their way.                                *)
LEMMA NextWay == WayInv /\ [Next]_vars => WayInv'
<1> SUFFICES ASSUME WayInv, [Next]_vars PROVE WayInv'
  OBVIOUS
<1>1. SafeInv'
  BY NextKnown DEF WayInv
<1>2. ASSUME Far PROVE WayInv'
  BY <1>1, <1>2, FarWay
<1>3. ASSUME NEW p \in Parsers,
             \/ ParseTransactions(p) \/ SaveSendedSpv(p) \/ SendSpv(p)
             \/ SaveBlockNumber(p) \/ ParserCrash(p)
      PROVE  WayInv'
  BY <1>2, <1>3, FarSteps DEF WayInv, SafeInv
<1>4. ASSUME NEW m \in newSpv, NewSpv(m) PROVE WayInv'
  BY <1>1, <1>4, ReceivedWay
<1>5. ASSUME NEW m \in newSpv, Lose(m) PROVE WayInv'
  BY <1>2, <1>5, FarSteps DEF WayInv, SafeInv
<1>6. ASSUME NEW s \in Servers, NEW h \in handlers[s],
             \/ SaveWaitingCrossPay(s, h) \/ LeaveWaiting(s, h) \/ GetWaitingCrossPay(s, h)
             \/ DestroyRow(s, h) \/ ReadAccount(s, h) \/ SaveRawTransaction(s, h)
      PROVE  WayInv'
  BY <1>1, <1>6, HandlersWay
<1>7. ASSUME NEW s \in Servers,
             \/ GetRawTransactions(s) \/ DeleteTransactions(s)
             \/ FlushFails(s) \/ LightServerCrash(s) \/ FullServerCrash(s)
      PROVE  WayInv'
  BY <1>1, <1>7, FullWay, EndWay, HandlersEnd DEF WayInv, SafeInv
<1>8. ASSUME NEW order \in Orders, ProcessBlock(order) PROVE WayInv'
  BY <1>1, <1>8, BlockWay
<1>9. ASSUME NEW s \in Servers,
             \/ \E t \in Servers : ModifyAuthorities(s, {t}, {}) \/ ModifyAuthorities(s, {}, {t})
             \/ Agree(s) \/ Reject(s)
      PROVE  WayInv'
  <2>1. s \in Server
    BY SetupFacts DEF WayInv, SafeInv, TypeInv
  <2>2. PICK agreed, c : agreed \in SUBSET Server /\ Own(s, agreed, c)
    BY <1>9, VotesOwn DEF WayInv, SafeInv
  <2> QED
    BY <1>1, <2>1, <2>2, VotesWay
<1>10. CASE LockCoins \/ AppendGuarantee \/ Tick \/ UNCHANGED vars
  BY <1>2, <1>10, FarSteps DEF WayInv, SafeInv
<1> QED
  BY <1>3, <1>4, <1>5, <1>6, <1>7, <1>8, <1>9, <1>10 DEF Next

(* Counting at most one.                                                   *)
LEMMA CountOne ==
  ASSUME NEW S, IsFiniteSet(S), NEW n, n = Cardinality(S)
  PROVE  /\ n \in Nat /\ (n = 0 <=> S = {})
         /\ (\A x, y \in S : x = y) => n <= 1
<1>1. n \in Nat /\ (n = 0 <=> S = {})
  BY FS_CardinalityType, FS_EmptySet
<1>2. ASSUME \A x, y \in S : x = y, S # {} PROVE n = 1
  <2>1. PICK x : S = {x}
    BY <1>2
  <2> QED
    BY <2>1, FS_Singleton
<1> QED
  BY <1>1, <1>2

(* The causes are few.                                                     *)
LEMMA CausesFinite == IsFiniteSet(Causes)
<1>1. IsFiniteSet({"crashed"}) /\ IsFiniteSet({"refused"}) /\ IsFiniteSet({"paid"})
      /\ IsFiniteSet({"expired"}) /\ IsFiniteSet({"forgotten"})
  BY FS_Singleton
<1>2. IsFiniteSet({"crashed"} \cup {"refused"})
  BY <1>1, FS_Union
<1>3. IsFiniteSet(({"crashed"} \cup {"refused"}) \cup {"paid"})
  BY <1>1, <1>2, FS_Union
<1>4. IsFiniteSet((({"crashed"} \cup {"refused"}) \cup {"paid"}) \cup {"expired"})
  BY <1>1, <1>3, FS_Union
<1>5. IsFiniteSet(((({"crashed"} \cup {"refused"}) \cup {"paid"}) \cup {"expired"})
                    \cup {"forgotten"})
  BY <1>1, <1>4, FS_Union
<1>6. Causes = (((({"crashed"} \cup {"refused"}) \cup {"paid"}) \cup {"expired"})
                  \cup {"forgotten"})
  BY DEF Causes
<1> QED
  BY <1>5, <1>6

(* E is what is over with l for s. *)
Ends(E, e, s, l) ==
  /\ IsFiniteSet(E) /\ (E # {} <=> Over(e, s, l))
  /\ OverOnce(e, s, l) => \A x, y \in E : x = y

(* What is over for a server is over for few reasons.                      *)
LEMMA EndedFinite ==
  ASSUME ended \subseteq Server \X Lock \X Causes, NEW s \in Server, NEW l \in Lock,
         NEW E, E = {e \in ended : e[1] = s /\ e[2] = l}
  PROVE  Ends(E, ended, s, l)
<1>1. \A e \in E : e[3] \in Causes /\ e = <<s, l, e[3]>> /\ e \in ended
  OBVIOUS
<1>2. IsFiniteSet(E)
  <2> DEFINE f == [e \in E |-> e[3]]
  <2>1. f \in Injection(E, Causes)
    BY <1>1 DEF Injection, IsInjective
  <2> HIDE DEF f
  <2> QED
    BY <2>1, CausesFinite, FS_Injection
<1>3. ASSUME NEW c \in Causes, <<s, l, c>> \in ended PROVE E # {}
  <2>1. <<s, l, c>> \in E
    BY <1>3
  <2> QED
    BY <2>1
<1>4. E # {} <=> Over(ended, s, l)
  BY <1>1, <1>3 DEF Over
<1>5. ASSUME OverOnce(ended, s, l), NEW d \in E, NEW e \in E PROVE d = e
  BY <1>1, <1>5 DEF OverOnce
<1> QED
  BY <1>2, <1>4, <1>5 DEF Ends

(* The numbers of places add up.                                           *)
LEMMA SumOfOne ==
  ASSUME NEW a \in Nat, NEW b \in Nat, NEW c \in Nat, NEW d \in Nat, NEW e \in Nat
  PROVE  /\ a # 0 \/ b # 0 \/ c # 0 \/ d # 0 \/ e # 0 => a + b + c + d + e > 0
         /\ a <= 1 /\ b <= 1 /\ c <= 1 /\ d <= 1 /\ e <= 1
              /\ AtMostOne(a # 0, b # 0, c # 0, d # 0, e # 0) => ~(a + b + c + d + e > 1)
  BY DEF AtMostOne

(* A lock on its way is accounted for.                                     *)
LEMMA WayAccounted == WayInv => Accounted
<1> SUFFICES ASSUME WayInv, NEW s \in Servers, NEW l \in received[s]
             PROVE  Places(s, l) > 0 /\ (Places(s, l) > 1 => ~Undisturbed)
  BY DEF Accounted
<1>1. s \in Server /\ l \in Lock
  <2>1. s \in Server /\ received \in [Server -> SUBSET Lock]
    BY SetupFacts DEF WayInv, SafeInv, TypeInv, LightType
  <2> QED
    BY <2>1
<1>2. PICK w, H, P, q, b :
        w = waiting[s] /\ H = handlers[s] /\ P = pool[s] /\ q = contract.requests /\ b = Chain
  OBVIOUS
<1>3. /\ w \in Seq(Lock) /\ H \in HandlerSets /\ P \in Seq(RawTx)
      /\ ended \subseteq Server \X Lock \X Causes
  BY <1>1, <1>2 DEF WayInv, SafeInv, TypeInv, LightType, PoolType, ChainType, Chain, BlockState
<1>4. q \in Seq(PayRequest) /\ Distinct(q)
  BY <1>2 DEF WayInv, SafeInv, TypeInv, ChainType, Chain, BlockState, Contract
<1>5. b.ran = ran /\ b.ended = ended /\ b.contract.requests = q
  BY <1>2 DEF Chain
<1>6. Placed(w, H, P, b, s, l) /\ (Undisturbed => Alone(w, H, P, b, s, l))
  BY <1>1, <1>2 DEF WayInv, OnItsWay, Tracked
<1>7. PICK N, D, C, R, E :
        /\ N = {i \in DOMAIN w : w[i] = l}
        /\ D = {h \in H : l \in Held(s, h)}
        /\ C = {i \in DOMAIN P : P[i] \notin ran /\ l \in ToSet(P[i].locks)}
        /\ R = {i \in DOMAIN q : q[i].lock = l /\ s \in q[i].sponsors}
        /\ E = {e \in ended : e[1] = s /\ e[2] = l}
  OBVIOUS
<1>8. PICK n, d, c, r, e : /\ n = Cardinality(N) /\ d = Cardinality(D) /\ c = Cardinality(C)
                           /\ r = Cardinality(R) /\ e = Cardinality(E)
  OBVIOUS
<1>9. Places(s, l) = n + d + c + r + e
  BY <1>2, <1>7, <1>8 DEF Places, InPool, Pending
<1>10. ASSUME NEW S, NEW z \in Seq(S), NEW T \in SUBSET (DOMAIN z) PROVE IsFiniteSet(T)
  <2>1. PICK k \in Nat : DOMAIN z = 1 .. k
    BY <1>10
  <2>2. IsFiniteSet(1 .. k)
    BY FS_Interval
  <2> QED
    BY <2>1, <2>2, FS_Subset
<1>11. n \in Nat /\ (n # 0 <=> Noted(w, l)) /\ (NotedOnce(w, l) => n <= 1)
  <2>1. N \in SUBSET (DOMAIN w)
    BY <1>7
  <2>2. IsFiniteSet(N)
    BY <1>3, <1>10, <2>1
  <2>3. (N # {} <=> Noted(w, l)) /\ (NotedOnce(w, l) => \A x, y \in N : x = y)
    BY <1>7 DEF Noted, NotedOnce
  <2> QED
    BY <1>8, <2>2, <2>3, CountOne
<1>12. d \in Nat /\ (d # 0 <=> InHand(H, s, l)) /\ (HeldOnce(H, s, l) => d <= 1)
  <2>1. D \in SUBSET H /\ IsFiniteSet(H)
    BY <1>3, <1>7 DEF HandlerSets
  <2>2. IsFiniteSet(D)
    BY <2>1, FS_Subset
  <2>3. (D # {} <=> InHand(H, s, l)) /\ (HeldOnce(H, s, l) => \A x, y \in D : x = y)
    BY <1>7 DEF InHand, HeldOnce
  <2> QED
    BY <1>8, <2>2, <2>3, CountOne
<1>13. c \in Nat /\ (c # 0 <=> Queued(P, ran, l)) /\ (QueuedOnce(P, ran, l) => c <= 1)
  <2>1. C \in SUBSET (DOMAIN P)
    BY <1>7
  <2>2. IsFiniteSet(C)
    BY <1>3, <1>10, <2>1
  <2>3. (C # {} <=> Queued(P, ran, l)) /\ (QueuedOnce(P, ran, l) => \A x, y \in C : x = y)
    BY <1>7 DEF Queued, QueuedOnce, QueuedAt
  <2> QED
    BY <1>8, <2>2, <2>3, CountOne
<1>14. r \in Nat /\ (r # 0 <=> Sponsors(q, s, l)) /\ r <= 1
  <2>1. R \in SUBSET (DOMAIN q)
    BY <1>7
  <2>2. IsFiniteSet(R)
    BY <1>4, <1>10, <2>1
  <2>3. (R # {} <=> Sponsors(q, s, l)) /\ \A x, y \in R : x = y
    BY <1>4, <1>7 DEF Sponsors, Distinct
  <2> QED
    BY <1>8, <2>2, <2>3, CountOne
<1>15. e \in Nat /\ (e # 0 <=> Over(ended, s, l)) /\ (OverOnce(ended, s, l) => e <= 1)
  <2>1. Ends(E, ended, s, l)
    BY <1>1, <1>3, <1>7, EndedFinite
  <2> QED
    BY <1>8, <2>1, CountOne DEF Ends
<1>16. Places(s, l) > 0
  <2>1. n # 0 \/ d # 0 \/ c # 0 \/ r # 0 \/ e # 0
    BY <1>5, <1>6, <1>11, <1>12, <1>13, <1>14, <1>15 DEF Placed
  <2> QED
    BY <1>9, <1>11, <1>12, <1>13, <1>14, <1>15, <2>1, SumOfOne
<1>17. ASSUME Undisturbed PROVE ~(Places(s, l) > 1)
  <2>1. Alone(w, H, P, b, s, l)
    BY <1>6, <1>17
  <2>2. n <= 1 /\ d <= 1 /\ c <= 1 /\ r <= 1 /\ e <= 1
    BY <1>5, <1>11, <1>12, <1>13, <1>14, <1>15, <2>1 DEF Alone
  <2>3. AtMostOne(n # 0, d # 0, c # 0, r # 0, e # 0)
    BY <1>5, <1>11, <1>12, <1>13, <1>14, <1>15, <2>1 DEF Alone, AtMostOne
  <2>4. n \in Nat /\ d \in Nat /\ c \in Nat /\ r \in Nat /\ e \in Nat
    BY <1>11, <1>12, <1>13, <1>14, <1>15
  <2>5. ~(n + d + c + r + e > 1)
    BY <2>2, <2>3, <2>4, SumOfOne DEF AtMostOne
  <2> QED
    BY <1>9, <2>5
<1> QED
  BY <1>16, <1>17

(* The locks are on their way always.                                      *)
LEMMA OnWay == Spec => []WayInv
<1> QED
  BY InitWay, NextWay, PTL DEF Spec

(* From ReceivedSpv on a lock is always somewhere: noted, held by a        *)
(* handler, in the pool, in the contract or over; and in one place only as *)
(* long as no two flushes overlap and the authorities stay.                *)
THEOREM AlwaysAccounted == Spec => []Accounted
<1> QED
  BY OnWay, WayAccounted, PTL

(***************************************************************************)
(* Payments.  Each is made for sponsors of its own, enough of them.        *)
(***************************************************************************)
Payers(e, l) == {s \in Server : <<s, l, "paid">> \in e}

Quota(c) == c.threshold * Cardinality(c.authority)

PaidFor(b) ==
  \A l \in Lock :
    /\ Payers(b.ended, l) \subseteq b.contract.authority
    /\ Cardinality(Payers(b.ended, l)) * 100 >= b.paid[l] * Quota(b.contract)
    /\ b.paid[l] > 0 => b.contract.authority # {}

PaidInv == WayInv /\ (Undisturbed => PaidFor(Chain))

PaidChains ==
  {b \in BlockState : b \in WayChains /\ b \in SafeChains /\ (Undisturbed => PaidFor(b))}

PaidTx == {tx \in RawTx : tx \in PooledTx /\ tx \in ReceivedTx}

(* Shares add up.                                                          *)
LEMMA QuotaMore ==
  ASSUME NEW p \in Nat, NEW m \in Nat, NEW x \in Nat, NEW y \in Nat,
         x * 100 >= p * m, y * 100 >= m
  PROVE  (x + y) * 100 >= (p + 1) * m
<1>1. PICK z \in Nat : z = p * m
  OBVIOUS
<1>2. (p + 1) * m = z + m
  BY <1>1
<1> QED
  BY <1>1, <1>2

(* A transaction that runs pays for sponsors who were paid for nothing.    *)
LEMMA RanPays ==
  ASSUME PaidInv, NEW a \in PaidChains, NEW tx \in PaidTx, Runs(a, tx), NEW b \in BlockState,
         NEW R, NEW N, NEW P, RanAs(a, tx, b, R, N, P), b \in SafeChains, Undisturbed
  PROVE  PaidFor(b)
<1>1. /\ a \in BlockState /\ PaidFor(a) /\ NoncesUsed(a) /\ Quorate(a) /\ Quorate(b)
      /\ \A s \in Server :
           Tracked(waiting[s], handlers[s], pool[s], a, s, received[s], Undisturbed)
  BY DEF PaidChains, WayChains, SafeChains, Undisturbed
<1>2. tx \in RawTx /\ tx \in ToSet(pool[tx.from]) /\ tx.from \in Server /\ tx.nonce \in Nat
      /\ tx.locks \in Seq(Lock)
  BY DEF PaidTx, PooledTx, RawTx
<1>3. /\ R \in Requests /\ MoreSponsors(a.contract.requests, R, tx.from, ToSet(tx.locks))
      /\ Moved(R, b.contract.requests, N, P)
      /\ SameContract(a.contract, b.contract) /\ b.ended = a.ended \cup N
      /\ \A l \in Lock : b.paid[l] = a.paid[l] + IF l \in P THEN 1 ELSE 0
      /\ \A l \in P : \E A \in SUBSET Server :
           Reaches(a.contract, Cardinality(A)) /\ \A s : s \in A <=> Sponsors(R, s, l)
  BY DEF RanAs
<1>4. tx \notin a.ran
  <2>1. a.nonce[tx.from] \in Nat /\ tx.nonce = a.nonce[tx.from] + 1
        /\ tx.from \in a.contract.authority
    BY <1>1, <1>2 DEF BlockState, Runs, MayCrossPay
  <2> QED
    BY <1>1, <1>2, <2>1 DEF NoncesUsed
<1>5. /\ b.contract.authority = a.contract.authority /\ Quota(b.contract) = Quota(a.contract)
      /\ tx.from \in a.contract.authority /\ a.contract.authority = setup.authority
      /\ a.contract.authority \subseteq Server
  BY <1>1, <1>3 DEF SameContract, Quota, Runs, MayCrossPay, Quorate, BlockState, Contract
<1>6. IsFiniteSet(a.contract.authority)
  BY <1>5, CrossAssumption, FS_Subset
<1>7. ASSUME NEW s \in Server, NEW l \in Lock, Sponsors(R, s, l)
      PROVE  <<s, l, "paid">> \notin a.ended /\ s \in a.contract.authority
  <2>1. Sponsors(a.contract.requests, s, l) \/ (s = tx.from /\ l \in ToSet(tx.locks))
    BY <1>3, <1>7 DEF MoreSponsors
  <2>2. Alone(waiting[s], handlers[s], pool[s], a, s, l)
    BY <1>1 DEF Tracked
  <2>3. <<s, l, "paid">> \in a.ended => Over(a.ended, s, l)
    BY DEF Over, Causes
  <2>4. CASE Sponsors(a.contract.requests, s, l)
    <3>1. ~Over(a.ended, s, l)
      BY <2>2, <2>4 DEF Alone, AtMostOne
    <3> QED
      BY <1>1, <1>5, <2>3, <2>4, <3>1 DEF Quorate
  <2>5. CASE s = tx.from /\ l \in ToSet(tx.locks)
    <3>1. Queued(pool[s], a.ran, l)
      BY <1>2, <1>4, <2>5 DEF Queued, QueuedAt, ToSet
    <3>2. ~Over(a.ended, s, l)
      BY <2>2, <3>1 DEF Alone, AtMostOne
    <3> QED
      BY <1>5, <2>3, <2>5, <3>2
  <2> QED
    BY <2>1, <2>4, <2>5
<1>8. ASSUME NEW l \in Lock
      PROVE  /\ Payers(b.ended, l) \subseteq b.contract.authority
             /\ Cardinality(Payers(b.ended, l)) * 100 >= b.paid[l] * Quota(b.contract)
             /\ b.paid[l] > 0 => b.contract.authority # {}
  <2>1. /\ Payers(a.ended, l) \subseteq a.contract.authority
        /\ Cardinality(Payers(a.ended, l)) * 100 >= a.paid[l] * Quota(a.contract)
    BY <1>1 DEF PaidFor
  <2>2. \A s \in Server : <<s, l, "paid">> \in N <=> l \in P /\ Sponsors(R, s, l)
    BY <1>3 DEF Moved
  <2>3. CASE l \notin P
    <3>1. Payers(b.ended, l) = Payers(a.ended, l)
      BY <1>3, <2>2, <2>3 DEF Payers
    <3>2. b.paid[l] = a.paid[l]
      BY <1>1, <1>3, <2>3 DEF BlockState
    <3> QED
      BY <1>5, <2>1, <3>1, <3>2
  <2>4. CASE l \in P
    <3>1. PICK A \in SUBSET Server :
            Reaches(a.contract, Cardinality(A)) /\ \A s : s \in A <=> Sponsors(R, s, l)
      BY <1>3, <2>4
    <3>2. PICK B : B = Payers(a.ended, l)
      OBVIOUS
    <3>3. Payers(b.ended, l) = B \cup A
      BY <1>3, <2>2, <2>4, <3>1, <3>2 DEF Payers
    <3>4. A \subseteq a.contract.authority /\ B \subseteq a.contract.authority /\ B \cap A = {}
      BY <1>7, <2>1, <3>1, <3>2 DEF Payers
    <3>5. IsFiniteSet(A) /\ IsFiniteSet(B)
      BY <1>6, <3>4, FS_Subset
    <3>6. PICK x \in Nat, y \in Nat : x = Cardinality(B) /\ y = Cardinality(A)
      BY <3>5, FS_CardinalityType
    <3>7. Cardinality(B \cup A) = x + y
      <4>1. Cardinality(B \cup A) = Cardinality(B) + Cardinality(A) - Cardinality(B \cap A)
        BY <3>5, FS_Union
      <4>2. Cardinality(B \cap A) = 0
        BY <3>4, FS_EmptySet
      <4> QED
        BY <3>6, <4>1, <4>2
    <3>8. PICK m \in Nat : m = Quota(a.contract)
      <4>1. PICK k \in Nat : k = Cardinality(a.contract.authority)
        BY <1>6, FS_CardinalityType
      <4>2. PICK t \in Nat : t = a.contract.threshold
        <5>1. a.contract \in Contract
          BY <1>1 DEF BlockState
        <5>2. a.contract.threshold \in 1 .. 100
          BY <5>1 DEF Contract
        <5> QED
          BY <5>2
      <4> QED
        BY <4>1, <4>2 DEF Quota
    <3>9. PICK p \in Nat : p = a.paid[l] /\ b.paid[l] = p + 1
      BY <1>1, <1>3, <2>4 DEF BlockState
    <3>10. y * 100 >= m
      BY <3>1, <3>6, <3>8 DEF Reaches, Quota
    <3>11. x * 100 >= p * m
      BY <2>1, <3>2, <3>6, <3>8, <3>9
    <3>12. (x + y) * 100 >= (p + 1) * m
      BY <3>10, <3>11, QuotaMore
    <3>13. Cardinality(Payers(b.ended, l)) * 100 >= b.paid[l] * Quota(b.contract)
      BY <1>5, <3>3, <3>7, <3>8, <3>9, <3>12
    <3> QED
      BY <1>5, <3>3, <3>4, <3>13
  <2> QED
    BY <2>3, <2>4
<1> QED
  BY <1>8 DEF PaidFor

(* What is refused pays nothing.                                           *)
LEMMA RefusedPays ==
  ASSUME NEW a \in BlockState, NEW tx, NEW b, Refuses(a, tx, b), PaidFor(a)
  PROVE  PaidFor(b)
<1>1. /\ b.contract = a.contract /\ b.paid = a.paid
      /\ b.ended = a.ended \cup Ended(tx.from, ToSet(tx.locks), "refused")
  BY DEF Refuses
<1>2. \A l : Payers(b.ended, l) = Payers(a.ended, l)
  BY <1>1 DEF Payers, Ended
<1> QED
  BY <1>1, <1>2 DEF PaidFor

(* So a transaction pays only for sponsors of its own payment.             *)
LEMMA TxPays ==
  ASSUME PaidInv, NEW a \in PaidChains, NEW tx \in PaidTx
  PROVE  RunTx(a, tx) \in PaidChains
<1>1. PICK b : b = RunTx(a, tx)
  OBVIOUS
<1>2. a \in WayChains /\ a \in SafeChains /\ a \in BlockState
      /\ tx \in PooledTx /\ tx \in ReceivedTx /\ tx \in RawTx
  BY DEF PaidChains, PaidTx
<1>3. b \in WayChains /\ b \in SafeChains
  BY <1>1, <1>2, TxWay, TxKnown DEF PaidInv, WayInv
<1>4. /\ b \in BlockState
      /\ \/ Runs(a, tx) /\ \E R, N, P : RanAs(a, tx, b, R, N, P)
         \/ Refuses(a, tx, b)
         \/ Idles(a, tx, b)
  BY <1>1, <1>2, RunTxCases DEF PaidInv, WayInv, SafeInv, TypeInv
<1>5. ASSUME Undisturbed PROVE PaidFor(b)
  <2>1. PaidFor(a)
    BY <1>5 DEF PaidChains
  <2>2. CASE Idles(a, tx, b)
    BY <2>1, <2>2 DEF Idles
  <2>3. CASE Refuses(a, tx, b)
    BY <1>2, <2>1, <2>3, RefusedPays
  <2>4. ASSUME Runs(a, tx), NEW R, NEW N, NEW P, RanAs(a, tx, b, R, N, P) PROVE PaidFor(b)
    BY <1>3, <1>4, <1>5, <2>4, RanPays
  <2> QED
    BY <1>4, <2>2, <2>3, <2>4
<1> QED
  BY <1>1, <1>3, <1>4, <1>5 DEF PaidChains

(* And a block of them.                                                    *)
LEMMA BlockPays ==
  ASSUME PaidInv, WayInv', NEW order \in Orders, ProcessBlock(order)
  PROVE  PaidInv'
<1>1. PICK txs \in Seq(RawTx) :
        /\ InBlock(order, txs) /\ Chain' = RunAll(Chain, txs) /\ ToSet(order) \subseteq Servers
  BY BlockChain DEF PaidInv, WayInv, SafeInv
<1>2. UNCHANGED events
  BY DEF ProcessBlock
<1>3. ToSet(order) \subseteq Server /\ now \in Nat /\ Chain \in BlockState
  BY <1>1, SetupFacts DEF PaidInv, WayInv, SafeInv, TypeInv, ChainType
<1>4. ToSet(txs) \subseteq PaidTx
  <2>1. ASSUME NEW s \in Server, NEW tx \in ToSet(local[s]) PROVE tx \in PaidTx
    <3>1. tx \in RawTx /\ tx.from = s /\ tx \in ReceivedTx
      BY DEF PaidInv, WayInv, SafeInv, PoolKnown, Signed, ReceivedTx
    <3>2. tx \in ToSet(pool[s])
      BY DEF PaidInv, WayInv, PoolTaken
    <3> QED
      BY <3>1, <3>2 DEF PooledTx, PaidTx
  <2> QED
    BY <1>1, <1>3, <2>1 DEF InBlock
<1>5. Chain \in PaidChains
  <2>1. SameContract(contract, Chain.contract)
    BY DEF SameContract, Chain
  <2>2. Chain \in WayChains
    BY <1>3, <2>1 DEF WayChains, PaidInv, WayInv, ChainWay, OnItsWay
  <2>3. Chain \in SafeChains
    BY <1>3, <2>1 DEF SafeChains, PaidInv, WayInv, SafeInv, ChainKnown
  <2> QED
    BY <1>3, <2>2, <2>3 DEF PaidChains, PaidInv
<1>6. Chain' \in PaidChains
  <2>1. PaidChains \in SUBSET BlockState /\ PaidTx \in SUBSET RawTx
    BY DEF PaidChains, PaidTx
  <2>2. \A a \in PaidChains : \A tx \in PaidTx : RunTx(a, tx) \in PaidChains
    BY TxPays
  <2> QED
    BY <1>1, <1>3, <1>4, <1>5, <2>1, <2>2, BlockKeeps
<1>7. PICK b \in PaidChains : b = Chain'
  BY <1>6
<1>8. Undisturbed => PaidFor(b)
  BY DEF PaidChains
<1>9. Undisturbed' = Undisturbed
  BY <1>2 DEF Undisturbed
<1>10. (Undisturbed => PaidFor(Chain))'
  BY <1>7, <1>8, <1>9
<1> QED
  BY <1>10 DEF PaidInv

(* Steps that pay nobody.                                                  *)
SamePaid ==
  /\ contract' = contract /\ paid' = paid /\ (Undisturbed' => Undisturbed)
  /\ \A s, l : <<s, l, "paid">> \in ended' <=> <<s, l, "paid">> \in ended

(* They keep what payments are for.                                        *)
LEMMA SamePays ==
  ASSUME PaidInv, WayInv', SamePaid
  PROVE  PaidInv'
<1>1. \A l : Payers(ended', l) = Payers(ended, l)
  BY DEF SamePaid, Payers
<1>2. ASSUME Undisturbed' PROVE PaidFor(Chain')
  <2>1. PaidFor(Chain)
    BY <1>2 DEF PaidInv, SamePaid
  <2>2. /\ Chain.contract = contract /\ Chain.ended = ended /\ Chain.paid = paid
        /\ Chain'.contract = contract /\ Chain'.ended = ended' /\ Chain'.paid = paid
    BY DEF Chain, SamePaid
  <2> QED
    BY <1>1, <2>1, <2>2 DEF PaidFor
<1> QED
  BY <1>2 DEF PaidInv

(* They are all but blocks and votes.                                      *)
LEMMA SameSteps ==
  ASSUME TypeInv,
         \/ Far
         \/ \E m \in newSpv : NewSpv(m)
         \/ \E s \in Servers : \E h \in handlers[s] :
              \/ SaveWaitingCrossPay(s, h) \/ LeaveWaiting(s, h) \/ GetWaitingCrossPay(s, h)
              \/ DestroyRow(s, h) \/ ReadAccount(s, h) \/ SaveRawTransaction(s, h)
         \/ \E s \in Servers : \/ GetRawTransactions(s) \/ DeleteTransactions(s)
                               \/ FlushFails(s) \/ LightServerCrash(s) \/ FullServerCrash(s)
  PROVE  SamePaid
<1>1. events \in [faults : Nat, changes : Nat, overlaps : BOOLEAN, agreed : SUBSET Server]
  BY DEF TypeInv, EventType
<1>2. CASE Far
  BY <1>2 DEF Far, SameEvents, SameVotes, SamePaid, Undisturbed
<1>3. ASSUME NEW m \in newSpv, NewSpv(m) PROVE SamePaid
  BY <1>3 DEF NewSpv, SamePaid, Undisturbed, chainVars
<1>4. ASSUME NEW s \in Servers, NEW h \in handlers[s],
             \/ SaveWaitingCrossPay(s, h) \/ LeaveWaiting(s, h) \/ GetWaitingCrossPay(s, h)
             \/ DestroyRow(s, h) \/ ReadAccount(s, h) \/ SaveRawTransaction(s, h)
      PROVE  SamePaid
  <2>1. \E from, to : HandlerStep(s, h, from, to)
    BY <1>4 DEF SaveWaitingCrossPay, LeaveWaiting, GetWaitingCrossPay, DestroyRow, ReadAccount,
       SaveRawTransaction
  <2>2. contract' = contract /\ paid' = paid /\ ended' = ended
    BY <2>1 DEF HandlerStep, chainVars
  <2>3. CASE GetWaitingCrossPay(s, h)
    <3>1. \E o \in BOOLEAN : (events.overlaps => o) /\ events' = [events EXCEPT !.overlaps = o]
      BY <1>1, <2>3 DEF GetWaitingCrossPay
    <3>2. events'.changes = events.changes /\ (events.overlaps => events'.overlaps)
      BY <1>1, <3>1
    <3> QED
      BY <2>2, <3>2 DEF SamePaid, Undisturbed
  <2>4. CASE ~GetWaitingCrossPay(s, h)
    <3>1. events' = events
      BY <1>4, <2>4 DEF SaveWaitingCrossPay, LeaveWaiting, DestroyRow, ReadAccount,
         SaveRawTransaction
    <3> QED
      BY <2>2, <3>1 DEF SamePaid, Undisturbed
  <2> QED
    BY <2>3, <2>4
<1>5. ASSUME NEW s \in Servers,
             \/ GetRawTransactions(s) \/ DeleteTransactions(s)
             \/ FlushFails(s) \/ LightServerCrash(s) \/ FullServerCrash(s)
      PROVE  SamePaid
  <2>1. contract' = contract /\ paid' = paid
    BY <1>5 DEF GetRawTransactions, DeleteTransactions, FlushFails, LightServerCrash,
       FullServerCrash, chainVars
  <2>2. events'.changes = events.changes /\ events'.overlaps = events.overlaps
    <3>1. Fault \/ events' = events
      BY <1>5 DEF GetRawTransactions, DeleteTransactions, FlushFails, LightServerCrash,
         FullServerCrash
    <3> QED
      BY <3>1, FaultEvents DEF SameEvents, SameVotes
  <2>3. ended' = ended \/ \E K : ended' = ended \cup Ended(s, K, "crashed")
    BY <1>5 DEF GetRawTransactions, DeleteTransactions, FlushFails, LightServerCrash,
       FullServerCrash
  <2>4. \A r, l : <<r, l, "paid">> \in ended' <=> <<r, l, "paid">> \in ended
    BY <2>3 DEF Ended
  <2> QED
    BY <2>1, <2>2, <2>4 DEF SamePaid, Undisturbed
<1> QED
  BY <1>2, <1>3, <1>4, <1>5

(* At first nobody is paid.                                                *)
LEMMA InitPays == Init => PaidInv
<1> SUFFICES ASSUME Init PROVE PaidInv
  OBVIOUS
<1>1. WayInv
  BY InitWay
<1>2. Chain.ended = {} /\ Chain.paid = [l \in Lock |-> 0] /\ contract \in Contract
  <2>1. contract \in Contract
    BY <1>1 DEF WayInv, SafeInv, TypeInv, ChainType, Chain, BlockState
  <2> QED
    BY <2>1 DEF Init, Chain
<1>3. Quota(Chain.contract) \in Nat
  <2>1. Chain.contract = contract /\ contract.authority \subseteq Server
        /\ contract.threshold \in 1 .. 100
    BY <1>2 DEF Chain, Contract
  <2>2. Cardinality(contract.authority) \in Nat
    BY <2>1, CrossAssumption, FS_Subset, FS_CardinalityType
  <2> QED
    BY <2>1, <2>2 DEF Quota
<1>4. \A l \in Lock : Payers(Chain.ended, l) = {} /\ Chain.paid[l] = 0
  BY <1>2 DEF Payers
<1>5. Cardinality({}) = 0
  BY FS_EmptySet
<1>6. PaidFor(Chain)
  BY <1>3, <1>4, <1>5 DEF PaidFor
<1> QED
  BY <1>1, <1>6 DEF PaidInv

(* Every step pays only for sponsors of its own payments.                  *)
LEMMA NextPays == PaidInv /\ [Next]_vars => PaidInv'
<1> SUFFICES ASSUME PaidInv, [Next]_vars PROVE PaidInv'
  OBVIOUS
<1>1. WayInv'
  BY NextWay DEF PaidInv
<1>2. TypeInv
  BY DEF PaidInv, WayInv, SafeInv
<1>3. ASSUME SamePaid PROVE PaidInv'
  BY <1>1, <1>3, SamePays
<1>4. ASSUME NEW order \in Orders, ProcessBlock(order) PROVE PaidInv'
  BY <1>1, <1>4, BlockPays
<1>5. ASSUME NEW s \in Servers,
             \/ \E t \in Servers : ModifyAuthorities(s, {t}, {}) \/ ModifyAuthorities(s, {}, {t})
             \/ Agree(s) \/ Reject(s)
      PROVE  PaidInv'
  <2>1. PICK agreed, c : agreed \in SUBSET Server /\ Own(s, agreed, c)
    BY <1>2, <1>5, VotesOwn
  <2>2. events' = [events EXCEPT !.changes = @ + 1, !.agreed = agreed]
    BY <2>1 DEF Own, OwnTransaction
  <2>3. ~Undisturbed'
    <3>1. events \in [faults : Nat, changes : Nat, overlaps : BOOLEAN, agreed : SUBSET Server]
      BY <1>2 DEF TypeInv, EventType
    <3>2. PICK n \in Nat : n = events.changes + 1 /\ n # 0
      BY <3>1
    <3>3. events'.changes = n
      BY <2>2, <3>1, <3>2
    <3> QED
      BY <3>2, <3>3 DEF Undisturbed
  <2> QED
    BY <1>1, <2>3 DEF PaidInv
<1>6. CASE \/ LockCoins \/ AppendGuarantee \/ Tick \/ UNCHANGED vars
           \/ \E m \in newSpv : Lose(m)
           \/ \E p \in Parsers : \/ ParseTransactions(p) \/ SaveSendedSpv(p) \/ SendSpv(p)
                                 \/ SaveBlockNumber(p) \/ ParserCrash(p)
  <2>1. Far
    BY <1>2, <1>6, FarSteps
  <2>2. SamePaid
    BY <1>2, <2>1, SameSteps
  <2> QED
    BY <1>3, <2>2
<1>7. CASE \E m \in newSpv : NewSpv(m)
  BY <1>2, <1>3, <1>7, SameSteps
<1>8. CASE \E s \in Servers : \E h \in handlers[s] :
             \/ SaveWaitingCrossPay(s, h) \/ LeaveWaiting(s, h) \/ GetWaitingCrossPay(s, h)
             \/ DestroyRow(s, h) \/ ReadAccount(s, h) \/ SaveRawTransaction(s, h)
  BY <1>2, <1>3, <1>8, SameSteps
<1>9. CASE \E s \in Servers : \/ GetRawTransactions(s) \/ DeleteTransactions(s)
                              \/ FlushFails(s) \/ LightServerCrash(s) \/ FullServerCrash(s)
  BY <1>2, <1>3, <1>9, SameSteps
<1> QED
  BY <1>4, <1>5, <1>6, <1>7, <1>8, <1>9 DEF Next

(* More than half of the authorities can be paid for once.                 *)
LEMMA HalfOnce ==
  ASSUME NEW p \in Nat, NEW t \in Nat, NEW n \in Nat, NEW x \in Nat,
         x <= n, x * 100 >= p * (t * n), t > 50, p > 0 => n > 0
  PROVE  p <= 1
<1> SUFFICES ASSUME p > 1 PROVE FALSE
  OBVIOUS
<1>1. PICK m \in Nat : m = t * n
  OBVIOUS
<1>2. t * n > 50 * n
  OBVIOUS
<1>3. p * m >= 2 * m
  BY <1>1
<1> QED
  BY <1>1, <1>2, <1>3

(* At a threshold above one half that is one payment.                      *)
LEMMA PaidForOnce == PaidInv => (contract.threshold > 50 => PaidOnce)
<1> SUFFICES ASSUME PaidInv, contract.threshold > 50, Undisturbed, NEW l \in Lock
             PROVE  paid[l] <= 1
  BY DEF PaidOnce
<1>1. PICK x : x = Payers(ended, l)
  OBVIOUS
<1>2. /\ x \subseteq contract.authority
      /\ Cardinality(x) * 100 >= paid[l] * (contract.threshold * Cardinality(contract.authority))
      /\ paid[l] > 0 => contract.authority # {}
  <2>1. Chain.contract = contract /\ Chain.paid = paid /\ Chain.ended = ended
    BY DEF Chain
  <2> QED
    BY <1>1, <2>1 DEF PaidInv, PaidFor, Quota
<1>3. contract \in Contract /\ paid[l] \in Nat
  BY DEF PaidInv, WayInv, SafeInv, TypeInv, ChainType, Chain, BlockState
<1>4. contract.authority \subseteq Server /\ contract.threshold \in Nat
  <2>1. contract.authority \subseteq Server /\ contract.threshold \in 1 .. 100
    BY <1>3 DEF Contract
  <2> QED
    BY <2>1
<1>5. IsFiniteSet(contract.authority)
  BY <1>4, CrossAssumption, FS_Subset
<1>6. /\ Cardinality(x) \in Nat /\ Cardinality(contract.authority) \in Nat
      /\ Cardinality(x) <= Cardinality(contract.authority)
  BY <1>2, <1>5, FS_Subset, FS_CardinalityType
<1>7. contract.authority # {} => Cardinality(contract.authority) > 0
  BY <1>5, <1>6, FS_EmptySet
<1>8. PICK p \in Nat, t \in Nat, n \in Nat, k \in Nat :
        /\ p = paid[l] /\ t = contract.threshold /\ n = Cardinality(contract.authority)
        /\ k = Cardinality(x)
  BY <1>3, <1>4, <1>6
<1>9. k <= n /\ k * 100 >= p * (t * n) /\ t > 50 /\ (p > 0 => n > 0)
  BY <1>2, <1>6, <1>7, <1>8
<1>10. p <= 1
  BY <1>9, HalfOnce
<1> QED
  BY <1>8, <1>10

(* The payments are for sponsors of their own always.                      *)
LEMMA Paying == Spec => []PaidInv
<1> QED
  BY InitPays, NextPays, PTL DEF Spec

(* A contract whose threshold is above one half pays a lock at most once,  *)
(* whatever crashes, expires, is lost or sent by several parsers, as long  *)
(* as no two flushes overlap and the authorities stay: each payment is for *)
(* sponsors who were paid for nothing before, and two such parts of the    *)
(* authorities would meet.                                                 *)
THEOREM AlwaysPaidOnce == Spec => [](contract.threshold > 50 => PaidOnce)
<1> QED
  BY Paying, PaidForOnce, PTL

(***************************************************************************)
(* The quiet end.  A server that is told of a lock by the last parser to   *)
(* parse it has received it, and the sponsors of a lock that nobody paid   *)
(* wait for more of them.                                                  *)
(***************************************************************************)
(* Parser p has told server s of a lock and is not heard yet, or is to.    *)
Tells(p, s, l) ==
  \/ <<p, s, l>> \in newSpv
  \/ /\ Parsing(p) = l
     /\ \/ parser[p].step = "saved"
        \/ parser[p].step = "parsed" /\ l \notin parser[p].sent

(* What a parser is past it has parsed.                                    *)
PastParsed(p) ==
  /\ parser[p].sent \subseteq parser[p].parsed
  /\ \A i \in 1 .. Len(setup.locks) :
       i < parser[p].block \/ (i = parser[p].block /\ parser[p].step # "idle")
         => setup.locks[i] \in parser[p].parsed

AllParsed(l) == Parsers # {} /\ \A p \in Parsers : l \in parser[p].parsed

Heard(s, l) == l \in received[s] \/ \E p \in Parsers : Tells(p, s, l)

(* Payments that are over were made, and only a fault loses a lock.        *)
EndsSaid(b) ==
  \A s \in Server, l \in Lock :
    /\ <<s, l, "paid">> \in b.ended => b.paid[l] > 0
    /\ <<s, l, "crashed">> \in b.ended => events.faults # 0

QuietInv ==
  /\ \A p \in Parsers : PastParsed(p)
  /\ events.faults = 0 => \A s \in Servers, l \in Lock : AllParsed(l) => Heard(s, l)
  /\ EndsSaid(Chain)

(* Faults are counted and never forgotten.                                 *)
LEMMA FaultsStay ==
  ASSUME TypeInv, [Next]_vars
  PROVE  /\ events'.faults = 0 => events.faults = 0
         /\ Fault => events'.faults # 0
<1>1. events \in [faults : Nat, changes : Nat, overlaps : BOOLEAN, agreed : SUBSET Server]
  BY DEF TypeInv, EventType
<1>2. ASSUME Fault PROVE events'.faults # 0
  <2>1. PICK n \in Nat : n = events.faults
    BY <1>1
  <2>2. events'.faults = n + 1
    BY <1>1, <1>2, <2>1 DEF Fault
  <2> QED
    BY <2>1, <2>2
<1>3. \/ Fault \/ events'.faults = events.faults
  <2>1. CASE \/ UNCHANGED vars \/ LockCoins \/ AppendGuarantee \/ Tick
             \/ \E order \in Orders : ProcessBlock(order)
    BY <2>1 DEF vars, LockCoins, AppendGuarantee, Tick, ProcessBlock
  <2>2. ASSUME NEW p \in Parsers, \/ ParseTransactions(p) \/ SaveSendedSpv(p) \/ SendSpv(p)
                                  \/ SaveBlockNumber(p) \/ ParserCrash(p)
        PROVE  Fault \/ events'.faults = events.faults
    BY <2>2 DEF ParseTransactions, SaveSendedSpv, SendSpv, SaveBlockNumber, ParserCrash,
       ParserStep
  <2>3. ASSUME NEW m \in newSpv, NewSpv(m) \/ Lose(m)
        PROVE  Fault \/ events'.faults = events.faults
    BY <2>3 DEF NewSpv, Lose
  <2>4. ASSUME NEW s \in Servers, NEW h \in handlers[s],
               \/ SaveWaitingCrossPay(s, h) \/ LeaveWaiting(s, h) \/ GetWaitingCrossPay(s, h)
               \/ DestroyRow(s, h) \/ ReadAccount(s, h) \/ SaveRawTransaction(s, h)
        PROVE  events'.faults = events.faults
    <3>1. events' = events \/ \E o : events' = [events EXCEPT !.overlaps = o]
      BY <2>4 DEF SaveWaitingCrossPay, LeaveWaiting, GetWaitingCrossPay, DestroyRow,
         ReadAccount, SaveRawTransaction
    <3> QED
      BY <1>1, <3>1
  <2>5. ASSUME NEW s \in Servers, \/ GetRawTransactions(s) \/ DeleteTransactions(s)
                                  \/ FlushFails(s) \/ LightServerCrash(s) \/ FullServerCrash(s)
        PROVE  Fault \/ events'.faults = events.faults
    BY <2>5 DEF GetRawTransactions, DeleteTransactions, FlushFails, LightServerCrash,
       FullServerCrash
  <2>6. ASSUME NEW s \in Servers,
               \/ \E t \in Servers : ModifyAuthorities(s, {t}, {}) \/ ModifyAuthorities(s, {}, {t})
               \/ Agree(s) \/ Reject(s)
        PROVE  events'.faults = events.faults
    <3>1. PICK agreed, c : Own(s, agreed, c)
      BY <2>6, VotesOwn
    <3>2. events' = [events EXCEPT !.changes = @ + 1, !.agreed = agreed]
      BY <3>1 DEF Own, OwnTransaction
    <3> QED
      BY <1>1, <3>2
  <2> QED
    BY <2>1, <2>2, <2>3, <2>4, <2>5, <2>6 DEF Next
<1> QED
  BY <1>2, <1>3

(* Nothing that concerns what servers are told of.                         *)
SameTold ==
  setup' = setup /\ parser' = parser /\ newSpv \subseteq newSpv' /\ received' = received

(* A parser that stays as it is still tells what it told.                  *)
LEMMA ToldStays ==
  ASSUME NEW p, NEW s, NEW l, setup' = setup, parser'[p] = parser[p], newSpv \subseteq newSpv',
         Tells(p, s, l)
  PROVE  Tells(p, s, l)'
  BY DEF Tells, Parsing

(* Steps that leave parsers and what is received alone.                   *)
LEMMA SameToldKeeps ==
  ASSUME QuietInv, TypeInv, SameTold, events'.faults = 0 => events.faults = 0
  PROVE  /\ \A p \in Parsers' : PastParsed(p)'
         /\ (events.faults = 0 => \A s \in Servers, l \in Lock : AllParsed(l) => Heard(s, l))'
<1>1. Parsers' = Parsers /\ Servers' = Servers
  BY DEF SameTold, Parsers, Servers
<1>2. \A p \in Parsers' : PastParsed(p)'
  BY <1>1 DEF QuietInv, SameTold, PastParsed
<1>3. ASSUME events'.faults = 0, NEW s \in Servers, NEW l \in Lock, AllParsed(l)'
      PROVE  Heard(s, l)'
  <2>1. AllParsed(l)
    BY <1>1, <1>3 DEF AllParsed, SameTold
  <2>2. Heard(s, l)
    BY <1>3, <2>1 DEF QuietInv
  <2>3. CASE l \in received[s]
    BY <2>3 DEF Heard, SameTold
  <2>4. ASSUME NEW p \in Parsers, Tells(p, s, l) PROVE Heard(s, l)'
    <3>1. Tells(p, s, l)'
      BY <2>4, ToldStays DEF SameTold
    <3> QED
      BY <1>1, <3>1 DEF Heard
  <2> QED
    BY <2>2, <2>3, <2>4 DEF Heard
<1> QED
  BY <1>1, <1>2, <1>3

(* A parser that takes a step tells of what it parses now, and of what it  *)
(* was to tell of.                                                         *)
LEMMA ParserTold ==
  ASSUME QuietInv, TypeInv, setup' = setup, received' = received, newSpv \subseteq newSpv',
         events'.faults = 0 => events.faults = 0, NEW p \in Parsers,
         \A q \in Parser \ {p} : parser'[q] = parser[q], PastParsed(p)',
         \A s \in Servers : \A l \in Lock :
           \/ events'.faults # 0
           \/ /\ l \in parser'[p].parsed => l \in parser[p].parsed \/ Tells(p, s, l)'
              /\ Tells(p, s, l) => Tells(p, s, l)'
  PROVE  /\ \A q \in Parsers' : PastParsed(q)'
         /\ (events.faults = 0 => \A s \in Servers, l \in Lock : AllParsed(l) => Heard(s, l))'
<1>1. Parsers' = Parsers /\ Servers' = Servers /\ Parsers \subseteq Parser
  BY SetupFacts DEF TypeInv, Parsers, Servers
<1>2. ASSUME NEW q \in Parsers PROVE PastParsed(q)'
  <2>1. CASE q = p
    BY <2>1
  <2>2. CASE q # p
    <3>1. parser'[q] = parser[q]
      BY <1>1, <2>2
    <3> QED
      BY <3>1 DEF QuietInv, PastParsed
  <2> QED
    BY <2>1, <2>2
<1>3. ASSUME events'.faults = 0, NEW s \in Servers, NEW l \in Lock, AllParsed(l)'
      PROVE  Heard(s, l)'
  <2>1. l \in parser[p].parsed \/ Tells(p, s, l)'
    BY <1>1, <1>3 DEF AllParsed
  <2>2. CASE Tells(p, s, l)'
    BY <1>1, <2>2 DEF Heard
  <2>3. CASE l \in parser[p].parsed
    <3>1. AllParsed(l)
      BY <1>1, <1>3, <2>3 DEF AllParsed
    <3>2. Heard(s, l)
      BY <1>3, <3>1 DEF QuietInv
    <3>3. CASE l \in received[s]
      BY <3>3 DEF Heard
    <3>4. ASSUME NEW q \in Parsers, Tells(q, s, l) PROVE Heard(s, l)'
      <4>1. CASE q = p
        BY <1>1, <1>3, <3>4, <4>1 DEF Heard
      <4>2. CASE q # p
        <5>1. parser'[q] = parser[q]
          BY <1>1, <4>2
        <5>2. Tells(q, s, l)'
          BY <3>4, <5>1, ToldStays
        <5> QED
          BY <1>1, <5>2 DEF Heard
      <4> QED
        BY <4>1, <4>2
    <3> QED
      BY <3>2, <3>3, <3>4 DEF Heard
  <2> QED
    BY <2>1, <2>2, <2>3
<1> QED
  BY <1>1, <1>2, <1>3

(* Every step of a parser is such a one.                                   *)
LEMMA ParserStepsTold ==
  ASSUME QuietInv, TypeInv, TypeInv', events'.faults = 0 => events.faults = 0,
         NEW p \in Parsers,
         \/ ParseTransactions(p) \/ SaveSendedSpv(p) \/ SendSpv(p) \/ SaveBlockNumber(p)
         \/ ParserCrash(p) /\ events'.faults # 0
  PROVE  /\ \A q \in Parsers' : PastParsed(q)'
         /\ (events.faults = 0 => \A s \in Servers, l \in Lock : AllParsed(l) => Heard(s, l))'
<1>1. PICK x \in ParserState : x = parser[p] /\ x.block > 0
  <2>1. p \in Parser
    BY SetupFacts DEF TypeInv
  <2> QED
    BY <2>1 DEF TypeInv, ParserType
<1>2. /\ x \in ParserState /\ x.block \in Nat /\ p \in Parser
      /\ parser \in [Parser -> ParserState] /\ Len(setup.locks) \in Nat
  <2>1. p \in Parser /\ Len(setup.locks) \in Nat
    BY SetupFacts DEF TypeInv
  <2> QED
    BY <2>1 DEF ParserState, TypeInv, ParserType
<1>3. /\ PastParsed(p)
      /\ \A l : Parsing(p) = l <=> setup.locks[x.block] = l
  BY <1>1 DEF QuietInv, Parsing
<1> DEFINE Done ==
      /\ setup' = setup /\ received' = received /\ newSpv \subseteq newSpv'
      /\ \A q \in Parser \ {p} : parser'[q] = parser[q]
<1>4. ASSUME Done, PastParsed(p)',
             \A s \in Servers : \A l \in Lock :
               \/ events'.faults # 0
               \/ /\ l \in parser'[p].parsed => l \in parser[p].parsed \/ Tells(p, s, l)'
                  /\ Tells(p, s, l) => Tells(p, s, l)'
      PROVE  /\ \A q \in Parsers' : PastParsed(q)'
             /\ (events.faults = 0 => \A s \in Servers, l \in Lock : AllParsed(l) => Heard(s, l))'
  BY <1>4, ParserTold
<1>5. ASSUME NEW to, NEW from, ParserStep(p, from, to), newSpv \subseteq newSpv'
      PROVE  Done /\ parser'[p] = to /\ x.step = from
  <2>1. /\ parser' = [parser EXCEPT ![p] = to] /\ UNCHANGED <<setup, received>>
        /\ parser[p].step = from
    BY <1>5 DEF ParserStep, lightVars
  <2> QED
    BY <1>1, <1>2, <1>5, <2>1
<1> HIDE DEF Done
<1>6. CASE ParseTransactions(p)
  <2> DEFINE to == [x EXCEPT !.step = "parsed", !.parsed = @ \cup {Parsing(p)}]
  <2>1. ParserStep(p, "idle", to) /\ newSpv' = newSpv
    BY <1>1, <1>6 DEF ParseTransactions
  <2>2. Done /\ parser'[p] = to /\ x.step = "idle"
    BY <1>5, <2>1
  <2>3. /\ to.step = "parsed" /\ to.block = x.block /\ to.sent = x.sent
        /\ to.parsed = x.parsed \cup {Parsing(p)}
    BY <1>2 DEF ParserState
  <2> HIDE DEF to
  <2>4. setup' = setup /\ Parsing(p)' = Parsing(p)
    BY <1>1, <2>2, <2>3 DEF Parsing, Done
  <2>5. PastParsed(p)'
    BY <1>1, <1>2, <1>3, <2>2, <2>3, <2>4 DEF PastParsed, Parsing
  <2>6. ASSUME NEW s \in Servers, NEW l \in Lock
        PROVE  /\ l \in parser'[p].parsed => l \in parser[p].parsed \/ Tells(p, s, l)'
               /\ Tells(p, s, l) => Tells(p, s, l)'
    <3>1. CASE l \in parser[p].parsed
      BY <1>1, <2>1, <2>2, <3>1 DEF Tells
    <3>2. CASE l \notin parser[p].parsed
      <4>1. l \notin to.sent
        BY <1>1, <1>3, <2>3, <3>2 DEF PastParsed
      <4> QED
        BY <1>1, <2>1, <2>2, <2>3, <2>4, <4>1 DEF Tells
    <3> QED
      BY <3>1, <3>2
  <2> QED
    BY <1>4, <2>2, <2>5, <2>6
<1>7. CASE SaveSendedSpv(p)
  <2> DEFINE to == [x EXCEPT !.step = IF Parsing(p) \in x.sent THEN "sent" ELSE "saved",
                             !.sent = @ \cup {Parsing(p)}]
  <2>1. ParserStep(p, "parsed", to) /\ newSpv' = newSpv
    BY <1>1, <1>7 DEF SaveSendedSpv
  <2>2. Done /\ parser'[p] = to /\ x.step = "parsed"
    BY <1>5, <2>1
  <2>3. /\ to.step = (IF Parsing(p) \in x.sent THEN "sent" ELSE "saved")
        /\ to.block = x.block /\ to.parsed = x.parsed /\ to.sent = x.sent \cup {Parsing(p)}
    BY <1>2 DEF ParserState
  <2> HIDE DEF to
  <2>4. setup' = setup /\ Parsing(p)' = Parsing(p)
    BY <1>1, <2>2, <2>3 DEF Parsing, Done
  <2>5. x.block <= Len(setup.locks)
    BY <1>1, <1>2, <2>2 DEF TypeInv, ParserType
  <2>6. Parsing(p) \in x.parsed
    BY <1>1, <1>2, <1>3, <2>2, <2>5 DEF PastParsed, Parsing
  <2>7. PastParsed(p)'
    BY <1>1, <1>2, <1>3, <2>2, <2>3, <2>4, <2>6 DEF PastParsed
  <2>8. ASSUME NEW s \in Servers, NEW l \in Lock
        PROVE  /\ l \in parser'[p].parsed => l \in parser[p].parsed \/ Tells(p, s, l)'
               /\ Tells(p, s, l) => Tells(p, s, l)'
    BY <1>1, <2>1, <2>2, <2>3, <2>4 DEF Tells
  <2> QED
    BY <1>4, <2>2, <2>7, <2>8
<1>8. CASE SendSpv(p)
  <2> DEFINE to == [x EXCEPT !.step = "sent"]
  <2>1. ParserStep(p, "saved", to) /\ newSpv' = newSpv \cup ({p} \X Servers \X {Parsing(p)})
    BY <1>1, <1>8 DEF SendSpv
  <2>2. Done /\ parser'[p] = to /\ x.step = "saved"
    BY <1>5, <2>1
  <2>3. to.step = "sent" /\ to.block = x.block /\ to.parsed = x.parsed /\ to.sent = x.sent
    BY <1>2 DEF ParserState
  <2> HIDE DEF to
  <2>4. setup' = setup
    BY <2>2 DEF Done
  <2>5. PastParsed(p)'
    BY <1>1, <1>2, <1>3, <2>2, <2>3, <2>4 DEF PastParsed
  <2>6. ASSUME NEW s \in Servers, NEW l \in Lock
        PROVE  /\ l \in parser'[p].parsed => l \in parser[p].parsed \/ Tells(p, s, l)'
               /\ Tells(p, s, l) => Tells(p, s, l)'
    <3>1. ASSUME Tells(p, s, l) PROVE <<p, s, l>> \in newSpv'
      <4>1. <<p, s, l>> \in newSpv \/ Parsing(p) = l
        BY <3>1 DEF Tells
      <4> QED
        BY <2>1, <4>1
    <3> QED
      BY <1>1, <2>2, <2>3, <3>1 DEF Tells
  <2> QED
    BY <1>4, <2>2, <2>5, <2>6
<1>9. CASE SaveBlockNumber(p)
  <2> DEFINE to == [x EXCEPT !.step = "idle", !.block = @ + 1]
  <2>1. ParserStep(p, "sent", to) /\ newSpv' = newSpv
    BY <1>1, <1>9 DEF SaveBlockNumber
  <2>2. Done /\ parser'[p] = to /\ x.step = "sent"
    BY <1>5, <2>1
  <2>3. PICK n \in Nat : n = x.block + 1
    BY <1>2
  <2>4. to = [x EXCEPT !.step = "idle", !.block = n]
    BY <2>3
  <2>5. to.step = "idle" /\ to.block = n /\ to.parsed = x.parsed /\ to.sent = x.sent
    BY <1>2, <2>4 DEF ParserState
  <2> HIDE DEF to
  <2>6. setup' = setup
    BY <2>2 DEF Done
  <2>7. PastParsed(p)'
    <3>1. \A i \in 1 .. Len(setup.locks) :
            i < n => i < x.block \/ (i = x.block /\ x.step # "idle")
      BY <1>2, <2>2, <2>3
    <3> QED
      BY <1>1, <1>3, <2>2, <2>5, <2>6, <3>1 DEF PastParsed
  <2>8. ASSUME NEW s \in Servers, NEW l \in Lock
        PROVE  /\ l \in parser'[p].parsed => l \in parser[p].parsed \/ Tells(p, s, l)'
               /\ Tells(p, s, l) => Tells(p, s, l)'
    BY <1>1, <2>1, <2>2, <2>5 DEF Tells
  <2> QED
    BY <1>4, <2>2, <2>7, <2>8
<1>10. CASE ParserCrash(p) /\ events'.faults # 0
  <2> DEFINE to == [x EXCEPT !.step = "idle"]
  <2>1. /\ parser' = [parser EXCEPT ![p] = to] /\ UNCHANGED <<setup, received, newSpv>>
    BY <1>1, <1>10 DEF ParserCrash, lightVars
  <2>2. Done /\ parser'[p] = to
    BY <1>2, <2>1 DEF Done
  <2>3. to.step = "idle" /\ to.block = x.block /\ to.parsed = x.parsed /\ to.sent = x.sent
    BY <1>2 DEF ParserState
  <2> HIDE DEF to
  <2>4. PastParsed(p)'
    BY <1>1, <1>3, <2>1, <2>2, <2>3 DEF PastParsed
  <2> QED
    BY <1>4, <1>10, <2>2, <2>4
<1> QED
  BY <1>6, <1>7, <1>8, <1>9, <1>10

(* What all nodes have parsed is believed.                                 *)
LEMMA AllBelieved ==
  ASSUME TypeInv, NEW l, AllParsed(l)
  PROVE  EnoughValid(l)
<1>1. {p \in Parsers : SpvValid(p, l)} = Parsers
  BY DEF AllParsed, SpvValid
<1>2. IsFiniteSet(Parsers)
  BY SetupFacts, CrossAssumption, FS_Subset DEF TypeInv
<1>3. PICK n \in Nat : n = Cardinality(Parsers)
  BY <1>2, FS_CardinalityType
<1>4. n * 10 >= 8 * n
  OBVIOUS
<1> QED
  BY <1>1, <1>3, <1>4 DEF EnoughValid

(* A server hears what it is told, unless it knows.                        *)
LEMMA NewSpvTold ==
  ASSUME QuietInv, TypeInv, NEW m \in newSpv, NewSpv(m)
  PROVE  /\ \A q \in Parsers' : PastParsed(q)'
         /\ (events.faults = 0 => \A s \in Servers, l \in Lock : AllParsed(l) => Heard(s, l))'
<1>1. m \in Parser \X Server \X Lock
  BY DEF TypeInv, SpvType
<1>2. PICK p \in Parser, r \in Server, k \in Lock : m = <<p, r, k>>
  BY <1>1
<1>3. /\ setup' = setup /\ parser' = parser /\ events' = events /\ newSpv' = newSpv \ {m}
      /\ IF EnoughValid(k) /\ ReceivedSpvCreated(r, k)
           THEN received' = [received EXCEPT ![r] = @ \cup {k}]
           ELSE received' = received
  BY <1>2 DEF NewSpv, parserVars
<1>4. Parsers' = Parsers /\ Servers' = Servers /\ Servers \subseteq Server
  BY <1>3, SetupFacts DEF TypeInv, Parsers, Servers
<1>5. \A q \in Parsers' : PastParsed(q)'
  BY <1>3, <1>4 DEF QuietInv, PastParsed
<1>6. received \in [Server -> SUBSET Lock]
  BY DEF TypeInv, LightType
<1>7. \A s \in Server : received[s] \subseteq received'[s]
  BY <1>3, <1>6
<1>8. ASSUME events'.faults = 0, NEW s \in Servers, NEW l \in Lock, AllParsed(l)'
      PROVE  Heard(s, l)'
  <2>1. AllParsed(l)
    BY <1>3, <1>4, <1>8 DEF AllParsed
  <2>2. Heard(s, l) /\ s \in Server
    BY <1>3, <1>4, <1>8, <2>1 DEF QuietInv
  <2>3. CASE l \in received[s]
    BY <1>7, <2>2, <2>3 DEF Heard
  <2>4. ASSUME NEW q \in Parsers, Tells(q, s, l) PROVE Heard(s, l)'
    <3>1. CASE <<q, s, l>> = m
      <4>1. s = r /\ l = k
        BY <1>2, <3>1
      <4>2. EnoughValid(k)
        BY <2>1, <4>1, AllBelieved
      <4>3. l \in received'[s]
        BY <1>3, <1>6, <2>2, <4>1, <4>2 DEF ReceivedSpvCreated
      <4> QED
        BY <4>3 DEF Heard
    <3>2. CASE <<q, s, l>> # m
      <4>1. Tells(q, s, l)'
        BY <1>3, <2>4, <3>2 DEF Tells, Parsing
      <4> QED
        BY <1>4, <4>1 DEF Heard
    <3> QED
      BY <3>1, <3>2
  <2> QED
    BY <2>2, <2>3, <2>4 DEF Heard
<1> QED
  BY <1>4, <1>5, <1>8

(* Every step keeps what parsers tell.                                     *)
LEMMA NextTold ==
  ASSUME QuietInv, TypeInv, TypeInv', [Next]_vars
  PROVE  /\ \A q \in Parsers' : PastParsed(q)'
         /\ (events.faults = 0 => \A s \in Servers, l \in Lock : AllParsed(l) => Heard(s, l))'
<1> DEFINE Goal ==
      /\ \A q \in Parsers' : PastParsed(q)'
      /\ (events.faults = 0 => \A s \in Servers, l \in Lock : AllParsed(l) => Heard(s, l))'
<1>1. events'.faults = 0 => events.faults = 0
  BY FaultsStay
<1>2. ASSUME SameTold PROVE Goal
  BY <1>1, <1>2, SameToldKeeps
<1>3. ASSUME NEW p \in Parsers, \/ ParseTransactions(p) \/ SaveSendedSpv(p) \/ SendSpv(p)
                                \/ SaveBlockNumber(p) \/ ParserCrash(p)
      PROVE  Goal
  <2>1. ParserCrash(p) => events'.faults # 0
    BY FaultsStay DEF ParserCrash
  <2> QED
    BY <1>1, <1>3, <2>1, ParserStepsTold
<1>4. ASSUME NEW m \in newSpv, NewSpv(m) PROVE Goal
  BY <1>4, NewSpvTold
<1>5. ASSUME NEW m \in newSpv, Lose(m) PROVE Goal
  <2>1. events'.faults # 0 /\ setup' = setup /\ parser' = parser
    BY <1>5, FaultsStay DEF Lose, parserVars
  <2>2. Parsers' = Parsers
    BY <2>1 DEF Parsers
  <2>3. \A q \in Parsers' : PastParsed(q)'
    BY <2>1, <2>2 DEF QuietInv, PastParsed
  <2> QED
    BY <2>1, <2>3
<1>6. CASE LockCoins \/ AppendGuarantee \/ Tick \/ UNCHANGED vars
  <2>1. SameTold
    BY <1>6 DEF SameTold, LockCoins, AppendGuarantee, Tick, vars, parserVars, lightVars
  <2> QED
    BY <1>2, <2>1
<1>7. ASSUME NEW s \in Servers, NEW h \in handlers[s],
             \/ SaveWaitingCrossPay(s, h) \/ LeaveWaiting(s, h) \/ GetWaitingCrossPay(s, h)
             \/ DestroyRow(s, h) \/ ReadAccount(s, h) \/ SaveRawTransaction(s, h)
      PROVE  Goal
  <2>1. \E from, to : HandlerStep(s, h, from, to)
    BY <1>7 DEF SaveWaitingCrossPay, LeaveWaiting, GetWaitingCrossPay, DestroyRow, ReadAccount,
       SaveRawTransaction
  <2>2. SameTold
    BY <2>1 DEF HandlerStep, SameTold, parserVars
  <2> QED
    BY <1>2, <2>2
<1>8. ASSUME NEW s \in Servers, \/ GetRawTransactions(s) \/ DeleteTransactions(s)
                                \/ FlushFails(s) \/ LightServerCrash(s) \/ FullServerCrash(s)
      PROVE  Goal
  <2>1. SameTold
    BY <1>8 DEF GetRawTransactions, DeleteTransactions, FlushFails, LightServerCrash,
       FullServerCrash, SameTold, parserVars, lightVars
  <2> QED
    BY <1>2, <2>1
<1>9. ASSUME NEW order \in Orders, ProcessBlock(order) PROVE Goal
  <2>1. SameTold
    BY <1>9 DEF ProcessBlock, SameTold, parserVars, lightVars
  <2> QED
    BY <1>2, <2>1
<1>10. ASSUME NEW s \in Servers,
              \/ \E t \in Servers : ModifyAuthorities(s, {t}, {}) \/ ModifyAuthorities(s, {}, {t})
              \/ Agree(s) \/ Reject(s)
       PROVE  Goal
  <2>1. PICK agreed, c : Own(s, agreed, c)
    BY <1>10, VotesOwn
  <2>2. SameTold
    BY <2>1 DEF Own, OwnTransaction, SameTold, parserVars, lightVars
  <2> QED
    BY <1>2, <2>2
<1> QED
  BY <1>3, <1>4, <1>5, <1>6, <1>7, <1>8, <1>9, <1>10 DEF Next

(***************************************************************************)
(* What is over.                                                           *)
(***************************************************************************)
SaidChains == {b \in BlockState : EndsSaid(b)}

(* A transaction pays the locks it says are paid, and crashes none.        *)
LEMMA TxSaid ==
  ASSUME TypeInv, NEW a \in SaidChains, NEW tx \in RawTx
  PROVE  RunTx(a, tx) \in SaidChains
<1>1. PICK b : b = RunTx(a, tx)
  OBVIOUS
<1>2. a \in BlockState /\ now \in Nat
  BY DEF SaidChains, TypeInv
<1>3. b \in BlockState
  BY <1>1, <1>2, RunTxCases
<1>4. ASSUME NEW s \in Server, NEW l \in Lock, <<s, l, "crashed">> \in b.ended
      PROVE  <<s, l, "crashed">> \in a.ended
  <2>1. CASE Runs(a, tx)
    <3> DEFINE c == CrossPaid(a.contract, a.balance + 1, tx.from, tx.locks, now)
               payers(k) == (UNION {r.sponsors : r \in {q \in ToSet(a.contract.requests) :
                                                          q.lock = k}})
                              \cup (IF k \in ToSet(tx.locks) THEN {tx.from} ELSE {})
    <3>1. b.ended = a.ended
                      \cup (UNION {{<<z, k, "paid">> : z \in payers(k)} : k \in ToSet(c.paid)})
                      \cup EndedRequests(c.expired, "expired")
                      \cup EndedRequests(c.forgotten, "forgotten")
      BY <1>1, <2>1 DEF RunTx
    <3> HIDE DEF c, payers
    <3> QED
      BY <1>4, <3>1 DEF EndedRequests
  <2>2. CASE Refuses(a, tx, b)
    BY <1>4, <2>2 DEF Refuses, Ended
  <2>3. CASE Idles(a, tx, b)
    BY <1>4, <2>3 DEF Idles
  <2> QED
    BY <1>1, <1>2, <2>1, <2>2, <2>3, RunTxCases
<1>5. ASSUME NEW s \in Server, NEW l \in Lock, <<s, l, "paid">> \in b.ended
      PROVE  b.paid[l] > 0
  <2>1. a.paid[l] \in Nat /\ b.paid[l] \in Nat
    BY <1>2, <1>3 DEF BlockState
  <2>2. <<s, l, "paid">> \in a.ended => a.paid[l] > 0
    BY DEF SaidChains, EndsSaid
  <2>3. ASSUME NEW R, NEW N, NEW P, RanAs(a, tx, b, R, N, P) PROVE b.paid[l] > 0
    <3>1. <<s, l, "paid">> \in N => l \in P
      BY <2>3 DEF RanAs, Moved
    <3>2. <<s, l, "paid">> \in a.ended \/ l \in P
      BY <1>5, <2>3, <3>1 DEF RanAs
    <3>3. b.paid[l] = a.paid[l] + IF l \in P THEN 1 ELSE 0
      BY <2>3 DEF RanAs
    <3> QED
      BY <2>1, <2>2, <3>2, <3>3
  <2>4. CASE Refuses(a, tx, b)
    BY <1>5, <2>2, <2>4 DEF Refuses, Ended
  <2>5. CASE Idles(a, tx, b)
    BY <1>5, <2>2, <2>5 DEF Idles
  <2> QED
    BY <1>1, <1>2, <2>3, <2>4, <2>5, RunTxCases
<1>6. EndsSaid(b)
  BY <1>4, <1>5 DEF SaidChains, EndsSaid
<1> QED
  BY <1>1, <1>3, <1>6 DEF SaidChains

(* Every step does so.                                                     *)
LEMMA NextSaid ==
  ASSUME QuietInv, TypeInv, TypeInv', [Next]_vars
  PROVE  EndsSaid(Chain)'
<1>1. events'.faults = 0 => events.faults = 0
  BY FaultsStay
<1>2. Chain.paid = paid /\ Chain.ended = ended /\ Chain'.paid = paid' /\ Chain'.ended = ended'
  BY DEF Chain
<1>3. EndsSaid(Chain)
  BY DEF QuietInv
<1>4. ASSUME paid' = paid, ended' = ended PROVE EndsSaid(Chain)'
  BY <1>1, <1>2, <1>3, <1>4 DEF EndsSaid
<1>5. ASSUME NEW order \in Orders, ProcessBlock(order) PROVE EndsSaid(Chain)'
  <2>1. PICK txs \in Seq(RawTx) : Chain' = RunAll(Chain, txs)
    BY <1>5, BlockChain
  <2>2. Chain \in SaidChains /\ now \in Nat /\ ToSet(txs) \subseteq RawTx
    BY <1>3, ElementType DEF SaidChains, TypeInv, ChainType
  <2>3. SaidChains \in SUBSET BlockState /\ \A a \in SaidChains : \A tx \in RawTx :
                                              RunTx(a, tx) \in SaidChains
    BY TxSaid DEF SaidChains
  <2>4. Chain' \in SaidChains
    BY <2>1, <2>2, <2>3, BlockKeeps
  <2>5. events' = events
    BY <1>5 DEF ProcessBlock
  <2> QED
    BY <2>4, <2>5 DEF SaidChains, EndsSaid
<1>6. ASSUME NEW s \in Servers, FlushFails(s) \/ LightServerCrash(s) PROVE EndsSaid(Chain)'
  <2>1. PICK K : ended' = ended \cup Ended(s, K, "crashed")
    BY <1>6 DEF FlushFails, LightServerCrash
  <2>2. events'.faults # 0 /\ paid' = paid
    BY <1>6, FaultsStay DEF FlushFails, LightServerCrash, chainVars
  <2>3. \A r, l : <<r, l, "paid">> \in ended' <=> <<r, l, "paid">> \in ended
    BY <2>1 DEF Ended
  <2> QED
    BY <1>2, <1>3, <2>2, <2>3 DEF EndsSaid
<1>7. CASE LockCoins \/ AppendGuarantee \/ Tick \/ UNCHANGED vars
  BY <1>4, <1>7 DEF LockCoins, AppendGuarantee, Tick, vars, chainVars
<1>8. ASSUME NEW p \in Parsers, \/ ParseTransactions(p) \/ SaveSendedSpv(p) \/ SendSpv(p)
                                \/ SaveBlockNumber(p) \/ ParserCrash(p)
      PROVE  EndsSaid(Chain)'
  BY <1>4, <1>8 DEF ParseTransactions, SaveSendedSpv, SendSpv, SaveBlockNumber, ParserCrash,
     ParserStep, chainVars
<1>9. ASSUME NEW m \in newSpv, NewSpv(m) \/ Lose(m) PROVE EndsSaid(Chain)'
  BY <1>4, <1>9 DEF NewSpv, Lose, chainVars
<1>10. ASSUME NEW s \in Servers, NEW h \in handlers[s],
              \/ SaveWaitingCrossPay(s, h) \/ LeaveWaiting(s, h) \/ GetWaitingCrossPay(s, h)
              \/ DestroyRow(s, h) \/ ReadAccount(s, h) \/ SaveRawTransaction(s, h)
       PROVE  EndsSaid(Chain)'
  <2>1. \E from, to : HandlerStep(s, h, from, to)
    BY <1>10 DEF SaveWaitingCrossPay, LeaveWaiting, GetWaitingCrossPay, DestroyRow,
       ReadAccount, SaveRawTransaction
  <2> QED
    BY <1>4, <2>1 DEF HandlerStep, chainVars
<1>11. ASSUME NEW s \in Servers,
              GetRawTransactions(s) \/ DeleteTransactions(s) \/ FullServerCrash(s)
       PROVE  EndsSaid(Chain)'
  BY <1>4, <1>11 DEF GetRawTransactions, DeleteTransactions, FullServerCrash, chainVars
<1>12. ASSUME NEW s \in Servers,
              \/ \E t \in Servers : ModifyAuthorities(s, {t}, {}) \/ ModifyAuthorities(s, {}, {t})
              \/ Agree(s) \/ Reject(s)
       PROVE  EndsSaid(Chain)'
  <2>1. PICK agreed, c : Own(s, agreed, c)
    BY <1>12, VotesOwn
  <2> QED
    BY <1>4, <2>1 DEF Own, OwnTransaction
<1> QED
  BY <1>5, <1>6, <1>7, <1>8, <1>9, <1>10, <1>11, <1>12 DEF Next

(* At first nothing is parsed and nothing is over.                         *)
LEMMA InitQuiet == Init => QuietInv
<1> SUFFICES ASSUME Init PROVE QuietInv
  OBVIOUS
<1>1. TypeInv
  BY InitType
<1>2. Parsers \subseteq Parser /\ Len(setup.locks) \in Nat
  BY <1>1, SetupFacts DEF TypeInv
<1>3. \A p \in Parsers : /\ parser[p].block = 1 /\ parser[p].step = "idle"
                         /\ parser[p].parsed = {} /\ parser[p].sent = {}
  BY <1>2 DEF Init
<1>4. \A p \in Parsers : PastParsed(p)
  BY <1>2, <1>3 DEF PastParsed
<1>5. \A l : ~AllParsed(l)
  BY <1>3 DEF AllParsed
<1>6. EndsSaid(Chain)
  BY DEF Init, Chain, EndsSaid
<1> QED
  BY <1>4, <1>5, <1>6 DEF QuietInv

(* Every step keeps both invariants.                                       *)
LEMMA NextQuiet == WayInv /\ QuietInv /\ [Next]_vars => WayInv' /\ QuietInv'
<1> SUFFICES ASSUME WayInv, QuietInv, [Next]_vars PROVE WayInv' /\ QuietInv'
  OBVIOUS
<1>1. TypeInv /\ WayInv' /\ TypeInv'
  BY NextWay DEF WayInv, SafeInv
<1> QED
  BY <1>1, NextTold, NextSaid DEF QuietInv

(* There are parsers, and enough of the authorities run a server.          *)
Manned ==
  /\ Parsers # {} /\ contract.authority # {}
  /\ Reaches(contract, Cardinality(contract.authority \cap Servers))

(* In the end every server has received every lock.                        *)
LEMMA QuietReceived ==
  ASSUME TypeInv, QuietInv, Quiet, Parsers # {}, events.faults = 0,
         NEW s \in Servers, NEW l \in ToSet(setup.locks)
  PROVE  l \in received[s]
<1>1. setup.locks \in Seq(Lock) /\ Len(setup.locks) \in Nat /\ Parsers \subseteq Parser
  BY SetupFacts DEF TypeInv
<1>2. PICK i \in 1 .. Len(setup.locks) : setup.locks[i] = l
  BY <1>1 DEF ToSet
<1>3. l \in Lock
  BY <1>1, <1>2
<1>4. ASSUME NEW p \in Parsers PROVE l \in parser[p].parsed /\ ~Tells(p, s, l)
  <2>1. parser[p] \in ParserState /\ (parser[p].step # "idle" => parser[p].block <= height)
    BY <1>1 DEF TypeInv, ParserType
  <2>2. parser[p].block \in Nat /\ parser[p].block > height /\ height = Len(setup.locks)
    BY <2>1 DEF Quiet, ParserState
  <2>3. parser[p].step = "idle" /\ i < parser[p].block
    BY <1>1, <1>2, <2>1, <2>2
  <2>4. l \in parser[p].parsed
    BY <1>2, <2>3 DEF QuietInv, PastParsed
  <2> QED
    BY <2>3, <2>4 DEF Tells, Quiet
<1>5. AllParsed(l)
  BY <1>4 DEF AllParsed
<1> QED
  BY <1>3, <1>4, <1>5 DEF QuietInv, Heard

(* A lock that is nowhere else is sponsored by all authorities with a      *)
(* server, and its request would be due.                                   *)
LEMMA QuietPaid ==
  ASSUME WayInv, QuietInv, Manned
  PROVE  QuietMeansPaid
<1> SUFFICES ASSUME Quiet, events.faults = 0, events.changes = 0, NEW l \in ToSet(setup.locks),
                    ~(paid[l] > 0), \A s \in Servers : l \notin ToSet(waiting[s]),
                    ~\E e \in ended : e[2] = l /\ e[3] \in {"refused", "expired", "forgotten"}
             PROVE  FALSE
  BY DEF QuietMeansPaid
<1>1. TypeInv /\ SafeInv
  BY DEF WayInv, SafeInv
<1>2. Servers \subseteq Server /\ l \in Lock
  BY <1>1, SetupFacts, ElementType DEF TypeInv
<1>3. PICK q : q = contract.requests
  OBVIOUS
<1>4. /\ contract \in Contract /\ q \in Seq(PayRequest) /\ Distinct(q)
      /\ ended \subseteq Server \X Lock \X Causes
  BY <1>1, <1>3 DEF TypeInv, ChainType, Chain, BlockState, Contract
<1>5. ASSUME NEW s \in Servers PROVE Sponsors(q, s, l)
  <2>1. l \in received[s] /\ s \in Server
    BY <1>1, <1>2, QuietReceived DEF Manned
  <2>2. Placed(waiting[s], handlers[s], pool[s], Chain, s, l)
    BY <2>1 DEF WayInv, OnItsWay, Tracked
  <2>3. ~Noted(waiting[s], l)
    BY DEF Noted, ToSet
  <2>4. ~InHand(handlers[s], s, l) /\ ~Queued(pool[s], Chain.ran, l)
    <3>1. handlers[s] = {} /\ pool[s] = << >>
      BY DEF Quiet
    <3> QED
      BY <3>1 DEF InHand, Queued
  <2>5. ~Over(Chain.ended, s, l)
    <3> SUFFICES ASSUME NEW c \in Causes, <<s, l, c>> \in ended PROVE FALSE
      BY DEF Over, Chain
    <3>1. c \notin {"refused", "expired", "forgotten"}
      OBVIOUS
    <3>2. c # "paid" /\ c # "crashed"
      BY <1>2, <2>1 DEF QuietInv, EndsSaid, Chain
    <3> QED
      BY <3>1, <3>2 DEF Causes
  <2> QED
    BY <1>3, <2>2, <2>3, <2>4, <2>5 DEF Placed, Chain
<1>6. PICK A : A = contract.authority \cap Servers
  OBVIOUS
<1>7. IsFiniteSet(Server) /\ contract.authority \subseteq Server /\ contract.threshold \in 1 .. 100
  BY <1>4, CrossAssumption DEF Contract
<1>8. PICK a \in Nat, n \in Nat : a = Cardinality(A) /\ n = Cardinality(contract.authority)
  BY <1>6, <1>7, FS_Subset, FS_CardinalityType
<1>9. Reaches(contract, a)
  BY <1>6, <1>8 DEF Manned
<1>10. PICK s : s \in A
  <2>1. IsFiniteSet(A) /\ IsFiniteSet(contract.authority)
    BY <1>6, <1>7, FS_Subset
  <2>2. n # 0
    BY <1>8, <2>1, FS_EmptySet DEF Manned
  <2>3. a * 100 >= contract.threshold * n
    BY <1>8, <1>9 DEF Reaches
  <2>4. PICK t \in 1 .. 100 : t = contract.threshold
    BY <1>7
  <2>5. t * n > 0
    BY <2>2, <2>4
  <2>6. a # 0
    BY <2>3, <2>4, <2>5
  <2> QED
    BY <1>8, <2>1, <2>6, FS_EmptySet
<1>11. PICK i \in DOMAIN q : q[i].lock = l /\ s \in q[i].sponsors
  BY <1>5, <1>6, <1>10 DEF Sponsors
<1>12. A \subseteq q[i].sponsors
  BY <1>4, <1>5, <1>6, <1>11 DEF Sponsors, Distinct
<1>13. q[i] \in PayRequest
  BY <1>4
<1>14. Cardinality(q[i].sponsors) \in Nat /\ a <= Cardinality(q[i].sponsors)
  <2>1. q[i].sponsors \subseteq Server
    BY <1>13 DEF PayRequest
  <2> QED
    BY <1>7, <1>8, <1>12, <2>1, FS_Subset, FS_CardinalityType
<1>15. Due(contract, q[i])
  <2>1. PICK k \in Nat : k = Cardinality(q[i].sponsors) /\ a <= k
    BY <1>14
  <2>2. PICK m \in Nat : m = contract.threshold * n
    BY <1>7
  <2>3. a * 100 >= m
    BY <1>8, <1>9, <2>2 DEF Reaches
  <2>4. k * 100 >= m
    BY <2>1, <2>3
  <2> QED
    BY <1>8, <2>1, <2>2, <2>4 DEF Due, Reaches
<1>16. ~Due(contract, q[i])
  BY <1>1, <1>3, <1>11 DEF SafeInv, ChainKnown, Quorate, Chain
<1> QED
  BY <1>15, <1>16

(* When nothing is left to do and nothing has failed, every lock is paid   *)
(* unless a row waits for the next lock, a nonce was used twice, the       *)
(* request expired or the guarantee did not suffice: wherever there are    *)
(* parsers and enough of the authorities run a server.                     *)
THEOREM QuietAlwaysPaid == Spec => [](Manned => QuietMeansPaid)
<1>1. Init => WayInv /\ QuietInv
  BY InitWay, InitQuiet
<1>2. WayInv /\ QuietInv => (Manned => QuietMeansPaid)
  BY QuietPaid
<1> QED
  BY <1>1, <1>2, NextQuiet, PTL DEF Spec
==================================================================================
