----------------------------- MODULE MCCrossChain -----------------------------
(* One lock that two nodes tell three servers of, with a fault; the same   *)
(* with one node and requests that expire; two locks that one server pays  *)
(* from a guarantee; votes that add and remove an authority while a lock   *)
(* is paid.                                                                *)
EXTENDS CrossChain, TLC

CONSTANTS s1, s2, s3, s4, s5, p1, p2, first, second

MCServer == {s1, s2, s3, s4, s5}
MCLock == {first, second}
MCParser == {p1, p2}
MCAmount == [l \in MCLock |-> IF l = first THEN 2 ELSE 1]

ThreeServers ==
  [servers |-> {s1, s2, s3}, authority |-> {s1, s2, s3}, threshold |-> 60, expireInterval |-> 1,
   mints |-> TRUE, guarantee |-> 0, appends |-> 0, parsers |-> MCParser, locks |-> <<first>>,
   faults |-> 1, changes |-> 0, times |-> {}]

LateServers == [ThreeServers EXCEPT !.parsers = {p1}, !.times = {3}]

TwoLocks ==
  [servers |-> {s4}, authority |-> {s4}, threshold |-> 100, expireInterval |-> 1,
   mints |-> FALSE, guarantee |-> 0, appends |-> 2, parsers |-> {p1}, locks |-> <<first, second>>,
   faults |-> 1, changes |-> 0, times |-> {2}]

Votes ==
  [servers |-> {s4, s5}, authority |-> {s4}, threshold |-> 60, expireInterval |-> 1,
   mints |-> TRUE, guarantee |-> 0, appends |-> 0, parsers |-> {p1}, locks |-> <<first>>,
   faults |-> 0, changes |-> 3, times |-> {3}]

MCSetups == {ThreeServers, LateServers, TwoLocks, Votes}

MCSymmetry == Permutations({s1, s2, s3})
===============================================================================
