------------------------------- MODULE SideChain -------------------------------
(***************************************************************************)
(* The side-chain contract (sideChainConstract.js): coins locked on one    *)
(* chain are paid on another when enough authorities, each with a server   *)
(* of its own, sponsor the payment; the authorities vote on who is one.    *)
(*                                                                         *)
(* A contract is a record.  A lock stands for the hash of its transaction, *)
(* which determines payee and amount.  The arrays of addresses are sets:   *)
(* the code never adds an address twice.  The order of the pending         *)
(* requests matters and is kept.                                           *)
(***************************************************************************)
EXTENDS Integers, Sequences, FiniteSets, SequencesExt

CONSTANTS Server,       \* addresses of the servers of the paying chain
          Lock,         \* transactions that lock coins on the other chain
          Amount,       \* the value of each lock
          PayInterval   \* SIDE_CHAIN_PAY_MAX_INTERVAL

ASSUME AmountAssumption == Amount \in [Lock -> Nat] /\ PayInterval \in Nat

PayRequest == [lock : Lock, timestamp : Nat, sponsors : SUBSET Server]

(* "mints": the contract's code is mainChainCode, coins come from nowhere. *)
Contract == [mints : BOOLEAN, threshold : 1 .. 100, expireInterval : Nat, timestamp : Nat,
             authority : SUBSET Server, new : SUBSET Server, del : SUBSET Server,
             agree : SUBSET Server, reject : SUBSET Server, requests : Seq(PayRequest)]

Created(args) ==
  [mints |-> args.mints, threshold |-> args.threshold, authority |-> args.authority,
   expireInterval |-> args.expireInterval, timestamp |-> 0, new |-> {}, del |-> {},
   agree |-> {}, reject |-> {}, requests |-> << >>]

(* The share of n authorities reaches the threshold; divisions are exact.  *)
Reaches(c, n) == n * 100 >= c.threshold * Cardinality(c.authority)

Reset(c) == [c EXCEPT !.new = {}, !.del = {}, !.timestamp = 0, !.agree = {}, !.reject = {}]

(***************************************************************************)
(* Votes on the authorities.  A request to delete leaves the list of an    *)
(* earlier request to add in place, and that list is carried out first.    *)
(***************************************************************************)
MayModify(c, from, now) == from \in c.authority /\ c.timestamp + c.expireInterval <= now

(* Requests name an address; one with the encoding of an empty list, which *)
(* would be a request to the code, too, is none here.                      *)
MayAnswer(c, from, timestamp, now) ==
  /\ from \in c.authority
  /\ c.new \cup c.del # {}
  /\ now <= c.timestamp + c.expireInterval
  /\ timestamp = c.timestamp
  /\ from \notin c.agree \cup c.reject

Modified(c) ==
  [c EXCEPT !.authority = IF c.new # {} THEN @ \cup c.new ELSE @ \ c.del]

Agreed(c, from) ==
  LET agree == c.agree \cup {from}
  IN  IF Reaches(c, Cardinality(agree)) THEN Reset(Modified(c)) ELSE [c EXCEPT !.agree = agree]

Rejected(c, from) ==
  LET reject == c.reject \cup {from}
  IN  IF Cardinality(reject) * 100 > (100 - c.threshold) * Cardinality(c.authority)
      THEN Reset(c)
      ELSE [c EXCEPT !.reject = reject]

AskedKeepsAgreements(c, from, new, del, now) ==  \* mutant: the agreeing addresses are kept
  Agreed([c EXCEPT !.new = IF new # {} THEN new ELSE @, !.del = IF del # {} THEN del ELSE @,
                   !.timestamp = now, !.reject = {}], from)

Asked(c, from, new, del, now) ==
  Agreed([c EXCEPT !.new = IF new # {} THEN new ELSE @, !.del = IF del # {} THEN del ELSE @,
                   !.timestamp = now, !.agree = {}, !.reject = {}], from)

(***************************************************************************)
(* Payments.  A transaction of an authority names locks; it sponsors each  *)
(* of them, and then every pending request is paid, dropped or kept.       *)
(***************************************************************************)
SponsoredAgain(requests, lock, from, now) ==  \* mutant: a request per sponsor
  Append(requests, [lock |-> lock, timestamp |-> now, sponsors |-> {from}])

Sponsored(requests, lock, from, now) ==
  IF \E i \in DOMAIN requests : requests[i].lock = lock
  THEN [i \in DOMAIN requests |->
          IF requests[i].lock = lock THEN [requests[i] EXCEPT !.sponsors = @ \cup {from}]
                                     ELSE requests[i]]
  ELSE Append(requests, [lock |-> lock, timestamp |-> now, sponsors |-> {from}])

Due(c, r) == Reaches(c, Cardinality(r.sponsors))

Expired(r, now) == r.timestamp + PayInterval < now

AffordableOnCredit(c, balance, r) == TRUE  \* mutant: balance not checked

Affordable(c, balance, r) == c.mints \/ Amount[r.lock] <= balance

SponsoredAll(requests, locks, from, now) ==
  LET sponsored[i \in 0 .. Len(locks)] ==
        IF i = 0 THEN requests ELSE Sponsored(sponsored[i - 1], locks[i], from, now)
  IN  sponsored[Len(locks)]

Unsettled == [kept |-> << >>, paid |-> << >>, expired |-> << >>, forgotten |-> << >>,
              spent |-> 0, starved |-> FALSE]

(* The first due request the balance does not cover ends the loop; what    *)
(* comes after it is forgotten together with it.                           *)
Settle(c, balance, s, r, now) ==
  IF s.starved THEN [s EXCEPT !.forgotten = Append(@, r)]
  ELSE IF Due(c, r) /\ ~Affordable(c, balance - s.spent, r)
       THEN [s EXCEPT !.starved = TRUE, !.forgotten = Append(@, r)]
  ELSE IF Due(c, r)
       THEN [s EXCEPT !.paid = Append(@, r.lock),
                      !.spent = IF c.mints THEN @ ELSE @ + Amount[r.lock]]
  ELSE IF Expired(r, now) THEN [s EXCEPT !.expired = Append(@, r)]
  ELSE [s EXCEPT !.kept = Append(@, r)]

Settled(c, balance, requests, now) ==
  LET settled[i \in 0 .. Len(requests)] ==
        IF i = 0 THEN Unsettled ELSE Settle(c, balance, settled[i - 1], requests[i], now)
  IN  settled[Len(requests)]

CrossPaidBefore(c, balance, from, locks, now) ==  \* mutant: settled before sponsored
  LET s == Settled(c, balance, c.requests, now)
  IN  [contract |-> [c EXCEPT !.requests = SponsoredAll(s.kept, locks, from, now)],
       balance |-> balance - s.spent,
       paid |-> s.paid, expired |-> s.expired, forgotten |-> s.forgotten]

(* What CROSS_PAY for a sequence of locks does to the contract. *)
CrossPaid(c, balance, from, locks, now) ==
  LET s == Settled(c, balance, SponsoredAll(c.requests, locks, from, now), now)
  IN  [contract |-> [c EXCEPT !.requests = s.kept], balance |-> balance - s.spent,
       paid |-> s.paid, expired |-> s.expired, forgotten |-> s.forgotten]
===============================================================================
