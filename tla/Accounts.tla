------------------------------- MODULE Accounts -------------------------------
(***************************************************************************)
(* Accounts, the crowd-funding and the multi-signature contract, and what  *)
(* one transaction does to the cache of accounts (runTx.js).               *)
(*                                                                         *)
(* Amounts are natural numbers, a contract is a record in its account's    *)
(* "code" (account.data in the program).  A transaction names its command  *)
(* by the program's number; what the number means is the contract's        *)
(* business.  Divisions of the thresholds are exact here, floating point   *)
(* in the program.                                                         *)
(***************************************************************************)
EXTENDS Integers, Sequences, FiniteSets, Functions, TLC

CONSTANTS Address,     \* addresses of users and contracts
          NoOne        \* the empty buffer in place of an address

ASSUME AddressAssumption == IsFiniteSet(Address)
ASSUME NoOneAssumption == NoOne \notin Address

(* The keys of the state trie.  A payment request may name the empty       *)
(* buffer, and the coins then go to the account that is stored there.      *)
Key == Address \cup {NoOne}

(* Commands of constant.js and, from 100 on, of the contracts. *)
Transfer == 1
Create == 2
SendOrFund == 100
AgreeOrRefund == 101
RejectOrReceive == 102

(***************************************************************************)
(* Accounts.                                                               *)
(***************************************************************************)
NoCode == [kind |-> "none"]

Empty == [nonce |-> 0, balance |-> 0, code |-> NoCode]

MultiSigns == [kind : {"multiSign"}, authority : Seq(Address), threshold : Nat,
               expireInterval : Nat, timestamp : Nat, payee : Key,
               amount : Nat, agree : Seq(Address), reject : Seq(Address)]

CrowdFunds == [kind : {"crowdFund"}, live : BOOLEAN, beginTime : Nat, endTime : Nat,
               receiver : Address, target : Nat, limit : Nat, funds : [Address -> Nat]]

Account == [nonce : Nat, balance : Nat, code : {NoCode} \cup MultiSigns \cup CrowdFunds]

(* What a transaction says besides its command, empty where it does not.   *)
Arguments == [payee : Key, amount : Nat, timestamp : Nat]

CreateArguments ==
  [kind : {"multiSign"}, authority : Seq(Address), threshold : Nat, expireInterval : Nat]
    \cup [kind : {"crowdFund"}, beginTime : Nat, endTime : Nat, receiver : Address,
          target : Nat, limit : Nat]

Credited(a, value) == [a EXCEPT !.balance = @ + value]

(* The cache holds some of the accounts; the others are in the trie. *)
Lookup(cache, a) == IF a \in DOMAIN cache THEN cache[a].account ELSE Empty

GetOrLoad(cache, trie, a) == IF Lookup(cache, a) # Empty THEN Lookup(cache, a) ELSE trie[a]

Put(cache, a, account) ==
  [x \in DOMAIN cache \cup {a} |->
     IF x = a THEN [account |-> account, modified |-> TRUE] ELSE cache[x]]

(***************************************************************************)
(* The multi-signature contract: an authority asks for a payment, the      *)
(* payment is made when the agreeing share reaches the threshold.          *)
(***************************************************************************)
(* An amount of zero is the empty buffer.  The code looks at the buffers'  *)
(* lengths, and would take the byte 0 for an amount, too.                  *)
RequestOpen(m) == m.payee # NoOne /\ m.amount > 0

Answered(m, who) == who \in Range(m.agree) \cup Range(m.reject)

Approved(m) == Len(m.agree) * 100 >= m.threshold * Len(m.authority)

Refused(m) == Len(m.reject) * 100 > (100 - m.threshold) * Len(m.authority)

NewMultiSign(args) ==
  [kind |-> "multiSign", authority |-> args.authority, threshold |-> args.threshold,
   expireInterval |-> args.expireInterval, timestamp |-> 0, payee |-> NoOne,
   amount |-> 0, agree |-> << >>, reject |-> << >>]

RequestKeepsAgreements(m, args, now) ==  \* mutant: agreeAddresses not emptied
  [m EXCEPT !.payee = args.payee, !.amount = args.amount, !.timestamp = now,
            !.reject = << >>]

Request(m, args, now) ==
  [m EXCEPT !.payee = args.payee, !.amount = args.amount, !.timestamp = now,
            !.agree = << >>, !.reject = << >>]

Reset(m) == [m EXCEPT !.payee = NoOne, !.amount = 0, !.timestamp = 0,
                      !.agree = << >>, !.reject = << >>]

CanRequestUnfunded(m, balance, tx, now) ==  \* mutant: balance not checked
  m.timestamp + m.expireInterval <= now

CanRequest(m, balance, tx, now) ==
  /\ m.timestamp + m.expireInterval <= now
  /\ tx.args.amount <= balance

CanAnswer(m, tx, now) ==
  /\ RequestOpen(m)
  /\ now <= m.timestamp + m.expireInterval
  /\ tx.args.timestamp = m.timestamp
  /\ ~Answered(m, tx.from)

MultiSignAccepts(m, balance, tx, now) ==
  tx.command \in {SendOrFund, AgreeOrRefund, RejectOrReceive} =>
    /\ tx.from \in Range(m.authority)
    /\ IF tx.command = SendOrFund THEN CanRequest(m, balance, tx, now) ELSE CanAnswer(m, tx, now)

Agree(m, who) == [m EXCEPT !.agree = Append(@, who)]

Reject(m, who) == [m EXCEPT !.reject = Append(@, who)]

(* The contract with the sender's answer, before it is settled. *)
Voted(m, tx, now) ==
  CASE tx.command = SendOrFund -> Agree(Request(m, tx.args, now), tx.from)
    [] tx.command = AgreeOrRefund -> Agree(m, tx.from)
    [] tx.command = RejectOrReceive -> Reject(m, tx.from)
    [] OTHER -> m

Pays(m, tx) == tx.command \in {SendOrFund, AgreeOrRefund} /\ Approved(m)

SettledByPayment(m, tx) ==  \* mutant: a refused request is not reset
  IF Pays(m, tx) THEN Reset(m) ELSE m

Settled(m, tx) ==
  IF Pays(m, tx) \/ (tx.command = RejectOrReceive /\ Refused(m)) THEN Reset(m) ELSE m

(***************************************************************************)
(* The crowd-funding contract: funded until endTime, from then on paid out *)
(* to the receiver or, below the target, back to who asks for it.          *)
(***************************************************************************)
NewCrowdFund(args) ==
  [kind |-> "crowdFund", live |-> TRUE, beginTime |-> args.beginTime,
   endTime |-> args.endTime, receiver |-> args.receiver, target |-> args.target,
   limit |-> args.limit, funds |-> [a \in Address |-> 0]]

CrowdFundAccepts(c, balance, tx, now) ==
  /\ c.live
  /\ \/ /\ tx.command = SendOrFund
        /\ c.beginTime <= now /\ now <= c.endTime
        /\ c.limit <= tx.value
     \/ /\ tx.command = AgreeOrRefund
        /\ c.endTime <= now
        /\ balance < c.target
     \/ /\ tx.command = RejectOrReceive
        /\ c.endTime <= now
        /\ c.target <= balance

FundedForEver(c, tx) ==  \* mutant: a refund does not delete the fund
  CASE tx.command = SendOrFund -> [c EXCEPT !.funds[tx.from] = @ + tx.value]
    [] tx.command = RejectOrReceive -> [c EXCEPT !.live = FALSE]
    [] OTHER -> c

Funded(c, tx) ==
  CASE tx.command = SendOrFund -> [c EXCEPT !.funds[tx.from] = @ + tx.value]
    [] tx.command = AgreeOrRefund -> [c EXCEPT !.funds[tx.from] = 0]
    [] tx.command = RejectOrReceive -> [c EXCEPT !.live = FALSE]
    [] OTHER -> c

(***************************************************************************)
(* A contract's command: the accounts of sender and contract after it and  *)
(* the payment it makes to a third account, read from cache or trie.       *)
(***************************************************************************)
Created(tx) ==
  IF tx.args.kind = "multiSign" THEN NewMultiSign(tx.args) ELSE NewCrowdFund(tx.args)

Accepts(to, tx, now) ==
  \/ tx.command = Transfer
  \/ tx.command = Create /\ to = Empty
  \/ /\ tx.command \notin {Transfer, Create}
     /\ \/ /\ to.code.kind = "multiSign"
           /\ MultiSignAccepts(to.code, to.balance + tx.value, tx, now)
        \/ /\ to.code.kind = "crowdFund"
           /\ CrowdFundAccepts(to.code, to.balance + tx.value, tx, now)

Unpaid(from, to) == [from |-> from, to |-> to, paid |-> FALSE, payee |-> NoOne, amount |-> 0]

RunMultiSign(from, to, tx, now) ==
  LET m == Voted(to.code, tx, now)
      after == [to EXCEPT !.code = Settled(m, tx)]
  IN IF Pays(m, tx)
     THEN [from |-> from, to |-> [after EXCEPT !.balance = @ - m.amount],
           paid |-> TRUE, payee |-> m.payee, amount |-> m.amount]
     ELSE Unpaid(from, after)

RunCrowdFundKeepsBalance(from, to, tx) ==  \* mutant: balance not reset when paid out
  LET after == [to EXCEPT !.code = Funded(to.code, tx)]
      share == to.code.funds[tx.from]
  IN CASE tx.command = AgreeOrRefund ->
            Unpaid(Credited(from, share), [after EXCEPT !.balance = @ - share])
       [] tx.command = RejectOrReceive ->
            [from |-> from, to |-> after,
             paid |-> TRUE, payee |-> to.code.receiver, amount |-> to.balance]
       [] OTHER -> Unpaid(from, after)

RunCrowdFund(from, to, tx) ==
  LET after == [to EXCEPT !.code = Funded(to.code, tx)]
      share == to.code.funds[tx.from]
  IN CASE tx.command = AgreeOrRefund ->
            Unpaid(Credited(from, share), [after EXCEPT !.balance = @ - share])
       [] tx.command = RejectOrReceive ->
            [from |-> from, to |-> [after EXCEPT !.balance = 0],
             paid |-> TRUE, payee |-> to.code.receiver, amount |-> to.balance]
       [] OTHER -> Unpaid(from, after)

Run(from, to, tx, now) ==
  CASE tx.command = Transfer -> Unpaid(from, to)
    [] tx.command = Create -> Unpaid(from, [to EXCEPT !.code = Created(tx)])
    [] OTHER -> IF to.code.kind = "multiSign" THEN RunMultiSign(from, to, tx, now)
                                              ELSE RunCrowdFund(from, to, tx)

(***************************************************************************)
(* One transaction (runTx.js).  Sender and contract are written back last, *)
(* from the copies read first.                                             *)
(***************************************************************************)
Sender(cache, tx) ==
  LET from == Lookup(cache, tx.from)
  IN [from EXCEPT !.nonce = @ + 1, !.balance = @ - tx.value]

TxValidUncovered(cache, tx, now) ==  \* mutant: the sender's balance not checked
  /\ Lookup(cache, tx.from).code = NoCode
  /\ Lookup(cache, tx.from).nonce + 1 = tx.nonce
  /\ Accepts(Lookup(cache, tx.to), tx, now)

TxValid(cache, tx, now) ==
  /\ Lookup(cache, tx.from).code = NoCode
  /\ Lookup(cache, tx.from).balance >= tx.value
  /\ Lookup(cache, tx.from).nonce + 1 = tx.nonce
  /\ Accepts(Lookup(cache, tx.to), tx, now)

TxResult(cache, tx, now) ==
  Run(Sender(cache, tx), Credited(Lookup(cache, tx.to), tx.value), tx, now)

TxCache(cache, trie, tx, now) ==
  LET result == TxResult(cache, tx, now)
      paid == IF ~result.paid THEN cache
              ELSE Put(cache, result.payee,
                       Credited(GetOrLoad(cache, trie, result.payee), result.amount))
  IN Put(Put(paid, tx.from, result.from), tx.to, result.to)

(* The events a multi-signature contract leaves in the receipts. *)
TxReceipts(cache, tx, now) ==
  LET before == Lookup(cache, tx.to)
      m == Voted(before.code, tx, now)
      event(kind, sponsor) ==
        [kind |-> kind, contract |-> tx.to, timestamp |-> m.timestamp,
         payee |-> m.payee, amount |-> m.amount, sponsor |-> sponsor]
      answer == IF tx.command = RejectOrReceive THEN "reject" ELSE "agree"
  IN IF \/ before.code.kind # "multiSign"
        \/ tx.command \notin {SendOrFund, AgreeOrRefund, RejectOrReceive}
     THEN {}
     ELSE {event(answer, tx.from)} \cup (IF Pays(m, tx) THEN {event("pay", NoOne)} ELSE {})

(***************************************************************************)
(* What should hold of an account at any time; BlockRun.tla says why.      *)
(***************************************************************************)
Total(f) == FoldFunction(LAMBDA x, y : x + y, 0, f)

RequestFunded(account) ==
  (account.code.kind = "multiSign" /\ RequestOpen(account.code))
    => account.code.amount <= account.balance

RequestUndecided(account) ==
  (account.code.kind = "multiSign" /\ RequestOpen(account.code)) =>
    LET m == account.code
    IN /\ IsInjective(m.agree \o m.reject)
       /\ Range(m.agree \o m.reject) \subseteq Range(m.authority)
       /\ ~Approved(m)
       /\ m.threshold <= 100 => ~Refused(m)

Solvent(account) ==
  (account.code.kind = "crowdFund" /\ account.code.live)
    => Total(account.code.funds) <= account.balance

===============================================================================
