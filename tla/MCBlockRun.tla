------------------------------ MODULE MCBlockRun ------------------------------
(* Three users, a multi-signature contract of theirs and a crowd           *)
(* funding; both contracts exist after the genesis block.                  *)
EXTENDS BlockRun

CONSTANTS alice, bob, carol, wallet, fund, purse

MCAddress == {alice, bob, carol, wallet, fund, purse}

MCGenesis ==
  [a \in MCAddress \cup {NoOne} |->
     CASE a \in {alice, bob} -> [nonce |-> 0, balance |-> 4, code |-> NoCode]
       [] a = carol -> [nonce |-> 0, balance |-> 2, code |-> NoCode]
       [] a = wallet ->
            [nonce |-> 0, balance |-> 1,
             code |-> NewMultiSign([authority |-> <<alice, bob, carol>>, threshold |-> 60,
                                    expireInterval |-> 1])]
       [] a = fund ->
            [nonce |-> 0, balance |-> 0,
             code |-> NewCrowdFund([beginTime |-> 0, endTime |-> 3, receiver |-> bob,
                                    target |-> 4, limit |-> 1])]
       [] a \in {purse, NoOne} -> Empty]

Tx(from, to, value, nonce, command, args) ==
  [from |-> from, to |-> to, value |-> value, nonce |-> nonce, command |-> command,
   args |-> args]

Answer(t) == [payee |-> NoOne, amount |-> 0, timestamp |-> t]

PayCarol(amount) == [payee |-> carol, amount |-> amount, timestamp |-> 0]

PayNoOne == [payee |-> NoOne, amount |-> 1, timestamp |-> 0]

NoArgs == Answer(0)

(* The first block has time 3, the second 4.  Most transactions fail       *)
(* unless others come before them.                                         *)
MCTransactions ==
  {Tx(alice, wallet, 1, 1, SendOrFund, PayCarol(2)),
   Tx(alice, wallet, 1, 2, SendOrFund, PayCarol(3)),
   Tx(bob, wallet, 1, 1, AgreeOrRefund, Answer(3)),
   Tx(bob, wallet, 1, 1, RejectOrReceive, Answer(3)),
   Tx(carol, wallet, 1, 1, RejectOrReceive, Answer(3)),
   Tx(alice, fund, 2, 1, SendOrFund, NoArgs),
   Tx(alice, fund, 1, 2, AgreeOrRefund, NoArgs),
   Tx(bob, fund, 3, 1, SendOrFund, NoArgs),
   Tx(bob, fund, 1, 2, RejectOrReceive, NoArgs),
   Tx(alice, carol, 3, 2, Transfer, NoArgs),
   Tx(carol, purse, 1, 1, Create,
      [kind |-> "multiSign", authority |-> <<carol>>, threshold |-> 100,
       expireInterval |-> 1]),
   Tx(carol, purse, 1, 2, SendOrFund, PayNoOne)}
===============================================================================
