------------------------------- MODULE CrossChain -------------------------------
(***************************************************************************)
(* A payment from one chain to another.  On the chain where coins are      *)
(* locked every node has a parser (consensus_transaction_parser) that puts *)
(* the transactions of each block into its tables and tells every server   *)
(* of the paying chain of each lock, once.  A server of the paying chain   *)
(* (consensus_light_server/cross_chain) asks the nodes of the locking      *)
(* chain about the lock, notes it, and from time to time turns what is     *)
(* noted into one transaction to the side-chain contract.  The node's full *)
(* server takes transactions from the pool it shares with the light server *)
(* (consensus_full_server/mysql).                                          *)
(*                                                                         *)
(* Both chains are their blocks: consensus is Ripple's subject, and what a *)
(* block with failing transactions leaves behind is BlockRun's; here the   *)
(* block holds what remains.  A lock is alone in its block.  A timestamp   *)
(* counts units of the interval between two flushes.                       *)
(***************************************************************************)
EXTENDS SideChain

CONSTANTS Parser,         \* nodes of the locking chain
          Setups,         \* the situations to start from, each with bounds on
                          \* time, faults and transactions of authorities
          FlushInterval,  \* WAITING_CROSS_PAY_FLUSH_SECONDS_INTERVAL_THRESHOLD
          FlushLimit      \* WAITING_CROSS_PAY_FLUSH_COUNT_LIMIT

VARIABLES
  setup,       \* the situation
  height,      \* blocks of the locking chain
  parser,      \* [Parser -> its tables and where it is in run()]
  newSpv,      \* calls of newSpv under way
  received,    \* [Server -> table ReceivedSpv]
  waiting,     \* [Server -> table WaitingCrossPay, in the order of its ids]
  lastFlush,   \* [Server -> waitingCrossPayLastFlushTime]
  handlers,    \* [Server -> newSpv handlers between two awaits]
  pool,        \* [Server -> table RawTransaction]
  local,       \* [Server -> localTransactions of the full server]
  taken,       \* [Server -> local is in a block and not yet deleted]
  now,         \* time, and the timestamp of the next block
  contract,    \* the side-chain contract
  balance,     \* of the contract
  nonce,       \* [Server -> nonce of its account]
  paid,        \* [Lock -> times the payee was paid]
  ran,         \* history: transactions of blocks
  ended,       \* history: what became of a server's sponsorship
  events       \* history: faults and authorities' transactions so far, overlapping
               \* flushes, who has agreed to the latest request

chainVars == <<now, contract, balance, nonce, paid, ran>>
parserVars == <<height, parser>>
lightVars == <<received, waiting, lastFlush, handlers>>
fullVars == <<local, taken>>
vars == <<setup, parserVars, newSpv, lightVars, pool, fullVars, chainVars, ended, events>>

Setup ==
  [servers : SUBSET Server, authority : SUBSET Server, threshold : 1 .. 100,
   expireInterval : Nat, mints : BOOLEAN, guarantee : Nat, appends : Nat,
   parsers : SUBSET Parser, locks : Seq(Lock), faults : Nat, changes : Nat,
   times : SUBSET Nat]

(* There is something to pay. *)
ASSUME CrossAssumption ==
  /\ FlushInterval \in Nat /\ FlushLimit \in Nat \ {0}
  /\ IsFiniteSet(Server) /\ IsFiniteSet(Parser)
  /\ Setups \subseteq Setup
  /\ \A s \in Setups : s.locks # << >>

Servers == setup.servers
Parsers == setup.parsers

Init ==
  /\ setup \in Setups
  /\ height = 0
  /\ parser = [p \in Parser |-> [block |-> 1, step |-> "idle", parsed |-> {}, sent |-> {}]]
  /\ newSpv = {}
  /\ received = [s \in Server |-> {}]
  /\ waiting = [s \in Server |-> << >>]
  /\ lastFlush = [s \in Server |-> 0]
  /\ handlers = [s \in Server |-> {}]
  /\ pool = [s \in Server |-> << >>]
  /\ local = [s \in Server |-> << >>]
  /\ taken = [s \in Server |-> FALSE]
  /\ now = FlushInterval
  /\ contract = Created(setup)
  /\ balance = setup.guarantee
  /\ nonce = [s \in Server |-> 0]
  /\ paid = [l \in Lock |-> 0]
  /\ ran = {}
  /\ ended = {}
  /\ events = [faults |-> 0, changes |-> 0, overlaps |-> FALSE, agreed |-> {}]

Fault == events.faults < setup.faults /\ events' = [events EXCEPT !.faults = @ + 1]

(* The rows of a table that are not deleted, in order. *)
Without(rows, deleted) ==
  LET kept[i \in 0 .. Len(rows)] ==
        IF i = 0 THEN << >>
        ELSE IF rows[i] \in deleted THEN kept[i - 1] ELSE Append(kept[i - 1], rows[i])
  IN  kept[Len(rows)]

(***************************************************************************)
(* The locking chain and its parsers.                                      *)
(***************************************************************************)
LockCoins ==
  /\ height < Len(setup.locks)
  /\ height' = height + 1
  /\ UNCHANGED <<setup, parser, newSpv, lightVars, pool, fullVars, chainVars, ended, events>>

ParserStep(p, from, to) ==
  /\ parser[p].step = from
  /\ parser' = [parser EXCEPT ![p] = to]
  /\ UNCHANGED <<setup, height, lightVars, pool, fullVars, chainVars, ended, events>>

Parsing(p) == setup.locks[parser[p].block]

ParseTransactions(p) ==
  /\ parser[p].block <= height
  /\ ParserStep(p, "idle", [parser[p] EXCEPT !.step = "parsed", !.parsed = @ \cup {Parsing(p)}])
  /\ UNCHANGED newSpv

SaveSendedSpv(p) ==
  /\ ParserStep(p, "parsed", [parser[p] EXCEPT
       !.step = IF Parsing(p) \in parser[p].sent THEN "sent" ELSE "saved",
       !.sent = @ \cup {Parsing(p)}])
  /\ UNCHANGED newSpv

SendSpv(p) ==
  /\ ParserStep(p, "saved", [parser[p] EXCEPT !.step = "sent"])
  /\ newSpv' = newSpv \cup ({p} \X Servers \X {Parsing(p)})

SaveBlockNumber(p) ==
  /\ ParserStep(p, "sent", [parser[p] EXCEPT !.step = "idle", !.block = @ + 1])
  /\ UNCHANGED newSpv

ParserCrash(p) ==
  /\ parser[p].step # "idle"
  /\ Fault
  /\ parser' = [parser EXCEPT ![p].step = "idle"]
  /\ UNCHANGED <<setup, height, newSpv, lightVars, pool, fullVars, chainVars, ended>>

(* The request, or its answer, does not arrive; nobody sends it again. *)
Lose(m) ==
  /\ m \in newSpv
  /\ Fault
  /\ newSpv' = newSpv \ {m}
  /\ UNCHANGED <<setup, parserVars, lightVars, pool, fullVars, chainVars, ended>>

(***************************************************************************)
(* The light server.                                                       *)
(***************************************************************************)
(* What getSpvState of node p answers about an honest node's lock. *)
SpvValid(p, lock) == lock \in parser[p].parsed

EnoughValidOfOne(lock) == \E p \in Parsers : SpvValid(p, lock)  \* mutant: one answer suffices

EnoughValid(lock) ==
  Cardinality({p \in Parsers : SpvValid(p, lock)}) * 10 >= 8 * Cardinality(Parsers)

Idle == [lock |-> setup.locks[1], step |-> "saved", rows |-> << >>, destroyed |-> 0, nonce |-> 0]

ReceivedSpvCreated(s, lock) == lock \notin received[s]

(* newSpv up to the row in ReceivedSpv: a repeated lock, or one the nodes  *)
(* have not parsed yet, is refused.                                        *)
NewSpv(m) ==
  LET s == m[2]  lock == m[3]
  IN  /\ m \in newSpv
      /\ newSpv' = newSpv \ {m}
      /\ IF EnoughValid(lock) /\ ReceivedSpvCreated(s, lock)
         THEN /\ received' = [received EXCEPT ![s] = @ \cup {lock}]
              /\ handlers' = [handlers EXCEPT ![s] =
                                @ \cup {[Idle EXCEPT !.lock = lock, !.step = "received"]}]
         ELSE UNCHANGED <<received, handlers>>
      /\ UNCHANGED <<setup, parserVars, waiting, lastFlush, pool, fullVars, chainVars, ended,
                     events>>

HandlerStep(s, h, from, to) ==
  /\ h \in handlers[s]
  /\ h.step = from
  /\ handlers' = [handlers EXCEPT ![s] = (@ \ {h}) \cup to]
  /\ UNCHANGED <<setup, parserVars, newSpv, received, fullVars, chainVars, ended>>

SaveWaitingCrossPay(s, h) ==
  /\ HandlerStep(s, h, "received", {[h EXCEPT !.step = "saved"]})
  /\ waiting' = [waiting EXCEPT ![s] = Append(@, h.lock)]
  /\ UNCHANGED <<lastFlush, pool, events>>

IntervalElapsed(s) == now - lastFlush[s] >= FlushInterval

(* A handler that finds the interval not elapsed is done: the row waits    *)
(* for the handler of another lock.                                        *)
LeaveWaiting(s, h) ==
  /\ ~IntervalElapsed(s)
  /\ HandlerStep(s, h, "saved", {})
  /\ UNCHANGED <<waiting, lastFlush, pool, events>>

GetWaitingCrossPay(s, h) ==
  LET rows == SubSeq(waiting[s], 1, IF Len(waiting[s]) < FlushLimit THEN Len(waiting[s])
                                                                   ELSE FlushLimit)
  IN  /\ IntervalElapsed(s)
      /\ HandlerStep(s, h, "saved", IF rows = << >> THEN {}
                                    ELSE {[h EXCEPT !.step = "flushing", !.rows = rows]})
      /\ lastFlush' = [lastFlush EXCEPT ![s] = now]
      /\ events' = [events EXCEPT !.overlaps =
           @ \/ \E g \in handlers[s] : g.step = "flushing" /\ ToSet(g.rows) \cap ToSet(rows) # {}]
      /\ UNCHANGED <<waiting, pool>>

DestroyRow(s, h) ==
  LET row == h.rows[h.destroyed + 1]
  IN  /\ HandlerStep(s, h, "flushing",
           {[h EXCEPT !.destroyed = @ + 1,
                      !.step = IF h.destroyed + 1 = Len(h.rows) THEN "flushed" ELSE @]})
      /\ waiting' = [waiting EXCEPT ![s] = Without(@, {row})]
      /\ UNCHANGED <<lastFlush, pool, events>>

(* The nonce is that of the account in the latest block.  The rows are of  *)
(* one other chain: of several, the code would make a transaction for      *)
(* each, and all with this nonce.                                          *)
ReadAccount(s, h) ==
  /\ HandlerStep(s, h, "flushed", {[h EXCEPT !.step = "read", !.nonce = nonce[s] + 1]})
  /\ UNCHANGED <<waiting, lastFlush, pool, events>>

SaveRawTransaction(s, h) ==
  /\ HandlerStep(s, h, "read", {})
  /\ pool' = [pool EXCEPT ![s] = Append(@, [from |-> s, nonce |-> h.nonce, locks |-> h.rows])]
  /\ UNCHANGED <<waiting, lastFlush, events>>

(* What the handlers of a server hold and no table does. *)
Held(s, h) ==
  CASE h.step = "received" -> {h.lock}
    [] h.step = "saved" -> {}
    [] OTHER -> ToSet(SubSeq(h.rows, 1, h.destroyed))

Ended(s, locks, how) == {<<s, l, how>> : l \in locks}

(* The rows are destroyed, and the handler answers with an error: it finds *)
(* no block, no account or no contract, or the database fails.             *)
FlushFails(s) ==
  \E h \in handlers[s] :
    /\ h.step \in {"flushed", "read"}
    /\ Fault
    /\ handlers' = [handlers EXCEPT ![s] = @ \ {h}]
    /\ ended' = ended \cup Ended(s, Held(s, h), "crashed")
    /\ UNCHANGED <<setup, parserVars, newSpv, received, waiting, lastFlush, pool, fullVars,
                   chainVars>>

LightServerCrash(s) ==
  /\ handlers[s] # {}
  /\ Fault
  /\ handlers' = [handlers EXCEPT ![s] = {}]
  /\ lastFlush' = [lastFlush EXCEPT ![s] = 0]
  /\ ended' = ended \cup Ended(s, UNION {Held(s, h) : h \in handlers[s]}, "crashed")
  /\ UNCHANGED <<setup, parserVars, newSpv, received, waiting, pool, fullVars, chainVars>>

(***************************************************************************)
(* The full server: transactions stay in the pool until the block that has *)
(* them is processed.  A block takes over what some servers hold.          *)
(***************************************************************************)
GetRawTransactions(s) ==
  /\ local[s] = << >>
  /\ pool[s] # << >>
  /\ local' = [local EXCEPT ![s] = pool[s]]
  /\ UNCHANGED <<setup, parserVars, newSpv, lightVars, pool, taken, chainVars, ended, events>>

MayCrossPay(c, from) == from \in c.authority

RunsWithAnyNonce(b, tx) == MayCrossPay(b.contract, tx.from)  \* mutant: nonce not checked

(* One transaction of a block: dropped when its nonce is not the next one  *)
(* or its sender is not an authority.  It carries one coin.                *)
Runs(b, tx) == tx.nonce = b.nonce[tx.from] + 1 /\ MayCrossPay(b.contract, tx.from)

EndedRequests(requests, how) ==
  UNION {{<<s, r.lock, how>> : s \in r.sponsors} : r \in ToSet(requests)}

RunTx(b, tx) ==
  LET c == CrossPaid(b.contract, b.balance + 1, tx.from, tx.locks, now)
      before(l) == {r \in ToSet(b.contract.requests) : r.lock = l}
      payers(l) == (UNION {r.sponsors : r \in before(l)})
                     \cup (IF l \in ToSet(tx.locks) THEN {tx.from} ELSE {})
  IN  IF Runs(b, tx)
      THEN [contract |-> c.contract,
            balance |-> c.balance,
            nonce |-> [b.nonce EXCEPT ![tx.from] = tx.nonce],
            paid |-> [l \in Lock |-> b.paid[l]
                                      + Cardinality({i \in DOMAIN c.paid : c.paid[i] = l})],
            ran |-> b.ran \cup {tx},
            ended |-> b.ended
                        \cup (UNION {{<<s, l, "paid">> : s \in payers(l)} : l \in ToSet(c.paid)})
                        \cup EndedRequests(c.expired, "expired")
                        \cup EndedRequests(c.forgotten, "forgotten")]
      ELSE IF tx \in b.ran THEN b
      ELSE [b EXCEPT !.ran = @ \cup {tx},
                     !.ended = @ \cup Ended(tx.from, ToSet(tx.locks), "refused")]

RunAll(before, txs) ==
  LET run[i \in 0 .. Len(txs)] == IF i = 0 THEN before ELSE RunTx(run[i - 1], txs[i])
  IN  run[Len(txs)]

ProcessBlock(order) ==
  LET before == [contract |-> contract, balance |-> balance, nonce |-> nonce,
                 paid |-> paid, ran |-> ran, ended |-> ended]
      after == RunAll(before, FlattenSeq([i \in DOMAIN order |-> local[order[i]]]))
  IN  /\ order # << >>
      /\ \A i \in DOMAIN order : local[order[i]] # << >> /\ ~taken[order[i]]
      /\ contract' = after.contract
      /\ balance' = after.balance
      /\ nonce' = after.nonce
      /\ paid' = after.paid
      /\ ran' = after.ran
      /\ ended' = after.ended
      /\ taken' = [s \in Server |-> taken[s] \/ s \in ToSet(order)]
      /\ UNCHANGED <<setup, parserVars, newSpv, lightVars, pool, local, now, events>>

Orders ==
  {order \in UNION {[1 .. n -> Servers] : n \in 1 .. Cardinality(Servers)} : IsInjective(order)}

DeleteTransactionsAll(s) ==  \* mutant: the table is emptied
  /\ taken[s]
  /\ pool' = [pool EXCEPT ![s] = << >>]
  /\ local' = [local EXCEPT ![s] = << >>]
  /\ taken' = [taken EXCEPT ![s] = FALSE]
  /\ UNCHANGED <<setup, parserVars, newSpv, lightVars, chainVars, ended, events>>

DeleteTransactions(s) ==
  /\ taken[s]
  /\ pool' = [pool EXCEPT ![s] = Without(@, ToSet(local[s]))]
  /\ local' = [local EXCEPT ![s] = << >>]
  /\ taken' = [taken EXCEPT ![s] = FALSE]
  /\ UNCHANGED <<setup, parserVars, newSpv, lightVars, chainVars, ended, events>>

FullServerCrash(s) ==
  /\ local[s] # << >>
  /\ Fault
  /\ local' = [local EXCEPT ![s] = << >>]
  /\ taken' = [taken EXCEPT ![s] = FALSE]
  /\ UNCHANGED <<setup, parserVars, newSpv, lightVars, pool, chainVars, ended>>

(***************************************************************************)
(* Blocks with other transactions, and time.                               *)
(***************************************************************************)
(* An authority's own transaction takes the next nonce of its account.     *)
OwnTransaction(from, agreed, c) ==
  /\ events.changes < setup.changes
  /\ events' = [events EXCEPT !.changes = @ + 1, !.agreed = agreed]
  /\ contract' = c
  /\ nonce' = [nonce EXCEPT ![from] = @ + 1]
  /\ UNCHANGED <<setup, parserVars, newSpv, lightVars, pool, fullVars, now, balance, paid, ran,
                 ended>>

ModifyAuthorities(from, new, del) ==
  /\ MayModify(contract, from, now)
  /\ OwnTransaction(from, {from}, Asked(contract, from, new, del, now))

Agree(from) ==
  /\ MayAnswer(contract, from, contract.timestamp, now)
  /\ OwnTransaction(from, events.agreed \cup {from}, Agreed(contract, from))

Reject(from) ==
  /\ MayAnswer(contract, from, contract.timestamp, now)
  /\ OwnTransaction(from, events.agreed, Rejected(contract, from))

AppendGuarantee ==
  /\ balance < setup.guarantee + setup.appends
  /\ balance' = balance + 1
  /\ UNCHANGED <<setup, parserVars, newSpv, lightVars, pool, fullVars, now, contract, nonce,
                 paid, ran, ended, events>>

Tick ==
  /\ now' \in {t \in setup.times : t > now}
  /\ UNCHANGED <<setup, parserVars, newSpv, lightVars, pool, fullVars, contract, balance, nonce,
                 paid, ran, ended, events>>

Next ==
  \/ LockCoins
  \/ \E p \in Parsers : \/ ParseTransactions(p) \/ SaveSendedSpv(p) \/ SendSpv(p)
                        \/ SaveBlockNumber(p) \/ ParserCrash(p)
  \/ \E m \in newSpv : NewSpv(m) \/ Lose(m)
  \/ \E s \in Servers : \E h \in handlers[s] :
       \/ SaveWaitingCrossPay(s, h) \/ LeaveWaiting(s, h) \/ GetWaitingCrossPay(s, h)
       \/ DestroyRow(s, h) \/ ReadAccount(s, h) \/ SaveRawTransaction(s, h)
  \/ \E s \in Servers : \/ GetRawTransactions(s) \/ DeleteTransactions(s)
                        \/ FlushFails(s) \/ LightServerCrash(s) \/ FullServerCrash(s)
  \/ \E order \in Orders : ProcessBlock(order)
  \/ \E s, t \in Servers : ModifyAuthorities(s, {t}, {}) \/ ModifyAuthorities(s, {}, {t})
  \/ \E s \in Servers : Agree(s) \/ Reject(s)
  \/ AppendGuarantee
  \/ Tick

Spec == Init /\ [][Next]_vars

(***************************************************************************)
(* Properties.                                                             *)
(***************************************************************************)
ParserState == [block : Nat, step : {"idle", "parsed", "saved", "sent"},
                parsed : SUBSET Lock, sent : SUBSET Lock]

Handler == [lock : Lock, step : {"received", "saved", "flushing", "flushed", "read"},
            rows : Seq(Lock), destroyed : Nat, nonce : Nat]

RawTx == [from : Server, nonce : Nat, locks : Seq(Lock)]

Causes == {"crashed", "refused", "paid", "expired", "forgotten"}

(* Every variable keeps its type; in particular the contract's balance is  *)
(* never negative: a payment is made from what is there (crossPay).        *)
TypeOK ==
  /\ setup \in Setups
  /\ height \in Nat
  /\ parser \in [Parser -> ParserState]
  /\ newSpv \subseteq Parser \X Server \X Lock
  /\ received \in [Server -> SUBSET Lock]
  /\ waiting \in [Server -> Seq(Lock)]
  /\ lastFlush \in [Server -> Nat]
  /\ DOMAIN handlers = Server /\ \A s \in Server : handlers[s] \subseteq Handler
  /\ pool \in [Server -> Seq(RawTx)]
  /\ local \in [Server -> Seq(RawTx)]
  /\ taken \in [Server -> BOOLEAN]
  /\ now \in Nat
  /\ contract \in Contract
  /\ balance \in Nat
  /\ nonce \in [Server -> Nat]
  /\ paid \in [Lock -> Nat]
  /\ ran \subseteq RawTx
  /\ ended \subseteq Server \X Lock \X Causes
  /\ events \in [faults : Nat, changes : Nat, overlaps : BOOLEAN,
                  agreed : SUBSET Server]

(* Nothing changed the authorities and no flush read the rows of another.  *)
Undisturbed == events.changes = 0 /\ ~events.overlaps

(* crossPay drops the request it pays and would take the next sponsor for  *)
(* a new one.  A lock is nevertheless paid at most once, whatever crashes, *)
(* expires, is lost or sent by several parsers: ReceivedSpv lets a server  *)
(* sponsor it once, and two quorums of a threshold above one half meet.    *)
PaidOnce == Undisturbed => \A l \in Lock : paid[l] <= 1

(* Whoever sponsors a lock has seen it confirmed by enough nodes of the    *)
(* locking chain, and a paid lock by the threshold of the authorities.     *)
PaymentsVerified ==
  /\ \A i \in DOMAIN contract.requests :
       \A s \in contract.requests[i].sponsors : contract.requests[i].lock \in received[s]
  /\ \A s \in Servers : \A l \in received[s] :
       10 * Cardinality({p \in Parsers : SpvValid(p, l)}) >= 8 * Cardinality(Parsers)
  /\ \A l \in Lock : paid[l] > 0 /\ events.changes = 0 =>
       Reaches(contract, Cardinality({s \in setup.authority : l \in received[s]}))

(* The places where a server's sponsorship of a lock may be. *)
InPool(s, l) ==
  {i \in DOMAIN pool[s] : pool[s][i] \notin ran /\ l \in ToSet(pool[s][i].locks)}

Pending(s, l) ==
  {i \in DOMAIN contract.requests :
     contract.requests[i].lock = l /\ s \in contract.requests[i].sponsors}

Places(s, l) ==
  Cardinality({i \in DOMAIN waiting[s] : waiting[s][i] = l})
    + Cardinality({h \in handlers[s] : l \in Held(s, h)})
    + Cardinality(InPool(s, l)) + Cardinality(Pending(s, l))
    + Cardinality({e \in ended : e[1] = s /\ e[2] = l})

(* From ReceivedSpv on a lock passes through two tables, a handler, the    *)
(* pool, a block and the contract, and each step deletes before or after   *)
(* it creates.  It is always somewhere, and in one place only as long as   *)
(* no two flushes overlap and nobody becomes an authority in between.      *)
Accounted ==
  \A s \in Servers : \A l \in received[s] :
    /\ Places(s, l) > 0
    /\ Places(s, l) > 1 => ~Undisturbed

(* The contract keeps no request that has its sponsors: what is due is     *)
(* paid by the transaction that makes it due.  Authorities that leave may  *)
(* make a request due without one.                                         *)
NoneLeftDue ==
  events.changes = 0 => \A i \in DOMAIN contract.requests : ~Due(contract, contract.requests[i])

(* The authorities change only when the threshold of them has agreed to    *)
(* the latest request; who agreed to an earlier one does not count.        *)
AuthoritiesApproved ==
  [][contract'.authority # contract.authority =>
       Reaches(contract, Cardinality(events'.agreed \cap contract.authority))]_vars

Quiet ==
  /\ height = Len(setup.locks)
  /\ newSpv = {}
  /\ \A p \in Parsers : parser[p].block > height
  /\ \A s \in Servers : handlers[s] = {} /\ pool[s] = << >>

(* Without faults every server sponsors every lock: the parser of the last *)
(* node to parse it is believed.  When nothing is left to do a lock is     *)
(* paid unless a row waits for the next lock, a nonce was used twice, the  *)
(* request expired or the guarantee did not suffice.                       *)
QuietMeansPaid ==
  Quiet /\ events.faults = 0 /\ events.changes = 0 =>
    \A l \in ToSet(setup.locks) :
      \/ paid[l] > 0
      \/ \E s \in Servers : l \in ToSet(waiting[s])
      \/ \E e \in ended : e[2] = l /\ e[3] \in {"refused", "expired", "forgotten"}
===============================================================================
