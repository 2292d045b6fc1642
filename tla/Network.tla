------------------------------ MODULE Network ------------------------------
(***************************************************************************)
(* How the full servers of a network stay connected: the sockets of        *)
(* depends/fly (Connection, ConnectionsManager, MessageChunkQueue) and the *)
(* use the P2p class of a full server makes of them.  A node dials every   *)
(* listed node it holds no connection with, both ends ask each other for a *)
(* signature, and a connection both trust is handed to the manager, which  *)
(* keeps one for each address.                                             *)
(*                                                                         *)
(* An end of connection c is <<c, "client">>, the dialling node's, or      *)
(* <<c, "server">>.  Each writes into a stream: messages wait in its       *)
(* sendBufferArray while the socket is full, and are then on the wire, in  *)
(* order.  The promise of authorize is continued before the next event of  *)
(* a socket, so the step that settles it also hands the end to the manager.*)
(*                                                                         *)
(* Not of the code: "bound", which a behaviour begins with and keeps, says *)
(* how often a node other than Persistent dials and which of the faults,   *)
(* and how many in all, there are; one message of data is on a wire at a   *)
(* time.                                                                   *)
(***************************************************************************)
EXTENDS Naturals, Sequences, FiniteSets

CONSTANTS Node,        \* addresses of the nodes
          Conn,        \* identifiers of connections, used again when closed
          Persistent,  \* the node whose dials are not counted
          Cap,         \* messages on a wire from which on the socket is full
          Bounds       \* bounds of the behaviours

(* State 2 of a record is "excluded".  States 0 and 1, online and offline,  *)
(* are one: the program writes them and reads neither.                     *)
RecordState == {"listed", "excluded", "absent"}

Records == {r \in [Node -> [Node -> RecordState]] : \A n \in Node : r[n][n] = "absent"}

ASSUME NetworkAssumption ==
  /\ Persistent \in Node
  /\ Cap \in Nat \ {0}
  /\ \A b \in Bounds : b.dials \in Nat /\ b.faults \in Nat /\ b.records \subseteq Records

VARIABLES
  conn,     \* connection -> the nodes at its two sides, None when not used
  end,      \* end -> the flags of its Connection
  out,      \* end -> what it has written and the other end has not read
  held,     \* node -> ends in its manager's connections
  unl,      \* node -> nodes it lists in memory
  stored,   \* node -> node -> its record in the database, see RecordState
  updates,  \* <<node, node>> whose record is being updated, see SetState
  dialing,  \* <<dialling node, node dialled>>
  broken,   \* connections reset by the network
  split,    \* ends that have read the head of the next message without the rest
  faults,   \* faults so far
  dials,    \* dials so far of nodes other than Persistent
  bound     \* of this behaviour: [dials, faults, kinds (of faults), records (at first)]

vars ==
  <<conn, end, out, held, unl, stored, updates, dialing, broken, split, faults, dials, bound>>

limits == <<dials, bound>>

records == <<stored, updates>>

lists == <<unl, records>>

Side == {"client", "server"}

End == Conn \X Side

None == [client |-> "none", server |-> "none"]

Message == {"request", "response", "success", "failed", "data"}

Other(side) == IF side = "client" THEN "server" ELSE "client"

Peer(e) == <<e[1], Other(e[2])>>

Owner(e) == conn[e[1]][e[2]]

Address(e) == Owner(Peer(e))  \* of a verified token

Closed ==
  [stop |-> TRUE, finished |-> TRUE, ended |-> TRUE, closed |-> TRUE,
   trusts |-> FALSE, trusted |-> FALSE, settled |-> TRUE]

Opened ==
  [stop |-> FALSE, finished |-> FALSE, ended |-> FALSE, closed |-> FALSE,
   trusts |-> FALSE, trusted |-> FALSE, settled |-> FALSE]

Nothing == [buffer |-> <<>>, wire |-> <<>>, full |-> FALSE]

AuthorisedByTrust(s) == s.trusts  \* mutant: does not wait for the other's trust

(* ifAuthorizeSuccess *)
Authorised(s) == s.trusts /\ s.trusted

FlushedTwice(x) ==  \* mutant: what is written stays in the buffer
  [x EXCEPT !.wire = @ \o x.buffer, !.full = Len(x.wire \o x.buffer) >= Cap]

(* Connection.flush: every write is taken, until one fills the socket. *)
Flushed(x) ==
  IF x.full \/ x.buffer = <<>>
  THEN x
  ELSE LET room == IF Len(x.wire) < Cap THEN Cap - Len(x.wire) ELSE 1
           taken == IF Len(x.buffer) < room THEN Len(x.buffer) ELSE room
       IN  [buffer |-> SubSeq(x.buffer, taken + 1, Len(x.buffer)),
            wire |-> x.wire \o SubSeq(x.buffer, 1, taken),
            full |-> Len(x.wire) + taken >= Cap]

(* Connection.write *)
Written(s, x, m) == IF s.stop THEN x ELSE Flushed([x EXCEPT !.buffer = Append(@, m)])

(* Connection.close: no more is written, and the socket is ended at once   *)
(* unless it is full: then when it has drained, see Finish.                *)
Shut(s, x) == [s EXCEPT !.stop = TRUE, !.finished = @ \/ ~x.full]

(***************************************************************************)
(* The manager.                                                            *)
(***************************************************************************)
HeldFor(n, m) == {e \in held[n] : Address(e) = m}

Recorded(n) == {m \in Node : stored[n][m] = "listed"}

Updated(n, m) ==  \* an update finds no record of a node that was deleted
  IF stored[n][m] = "absent" THEN stored ELSE [stored EXCEPT ![n][m] = "listed"]

(* setNodesOnline and setNodesOffline, for which no caller waits.          *)
SetState(n, m) ==
  IF "late" \in bound.kinds
  THEN updates' = updates \cup {<<n, m>>} /\ UNCHANGED stored
  ELSE stored' = Updated(n, m) /\ UNCHANGED updates

Listed(n, m) == m \in unl[n] /\ m # n

RefusedUnlisted(n, e) == ~Listed(n, Address(e))  \* mutant: replaces the one it holds

(* AuthConnectionsManager.pushConnection closes an end whose address is    *)
(* not listed or has a connection that is not closed.                      *)
Refused(n, e) ==
  \/ ~Listed(n, Address(e))
  \/ \E h \in HeldFor(n, Address(e)) : ~end[h].closed

PushLeavesOpen(n, e, s, x) ==  \* mutant: does not close what it refuses
  IF Refused(n, e)
  THEN /\ end' = [end EXCEPT ![e] = [s EXCEPT !.settled = TRUE]]
       /\ UNCHANGED <<held, records>>
  ELSE /\ end' = [end EXCEPT ![e] = [s EXCEPT !.settled = TRUE]]
       /\ held' = [held EXCEPT ![n] = @ \cup {e}]
       /\ SetState(n, Address(e))

Push(n, e, s, x) ==
  IF Refused(n, e)
  THEN /\ end' = [end EXCEPT ![e] = Shut([s EXCEPT !.settled = TRUE], x)]
       /\ UNCHANGED <<held, records>>
  ELSE /\ end' = [end EXCEPT ![e] = [s EXCEPT !.settled = TRUE]]
       /\ held' = [held EXCEPT ![n] = (@ \ HeldFor(n, Address(e))) \cup {e}]
       /\ SetState(n, Address(e))

(* The end that authorize waits for is settled once both trust. *)
Trust(e, s, x) ==
  IF Authorised(s) /\ ~s.settled
  THEN Push(Owner(e), e, s, x)
  ELSE /\ end' = [end EXCEPT ![e] = s]
       /\ UNCHANGED <<held, records>>

(* A promise that is settled is not settled again. *)
Failed(e, s, x) == IF s.settled THEN s ELSE Shut([s EXCEPT !.settled = TRUE], x)

(***************************************************************************)
(* Dialling: reconnectAll, every five seconds.                             *)
(***************************************************************************)
Fault(kind) == kind \in bound.kinds /\ faults < bound.faults /\ faults' = faults + 1

Free(c) == conn[c] = None

Authorising(n, m) ==
  \E c \in Conn : conn[c] = [client |-> n, server |-> m] /\ ~end[<<c, "client">>].settled

(* The next reconnectAll begins without waiting for the one before: when   *)
(* an authorization takes longer than the interval the node dials again.   *)
BeginDial(n, m) ==
  /\ Listed(n, m) /\ <<n, m>> \notin dialing
  /\ \A h \in HeldFor(n, m) : end[h].closed
  /\ IF Authorising(n, m) THEN Fault("slow") ELSE UNCHANGED faults
  /\ IF n = Persistent THEN UNCHANGED dials ELSE dials < bound.dials /\ dials' = dials + 1
  /\ dialing' = dialing \cup {<<n, m>>}
  /\ UNCHANGED <<conn, end, out, held, lists, broken, split, bound>>

(* createClient and the "connection" event of the server: both ends begin  *)
(* to authorize, which writes the request.                                 *)
Connect(n, m) ==
  /\ <<n, m>> \in dialing
  /\ \E c \in Conn : Free(c)
  /\ LET c == CHOOSE d \in Conn : Free(d)
         ends == {<<c, side>> : side \in Side}
     IN    /\ conn' = [conn EXCEPT ![c] = [client |-> n, server |-> m]]
           /\ end' = [e \in End |-> IF e \in ends THEN Opened ELSE end[e]]
           /\ out' = [e \in End |-> IF e \in ends THEN Written(Opened, Nothing, "request")
                                                  ELSE out[e]]
  /\ dialing' = dialing \ {<<n, m>>}
  /\ UNCHANGED <<held, lists, broken, split, faults, limits>>

(* The catch clause of reconnectAll, whatever is held by then. *)
DialFails(n, m) ==
  /\ <<n, m>> \in dialing
  /\ Fault("refusal")
  /\ dialing' = dialing \ {<<n, m>>}
  /\ SetState(n, m)
  /\ UNCHANGED <<conn, end, out, held, unl, broken, split, limits>>

(***************************************************************************)
(* Reading: Connection.parse.  getMessage reads nothing while fewer than   *)
(* four bytes wait, so that a message without data whose head came alone   *)
(* is read only when the next one has come.                                *)
(***************************************************************************)
Incoming(e) == out[Peer(e)].wire

Readable(e, m) ==
  /\ Incoming(e) # <<>> /\ Head(Incoming(e)) = m
  /\ ~end[e].closed
  /\ e \in split => Len(Incoming(e)) > 1

Read(e, x) ==  \* the message is gone, and x is e's stream after it
  /\ out' = [out EXCEPT ![Peer(e)].wire = Tail(@), ![e] = x]
  /\ split' = split \ {e}
  /\ UNCHANGED <<conn, unl, dialing, broken, limits>>

OnRequest(e) ==
  /\ Readable(e, "request")
  /\ Read(e, Written(end[e], out[e], "response"))
  /\ UNCHANGED <<end, held, records, faults>>

OnResponse(e) ==
  /\ Readable(e, "response")
  /\ LET s == [end[e] EXCEPT !.trusts = TRUE]
         x == Written(s, out[e], "success")
     IN  Read(e, x) /\ Trust(e, s, x)
  /\ UNCHANGED faults

(* A fault: the signature does not verify. *)
OnWrongResponse(e) ==
  /\ Readable(e, "response")
  /\ Fault("signature")
  /\ LET x == Written(end[e], out[e], "failed")
     IN  Read(e, x) /\ end' = [end EXCEPT ![e] = Failed(e, end[e], x)]
  /\ UNCHANGED <<held, records>>

OnSuccess(e) ==
  /\ Readable(e, "success")
  /\ Read(e, out[e])
  /\ Trust(e, [end[e] EXCEPT !.trusted = TRUE], out[e])
  /\ UNCHANGED faults

OnFailed(e) ==
  /\ Readable(e, "failed")
  /\ Read(e, out[e])
  /\ end' = [end EXCEPT ![e] = Failed(e, end[e], out[e])]
  /\ UNCHANGED <<held, records, faults>>

(* Dispatched when the end is authorised, and dropped when it is not. *)
OnData(e) ==
  /\ Readable(e, "data")
  /\ Read(e, out[e])
  /\ UNCHANGED <<end, held, records, faults>>

Receive(e) ==
  \/ OnRequest(e) \/ OnResponse(e) \/ OnWrongResponse(e)
  \/ OnSuccess(e) \/ OnFailed(e) \/ OnData(e)

(* A fault: a chunk ends between the head and the rest of a short message. *)
Split(e) ==
  /\ \E m \in {"success", "failed", "data"} : Readable(e, m)
  /\ Len(Incoming(e)) = 1 /\ e \notin split
  /\ Fault("split")
  /\ split' = split \cup {e}
  /\ UNCHANGED <<conn, end, out, held, lists, dialing, broken, limits>>

(***************************************************************************)
(* Writing and closing.                                                    *)
(***************************************************************************)
(* Send and sendAll of P2p, the heart beat among them. *)
Send(e) ==
  /\ \E n \in Node : e \in held[n]
  /\ ~end[e].stop
  /\ \A i \in DOMAIN out[e].wire : out[e].wire[i] # "data"
  /\ out[e].buffer = <<>>
  /\ out' = [out EXCEPT ![e] = Written(end[e], @, "data")]
  /\ UNCHANGED <<conn, end, held, lists, dialing, broken, split, faults, limits>>

Drain(e) ==
  /\ out[e].full /\ Len(out[e].wire) < Cap /\ ~end[e].closed
  /\ LET x == [out[e] EXCEPT !.full = FALSE]
     IN  out' = [out EXCEPT ![e] = IF end[e].finished THEN x ELSE Flushed(x)]
  /\ UNCHANGED <<conn, end, held, lists, dialing, broken, split, faults, limits>>

(* The loop of close finds everything flushed. *)
Finish(e) ==
  /\ end[e].stop /\ ~end[e].finished /\ ~out[e].full
  /\ end' = [end EXCEPT ![e].finished = TRUE]
  /\ UNCHANGED <<conn, out, held, lists, dialing, broken, split, faults, limits>>

(* A fault: it takes longer than END_CLEAR_SEND_BUFFER_TIME_DEAY, and what *)
(* has not been written is lost.                                           *)
FinishLate(e) ==
  /\ end[e].stop /\ ~end[e].finished /\ out[e].full
  /\ Fault("stalled")
  /\ end' = [end EXCEPT ![e].finished = TRUE]
  /\ out' = [out EXCEPT ![e].buffer = <<>>]
  /\ UNCHANGED <<conn, held, lists, dialing, broken, split, limits>>

(* The "end" event closes the own half. *)
Ended(e) == Shut([end[e] EXCEPT !.ended = TRUE], out[e])

OnEnd(e) ==
  /\ end[Peer(e)].finished /\ ~end[e].ended /\ e[1] \notin broken
  /\ \/ Incoming(e) = <<>>
     \/ e \in split /\ Len(Incoming(e)) = 1
  /\ end' = [end EXCEPT ![e] = Ended(e)]
  /\ out' = [out EXCEPT ![Peer(e)].wire = <<>>]
  /\ split' = split \ {e}
  /\ UNCHANGED <<conn, held, lists, dialing, broken, faults, limits>>

RemovedNone(n, e) == UNCHANGED <<held, records>>  \* mutant: the manager does not listen

RemovedUnlisted(n, e) ==  \* mutant: does not look the address up in the list
  /\ held' = [held EXCEPT ![n] = @ \ {e}]
  /\ IF e \in held[n] THEN SetState(n, Address(e)) ELSE UNCHANGED records

(* The listener pushConnection adds to "connectionClosed". *)
Removed(n, e) ==
  /\ held' = [held EXCEPT ![n] = @ \ {e}]
  /\ IF e \in held[n] /\ Listed(n, Address(e))
     THEN SetState(n, Address(e))
     ELSE UNCHANGED records

(* The "close" event; a connection closed at both ends is not used again,  *)
(* but its identifier is.                                                  *)
OnClose(e) ==
  /\ ~end[e].closed
  /\ e[1] \in broken \/ (end[e].finished /\ end[e].ended)
  /\ Removed(Owner(e), e)
  /\ end' = [end EXCEPT ![e] = Closed]
  /\ IF end[Peer(e)].closed
     THEN /\ conn' = [conn EXCEPT ![e[1]] = None]
          /\ out' = [out EXCEPT ![e] = Nothing, ![Peer(e)] = Nothing]
          /\ broken' = broken \ {e[1]}
          /\ split' = split \ {e, Peer(e)}
     ELSE UNCHANGED <<conn, out, broken, split>>
  /\ UNCHANGED <<unl, dialing, faults, limits>>

(* A fault: the other end takes longer than AUTHORIZE_DELAY_TIME. *)
AuthorizeTimeout(e) ==
  /\ ~end[e].settled
  /\ Fault("timeout")
  /\ end' = [end EXCEPT ![e] = Failed(e, @, out[e])]
  /\ UNCHANGED <<conn, out, held, lists, dialing, broken, split, limits>>

(* A fault: nothing comes for HEART_BEAT_TIME. *)
IdleTimeout(e) ==
  /\ end[e].settled /\ ~end[e].stop
  /\ Fault("idle")
  /\ end' = [end EXCEPT ![e] = Shut(@, out[e])]
  /\ UNCHANGED <<conn, out, held, lists, dialing, broken, split, limits>>

(* A fault: the network resets a connection; each end sees it when it does. *)
Break(c) ==
  /\ ~Free(c) /\ c \notin broken
  /\ Fault("reset")
  /\ broken' = broken \cup {c}
  /\ UNCHANGED <<conn, end, out, held, lists, dialing, split, limits>>

(***************************************************************************)
(* The list of nodes: changed in the database, and read from there before  *)
(* a round.                                                                *)
(***************************************************************************)
(* What the commands addNodes, updateNodes and deleteNodes, of an operator, *)
(* do to a record.  Those that take a node from the list are faults.       *)
AddNode(n, m) ==
  /\ m # n /\ stored[n][m] = "absent"
  /\ stored' = [stored EXCEPT ![n][m] = "listed"]
  /\ UNCHANGED <<conn, end, out, held, unl, updates, dialing, broken, split, faults, limits>>

DeleteNode(n, m) ==
  /\ m # n /\ stored[n][m] # "absent"
  /\ Fault("delete")
  /\ stored' = [stored EXCEPT ![n][m] = "absent"]
  /\ UNCHANGED <<conn, end, out, held, unl, updates, dialing, broken, split, limits>>

Exclude(n, m) ==
  /\ stored[n][m] = "listed"
  /\ Fault("exclude")
  /\ stored' = [stored EXCEPT ![n][m] = "excluded"]
  /\ UNCHANGED <<conn, end, out, held, unl, updates, dialing, broken, split, limits>>

Readmit(n, m) ==
  /\ stored[n][m] = "excluded"
  /\ stored' = [stored EXCEPT ![n][m] = "listed"]
  /\ UNCHANGED <<conn, end, out, held, unl, updates, dialing, broken, split, faults, limits>>

(* One of the updates under way of a record reaches the database, or fails: *)
(* it may have been the last one.                                          *)
SettleUpdate(n, m) ==
  /\ <<n, m>> \in updates
  /\ updates' \in {updates, updates \ {<<n, m>>}}
  /\ stored' \in {stored, Updated(n, m)}
  /\ UNCHANGED <<conn, end, out, held, unl, dialing, broken, split, faults, limits>>

FlushUnlToMemory(n) ==
  /\ unl' = [unl EXCEPT ![n] = Recorded(n)]
  /\ unl' # unl
  /\ UNCHANGED <<conn, end, out, held, records, dialing, broken, split, faults, limits>>

ToClearNone(n) == {}  \* mutant: an empty clearConnections

ToClear(n) == {e \in held[n] : ~Listed(n, Address(e)) /\ ~end[e].stop}

ClearConnections(n) ==
  /\ ToClear(n) # {}
  /\ end' = [e \in End |-> IF e \in ToClear(n) THEN Shut(end[e], out[e]) ELSE end[e]]
  /\ UNCHANGED <<conn, out, held, lists, dialing, broken, split, faults, limits>>

OpenEnds(n) == {e \in End : Owner(e) = n /\ ~end[e].closed}

(* Connections that are forgotten when n exits. *)
LastOf(n) ==
  {c \in Conn : \A side \in Side : end[<<c, side>>].closed \/ Owner(<<c, side>>) = n}

(* A fault: gentlyExitProcess, and the node is started again.  closeAll    *)
(* begins to close the connections, and the process exits before that is   *)
(* done or any record is written.  The list is read from the database, of  *)
(* which nothing is reset, and what was being written there may arrive.    *)
Restart(n) ==
  /\ Fault("restart")
  /\ end' = [e \in End |-> IF e \in OpenEnds(n) THEN Closed ELSE end[e]]
  /\ conn' = [c \in Conn |-> IF c \in LastOf(n) THEN None ELSE conn[c]]
  /\ out' = [e \in End |-> IF e[1] \in LastOf(n) THEN Nothing ELSE out[e]]
  /\ broken' = (broken \cup {e[1] : e \in OpenEnds(n)}) \ LastOf(n)
  /\ split' = {e \in split : e[1] \notin LastOf(n)}
  /\ held' = [held EXCEPT ![n] = {}]
  /\ unl' = [unl EXCEPT ![n] = Recorded(n)]
  /\ dialing' = {d \in dialing : d[1] # n}
  /\ UNCHANGED <<records, limits>>

(***************************************************************************)
(* The network begins with its nodes started, whatever is in the records:  *)
(* init dials as reconnectAll.                                             *)
(***************************************************************************)
Init ==
  /\ conn = [c \in Conn |-> None]
  /\ end = [e \in End |-> Closed]
  /\ out = [e \in End |-> Nothing]
  /\ held = [n \in Node |-> {}]
  /\ bound \in Bounds
  /\ stored \in bound.records
  /\ unl = [n \in Node |-> Recorded(n)]
  /\ updates = {}
  /\ dialing = {}
  /\ broken = {}
  /\ split = {}
  /\ faults = 0
  /\ dials = 0

Next ==
  \/ \E n, m \in Node :
       \/ BeginDial(n, m) \/ Connect(n, m) \/ DialFails(n, m) \/ SettleUpdate(n, m)
       \/ AddNode(n, m) \/ DeleteNode(n, m) \/ Exclude(n, m) \/ Readmit(n, m)
  \/ \E n \in Node : FlushUnlToMemory(n) \/ ClearConnections(n) \/ Restart(n)
  \/ \E e \in End :
       \/ Receive(e) \/ Split(e) \/ Send(e) \/ Drain(e)
       \/ Finish(e) \/ FinishLate(e) \/ OnEnd(e) \/ OnClose(e)
       \/ AuthorizeTimeout(e) \/ IdleTimeout(e)
  \/ \E c \in Conn : Break(c)

(* Sockets deliver what is written and take what is buffered, their events *)
(* are handled, and the timers go on; nothing is assumed of dials that are *)
(* counted and of faults.                                                  *)
Fairness ==
  /\ \A e \in End :
       /\ WF_vars(OnRequest(e) \/ OnResponse(e) \/ OnSuccess(e) \/ OnFailed(e) \/ OnData(e))
       /\ WF_vars(Send(e) \/ Drain(e))
       /\ WF_vars(Finish(e) \/ OnEnd(e) \/ OnClose(e))
  /\ \A n \in Node : WF_vars(FlushUnlToMemory(n) \/ ClearConnections(n))
  /\ \A m \in Node \ {Persistent} : WF_vars(BeginDial(Persistent, m))
  /\ \A n \in Node : \A m \in Node \ {n} : WF_vars(Connect(n, m))

Spec == Init /\ [][Next]_vars /\ Fairness

(***************************************************************************)
(* Properties.                                                             *)
(***************************************************************************)
Flags == {"stop", "finished", "ended", "closed", "trusts", "trusted", "settled"}

Streams(n) == UNION {[1 .. k -> Message] : k \in 0 .. n}

(* Every variable has its type, only a full socket leaves anything in the  *)
(* buffer, and a connection that is closed at both ends is forgotten.      *)
TypeOK ==
  /\ conn \in [Conn -> [client : Node, server : Node] \cup {None}]
  /\ end \in [End -> [Flags -> BOOLEAN]]
  /\ \A e \in End :
       /\ out[e].buffer \in Streams(4) /\ out[e].wire \in Streams(Cap + 1)
       /\ out[e].full \in BOOLEAN /\ (out[e].buffer # <<>> => out[e].full)
       /\ Free(e[1]) => end[e].closed /\ out[e] = Nothing
       /\ ~Free(e[1]) => ~end[e].closed \/ ~end[Peer(e)].closed
  /\ held \in [Node -> SUBSET End]
  /\ \A n \in Node : \A e \in held[n] : ~Free(e[1]) /\ Owner(e) = n
  /\ unl \in [Node -> SUBSET Node]
  /\ stored \in Records
  /\ dialing \subseteq Node \X Node /\ updates \subseteq Node \X Node
  /\ broken \subseteq Conn /\ split \subseteq End
  /\ bound \in Bounds
  /\ faults \in 0 .. bound.faults /\ dials \in 0 .. bound.dials

(* Connection.parse drops data that comes to an end that is not authorised *)
(* yet.  A node may write data as soon as itself is authorised: that never *)
(* reaches an end that would drop it, whatever times out on the way.       *)
NothingDropped == \A e \in End : Readable(e, "data") => Authorised(end[e])

(* The manager holds at most one connection for an address, and none that  *)
(* is closed: get finds one to write to, or reconnectAll dials again.      *)
HeldOnce ==
  \A n \in Node : \A e \in held[n] :
    ~end[e].closed /\ \A f \in held[n] : Address(f) = Address(e) => f = e

(* The record keeps m out, and nothing is left of the time it was listed. *)
KeptOut(n, m) ==
  /\ stored[n][m] = "excluded" /\ ~Listed(n, m)
  /\ <<n, m>> \notin dialing /\ <<n, m>> \notin updates

(* The state of a record is overwritten by every connection that is pushed *)
(* or closed and every dial that fails, state 2 too.  Once a node has read *)
(* that another is excluded, none of these comes any more, and it is out   *)
(* until an operator wants it back: the connection it may still have does  *)
(* not list it again when it closes.                                       *)
ExclusionLasts ==
  [][\A n, m \in Node :
       KeptOut(n, m) => KeptOut(n, m)' \/ Readmit(n, m) \/ DeleteNode(n, m)]_vars

(* Both nodes hold the connection and may write to it. *)
Established(c) ==
  /\ ~Free(c) /\ c \notin broken
  /\ \A side \in Side : LET e == <<c, side>> IN e \in held[Owner(e)] /\ ~end[e].stop

Unlisting(c) == \E side \in Side : LET e == <<c, side>> IN ~Listed(Owner(e), Address(e))

(* A connection both nodes hold ends by a fault or because one of them no  *)
(* longer lists the other, never because of another connection: the nodes  *)
(* never exchange a working connection for a new one.                      *)
EstablishedLasts ==
  [][\A c \in Conn :
       Established(c) /\ ~Established(c)' => faults' # faults \/ Unlisting(c)]_vars

Connected(n, m) ==
  \E c \in Conn : Established(c) /\ {conn[c].client, conn[c].server} = {n, m}

(* Once the other nodes dial no more, two nodes that list each other end   *)
(* up with a connection both hold and keep it, whatever closed by itself,  *)
(* timed out or was dialled twice before.                                  *)
EventuallyConnected ==
  \A m \in Node \ {Persistent} :
    <>[](Listed(Persistent, m) /\ Listed(m, Persistent) => Connected(Persistent, m))

(* A node no longer listed is not held for long. *)
RemovedNodesLeave ==
  \A n \in Node : \A m \in Node \ {n} :
    ~Listed(n, m) ~> (Listed(n, m) \/ HeldFor(n, m) = {})
=============================================================================
