---------------------------- MODULE Network_proofs ----------------------------
(***************************************************************************)
(* Proofs about the connections of any nodes, with any capacity of the     *)
(* sockets and any bounds on faults: data never reaches an end that drops  *)
(* it, a manager holds one connection for an address, a connection both    *)
(* nodes hold is not given up, a node that is excluded stays out, and      *)
(* every variable keeps its type, with few messages waiting at any time.   *)
(***************************************************************************)
EXTENDS Network, SequenceTheorems, TLAPS

(***************************************************************************)
(* Streams.  What an end has written and the other has not read is one     *)
(* sequence, wherever its parts wait.                                      *)
(***************************************************************************)
OutState == [buffer : Seq(Message), wire : Seq(Message), full : BOOLEAN]

EndState ==
  [stop : BOOLEAN, finished : BOOLEAN, ended : BOOLEAN, closed : BOOLEAN,
   trusts : BOOLEAN, trusted : BOOLEAN, settled : BOOLEAN]

Stream(x) == x.wire \o x.buffer

(* Only a full socket leaves anything in the buffer. *)
Pumped(x) == x.buffer # <<>> => x.full

(* A sequence cut in two is the sequence when put together. *)
LEMMA CutStream ==
  ASSUME NEW s \in Seq(Message), NEW k \in 0 .. Len(s)
  PROVE  /\ SubSeq(s, 1, k) \in Seq(Message)
         /\ SubSeq(s, k + 1, Len(s)) \in Seq(Message)
         /\ SubSeq(s, 1, k) \o SubSeq(s, k + 1, Len(s)) = s
         /\ k = Len(s) => SubSeq(s, k + 1, Len(s)) = <<>>
<1>1. Len(s) \in Nat /\ \A i \in 1 .. Len(s) : s[i] \in Message
  BY LenProperties, ElementOfSeq
<1>2. SubSeq(s, 1, k) \in Seq(Message)
  BY <1>1, SubSeqProperties
<1>3. SubSeq(s, k + 1, Len(s)) \in Seq(Message)
  BY <1>1, SubSeqProperties
<1>4. SubSeq(s, 1, k) \o SubSeq(s, k + 1, Len(s)) = SubSeq(s, 1, Len(s))
  <2>1. 1 \in 1 .. Len(s) + 1 /\ k \in 1 - 1 .. Len(s) /\ Len(s) \in k .. Len(s)
    BY <1>1
  <2> QED
    BY <2>1, ConcatAdjacentSubSeq
<1>5. SubSeq(s, 1, Len(s)) = s
  BY SubSeqFull
<1>6. k = Len(s) => SubSeq(s, k + 1, Len(s)) = <<>>
  BY <1>1, SubSeqEmpty
<1> QED
  BY <1>2, <1>3, <1>4, <1>5, <1>6

(* A flush moves messages and changes neither them nor their order. *)
LEMMA FlushedStream ==
  ASSUME NetworkAssumption, NEW x \in OutState
  PROVE  /\ Flushed(x) \in OutState
         /\ Stream(Flushed(x)) = Stream(x)
         /\ Pumped(Flushed(x))
<1>1. CASE x.full \/ x.buffer = <<>>
  BY <1>1 DEF Flushed, Pumped
<1>2. CASE ~(x.full \/ x.buffer = <<>>)
  <2>1. PICK w, b : w = x.wire /\ b = x.buffer
    OBVIOUS
  <2>2. w \in Seq(Message) /\ b \in Seq(Message)
    BY <2>1 DEF OutState
  <2>3. Cap \in Nat /\ Len(w) \in Nat /\ Len(b) \in Nat
    BY <2>2, LenProperties DEF NetworkAssumption
  <2>4. PICK room \in Nat : room = IF Len(w) < Cap THEN Cap - Len(w) ELSE 1
    <3>1. PICK l \in Nat, c \in Nat : l = Len(w) /\ c = Cap
      BY <2>3
    <3>2. (IF l < c THEN c - l ELSE 1) \in Nat
      OBVIOUS
    <3> QED
      BY <3>1, <3>2
  <2>5. PICK k \in Nat : k = IF Len(b) < room THEN Len(b) ELSE room
    BY <2>3
  <2>6. k \in 0 .. Len(b) /\ (k # Len(b) => Len(w) + k >= Cap)
    BY <2>3, <2>4, <2>5
  <2>7. PICK moved, left : moved = SubSeq(b, 1, k) /\ left = SubSeq(b, k + 1, Len(b))
    OBVIOUS
  <2>8. PICK f \in BOOLEAN : f <=> Len(w) + k >= Cap
    BY <2>3, Zenon
  <2>a. Flushed(x) = [buffer |-> left, wire |-> w \o moved, full |-> f]
    <3>1. (Len(w) + k >= Cap) \in BOOLEAN
      BY <2>3
    <3>2. (Len(w) + k >= Cap) = f
      BY <2>8, <3>1, Zenon
    <3>3. Flushed(x) = [buffer |-> left, wire |-> w \o moved, full |-> Len(w) + k >= Cap]
      BY <1>2, <2>1, <2>4, <2>5, <2>7 DEF Flushed
    <3> QED
      BY <3>2, <3>3, Zenon
  <2>b. Flushed(x).buffer = left /\ Flushed(x).wire = w \o moved /\ Flushed(x).full = f
    BY <2>a
  <2>9. /\ moved \in Seq(Message) /\ left \in Seq(Message)
        /\ moved \o left = b /\ (k = Len(b) => left = <<>>)
    BY <2>2, <2>6, <2>7, CutStream
  <2>10. w \o moved \in Seq(Message) /\ (w \o moved) \o left = w \o b
    <3>1. w \o moved \in Seq(Message)
      BY <2>2, <2>9, ConcatProperties
    <3>2. w \in Seq(Message) /\ moved \in Seq(Message) /\ left \in Seq(Message)
      BY <2>2, <2>9
    <3>3. (w \o moved) \o left = w \o (moved \o left)
      BY ONLY <3>2, ConcatAssociative
    <3> QED
      BY <2>9, <3>1, <3>3
  <2>11. Flushed(x) \in OutState
    BY <2>a, <2>9, <2>10 DEF OutState
  <2>12. Stream(Flushed(x)) = Stream(x)
    BY <2>1, <2>b, <2>10 DEF Stream
  <2>13. Pumped(Flushed(x))
    BY <2>b, <2>6, <2>8, <2>9 DEF Pumped
  <2> QED
    BY <2>11, <2>12, <2>13
<1> QED
  BY <1>1, <1>2

(* Writing appends a message, unless the end has been told to stop. *)
LEMMA WrittenStream ==
  ASSUME NetworkAssumption, NEW s \in EndState, NEW x \in OutState, NEW m \in Message
  PROVE  /\ Written(s, x, m) \in OutState
         /\ Stream(Written(s, x, m)) = IF s.stop THEN Stream(x) ELSE Append(Stream(x), m)
         /\ s.stop => Written(s, x, m) = x
         /\ Pumped(x) => Pumped(Written(s, x, m))
<1>1. CASE s.stop
  BY <1>1 DEF Written
<1>2. CASE ~s.stop
  <2> DEFINE y == [x EXCEPT !.buffer = Append(@, m)]
  <2>1. x.wire \in Seq(Message) /\ x.buffer \in Seq(Message)
    BY DEF OutState
  <2>2. Append(x.buffer, m) \in Seq(Message)
    BY <2>1
  <2>3. y \in OutState /\ y.wire = x.wire /\ y.buffer = Append(x.buffer, m)
    BY <2>2 DEF OutState
  <2>4. x.wire \o Append(x.buffer, m) = Append(x.wire \o x.buffer, m)
    <3>1. PICK w, b : w = x.wire /\ b = x.buffer
      OBVIOUS
    <3>2. w \in Seq(Message) /\ b \in Seq(Message) /\ w \o b \in Seq(Message)
      BY <2>1, <3>1, ConcatProperties
    <3>3. Append(b, m) = b \o <<m>> /\ Append(w \o b, m) = (w \o b) \o <<m>>
      BY <3>2, AppendIsConcat
    <3>4. <<m>> \in Seq(Message)
      OBVIOUS
    <3>5. w \o (b \o <<m>>) = (w \o b) \o <<m>>
      BY <3>2, <3>4, ConcatAssociative
    <3> QED
      BY <3>1, <3>3, <3>5
  <2>5. Written(s, x, m) = Flushed(y)
    BY <1>2 DEF Written
  <2> HIDE DEF y
  <2>6. Stream(y) = Append(Stream(x), m)
    BY <2>3, <2>4 DEF Stream
  <2> QED
    BY <1>2, <2>3, <2>5, <2>6, FlushedStream
<1> QED
  BY <1>1, <1>2

(***************************************************************************)
(* The invariant.                                                          *)
(***************************************************************************)
Has(s, m) == \E i \in 1 .. Len(s) : s[i] = m

(* Data in a stream s is for a reader that trusts the writer and has read, *)
(* or will read before the data, that it is trusted.                       *)
Carries(s, r) ==
  \A i \in 1 .. Len(s) :
    s[i] = "data" => r.trusts /\ (r.trusted \/ \E j \in 1 .. i - 1 : s[j] = "success")

(* What the flags of a writer w, its stream s and the flags of the reader  *)
(* r say of each other.                                                    *)
Sound(w, s, r) ==
  /\ ~r.closed => /\ w.trusted => r.trusts
                  /\ Carries(s, r)
                  /\ w.trusts /\ ~w.stop => r.trusted \/ Has(s, "success")
  /\ ~w.closed /\ Has(s, "success") => w.trusts

NetTypes ==
  /\ conn = [c \in Conn |-> conn[c]]
  /\ end \in [End -> EndState]
  /\ out \in [End -> OutState]
  /\ held \in [Node -> SUBSET End]
  /\ \A d \in dialing : d[1] # d[2]

(* An end that has finished left nothing to write, unless it was reset. *)
FinishInv ==
  \A e \in End :
    /\ Pumped(out[e])
    /\ end[e].finished =>
         end[e].stop /\ (out[e].buffer = <<>> \/ (end[e].closed /\ e[1] \in broken))

FreeInv == \A e \in End : Free(e[1]) => end[e].closed

HeldInv ==
  \A n \in Node : \A e \in held[n] :
    /\ ~end[e].closed /\ Owner(e) = n
    /\ end[e].settled /\ Authorised(end[e])
    /\ \A f \in held[n] : Address(f) = Address(e) => f = e

TrustInv == \A e \in End : Sound(end[e], Stream(out[e]), end[Peer(e)])

NetInv == NetTypes /\ FinishInv /\ FreeInv /\ HeldInv /\ TrustInv

(***************************************************************************)
(* Steps of a stream.                                                      *)
(***************************************************************************)
LEMMA AppendStep ==
  ASSUME NEW s \in Seq(Message), NEW m \in Message
  PROVE  /\ \A k : Has(Append(s, m), k) <=> Has(s, k) \/ k = m
         /\ \A r : Carries(s, r)
                   /\ (m = "data" => r.trusts /\ (r.trusted \/ Has(s, "success")))
                     => Carries(Append(s, m), r)
<1>1. PICK n \in Nat : n = Len(s)
  BY LenProperties
<1>2. /\ Len(Append(s, m)) = n + 1
      /\ Append(s, m)[n + 1] = m
      /\ \A i \in 1 .. n : Append(s, m)[i] = s[i]
  BY <1>1, AppendProperties
<1>3. PICK t : t = Append(s, m)
  OBVIOUS
<1>4. \A k : Has(t, k) <=> Has(s, k) \/ k = m
  <2>1. 1 .. n + 1 = (1 .. n) \cup {n + 1}
    BY <1>1
  <2> QED
    BY <1>1, <1>2, <1>3, <2>1 DEF Has
<1>5. ASSUME NEW r, Carries(s, r),
             m = "data" => r.trusts /\ (r.trusted \/ Has(s, "success"))
      PROVE  Carries(t, r)
  <2> SUFFICES ASSUME NEW i \in 1 .. n + 1, t[i] = "data"
               PROVE  r.trusts /\ (r.trusted \/ \E j \in 1 .. i - 1 : t[j] = "success")
    BY <1>2, <1>3 DEF Carries
  <2>1. CASE i \in 1 .. n
    <3>1. s[i] = "data"
      BY <1>2, <1>3, <2>1
    <3>2. r.trusts /\ (r.trusted \/ \E j \in 1 .. i - 1 : s[j] = "success")
      BY <1>1, <1>5, <2>1, <3>1 DEF Carries
    <3>3. \A j \in 1 .. i - 1 : t[j] = s[j]
      BY <1>1, <1>2, <1>3, <2>1
    <3> QED
      BY <3>2, <3>3
  <2>2. CASE i = n + 1
    <3>1. r.trusts /\ (r.trusted \/ \E j \in 1 .. n : s[j] = "success")
      BY <1>1, <1>2, <1>3, <1>5, <2>2 DEF Has
    <3>2. 1 .. i - 1 = 1 .. n
      BY <1>1, <2>2
    <3> QED
      BY <1>2, <1>3, <3>1, <3>2
  <2> QED
    BY <1>1, <2>1, <2>2
<1> QED
  BY <1>3, <1>4, <1>5

(* Taking the first element of a sequence. *)
LEMMA TailStep ==
  ASSUME NEW s \in Seq(Message), s # <<>>, NEW r, NEW q, Carries(s, r),
         r.trusts => q.trusts, r.trusted \/ Head(s) = "success" => q.trusted
  PROVE  /\ Carries(Tail(s), q)
         /\ \A k : Has(Tail(s), k) => Has(s, k)
         /\ \A k : Has(s, k) => Head(s) = k \/ Has(Tail(s), k)
<1>1. PICK n \in Nat : n = Len(s)
  BY LenProperties
<1>2. PICK t : t = Tail(s)
  OBVIOUS
<1>3. n > 0 /\ Head(s) = s[1]
  BY <1>1, EmptySeq
<1>4. Len(t) = n - 1 /\ \A i \in 1 .. n - 1 : t[i] = s[i + 1]
  BY <1>1, <1>2, HeadTailProperties
<1>5. Carries(t, q)
  <2> SUFFICES ASSUME NEW i \in 1 .. n - 1, t[i] = "data"
               PROVE  q.trusts /\ (q.trusted \/ \E j \in 1 .. i - 1 : t[j] = "success")
    BY <1>4 DEF Carries
  <2>1. i \in Nat /\ i + 1 \in 1 .. n /\ s[i + 1] = "data"
    BY <1>1, <1>4
  <2>2. r.trusts /\ (r.trusted \/ \E j \in 1 .. (i + 1) - 1 : s[j] = "success")
    BY <1>1, <2>1 DEF Carries
  <2>3. ASSUME NEW j \in 1 .. (i + 1) - 1, s[j] = "success"
        PROVE  q.trusted \/ \E k \in 1 .. i - 1 : t[k] = "success"
    <3>1. CASE j = 1
      BY <1>3, <2>3, <3>1
    <3>2. CASE j # 1
      <4>1. j - 1 \in 1 .. i - 1 /\ j - 1 \in 1 .. n - 1 /\ (j - 1) + 1 = j
        BY <1>1, <2>1, <3>2
      <4> QED
        BY <1>4, <2>3, <4>1
    <3> QED
      BY <3>1, <3>2
  <2> QED
    BY <2>2, <2>3
<1>6. ASSUME NEW k, Has(t, k) PROVE Has(s, k)
  <2>1. PICK i \in 1 .. n - 1 : t[i] = k
    BY <1>4, <1>6 DEF Has
  <2>2. i + 1 \in 1 .. n /\ s[i + 1] = k
    BY <1>1, <1>4, <2>1
  <2> QED
    BY <1>1, <2>2 DEF Has
<1>7. ASSUME NEW k, Has(s, k) PROVE Head(s) = k \/ Has(t, k)
  <2>1. PICK i \in 1 .. n : s[i] = k
    BY <1>1, <1>7 DEF Has
  <2>2. CASE i = 1
    BY <1>3, <2>1, <2>2
  <2>3. CASE i # 1
    <3>1. i - 1 \in 1 .. n - 1 /\ (i - 1) + 1 = i
      BY <1>1, <2>3
    <3>2. t[i - 1] = k
      BY <1>4, <2>1, <3>1
    <3> QED
      BY <1>4, <3>1, <3>2 DEF Has
  <2> QED
    BY <2>2, <2>3
<1> QED
  BY <1>2, <1>5, <1>6, <1>7

(* Whatever is lost at the end of a stream. *)
LEMMA PrefixStep ==
  ASSUME NEW s \in Seq(Message), NEW t \in Seq(Message), NEW r, Carries(s \o t, r)
  PROVE  Carries(s, r) /\ \A k : Has(s, k) => Has(s \o t, k)
<1>1. PICK n \in Nat, m \in Nat : n = Len(s) /\ m = Len(t)
  BY LenProperties
<1>2. PICK u : u = s \o t
  OBVIOUS
<1>3. Len(u) = n + m /\ \A i \in 1 .. n : u[i] = s[i]
  BY <1>1, <1>2, ConcatProperties
<1>4. \A i \in 1 .. n : i \in 1 .. n + m
  BY <1>1
<1>5. Carries(s, r)
  <2> SUFFICES ASSUME NEW i \in 1 .. n, s[i] = "data"
               PROVE  r.trusts /\ (r.trusted \/ \E j \in 1 .. i - 1 : s[j] = "success")
    BY <1>1 DEF Carries
  <2>1. r.trusts /\ (r.trusted \/ \E j \in 1 .. i - 1 : u[j] = "success")
    BY <1>2, <1>3, <1>4 DEF Carries
  <2>2. \A j \in 1 .. i - 1 : j \in 1 .. n
    BY <1>1
  <2> QED
    BY <1>3, <2>1, <2>2
<1>6. \A k : Has(s, k) => Has(u, k)
  BY <1>1, <1>3, <1>4 DEF Has
<1> QED
  BY <1>2, <1>5, <1>6

(* The beginning of what waits on a wire is the beginning of the stream. *)
LEMMA WireRead ==
  ASSUME NEW x \in OutState, x.wire # <<>>
  PROVE  /\ [x EXCEPT !.wire = Tail(@)] \in OutState
         /\ Stream(x) \in Seq(Message) /\ Stream(x) # <<>>
         /\ Head(Stream(x)) = Head(x.wire)
         /\ Stream([x EXCEPT !.wire = Tail(@)]) = Tail(Stream(x))
         /\ Pumped(x) => Pumped([x EXCEPT !.wire = Tail(@)])
<1>1. PICK w, b : w = x.wire /\ b = x.buffer
  OBVIOUS
<1>2. w \in Seq(Message) /\ b \in Seq(Message) /\ w # <<>>
  BY <1>1 DEF OutState
<1>3. Tail(w) \in Seq(Message)
  BY <1>2, HeadTailProperties
<1>4. PICK y : y = [x EXCEPT !.wire = Tail(@)]
  OBVIOUS
<1>5. y.wire = Tail(w) /\ y.buffer = b /\ y.full = x.full /\ y \in OutState
  BY <1>1, <1>3, <1>4 DEF OutState
<1>6. w \o b \in Seq(Message) /\ w \o b # <<>> /\ Head(w \o b) = Head(w)
        /\ Tail(w \o b) = Tail(w) \o b
  BY <1>2, ConcatSimplifications, ConcatProperties
<1> QED
  BY <1>1, <1>4, <1>5, <1>6 DEF Stream, Pumped

(* What is written to an open stream has its type. *)
LEMMA StreamType ==
  ASSUME NEW x \in OutState
  PROVE  Stream(x) \in Seq(Message)
BY ConcatProperties DEF Stream, OutState

(***************************************************************************)
(* Ends.                                                                   *)
(***************************************************************************)
LEMMA PeerFacts ==
  ASSUME NEW e \in End
  PROVE  /\ Peer(e) \in End /\ Peer(e) # e
         /\ Peer(e)[1] = e[1] /\ Peer(Peer(e)) = e
         /\ \A f \in End : f[1] = e[1] => f = e \/ f = Peer(e)
         /\ \A f \in End : Peer(f) = e => f = Peer(e)
         /\ \A f \in End : Peer(f) = Peer(e) => f = e
BY DEF End, Side, Peer, Other

(* What a step may do to the flags of an end that does not close.          *)
Grown(s, t) ==
  /\ t \in EndState /\ t.closed = s.closed
  /\ s.trusts => t.trusts
  /\ s.trusted => t.trusted
  /\ s.stop => t.stop
  /\ s.settled => t.settled

(* ... and the same without anything about trust. *)
Calm(s, t) == Grown(s, t) /\ t.trusts = s.trusts /\ t.trusted = s.trusted

(* The ways to shut an end change nothing about trust. *)
LEMMA ShutStep ==
  ASSUME NEW s \in EndState, NEW x \in OutState
  PROVE  /\ Calm(s, Shut(s, x))
         /\ Calm(s, Shut([s EXCEPT !.settled = TRUE], x))
         /\ Calm(s, Shut([s EXCEPT !.ended = TRUE], x))
         /\ Calm(s, Failed(s, s, x))
BY DEF EndState, OutState, Shut, Failed, Calm, Grown

(***************************************************************************)
(* Trust: the step lemmas for two ends and their streams.                  *)
(***************************************************************************)
LEMMA SoundCalm ==
  ASSUME NEW w, NEW s, NEW r, NEW v, NEW q, Sound(w, s, r), Calm(w, v), Calm(r, q)
  PROVE  Sound(v, s, q)
<1>1. Carries(s, r) => Carries(s, q)
  BY DEF Carries, Calm, Grown
<1> QED
  BY <1>1 DEF Sound, Calm, Grown

(* Steps that write nothing but to the flags. *)
LEMMA CalmSound ==
  ASSUME TrustInv, \A f \in End : Calm(end[f], end'[f]) /\ Stream(out'[f]) = Stream(out[f])
  PROVE  TrustInv'
<1> SUFFICES ASSUME NEW f \in End
             PROVE  Sound(end'[f], Stream(out'[f]), end'[Peer(f)])
  BY DEF TrustInv, Peer
<1>1. Sound(end[f], Stream(out[f]), end[Peer(f)])
  BY DEF TrustInv
<1>2. Calm(end[f], end'[f]) /\ Calm(end[Peer(f)], end'[Peer(f)])
  BY PeerFacts
<1> QED
  BY <1>1, <1>2, SoundCalm

(* The writer writes a message. *)
LEMMA SoundWrite ==
  ASSUME NEW w, NEW s \in Seq(Message), NEW r, NEW v, NEW m \in Message,
         Sound(w, s, r), Grown(w, v),
         v.trusted => w.trusted \/ r.trusts \/ r.closed,
         v.trusts => w.trusts \/ m = "success",
         m = "success" => v.trusts,
         m = "data" => w.trusts /\ w.trusted /\ ~w.stop
  PROVE  Sound(v, Append(s, m), r)
<1>1. \A k : Has(Append(s, m), k) <=> Has(s, k) \/ k = m
  BY AppendStep
<1>2. ASSUME ~r.closed PROVE Carries(Append(s, m), r)
  <2>1. Carries(s, r)
    BY <1>2 DEF Sound
  <2>2. m = "data" => r.trusts /\ (r.trusted \/ Has(s, "success"))
    BY <1>2 DEF Sound
  <2> QED
    BY <2>1, <2>2, AppendStep
<1> QED
  BY <1>1, <1>2 DEF Sound, Grown

(* ... or would, had it not been stopped. *)
LEMMA SoundSilent ==
  ASSUME NEW w, NEW s, NEW r, NEW v, Sound(w, s, r), Grown(w, v),
         v.trusted => w.trusted \/ r.trusts \/ r.closed,
         v.trusts => w.trusts \/ v.stop
  PROVE  Sound(v, s, r)
BY DEF Sound, Grown

(* The reader reads one. *)
LEMMA SoundRead ==
  ASSUME NEW w, NEW s \in Seq(Message), s # <<>>, NEW r, NEW q, Sound(w, s, r), ~r.closed,
         Grown(r, q), Head(s) = "success" => q.trusted
  PROVE  Sound(w, Tail(s), q)
<1>1. /\ Carries(s, r)
      /\ w.trusted => r.trusts
      /\ w.trusts /\ ~w.stop => r.trusted \/ Has(s, "success")
      /\ ~w.closed /\ Has(s, "success") => w.trusts
  BY DEF Sound
<1>2. /\ r.trusts => q.trusts
      /\ r.trusted \/ Head(s) = "success" => q.trusted
  BY DEF Grown
<1>3. /\ Carries(Tail(s), q)
      /\ Has(Tail(s), "success") => Has(s, "success")
      /\ Has(s, "success") => Head(s) = "success" \/ Has(Tail(s), "success")
  BY <1>1, <1>2, TailStep
<1> QED
  BY <1>1, <1>2, <1>3 DEF Sound

(* A step in which an end e reads, writes an answer or nothing, and        *)
(* changes its flags.                                                      *)
Reads(e, x, t) ==
  /\ ~end[e].closed /\ Incoming(e) # <<>>
  /\ out' = [out EXCEPT ![Peer(e)].wire = Tail(@), ![e] = x]
  /\ end' = [end EXCEPT ![e] = t]
  /\ Grown(end[e], t)
  /\ x \in OutState

(* What is known after it. *)
AfterRead(e, x, t) ==
  /\ \A f \in End : f # e => end'[f] = end[f]
  /\ \A f \in End : f # e /\ f # Peer(e) => out'[f] = out[f]
  /\ end'[e] = t /\ out'[e] = x
  /\ out'[Peer(e)] = [out[Peer(e)] EXCEPT !.wire = Tail(@)]
  /\ Stream(out[Peer(e)]) # <<>>
  /\ Head(Stream(out[Peer(e)])) = Head(Incoming(e))
  /\ Stream(out'[Peer(e)]) = Tail(Stream(out[Peer(e)]))
  /\ Pumped(out'[Peer(e)]) /\ out'[Peer(e)].buffer = out[Peer(e)].buffer
  /\ out' \in [End -> OutState] /\ end' \in [End -> EndState]

(* Reading takes a message from the peer's wire and changes only this end. *)
LEMMA ReadStep ==
  ASSUME NetInv, NEW e \in End, NEW x, NEW t, Reads(e, x, t)
  PROVE  AfterRead(e, x, t)
<1>1. /\ Peer(e) \in End /\ Peer(e) # e
      /\ out \in [End -> OutState] /\ end \in [End -> EndState]
      /\ out[Peer(e)].wire # <<>>
  BY PeerFacts DEF Reads, Incoming, NetInv, NetTypes
<1>2. /\ \A f \in End : f # e => end'[f] = end[f]
      /\ end'[e] = t
      /\ end' \in [End -> EndState]
  BY <1>1 DEF Reads, Grown
<1>3. PICK y : y = [out[Peer(e)] EXCEPT !.wire = Tail(@)]
  OBVIOUS
<1>4. out' = [out EXCEPT ![Peer(e)] = y, ![e] = x]
  BY <1>3 DEF Reads
<1>5. /\ y \in OutState /\ Stream(y) = Tail(Stream(out[Peer(e)]))
      /\ Stream(out[Peer(e)]) # <<>>
      /\ Head(Stream(out[Peer(e)])) = Head(Incoming(e))
  BY <1>1, <1>3, WireRead DEF Incoming
<1>6. Pumped(y) /\ y.buffer = out[Peer(e)].buffer
  <2>1. Pumped(out[Peer(e)])
    BY <1>1 DEF NetInv, FinishInv
  <2>2. out[Peer(e)] \in OutState
    BY <1>1
  <2>3. Pumped(out[Peer(e)]) => Pumped([out[Peer(e)] EXCEPT !.wire = Tail(@)])
    BY <1>1, <2>2, WireRead
  <2>4. y.buffer = out[Peer(e)].buffer
    BY <1>3, <2>2 DEF OutState
  <2> QED
    BY <1>3, <2>1, <2>3, <2>4
<1>7. x \in OutState
  BY DEF Reads
<1>8. /\ \A f \in End : f # e /\ f # Peer(e) => out'[f] = out[f]
      /\ out'[e] = x /\ out'[Peer(e)] = y
      /\ out' \in [End -> OutState]
  BY <1>1, <1>4, <1>5, <1>7
<1> QED
  BY <1>2, <1>3, <1>5, <1>6, <1>8 DEF AfterRead

(* Trust after such a step, when the other end can be told that. *)
LEMMA ReadSound ==
  ASSUME NetInv, NEW e \in End, NEW x, NEW t, Reads(e, x, t),
         Head(Incoming(e)) = "success" => t.trusted,
         t.trusted => end[e].trusted \/ Head(Incoming(e)) = "success",
         Sound(end[e], Stream(out[e]), end[Peer(e)])
           /\ (t.trusted => end[e].trusted \/ end[Peer(e)].trusts \/ end[Peer(e)].closed)
           => Sound(t, Stream(x), end[Peer(e)])
  PROVE  TrustInv'
<1> DEFINE p == Peer(e)
           s == Stream(out[p])
<1>0. AfterRead(e, x, t)
  BY ReadStep
<1>1. p \in End /\ p # e /\ Peer(p) = e
  BY PeerFacts
<1>2. Sound(end[e], Stream(out[e]), end[p]) /\ Sound(end[p], s, end[e])
  BY <1>1 DEF NetInv, TrustInv
<1>3. s \in Seq(Message) /\ s # <<>> /\ Head(s) = Head(Incoming(e))
  BY <1>0, <1>1, StreamType DEF NetInv, NetTypes, AfterRead
<1>4. ~end[e].closed /\ Grown(end[e], t)
  BY DEF Reads
<1>5. Sound(end[p], Tail(s), t)
  BY <1>2, <1>3, <1>4, SoundRead
<1>6. t.trusted => end[e].trusted \/ end[p].trusts \/ end[p].closed
  <2>1. SUFFICES ASSUME Head(s) = "success", ~end[p].closed PROVE end[p].trusts
    BY <1>3
  <2>2. Has(s, "success")
    <3>1. Len(s) \in Nat /\ Len(s) > 0 /\ Head(s) = s[1]
      BY <1>3, LenProperties, EmptySeq
    <3> QED
      BY <2>1, <3>1 DEF Has
  <2> QED
    BY <1>2, <2>1, <2>2 DEF Sound
<1>7. Sound(t, Stream(x), end[p])
  BY <1>2, <1>6
<1>8. /\ \A f \in End : f # e => end'[f] = end[f]
      /\ \A f \in End : f # e /\ f # p => out'[f] = out[f]
      /\ end'[e] = t /\ out'[e] = x
      /\ Stream(out'[p]) = Tail(s)
  BY <1>0 DEF AfterRead
<1> SUFFICES ASSUME NEW f \in End
             PROVE  Sound(end'[f], Stream(out'[f]), end'[Peer(f)])
  BY DEF TrustInv, Peer
<1> HIDE DEF s
<1>9. CASE f = e
  BY <1>1, <1>7, <1>8, <1>9
<1>10. CASE f = p
  BY <1>1, <1>5, <1>8, <1>10
<1>11. CASE f # e /\ f # p
  <2>1. Peer(f) # e /\ Peer(f) \in End
    BY <1>1, <1>11, PeerFacts
  <2>2. Sound(end[f], Stream(out[f]), end[Peer(f)])
    BY DEF NetInv, TrustInv
  <2> QED
    BY <1>8, <1>11, <2>1, <2>2
<1> QED
  BY <1>9, <1>10, <1>11

(***************************************************************************)
(* The managers.                                                           *)
(***************************************************************************)
(* Steps that leave what is held alone. *)
LEMMA KeepHeld ==
  ASSUME NetInv, UNCHANGED <<conn, held>>,
         \A f \in End : Grown(end[f], end'[f])
  PROVE  HeldInv'
<1>1. \A n \in Node : held[n] \subseteq End
  BY DEF NetInv, NetTypes
<1>2. \A n \in Node : \A e \in held[n] : ~end'[e].closed /\ end'[e].settled /\ Authorised(end'[e])
  BY <1>1 DEF NetInv, HeldInv, Grown, Authorised
<1>3. \A e : Owner(e)' = Owner(e) /\ Address(e)' = Address(e)
  BY DEF Owner, Address, Peer
<1> QED
  BY <1>2, <1>3 DEF NetInv, HeldInv

(* The connection of an end that has just become authorised is held, or    *)
(* refused and closed; nothing else is let go.                             *)
LEMMA PushStep ==
  ASSUME NetInv, NEW e \in End, NEW s \in EndState, NEW x \in OutState,
         Grown(end[e], s), ~end[e].closed, Authorised(s), conn' = conn,
         Push(Owner(e), e, s, x)
  PROVE  /\ HeldInv'
         /\ held' \in [Node -> SUBSET End]
         /\ \A n \in Node : held[n] \subseteq held'[n]
         /\ \E t : end' = [end EXCEPT ![e] = t] /\ Calm(s, t)
                   /\ (t.finished => s.finished \/ ~x.full) /\ (t.finished /\ ~s.finished => t.stop)
<1> DEFINE n == Owner(e)
           m == Address(e)
<1>1. end \in [End -> EndState] /\ held \in [Node -> SUBSET End]
  BY DEF NetInv, NetTypes
<1>2. \A f : Owner(f)' = Owner(f) /\ Address(f)' = Address(f)
  BY DEF Owner, Address, Peer
<1>3. CASE Refused(n, e)
  <2>1. /\ end' = [end EXCEPT ![e] = Shut([s EXCEPT !.settled = TRUE], x)]
        /\ held' = held
    BY <1>3 DEF Push
  <2>2. PICK t : t = Shut([s EXCEPT !.settled = TRUE], x)
    OBVIOUS
  <2>3. Calm(s, t)
    BY <2>2, ShutStep
  <2>4. Grown(end[e], t)
    BY <2>3 DEF Calm, Grown
  <2>5. \A f \in End : Grown(end[f], end'[f])
    BY <1>1, <2>1, <2>2, <2>4 DEF Grown
  <2>6. HeldInv'
    BY <2>1, <2>5, KeepHeld
  <2>7. (t.finished => s.finished \/ ~x.full) /\ (t.finished /\ ~s.finished => t.stop)
    BY <2>2 DEF Shut, EndState
  <2> QED
    BY <1>1, <2>1, <2>2, <2>3, <2>6, <2>7
<1>4. CASE ~Refused(n, e)
  <2>1. PICK t : t = [s EXCEPT !.settled = TRUE]
    OBVIOUS
  <2>2. /\ end' = [end EXCEPT ![e] = t]
        /\ held' = [held EXCEPT ![n] = (held[n] \ HeldFor(n, m)) \cup {e}]
    BY <1>4, <2>1 DEF Push
  <2>3. Calm(s, t) /\ t.settled /\ Authorised(t) /\ ~t.closed /\ t.finished = s.finished
    BY <2>1 DEF Calm, Grown, EndState, Authorised
  <2>4. \A f \in End : f # e => end'[f] = end[f]
    BY <1>1, <2>2
  <2>5. end'[e] = t
    BY <1>1, <2>2
  <2>6. Listed(n, m) /\ \A h \in HeldFor(n, m) : end[h].closed
    BY <1>4 DEF Refused
  <2>7. ASSUME n \in Node PROVE HeldFor(n, m) = {}
    BY <2>6, <2>7 DEF NetInv, HeldInv, HeldFor
  <2>8. ASSUME NEW k \in Node PROVE held'[k] = IF k = n THEN held[k] \cup {e} ELSE held[k]
    BY <1>1, <2>2, <2>7
  <2>9. held' \in [Node -> SUBSET End]
    BY <1>1, <2>2
  <2>10. ASSUME NEW k \in Node, NEW f \in held'[k]
         PROVE  /\ ~end'[f].closed /\ Owner(f) = k /\ end'[f].settled /\ Authorised(end'[f])
                /\ \A g \in held'[k] : Address(g) = Address(f) => g = f
    <3>1. f \in End
      BY <2>9
    <3>2. ~end'[f].closed /\ Owner(f) = k /\ end'[f].settled /\ Authorised(end'[f])
      <4>1. CASE f = e
        <5>1. k = n \/ f \in held[k]
          BY <2>8
        <5>2. k = n
          BY <4>1, <5>1 DEF NetInv, HeldInv
        <5> QED
          BY <2>3, <2>5, <4>1, <5>2
      <4>2. CASE f # e
        <5>1. f \in held[k]
          BY <2>8, <4>2
        <5> QED
          BY <2>4, <3>1, <4>2, <5>1 DEF NetInv, HeldInv
      <4> QED
        BY <4>1, <4>2
    <3>3. ASSUME NEW g \in held'[k], Address(g) = Address(f) PROVE g = f
      <4>1. CASE f \in held[k] /\ g \in held[k]
        BY <3>3, <4>1 DEF NetInv, HeldInv
      <4>2. CASE f \notin held[k] \/ g \notin held[k]
        <5>1. k = n /\ (f = e \/ g = e)
          BY <2>8, <4>2
        <5>2. HeldFor(k, m) = {}
          BY <2>7, <5>1
        <5>3. Address(f) = m /\ Address(g) = m
          BY <3>3, <5>1
        <5>4. f \notin held[k] /\ g \notin held[k]
          BY <5>2, <5>3 DEF HeldFor
        <5> QED
          BY <2>8, <5>1, <5>4
      <4> QED
        BY <4>1, <4>2
    <3> QED
      BY <3>2, <3>3
  <2>11. HeldInv'
    BY <1>2, <2>10 DEF HeldInv
  <2> QED
    BY <2>2, <2>3, <2>8, <2>9, <2>11
<1> QED
  BY <1>3, <1>4

(* An end that is authorised is pushed to the manager or shut, and the lists stay right. *)
LEMMA TrustStep ==
  ASSUME NetInv, NEW e \in End, NEW s \in EndState, NEW x \in OutState,
         Grown(end[e], s), ~end[e].closed, conn' = conn, Trust(e, s, x)
  PROVE  /\ HeldInv'
         /\ held' \in [Node -> SUBSET End]
         /\ \A n \in Node : held[n] \subseteq held'[n]
         /\ \E t : end' = [end EXCEPT ![e] = t] /\ Calm(s, t) /\ (s.settled => t = s)
                   /\ (t.finished => s.finished \/ ~x.full) /\ (t.finished /\ ~s.finished => t.stop)
<1>1. CASE Authorised(s) /\ ~s.settled
  <2>1. Push(Owner(e), e, s, x)
    BY <1>1 DEF Trust
  <2> QED
    BY <1>1, <2>1, PushStep
<1>2. CASE ~(Authorised(s) /\ ~s.settled)
  <2>1. end' = [end EXCEPT ![e] = s] /\ held' = held
    BY <1>2 DEF Trust
  <2>2. end \in [End -> EndState] /\ held \in [Node -> SUBSET End]
    BY DEF NetInv, NetTypes
  <2>3. \A f \in End : Grown(end[f], end'[f])
    BY <2>1, <2>2 DEF Grown
  <2>4. HeldInv'
    BY <2>1, <2>3, KeepHeld
  <2>5. Calm(s, s)
    BY DEF Calm, Grown
  <2> QED
    BY <2>1, <2>2, <2>4, <2>5
<1> QED
  BY <1>1, <1>2

(***************************************************************************)
(* Reading.                                                                *)
(***************************************************************************)
LEMMA ReadInv ==
  ASSUME NetInv, NEW e \in End, NEW x, NEW t, Reads(e, x, t),
         UNCHANGED <<conn, dialing, broken>>,
         held' \in [Node -> SUBSET End],
         HeldInv', TrustInv',
         Pumped(x), end[e].stop => x = out[e],
         t.finished => end[e].finished \/ ~x.full,
         t.finished /\ ~end[e].finished => t.stop
  PROVE  NetInv'
<1>1. /\ \A f \in End : f # e => end'[f] = end[f]
      /\ \A f \in End : f # e /\ f # Peer(e) => out'[f] = out[f]
      /\ end'[e] = t /\ out'[e] = x
      /\ Pumped(out'[Peer(e)]) /\ out'[Peer(e)].buffer = out[Peer(e)].buffer
      /\ out' \in [End -> OutState] /\ end' \in [End -> EndState]
  <2>1. AfterRead(e, x, t)
    BY ReadStep
  <2> QED
    BY <2>1 DEF AfterRead
<1>2. NetTypes'
  BY <1>1 DEF NetInv, NetTypes
<1>3. Grown(end[e], t)
  BY DEF Reads
<1>4. ASSUME NEW f \in End
      PROVE  Pumped(out'[f])
             /\ (end'[f].finished =>
                   end'[f].stop /\ (out'[f].buffer = <<>> \/ (end'[f].closed /\ f[1] \in broken)))
  <2>1. /\ Pumped(out[f])
        /\ end[f].finished =>
             end[f].stop /\ (out[f].buffer = <<>> \/ (end[f].closed /\ f[1] \in broken))
    BY DEF NetInv, FinishInv
  <2>2. CASE f # e
    <3>1. end'[f] = end[f] /\ out'[f].buffer = out[f].buffer /\ Pumped(out'[f])
      BY <1>1, <2>1, <2>2
    <3> QED
      BY <2>1, <3>1
  <2>3. CASE f = e
    <3>1. CASE end[e].finished
      BY <1>1, <1>3, <2>1, <2>3, <3>1 DEF Grown
    <3>2. CASE ~end[e].finished
      BY <1>1, <2>3, <3>2 DEF Pumped
    <3> QED
      BY <3>1, <3>2
  <2> QED
    BY <2>2, <2>3
<1>5. FinishInv'
  BY <1>4 DEF FinishInv
<1>6. FreeInv'
  <2>1. \A f \in End : end'[f].closed = end[f].closed
    BY <1>1, <1>3 DEF Grown
  <2> QED
    BY <2>1 DEF NetInv, FreeInv, Free
<1> QED
  BY <1>2, <1>5, <1>6 DEF NetInv

(* What a message written, or not, leaves of an end's trust.               *)
LEMMA SoundWritten ==
  ASSUME NetInv, NEW e \in End, NEW s \in EndState, NEW t, NEW m \in Message, m # "data",
         s.stop = end[e].stop, Grown(end[e], t),
         t.trusted => end[e].trusted \/ end[Peer(e)].trusts \/ end[Peer(e)].closed,
         t.trusts => end[e].trusts \/ m = "success", m = "success" => t.trusts,
         Sound(end[e], Stream(out[e]), end[Peer(e)])
  PROVE  Sound(t, Stream(Written(s, out[e], m)), end[Peer(e)])
<1>1. out[e] \in OutState
  BY DEF NetInv, NetTypes
<1>2. CASE s.stop
  <2>1. Stream(Written(s, out[e], m)) = Stream(out[e]) /\ t.stop
    BY <1>1, <1>2, WrittenStream, NetworkAssumption DEF Grown
  <2> QED
    BY <2>1, SoundSilent
<1>3. CASE ~s.stop
  <2>1. Stream(Written(s, out[e], m)) = Append(Stream(out[e]), m)
    BY <1>1, <1>3, WrittenStream, NetworkAssumption
  <2>2. Stream(out[e]) \in Seq(Message)
    BY <1>1, StreamType
  <2> QED
    BY <2>1, <2>2, SoundWrite
<1> QED
  BY <1>2, <1>3

(* Writing keeps the types, and an end that stopped writes nothing. *)
LEMMA WrittenFacts ==
  ASSUME NetInv, NEW e \in End, NEW s \in EndState, s.stop = end[e].stop, NEW m \in Message
  PROVE  /\ Written(s, out[e], m) \in OutState
         /\ Pumped(Written(s, out[e], m))
         /\ end[e].stop => Written(s, out[e], m) = out[e]
BY WrittenStream, NetworkAssumption DEF NetInv, NetTypes, FinishInv

(* A request is answered. *)
LEMMA OnRequestInv == ASSUME NetInv, NEW e \in End, OnRequest(e) PROVE NetInv'
<1> DEFINE x == Written(end[e], out[e], "response")
<1>1. end[e] \in EndState /\ end = [end EXCEPT ![e] = end[e]] /\ Grown(end[e], end[e])
  BY DEF NetInv, NetTypes, Grown
<1>2. /\ UNCHANGED <<conn, dialing, broken, end, held>>
      /\ out' = [out EXCEPT ![Peer(e)].wire = Tail(@), ![e] = x]
      /\ ~end[e].closed /\ Incoming(e) # <<>> /\ Head(Incoming(e)) = "request"
  BY DEF OnRequest, Read, Readable
<1>3. x \in OutState /\ Pumped(x) /\ (end[e].stop => x = out[e])
  BY <1>1, WrittenFacts DEF Message
<1>4. Reads(e, x, end[e])
  BY <1>1, <1>2, <1>3 DEF Reads
<1>5. TrustInv'
  <2>1. Head(Incoming(e)) # "success"
    BY <1>2
  <2>2. Sound(end[e], Stream(out[e]), end[Peer(e)])
          /\ (end[e].trusted => end[e].trusted \/ end[Peer(e)].trusts \/ end[Peer(e)].closed)
          => Sound(end[e], Stream(x), end[Peer(e)])
    BY <1>1, SoundWritten DEF Message
  <2> HIDE DEF x
  <2> QED
    BY <1>4, <2>1, <2>2, ReadSound
<1>6. \A f \in End : Grown(end[f], end'[f])
  BY <1>2 DEF NetInv, NetTypes, Grown
<1>7. HeldInv'
  BY <1>2, <1>6, KeepHeld
<1>8. held' \in [Node -> SUBSET End]
  BY <1>2 DEF NetInv, NetTypes
<1> HIDE DEF x
<1> QED
  BY <1>2, <1>3, <1>4, <1>5, <1>7, <1>8, ReadInv

(* An end that finishes does so with an empty socket, and has stopped. *)
LEMMA ClosingStep ==
  ASSUME NEW s \in EndState, NEW x \in OutState, NEW t,
         t = Shut(s, x) \/ t = Failed(s, s, x) \/ t = Shut([s EXCEPT !.ended = TRUE], x)
  PROVE  /\ Calm(s, t)
         /\ t.finished => s.finished \/ ~x.full
         /\ t.finished /\ ~s.finished => t.stop
<1>1. Calm(s, t)
  BY ShutStep
<1>2. /\ t.finished => s.finished \/ ~x.full
      /\ t.finished /\ ~s.finished => t.stop
  BY DEF Shut, Failed, EndState
<1> QED
  BY <1>1, <1>2

(* A read that changes nothing the manager or trust depends on. *)
LEMMA PlainReadInv ==
  ASSUME NetInv, NEW e \in End, NEW x, NEW t, Reads(e, x, t), Calm(end[e], t),
         UNCHANGED <<conn, dialing, broken, held>>,
         Head(Incoming(e)) # "success",
         Sound(end[e], Stream(out[e]), end[Peer(e)]) => Sound(t, Stream(x), end[Peer(e)]),
         Pumped(x), end[e].stop => x = out[e],
         t.finished => end[e].finished \/ ~x.full,
         t.finished /\ ~end[e].finished => t.stop
  PROVE  NetInv'
<1>1. TrustInv'
  BY ReadSound DEF Calm
<1>2. AfterRead(e, x, t)
  BY ReadStep
<1>3. \A f \in End : Grown(end[f], end'[f])
  BY <1>2 DEF AfterRead, Calm, NetInv, NetTypes, Grown
<1>4. HeldInv'
  BY <1>3, KeepHeld
<1>5. held' \in [Node -> SUBSET End]
  BY DEF NetInv, NetTypes
<1> QED
  BY <1>1, <1>4, <1>5, ReadInv

(* A wrong response is answered with a failure, and the end is shut. *)
LEMMA OnWrongResponseInv == ASSUME NetInv, NEW e \in End, OnWrongResponse(e) PROVE NetInv'
<1>1. PICK x : x = Written(end[e], out[e], "failed")
  OBVIOUS
<1>2. PICK t : t = Failed(e, end[e], x)
  OBVIOUS
<1>3. end[e] \in EndState /\ x \in OutState /\ Pumped(x) /\ (end[e].stop => x = out[e])
  BY <1>1, WrittenFacts DEF NetInv, NetTypes, Message
<1>4. t = Failed(end[e], end[e], x)
  BY <1>2 DEF Failed
<1>5. /\ Calm(end[e], t)
      /\ t.finished => end[e].finished \/ ~x.full
      /\ t.finished /\ ~end[e].finished => t.stop
  BY <1>3, <1>4, ClosingStep
<1>6. /\ UNCHANGED <<conn, dialing, broken, held>>
      /\ out' = [out EXCEPT ![Peer(e)].wire = Tail(@), ![e] = x]
      /\ end' = [end EXCEPT ![e] = t]
      /\ ~end[e].closed /\ Incoming(e) # <<>> /\ Head(Incoming(e)) = "response"
  BY <1>1, <1>2 DEF OnWrongResponse, Read, Readable
<1>7. Reads(e, x, t)
  BY <1>3, <1>5, <1>6 DEF Reads, Calm
<1>8. Sound(end[e], Stream(out[e]), end[Peer(e)]) => Sound(t, Stream(x), end[Peer(e)])
  BY <1>1, <1>3, <1>5, SoundWritten DEF Calm, Message
<1> QED
  BY <1>3, <1>5, <1>6, <1>7, <1>8, PlainReadInv

(* Reading without writing, while the manager holds what it did. *)
LEMMA SilentReadInv ==
  ASSUME NetInv, NEW e \in End, NEW t, Calm(end[e], t),
         Head(Incoming(e)) # "success", ~end[e].closed, Incoming(e) # <<>>,
         Read(e, out[e]), end' = [end EXCEPT ![e] = t], held' = held,
         t.finished => end[e].finished \/ ~out[e].full,
         t.finished /\ ~end[e].finished => t.stop
  PROVE  NetInv'
<1>1. out[e] \in OutState /\ Pumped(out[e])
  BY DEF NetInv, NetTypes, FinishInv
<1>2. PICK x : x = out[e]
  OBVIOUS
<1>3. /\ out' = [out EXCEPT ![Peer(e)].wire = Tail(@), ![e] = x]
      /\ UNCHANGED <<conn, dialing, broken, held>>
  BY <1>2 DEF Read
<1>4. Reads(e, x, t)
  BY <1>1, <1>2, <1>3 DEF Reads, Calm
<1>5. Sound(end[e], Stream(out[e]), end[Peer(e)]) => Sound(t, Stream(x), end[Peer(e)])
  <2>1. Calm(end[Peer(e)], end[Peer(e)])
    BY PeerFacts DEF Calm, Grown, NetInv, NetTypes
  <2> QED
    BY <1>2, <2>1, SoundCalm
<1> QED
  BY <1>1, <1>2, <1>3, <1>4, <1>5, PlainReadInv

(* A failed authorisation shuts the end. *)
LEMMA OnFailedInv == ASSUME NetInv, NEW e \in End, OnFailed(e) PROVE NetInv'
<1>1. PICK t : t = Failed(e, end[e], out[e])
  OBVIOUS
<1>2. end[e] \in EndState /\ out[e] \in OutState
  BY DEF NetInv, NetTypes
<1>3. t = Failed(end[e], end[e], out[e])
  BY <1>1 DEF Failed
<1>4. /\ Calm(end[e], t)
      /\ t.finished => end[e].finished \/ ~out[e].full
      /\ t.finished /\ ~end[e].finished => t.stop
  BY <1>2, <1>3, ClosingStep
<1>5. /\ Read(e, out[e]) /\ held' = held /\ end' = [end EXCEPT ![e] = t]
      /\ ~end[e].closed /\ Incoming(e) # <<>> /\ Head(Incoming(e)) # "success"
  BY <1>1 DEF OnFailed, Readable
<1> QED
  BY <1>4, <1>5, SilentReadInv

(* Data comes to an authorised end. *)
LEMMA OnDataInv == ASSUME NetInv, NEW e \in End, OnData(e) PROVE NetInv'
<1>1. PICK t : t = end[e]
  OBVIOUS
<1>2. Calm(end[e], t) /\ end' = [end EXCEPT ![e] = t]
  BY <1>1 DEF OnData, NetInv, NetTypes, Calm, Grown
<1>3. /\ Read(e, out[e]) /\ held' = held
      /\ ~end[e].closed /\ Incoming(e) # <<>> /\ Head(Incoming(e)) # "success"
  BY DEF OnData, Readable
<1> QED
  BY <1>1, <1>2, <1>3, SilentReadInv

(* A right response is answered with success. *)
LEMMA OnResponseInv == ASSUME NetInv, NEW e \in End, OnResponse(e) PROVE NetInv'
<1>1. PICK s : s = [end[e] EXCEPT !.trusts = TRUE]
  OBVIOUS
<1>2. PICK x : x = Written(s, out[e], "success")
  OBVIOUS
<1>3. end[e] \in EndState /\ s \in EndState /\ s.stop = end[e].stop /\ s.finished = end[e].finished
      /\ s.trusts /\ s.trusted = end[e].trusted /\ Grown(end[e], s)
  BY <1>1 DEF NetInv, NetTypes, EndState, Grown
<1>4. x \in OutState /\ Pumped(x) /\ (end[e].stop => x = out[e])
  BY <1>2, <1>3, WrittenFacts DEF Message
<1>5. /\ UNCHANGED <<conn, dialing, broken>>
      /\ out' = [out EXCEPT ![Peer(e)].wire = Tail(@), ![e] = x]
      /\ ~end[e].closed /\ Incoming(e) # <<>> /\ Head(Incoming(e)) = "response"
      /\ Trust(e, s, x)
  BY <1>1, <1>2 DEF OnResponse, Read, Readable
<1>6. HeldInv' /\ held' \in [Node -> SUBSET End]
  BY <1>3, <1>4, <1>5, TrustStep
<1>7. PICK t : /\ end' = [end EXCEPT ![e] = t] /\ Calm(s, t)
               /\ t.finished => s.finished \/ ~x.full
               /\ t.finished /\ ~s.finished => t.stop
  BY <1>3, <1>4, <1>5, TrustStep
<1>8. Grown(end[e], t) /\ t.trusts /\ t.trusted = end[e].trusted
  BY <1>3, <1>7 DEF Calm, Grown
<1>9. Reads(e, x, t)
  BY <1>4, <1>5, <1>7, <1>8 DEF Reads
<1>10. TrustInv'
  <2>1. Sound(end[e], Stream(out[e]), end[Peer(e)])
          /\ (t.trusted => end[e].trusted \/ end[Peer(e)].trusts \/ end[Peer(e)].closed)
          => Sound(t, Stream(x), end[Peer(e)])
    BY <1>2, <1>3, <1>8, SoundWritten DEF Message
  <2>2. /\ Head(Incoming(e)) # "success"
        /\ t.trusted => end[e].trusted \/ Head(Incoming(e)) = "success"
    BY <1>5, <1>8
  <2> QED
    BY <1>9, <2>1, <2>2, ReadSound
<1> QED
  BY <1>3, <1>4, <1>5, <1>6, <1>7, <1>9, <1>10, ReadInv

(* Success makes the end trusted. *)
LEMMA OnSuccessInv == ASSUME NetInv, NEW e \in End, OnSuccess(e) PROVE NetInv'
<1>1. PICK s : s = [end[e] EXCEPT !.trusted = TRUE]
  OBVIOUS
<1>2. PICK x : x = out[e]
  OBVIOUS
<1>3. end[e] \in EndState /\ s \in EndState /\ s.stop = end[e].stop /\ s.finished = end[e].finished
      /\ s.trusted /\ s.trusts = end[e].trusts /\ Grown(end[e], s)
  BY <1>1 DEF NetInv, NetTypes, EndState, Grown
<1>4. x \in OutState /\ Pumped(x)
  BY <1>2 DEF NetInv, NetTypes, FinishInv
<1>5. /\ UNCHANGED <<conn, dialing, broken>>
      /\ out' = [out EXCEPT ![Peer(e)].wire = Tail(@), ![e] = x]
      /\ ~end[e].closed /\ Incoming(e) # <<>> /\ Head(Incoming(e)) = "success"
      /\ Trust(e, s, x)
  BY <1>1, <1>2 DEF OnSuccess, Read, Readable
<1>6. HeldInv' /\ held' \in [Node -> SUBSET End]
  BY <1>3, <1>4, <1>5, TrustStep
<1>7. PICK t : /\ end' = [end EXCEPT ![e] = t] /\ Calm(s, t)
               /\ t.finished => s.finished \/ ~x.full
               /\ t.finished /\ ~s.finished => t.stop
  BY <1>3, <1>4, <1>5, TrustStep
<1>8. Grown(end[e], t) /\ t.trusted /\ t.trusts = end[e].trusts
  BY <1>3, <1>7 DEF Calm, Grown
<1>9. Reads(e, x, t)
  BY <1>4, <1>5, <1>7, <1>8 DEF Reads
<1>10. TrustInv'
  <2>1. Sound(end[e], Stream(out[e]), end[Peer(e)])
          /\ (t.trusted => end[e].trusted \/ end[Peer(e)].trusts \/ end[Peer(e)].closed)
          => Sound(t, Stream(x), end[Peer(e)])
    BY <1>2, <1>8, SoundSilent
  <2> QED
    BY <1>5, <1>8, <1>9, <2>1, ReadSound
<1> QED
  BY <1>2, <1>3, <1>4, <1>5, <1>6, <1>7, <1>9, <1>10, ReadInv

(***************************************************************************)
(* Steps that touch no connection.                                         *)
(***************************************************************************)
LEMMA StillInv ==
  ASSUME NetInv, UNCHANGED <<conn, end, out, held>>, broken \subseteq broken',
         \A d \in dialing' : d[1] # d[2]
  PROVE  NetInv'
<1>1. NetTypes'
  BY DEF NetInv, NetTypes
<1>2. FinishInv'
  BY DEF NetInv, FinishInv
<1>3. FreeInv'
  BY DEF NetInv, FreeInv, Free
<1>4. HeldInv'
  BY DEF NetInv, HeldInv, Owner, Address, Peer
<1>5. TrustInv'
  BY DEF NetInv, TrustInv, Peer
<1> QED
  BY <1>1, <1>2, <1>3, <1>4, <1>5 DEF NetInv

(* A dial that begins. *)
LEMMA BeginDialInv == ASSUME NetInv, NEW n \in Node, NEW m \in Node, BeginDial(n, m) PROVE NetInv'
<1>1. UNCHANGED <<conn, end, out, held, broken>> /\ dialing' = dialing \cup {<<n, m>>}
  BY DEF BeginDial, lists
<1>2. \A d \in dialing' : d[1] # d[2]
  BY <1>1 DEF BeginDial, Listed, NetInv, NetTypes
<1> QED
  BY <1>1, <1>2, StillInv

(* Lists and records change, and dials fail: no connection does. *)
LEMMA ListsInv ==
  ASSUME NetInv, UNCHANGED <<conn, end, out, held>>,
         broken \subseteq broken', dialing' \subseteq dialing
  PROVE  NetInv'
BY StillInv DEF NetInv, NetTypes

(* So it is with every action on them. *)
LEMMA ListActionsInv ==
  ASSUME NetInv, NEW n \in Node, NEW m \in Node,
         DialFails(n, m) \/ SettleUpdate(n, m) \/ AddNode(n, m) \/ DeleteNode(n, m)
         \/ Exclude(n, m) \/ Readmit(n, m) \/ FlushUnlToMemory(n)
  PROVE  NetInv'
<1>1. UNCHANGED <<conn, end, out, held, broken>> /\ dialing' \subseteq dialing
  BY DEF DialFails, SettleUpdate, AddNode, DeleteNode, Exclude, Readmit, FlushUnlToMemory
<1> QED
  BY <1>1, ListsInv

(* A chunk that ends inside a message. *)
LEMMA SplitInv == ASSUME NetInv, NEW e \in End, Split(e) PROVE NetInv'
<1>1. UNCHANGED <<conn, end, out, held, broken, dialing>>
  BY DEF Split, lists
<1> QED
  BY <1>1, ListsInv

(* A connection that breaks. *)
LEMMA BreakInv == ASSUME NetInv, NEW c \in Conn, Break(c) PROVE NetInv'
<1>1. UNCHANGED <<conn, end, out, held, dialing>> /\ broken \subseteq broken'
  BY DEF Break, lists
<1> QED
  BY <1>1, ListsInv

(***************************************************************************)
(* Flags of ends, without reading or writing.                              *)
(***************************************************************************)
LEMMA FlagsInv ==
  ASSUME NetInv, UNCHANGED <<conn, held, dialing, broken>>,
         end' \in [End -> EndState], out' \in [End -> OutState],
         \A f \in End : Calm(end[f], end'[f]),
         \A f \in End : Stream(out'[f]) = Stream(out[f]),
         FinishInv'
  PROVE  NetInv'
<1>1. NetTypes'
  BY DEF NetInv, NetTypes
<1>2. FreeInv'
  BY DEF NetInv, FreeInv, Free, Calm, Grown
<1>3. HeldInv'
  BY KeepHeld DEF Calm
<1>4. TrustInv'
  BY CalmSound DEF NetInv
<1> QED
  BY <1>1, <1>2, <1>3, <1>4 DEF NetInv

(* One end begins to close. *)
LEMMA CloseOneInv ==
  ASSUME NetInv, UNCHANGED <<conn, held, dialing, broken, out>>,
         NEW e \in End, NEW t, end' = [end EXCEPT ![e] = t], Calm(end[e], t),
         t.finished => end[e].finished \/ ~out[e].full,
         t.finished /\ ~end[e].finished => t.stop
  PROVE  NetInv'
<1>1. end \in [End -> EndState] /\ out \in [End -> OutState]
  BY DEF NetInv, NetTypes
<1>2. end' \in [End -> EndState] /\ \A f \in End : Calm(end[f], end'[f])
  BY <1>1 DEF Calm, Grown
<1>3. FinishInv'
  BY <1>1 DEF NetInv, FinishInv, Pumped, Calm, Grown
<1> QED
  BY <1>1, <1>2, <1>3, FlagsInv

(* Timeouts shut an end, and an end finishes. *)
LEMMA TimeoutsInv ==
  ASSUME NetInv, NEW e \in End, AuthorizeTimeout(e) \/ IdleTimeout(e) \/ Finish(e)
  PROVE  NetInv'
<1>1. end[e] \in EndState /\ out[e] \in OutState
  BY DEF NetInv, NetTypes
<1>2. UNCHANGED <<conn, held, dialing, broken, out>>
  BY DEF AuthorizeTimeout, IdleTimeout, Finish, lists
<1>3. CASE AuthorizeTimeout(e)
  <2>1. PICK t : t = Failed(end[e], end[e], out[e])
    OBVIOUS
  <2>2. end' = [end EXCEPT ![e] = t]
    BY <1>3, <2>1 DEF AuthorizeTimeout, Failed
  <2> QED
    BY <1>1, <1>2, <2>1, <2>2, ClosingStep, CloseOneInv
<1>4. CASE IdleTimeout(e)
  <2>1. PICK t : t = Shut(end[e], out[e])
    OBVIOUS
  <2>2. end' = [end EXCEPT ![e] = t]
    BY <1>4, <2>1 DEF IdleTimeout
  <2> QED
    BY <1>1, <1>2, <2>1, <2>2, ClosingStep, CloseOneInv
<1>5. CASE Finish(e)
  <2>1. PICK t : t = [end[e] EXCEPT !.finished = TRUE]
    OBVIOUS
  <2>2. end' = [end EXCEPT ![e] = t] /\ ~out[e].full
    BY <1>5, <2>1 DEF Finish
  <2>3. Calm(end[e], t) /\ t.stop
    BY <1>1, <1>5, <2>1 DEF Finish, Calm, Grown, EndState
  <2> QED
    BY <1>2, <2>2, <2>3, CloseOneInv
<1> QED
  BY <1>3, <1>4, <1>5

(* Connections of nodes no longer listed are shut. *)
LEMMA ClearConnectionsInv == ASSUME NetInv, NEW n \in Node, ClearConnections(n) PROVE NetInv'
<1>1. end \in [End -> EndState] /\ out \in [End -> OutState]
  BY DEF NetInv, NetTypes
<1>2. /\ UNCHANGED <<conn, held, dialing, broken, out>>
      /\ end' = [f \in End |-> IF f \in ToClear(n) THEN Shut(end[f], out[f]) ELSE end[f]]
  BY DEF ClearConnections, lists
<1>3. ASSUME NEW f \in End
      PROVE  /\ Calm(end[f], end'[f])
             /\ end'[f].finished => end[f].finished \/ ~out[f].full
             /\ end'[f].finished /\ ~end[f].finished => end'[f].stop
  <2>1. CASE f \in ToClear(n)
    BY <1>1, <1>2, <2>1, ClosingStep
  <2>2. CASE f \notin ToClear(n)
    BY <1>1, <1>2, <2>2 DEF Calm, Grown
  <2> QED
    BY <2>1, <2>2
<1>4. end' \in [End -> EndState]
  BY <1>2, <1>3 DEF Calm, Grown
<1>5. FinishInv'
  BY <1>1, <1>2, <1>3 DEF NetInv, FinishInv, Pumped, Calm, Grown
<1> QED
  BY <1>1, <1>2, <1>3, <1>4, <1>5, FlagsInv

(* A drained socket sends what it had buffered. *)
LEMMA DrainInv == ASSUME NetInv, NEW e \in End, Drain(e) PROVE NetInv'
<1>1. end \in [End -> EndState] /\ out \in [End -> OutState]
  BY DEF NetInv, NetTypes
<1>2. PICK x : x = [out[e] EXCEPT !.full = FALSE]
  OBVIOUS
<1>3. PICK y : y = IF end[e].finished THEN x ELSE Flushed(x)
  OBVIOUS
<1>4. /\ UNCHANGED <<conn, held, dialing, broken, end>>
      /\ out' = [out EXCEPT ![e] = y] /\ ~end[e].closed
  BY <1>2, <1>3 DEF Drain, lists
<1>5. x \in OutState /\ Stream(x) = Stream(out[e]) /\ x.buffer = out[e].buffer
  BY <1>1, <1>2 DEF OutState, Stream
<1>6. y \in OutState /\ Stream(y) = Stream(out[e])
  BY <1>3, <1>5, FlushedStream, NetworkAssumption
<1>7. \A f \in End : Calm(end[f], end'[f])
  BY <1>1, <1>4 DEF Calm, Grown
<1>8. out' \in [End -> OutState] /\ \A f \in End : Stream(out'[f]) = Stream(out[f])
  BY <1>1, <1>4, <1>6
<1>9. FinishInv'
  <2> SUFFICES ASSUME NEW f \in End
               PROVE  Pumped(out'[f])
                      /\ (end'[f].finished =>
                            end'[f].stop
                            /\ (out'[f].buffer = <<>> \/ (end'[f].closed /\ f[1] \in broken')))
    BY DEF FinishInv
  <2>1. CASE f # e
    BY <1>1, <1>4, <2>1 DEF NetInv, FinishInv
  <2>2. CASE f = e /\ ~end[e].finished
    BY <1>1, <1>3, <1>4, <1>5, <2>2, FlushedStream, NetworkAssumption
  <2>3. CASE f = e /\ end[e].finished
    BY <1>1, <1>2, <1>3, <1>4, <1>5, <2>3 DEF NetInv, FinishInv, Pumped
  <2> QED
    BY <2>1, <2>2, <2>3
<1> QED
  BY <1>1, <1>4, <1>7, <1>8, <1>9, FlagsInv

(***************************************************************************)
(* Writing, the end of a stream, connections that begin and are forgotten. *)
(***************************************************************************)
LEMMA SendInv == ASSUME NetInv, NEW n \in Node, NEW e \in held[n], Send(e) PROVE NetInv'
<1>1. e \in End /\ end \in [End -> EndState] /\ out \in [End -> OutState]
  BY DEF NetInv, NetTypes
<1>2. PICK x : x = Written(end[e], out[e], "data")
  OBVIOUS
<1>3. /\ UNCHANGED <<conn, held, dialing, broken, end>>
      /\ out' = [out EXCEPT ![e] = x] /\ ~end[e].stop
  BY <1>2 DEF Send, lists
<1>4. x \in OutState /\ Pumped(x) /\ Stream(x) = Append(Stream(out[e]), "data")
  BY <1>1, <1>2, <1>3, WrittenFacts, WrittenStream, NetworkAssumption DEF Message
<1>5. ~end[e].closed /\ end[e].trusts /\ end[e].trusted
  BY DEF NetInv, HeldInv, Authorised
<1>6. Peer(e) # e /\ Peer(e) \in End
  BY <1>1, PeerFacts
<1>7. NetTypes'
  BY <1>1, <1>3, <1>4 DEF NetInv, NetTypes
<1>8. FinishInv'
  BY <1>1, <1>3, <1>4 DEF NetInv, FinishInv
<1>9. FreeInv'
  BY <1>3 DEF NetInv, FreeInv, Free
<1>10. HeldInv'
  <2>1. \A f \in End : Grown(end[f], end'[f])
    BY <1>1, <1>3 DEF Grown
  <2> QED
    BY <1>3, <2>1, KeepHeld
<1>11. TrustInv'
  <2> SUFFICES ASSUME NEW f \in End
               PROVE  Sound(end'[f], Stream(out'[f]), end'[Peer(f)])
    BY DEF TrustInv, Peer
  <2>1. Sound(end[f], Stream(out[f]), end[Peer(f)])
    BY DEF NetInv, TrustInv
  <2>2. CASE f # e
    BY <1>1, <1>3, <2>1, <2>2
  <2>3. CASE f = e
    <3>1. Grown(end[e], end[e]) /\ Stream(out[e]) \in Seq(Message)
      BY <1>1, StreamType DEF Grown
    <3>2. Sound(end[e], Append(Stream(out[e]), "data"), end[Peer(e)])
      BY <1>3, <1>5, <2>1, <2>3, <3>1, SoundWrite DEF Message
    <3> QED
      BY <1>1, <1>3, <1>4, <2>3, <3>2
  <2> QED
    BY <2>2, <2>3
<1> QED
  BY <1>7, <1>8, <1>9, <1>10, <1>11 DEF NetInv

(* An end that finishes after its socket was full. *)
LEMMA FinishLateInv == ASSUME NetInv, NEW e \in End, FinishLate(e) PROVE NetInv'
<1>1. end \in [End -> EndState] /\ out \in [End -> OutState]
  BY DEF NetInv, NetTypes
<1>2. PICK t, x : t = [end[e] EXCEPT !.finished = TRUE] /\ x = [out[e] EXCEPT !.buffer = <<>>]
  OBVIOUS
<1>3. /\ UNCHANGED <<conn, held, dialing, broken>>
      /\ end' = [end EXCEPT ![e] = t] /\ out' = [out EXCEPT ![e] = x] /\ end[e].stop
  BY <1>2 DEF FinishLate, lists
<1>4. Calm(end[e], t) /\ t.stop /\ t \in EndState
  BY <1>1, <1>2, <1>3 DEF Calm, Grown, EndState
<1>5. PICK w, b : w = out[e].wire /\ b = out[e].buffer
  OBVIOUS
<1>6. w \in Seq(Message) /\ b \in Seq(Message)
  BY <1>1, <1>5 DEF OutState
<1>7. x \in OutState /\ x.buffer = <<>> /\ Stream(x) = w
  <2>1. <<>> \in Seq(Message) /\ out[e] \in OutState
    BY <1>1
  <2>2. x.wire = w /\ x.buffer = <<>> /\ x \in OutState
    BY <1>2, <1>5, <2>1 DEF OutState
  <2> QED
    BY <1>6, <2>2, ConcatEmptySeq DEF Stream
<1>8. NetTypes'
  BY <1>1, <1>3, <1>4, <1>7 DEF NetInv, NetTypes
<1>9. FinishInv'
  BY <1>1, <1>3, <1>4, <1>7 DEF NetInv, FinishInv, Pumped
<1>10. \A f \in End : Calm(end[f], end'[f])
  BY <1>1, <1>3, <1>4 DEF Calm, Grown
<1>11. FreeInv'
  BY <1>3, <1>10 DEF NetInv, FreeInv, Free, Calm, Grown
<1>12. HeldInv'
  BY <1>3, <1>10, KeepHeld DEF Calm
<1>13. TrustInv'
  <2> SUFFICES ASSUME NEW f \in End
               PROVE  Sound(end'[f], Stream(out'[f]), end'[Peer(f)])
    BY DEF TrustInv, Peer
  <2>1. Sound(end[f], Stream(out[f]), end[Peer(f)])
    BY DEF NetInv, TrustInv
  <2>2. Sound(end'[f], Stream(out[f]), end'[Peer(f)])
    BY <1>10, <2>1, PeerFacts, SoundCalm
  <2>3. CASE f # e
    BY <1>1, <1>3, <2>2, <2>3
  <2>4. CASE f = e
    <3>1. Sound(t, w \o b, end'[Peer(e)])
      BY <1>1, <1>3, <1>5, <2>2, <2>4 DEF Stream
    <3>2. Carries(w \o b, end'[Peer(e)]) => Carries(w, end'[Peer(e)])
      BY <1>6, PrefixStep
    <3>3. Has(w, "success") => Has(w \o b, "success")
      <4>1. PICK n \in Nat, m \in Nat : n = Len(w) /\ m = Len(b)
        BY <1>6, LenProperties
      <4>2. Len(w \o b) = n + m /\ \A i \in 1 .. n : (w \o b)[i] = w[i] /\ i \in 1 .. n + m
        BY <1>6, <4>1, ConcatProperties
      <4> QED
        BY <4>1, <4>2 DEF Has
    <3>4. Sound(t, w, end'[Peer(e)])
      BY <1>4, <3>1, <3>2, <3>3 DEF Sound
    <3> QED
      BY <1>1, <1>3, <1>7, <2>4, <3>4
  <2> QED
    BY <2>3, <2>4
<1> QED
  BY <1>8, <1>9, <1>11, <1>12, <1>13 DEF NetInv

(* The peer has ended. *)
LEMMA OnEndInv == ASSUME NetInv, NEW e \in End, OnEnd(e) PROVE NetInv'
<1> DEFINE p == Peer(e)
<1>1. /\ end \in [End -> EndState] /\ out \in [End -> OutState]
      /\ p \in End /\ p # e /\ p[1] = e[1] /\ Peer(p) = e
  BY PeerFacts DEF NetInv, NetTypes
<1>2. PICK t, x : t = Shut([end[e] EXCEPT !.ended = TRUE], out[e])
                  /\ x = [out[p] EXCEPT !.wire = <<>>]
  OBVIOUS
<1>3. /\ UNCHANGED <<conn, held, dialing, broken>>
      /\ end' = [end EXCEPT ![e] = t]
      /\ out' = [out EXCEPT ![p] = x]
      /\ end[p].finished /\ e[1] \notin broken
  BY <1>2 DEF OnEnd, Ended, lists
<1>4. /\ Calm(end[e], t)
      /\ t.finished => end[e].finished \/ ~out[e].full
      /\ t.finished /\ ~end[e].finished => t.stop
  BY <1>1, <1>2, ClosingStep
<1>5. end[p].stop /\ out[p].buffer = <<>>
  BY <1>1, <1>3 DEF NetInv, FinishInv
<1>6. x \in OutState /\ x.buffer = <<>> /\ Stream(x) = <<>>
  <2>1. x.wire = <<>> /\ x.buffer = <<>> /\ x \in OutState
    BY <1>1, <1>2, <1>5 DEF OutState
  <2>2. <<>> \in Seq(Message)
    OBVIOUS
  <2> QED
    BY <2>1, <2>2, ConcatEmptySeq DEF Stream
<1>7. NetTypes'
  BY <1>1, <1>3, <1>4, <1>6 DEF NetInv, NetTypes, Calm, Grown
<1>8. \A f \in End : Calm(end[f], end'[f])
  BY <1>1, <1>3, <1>4 DEF Calm, Grown
<1>9. FinishInv'
  <2> SUFFICES ASSUME NEW f \in End
               PROVE  Pumped(out'[f])
                      /\ (end'[f].finished =>
                            end'[f].stop
                            /\ (out'[f].buffer = <<>> \/ (end'[f].closed /\ f[1] \in broken)))
    BY <1>3 DEF FinishInv
  <2>1. CASE f = p
    BY <1>1, <1>3, <1>5, <1>6, <2>1 DEF Pumped
  <2>2. CASE f = e
    BY <1>1, <1>3, <1>4, <2>2 DEF NetInv, FinishInv, Pumped, Calm, Grown
  <2>3. CASE f # e /\ f # p
    BY <1>1, <1>3, <2>3 DEF NetInv, FinishInv
  <2> QED
    BY <2>1, <2>2, <2>3
<1>10. FreeInv'
  BY <1>3, <1>8 DEF NetInv, FreeInv, Free, Calm, Grown
<1>11. HeldInv'
  BY <1>3, <1>8, KeepHeld DEF Calm
<1>12. TrustInv'
  <2> SUFFICES ASSUME NEW f \in End
               PROVE  Sound(end'[f], Stream(out'[f]), end'[Peer(f)])
    BY DEF TrustInv, Peer
  <2>1. Sound(end[f], Stream(out[f]), end[Peer(f)])
    BY DEF NetInv, TrustInv
  <2>2. Sound(end'[f], Stream(out[f]), end'[Peer(f)])
    BY <1>8, <2>1, PeerFacts, SoundCalm
  <2>3. CASE f # p
    BY <1>1, <1>3, <2>2, <2>3
  <2>4. CASE f = p
    <3>1. Carries(<<>>, end'[e]) /\ ~Has(<<>>, "success")
      BY DEF Carries, Has
    <3>2. end'[p].stop
      BY <1>1, <1>3, <1>5
    <3>3. Sound(end'[p], Stream(out[p]), end'[e])
      BY <1>1, <2>2, <2>4
    <3>4. Sound(end'[p], <<>>, end'[e])
      BY <3>1, <3>2, <3>3 DEF Sound
    <3> QED
      BY <1>1, <1>3, <1>6, <2>4, <3>4
  <2> QED
    BY <2>3, <2>4
<1> QED
  BY <1>7, <1>9, <1>10, <1>11, <1>12 DEF NetInv

(* The address of a connection that begins is free: nothing is held of it. *)
LEMMA ConnectInv ==
  ASSUME NetInv, NEW n \in Node, NEW m \in Node, Connect(n, m)
  PROVE  NetInv'
<1>1. PICK c : c = CHOOSE d \in Conn : Free(d)
  OBVIOUS
<1>2. PICK y : y = Written(Opened, Nothing, "request")
  OBVIOUS
<1>3. /\ c \in Conn /\ Free(c) /\ n # m
      /\ UNCHANGED <<held, broken>> /\ dialing' \subseteq dialing
      /\ conn' = [conn EXCEPT ![c] = [client |-> n, server |-> m]]
      /\ end' = [f \in End |-> IF f \in {<<c, side>> : side \in Side} THEN Opened ELSE end[f]]
      /\ out' = [f \in End |-> IF f \in {<<c, side>> : side \in Side} THEN y ELSE out[f]]
  BY <1>1, <1>2 DEF Connect, lists, NetInv, NetTypes
<1>4. \A f \in End : f \in {<<c, side>> : side \in Side} <=> f[1] = c
  BY DEF End, Side
<1>5. /\ end \in [End -> EndState] /\ out \in [End -> OutState] /\ held \in [Node -> SUBSET End]
      /\ conn = [d \in Conn |-> conn[d]]
  BY DEF NetInv, NetTypes
<1>6. \A f \in End : /\ end'[f] = IF f[1] = c THEN Opened ELSE end[f]
                     /\ out'[f] = IF f[1] = c THEN y ELSE out[f]
  BY <1>3, <1>4
<1>7. conn'[c] # None /\ \A d \in Conn : d # c => conn'[d] = conn[d]
  BY <1>3, <1>5 DEF None
<1>8. /\ Opened \in EndState /\ ~Opened.closed /\ ~Opened.stop /\ ~Opened.finished
      /\ ~Opened.trusts /\ ~Opened.trusted
  BY DEF Opened, EndState
<1>9. /\ y \in OutState /\ Pumped(y) /\ ~Has(Stream(y), "success") /\ ~Has(Stream(y), "data")
  <2>1. Nothing \in OutState /\ Pumped(Nothing) /\ Stream(Nothing) = <<>>
    <3>1. <<>> \in Seq(Message)
      OBVIOUS
    <3> QED
      BY <3>1, ConcatEmptySeq DEF Nothing, OutState, Pumped, Stream
  <2>2. y \in OutState /\ Pumped(y) /\ Stream(y) = Append(<<>>, "request")
    BY <1>2, <1>8, <2>1, WrittenStream, NetworkAssumption DEF Message
  <2>3. \A k : Has(Append(<<>>, "request"), k) <=> Has(<<>>, k) \/ k = "request"
    <3>1. <<>> \in Seq(Message) /\ "request" \in Message
      BY DEF Message
    <3> QED
      BY <3>1, AppendStep
  <2>4. \A k : ~Has(<<>>, k)
    BY DEF Has
  <2> QED
    BY <2>2, <2>3, <2>4
<1>10. NetTypes'
  <2>1. end' \in [End -> EndState] /\ out' \in [End -> OutState]
    BY <1>3, <1>5, <1>8, <1>9
  <2>2. conn' = [d \in Conn |-> conn'[d]]
    BY <1>3, <1>5
  <2> QED
    BY <1>3, <2>1, <2>2 DEF NetInv, NetTypes
<1>11. FinishInv'
  BY <1>3, <1>6, <1>8, <1>9 DEF NetInv, FinishInv
<1>12. FreeInv'
  <2> SUFFICES ASSUME NEW f \in End, conn'[f[1]] = None PROVE end'[f].closed
    BY DEF FreeInv, Free
  <2>1. f[1] # c /\ f[1] \in Conn
    BY <1>7 DEF End
  <2>2. conn[f[1]] = None
    BY <1>7, <2>1
  <2> QED
    BY <1>6, <2>1, <2>2 DEF NetInv, FreeInv, Free
<1>13. ASSUME NEW k \in Node, NEW f \in held'[k]
       PROVE  /\ f \in held[k] /\ end'[f] = end[f]
              /\ Owner(f)' = Owner(f) /\ Address(f)' = Address(f)
  <2>0. f \in held[k]
    BY <1>3
  <2>1. f \in End /\ ~end[f].closed
    BY <1>5, <2>0 DEF NetInv, HeldInv
  <2>2. f[1] # c /\ f[1] \in Conn
    BY <1>3, <2>1 DEF NetInv, FreeInv, End
  <2> QED
    BY <1>6, <1>7, <2>0, <2>1, <2>2 DEF Owner, Address, Peer
<1>14. HeldInv'
  BY <1>13 DEF NetInv, HeldInv
<1>16. TrustInv'
  <2> SUFFICES ASSUME NEW f \in End
               PROVE  Sound(end'[f], Stream(out'[f]), end'[Peer(f)])
    BY DEF TrustInv, Peer
  <2>1. Peer(f) \in End /\ Peer(f)[1] = f[1]
    BY PeerFacts
  <2>2. CASE f[1] = c
    <3>1. end'[f] = Opened /\ end'[Peer(f)] = Opened /\ out'[f] = y
      BY <1>6, <2>1, <2>2
    <3>2. Carries(Stream(y), Opened)
      BY <1>9 DEF Carries, Has
    <3>3. Sound(Opened, Stream(y), Opened)
      BY <1>8, <1>9, <3>2 DEF Sound
    <3> QED
      BY <3>1, <3>3
  <2>3. CASE f[1] # c
    BY <1>6, <2>1, <2>3 DEF NetInv, TrustInv
  <2> QED
    BY <2>2, <2>3
<1> QED
  BY <1>10, <1>11, <1>12, <1>14, <1>16 DEF NetInv

(* An end that closes is let go, and its connection is forgotten when the  *)
(* other end is closed too: the other end is then held by nobody.          *)
LEMMA OnCloseInv == ASSUME NetInv, NEW e \in End, OnClose(e) PROVE NetInv'
<1> DEFINE p == Peer(e)
           n == Owner(e)
           m == Address(e)
<1>1. /\ end \in [End -> EndState] /\ out \in [End -> OutState] /\ held \in [Node -> SUBSET End]
      /\ conn = [d \in Conn |-> conn[d]]
  BY DEF NetInv, NetTypes
<1>2. /\ p \in End /\ p # e /\ p[1] = e[1] /\ Peer(p) = e
      /\ \A f \in End : f[1] = e[1] => f = e \/ f = p
  BY PeerFacts
<1>3. /\ ~end[e].closed /\ (e[1] \in broken \/ end[e].finished)
      /\ end' = [end EXCEPT ![e] = Closed]
      /\ held' = [held EXCEPT ![n] = @ \ {e}]
      /\ dialing' = dialing
  BY DEF OnClose, Removed
<1>4. Closed \in EndState /\ Closed.closed /\ Closed.stop /\ ~Closed.trusts /\ ~Closed.trusted
  BY DEF Closed, EndState
<1>5. \A f \in End : end'[f] = IF f = e THEN Closed ELSE end[f]
  BY <1>1, <1>3
<1>6. \/ /\ ~end[p].closed /\ UNCHANGED <<conn, out, broken>>
      \/ /\ end[p].closed
         /\ conn' = [conn EXCEPT ![e[1]] = None]
         /\ out' = [out EXCEPT ![e] = Nothing, ![p] = Nothing]
         /\ broken' = broken \ {e[1]}
  BY DEF OnClose
<1>7. Nothing \in OutState /\ Pumped(Nothing) /\ Nothing.buffer = <<>> /\ Stream(Nothing) = <<>>
  <2>1. <<>> \in Seq(Message)
    OBVIOUS
  <2> QED
    BY <2>1, ConcatEmptySeq DEF Nothing, OutState, Pumped, Stream
<1>8. \A f \in End : f[1] # e[1] => out'[f] = out[f] /\ end'[f] = end[f]
                                    /\ (f[1] \in broken' <=> f[1] \in broken)
  BY <1>1, <1>2, <1>5, <1>6
<1>9. NetTypes'
  <2>1. end' \in [End -> EndState] /\ held' \in [Node -> SUBSET End]
    BY <1>1, <1>3, <1>4
  <2>2. out' \in [End -> OutState] /\ conn' = [d \in Conn |-> conn'[d]]
    BY <1>1, <1>6, <1>7
  <2> QED
    BY <1>3, <2>1, <2>2 DEF NetInv, NetTypes
<1>10. FinishInv'
  <2> SUFFICES ASSUME NEW f \in End
               PROVE  Pumped(out'[f])
                      /\ (end'[f].finished =>
                            end'[f].stop
                            /\ (out'[f].buffer = <<>> \/ (end'[f].closed /\ f[1] \in broken')))
    BY DEF FinishInv
  <2>0. \A g \in End :
          /\ Pumped(out[g])
          /\ end[g].finished =>
               end[g].stop /\ (out[g].buffer = <<>> \/ (end[g].closed /\ g[1] \in broken))
    BY DEF NetInv, FinishInv
  <2>1. CASE f[1] # e[1]
    BY <1>8, <2>0, <2>1
  <2>2. CASE f[1] = e[1] /\ end[p].closed
    <3>1. out'[f] = Nothing
      BY <1>1, <1>2, <1>6, <2>2
    <3>2. end'[f].finished => end'[f].stop
      BY <1>4, <1>5, <2>0
    <3> QED
      BY <1>7, <3>1, <3>2
  <2>3. CASE f = e /\ ~end[p].closed
    BY <1>3, <1>4, <1>5, <1>6, <2>0, <2>3
  <2>4. CASE f = p /\ ~end[p].closed
    BY <1>2, <1>5, <1>6, <2>0, <2>4
  <2> QED
    BY <1>2, <2>1, <2>2, <2>3, <2>4
<1>11. FreeInv'
  <2> SUFFICES ASSUME NEW f \in End, conn'[f[1]] = None PROVE end'[f].closed
    BY DEF FreeInv, Free
  <2>1. CASE f[1] # e[1]
    <3>1. conn'[f[1]] = conn[f[1]]
      BY <1>1, <1>6, <2>1 DEF End
    <3> QED
      BY <1>8, <2>1, <3>1 DEF NetInv, FreeInv, Free
  <2>2. CASE f[1] = e[1]
    <3>1. CASE end[p].closed
      BY <1>2, <1>4, <1>5, <2>2, <3>1
    <3>2. CASE ~end[p].closed
      BY <1>4, <1>5, <1>6, <2>2, <3>2 DEF NetInv, FreeInv, Free
    <3> QED
      BY <3>1, <3>2
  <2> QED
    BY <2>1, <2>2
<1>12. \A k \in Node : held'[k] = held[k] \ {e}
  <2> SUFFICES ASSUME NEW k \in Node, k # n PROVE e \notin held[k]
    BY <1>1, <1>3
  <2> QED
    BY DEF NetInv, HeldInv
<1>13. ASSUME NEW k \in Node, NEW f \in held'[k]
       PROVE  /\ f \in held[k] /\ f # e /\ end'[f] = end[f]
              /\ Owner(f)' = Owner(f) /\ Address(f)' = Address(f)
  <2>1. f \in held[k] /\ f # e /\ f \in End
    BY <1>1, <1>12
  <2>2. end'[f] = end[f]
    BY <1>5, <2>1
  <2>3. conn'[f[1]] = conn[f[1]]
    <3>1. CASE ~end[p].closed
      BY <1>6, <3>1
    <3>2. CASE end[p].closed
      <4>1. f # p
        BY <2>1, <3>2 DEF NetInv, HeldInv
      <4>2. f[1] # e[1]
        BY <1>2, <2>1, <4>1
      <4> QED
        BY <1>1, <1>6, <2>1, <3>2, <4>2 DEF End
    <3> QED
      BY <3>1, <3>2
  <2> QED
    BY <2>1, <2>2, <2>3 DEF Owner, Address, Peer
<1>14. HeldInv'
  BY <1>13 DEF NetInv, HeldInv
<1>16. TrustInv'
  <2> SUFFICES ASSUME NEW f \in End
               PROVE  Sound(end'[f], Stream(out'[f]), end'[Peer(f)])
    BY DEF TrustInv, Peer
  <2>0. Sound(end[f], Stream(out[f]), end[Peer(f)])
    BY DEF NetInv, TrustInv
  <2>1. CASE f[1] # e[1]
    <3>1. Peer(f) \in End /\ Peer(f)[1] # e[1]
      BY <2>1, PeerFacts
    <3> QED
      BY <1>8, <2>0, <2>1, <3>1
  <2>2. CASE f[1] = e[1] /\ end[p].closed
    <3>1. end'[f].closed /\ end'[Peer(f)].closed
      BY <1>2, <1>4, <1>5, <2>2
    <3> QED
      BY <3>1 DEF Sound
  <2>3. CASE f = e /\ ~end[p].closed
    <3>1. end'[e] = Closed /\ end'[p] = end[p] /\ out'[e] = out[e]
      BY <1>2, <1>5, <1>6, <2>3
    <3> QED
      BY <1>4, <2>0, <2>3, <3>1 DEF Sound
  <2>4. CASE f = p /\ ~end[p].closed
    <3>1. end'[e] = Closed /\ end'[p] = end[p] /\ out'[p] = out[p]
      BY <1>2, <1>5, <1>6, <2>4
    <3> QED
      BY <1>2, <1>4, <2>0, <2>4, <3>1 DEF Sound
  <2> QED
    BY <1>2, <2>1, <2>2, <2>3, <2>4
<1> QED
  BY <1>9, <1>10, <1>11, <1>14, <1>16 DEF NetInv

(* What a node that exits leaves: its ends closed, connections forgotten   *)
(* of which no other end is open, and broken where one is.                 *)
LEMMA Restarted ==
  ASSUME NetInv, NEW n \in Node, Restart(n)
  PROVE  /\ \A f \in End : /\ end'[f] = IF f \in OpenEnds(n) THEN Closed ELSE end[f]
                           /\ out'[f] = IF f[1] \in LastOf(n) THEN Nothing ELSE out[f]
                           /\ f[1] \in LastOf(n) => end'[f].closed
                           /\ ~end[f].closed /\ Owner(f) # n => f[1] \notin LastOf(n)
                           /\ f \in OpenEnds(n) /\ f[1] \notin LastOf(n) => f[1] \in broken'
         /\ \A c \in Conn : conn'[c] = IF c \in LastOf(n) THEN None ELSE conn[c]
         /\ \A c \in broken : c \in LastOf(n) \/ c \in broken'
         /\ \A k \in Node : held'[k] = IF k = n THEN {} ELSE held[k]
         /\ dialing' \subseteq dialing
<1>1. /\ end' = [e \in End |-> IF e \in OpenEnds(n) THEN Closed ELSE end[e]]
      /\ conn' = [c \in Conn |-> IF c \in LastOf(n) THEN None ELSE conn[c]]
      /\ out' = [e \in End |-> IF e[1] \in LastOf(n) THEN Nothing ELSE out[e]]
      /\ broken' = (broken \cup {e[1] : e \in OpenEnds(n)}) \ LastOf(n)
      /\ held' = [held EXCEPT ![n] = {}] /\ held \in [Node -> SUBSET End]
      /\ dialing' = {d \in dialing : d[1] # n}
  BY DEF Restart, NetInv, NetTypes
<1>2. ASSUME NEW f \in End, f[1] \in LastOf(n) PROVE end[f].closed \/ Owner(f) = n
  <2>1. f = <<f[1], f[2]>> /\ f[2] \in Side
    BY DEF End
  <2> QED
    BY <1>2, <2>1 DEF LastOf
<1>3. ASSUME NEW f \in End, f[1] \in LastOf(n) PROVE end'[f].closed
  <2>1. CASE f \in OpenEnds(n)
    BY <1>1, <2>1 DEF Closed
  <2>2. CASE f \notin OpenEnds(n)
    BY <1>1, <1>2, <1>3, <2>2 DEF OpenEnds
  <2> QED
    BY <2>1, <2>2
<1> QED
  BY <1>1, <1>2, <1>3

(* A node that exits holds nothing, and its closed ends expect nothing.    *)
LEMMA RestartInv == ASSUME NetInv, NEW n \in Node, Restart(n) PROVE NetInv'
<1>1. /\ end \in [End -> EndState] /\ out \in [End -> OutState] /\ held \in [Node -> SUBSET End]
  BY DEF NetInv, NetTypes
<1>2. /\ Closed \in EndState /\ Closed.closed /\ Closed.stop /\ ~Closed.trusts /\ ~Closed.trusted
  BY DEF Closed, EndState
<1>3. Nothing \in OutState /\ Pumped(Nothing) /\ Nothing.buffer = <<>>
  <2>1. <<>> \in Seq(Message)
    OBVIOUS
  <2> QED
    BY <2>1 DEF Nothing, OutState, Pumped
<1>4. NetTypes'
  <2>1. \A f \in End : end'[f] \in EndState /\ out'[f] \in OutState
    BY <1>1, <1>2, <1>3, Restarted
  <2>2. /\ end' = [f \in End |-> end'[f]] /\ out' = [f \in End |-> out'[f]]
        /\ conn' = [c \in Conn |-> conn'[c]]
    BY DEF Restart
  <2>3. held' \in [Node -> SUBSET End]
    BY <1>1 DEF Restart
  <2>4. \A d \in dialing' : d[1] # d[2]
    BY Restarted DEF NetInv, NetTypes
  <2> QED
    BY <2>1, <2>2, <2>3, <2>4 DEF NetTypes
<1>5. FinishInv'
  <2> SUFFICES ASSUME NEW f \in End
               PROVE  Pumped(out'[f])
                      /\ (end'[f].finished =>
                            end'[f].stop
                            /\ (out'[f].buffer = <<>> \/ (end'[f].closed /\ f[1] \in broken')))
    BY DEF FinishInv
  <2>0. /\ Pumped(out[f])
        /\ end[f].finished =>
             end[f].stop /\ (out[f].buffer = <<>> \/ (end[f].closed /\ f[1] \in broken))
    BY DEF NetInv, FinishInv
  <2>1. CASE f \in OpenEnds(n)
    <3>1. end'[f] = Closed
      BY <2>1, Restarted
    <3>2. CASE f[1] \in LastOf(n)
      BY <1>2, <1>3, <3>1, <3>2, Restarted
    <3>3. CASE f[1] \notin LastOf(n)
      <4>1. out'[f] = out[f] /\ f[1] \in broken'
        BY <2>1, <3>3, Restarted
      <4> QED
        BY <1>2, <2>0, <3>1, <4>1
    <3> QED
      BY <3>2, <3>3
  <2>2. CASE f \notin OpenEnds(n)
    <3>1. end'[f] = end[f]
      BY <2>2, Restarted
    <3>2. CASE f[1] \in LastOf(n)
      BY <1>3, <2>0, <3>1, <3>2, Restarted
    <3>3. CASE f[1] \notin LastOf(n)
      <4>1. out'[f] = out[f] /\ (f[1] \in broken => f[1] \in broken')
        BY <3>3, Restarted
      <4> QED
        BY <2>0, <3>1, <4>1
    <3> QED
      BY <3>2, <3>3
  <2> QED
    BY <2>1, <2>2
<1>6. FreeInv'
  <2> SUFFICES ASSUME NEW f \in End, conn'[f[1]] = None PROVE end'[f].closed
    BY DEF FreeInv, Free
  <2>1. f[1] \in Conn
    BY DEF End
  <2>2. CASE f[1] \in LastOf(n)
    BY <2>2, Restarted
  <2>3. CASE f[1] \notin LastOf(n)
    <3>1. conn[f[1]] = None
      BY <2>1, <2>3, Restarted
    <3>2. end[f].closed
      BY <3>1 DEF NetInv, FreeInv, Free
    <3> QED
      BY <1>2, <3>2, Restarted
  <2> QED
    BY <2>2, <2>3
<1>7. ASSUME NEW k \in Node, NEW f \in held'[k]
      PROVE  /\ k # n /\ f \in held[k] /\ end'[f] = end[f]
             /\ Owner(f)' = Owner(f) /\ Address(f)' = Address(f)
  <2>1. k # n /\ f \in held[k]
    BY <1>7, Restarted
  <2>2. f \in End /\ ~end[f].closed /\ Owner(f) = k
    BY <1>1, <2>1 DEF NetInv, HeldInv
  <2>3. f[1] \notin LastOf(n) /\ f \notin OpenEnds(n) /\ f[1] \in Conn
    BY <2>1, <2>2, Restarted DEF OpenEnds, End
  <2>4. end'[f] = end[f] /\ conn'[f[1]] = conn[f[1]]
    BY <2>2, <2>3, Restarted
  <2> QED
    BY <2>1, <2>4 DEF Owner, Address, Peer
<1>8. HeldInv'
  BY <1>7 DEF NetInv, HeldInv
<1>9. TrustInv'
  <2> SUFFICES ASSUME NEW f \in End
               PROVE  Sound(end'[f], Stream(out'[f]), end'[Peer(f)])
    BY DEF TrustInv, Peer
  <2>0. Sound(end[f], Stream(out[f]), end[Peer(f)]) /\ Peer(f) \in End /\ Peer(f)[1] = f[1]
    BY PeerFacts DEF NetInv, TrustInv
  <2>1. CASE f[1] \in LastOf(n)
    <3>1. end'[f].closed /\ end'[Peer(f)].closed
      BY <2>0, <2>1, Restarted
    <3> QED
      BY <3>1 DEF Sound
  <2>2. CASE f[1] \notin LastOf(n)
    <3>1. /\ out'[f] = out[f]
          /\ end'[f] = end[f] \/ end'[f] = Closed
          /\ end'[Peer(f)] = end[Peer(f)] \/ end'[Peer(f)] = Closed
      BY <2>0, <2>2, Restarted
    <3> QED
      BY <1>2, <2>0, <3>1 DEF Sound
  <2> QED
    BY <2>1, <2>2
<1> QED
  BY <1>4, <1>5, <1>6, <1>8, <1>9 DEF NetInv

(***************************************************************************)
(* The invariant of every behaviour.                                       *)
(***************************************************************************)
LEMMA NetInvInit == Init => NetInv
<1> SUFFICES ASSUME Init PROVE NetInv
  OBVIOUS
<1>1. /\ Closed \in EndState /\ Closed.closed /\ Closed.stop /\ ~Closed.trusts
  BY DEF Closed, EndState
<1>2. Nothing \in OutState /\ Nothing.buffer = <<>> /\ Stream(Nothing) = <<>>
  <2>1. <<>> \in Seq(Message)
    OBVIOUS
  <2> QED
    BY <2>1, ConcatEmptySeq DEF Nothing, OutState, Stream
<1>3. \A f \in End : end[f] = Closed /\ out[f] = Nothing
  BY DEF Init
<1>4. \A n \in Node : held[n] = {}
  BY DEF Init
<1>5. NetTypes
  BY <1>1, <1>2 DEF Init, NetTypes
<1>6. FinishInv
  BY <1>1, <1>2, <1>3 DEF FinishInv, Pumped
<1>7. FreeInv
  BY <1>1, <1>3 DEF FreeInv
<1>8. HeldInv
  BY <1>4 DEF HeldInv
<1>9. TrustInv
  BY <1>1, <1>3, PeerFacts DEF TrustInv, Sound
<1> QED
  BY <1>5, <1>6, <1>7, <1>8, <1>9 DEF NetInv

(* So every step keeps the invariant. *)
LEMMA NetInvNext == ASSUME NetInv, [Next]_vars PROVE NetInv'
<1>1. CASE UNCHANGED vars
  <2>1. /\ UNCHANGED <<conn, end, out, held>>
        /\ broken \subseteq broken' /\ dialing' \subseteq dialing
    BY <1>1 DEF vars
  <2> QED
    BY <2>1, ListsInv
<1>2. ASSUME NEW n \in Node, NEW m \in Node,
             BeginDial(n, m) \/ Connect(n, m) \/ DialFails(n, m) \/ SettleUpdate(n, m)
             \/ AddNode(n, m) \/ DeleteNode(n, m) \/ Exclude(n, m) \/ Readmit(n, m)
      PROVE  NetInv'
  BY <1>2, BeginDialInv, ConnectInv, ListActionsInv
<1>3. ASSUME NEW n \in Node, FlushUnlToMemory(n) \/ ClearConnections(n) \/ Restart(n)
      PROVE  NetInv'
  BY <1>3, ListActionsInv, ClearConnectionsInv, RestartInv
<1>4. ASSUME NEW e \in End, Receive(e)
      PROVE  NetInv'
  BY <1>4, OnRequestInv, OnResponseInv, OnWrongResponseInv, OnSuccessInv, OnFailedInv, OnDataInv
     DEF Receive
<1>5. ASSUME NEW e \in End, Split(e) \/ Send(e) \/ Drain(e)
      PROVE  NetInv'
  <2>1. CASE Split(e)
    BY <2>1, SplitInv
  <2>2. CASE Send(e)
    <3>1. PICK n \in Node : e \in held[n]
      BY <2>2 DEF Send
    <3> QED
      BY <2>2, <3>1, SendInv
  <2>3. CASE Drain(e)
    BY <2>3, DrainInv
  <2> QED
    BY <1>5, <2>1, <2>2, <2>3
<1>6. ASSUME NEW e \in End,
             Finish(e) \/ FinishLate(e) \/ OnEnd(e) \/ OnClose(e)
             \/ AuthorizeTimeout(e) \/ IdleTimeout(e)
      PROVE  NetInv'
  BY <1>6, TimeoutsInv, FinishLateInv, OnEndInv, OnCloseInv
<1>7. ASSUME NEW c \in Conn, Break(c)
      PROVE  NetInv'
  BY <1>7, BreakInv
<1> QED
  BY <1>1, <1>2, <1>3, <1>4, <1>5, <1>6, <1>7 DEF Next

(* The invariant holds throughout, whichever faults happen and whenever.   *)
THEOREM NetInvariance == Spec => []NetInv
<1>1. NetInv /\ [Next]_vars => NetInv'
  BY NetInvNext
<1> QED
  BY <1>1, NetInvInit, PTL DEF Spec

(* Data never reaches an end that Connection.parse would drop it at: the   *)
(* order of the streams brings the success message before it.              *)
THEOREM DataArrives == Spec => []NothingDropped
<1>1. NetInv => NothingDropped
  <2> SUFFICES ASSUME NetInv, NEW e \in End, Readable(e, "data")
               PROVE  Authorised(end[e])
    BY DEF NothingDropped
  <2> DEFINE p == Peer(e)
  <2>1. p \in End /\ Peer(p) = e /\ out[p] \in OutState
    BY PeerFacts DEF NetInv, NetTypes
  <2>2. out[p].wire # <<>> /\ Head(out[p].wire) = "data" /\ ~end[e].closed
    BY DEF Readable, Incoming
  <2>3. PICK s : s = Stream(out[p])
    OBVIOUS
  <2>4. s \in Seq(Message) /\ s # <<>> /\ Head(s) = "data"
    BY <2>1, <2>2, <2>3, WireRead
  <2>5. 1 \in 1 .. Len(s) /\ s[1] = "data"
    <3>1. Len(s) \in Nat /\ Len(s) # 0 /\ Head(s) = s[1]
      BY <2>4, LenProperties, EmptySeq
    <3> QED
      BY <2>4, <3>1
  <2>6. Sound(end[p], s, end[e])
    BY <2>1, <2>3 DEF NetInv, TrustInv
  <2>7. Carries(s, end[e])
    BY <2>2, <2>6 DEF Sound
  <2>8. end[e].trusts /\ (end[e].trusted \/ \E j \in 1 .. 1 - 1 : s[j] = "success")
    BY <2>5, <2>7 DEF Carries
  <2> QED
    BY <2>8 DEF Authorised
<1> QED
  BY <1>1, NetInvariance, PTL

(* A manager holds one connection for an address, and none that is closed, *)
(* however often two nodes dial each other at the same time.               *)
THEOREM OneConnection == Spec => []HeldOnce
<1>1. NetInv => HeldOnce
  BY DEF NetInv, HeldInv, HeldOnce
<1> QED
  BY <1>1, NetInvariance, PTL

(***************************************************************************)
(* Connections that both nodes hold.                                       *)
(***************************************************************************)
Placed ==
  /\ conn \in [Conn -> [client : Node, server : Node] \cup {None}]
  /\ faults \in Nat

(* A fault is counted, up to the bound. *)
LEMMA FaultsChange ==
  ASSUME [Next]_vars
  PROVE  faults' = faults \/ (faults < bound.faults /\ faults' = faults + 1)
<1>1. ASSUME NEW e \in End, Receive(e) PROVE faults' = faults \/ (faults < bound.faults /\ faults' = faults + 1)
  BY <1>1 DEF Fault, Receive, OnRequest, OnResponse, OnWrongResponse, OnSuccess, OnFailed, OnData
<1>2. ASSUME NEW e \in End,
             \/ Split(e) \/ Send(e) \/ Drain(e) \/ Finish(e) \/ FinishLate(e)
             \/ OnEnd(e) \/ OnClose(e) \/ AuthorizeTimeout(e) \/ IdleTimeout(e)
      PROVE  faults' = faults \/ (faults < bound.faults /\ faults' = faults + 1)
  BY <1>2 DEF Fault, Split, Send, Drain, Finish, FinishLate, OnEnd, OnClose, AuthorizeTimeout,
    IdleTimeout
<1>3. ASSUME NEW n \in Node, NEW m \in Node,
             \/ BeginDial(n, m) \/ Connect(n, m) \/ DialFails(n, m) \/ SettleUpdate(n, m)
             \/ AddNode(n, m) \/ DeleteNode(n, m) \/ Exclude(n, m) \/ Readmit(n, m)
      PROVE  faults' = faults \/ (faults < bound.faults /\ faults' = faults + 1)
  BY <1>3 DEF Fault, BeginDial, Connect, DialFails, SettleUpdate, AddNode, DeleteNode, Exclude,
    Readmit
<1>4. ASSUME NEW n \in Node, FlushUnlToMemory(n) \/ ClearConnections(n) \/ Restart(n)
      PROVE  faults' = faults \/ (faults < bound.faults /\ faults' = faults + 1)
  BY <1>4 DEF Fault, FlushUnlToMemory, ClearConnections, Restart
<1>5. ASSUME NEW c \in Conn, Break(c) PROVE faults' = faults \/ (faults < bound.faults /\ faults' = faults + 1)
  BY <1>5 DEF Fault, Break
<1>6. CASE UNCHANGED vars
  BY <1>6 DEF vars
<1> QED
  BY <1>1, <1>2, <1>3, <1>4, <1>5, <1>6 DEF Next

(* Connections are between nodes, and faults are counted.                  *)
LEMMA PlacedInvariance == Spec => []Placed
<1>1. Init => Placed
  BY DEF Init, Placed
<1>2. ASSUME Placed, [Next]_vars PROVE Placed'
  <2>1. faults' \in Nat
    <3>1. faults' = faults \/ faults' = faults + 1
      BY <1>2, FaultsChange
    <3> QED
      BY <1>2, <3>1 DEF Placed
  <2>2. ASSUME NEW n \in Node, NEW m \in Node, Connect(n, m)
        PROVE  conn' \in [Conn -> [client : Node, server : Node] \cup {None}]
    <3>1. PICK c : c = CHOOSE d \in Conn : Free(d)
      OBVIOUS
    <3>2. conn' = [conn EXCEPT ![c] = [client |-> n, server |-> m]]
      BY <2>2, <3>1 DEF Connect
    <3> QED
      BY <1>2, <3>2 DEF Placed
  <2>3. ASSUME NEW e \in End, OnClose(e)
        PROVE  conn' \in [Conn -> [client : Node, server : Node] \cup {None}]
    <3>1. conn' = conn \/ conn' = [conn EXCEPT ![e[1]] = None]
      BY <2>3 DEF OnClose
    <3> QED
      BY <1>2, <3>1 DEF Placed
  <2>4. ASSUME NEW n \in Node, Restart(n)
        PROVE  conn' \in [Conn -> [client : Node, server : Node] \cup {None}]
    BY <1>2, <2>4 DEF Restart, Placed
  <2>5. ASSUME NEW n \in Node, NEW m \in Node,
               \/ BeginDial(n, m) \/ DialFails(n, m) \/ SettleUpdate(n, m) \/ AddNode(n, m)
               \/ DeleteNode(n, m) \/ Exclude(n, m) \/ Readmit(n, m)
        PROVE  conn' = conn
    BY <2>5 DEF BeginDial, DialFails, SettleUpdate, AddNode, DeleteNode, Exclude, Readmit
  <2>6. ASSUME NEW n \in Node, FlushUnlToMemory(n) \/ ClearConnections(n) PROVE conn' = conn
    BY <2>6 DEF FlushUnlToMemory, ClearConnections
  <2>7. ASSUME NEW e \in End, Receive(e) PROVE conn' = conn
    BY <2>7 DEF Receive, OnRequest, OnResponse, OnWrongResponse, OnSuccess, OnFailed, OnData, Read
  <2>8. ASSUME NEW e \in End,
               \/ Split(e) \/ Send(e) \/ Drain(e) \/ Finish(e) \/ FinishLate(e) \/ OnEnd(e)
               \/ AuthorizeTimeout(e) \/ IdleTimeout(e)
        PROVE  conn' = conn
    BY <2>8 DEF Split, Send, Drain, Finish, FinishLate, OnEnd, AuthorizeTimeout, IdleTimeout
  <2>9. ASSUME NEW c \in Conn, Break(c) PROVE conn' = conn
    BY <2>9 DEF Break
  <2>10. \/ conn' = conn
         \/ \E n, m \in Node : Connect(n, m)
         \/ \E e \in End : OnClose(e)
         \/ \E n \in Node : Restart(n)
    BY <1>2, <2>5, <2>6, <2>7, <2>8, <2>9 DEF Next, vars
  <2> QED
    BY <1>2, <2>1, <2>2, <2>3, <2>4, <2>10 DEF Placed
<1> QED
  BY <1>1, <1>2, PTL DEF Spec

(* What an established connection is made of. *)
LEMMA EstablishedFacts ==
  ASSUME NetInv, Placed, NEW c \in Conn, Established(c)
  PROVE  /\ conn[c] # None /\ c \notin broken
         /\ \A side \in Side :
              LET e == <<c, side>>
              IN  /\ e \in End /\ Owner(e) \in Node /\ e \in held[Owner(e)]
                  /\ ~end[e].stop /\ ~end[e].finished /\ ~end[e].closed /\ end[e].settled
<1>1. conn[c] # None /\ c \notin broken
  BY DEF Established, Free
<1>2. conn[c] \in [client : Node, server : Node]
  BY <1>1 DEF Placed
<1>3. ASSUME NEW side \in Side, NEW e, e = <<c, side>>
      PROVE  /\ e \in End /\ Owner(e) \in Node /\ e \in held[Owner(e)]
             /\ ~end[e].stop /\ ~end[e].finished /\ ~end[e].closed /\ end[e].settled
  <2>1. e \in End /\ e[1] = c /\ e[2] = side
    BY <1>3 DEF End
  <2>2. Owner(e) \in Node
    BY <1>2, <2>1 DEF Owner, Side
  <2>3. e \in held[Owner(e)] /\ ~end[e].stop
    BY <1>3 DEF Established
  <2>4. ~end[e].finished
    BY <2>1, <2>3 DEF NetInv, FinishInv
  <2>5. ~end[e].closed /\ end[e].settled
    BY <2>2, <2>3 DEF NetInv, HeldInv
  <2> QED
    BY <2>1, <2>2, <2>3, <2>4, <2>5
<1> QED
  BY <1>1, <1>3

(* It stays one while both its ends are held and not told to stop. *)
LEMMA StaysEstablished ==
  ASSUME NetInv, Placed, NEW c \in Conn, Established(c),
         conn'[c] = conn[c], c \notin broken',
         \A n \in Node : \A e \in held[n] : e[1] = c => e \in held'[n],
         \A e \in End : e[1] = c /\ ~end[e].stop => ~end'[e].stop
  PROVE  Established(c)'
<1>1. ASSUME NEW side \in Side, NEW e, e = <<c, side>>
      PROVE  e \in held'[Owner(e)'] /\ ~end'[e].stop
  <2>1. e[1] = c /\ Owner(e)' = Owner(e)
    BY <1>1 DEF Owner
  <2>2. e \in End /\ Owner(e) \in Node /\ e \in held[Owner(e)] /\ ~end[e].stop
    BY <1>1, EstablishedFacts
  <2> QED
    BY <2>1, <2>2
<1> QED
  BY <1>1, EstablishedFacts DEF Established, Free

(* A step without a fault keeps it while both nodes list each other.       *)
LEMMA EstablishedStep ==
  ASSUME NetInv, Placed, [Next]_vars, faults' = faults,
         NEW c \in Conn, Established(c), ~Unlisting(c)
  PROVE  Established(c)'
<1>1. end \in [End -> EndState] /\ held \in [Node -> SUBSET End]
  BY DEF NetInv, NetTypes
<1>2. ~Fault("slow") /\ \A kind : ~Fault(kind)
  BY DEF Fault, Placed
<1>3. CASE UNCHANGED <<conn, broken, held, end>>
  BY <1>3, StaysEstablished, EstablishedFacts
<1>4. ASSUME NEW n \in Node, NEW m \in Node, Connect(n, m)
      PROVE  Established(c)'
  <2>1. PICK d : d = CHOOSE b \in Conn : Free(b)
    OBVIOUS
  <2>2. /\ d \in Conn /\ conn[d] = None /\ UNCHANGED <<held, broken>>
        /\ conn' = [conn EXCEPT ![d] = [client |-> n, server |-> m]]
        /\ end' = [f \in End |-> IF f \in {<<d, side>> : side \in Side} THEN Opened ELSE end[f]]
    BY <1>4, <2>1 DEF Connect, Free
  <2>3. d # c /\ conn'[c] = conn[c]
    BY <2>2, EstablishedFacts DEF Placed
  <2>4. \A f \in End : f[1] = c => end'[f] = end[f]
    BY <2>2, <2>3
  <2> QED
    BY <2>2, <2>3, <2>4, StaysEstablished, EstablishedFacts
<1>5. ASSUME NEW n \in Node, ClearConnections(n)
      PROVE  Established(c)'
  <2>1. /\ UNCHANGED <<conn, held, broken>>
        /\ end' = [f \in End |-> IF f \in ToClear(n) THEN Shut(end[f], out[f]) ELSE end[f]]
    BY <1>5 DEF ClearConnections
  <2>2. ASSUME NEW f \in End, f[1] = c PROVE f \notin ToClear(n)
    <3>1. f = <<c, f[2]>> /\ f[2] \in Side
      BY <2>2 DEF End
    <3>2. Listed(Owner(f), Address(f))
      BY <3>1 DEF Unlisting
    <3> QED
      BY <3>2 DEF ToClear, NetInv, HeldInv
  <2> QED
    BY <2>1, <2>2, StaysEstablished, EstablishedFacts
<1>6. ASSUME NEW e \in End, NEW s \in EndState, NEW x \in OutState,
             Trust(e, s, x), UNCHANGED <<conn, broken>>, ~end[e].closed,
             Grown(end[e], s), s.stop = end[e].stop
      PROVE  Established(c)'
  <2>1. \A n \in Node : held[n] \subseteq held'[n]
    BY <1>6, TrustStep
  <2>2. PICK t : end' = [end EXCEPT ![e] = t] /\ (s.settled => t = s)
    BY <1>6, TrustStep
  <2>3. ASSUME NEW f \in End, f[1] = c, ~end[f].stop PROVE ~end'[f].stop
    <3>1. CASE f # e
      BY <1>1, <2>2, <2>3, <3>1
    <3>2. CASE f = e
      <4>1. f = <<c, f[2]>> /\ f[2] \in Side
        BY <2>3 DEF End
      <4>2. end[f].settled
        BY <4>1, EstablishedFacts
      <4>3. t = s
        BY <1>6, <2>2, <3>2, <4>2 DEF Grown
      <4> QED
        BY <1>1, <1>6, <2>2, <2>3, <3>2, <4>3
    <3> QED
      BY <3>1, <3>2
  <2> QED
    BY <1>6, <2>1, <2>3, StaysEstablished, EstablishedFacts
<1>7. ASSUME NEW e \in End, OnResponse(e)
      PROVE  Established(c)'
  <2>1. PICK s : s = [end[e] EXCEPT !.trusts = TRUE]
    OBVIOUS
  <2>2. PICK x : x = Written(s, out[e], "success")
    OBVIOUS
  <2>3. s \in EndState /\ s.stop = end[e].stop /\ Grown(end[e], s)
    BY <1>1, <2>1 DEF EndState, Grown
  <2>4. x \in OutState
    BY <2>2, <2>3, WrittenFacts DEF Message
  <2>5. Trust(e, s, x) /\ UNCHANGED <<conn, broken>> /\ ~end[e].closed
    BY <1>7, <2>1, <2>2 DEF OnResponse, Read, Readable
  <2> QED
    BY <1>6, <2>3, <2>4, <2>5
<1>8. ASSUME NEW e \in End, OnSuccess(e)
      PROVE  Established(c)'
  <2>1. PICK s : s = [end[e] EXCEPT !.trusted = TRUE]
    OBVIOUS
  <2>2. s \in EndState /\ s.stop = end[e].stop /\ Grown(end[e], s)
    BY <1>1, <2>1 DEF EndState, Grown
  <2>3. out[e] \in OutState
    BY DEF NetInv, NetTypes
  <2>4. Trust(e, s, out[e]) /\ UNCHANGED <<conn, broken>> /\ ~end[e].closed
    BY <1>8, <2>1 DEF OnSuccess, Read, Readable
  <2> QED
    BY <1>6, <2>2, <2>3, <2>4
<1>9. ASSUME NEW e \in End, OnFailed(e)
      PROVE  Established(c)'
  <2>1. /\ UNCHANGED <<conn, held, broken>>
        /\ end' = [end EXCEPT ![e] = Failed(e, end[e], out[e])]
    BY <1>9 DEF OnFailed, Read
  <2>2. ASSUME NEW f \in End, f[1] = c PROVE end'[f] = end[f]
    <3>1. f = <<c, f[2]>> /\ f[2] \in Side
      BY <2>2 DEF End
    <3>2. end[f].settled
      BY <3>1, EstablishedFacts
    <3> QED
      BY <1>1, <2>1, <3>2 DEF Failed
  <2> QED
    BY <2>1, <2>2, StaysEstablished, EstablishedFacts
<1>10. ASSUME NEW e \in End, Finish(e)
       PROVE  Established(c)'
  <2>1. UNCHANGED <<conn, held, broken>> /\ end' = [end EXCEPT ![e].finished = TRUE]
    BY <1>10 DEF Finish
  <2>2. \A f \in End : end'[f].stop = end[f].stop
    BY <1>1, <2>1 DEF EndState
  <2> QED
    BY <2>1, <2>2, StaysEstablished, EstablishedFacts
<1>11. ASSUME NEW e \in End, OnEnd(e)
       PROVE  Established(c)'
  <2>1. /\ UNCHANGED <<conn, held, broken>> /\ end[Peer(e)].finished
        /\ end' = [end EXCEPT ![e] = Ended(e)]
    BY <1>11 DEF OnEnd
  <2>2. e[1] # c
    <3> SUFFICES ASSUME e[1] = c PROVE FALSE
      OBVIOUS
    <3>1. Peer(e) = <<c, Peer(e)[2]>> /\ Peer(e)[2] \in Side
      BY PeerFacts DEF End
    <3> QED
      BY <2>1, <3>1, EstablishedFacts
  <2>3. \A f \in End : f[1] = c => end'[f] = end[f]
    BY <1>1, <2>1, <2>2
  <2> QED
    BY <2>1, <2>3, StaysEstablished, EstablishedFacts
<1>12. ASSUME NEW e \in End, OnClose(e)
       PROVE  Established(c)'
  <2>1. /\ e[1] \in broken \/ end[e].finished
        /\ end' = [end EXCEPT ![e] = Closed]
        /\ held' = [held EXCEPT ![Owner(e)] = @ \ {e}]
        /\ conn' = conn \/ conn' = [conn EXCEPT ![e[1]] = None]
        /\ broken' \subseteq broken
    BY <1>12 DEF OnClose, Removed
  <2>2. e[1] # c
    <3> SUFFICES ASSUME e[1] = c PROVE FALSE
      OBVIOUS
    <3>1. e = <<c, e[2]>> /\ e[2] \in Side
      BY DEF End
    <3> QED
      BY <2>1, <3>1, EstablishedFacts
  <2>3. \A f \in End : f[1] = c => end'[f] = end[f]
    BY <1>1, <2>1, <2>2
  <2>4. conn'[c] = conn[c]
    BY <2>1, <2>2 DEF Placed
  <2>5. \A n \in Node : \A f \in held[n] : f[1] = c => f \in held'[n]
    BY <1>1, <2>1, <2>2
  <2> QED
    BY <2>1, <2>3, <2>4, <2>5, StaysEstablished, EstablishedFacts
<1>13. ASSUME NEW n \in Node, NEW m \in Node,
              BeginDial(n, m) \/ DialFails(n, m) \/ SettleUpdate(n, m) \/ AddNode(n, m)
              \/ DeleteNode(n, m) \/ Exclude(n, m) \/ Readmit(n, m)
       PROVE  Established(c)'
  BY <1>2, <1>3, <1>13
     DEF BeginDial, DialFails, SettleUpdate, AddNode, DeleteNode, Exclude, Readmit
<1>14. ASSUME NEW n \in Node, FlushUnlToMemory(n)
       PROVE  Established(c)'
  BY <1>3, <1>14 DEF FlushUnlToMemory
<1>15. ASSUME NEW e \in End,
              OnRequest(e) \/ OnData(e) \/ Send(e) \/ Drain(e)
       PROVE  Established(c)'
  BY <1>3, <1>15 DEF OnRequest, OnData, Read, Send, Drain
<1>16. ASSUME NEW e \in End,
              OnWrongResponse(e) \/ Split(e) \/ FinishLate(e) \/ AuthorizeTimeout(e)
              \/ IdleTimeout(e)
       PROVE  FALSE
  BY <1>2, <1>16 DEF OnWrongResponse, Split, FinishLate, AuthorizeTimeout, IdleTimeout
<1>17. ASSUME \/ \E d \in Conn : Break(d)
              \/ \E n \in Node : Restart(n)
       PROVE  FALSE
  BY <1>2, <1>17 DEF Break, Restart
<1>18. CASE UNCHANGED vars
  BY <1>3, <1>18 DEF vars
<1> QED
  BY <1>4, <1>5, <1>7, <1>8, <1>9, <1>10, <1>11, <1>12, <1>13, <1>14, <1>15, <1>16, <1>17, <1>18
     DEF Next, Receive

(* Nodes never exchange a connection both hold for a new one: the property *)
(* is about pushConnection, clearConnections and every handler of a socket.*)
THEOREM EstablishedStays == Spec => EstablishedLasts
<1>1. NetInv /\ Placed /\ [Next]_vars
        => [\A c \in Conn :
              Established(c) /\ ~Established(c)' => faults' # faults \/ Unlisting(c)]_vars
  BY EstablishedStep
<1> QED
  BY <1>1, NetInvariance, PlacedInvariance, PTL DEF Spec, EstablishedLasts

(***************************************************************************)
(* Types.  How much waits on a connection is bounded because its ends take *)
(* turns: a request is answered by a response and that by its verdict, and *)
(* each is written when the one before has been read.                      *)
(***************************************************************************)
Asks == {"request", "success", "failed"}

Once(s, K) == \A i, j \in 1 .. Len(s) : s[i] \in K /\ s[j] \in K => i = j

Lacks(s, K) == \A i \in 1 .. Len(s) : s[i] \notin K

(* An end's stream s and its peer's stream t: of the end's request, the    *)
(* answer to it and the verdict there is one, and of its data one.         *)
Turn(s, t) ==
  /\ Once(s, Asks) /\ Once(t, {"response"}) /\ Once(s, {"data"})
  /\ Lacks(s, Asks) \/ Lacks(t, {"response"})

Turns(s, t) == Turn(s, t) /\ Turn(t, s)

(* A wire takes as much as a socket's capacity, and is full then.          *)
Room(x) == Len(x.wire) <= Cap /\ (~x.full => Len(x.wire) < Cap)

LoadInv == \A e \in End : Room(out[e]) /\ Turn(Stream(out[e]), Stream(out[Peer(e)]))

(* A closed end has no flag left to set, a connection not used is as new,  *)
(* and one in use has an open end.                                         *)
FreedInv ==
  \A e \in End :
    /\ end[e].closed => end[e] = Closed
    /\ Free(e[1]) => end[e].closed /\ out[e] = Nothing
    /\ ~Free(e[1]) => ~end[e].closed \/ ~end[Peer(e)].closed

CountInv ==
  /\ unl \in [Node -> SUBSET Node]
  /\ dialing \subseteq Node \X Node
  /\ stored \in Records /\ updates \subseteq Node \X Node
  /\ broken \subseteq Conn /\ split \subseteq End
  /\ bound \in Bounds
  /\ faults \in 0 .. bound.faults /\ dials \in 0 .. bound.dials

TypeInv == NetInv /\ Placed /\ LoadInv /\ FreedInv /\ CountInv

(* A part of a stream, where it begins after some other part.              *)
Part(t, s) == \E k \in Nat : \A i \in 1 .. Len(t) : i + k \in 1 .. Len(s) /\ t[i] = s[i + k]

(* What there is once in a stream, or not at all, so it is in its parts.   *)
LEMMA PartHas ==
  ASSUME NEW s \in Seq(Message), NEW t \in Seq(Message), Part(t, s), NEW K
  PROVE  (Once(s, K) => Once(t, K)) /\ (Lacks(s, K) => Lacks(t, K))
<1>1. PICK k \in Nat : \A i \in 1 .. Len(t) : i + k \in 1 .. Len(s) /\ t[i] = s[i + k]
  BY DEF Part
<1>2. Len(t) \in Nat /\ Len(s) \in Nat
  BY LenProperties
<1>3. ASSUME Once(s, K) PROVE Once(t, K)
  <2> SUFFICES ASSUME NEW i \in 1 .. Len(t), NEW j \in 1 .. Len(t), t[i] \in K, t[j] \in K
               PROVE  i = j
    BY DEF Once
  <2>1. i + k = j + k
    BY <1>1, <1>3 DEF Once
  <2> QED
    BY <1>1, <1>2, <2>1
<1>4. ASSUME Lacks(s, K) PROVE Lacks(t, K)
  BY <1>1, <1>4 DEF Lacks
<1> QED
  BY <1>3, <1>4

(* ... and the parts of two streams take turns as these do.                *)
LEMMA PartTurns ==
  ASSUME NEW s \in Seq(Message), NEW t \in Seq(Message), NEW u \in Seq(Message),
         NEW v \in Seq(Message), Turns(s, t), Part(u, s), Part(v, t)
  PROVE  Turns(u, v)
BY PartHas DEF Turns, Turn

(* Parts: the stream itself, what is left after reading, either half.      *)
LEMMA Parts ==
  ASSUME NEW s \in Seq(Message), NEW t \in Seq(Message)
  PROVE  /\ Part(s, s) /\ Part(<<>>, s)
         /\ Part(s, s \o t) /\ Part(t, s \o t)
         /\ s # <<>> => Part(Tail(s), s) /\ Tail(s) \in Seq(Message)
<1>1. PICK n \in Nat, m \in Nat : n = Len(s) /\ m = Len(t)
  BY LenProperties
<1>2. Part(s, s)
  BY <1>1 DEF Part
<1>3. Part(<<>>, s)
  BY DEF Part
<1>4. PICK u : u = s \o t
  OBVIOUS
<1>5. /\ Len(u) = n + m
      /\ \A i \in 1 .. n : u[i] = s[i]
      /\ \A i \in 1 .. m : u[i + n] = t[i]
  <2>1. \A i \in 1 .. n + m : u[i] = IF i <= n THEN s[i] ELSE t[i - n]
    BY <1>1, <1>4, ConcatProperties
  <2>2. ASSUME NEW i \in 1 .. m PROVE u[i + n] = t[i]
    <3>1. i + n \in 1 .. n + m /\ ~(i + n <= n) /\ (i + n) - n = i
      BY <1>1
    <3> QED
      BY <2>1, <3>1
  <2> QED
    BY <1>1, <1>4, <2>1, <2>2, ConcatProperties
<1>6. Part(s, u)
  BY <1>1, <1>5 DEF Part
<1>7. Part(t, u)
  <2>1. \A i \in 1 .. Len(t) : i + n \in 1 .. Len(u) /\ t[i] = u[i + n]
    BY <1>1, <1>5
  <2> QED
    BY <2>1 DEF Part
<1>8. ASSUME s # <<>> PROVE Part(Tail(s), s) /\ Tail(s) \in Seq(Message)
  <2>1. PICK v : v = Tail(s)
    OBVIOUS
  <2>2. n > 0 /\ Len(v) = n - 1 /\ (\A i \in 1 .. n - 1 : v[i] = s[i + 1]) /\ v \in Seq(Message)
    BY <1>1, <1>8, <2>1, EmptySeq, HeadTailProperties
  <2>3. Part(v, s)
    <3>1. \A i \in 1 .. Len(v) : i + 1 \in 1 .. Len(s) /\ v[i] = s[i + 1]
      BY <1>1, <2>2
    <3> QED
      BY <3>1 DEF Part
  <2> QED
    BY <2>1, <2>2, <2>3
<1> QED
  BY <1>2, <1>3, <1>4, <1>6, <1>7, <1>8

(* What is written adds to a stream, once when there was none.             *)
LEMMA OnceMore ==
  ASSUME NEW s \in Seq(Message), NEW m \in Message, NEW K
  PROVE  /\ Lacks(s, K) /\ m \notin K => Lacks(Append(s, m), K)
         /\ Once(s, K) /\ (m \notin K \/ Lacks(s, K)) => Once(Append(s, m), K)
<1>1. PICK n \in Nat : n = Len(s)
  BY LenProperties
<1>2. PICK t : t = Append(s, m)
  OBVIOUS
<1>3. Len(t) = n + 1 /\ t[n + 1] = m /\ \A i \in 1 .. n : t[i] = s[i]
  BY <1>1, <1>2, AppendProperties
<1>4. 1 .. n + 1 = (1 .. n) \cup {n + 1}
  BY <1>1
<1>5. Lacks(s, K) /\ m \notin K => Lacks(t, K)
  BY <1>1, <1>3, <1>4 DEF Lacks
<1>6. Once(s, K) /\ (m \notin K \/ Lacks(s, K)) => Once(t, K)
  BY <1>1, <1>3, <1>4 DEF Lacks, Once
<1> QED
  BY <1>2, <1>5, <1>6

(* What is read was there, and once it is read it is no longer.            *)
LEMMA OnceRead ==
  ASSUME NEW s \in Seq(Message), s # <<>>, NEW K, Head(s) \in K
  PROVE  ~Lacks(s, K) /\ (Once(s, K) => Lacks(Tail(s), K))
<1>1. PICK n \in Nat : n = Len(s)
  BY LenProperties
<1>2. PICK t : t = Tail(s)
  OBVIOUS
<1>3. n > 0 /\ Head(s) = s[1] /\ Len(t) = n - 1 /\ \A i \in 1 .. n - 1 : t[i] = s[i + 1]
  BY <1>1, <1>2, EmptySeq, HeadTailProperties
<1>4. ~Lacks(s, K)
  BY <1>1, <1>3 DEF Lacks
<1>5. ASSUME Once(s, K) PROVE Lacks(t, K)
  <2> SUFFICES ASSUME NEW i \in 1 .. n - 1, t[i] \in K PROVE FALSE
    BY <1>3 DEF Lacks
  <2>1. i + 1 \in 1 .. n /\ 1 \in 1 .. n /\ s[i + 1] \in K /\ i + 1 # 1
    BY <1>1, <1>3
  <2> QED
    BY <1>1, <1>3, <1>5, <2>1 DEF Once
<1> QED
  BY <1>2, <1>4, <1>5

(* A message is read from p and answered in s.                             *)
LEMMA AnswerTurns ==
  ASSUME NEW s \in Seq(Message), NEW p \in Seq(Message), p # <<>>, Turns(s, p),
         NEW m \in Message,
         \/ Head(p) = "request" /\ m = "response"
         \/ Head(p) = "response" /\ m \in {"success", "failed"}
  PROVE  Turns(Append(s, m), Tail(p))
<1>1. Tail(p) \in Seq(Message) /\ Part(Tail(p), p) /\ Part(s, s)
  BY Parts
<1>2. Turns(s, Tail(p))
  BY <1>1, PartTurns
<1>3. CASE Head(p) = "request" /\ m = "response"
  <2>1. ~Lacks(p, Asks) /\ Lacks(Tail(p), Asks)
    BY <1>3, OnceRead DEF Turns, Turn, Asks
  <2>2. Lacks(s, {"response"})
    BY <2>1 DEF Turns, Turn
  <2>3. m \notin Asks /\ m \notin {"data"}
    BY <1>3 DEF Asks
  <2>4. /\ Once(Append(s, m), Asks) /\ Once(Append(s, m), {"data"})
        /\ Once(Append(s, m), {"response"})
        /\ Lacks(s, Asks) => Lacks(Append(s, m), Asks)
    BY <1>2, <2>2, <2>3, OnceMore DEF Turns, Turn
  <2> QED
    BY <1>2, <2>1, <2>4 DEF Turns, Turn
<1>4. CASE Head(p) = "response" /\ m \in {"success", "failed"}
  <2>1. ~Lacks(p, {"response"}) /\ Lacks(Tail(p), {"response"})
    BY <1>4, OnceRead DEF Turns, Turn
  <2>2. Lacks(s, Asks)
    BY <2>1 DEF Turns, Turn
  <2>3. m \notin {"response"} /\ m \notin {"data"}
    BY <1>4
  <2>4. /\ Once(Append(s, m), Asks) /\ Once(Append(s, m), {"data"})
        /\ Once(Append(s, m), {"response"})
        /\ Lacks(s, {"response"}) => Lacks(Append(s, m), {"response"})
    BY <1>2, <2>2, <2>3, OnceMore DEF Turns, Turn
  <2> QED
    BY <1>2, <2>1, <2>4 DEF Turns, Turn
<1> QED
  BY <1>3, <1>4

(* Data is written when there is none.                                     *)
LEMMA DataTurns ==
  ASSUME NEW s \in Seq(Message), NEW p \in Seq(Message), Turns(s, p), Lacks(s, {"data"})
  PROVE  Turns(Append(s, "data"), p)
<1>1. "data" \in Message /\ "data" \notin Asks /\ "data" \notin {"response"}
  BY DEF Message, Asks
<1>2. /\ Once(Append(s, "data"), Asks) /\ Once(Append(s, "data"), {"data"})
      /\ Once(Append(s, "data"), {"response"})
      /\ Lacks(s, Asks) => Lacks(Append(s, "data"), Asks)
      /\ Lacks(s, {"response"}) => Lacks(Append(s, "data"), {"response"})
  BY <1>1, OnceMore DEF Turns, Turn
<1> QED
  BY <1>2 DEF Turns, Turn

(* So a stream is short.                                                   *)
LEMMA TurnsShort ==
  ASSUME NEW s \in Seq(Message), NEW p \in Seq(Message), Turns(s, p)
  PROVE  Len(s) <= 3
<1>1. PICK n \in Nat : n = Len(s)
  BY LenProperties
<1>2. \A i \in 1 .. n : s[i] \in Message
  BY <1>1, ElementOfSeq
<1>3. SUFFICES ASSUME n > 3 PROVE FALSE
  BY <1>1
<1>4. {1, 2, 3, 4} \subseteq 1 .. n
  BY <1>1, <1>3
<1>5. \A i \in 1 .. n : s[i] \in Asks \/ s[i] \in {"response"} \/ s[i] \in {"data"}
  BY <1>2 DEF Message, Asks
<1>6. \A K : Once(s, K) => \A i, j \in {1, 2, 3, 4} : s[i] \in K /\ s[j] \in K => i = j
  BY <1>1, <1>4 DEF Once
<1>7. Once(s, Asks) /\ Once(s, {"response"}) /\ Once(s, {"data"})
  BY DEF Turns, Turn
<1>8. PICK a, r, d : a = Asks /\ r = {"response"} /\ d = {"data"}
  OBVIOUS
<1>9. /\ \A i, j \in {1, 2, 3, 4} : s[i] \in a /\ s[j] \in a => i = j
      /\ \A i, j \in {1, 2, 3, 4} : s[i] \in r /\ s[j] \in r => i = j
      /\ \A i, j \in {1, 2, 3, 4} : s[i] \in d /\ s[j] \in d => i = j
      /\ \A i \in {1, 2, 3, 4} : s[i] \in a \/ s[i] \in r \/ s[i] \in d
  BY <1>4, <1>5, <1>6, <1>7, <1>8
<1> QED
  BY <1>9

(***************************************************************************)
(* Steps and what waits.                                                   *)
(***************************************************************************)
(* A flush fills the socket at most. *)
LEMMA FlushedRoom ==
  ASSUME NEW x \in OutState, Room(x)
  PROVE  Room(Flushed(x))
<1>1. CASE x.full \/ x.buffer = <<>>
  BY <1>1 DEF Flushed
<1>2. CASE ~(x.full \/ x.buffer = <<>>)
  <2>1. PICK w, b : w = x.wire /\ b = x.buffer
    OBVIOUS
  <2>2. w \in Seq(Message) /\ b \in Seq(Message)
    BY <2>1 DEF OutState
  <2>3. Cap \in Nat /\ Len(w) \in Nat /\ Len(b) \in Nat /\ Len(w) < Cap
    BY <1>2, <2>1, <2>2, LenProperties, NetworkAssumption DEF NetworkAssumption, Room
  <2>4. PICK k \in Nat : k = IF Len(b) < Cap - Len(w) THEN Len(b) ELSE Cap - Len(w)
    BY <2>3
  <2>5. PICK moved : moved = SubSeq(b, 1, k)
    OBVIOUS
  <2>6. moved \in Seq(Message) /\ Len(moved) = k
    <3>1. k \in 0 .. Len(b)
      BY <2>3, <2>4
    <3>2. moved \in Seq(Message)
      BY <2>2, <2>5, <3>1, CutStream
    <3> QED
      BY <2>2, <2>3, <2>5, <3>1, <3>2, SubSeqProperties
  <2>7. Len(w \o moved) = Len(w) + k
    BY <2>2, <2>6, ConcatProperties
  <2>8. /\ Flushed(x).wire = w \o moved
        /\ Flushed(x).full = (Len(w) + k >= Cap)
    BY <1>2, <2>1, <2>3, <2>4, <2>5 DEF Flushed
  <2>9. Len(w) + k <= Cap
    BY <2>3, <2>4
  <2>10. Len(Flushed(x).wire) <= Cap
    BY <2>7, <2>8, <2>9
  <2>11. ASSUME ~Flushed(x).full PROVE Len(Flushed(x).wire) < Cap
    <3>1. ~(Len(w) + k >= Cap)
      BY <2>8, <2>11
    <3> QED
      BY <2>3, <2>7, <2>8, <3>1
  <2> QED
    BY <2>10, <2>11 DEF Room
<1> QED
  BY <1>1, <1>2

(* ... and so does what is written. *)
LEMMA WrittenRoom ==
  ASSUME NEW s \in EndState, NEW x \in OutState, NEW m \in Message, Room(x)
  PROVE  Room(Written(s, x, m))
<1>1. PICK y : y = [x EXCEPT !.buffer = Append(@, m)]
  OBVIOUS
<1>2. y \in OutState /\ y.wire = x.wire /\ y.full = x.full
  <2>1. Append(x.buffer, m) \in Seq(Message)
    BY DEF OutState
  <2> QED
    BY <1>1, <2>1 DEF OutState
<1>3. Room(y)
  BY <1>2 DEF Room
<1> QED
  BY <1>1, <1>2, <1>3, FlushedRoom DEF Written

(* The streams of an end and its peer. *)
LEMMA Loaded ==
  ASSUME NetInv, LoadInv, NEW e \in End
  PROVE  /\ out[e] \in OutState /\ out[Peer(e)] \in OutState
         /\ Stream(out[e]) \in Seq(Message) /\ Stream(out[Peer(e)]) \in Seq(Message)
         /\ Turns(Stream(out[e]), Stream(out[Peer(e)]))
         /\ Room(out[e]) /\ Room(out[Peer(e)])
<1>1. Peer(e) \in End /\ Peer(Peer(e)) = e
  BY PeerFacts
<1>2. out[e] \in OutState /\ out[Peer(e)] \in OutState
  BY <1>1 DEF NetInv, NetTypes
<1>3. Stream(out[e]) \in Seq(Message) /\ Stream(out[Peer(e)]) \in Seq(Message)
  BY <1>2, StreamType
<1> QED
  BY <1>1, <1>2, <1>3 DEF LoadInv, Turns

(* A step of one connection. *)
LEMMA LoadStep ==
  ASSUME NetInv, LoadInv, NEW e \in End,
         \A f \in End : f # e /\ f # Peer(e) => out'[f] = out[f],
         Room(out'[e]), Room(out'[Peer(e)]),
         Turns(Stream(out'[e]), Stream(out'[Peer(e)]))
  PROVE  LoadInv'
<1> SUFFICES ASSUME NEW f \in End
             PROVE  Room(out'[f]) /\ Turn(Stream(out'[f]), Stream(out'[Peer(f)]))
  BY DEF LoadInv, Peer
<1>1. Peer(e) \in End /\ Peer(Peer(e)) = e
  BY PeerFacts
<1>2. CASE f = e \/ f = Peer(e)
  BY <1>1, <1>2 DEF Turns
<1>3. CASE f # e /\ f # Peer(e)
  <2>1. Peer(f) \in End /\ Peer(f) # e /\ Peer(f) # Peer(e)
    BY <1>1, <1>3, PeerFacts
  <2> QED
    BY <1>3, <2>1 DEF LoadInv
<1> QED
  BY <1>2, <1>3

(* A step in which an end only loses of what it wrote. *)
LEMMA LoseStep ==
  ASSUME NetInv, LoadInv, NEW e \in End,
         \A f \in End : f # e => out'[f] = out[f],
         out'[e] \in OutState, Room(out'[e]), Part(Stream(out'[e]), Stream(out[e]))
  PROVE  LoadInv'
<1>1. /\ Stream(out[e]) \in Seq(Message) /\ Stream(out[Peer(e)]) \in Seq(Message)
      /\ Turns(Stream(out[e]), Stream(out[Peer(e)]))
      /\ Room(out[Peer(e)]) /\ Stream(out'[e]) \in Seq(Message)
  BY Loaded, StreamType
<1>2. Part(Stream(out[Peer(e)]), Stream(out[Peer(e)]))
  BY <1>1, Parts
<1>3. out'[Peer(e)] = out[Peer(e)]
  BY PeerFacts
<1>4. Turns(Stream(out'[e]), Stream(out'[Peer(e)]))
  BY <1>1, <1>2, <1>3, PartTurns
<1> QED
  BY <1>1, <1>3, <1>4, LoadStep

(* An end reads, and answers or says nothing. *)
LEMMA ReadLoad ==
  ASSUME NetInv, LoadInv, NEW e \in End, NEW x, NEW m, Readable(e, m),
         out' = [out EXCEPT ![Peer(e)].wire = Tail(@), ![e] = x],
         x = out[e] \/ \E s \in EndState, k \in Message :
           /\ x = Written(s, out[e], k)
           /\ (m = "request" /\ k = "response") \/ (m = "response" /\ k \in {"success", "failed"})
  PROVE  LoadInv'
<1> DEFINE p == Peer(e)
           S == Stream(out[e])
           P == Stream(out[p])
<1>1. p \in End /\ p # e
  BY PeerFacts
<1>2. /\ out[e] \in OutState /\ out[p] \in OutState /\ S \in Seq(Message) /\ P \in Seq(Message)
      /\ Turns(S, P) /\ Room(out[e]) /\ Room(out[p])
  BY Loaded
<1>3. out[p].wire # <<>> /\ Head(out[p].wire) = m
  BY DEF Readable, Incoming
<1>4. PICK y : y = [out[p] EXCEPT !.wire = Tail(@)]
  OBVIOUS
<1>5. y \in OutState /\ P # <<>> /\ Head(P) = m /\ Stream(y) = Tail(P)
  BY <1>2, <1>3, <1>4, WireRead
<1>6. Room(y)
  <2>1. PICK w : w = out[p].wire
    OBVIOUS
  <2>2. w \in Seq(Message) /\ w # <<>> /\ y.wire = Tail(w) /\ y.full = out[p].full
    BY <1>2, <1>3, <1>4, <2>1 DEF OutState
  <2>3. Len(w) \in Nat /\ Len(Tail(w)) = Len(w) - 1
    BY <2>2, HeadTailProperties, LenProperties
  <2>4. Cap \in Nat
    BY NetworkAssumption DEF NetworkAssumption
  <2> QED
    BY <1>2, <2>1, <2>2, <2>3, <2>4 DEF Room
<1>7. Tail(P) \in Seq(Message) /\ Part(Tail(P), P) /\ Part(S, S)
  BY <1>2, <1>5, Parts
<1>8. Turns(S, Tail(P))
  BY <1>2, <1>7, PartTurns
<1>9. Room(x) /\ Turns(Stream(x), Tail(P)) /\ x \in OutState
  <2>1. CASE x = out[e]
    BY <1>2, <1>8, <2>1
  <2>2. ASSUME NEW s \in EndState, NEW k \in Message, x = Written(s, out[e], k),
               (m = "request" /\ k = "response") \/ (m = "response" /\ k \in {"success", "failed"})
        PROVE  Room(x) /\ Turns(Stream(x), Tail(P)) /\ x \in OutState
    <3>1. Room(x)
      BY <1>2, <2>2, WrittenRoom
    <3>2. x \in OutState /\ Stream(x) = IF s.stop THEN S ELSE Append(S, k)
      BY <1>2, <2>2, WrittenStream, NetworkAssumption
    <3>3. Turns(Append(S, k), Tail(P))
      BY <1>2, <1>5, <2>2, AnswerTurns
    <3> QED
      BY <1>8, <3>1, <3>2, <3>3
  <2> QED
    BY <2>1, <2>2
<1>10. out' = [out EXCEPT ![p] = y, ![e] = x]
  BY <1>4
<1>11. /\ \A f \in End : f # e /\ f # p => out'[f] = out[f]
       /\ out'[e] = x /\ out'[p] = y
  BY <1>1, <1>10 DEF NetInv, NetTypes
<1> QED
  BY <1>5, <1>6, <1>9, <1>11, LoadStep

(* Ends that are open change, the others stay as they are. *)
LEMMA FreedKept ==
  ASSUME FreedInv, conn' = conn,
         \A f \in End : end'[f].closed = end[f].closed,
         \A f \in End : end[f].closed => end'[f] = end[f],
         \A f \in End : Free(f[1]) => out'[f] = out[f]
  PROVE  FreedInv'
<1> SUFFICES ASSUME NEW f \in End
             PROVE  /\ end'[f].closed => end'[f] = Closed
                    /\ Free(f[1]) => end'[f].closed /\ out'[f] = Nothing
                    /\ ~Free(f[1]) => ~end'[f].closed \/ ~end'[Peer(f)].closed
  BY DEF FreedInv, Free, Peer
<1>1. Peer(f) \in End
  BY PeerFacts
<1> QED
  BY <1>1 DEF FreedInv

(* ... as when an open end changes its flags and what its connection has. *)
LEMMA FreedChange ==
  ASSUME NetInv, FreedInv, conn' = conn, NEW e \in End, ~end[e].closed,
         NEW t, end' = [end EXCEPT ![e] = t], ~t.closed, t.closed \in BOOLEAN,
         \A f \in End : f # e /\ f # Peer(e) => out'[f] = out[f]
  PROVE  FreedInv'
<1>1. end \in [End -> EndState] /\ end[e].closed \in BOOLEAN
  BY DEF NetInv, NetTypes, EndState
<1>2. \A f \in End : end'[f] = IF f = e THEN t ELSE end[f]
  BY <1>1
<1>3. \A f \in End : end'[f].closed = end[f].closed
  BY <1>1, <1>2
<1>4. ~Free(e[1])
  BY DEF FreedInv, Closed
<1>5. \A f \in End : Free(f[1]) => f # e /\ f # Peer(e)
  BY <1>4, PeerFacts
<1>6. \A f \in End : (end[f].closed => end'[f] = end[f]) /\ (Free(f[1]) => out'[f] = out[f])
  BY <1>2, <1>5
<1> QED
  BY <1>3, <1>6, FreedKept

(* What trust does to an end leaves it open. *)
LEMMA TrustOpen ==
  ASSUME NEW e \in End, NEW s \in EndState, NEW x, Trust(e, s, x), ~s.closed
  PROVE  \E t : end' = [end EXCEPT ![e] = t] /\ t.closed = FALSE
<1>1. PICK u : u = [s EXCEPT !.settled = TRUE]
  OBVIOUS
<1>2. u.closed = FALSE /\ Shut(u, x).closed = FALSE /\ s.closed = FALSE
  BY <1>1 DEF Shut, EndState
<1>3. \/ end' = [end EXCEPT ![e] = s]
      \/ end' = [end EXCEPT ![e] = u]
      \/ end' = [end EXCEPT ![e] = Shut(u, x)]
  BY <1>1 DEF Trust, Push
<1> QED
  BY <1>2, <1>3

(* What an end's stream is after a message it has read: with the answer to *)
(* that, or as it was.                                                     *)
Reply(e, m, x) ==
  \/ x = out[e]
  \/ \E s \in EndState, k \in Message :
       /\ x = Written(s, out[e], k)
       /\ (m = "request" /\ k = "response") \/ (m = "response" /\ k \in {"success", "failed"})

Answers(e) ==
  \E m, x :
    /\ Readable(e, m) /\ Reply(e, m, x)
    /\ out' = [out EXCEPT ![Peer(e)].wire = Tail(@), ![e] = x]

(* Whatever is read. *)
LEMMA ReceiveKeeps ==
  ASSUME NetInv, LoadInv, FreedInv, NEW e \in End, Receive(e)
  PROVE  LoadInv' /\ FreedInv'
<1>0. /\ end[e] \in EndState /\ out[e] \in OutState
  BY DEF NetInv, NetTypes
<1>1. Answers(e)
  <2>1. CASE OnRequest(e)
    <3>2. PICK m \in Message, k \in Message : m = "request" /\ k = "response"
      BY DEF Message
    <3>3. PICK y : y = Written(end[e], out[e], k)
      OBVIOUS
    <3>4. Readable(e, m) /\ out' = [out EXCEPT ![Peer(e)].wire = Tail(@), ![e] = y]
      BY <2>1, <3>2, <3>3 DEF OnRequest, Read
    <3>5. Reply(e, m, y)
      BY <1>0, <3>2, <3>3 DEF Reply
    <3> QED
      BY <3>4, <3>5, Zenon DEF Answers
  <2>2. CASE OnResponse(e)
    <3>1. PICK s \in EndState : s = [end[e] EXCEPT !.trusts = TRUE]
      BY <1>0 DEF EndState
    <3>2. PICK m \in Message, k \in Message : m = "response" /\ k = "success"
      BY DEF Message
    <3>3. PICK y : y = Written(s, out[e], k)
      OBVIOUS
    <3>4. Readable(e, m) /\ out' = [out EXCEPT ![Peer(e)].wire = Tail(@), ![e] = y]
      BY <2>2, <3>1, <3>2, <3>3 DEF OnResponse, Read
    <3>5. Reply(e, m, y)
      BY <1>0, <3>1, <3>2, <3>3 DEF Reply
    <3> QED
      BY <3>4, <3>5, Zenon DEF Answers
  <2>3. CASE OnWrongResponse(e)
    <3>2. PICK m \in Message, k \in Message : m = "response" /\ k = "failed"
      BY DEF Message
    <3>3. PICK y : y = Written(end[e], out[e], k)
      OBVIOUS
    <3>4. Readable(e, m) /\ out' = [out EXCEPT ![Peer(e)].wire = Tail(@), ![e] = y]
      BY <2>3, <3>2, <3>3 DEF OnWrongResponse, Read
    <3>5. Reply(e, m, y)
      BY <1>0, <3>2, <3>3 DEF Reply
    <3> QED
      BY <3>4, <3>5, Zenon DEF Answers
  <2>4. CASE OnSuccess(e) \/ OnFailed(e) \/ OnData(e)
    <3>1. out' = [out EXCEPT ![Peer(e)].wire = Tail(@), ![e] = out[e]]
      BY <2>4 DEF OnSuccess, OnFailed, OnData, Read
    <3> QED
      BY <2>4, <3>1 DEF OnSuccess, OnFailed, OnData, Answers, Reply
  <2> QED
    BY <2>1, <2>2, <2>3, <2>4 DEF Receive
<1>2. LoadInv'
  BY <1>1, ReadLoad DEF Answers, Reply
<1>3. ~end[e].closed /\ conn' = conn /\ end[e].closed = FALSE
  BY <1>0, <1>1 DEF Answers, Readable, EndState, Receive, OnRequest, OnResponse, OnWrongResponse,
    OnSuccess, OnFailed, OnData, Read
<1>4. \A f \in End : f # e /\ f # Peer(e) => out'[f] = out[f]
  <2>1. \E x : out' = [out EXCEPT ![Peer(e)].wire = Tail(@), ![e] = x]
    BY <1>1 DEF Answers
  <2> QED
    BY <2>1 DEF NetInv, NetTypes
<1>5. PICK t : end' = [end EXCEPT ![e] = t] /\ t.closed = FALSE
  <2>1. CASE OnRequest(e) \/ OnData(e)
    <3>1. end' = [end EXCEPT ![e] = end[e]]
      BY <2>1 DEF OnRequest, OnData, NetInv, NetTypes
    <3> QED
      BY <1>3, <3>1
  <2>2. CASE OnResponse(e)
    <3>1. PICK s : s = [end[e] EXCEPT !.trusts = TRUE]
      OBVIOUS
    <3>2. s \in EndState /\ ~s.closed
      BY <1>0, <1>3, <3>1 DEF EndState
    <3>3. Trust(e, s, Written(s, out[e], "success"))
      BY <2>2, <3>1 DEF OnResponse
    <3> QED
      BY <3>2, <3>3, TrustOpen
  <2>3. CASE OnSuccess(e)
    <3>1. PICK s : s = [end[e] EXCEPT !.trusted = TRUE]
      OBVIOUS
    <3>2. s \in EndState /\ ~s.closed
      BY <1>0, <1>3, <3>1 DEF EndState
    <3>3. Trust(e, s, out[e])
      BY <2>3, <3>1 DEF OnSuccess
    <3> QED
      BY <3>2, <3>3, TrustOpen
  <2>4. CASE OnWrongResponse(e) \/ OnFailed(e)
    <3>1. PICK y : end' = [end EXCEPT ![e] = Failed(e, end[e], y)]
      BY <2>4 DEF OnWrongResponse, OnFailed
    <3>2. Failed(e, end[e], y).closed = FALSE
      BY <1>0, <1>3 DEF Failed, Shut, EndState
    <3> QED
      BY <3>1, <3>2
  <2> QED
    BY <2>1, <2>2, <2>3, <2>4 DEF Receive
<1> QED
  BY <1>2, <1>3, <1>4, <1>5, FreedChange

(* Steps that leave what is written, and the connections, alone. *)
LEMMA QuietLoad ==
  ASSUME LoadInv, out' = out
  PROVE  LoadInv'
BY DEF LoadInv, Peer

(* The timers and the manager shut ends, and connections break. *)
LEMMA ShutKeeps ==
  ASSUME NetInv, LoadInv, FreedInv,
         \/ \E e \in End : Finish(e) \/ AuthorizeTimeout(e) \/ IdleTimeout(e)
         \/ \E n \in Node : ClearConnections(n)
  PROVE  LoadInv' /\ FreedInv'
<1>1. conn' = conn /\ out' = out
  BY DEF Finish, AuthorizeTimeout, IdleTimeout, ClearConnections
<1>2. end \in [End -> EndState] /\ held \in [Node -> SUBSET End] /\ out \in [End -> OutState]
  BY DEF NetInv, NetTypes
<1>3. \A f \in End : end'[f].closed = end[f].closed /\ (end[f].closed => end'[f] = end[f])
  <2>1. ASSUME NEW e \in End, NEW t, end' = [end EXCEPT ![e] = t], t.closed = end[e].closed,
               ~end[e].settled \/ ~end[e].stop \/ ~end[e].finished, NEW f \in End
        PROVE  end'[f].closed = end[f].closed /\ (end[f].closed => end'[f] = end[f])
    <3>1. ~end[e].closed
      BY <2>1 DEF FreedInv, Closed
    <3> QED
      BY <1>2, <2>1, <3>1
  <2>2. ASSUME NEW e \in End, Finish(e)
        PROVE  \A f \in End : end'[f].closed = end[f].closed /\ (end[f].closed => end'[f] = end[f])
    <3>1. PICK t : t = [end[e] EXCEPT !.finished = TRUE]
      OBVIOUS
    <3>2. end' = [end EXCEPT ![e] = t] /\ t.closed = end[e].closed /\ ~end[e].finished
      BY <1>2, <2>2, <3>1 DEF Finish, EndState
    <3> QED
      BY <2>1, <3>2
  <2>3. ASSUME NEW e \in End, AuthorizeTimeout(e)
        PROVE  \A f \in End : end'[f].closed = end[f].closed /\ (end[f].closed => end'[f] = end[f])
    <3>1. PICK t : t = Failed(e, end[e], out[e])
      OBVIOUS
    <3>2. end' = [end EXCEPT ![e] = t] /\ t.closed = end[e].closed /\ ~end[e].settled
      BY <1>2, <2>3, <3>1 DEF AuthorizeTimeout, Failed, Shut, EndState
    <3> QED
      BY <2>1, <3>2
  <2>4. ASSUME NEW e \in End, IdleTimeout(e)
        PROVE  \A f \in End : end'[f].closed = end[f].closed /\ (end[f].closed => end'[f] = end[f])
    <3>1. PICK t : t = Shut(end[e], out[e])
      OBVIOUS
    <3>2. end' = [end EXCEPT ![e] = t] /\ t.closed = end[e].closed /\ ~end[e].stop
      BY <1>2, <2>4, <3>1 DEF IdleTimeout, Shut, EndState
    <3> QED
      BY <2>1, <3>2
  <2>5. ASSUME NEW n \in Node, ClearConnections(n), NEW f \in End
        PROVE  end'[f].closed = end[f].closed /\ (end[f].closed => end'[f] = end[f])
    <3>1. end'[f] = IF f \in ToClear(n) THEN Shut(end[f], out[f]) ELSE end[f]
      BY <2>5 DEF ClearConnections
    <3>2. f \in ToClear(n) => ~end[f].closed
      BY DEF ToClear, FreedInv, Closed
    <3>3. end[f] \in EndState /\ Shut(end[f], out[f]).closed = end[f].closed
      BY <1>2 DEF Shut, EndState
    <3> QED
      BY <3>1, <3>2, <3>3
  <2> QED
    BY <2>2, <2>3, <2>4, <2>5
<1> QED
  BY <1>1, <1>3, FreedKept, QuietLoad

(* Data, and a socket that drains. *)
LEMMA SendKeeps ==
  ASSUME NetInv, LoadInv, FreedInv, NEW e \in End, Send(e) \/ Drain(e)
  PROVE  LoadInv' /\ FreedInv'
<1>0. /\ out \in [End -> OutState] /\ end \in [End -> EndState] /\ out[e] \in OutState
      /\ end[e] \in EndState
  BY DEF NetInv, NetTypes
<1>1. conn' = conn /\ end' = end /\ ~end[e].closed
  BY DEF Send, Drain, NetInv, HeldInv
<1>2. PICK x : out' = [out EXCEPT ![e] = x] /\ x \in OutState /\ Room(x)
               /\ Turns(Stream(x), Stream(out[Peer(e)]))
  <2>1. CASE Send(e)
    <3>1. PICK x : x = Written(end[e], out[e], "data")
      OBVIOUS
    <3>2. out' = [out EXCEPT ![e] = x] /\ ~end[e].stop
      BY <2>1, <3>1 DEF Send
    <3>3. "data" \in Message
      BY DEF Message
    <3>4. x \in OutState /\ Stream(x) = Append(Stream(out[e]), "data")
      BY <1>0, <3>1, <3>2, <3>3, WrittenStream, NetworkAssumption
    <3>5. Room(x)
      BY <1>0, <3>1, <3>3, Loaded, WrittenRoom
    <3>6. Lacks(Stream(out[e]), {"data"})
      <4>1. PICK w : w = out[e].wire
        OBVIOUS
      <4>2. w \in Seq(Message) /\ Stream(out[e]) = w
        BY <1>0, <2>1, <4>1, ConcatEmptySeq DEF Send, Stream, OutState
      <4>3. \A i \in 1 .. Len(w) : w[i] # "data"
        BY <2>1, <4>1, <4>2, LenProperties DEF Send
      <4> QED
        BY <4>2, <4>3 DEF Lacks
    <3>7. Turns(Append(Stream(out[e]), "data"), Stream(out[Peer(e)]))
      BY <3>6, Loaded, DataTurns
    <3> QED
      BY <3>2, <3>4, <3>5, <3>7
  <2>2. CASE Drain(e)
    <3>1. PICK y : y = [out[e] EXCEPT !.full = FALSE]
      OBVIOUS
    <3>2. y \in OutState /\ y.wire = out[e].wire /\ y.buffer = out[e].buffer /\ y.full = FALSE
      BY <1>0, <3>1 DEF OutState
    <3>3. Room(y) /\ Stream(y) = Stream(out[e])
      BY <2>2, <3>2, Loaded DEF Drain, Room, Stream
    <3>4. PICK x : x = IF end[e].finished THEN y ELSE Flushed(y)
      OBVIOUS
    <3>5. x \in OutState /\ Room(x) /\ Stream(x) = Stream(out[e])
      BY <3>2, <3>3, <3>4, FlushedRoom, FlushedStream, NetworkAssumption
    <3>6. out' = [out EXCEPT ![e] = x]
      BY <2>2, <3>1, <3>4 DEF Drain
    <3> QED
      BY <3>5, <3>6, Loaded
  <2> QED
    BY <2>1, <2>2
<1>3. /\ out'[e] = x /\ \A f \in End : f # e => out'[f] = out[f]
      /\ out'[Peer(e)] = out[Peer(e)]
  BY <1>0, <1>2, PeerFacts
<1>4. LoadInv'
  BY <1>2, <1>3, Loaded, LoadStep
<1>5. end' = [end EXCEPT ![e] = end[e]] /\ end[e].closed \in BOOLEAN
  BY <1>0, <1>1 DEF EndState
<1>6. FreedInv'
  BY <1>1, <1>3, <1>5, FreedChange
<1> QED
  BY <1>4, <1>6

(* What is lost: the buffer of an end that waits too long, the wire of one *)
(* that has ended.                                                         *)
LEMMA LossKeeps ==
  ASSUME NetInv, LoadInv, FreedInv, NEW e \in End, FinishLate(e) \/ OnEnd(e)
  PROVE  LoadInv' /\ FreedInv'
<1>0. /\ out \in [End -> OutState] /\ end \in [End -> EndState] /\ out[e] \in OutState
      /\ end[e] \in EndState /\ Peer(e) \in End /\ Peer(e) # e /\ Peer(Peer(e)) = e
      /\ out[Peer(e)] \in OutState /\ <<>> \in Seq(Message)
  BY PeerFacts DEF NetInv, NetTypes
<1>1. ~Free(e[1]) /\ conn' = conn
  BY DEF FinishLate, OnEnd, FreedInv, Closed
<1>2. PICK f \in {e, Peer(e)}, x \in OutState :
        /\ out' = [out EXCEPT ![f] = x] /\ Room(x) /\ Part(Stream(x), Stream(out[f]))
  <2>1. CASE FinishLate(e)
    <3>1. PICK x : x = [out[e] EXCEPT !.buffer = <<>>]
      OBVIOUS
    <3>2. x \in OutState /\ x.wire = out[e].wire /\ x.buffer = <<>> /\ x.full = out[e].full
      BY <1>0, <3>1 DEF OutState
    <3>3. Room(x)
      BY <3>2, Loaded DEF Room
    <3>4. out[e].wire \in Seq(Message) /\ out[e].buffer \in Seq(Message)
      BY <1>0 DEF OutState
    <3>5. Stream(x) = out[e].wire
      BY <3>2, <3>4, ConcatEmptySeq DEF Stream
    <3>6. Part(Stream(x), Stream(out[e]))
      BY <3>4, <3>5, Parts DEF Stream
    <3>7. out' = [out EXCEPT ![e] = x]
      BY <2>1, <3>1 DEF FinishLate
    <3> QED
      BY <3>2, <3>3, <3>6, <3>7
  <2>2. CASE OnEnd(e)
    <3> DEFINE p == Peer(e)
    <3>1. PICK x : x = [out[p] EXCEPT !.wire = <<>>]
      OBVIOUS
    <3>2. x \in OutState /\ x.wire = <<>> /\ x.buffer = out[p].buffer
      BY <1>0, <3>1 DEF OutState
    <3>3. Room(x)
      <4>1. Len(<<>>) = 0 /\ Cap \in Nat /\ Cap > 0
        BY NetworkAssumption, EmptySeq DEF NetworkAssumption
      <4> QED
        BY <3>2, <4>1 DEF Room
    <3>4. out[p].wire \in Seq(Message) /\ out[p].buffer \in Seq(Message)
      BY <1>0 DEF OutState
    <3>5. Stream(x) = out[p].buffer
      BY <3>2, <3>4, ConcatEmptySeq DEF Stream
    <3>6. Part(Stream(x), Stream(out[p]))
      BY <3>4, <3>5, Parts DEF Stream
    <3>7. out' = [out EXCEPT ![p] = x]
      BY <2>2, <3>1 DEF OnEnd
    <3> QED
      BY <3>2, <3>3, <3>6, <3>7
  <2> QED
    BY <2>1, <2>2
<1>3. f \in End /\ out'[f] = x /\ \A g \in End : g # f => out'[g] = out[g]
  BY <1>0, <1>2
<1>4. LoadInv'
  BY <1>2, <1>3, LoseStep
<1>5. PICK t : end' = [end EXCEPT ![e] = t] /\ t.closed = end[e].closed
  <2>1. CASE FinishLate(e)
    <3>1. PICK t : t = [end[e] EXCEPT !.finished = TRUE]
      OBVIOUS
    <3>2. t.closed = end[e].closed
      BY <1>0, <3>1 DEF EndState
    <3>3. end' = [end EXCEPT ![e] = t]
      BY <1>0, <2>1, <3>1 DEF FinishLate
    <3> QED
      BY <3>2, <3>3
  <2>2. CASE OnEnd(e)
    <3>1. Ended(e).closed = end[e].closed
      BY <1>0 DEF Ended, Shut, EndState
    <3> QED
      BY <2>2, <3>1 DEF OnEnd
  <2> QED
    BY <2>1, <2>2
<1>6. \A g \in End : end'[g].closed = end[g].closed
                     /\ (end[g].closed => end'[g] = end[g])
                     /\ (Free(g[1]) => out'[g] = out[g])
  <2>1. \A g \in End : Free(g[1]) => g # e /\ g # Peer(e)
    BY <1>1, PeerFacts
  <2>2. \A g \in End : end'[g] = IF g = e THEN t ELSE end[g]
    BY <1>0, <1>5
  <2>3. ~end[e].closed
    BY DEF FinishLate, OnEnd, FreedInv, Closed
  <2> QED
    BY <1>2, <1>3, <1>5, <2>1, <2>2, <2>3
<1> QED
  BY <1>1, <1>4, <1>6, FreedKept

(* A connection that opens. *)
LEMMA ConnectKeeps ==
  ASSUME NetInv, LoadInv, FreedInv, NEW n \in Node, NEW m \in Node, Connect(n, m)
  PROVE  LoadInv' /\ FreedInv'
<1>1. PICK c : c = CHOOSE d \in Conn : Free(d)
  OBVIOUS
<1>2. c \in Conn /\ Free(c)
  BY <1>1 DEF Connect
<1>3. PICK x : x = Written(Opened, Nothing, "request")
  OBVIOUS
<1>4. /\ conn' = [conn EXCEPT ![c] = [client |-> n, server |-> m]]
      /\ end' = [e \in End |-> IF e \in {<<c, side>> : side \in Side} THEN Opened ELSE end[e]]
      /\ out' = [e \in End |-> IF e \in {<<c, side>> : side \in Side} THEN x ELSE out[e]]
      /\ <<n, m>> \in dialing
  BY <1>1, <1>3 DEF Connect
<1>5. \A e \in End : e \in {<<c, side>> : side \in Side} <=> e[1] = c
  BY <1>2 DEF End
<1>6. \A e \in End : /\ end'[e] = IF e[1] = c THEN Opened ELSE end[e]
                     /\ out'[e] = IF e[1] = c THEN x ELSE out[e]
  BY <1>4, <1>5
<1>7. Room(x) /\ Stream(x) = <<"request">>
  <2>1. Opened \in EndState /\ ~Opened.stop /\ "request" \in Message
    BY DEF Opened, EndState, Message
  <2>2. <<>> \in Seq(Message) /\ Len(<<>>) = 0 /\ Cap \in Nat /\ Cap > 0
    BY NetworkAssumption, EmptySeq DEF NetworkAssumption
  <2>3. Nothing \in OutState /\ Room(Nothing) /\ Stream(Nothing) = <<>>
    BY <2>2, ConcatEmptySeq DEF Nothing, OutState, Room, Stream
  <2>4. Room(x)
    BY <1>3, <2>1, <2>3, WrittenRoom
  <2>5. Stream(x) = Append(<<>>, "request")
    BY <1>3, <2>1, <2>3, WrittenStream, NetworkAssumption
  <2> QED
    BY <2>4, <2>5
<1>8. Turn(<<"request">>, <<"request">>)
  <2>1. PICK s : s = <<"request">>
    OBVIOUS
  <2>2. Len(s) = 1 /\ s[1] = "request" /\ 1 .. 1 = {1}
    BY <2>1
  <2>3. Lacks(s, {"response"}) /\ \A K : Once(s, K)
    BY <2>2 DEF Once, Lacks
  <2> QED
    BY <2>1, <2>3 DEF Turn
<1>9. LoadInv'
  <2> SUFFICES ASSUME NEW e \in End
               PROVE  Room(out'[e]) /\ Turn(Stream(out'[e]), Stream(out'[Peer(e)]))
    BY DEF LoadInv, Peer
  <2>1. Peer(e) \in End /\ Peer(e)[1] = e[1]
    BY PeerFacts
  <2> QED
    BY <1>6, <1>7, <1>8, <2>1 DEF LoadInv
<1>10. \A d \in Conn : conn'[d] = IF d = c THEN [client |-> n, server |-> m] ELSE conn[d]
  BY <1>4 DEF NetInv, NetTypes
<1>11. [client |-> n, server |-> m] # None
  <2>1. n # m
    BY <1>4 DEF NetInv, NetTypes
  <2> QED
    BY <2>1 DEF None
<1>12. FreedInv'
  <2> SUFFICES ASSUME NEW e \in End
               PROVE  /\ end'[e].closed => end'[e] = Closed
                      /\ Free(e[1])' => end'[e].closed /\ out'[e] = Nothing
                      /\ ~Free(e[1])' => ~end'[e].closed \/ ~end'[Peer(e)].closed
    BY DEF FreedInv, Free, Peer
  <2>1. Peer(e) \in End /\ Peer(e)[1] = e[1] /\ e[1] \in Conn
    BY PeerFacts DEF End
  <2>2. CASE e[1] = c
    <3>1. ~Free(e[1])' /\ ~end'[e].closed
      BY <1>6, <1>10, <1>11, <2>1, <2>2 DEF Free, Opened
    <3> QED
      BY <3>1
  <2>3. CASE e[1] # c
    <3>1. /\ Free(e[1])' <=> Free(e[1])
          /\ end'[e] = end[e] /\ out'[e] = out[e] /\ end'[Peer(e)] = end[Peer(e)]
      BY <1>6, <1>10, <2>1, <2>3 DEF Free
    <3> QED
      BY <3>1 DEF FreedInv
  <2> QED
    BY <2>2, <2>3
<1> QED
  BY <1>9, <1>12

(* A connection that closes, at one end or at the second and for good. *)
LEMMA CloseKeeps ==
  ASSUME NetInv, LoadInv, FreedInv, NEW e \in End, OnClose(e)
  PROVE  LoadInv' /\ FreedInv'
<1> DEFINE p == Peer(e)
<1>0. /\ out \in [End -> OutState] /\ end \in [End -> EndState]
      /\ p \in End /\ p # e /\ p[1] = e[1] /\ Peer(p) = e /\ e[1] \in Conn
  BY PeerFacts DEF NetInv, NetTypes, End
<1>1. /\ ~end[e].closed /\ end' = [end EXCEPT ![e] = Closed] /\ Closed.closed
      /\ ~Free(e[1])
  BY DEF OnClose, FreedInv, Closed
<1>2. \A f \in End : end'[f] = IF f = e THEN Closed ELSE end[f]
  BY <1>0, <1>1
<1>3. CASE ~end[p].closed
  <2>1. conn' = conn /\ out' = out
    BY <1>3 DEF OnClose
  <2>2. FreedInv'
    <3> SUFFICES ASSUME NEW f \in End
                 PROVE  /\ end'[f].closed => end'[f] = Closed
                        /\ Free(f[1]) => end'[f].closed /\ out'[f] = Nothing
                        /\ ~Free(f[1]) => ~end'[f].closed \/ ~end'[Peer(f)].closed
      BY <2>1 DEF FreedInv, Free, Peer
    <3>1. Peer(f) \in End
      BY PeerFacts
    <3>2. CASE f = e \/ f = p
      BY <1>0, <1>1, <1>2, <1>3, <2>1, <3>2 DEF FreedInv
    <3>3. CASE f # e /\ f # p
      <4>1. Peer(f) # e
        BY <1>0, <3>3, PeerFacts
      <4> QED
        BY <1>2, <2>1, <3>1, <3>3, <4>1 DEF FreedInv
    <3> QED
      BY <3>2, <3>3
  <2> QED
    BY <2>1, <2>2, QuietLoad
<1>4. CASE end[p].closed
  <2>1. /\ conn' = [conn EXCEPT ![e[1]] = None]
        /\ out' = [out EXCEPT ![e] = Nothing, ![p] = Nothing]
    BY <1>4 DEF OnClose
  <2>2. \A d \in Conn : conn'[d] = IF d = e[1] THEN None ELSE conn[d]
    BY <2>1 DEF NetInv, NetTypes
  <2>3. \A f \in End : out'[f] = IF f = e \/ f = p THEN Nothing ELSE out[f]
    BY <1>0, <2>1
  <2>4. Room(Nothing) /\ Stream(Nothing) = <<>>
    <3>1. <<>> \in Seq(Message) /\ Len(<<>>) = 0 /\ Cap \in Nat /\ Cap > 0
      BY NetworkAssumption, EmptySeq DEF NetworkAssumption
    <3> QED
      BY <3>1, ConcatEmptySeq DEF Nothing, Room, Stream
  <2>5. Turns(<<>>, <<>>)
    BY DEF Turns, Turn, Once, Lacks
  <2>6. LoadInv'
    BY <1>0, <2>3, <2>4, <2>5, LoadStep
  <2>7. FreedInv'
    <3> SUFFICES ASSUME NEW f \in End
                 PROVE  /\ end'[f].closed => end'[f] = Closed
                        /\ Free(f[1])' => end'[f].closed /\ out'[f] = Nothing
                        /\ ~Free(f[1])' => ~end'[f].closed \/ ~end'[Peer(f)].closed
      BY DEF FreedInv, Free, Peer
    <3>1. Peer(f) \in End /\ f[1] \in Conn
      BY PeerFacts DEF End
    <3>2. CASE f = e \/ f = p
      <4>1. Free(f[1])' /\ out'[f] = Nothing
        BY <1>0, <2>2, <2>3, <3>2 DEF Free
      <4>2. end'[f] = Closed
        <5>1. CASE f = e
          BY <1>2, <5>1
        <5>2. CASE f = p
          BY <1>0, <1>2, <1>4, <5>2 DEF FreedInv
        <5> QED
          BY <3>2, <5>1, <5>2
      <4> QED
        BY <1>1, <4>1, <4>2
    <3>3. CASE f # e /\ f # p
      <4>1. Peer(f) # e /\ f[1] # e[1]
        BY <1>0, <3>3, PeerFacts
      <4>2. Free(f[1])' <=> Free(f[1])
        BY <2>2, <3>1, <4>1 DEF Free
      <4> QED
        BY <1>2, <2>3, <3>1, <3>3, <4>1, <4>2 DEF FreedInv
    <3> QED
      BY <3>2, <3>3
  <2> QED
    BY <2>6, <2>7
<1> QED
  BY <1>3, <1>4

(* A node that exits. *)
LEMMA RestartKeeps ==
  ASSUME NetInv, LoadInv, FreedInv, NEW n \in Node, Restart(n)
  PROVE  LoadInv' /\ FreedInv'
<1>1. Room(Nothing) /\ Turn(Stream(Nothing), Stream(Nothing))
  <2>1. <<>> \in Seq(Message) /\ Len(<<>>) = 0 /\ Cap \in Nat /\ Cap > 0
    BY NetworkAssumption, EmptySeq DEF NetworkAssumption
  <2>2. Room(Nothing) /\ Stream(Nothing) = <<>>
    BY <2>1, ConcatEmptySeq DEF Nothing, Room, Stream
  <2> QED
    BY <2>2 DEF Turn, Once, Lacks
<1>2. \A f \in End : Peer(f) \in End /\ Peer(f)[1] = f[1] /\ f[1] \in Conn
  BY PeerFacts DEF End
<1>3. LoadInv'
  <2> SUFFICES ASSUME NEW f \in End
               PROVE  Room(out'[f]) /\ Turn(Stream(out'[f]), Stream(out'[Peer(f)]))
    BY DEF LoadInv, Peer
  <2>1. CASE f[1] \in LastOf(n)
    BY <1>1, <1>2, <2>1, Restarted
  <2>2. CASE f[1] \notin LastOf(n)
    BY <1>2, <2>2, Restarted DEF LoadInv
  <2> QED
    BY <2>1, <2>2
<1>4. FreedInv'
  <2> SUFFICES ASSUME NEW f \in End
               PROVE  /\ end'[f].closed => end'[f] = Closed
                      /\ Free(f[1])' => end'[f].closed /\ out'[f] = Nothing
                      /\ ~Free(f[1])' => ~end'[f].closed \/ ~end'[Peer(f)].closed
    BY DEF FreedInv, Free, Peer
  <2>1. end'[f].closed => end'[f] = Closed
    BY Restarted DEF FreedInv
  <2>2. CASE f[1] \in LastOf(n)
    <3>1. Free(f[1])' /\ out'[f] = Nothing /\ end'[f].closed
      BY <1>2, <2>2, Restarted DEF Free
    <3> QED
      BY <2>1, <3>1
  <2>3. CASE f[1] \notin LastOf(n)
    <3>1. /\ Free(f[1])' <=> Free(f[1])
          /\ out'[f] = out[f]
      BY <1>2, <2>3, Restarted DEF Free
    <3>2. Free(f[1]) => end'[f].closed
      BY Restarted DEF FreedInv, OpenEnds
    <3>3. PICK side \in Side : LET g == <<f[1], side>> IN ~end[g].closed /\ Owner(g) # n
      BY <1>2, <2>3 DEF LastOf
    <3>4. <<f[1], side>> = f \/ <<f[1], side>> = Peer(f)
      BY DEF End, Side, Peer, Other
    <3>5. \E g \in {f, Peer(f)} : ~end'[g].closed
      BY <1>2, <3>3, <3>4, Restarted DEF OpenEnds
    <3> QED
      BY <2>1, <3>1, <3>2, <3>5 DEF FreedInv
  <2> QED
    BY <2>2, <2>3
<1> QED
  BY <1>3, <1>4

(* Dials, lists and faults that no end sees.                               *)
LEMMA ListsKeep ==
  ASSUME LoadInv, FreedInv, conn' = conn, end' = end, out' = out
  PROVE  LoadInv' /\ FreedInv'
BY QuietLoad, FreedKept

(* Whatever a step does to connections, they stay bounded and tidy.        *)
LEMMA ConnectionsKept ==
  ASSUME NetInv, LoadInv, FreedInv, [Next]_vars
  PROVE  LoadInv' /\ FreedInv'
<1>1. CASE UNCHANGED vars
  BY <1>1, ListsKeep DEF vars
<1>2. ASSUME NEW n \in Node, NEW m \in Node,
             BeginDial(n, m) \/ DialFails(n, m) \/ SettleUpdate(n, m) \/ AddNode(n, m)
             \/ DeleteNode(n, m) \/ Exclude(n, m) \/ Readmit(n, m)
      PROVE  LoadInv' /\ FreedInv'
  BY <1>2, ListsKeep
     DEF BeginDial, DialFails, SettleUpdate, AddNode, DeleteNode, Exclude, Readmit
<1>3. ASSUME NEW n \in Node, NEW m \in Node, Connect(n, m)
      PROVE  LoadInv' /\ FreedInv'
  BY <1>3, ConnectKeeps
<1>4. ASSUME NEW n \in Node, FlushUnlToMemory(n)
      PROVE  LoadInv' /\ FreedInv'
  BY <1>4, ListsKeep DEF FlushUnlToMemory
<1>5. ASSUME NEW n \in Node, ClearConnections(n)
      PROVE  LoadInv' /\ FreedInv'
  BY <1>5, ShutKeeps
<1>6. ASSUME NEW e \in End, Receive(e)
      PROVE  LoadInv' /\ FreedInv'
  BY <1>6, ReceiveKeeps
<1>7. ASSUME NEW e \in End, Split(e)
      PROVE  LoadInv' /\ FreedInv'
  BY <1>7, ListsKeep DEF Split
<1>8. ASSUME NEW e \in End, Send(e) \/ Drain(e)
      PROVE  LoadInv' /\ FreedInv'
  BY <1>8, SendKeeps
<1>9. ASSUME NEW e \in End, Finish(e) \/ AuthorizeTimeout(e) \/ IdleTimeout(e)
      PROVE  LoadInv' /\ FreedInv'
  BY <1>9, ShutKeeps
<1>10. ASSUME NEW e \in End, FinishLate(e) \/ OnEnd(e)
       PROVE  LoadInv' /\ FreedInv'
  BY <1>10, LossKeeps
<1>11. ASSUME NEW e \in End, OnClose(e)
       PROVE  LoadInv' /\ FreedInv'
  BY <1>11, CloseKeeps
<1>12. ASSUME NEW c \in Conn, Break(c)
       PROVE  LoadInv' /\ FreedInv'
  BY <1>12, ListsKeep DEF Break
<1>13. ASSUME NEW n \in Node, Restart(n)
       PROVE  LoadInv' /\ FreedInv'
  BY <1>13, RestartKeeps
<1> QED
  BY <1>1, <1>2, <1>3, <1>4, <1>5, <1>6, <1>7, <1>8, <1>9, <1>10, <1>11, <1>12, <1>13 DEF Next

(* The nodes at the sides of a connection that is not forgotten. *)
LEMMA Sides ==
  ASSUME NetInv, Placed, NEW e \in End, ~end[e].closed
  PROVE  Owner(e) \in Node /\ Address(e) \in Node
<1>1. e[1] \in Conn /\ e[2] \in Side /\ conn[e[1]] # None
  BY DEF NetInv, FreeInv, Free, End
<1>2. conn[e[1]] \in [client : Node, server : Node]
  BY <1>1 DEF Placed
<1> QED
  BY <1>1, <1>2 DEF Owner, Address, Peer, Other, Side

(* What is pushed to the manager is of a node that is listed. *)
LEMMA TrustRecords ==
  ASSUME NetInv, Placed, CountInv, NEW e \in End, ~end[e].closed, NEW s, NEW x, Trust(e, s, x)
  PROVE  UNCHANGED records \/ \E n, m \in Node : Listed(n, m) /\ SetState(n, m)
<1>1. Owner(e) \in Node /\ Address(e) \in Node
  BY Sides
<1>2. CASE UNCHANGED <<held, records>>
  BY <1>2
<1>3. CASE ~(UNCHANGED <<held, records>>)
  <2>1. Push(Owner(e), e, s, x)
    BY <1>3 DEF Trust
  <2>2. ~Refused(Owner(e), e) /\ SetState(Owner(e), Address(e))
    BY <1>3, <2>1 DEF Push
  <2> QED
    BY <1>1, <2>2 DEF Refused
<1> QED
  BY <1>2, <1>3

(* A record changes with a connection of a node that is listed, with the   *)
(* end of a dial, when an update arrives, and by an operator.              *)
LEMMA RecordsStep ==
  ASSUME NetInv, Placed, CountInv, [Next]_vars
  PROVE  \/ UNCHANGED records
         \/ \E n, m \in Node : SetState(n, m) /\ (Listed(n, m) \/ <<n, m>> \in dialing)
         \/ \E n, m \in Node : \/ SettleUpdate(n, m) \/ AddNode(n, m) \/ DeleteNode(n, m)
                               \/ Exclude(n, m) \/ Readmit(n, m)
<1>1. CASE UNCHANGED vars
  BY <1>1 DEF vars, records
<1>2. ASSUME NEW n \in Node, NEW m \in Node, BeginDial(n, m) \/ Connect(n, m)
      PROVE  UNCHANGED records
  BY <1>2 DEF BeginDial, Connect, lists, records
<1>3. ASSUME NEW n \in Node, NEW m \in Node, DialFails(n, m)
      PROVE  SetState(n, m) /\ <<n, m>> \in dialing
  BY <1>3 DEF DialFails
<1>4. ASSUME NEW n \in Node, FlushUnlToMemory(n) \/ ClearConnections(n) \/ Restart(n)
      PROVE  UNCHANGED records
  BY <1>4 DEF FlushUnlToMemory, ClearConnections, Restart, lists, records
<1>5. ASSUME NEW e \in End,
             \/ OnRequest(e) \/ OnWrongResponse(e) \/ OnFailed(e) \/ OnData(e)
             \/ Split(e) \/ Send(e) \/ Drain(e) \/ Finish(e) \/ FinishLate(e) \/ OnEnd(e)
             \/ AuthorizeTimeout(e) \/ IdleTimeout(e)
      PROVE  UNCHANGED records
  BY <1>5 DEF OnRequest, OnWrongResponse, OnFailed, OnData, Split, Send, Drain, Finish,
    FinishLate, OnEnd, AuthorizeTimeout, IdleTimeout, lists, records
<1>6. ASSUME NEW e \in End, OnResponse(e) \/ OnSuccess(e)
      PROVE  UNCHANGED records \/ \E n, m \in Node : Listed(n, m) /\ SetState(n, m)
  <2>1. ~end[e].closed /\ \E s, x : Trust(e, s, x)
    BY <1>6 DEF OnResponse, OnSuccess, Readable
  <2> QED
    BY <2>1, TrustRecords
<1>7. ASSUME NEW e \in End, OnClose(e)
      PROVE  UNCHANGED records \/ \E n, m \in Node : Listed(n, m) /\ SetState(n, m)
  <2>1. Owner(e) \in Node /\ Address(e) \in Node
    BY <1>7, Sides DEF OnClose
  <2> QED
    BY <1>7, <2>1 DEF OnClose, Removed
<1>8. ASSUME NEW c \in Conn, Break(c)
      PROVE  UNCHANGED records
  BY <1>8 DEF Break, lists, records
<1> QED
  BY <1>1, <1>2, <1>3, <1>4, <1>5, <1>6, <1>7, <1>8 DEF Next, Receive

(* What happens to an end changes no list, no dial and no bound. *)
LEMMA EndEvents ==
  ASSUME NEW e \in End,
         \/ Receive(e) \/ Split(e) \/ Send(e) \/ Drain(e) \/ Finish(e) \/ FinishLate(e)
         \/ OnEnd(e) \/ OnClose(e) \/ AuthorizeTimeout(e) \/ IdleTimeout(e)
  PROVE  unl' = unl /\ dialing' = dialing /\ dials' = dials /\ bound' = bound
<1>1. ASSUME OnRequest(e) \/ OnResponse(e) \/ OnWrongResponse(e)
      PROVE  unl' = unl /\ dialing' = dialing /\ dials' = dials /\ bound' = bound
  BY <1>1 DEF OnRequest, OnResponse, OnWrongResponse, Read, limits
<1>2. ASSUME OnSuccess(e) \/ OnFailed(e) \/ OnData(e)
      PROVE  unl' = unl /\ dialing' = dialing /\ dials' = dials /\ bound' = bound
  BY <1>2 DEF OnSuccess, OnFailed, OnData, Read, limits
<1>3. ASSUME Split(e) \/ Send(e) \/ Drain(e) \/ Finish(e) \/ FinishLate(e)
      PROVE  unl' = unl /\ dialing' = dialing /\ dials' = dials /\ bound' = bound
  BY <1>3 DEF Split, Send, Drain, Finish, FinishLate, lists, limits
<1>4. ASSUME OnEnd(e) \/ OnClose(e) \/ AuthorizeTimeout(e) \/ IdleTimeout(e)
      PROVE  unl' = unl /\ dialing' = dialing /\ dials' = dials /\ bound' = bound
  BY <1>4 DEF OnEnd, OnClose, AuthorizeTimeout, IdleTimeout, lists, limits
<1> QED
  BY <1>1, <1>2, <1>3, <1>4 DEF Receive

(* A list is read from the records, before a round or at a start. *)
LEMMA ListChange ==
  ASSUME [Next]_vars
  PROVE  unl' = unl \/ \E k \in Node : FlushUnlToMemory(k) \/ Restart(k)
<1>1. ASSUME NEW n \in Node, NEW m \in Node,
             \/ BeginDial(n, m) \/ Connect(n, m) \/ DialFails(n, m) \/ SettleUpdate(n, m)
             \/ AddNode(n, m) \/ DeleteNode(n, m) \/ Exclude(n, m) \/ Readmit(n, m)
      PROVE  unl' = unl
  BY <1>1 DEF BeginDial, Connect, DialFails, SettleUpdate, AddNode, DeleteNode, Exclude, Readmit,
    lists
<1>2. ASSUME NEW n \in Node, ClearConnections(n) PROVE unl' = unl
  BY <1>2 DEF ClearConnections, lists
<1>3. ASSUME NEW c \in Conn, Break(c) PROVE unl' = unl
  BY <1>3 DEF Break, lists
<1>4. CASE UNCHANGED vars
  BY <1>4 DEF vars, lists
<1> QED
  BY <1>1, <1>2, <1>3, <1>4, EndEvents DEF Next

(* A dial begins with a node that is listed. *)
LEMMA DialingChange ==
  ASSUME [Next]_vars
  PROVE  \/ dialing' \subseteq dialing
         \/ \E n, m \in Node : Listed(n, m) /\ dialing' = dialing \cup {<<n, m>>}
<1>1. ASSUME NEW n \in Node, NEW m \in Node, BeginDial(n, m)
      PROVE  Listed(n, m) /\ dialing' = dialing \cup {<<n, m>>}
  BY <1>1 DEF BeginDial
<1>2. ASSUME NEW n \in Node, NEW m \in Node, Connect(n, m) \/ DialFails(n, m)
      PROVE  dialing' \subseteq dialing
  BY <1>2 DEF Connect, DialFails
<1>3. ASSUME NEW n \in Node, NEW m \in Node,
             \/ SettleUpdate(n, m) \/ AddNode(n, m) \/ DeleteNode(n, m)
             \/ Exclude(n, m) \/ Readmit(n, m)
      PROVE  dialing' = dialing
  BY <1>3 DEF SettleUpdate, AddNode, DeleteNode, Exclude, Readmit
<1>4. ASSUME NEW n \in Node, FlushUnlToMemory(n) \/ ClearConnections(n) \/ Restart(n)
      PROVE  dialing' \subseteq dialing
  BY <1>4 DEF FlushUnlToMemory, ClearConnections, Restart
<1>5. ASSUME NEW c \in Conn, Break(c) PROVE dialing' = dialing
  BY <1>5 DEF Break
<1>6. CASE UNCHANGED vars
  BY <1>6 DEF vars
<1>7. ASSUME NEW n \in Node, NEW m \in Node,
             \/ BeginDial(n, m) \/ Connect(n, m) \/ DialFails(n, m) \/ SettleUpdate(n, m)
             \/ AddNode(n, m) \/ DeleteNode(n, m) \/ Exclude(n, m) \/ Readmit(n, m)
      PROVE  \/ dialing' \subseteq dialing
             \/ Listed(n, m) /\ dialing' = dialing \cup {<<n, m>>}
  BY <1>1, <1>2, <1>3, <1>7
<1> QED
  BY <1>4, <1>5, <1>6, <1>7, EndEvents DEF Next

(* Dials and bounds: the counter goes up to its bound, which stays. *)
LEMMA DialsChange ==
  ASSUME [Next]_vars
  PROVE  bound' = bound /\ (dials' = dials \/ (dials < bound.dials /\ dials' = dials + 1))
<1>1. ASSUME NEW n \in Node, NEW m \in Node, BeginDial(n, m)
      PROVE  bound' = bound /\ (dials' = dials \/ (dials < bound.dials /\ dials' = dials + 1))
  BY <1>1 DEF BeginDial
<1>2. ASSUME NEW n \in Node, NEW m \in Node,
             \/ Connect(n, m) \/ DialFails(n, m) \/ SettleUpdate(n, m)
             \/ AddNode(n, m) \/ DeleteNode(n, m) \/ Exclude(n, m) \/ Readmit(n, m)
      PROVE  bound' = bound /\ dials' = dials
  BY <1>2 DEF Connect, DialFails, SettleUpdate, AddNode, DeleteNode, Exclude, Readmit, limits
<1>3. ASSUME NEW n \in Node, FlushUnlToMemory(n) \/ ClearConnections(n) \/ Restart(n)
      PROVE  bound' = bound /\ dials' = dials
  BY <1>3 DEF FlushUnlToMemory, ClearConnections, Restart, limits
<1>4. ASSUME NEW c \in Conn, Break(c) PROVE bound' = bound /\ dials' = dials
  BY <1>4 DEF Break, limits
<1>5. CASE UNCHANGED vars
  BY <1>5 DEF vars, limits
<1> QED
  BY <1>1, <1>2, <1>3, <1>4, <1>5, EndEvents DEF Next

(* A list is read from the records, and a dial begins with a node listed. *)
LEMMA ListsStep ==
  ASSUME CountInv, [Next]_vars, NEW n \in Node
  PROVE  /\ unl'[n] = unl[n] \/ unl'[n] = Recorded(n)
         /\ \A d \in dialing' : d \in dialing \/ Listed(d[1], d[2])
<1>1. unl \in [Node -> SUBSET Node]
  BY DEF CountInv
<1>2. ASSUME NEW k \in Node, FlushUnlToMemory(k) \/ Restart(k)
      PROVE  unl'[n] = unl[n] \/ unl'[n] = Recorded(n)
  BY <1>1, <1>2 DEF FlushUnlToMemory, Restart
<1> QED
  BY <1>2, ListChange, DialingChange

(* Records stay records: nobody is in the list of its own.                 *)
LEMMA RecordsKept ==
  ASSUME NetInv, Placed, CountInv, [Next]_vars
  PROVE  stored' \in Records /\ updates' \subseteq Node \X Node
<1>1. /\ stored \in [Node -> [Node -> RecordState]] /\ \A n \in Node : stored[n][n] = "absent"
      /\ updates \subseteq Node \X Node
  BY DEF CountInv, Records
<1>2. ASSUME NEW n \in Node, NEW m \in Node, NEW s \in RecordState, m # n \/ s = "absent"
      PROVE  [stored EXCEPT ![n][m] = s] \in Records
  BY <1>1, <1>2 DEF Records
<1>3. ASSUME NEW n \in Node, NEW m \in Node PROVE Updated(n, m) \in Records
  <2>1. CASE stored[n][m] = "absent"
    BY <2>1 DEF Updated, CountInv
  <2>2. CASE stored[n][m] # "absent"
    <3>1. m # n /\ "listed" \in RecordState
      BY <1>1, <2>2 DEF RecordState
    <3> QED
      BY <1>2, <2>2, <3>1 DEF Updated
  <2> QED
    BY <2>1, <2>2
<1>4. CASE UNCHANGED records
  BY <1>1, <1>4 DEF CountInv, records
<1>5. ASSUME NEW n \in Node, NEW m \in Node, SetState(n, m) \/ SettleUpdate(n, m)
      PROVE  stored' \in Records /\ updates' \subseteq Node \X Node
  <2>1. stored' = stored \/ stored' = Updated(n, m)
    BY <1>5 DEF SetState, SettleUpdate
  <2>2. updates' \subseteq updates \cup {<<n, m>>}
    BY <1>5 DEF SetState, SettleUpdate
  <2> QED
    BY <1>1, <1>3, <2>1, <2>2 DEF CountInv
<1>6. ASSUME NEW n \in Node, NEW m \in Node,
             AddNode(n, m) \/ DeleteNode(n, m) \/ Exclude(n, m) \/ Readmit(n, m)
      PROVE  stored' \in Records /\ updates' \subseteq Node \X Node
  <2>1. updates' = updates /\ m # n
    BY <1>1, <1>6 DEF AddNode, DeleteNode, Exclude, Readmit
  <2>2. PICK s \in RecordState : stored' = [stored EXCEPT ![n][m] = s]
    BY <1>6 DEF AddNode, DeleteNode, Exclude, Readmit, RecordState
  <2> QED
    BY <1>1, <1>2, <2>1, <2>2
<1> QED
  BY <1>4, <1>5, <1>6, RecordsStep

(* Faults and dials are within the bounds, lists name nodes. *)
LEMMA Counted ==
  ASSUME NetInv, Placed, CountInv, [Next]_vars
  PROVE  CountInv'
<1>1. bound' = bound
  BY DialsChange
<1>2. faults' = faults \/ (faults < bound.faults /\ faults' = faults + 1)
  BY FaultsChange
<1>3. dials' = dials \/ (dials < bound.dials /\ dials' = dials + 1)
  BY DialsChange
<1>4. dialing' \subseteq Node \X Node
  BY DialingChange DEF CountInv
<1>5. broken' \subseteq Conn
  <2>1. \A e \in End : e[1] \in Conn
    BY DEF End
  <2>2. ASSUME NEW n \in Node, Restart(n) PROVE broken' \subseteq Conn
    BY <2>1, <2>2 DEF Restart, OpenEnds, CountInv
  <2>3. ASSUME NEW e \in End,
               \/ Receive(e) \/ Split(e) \/ Send(e) \/ Drain(e) \/ Finish(e) \/ FinishLate(e)
               \/ OnEnd(e) \/ OnClose(e) \/ AuthorizeTimeout(e) \/ IdleTimeout(e)
        PROVE  broken' \subseteq broken
    <3>1. ASSUME Receive(e) PROVE broken' = broken
      BY <3>1 DEF Receive, OnRequest, OnResponse, OnWrongResponse, OnSuccess, OnFailed, OnData, Read
    <3>2. ASSUME \/ Split(e) \/ Send(e) \/ Drain(e) \/ Finish(e) \/ FinishLate(e) \/ OnEnd(e)
                 \/ AuthorizeTimeout(e) \/ IdleTimeout(e)
          PROVE  broken' = broken
      BY <3>2 DEF Split, Send, Drain, Finish, FinishLate, OnEnd, AuthorizeTimeout, IdleTimeout
    <3>3. ASSUME OnClose(e) PROVE broken' \subseteq broken
      BY <3>3 DEF OnClose
    <3> QED
      BY <2>3, <3>1, <3>2, <3>3
  <2>4. ASSUME NEW n \in Node, NEW m \in Node,
               \/ BeginDial(n, m) \/ Connect(n, m) \/ DialFails(n, m) \/ SettleUpdate(n, m)
               \/ AddNode(n, m) \/ DeleteNode(n, m) \/ Exclude(n, m) \/ Readmit(n, m)
        PROVE  broken' = broken
    BY <2>4 DEF BeginDial, Connect, DialFails, SettleUpdate, AddNode, DeleteNode, Exclude, Readmit
  <2>5. ASSUME NEW n \in Node, FlushUnlToMemory(n) \/ ClearConnections(n)
        PROVE  broken' = broken
    BY <2>5 DEF FlushUnlToMemory, ClearConnections
  <2>6. ASSUME NEW c \in Conn, Break(c) PROVE broken' \subseteq Conn
    BY <2>6 DEF Break, CountInv
  <2>7. ASSUME broken' \subseteq broken PROVE broken' \subseteq Conn
    BY <2>7 DEF CountInv
  <2> QED
    BY <2>2, <2>3, <2>4, <2>5, <2>6, <2>7 DEF Next, vars
<1>6. split' \subseteq End
  <2>1. ASSUME NEW e \in End,
               \/ Receive(e) \/ Split(e) \/ Send(e) \/ Drain(e) \/ Finish(e) \/ FinishLate(e)
               \/ OnEnd(e) \/ OnClose(e) \/ AuthorizeTimeout(e) \/ IdleTimeout(e)
        PROVE  split' \subseteq split \cup {e}
    <3>1. ASSUME Receive(e) PROVE split' \subseteq split
      BY <3>1 DEF Receive, OnRequest, OnResponse, OnWrongResponse, OnSuccess, OnFailed, OnData, Read
    <3>2. ASSUME \/ Send(e) \/ Drain(e) \/ Finish(e) \/ FinishLate(e)
                 \/ AuthorizeTimeout(e) \/ IdleTimeout(e)
          PROVE  split' = split
      BY <3>2 DEF Send, Drain, Finish, FinishLate, AuthorizeTimeout, IdleTimeout
    <3>3. ASSUME OnEnd(e) \/ OnClose(e) PROVE split' \subseteq split
      BY <3>3 DEF OnEnd, OnClose
    <3>4. ASSUME Split(e) PROVE split' = split \cup {e}
      BY <3>4 DEF Split
    <3> QED
      BY <2>1, <3>1, <3>2, <3>3, <3>4
  <2>2. ASSUME NEW n \in Node, NEW m \in Node,
               \/ BeginDial(n, m) \/ Connect(n, m) \/ DialFails(n, m) \/ SettleUpdate(n, m)
               \/ AddNode(n, m) \/ DeleteNode(n, m) \/ Exclude(n, m) \/ Readmit(n, m)
        PROVE  split' = split
    BY <2>2 DEF BeginDial, Connect, DialFails, SettleUpdate, AddNode, DeleteNode, Exclude, Readmit
  <2>3. ASSUME NEW n \in Node, FlushUnlToMemory(n) \/ ClearConnections(n) \/ Restart(n)
        PROVE  split' \subseteq split
    BY <2>3 DEF FlushUnlToMemory, ClearConnections, Restart
  <2>4. ASSUME NEW c \in Conn, Break(c) PROVE split' = split
    BY <2>4 DEF Break
  <2>5. ASSUME NEW e \in End, split' \subseteq split \cup {e} PROVE split' \subseteq End
    BY <2>5 DEF CountInv
  <2>6. ASSUME split' \subseteq split PROVE split' \subseteq End
    BY <2>6 DEF CountInv
  <2> QED
    BY <2>1, <2>2, <2>3, <2>4, <2>5, <2>6 DEF Next, vars
<1>7. unl' \in [Node -> SUBSET Node]
  <2>1. ASSUME NEW n \in Node, FlushUnlToMemory(n) \/ Restart(n)
        PROVE  unl' \in [Node -> SUBSET Node]
    <3>1. unl' = [unl EXCEPT ![n] = Recorded(n)] /\ Recorded(n) \in SUBSET Node
      BY <2>1 DEF FlushUnlToMemory, Restart, Recorded
    <3> QED
      BY <3>1 DEF CountInv
  <2> QED
    BY <2>1, ListChange DEF CountInv
<1>8. bound.faults \in Nat /\ bound.dials \in Nat
  BY NetworkAssumption DEF NetworkAssumption, CountInv
<1>9. faults' \in 0 .. bound.faults /\ dials' \in 0 .. bound.dials
  BY <1>2, <1>3, <1>8 DEF CountInv
<1> QED
  BY <1>1, <1>4, <1>5, <1>6, <1>7, <1>9, RecordsKept DEF CountInv

(* At the beginning nothing is in use. *)
LEMMA TypeInvInit ==
  ASSUME Init
  PROVE  LoadInv /\ FreedInv /\ CountInv
<1>1. Room(Nothing) /\ Stream(Nothing) = <<>>
  <2>1. <<>> \in Seq(Message) /\ Len(<<>>) = 0 /\ Cap \in Nat /\ Cap > 0
    BY NetworkAssumption, EmptySeq DEF NetworkAssumption
  <2> QED
    BY <2>1, ConcatEmptySeq DEF Nothing, Room, Stream
<1>2. Turn(<<>>, <<>>)
  BY DEF Turn, Once, Lacks
<1>3. \A e \in End : end[e] = Closed /\ out[e] = Nothing /\ Peer(e) \in End /\ Free(e[1])
  BY PeerFacts DEF Init, Free, End
<1>4. LoadInv
  BY <1>1, <1>2, <1>3 DEF LoadInv
<1>5. FreedInv
  BY <1>3 DEF FreedInv, Closed
<1>6. CountInv
  <2>1. unl \in [Node -> SUBSET Node] /\ bound \in Bounds /\ stored \in bound.records
    BY DEF Init, Recorded
  <2>2. bound.faults \in Nat /\ bound.dials \in Nat /\ stored \in Records
    BY <2>1, NetworkAssumption DEF NetworkAssumption
  <2> QED
    BY <2>1, <2>2 DEF Init, CountInv
<1> QED
  BY <1>4, <1>5, <1>6

(* A short sequence of messages. *)
LEMMA ShortStream ==
  ASSUME NEW s \in Seq(Message), NEW n \in Nat, Len(s) <= n
  PROVE  s \in Streams(n)
<1>1. Len(s) \in 0 .. n /\ s \in [1 .. Len(s) -> Message]
  BY LenProperties
<1> QED
  BY <1>1 DEF Streams

(* What is on a wire and in a buffer is no more than the stream. *)
LEMMA TypesFollow == TypeInv => TypeOK
<1> SUFFICES ASSUME TypeInv PROVE TypeOK
  OBVIOUS
<1>0. Cap \in Nat
  BY NetworkAssumption DEF NetworkAssumption
<1>1. conn \in [Conn -> [client : Node, server : Node] \cup {None}]
  BY DEF TypeInv, Placed
<1>2. end \in [End -> [Flags -> BOOLEAN]]
  <2>1. ASSUME NEW s \in EndState PROVE s \in [Flags -> BOOLEAN]
    <3>1. s = [f \in Flags |-> s[f]]
      BY <2>1 DEF EndState, Flags
    <3>2. \A f \in Flags : s[f] \in BOOLEAN
      BY <2>1 DEF EndState, Flags
    <3> QED
      BY <3>1, <3>2
  <2> QED
    BY <2>1 DEF TypeInv, NetInv, NetTypes
<1>3. ASSUME NEW e \in End
      PROVE  /\ out[e].buffer \in Streams(4) /\ out[e].wire \in Streams(Cap + 1)
             /\ out[e].full \in BOOLEAN /\ (out[e].buffer # <<>> => out[e].full)
             /\ Free(e[1]) => end[e].closed /\ out[e] = Nothing
             /\ ~Free(e[1]) => ~end[e].closed \/ ~end[Peer(e)].closed
  <2>1. /\ out[e] \in OutState /\ Room(out[e]) /\ Stream(out[e]) \in Seq(Message)
        /\ Stream(out[Peer(e)]) \in Seq(Message)
        /\ Turns(Stream(out[e]), Stream(out[Peer(e)]))
    BY Loaded DEF TypeInv
  <2>2. PICK w, b : w = out[e].wire /\ b = out[e].buffer
    OBVIOUS
  <2>3. w \in Seq(Message) /\ b \in Seq(Message) /\ Stream(out[e]) = w \o b
    BY <2>1, <2>2 DEF OutState, Stream
  <2>4. Len(w \o b) <= 3
    BY <2>1, <2>3, TurnsShort
  <2>5. Len(w) \in Nat /\ Len(b) \in Nat /\ Len(w \o b) = Len(w) + Len(b)
    BY <2>3, ConcatProperties, LenProperties
  <2>6. Len(b) <= 4 /\ Len(w) <= Cap + 1 /\ Cap + 1 \in Nat
    <3>1. PICK k \in Nat, l \in Nat, z \in Nat : k = Len(w) /\ l = Len(b) /\ z = Len(w \o b)
      BY <2>5
    <3>2. z = k + l /\ z <= 3
      BY <2>4, <2>5, <3>1
    <3>3. k <= Cap
      BY <2>1, <2>2, <3>1 DEF Room
    <3>4. l <= 4 /\ k <= Cap + 1 /\ Cap + 1 \in Nat
      BY <1>0, <3>2, <3>3
    <3> QED
      BY <3>1, <3>4
  <2>7. b \in Streams(4) /\ w \in Streams(Cap + 1)
    BY <2>3, <2>6, ShortStream
  <2>8. out[e].full \in BOOLEAN /\ (out[e].buffer # <<>> => out[e].full)
    BY <2>1 DEF OutState, TypeInv, NetInv, FinishInv, Pumped
  <2> QED
    BY <2>2, <2>7, <2>8 DEF TypeInv, FreedInv
<1>4. held \in [Node -> SUBSET End]
  BY DEF TypeInv, NetInv, NetTypes
<1>5. \A n \in Node : \A e \in held[n] : ~Free(e[1]) /\ Owner(e) = n
  BY <1>4 DEF TypeInv, NetInv, HeldInv, FreeInv
<1> QED
  BY <1>1, <1>2, <1>3, <1>4, <1>5 DEF TypeOK, TypeInv, CountInv

(* The invariant that the types rest on. *)
LEMMA TypeInvariance == Spec => []TypeInv
<1>1. Init => LoadInv /\ FreedInv /\ CountInv
  BY TypeInvInit
<1>2. NetInv /\ Placed /\ LoadInv /\ FreedInv /\ CountInv /\ [Next]_vars
        => (LoadInv /\ FreedInv /\ CountInv)'
  BY ConnectionsKept, Counted
<1>3. NetInv /\ Placed /\ LoadInv /\ FreedInv /\ CountInv => TypeInv
  BY DEF TypeInv
<1> QED
  BY <1>1, <1>2, <1>3, NetInvariance, PlacedInvariance, PTL DEF Spec

(* Every variable keeps its type: in particular a connection never has     *)
(* more than a few messages waiting, whatever the socket takes, because a  *)
(* node writes when it has read.                                           *)
THEOREM TypeCorrect == Spec => []TypeOK
BY TypeInvariance, TypesFollow, PTL

(* A node that another has read to be excluded stays out until an operator *)
(* wants it back: no connection or dial is left, and none comes, whose end *)
(* would list it again, also when a record is written long after its event *)
(* and when the node is started again.                                     *)
THEOREM ExcludedStay == Spec => ExclusionLasts
<1>1. TypeInv /\ [Next]_vars =>
        \A n, m \in Node : KeptOut(n, m) => KeptOut(n, m)' \/ Readmit(n, m) \/ DeleteNode(n, m)
  <2> SUFFICES ASSUME TypeInv, [Next]_vars, NEW n \in Node, NEW m \in Node, KeptOut(n, m),
                      ~Readmit(n, m), ~DeleteNode(n, m)
               PROVE  KeptOut(n, m)'
    OBVIOUS
  <2>1. /\ stored[n][m] = "excluded" /\ ~Listed(n, m)
        /\ <<n, m>> \notin dialing /\ <<n, m>> \notin updates
        /\ stored \in [Node -> [Node -> RecordState]] /\ unl \in [Node -> SUBSET Node]
    BY DEF KeptOut, TypeInv, CountInv, Records
  <2>2. stored'[n][m] = "excluded" /\ <<n, m>> \notin updates'
    <3>1. CASE UNCHANGED records
      BY <2>1, <3>1 DEF records
    <3>2. ASSUME NEW j \in Node, NEW k \in Node, SetState(j, k),
                 Listed(j, k) \/ <<j, k>> \in dialing
          PROVE  stored'[n][m] = "excluded" /\ <<n, m>> \notin updates'
      <4>1. ~(j = n /\ k = m)
        BY <2>1, <3>2
      <4> QED
        BY <2>1, <3>2, <4>1 DEF SetState, Updated
    <3>3. ASSUME NEW j \in Node, NEW k \in Node, SettleUpdate(j, k)
          PROVE  stored'[n][m] = "excluded" /\ <<n, m>> \notin updates'
      <4>1. ~(j = n /\ k = m) /\ updates' \subseteq updates
        BY <2>1, <3>3 DEF SettleUpdate
      <4> QED
        BY <2>1, <3>3, <4>1 DEF SettleUpdate, Updated
    <3>4. ASSUME NEW j \in Node, NEW k \in Node,
                 AddNode(j, k) \/ DeleteNode(j, k) \/ Exclude(j, k) \/ Readmit(j, k)
          PROVE  stored'[n][m] = "excluded" /\ <<n, m>> \notin updates'
      <4>1. ~(j = n /\ k = m) /\ updates' = updates
        BY <2>1, <3>4 DEF AddNode, DeleteNode, Exclude, Readmit
      <4> QED
        BY <2>1, <3>4, <4>1 DEF AddNode, DeleteNode, Exclude, Readmit
    <3> QED
      BY <3>1, <3>2, <3>3, <3>4, RecordsStep DEF TypeInv
  <2>3. ~Listed(n, m)'
    <3>1. m \notin Recorded(n)
      BY <2>1 DEF Recorded
    <3>2. unl'[n] = unl[n] \/ unl'[n] = Recorded(n)
      BY ListsStep DEF TypeInv
    <3> QED
      BY <2>1, <3>1, <3>2 DEF Listed
  <2>4. <<n, m>> \notin dialing'
    BY <2>1, ListsStep DEF TypeInv
  <2> QED
    BY <2>2, <2>3, <2>4 DEF KeptOut
<1> QED
  BY <1>1, TypeInvariance, PTL DEF Spec, ExclusionLasts
===============================================================================
