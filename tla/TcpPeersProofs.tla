--------------------------- MODULE TcpPeersProofs ---------------------------
(***************************************************************************)
(* What the proofs about every TCP server need of TcpPeers: streams of     *)
(* bytes and their pieces, and what the peers' moves and the system calls  *)
(* do to the accept queue.                                                 *)
(***************************************************************************)
EXTENDS TcpPeers, SequenceTheorems, TLAPS

(***************************************************************************)
(* Streams of bytes and the pieces a server cuts them into.                *)
(***************************************************************************)
ByteSeq == Seq(Conn \X Nat)

\* A piece of a peer's stream is a sequence of the bytes it says.
LEMMA StreamProperties ==
  ASSUME NEW c \in Conn, NEW m \in Nat, NEW n \in Nat, m <= n
  PROVE  /\ Stream(c, m, n) \in ByteSeq
         /\ Len(Stream(c, m, n)) = n - m
         /\ \A k \in 1..(n - m) : Stream(c, m, n)[k] = <<c, m + k>>
<1> DEFINE e(k) == <<c, m + k>>
<1>1. n - m \in Nat /\ \A k \in 1..(n - m) : e(k) \in Conn \X Nat
  OBVIOUS
<1>2. Stream(c, m, n) = [k \in 1..(n - m) |-> e(k)]
  BY DEF Stream
<1> HIDE DEF e
<1>3. Stream(c, m, n) \in [1..(n - m) -> Conn \X Nat]
  BY <1>1, <1>2
<1>4. Stream(c, m, n) \in ByteSeq
  BY <1>1, <1>3, SeqDef DEF ByteSeq
<1>5. Len(Stream(c, m, n)) = n - m
  BY <1>1, <1>3, <1>4
<1>6. \A k \in 1..(n - m) : Stream(c, m, n)[k] = e(k)
  BY <1>2
<1>7. QED
  BY <1>4, <1>5, <1>6 DEF e

\* The same of a piece that begins with the peer's first byte.
LEMMA StreamFromStart ==
  ASSUME NEW c \in Conn, NEW n \in Nat
  PROVE  /\ Stream(c, 0, n) \in ByteSeq
         /\ Len(Stream(c, 0, n)) = n
         /\ \A k \in 1..n : Stream(c, 0, n)[k] = <<c, k>>
<1>1. /\ Stream(c, 0, n) \in ByteSeq
      /\ Len(Stream(c, 0, n)) = n - 0
      /\ \A k \in 1..(n - 0) : Stream(c, 0, n)[k] = <<c, 0 + k>>
  BY StreamProperties, 0 <= n
<1>2. n - 0 = n /\ \A k \in 1..n : 0 + k = k
  OBVIOUS
<1>3. QED
  BY <1>1, <1>2

\* Two adjacent pieces make the longer one.
LEMMA StreamConcat ==
  ASSUME NEW c \in Conn, NEW m \in Nat, NEW n \in Nat, m <= n
  PROVE  Stream(c, 0, m) \o Stream(c, m, n) = Stream(c, 0, n)
<1> DEFINE a == Stream(c, 0, m)  b == Stream(c, m, n)  ab == Stream(c, 0, n)
<1>1. a \in ByteSeq /\ Len(a) = m /\ \A k \in 1..m : a[k] = <<c, k>>
  BY StreamFromStart
<1>2. b \in ByteSeq /\ Len(b) = n - m /\ \A k \in 1..(n - m) : b[k] = <<c, m + k>>
  BY StreamProperties
<1>3. ab \in ByteSeq /\ Len(ab) = n /\ \A k \in 1..n : ab[k] = <<c, k>>
  BY StreamFromStart
<1> HIDE DEF a, b, ab
<1>4. /\ a \o b \in ByteSeq /\ Len(a \o b) = Len(a) + Len(b)
      /\ \A k \in 1..(Len(a) + Len(b)) :
           (a \o b)[k] = IF k <= Len(a) THEN a[k] ELSE b[k - Len(a)]
  BY <1>1, <1>2, ConcatProperties DEF ByteSeq
<1>5. \A k \in 1..n : (a \o b)[k] = <<c, k>>
  BY <1>1, <1>2, <1>4
<1>6. a \o b = ab
  <2>1. Len(a \o b) = Len(ab) /\ \A k \in 1..Len(a \o b) : (a \o b)[k] = ab[k]
    <3>1. Len(a) + Len(b) = n
      BY <1>1, <1>2
    <3>2. QED
      BY <1>3, <1>4, <1>5, <3>1
  <2>2. QED
    BY <1>3, <1>4, <2>1, SeqEqual, Zenon DEF ByteSeq
<1>7. QED
  BY <1>6 DEF a, b, ab

\* What a partial send() takes and what it leaves make the whole buffer.
LEMMA StreamGrows ==
  ASSUME NEW c \in Conn, NEW m \in Nat, NEW n \in Nat, m < n
  PROVE  /\ Stream(c, m, n) # <<>>
         /\ Stream(c, 0, m) \o Stream(c, m, n) = Stream(c, 0, n)
<1>1. m <= n /\ n - m # 0
  OBVIOUS
<1>2. Stream(c, m, n) \in ByteSeq /\ Len(Stream(c, m, n)) # 0
  BY <1>1, StreamProperties
<1>3. Stream(c, m, n) # <<>>
  BY <1>2, EmptySeq DEF ByteSeq
<1>4. QED
  BY <1>1, <1>3, StreamConcat

\* Sequences of bytes may be regrouped.
LEMMA EchoAssociative ==
  ASSUME NEW a \in ByteSeq, NEW b \in ByteSeq, NEW d \in ByteSeq
  PROVE  (a \o b) \o d = a \o (b \o d)
BY ConcatAssociative DEF ByteSeq

\* What send() takes from the front of the buffer and what memmove() keeps
\* (lines 336-347) are the buffer, and something is kept unless all was taken.
LEMMA SplitBuffer ==
  ASSUME NEW b \in ByteSeq, NEW n \in 1..Len(b)
  PROVE  /\ SubSeq(b, 1, n) \in ByteSeq
         /\ SubSeq(b, n + 1, Len(b)) \in ByteSeq
         /\ SubSeq(b, 1, n) \o SubSeq(b, n + 1, Len(b)) = b
         /\ n = Len(b) => SubSeq(b, 1, n) = b
         /\ n < Len(b) => SubSeq(b, n + 1, Len(b)) # <<>>
<1>1. Len(b) \in Nat /\ \A k \in 1..Len(b) : b[k] \in Conn \X Nat
  BY ElementOfSeq, LenProperties DEF ByteSeq
<1>2. SubSeq(b, 1, n) \in ByteSeq
  BY <1>1, SubSeqProperties DEF ByteSeq
<1>3. /\ SubSeq(b, n + 1, Len(b)) \in ByteSeq
      /\ Len(SubSeq(b, n + 1, Len(b))) = IF n + 1 <= Len(b) THEN Len(b) - n ELSE 0
  BY <1>1, SubSeqProperties DEF ByteSeq
<1>4. SubSeq(b, 1, Len(b)) = b
  BY SubSeqFull DEF ByteSeq
<1>5. SubSeq(b, 1, n) \o SubSeq(b, n + 1, Len(b)) = SubSeq(b, 1, Len(b))
  BY <1>1, ConcatAdjacentSubSeq DEF ByteSeq
<1>6. n < Len(b) => SubSeq(b, n + 1, Len(b)) # <<>>
  <2>1. n < Len(b) => Len(SubSeq(b, n + 1, Len(b))) # 0
    BY <1>1, <1>3
  <2>2. Len(<<>>) = 0
    BY EmptySeq
  <2>3. QED
    BY <2>1, <2>2
<1>7. QED
  BY <1>2, <1>3, <1>4, <1>5, <1>6

(***************************************************************************)
(* The accept queue holds each waiting connection once.                    *)
(***************************************************************************)
QueueOK ==
  /\ \A j \in 1..Len(backlog) : phase[backlog[j]] = "queued"
  /\ \A j, k \in 1..Len(backlog) : backlog[j] = backlog[k] => j = k

\* What the peers do keeps the queue, opens or closes no accepted connection,
\* and only adds to what has been sent, before the peer shuts down.
LEMMA PeersMove ==
  ASSUME PeersTypeOK, QueueOK, PeerNext
  PROVE  /\ PeersTypeOK' /\ QueueOK'
         /\ UNCHANGED <<taken, echoed>>
         /\ \A d \in Conn : /\ (phase'[d] = "open") <=> (phase[d] = "open")
                            /\ phase[d] = "closed" => phase'[d] = "closed"
                            /\ phase'[d] \in {"idle", "queued"} => phase[d] \in {"idle", "queued"}
                            /\ fin[d] => fin'[d]
                            /\ rst[d] => rst'[d]
                            /\ sent[d] <= sent'[d]
                            /\ fin[d] => sent'[d] = sent[d]
<1> USE PeersAssumption
<1>1. PICK c \in Conn : PeerConnect(c) \/ PeerSend(c) \/ PeerShutdown(c) \/ PeerReset(c)
  BY DEF PeerNext
<1>2. /\ phase \in [Conn -> Phase] /\ fin \in [Conn -> BOOLEAN] /\ rst \in [Conn -> BOOLEAN]
      /\ sent \in [Conn -> 0..MaxSend] /\ taken \in [Conn -> 0..MaxSend]
      /\ backlog \in Seq(Conn) /\ MaxSend \in Nat
  BY DEF PeersTypeOK
<1>3. CASE PeerConnect(c)
  <2>1. /\ phase[c] = "idle" /\ phase' = [phase EXCEPT ![c] = "queued"]
        /\ backlog' = Append(backlog, c)
        /\ UNCHANGED <<fin, rst, sent, taken, echoed>>
    BY <1>3 DEF PeerConnect
  <2>2. PeersTypeOK'
    BY <1>2, <2>1 DEF PeersTypeOK, Phase
  <2>3. \A j \in 1..Len(backlog) : backlog[j] # c /\ backlog[j] \in Conn
    BY <1>2, <2>1 DEF QueueOK
  <2>4. QueueOK'
    BY <1>2, <2>1, <2>3 DEF QueueOK
  <2>5. QED
    BY <1>2, <2>1, <2>2, <2>4
<1>4. CASE PeerSend(c)
  <2>1. /\ ~fin[c] /\ sent[c] < MaxSend /\ sent' = [sent EXCEPT ![c] = @ + 1]
        /\ UNCHANGED <<phase, fin, rst, taken, echoed, backlog>>
    BY <1>4 DEF PeerSend
  <2>2. PeersTypeOK' /\ QueueOK'
    BY <1>2, <2>1 DEF PeersTypeOK, QueueOK
  <2>3. QED
    BY <1>2, <2>1, <2>2
<1>5. CASE PeerShutdown(c)
  <2>1. fin' = [fin EXCEPT ![c] = TRUE] /\ UNCHANGED <<phase, rst, sent, taken, echoed, backlog>>
    BY <1>5 DEF PeerShutdown
  <2>2. PeersTypeOK' /\ QueueOK'
    BY <1>2, <2>1 DEF PeersTypeOK, QueueOK
  <2>3. QED
    BY <1>2, <2>1, <2>2
<1>6. CASE PeerReset(c)
  <2>1. rst' = [rst EXCEPT ![c] = TRUE] /\ UNCHANGED <<fin, sent, taken, echoed>>
    BY <1>6 DEF PeerReset
  <2>2. CASE UNCHANGED <<backlog, phase>>
    BY <1>2, <2>1, <2>2 DEF PeersTypeOK, QueueOK
  <2>3. CASE /\ phase[c] = "queued"
             /\ \E k \in 1..Len(backlog) : backlog[k] = c /\ backlog' = LeaveQueue(k)
             /\ phase' = [phase EXCEPT ![c] = "closed"]
    <3>1. PICK k \in 1..Len(backlog) : backlog[k] = c /\ backlog' = LeaveQueue(k)
      BY <2>3
    <3>2. /\ Len(backlog) \in Nat /\ Len(backlog) > 0
          /\ backlog' = [j \in 1..(Len(backlog) - 1) |->
                            IF j < k THEN backlog[j] ELSE backlog[j + 1]]
          /\ \A j \in 1..Len(backlog) : backlog[j] \in Conn
      BY <1>2, <3>1 DEF LeaveQueue
    <3>3. backlog' \in Seq(Conn) /\ Len(backlog') = Len(backlog) - 1
      BY <1>2, <3>2
    <3> DEFINE at(x) == IF x < k THEN x ELSE x + 1
    <3>4. \A j \in 1..Len(backlog') : at(j) \in 1..Len(backlog) /\ at(j) # k /\ backlog'[j] = backlog[at(j)]
      BY <3>2, <3>3
    <3>5. \A j, l \in 1..Len(backlog') : at(j) = at(l) => j = l
      BY <3>2, <3>3
    <3> HIDE DEF at
    <3>6. \A m \in 1..Len(backlog) : m # k => backlog[m] # c /\ phase[backlog[m]] = "queued"
      BY <3>1 DEF QueueOK
    <3>7. \A j \in 1..Len(backlog') : phase'[backlog'[j]] = "queued"
      <4> SUFFICES ASSUME NEW j \in 1..Len(backlog') PROVE phase'[backlog'[j]] = "queued"
        OBVIOUS
      <4>1. /\ backlog'[j] = backlog[at(j)] /\ backlog[at(j)] # c
            /\ phase[backlog[at(j)]] = "queued" /\ backlog[at(j)] \in Conn
        BY <3>2, <3>4, <3>6
      <4>2. QED
        BY <1>2, <2>3, <4>1
    <3>8. \A j, l \in 1..Len(backlog') : backlog'[j] = backlog'[l] => j = l
      BY <3>4, <3>5 DEF QueueOK
    <3>9. PeersTypeOK'
      BY <1>2, <2>1, <2>3, <3>3 DEF PeersTypeOK, Phase
    <3>10. QED
      BY <1>2, <2>1, <2>3, <3>7, <3>8, <3>9 DEF QueueOK
  <2>4. QED
    BY <1>6, <2>2, <2>3 DEF PeerReset
<1>7. QED
  BY <1>1, <1>3, <1>4, <1>5, <1>6

\* accept() takes out of the queue a connection that was waiting in it.
LEMMA AcceptMove ==
  ASSUME PeersTypeOK, QueueOK, NEW c \in Conn, SysAccept(c)
  PROVE  PeersTypeOK' /\ QueueOK' /\ phase[c] = "queued"
<1>1. /\ phase \in [Conn -> Phase] /\ backlog \in Seq(Conn) /\ backlog # <<>> /\ c = Head(backlog)
      /\ backlog' = Tail(backlog) /\ phase' = [phase EXCEPT ![c] = "open"]
      /\ UNCHANGED <<fin, rst, sent, taken, echoed>>
  BY DEF SysAccept, PeersTypeOK
<1>2. /\ Len(backlog) \in Nat /\ 1 \in 1..Len(backlog) /\ backlog[1] = c
      /\ backlog' \in Seq(Conn) /\ Len(backlog') = Len(backlog) - 1
      /\ \A j \in 1..Len(backlog') : backlog'[j] = backlog[j + 1] /\ j + 1 \in 1..Len(backlog)
  BY <1>1
<1>3. PeersTypeOK'
  BY <1>1, <1>2 DEF PeersTypeOK, Phase
<1>4. \A j \in 1..Len(backlog') : backlog'[j] # c /\ phase[backlog'[j]] = "queued" /\ backlog'[j] \in Conn
  <2> SUFFICES ASSUME NEW j \in 1..Len(backlog')
               PROVE  backlog'[j] # c /\ phase[backlog'[j]] = "queued" /\ backlog'[j] \in Conn
    OBVIOUS
  <2>1. backlog'[j] = backlog[j + 1] /\ j + 1 \in 1..Len(backlog) /\ j + 1 # 1
    BY <1>2
  <2>2. backlog[j + 1] # backlog[1] /\ phase[backlog[j + 1]] = "queued"
    BY <1>2, <2>1 DEF QueueOK
  <2>3. QED
    BY <1>1, <1>2, <2>1, <2>2
<1>5. \A j \in 1..Len(backlog') : phase'[backlog'[j]] = "queued"
  BY <1>1, <1>4
<1>6. \A j, k \in 1..Len(backlog') : backlog'[j] = backlog'[k] => j = k
  <2> SUFFICES ASSUME NEW j \in 1..Len(backlog'), NEW k \in 1..Len(backlog'),
                      backlog'[j] = backlog'[k]
               PROVE  j = k
    OBVIOUS
  <2>1. backlog[j + 1] = backlog[k + 1] /\ j + 1 \in 1..Len(backlog) /\ k + 1 \in 1..Len(backlog)
    BY <1>2
  <2>2. j + 1 = k + 1
    BY <2>1 DEF QueueOK
  <2>3. QED
    BY <1>2, <2>2
<1>7. phase[c] = "queued"
  BY <1>2 DEF QueueOK
<1>8. QED
  BY <1>3, <1>5, <1>6, <1>7 DEF QueueOK

\* Closing connections that have left the queue, and all that are in it with
\* the listening socket or none, keeps the queue.
LEMMA ReleaseMove ==
  ASSUME PeersTypeOK, QueueOK, NEW gone \in SUBSET Conn, NEW deaf \in BOOLEAN,
         \A c \in gone : phase[c] # "queued", SysRelease(gone, deaf)
  PROVE  PeersTypeOK' /\ QueueOK'
<1>1. /\ phase \in [Conn -> Phase] /\ backlog \in Seq(Conn)
      /\ phase' = [c \in Conn |-> IF c \in gone \/ (deaf /\ phase[c] = "queued")
                                    THEN "closed" ELSE phase[c]]
      /\ backlog' = IF deaf THEN <<>> ELSE backlog
      /\ UNCHANGED <<fin, rst, sent, taken, echoed>>
  BY DEF SysRelease, PeersTypeOK
<1>2. PeersTypeOK'
  <2>1. phase' \in [Conn -> Phase]
    BY <1>1 DEF Phase
  <2>2. backlog' \in Seq(Conn)
    BY <1>1
  <2>3. QED
    BY <1>1, <2>1, <2>2 DEF PeersTypeOK
<1>3. QueueOK'
  <2>1. CASE deaf
    <3>1. Len(backlog') = 0
      BY <1>1, <2>1
    <3>2. QED
      BY <3>1 DEF QueueOK
  <2>2. CASE ~deaf
    <3>1. backlog' = backlog /\ \A j \in 1..Len(backlog) : backlog[j] \in Conn
      BY <1>1, <2>2
    <3>2. \A c \in Conn : phase[c] = "queued" => phase'[c] = "queued"
      BY <1>1, <2>2
    <3>3. QED
      BY <3>1, <3>2 DEF QueueOK
  <2>3. QED
    BY <2>1, <2>2
<1>4. QED
  BY <1>2, <1>3

\* When what was sent back and a buffer make a peer's stream, the front of the
\* buffer is the bytes that come next.
LEMMA FrontIsNext ==
  ASSUME NEW c \in Conn, NEW e \in ByteSeq, NEW b \in ByteSeq, NEW t \in Nat,
         e \o b = Stream(c, 0, t), NEW n \in 1..Len(b)
  PROVE  /\ SubSeq(b, 1, n) = [k \in 1..n |-> <<c, Len(e) + k>>]
         /\ Len(e) + n <= t
<1> DEFINE m == Len(e)
           s == SubSeq(b, 1, n)
           f == [k \in 1..n |-> <<c, m + k>>]
<1>1. m \in Nat /\ Len(b) \in Nat /\ n \in Nat /\ 1 <= n /\ n <= Len(b)
  BY DEF ByteSeq
<1>2. /\ Len(e \o b) = m + Len(b)
      /\ \A k \in 1..(m + Len(b)) : (e \o b)[k] = IF k <= m THEN e[k] ELSE b[k - m]
  BY ConcatProperties DEF ByteSeq
<1>3. Len(Stream(c, 0, t)) = t /\ \A k \in 1..t : Stream(c, 0, t)[k] = <<c, k>>
  BY StreamFromStart
<1>4. /\ s \in ByteSeq /\ Len(s) = n
      /\ \A k \in 1..n : s[k] = b[k]
  BY <1>1, SubSeqProperties DEF ByteSeq
<1> HIDE DEF m, s
<1>5. m + Len(b) = t
  BY <1>2, <1>3
<1>6. \A k \in 1..n : s[k] = <<c, m + k>>
  <2> SUFFICES ASSUME NEW k \in 1..n PROVE s[k] = <<c, m + k>>
    OBVIOUS
  <2>1. m + k \in 1..t /\ ~(m + k <= m) /\ (m + k) - m = k
    BY <1>1, <1>5
  <2>2. (e \o b)[m + k] = b[k]
    BY <1>2, <1>5, <2>1
  <2>3. Stream(c, 0, t)[m + k] = <<c, m + k>>
    BY <1>3, <2>1
  <2>4. QED
    BY <1>4, <2>2, <2>3
<1>7. s = f
  <2>1. s \in [1..n -> Conn \X Nat]
    BY <1>4 DEF ByteSeq
  <2>2. QED
    BY <1>6, <2>1
<1>8. m + n <= t
  BY <1>1, <1>5
<1>9. QED
  BY <1>7, <1>8 DEF m, s
=============================================================================
