-------------------------- MODULE ClientPollProofs --------------------------
(***************************************************************************)
(* Circulates, for any number of connections and targets and any size of   *)
(* the packet and of the buffer: no byte of a packet is lost, added or     *)
(* moved, however sends and receives are split.  ExitsForAReason: the      *)
(* events of poll() are old when they are handled, and no harm in it.      *)
(***************************************************************************)
EXTENDS ClientPoll, SequenceTheorems, TLAPS

(* What holds of one entry of the arrays: its events and revents, buffer,  *)
(* counters, and the bytes under way and come back.  A packet's bytes go   *)
(* round in the order of the packet repeated for ever, and recv() is only  *)
(* called with an empty buffer.                                            *)
EntryInv(ev, rev, b, s, r, t, a) ==
  /\ b \in Seq(Byte) /\ t \in Seq(Byte) /\ r \in Nat /\ a \in 0..Len(t)
  /\ ev \in {"IN", "OUT"} /\ ("IN" \in rev => ev = "IN")
  /\ t \o b = Pattern(r + 1, r + Packet)
  /\ s = r + Len(t)
  /\ (ev = "OUT") <=> (b # <<>>)

EntryAt(k) ==
  EntryInv(events[k], revents[k], buf[k], bytes_sent[k], bytes_received[k], transit[k], arrived[k])

Shape ==
  /\ count \in Nat /\ i \in Nat
  /\ DOMAIN events = Entries /\ DOMAIN revents = Entries /\ DOMAIN buf = Entries
  /\ DOMAIN bytes_sent = Entries /\ DOMAIN bytes_received = Entries
  /\ DOMAIN transit = Entries /\ DOMAIN arrived = Entries

ClientInv == Shape /\ \A k \in Entries : EntryAt(k)

-----------------------------------------------------------------------------
(* The packet repeated for ever.                                           *)

\* A number below the divisor is its own remainder.
LEMMA SmallRest ==
  ASSUME NEW P \in Nat, P > 0, NEW x \in 0..(P - 1)
  PROVE  x % P = x
<1> DEFINE d == x \div P
           r == x % P
<1>1. d \in Nat /\ r \in 0..(P - 1) /\ x = P * d + r
  OBVIOUS
<1> HIDE DEF d, r
<1>2. CASE d >= 1
  <2>1. P * d >= P * 1
    BY <1>1, <1>2
  <2>2. QED
    BY <1>1, <2>1
<1>3. CASE d = 0
  <2>1. P * d = 0
    BY <1>3
  <2>2. x = r
    BY <1>1, <2>1
  <2>3. QED
    BY <2>2 DEF r
<1>4. QED
  BY <1>1, <1>2, <1>3

\* Going round once does not change the remainder.
LEMMA RoundRest ==
  ASSUME NEW P \in Nat, P > 0, NEW x \in Nat
  PROVE  (x + P) % P = x % P
<1> DEFINE d == x \div P
           r == x % P
           e == (x + P) \div P
           q == (x + P) % P
<1>1. /\ d \in Nat /\ r \in 0..(P - 1) /\ x = P * d + r
      /\ e \in Nat /\ q \in 0..(P - 1) /\ x + P = P * e + q
  OBVIOUS
<1> HIDE DEF d, r, e, q
<1>2. P * (d + 1) = P * d + P
  BY <1>1
<1>3. P * (d + 1) + r = P * e + q
  BY <1>1, <1>2
<1>4. CASE e >= d + 2
  <2>1. P * e >= P * (d + 2)
    BY <1>1, <1>4
  <2>2. P * (d + 2) = P * (d + 1) + P
    BY <1>1
  <2>3. QED
    BY <1>1, <1>3, <2>1, <2>2
<1>5. CASE e <= d
  <2>1. P * e <= P * d
    BY <1>1, <1>5
  <2>2. QED
    BY <1>1, <1>2, <1>3, <2>1
<1>6. CASE e = d + 1
  <2>1. P * e = P * (d + 1)
    BY <1>6
  <2>2. r = q
    BY <1>1, <1>3, <2>1
  <2>3. QED
    BY <2>2 DEF r, q
<1>7. QED
  BY <1>1, <1>4, <1>5, <1>6

\* One round of the packet from any place, byte by byte.
LEMMA PatternRound ==
  ASSUME NEW r \in Nat
  PROVE  /\ Pattern(r + 1, r + Packet) = [m \in 1..Packet |-> ((r + m - 1) % Packet) + 1]
         /\ Pattern(r + 1, r + Packet) \in Seq(Byte)
         /\ Len(Pattern(r + 1, r + Packet)) = Packet
<1>0. Packet \in Nat /\ Packet > 0
  BY ClientAssumption
<1>1. (r + Packet) - (r + 1) + 1 = Packet
  BY <1>0
<1>2. \A m \in 1..Packet : (r + 1) + m - 2 = r + m - 1
  BY <1>0
<1>3. Pattern(r + 1, r + Packet) = [m \in 1..Packet |-> ((r + m - 1) % Packet) + 1]
  BY <1>1, <1>2 DEF Pattern
<1>4. \A m \in 1..Packet : ((r + m - 1) % Packet) + 1 \in Byte
  BY <1>0 DEF Byte
<1> DEFINE p == Pattern(r + 1, r + Packet)
<1>5. p \in [1..Packet -> Byte]
  BY <1>3, <1>4, Zenon
<1> HIDE DEF p
<1>6. p \in Seq(Byte) /\ Len(p) = Packet
  BY <1>0, <1>5
<1>7. QED
  BY <1>3, <1>6 DEF p

\* A new connection has the whole packet to send.
LEMMA NewEntry == EntryInv("OUT", {}, FirstPacket, 0, 0, <<>>, 0)
<1>0. Packet \in Nat /\ Packet > 0
  BY ClientAssumption
<1>1. FirstPacket \in Seq(Byte) /\ FirstPacket # <<>> /\ <<>> \in Seq(Byte)
  BY <1>0 DEF FirstPacket, Byte
<1>2. \A m \in 1..Packet : ((0 + m - 1) % Packet) + 1 = m
  <2> SUFFICES ASSUME NEW m \in 1..Packet PROVE ((0 + m - 1) % Packet) + 1 = m
    OBVIOUS
  <2>1. 0 + m - 1 = m - 1 /\ m - 1 \in 0..(Packet - 1)
    BY <1>0
  <2>2. (m - 1) % Packet = m - 1
    BY <1>0, <2>1, SmallRest
  <2>3. QED
    BY <2>1, <2>2
<1>3. FirstPacket = Pattern(0 + 1, 0 + Packet)
  <2>1. Pattern(0 + 1, 0 + Packet) = [m \in 1..Packet |-> ((0 + m - 1) % Packet) + 1]
    BY PatternRound
  <2>2. QED
    BY <1>2, <2>1 DEF FirstPacket
<1>4. <<>> \o FirstPacket = FirstPacket
  BY <1>1
<1>5. Len(<<>>) = 0
  OBVIOUS
<1>6. QED
  BY <1>1, <1>3, <1>4, <1>5 DEF EntryInv

\* What a concatenation holds.
LEMMA Joined ==
  ASSUME NEW p \in Seq(Byte), NEW q \in Seq(Byte)
  PROVE  /\ p \o q \in Seq(Byte) /\ Len(p \o q) = Len(p) + Len(q)
         /\ \A m \in 1..Len(p) : (p \o q)[m] = p[m]
         /\ \A m \in 1..Len(q) : (p \o q)[Len(p) + m] = q[m]
<1>1. Len(p) \in Nat /\ Len(q) \in Nat
  OBVIOUS
<1>2. QED
  BY <1>1, ConcatProperties

LEMMA Associative ==
  ASSUME NEW p \in Seq(Byte), NEW q \in Seq(Byte), NEW w \in Seq(Byte)
  PROVE  (p \o q) \o w = p \o (q \o w)
BY ConcatAssociative

\* Two ways of giving a sequence its elements.
LEMMA AsFunction ==
  ASSUME NEW E, NEW p \in Seq(E)
  PROVE  p = [m \in 1..Len(p) |-> p[m]]
OBVIOUS

\* send() of n bytes moves them from the buffer to those under way.
LEMMA EntrySends ==
  ASSUME NEW ev, NEW rev, NEW b, NEW s, NEW r, NEW t, NEW a,
         EntryInv(ev, rev, b, s, r, t, a), NEW n \in 1..Len(b)
  PROVE  EntryInv(IF n < Len(b) THEN ev ELSE "IN", {}, SubSeq(b, n + 1, Len(b)),
                  s + n, r, t \o SubSeq(b, 1, n), a)
<1> DEFINE b1 == SubSeq(b, 1, n)
           b2 == SubSeq(b, n + 1, Len(b))
<1>1. /\ b \in Seq(Byte) /\ t \in Seq(Byte) /\ r \in Nat /\ a \in 0..Len(t)
      /\ t \o b = Pattern(r + 1, r + Packet) /\ s = r + Len(t) /\ ev \in {"IN", "OUT"}
      /\ (ev = "OUT") <=> (b # <<>>)
  BY DEF EntryInv
<1>2. Len(b) \in Nat /\ Len(t) \in Nat /\ \A k \in 1..Len(b) : b[k] \in Byte
  BY <1>1, LenProperties, ElementOfSeq
<1>3. b1 \in Seq(Byte) /\ Len(b1) = n /\ b2 \in Seq(Byte) /\ Len(b2) = Len(b) - n
  BY <1>1, <1>2, SubSeqProperties
<1>4. b1 \o b2 = b
  <2>1. 1 \in 1..Len(b) + 1 /\ n \in 1 - 1..Len(b) /\ Len(b) \in n..Len(b)
    BY <1>2
  <2>2. b1 \o b2 = SubSeq(b, 1, Len(b))
    BY <1>1, <2>1, ConcatAdjacentSubSeq, Zenon
  <2>3. QED
    BY <1>1, <2>2, SubSeqFull
<1> HIDE DEF b1, b2
<1>5. (t \o b1) \o b2 = t \o b
  <2>1. (t \o b1) \o b2 = t \o (b1 \o b2)
    <3>1. t \in Seq(Byte) /\ b1 \in Seq(Byte) /\ b2 \in Seq(Byte)
      BY <1>1, <1>3
    <3>2. QED
      BY ONLY <3>1, Associative
  <2>2. QED
    BY <1>4, <2>1
<1>6. t \o b1 \in Seq(Byte) /\ Len(t \o b1) = Len(t) + n
  <2>1. t \o b1 \in Seq(Byte) /\ Len(t \o b1) = Len(t) + Len(b1)
    BY <1>1, <1>3, Joined
  <2>2. QED
    BY <1>3, <2>1
<1>7. ev = "OUT"
  BY <1>1, <1>2, EmptySeq
<1>8. (n < Len(b)) <=> (b2 # <<>>)
  BY <1>2, <1>3, EmptySeq
<1>9. s + n = r + Len(t \o b1)
  BY <1>1, <1>2, <1>6
<1>10. a \in 0..Len(t \o b1)
  BY <1>1, <1>2, <1>6
<1>11. QED
  BY <1>1, <1>3, <1>5, <1>6, <1>7, <1>8, <1>9, <1>10 DEF EntryInv, b1, b2

\* recv() of n bytes that have come back: the packet has gone round by n.
LEMMA EntryReceives ==
  ASSUME NEW ev, NEW rev, NEW b, NEW s, NEW r, NEW t, NEW a,
         EntryInv(ev, rev, b, s, r, t, a), "IN" \in rev, NEW n \in 1..a
  PROVE  EntryInv("OUT", {}, SubSeq(t, 1, n), s, r + n, SubSeq(t, n + 1, Len(t)), a - n)
<1> DEFINE t1 == SubSeq(t, 1, n)
           t2 == SubSeq(t, n + 1, Len(t))
<1>0. Packet \in Nat /\ Packet > 0
  BY ClientAssumption
<1>1. /\ t \in Seq(Byte) /\ r \in Nat /\ a \in 0..Len(t) /\ Len(t) \in Nat /\ n \in Nat
      /\ b = <<>> /\ s = r + Len(t)
  BY LenProperties DEF EntryInv
<1>2. t = Pattern(r + 1, r + Packet)
  BY <1>1 DEF EntryInv
<1>3. Len(t) = Packet /\ \A m \in 1..Packet : t[m] = ((r + m - 1) % Packet) + 1 /\ t[m] \in Byte
  BY <1>1, <1>2, PatternRound, ElementOfSeq
<1>4. t1 \in Seq(Byte) /\ Len(t1) = n /\ t2 \in Seq(Byte) /\ Len(t2) = Packet - n
  BY <1>1, <1>3, SubSeqProperties
<1>5. /\ \A m \in 1..n : t1[m] = t[m]
      /\ \A m \in 1..(Packet - n) : t2[m] = t[n + m]
  <2>1. \A m \in 1..n : t1[m] = t[m]
    BY <1>1, <1>3, SubSeqProperties
  <2>2. \A m \in 1..(Packet - (n + 1) + 1) : t2[m] = t[(n + 1) + m - 1]
    BY <1>0, <1>1, <1>3, SubSeqProperties
  <2>3. \A m \in 1..(Packet - n) : t2[m] = t[(n + 1) + m - 1] /\ (n + 1) + m - 1 = n + m
    <3>1. n \in Int /\ Packet - (n + 1) + 1 = Packet - n
      BY <1>0, <1>1
    <3>2. \A m \in 1..(Packet - n) : (n + 1) + m - 1 = n + m
      BY <1>0, <1>1
    <3>3. QED
      BY <2>2, <3>1, <3>2
  <2>4. QED
    BY <2>1, <2>3
<1> HIDE DEF t1, t2
<1> DEFINE u == t2 \o t1
<1>6. /\ u \in Seq(Byte) /\ Len(u) = Packet
      /\ \A m \in 1..(Packet - n) : u[m] = t2[m]
      /\ \A m \in 1..n : u[(Packet - n) + m] = t1[m]
  <2>1. /\ u \in Seq(Byte) /\ Len(u) = Len(t2) + Len(t1)
        /\ \A m \in 1..Len(t2) : u[m] = t2[m]
        /\ \A m \in 1..Len(t1) : u[Len(t2) + m] = t1[m]
    <3>1. t1 \in Seq(Byte) /\ t2 \in Seq(Byte)
      BY <1>4
    <3>2. QED
      BY ONLY <3>1, Joined DEF u
  <2> HIDE DEF u
  <2>2. QED
    BY <1>0, <1>1, <1>4, <2>1
<1> HIDE DEF u
<1>7. ASSUME NEW m \in 1..Packet
      PROVE  u[m] = (((r + n) + m - 1) % Packet) + 1
  <2>1. CASE m <= Packet - n
    <3>1. u[m] = t[n + m]
      BY <1>0, <1>1, <1>5, <1>6, <2>1
    <3>2. t[n + m] = ((r + (n + m) - 1) % Packet) + 1 /\ r + (n + m) - 1 = (r + n) + m - 1
      BY <1>0, <1>1, <1>3, <2>1
    <3>3. QED
      BY <3>1, <3>2
  <2>2. CASE m > Packet - n
    <3> DEFINE k == m - (Packet - n)
    <3>1. k \in 1..n /\ k \in 1..Packet
      BY <1>0, <1>1, <1>3, <2>2
    <3>2. u[m] = t[k]
      <4>1. m = (Packet - n) + k
        BY <1>0, <1>1
      <4>2. u[(Packet - n) + k] = t1[k] /\ t1[k] = t[k]
        BY <1>5, <1>6, <3>1
      <4>3. QED
        BY <4>1, <4>2
    <3>3. r + k - 1 \in Nat /\ (r + k - 1) + Packet = (r + n) + m - 1
      BY <1>0, <1>1, <3>1
    <3>4. ((r + n) + m - 1) % Packet = (r + k - 1) % Packet
      BY <1>0, <3>3, RoundRest
    <3>5. QED
      BY <1>3, <3>1, <3>2, <3>4
  <2>3. QED
    <3>1. m \in Nat /\ Packet - n \in Int
      BY <1>0, <1>1
    <3>2. QED
      BY <2>1, <2>2, <3>1
<1>8. u = Pattern((r + n) + 1, (r + n) + Packet)
  <2>1. r + n \in Nat
    BY <1>1
  <2>2. Pattern((r + n) + 1, (r + n) + Packet) = [m \in 1..Packet |-> (((r + n) + m - 1) % Packet) + 1]
    BY <2>1, PatternRound
  <2>3. u = [m \in 1..Packet |-> u[m]]
    BY <1>6, AsFunction
  <2>4. QED
    BY <1>7, <2>2, <2>3
<1>9. t1 # <<>>
  BY <1>1, <1>4, EmptySeq
<1>10. s = (r + n) + Len(t2) /\ a - n \in 0..Len(t2) /\ r + n \in Nat
  BY <1>0, <1>1, <1>3, <1>4
<1>11. QED
  BY <1>4, <1>8, <1>9, <1>10 DEF EntryInv, t1, t2, u

\* Another snapshot of poll(), or one more byte back from the server.
LEMMA EntryKeeps ==
  ASSUME NEW ev, NEW rev, NEW b, NEW s, NEW r, NEW t, NEW a,
         EntryInv(ev, rev, b, s, r, t, a), NEW seen, "IN" \in seen => ev = "IN"
  PROVE  /\ EntryInv(ev, seen, b, s, r, t, a)
         /\ a < Len(t) => EntryInv(ev, rev, b, s, r, t, a + 1)
<1>1. Len(t) \in Nat
  BY LenProperties DEF EntryInv
<1>2. QED
  BY <1>1 DEF EntryInv

-----------------------------------------------------------------------------
(* The invariant of the entries is inductive.                              *)

LEMMA InitClientInv == Init => ClientInv
BY DEF Init, ClientInv, Shape, Entries, None

\* connect() adds an entry and leaves the others.
LEMMA ConnectKeeps ==
  ASSUME ClientInv, ConnectNext, i' \in Nat
  PROVE  ClientInv'
<1>1. count \in Nat /\ Entries' = 0..count /\ count \in Entries'
  BY DEF ClientInv, Shape, ConnectNext, Entries
<1>2. Shape'
  BY <1>1 DEF Shape, ConnectNext, With
<1>3. ASSUME NEW k \in Entries' PROVE EntryAt(k)'
  <2>1. CASE k = count
    <3>1. /\ events'[k] = "OUT" /\ revents'[k] = {} /\ buf'[k] = FirstPacket
          /\ bytes_sent'[k] = 0 /\ bytes_received'[k] = 0
          /\ transit'[k] = <<>> /\ arrived'[k] = 0
      BY <1>1, <2>1 DEF ConnectNext, With
    <3>2. QED
      BY <3>1, NewEntry DEF EntryAt
  <2>2. CASE k # count
    <3>1. k \in Entries
      <4>1. k \in 0..count
        BY <1>1
      <4>2. k \in 0..(count - 1)
        BY <1>1, <2>2, <4>1
      <4>3. QED
        BY <4>2 DEF Entries
    <3>2. /\ events'[k] = events[k] /\ revents'[k] = revents[k] /\ buf'[k] = buf[k]
          /\ bytes_sent'[k] = bytes_sent[k] /\ bytes_received'[k] = bytes_received[k]
          /\ transit'[k] = transit[k] /\ arrived'[k] = arrived[k]
      BY <1>1, <2>2 DEF ConnectNext, With
    <3>3. QED
      BY <3>1, <3>2 DEF EntryAt, ClientInv
  <2>3. QED
    BY <2>1, <2>2
<1>4. QED
  BY <1>2, <1>3 DEF ClientInv

\* A step that changes nothing of the entries.
LEMMA StillKeeps ==
  ASSUME ClientInv, UNCHANGED <<entryVars, count, transit, arrived>>, i' \in Nat
  PROVE  ClientInv'
<1> USE DEF entryVars
<1>1. Entries' = Entries
  BY DEF Entries
<1>2. Shape'
  BY <1>1 DEF ClientInv, Shape
<1>3. ASSUME NEW k \in Entries' PROVE EntryAt(k)'
  BY <1>1 DEF ClientInv, EntryAt
<1>4. QED
  BY <1>2, <1>3 DEF ClientInv

\* A step that only changes what poll() has reported.
LEMMA SnapshotKeeps ==
  ASSUME ClientInv, i' \in Nat, DOMAIN revents' = Entries,
         UNCHANGED <<events, buf, bytes_sent, bytes_received, count, transit, arrived>>,
         \A k \in Entries : "IN" \in revents'[k] => events[k] = "IN"
  PROVE  ClientInv'
<1>1. Entries' = Entries
  BY DEF Entries
<1>2. Shape'
  BY <1>1 DEF ClientInv, Shape
<1>3. ASSUME NEW k \in Entries' PROVE EntryAt(k)'
  <2>1. EntryAt(k) /\ ("IN" \in revents'[k] => events[k] = "IN")
    BY <1>1 DEF ClientInv
  <2>2. EntryInv(events[k], revents'[k], buf[k], bytes_sent[k], bytes_received[k],
                 transit[k], arrived[k])
    BY <2>1 DEF EntryAt, EntryInv
  <2>3. QED
    BY <2>2 DEF EntryAt
<1>4. QED
  BY <1>2, <1>3 DEF ClientInv

LEMMA RecvKeeps ==
  ASSUME ClientInv, RecvData
  PROVE  ClientInv'
<1> DEFINE n == IF arrived[i] < BufSize THEN arrived[i] ELSE BufSize
<1>1. i \in Entries /\ count' = count /\ Entries' = Entries
  BY DEF ClientInv, Shape, RecvData, Handling, Entries
<1>2. EntryAt(i) /\ arrived[i] \in Nat /\ BufSize \in Nat
  <2>1. EntryAt(i)
    BY <1>1 DEF ClientInv
  <2>2. arrived[i] \in 0..Len(transit[i]) /\ transit[i] \in Seq(Byte)
    BY <2>1 DEF EntryAt, EntryInv
  <2>3. Len(transit[i]) \in Nat
    BY <2>2, LenProperties
  <2>4. QED
    BY <2>1, <2>2, <2>3, ClientAssumption
<1>3. "IN" \in revents[i] /\ n \in 1..arrived[i]
  BY <1>2 DEF RecvData
<1>4. /\ DOMAIN events = Entries /\ DOMAIN revents = Entries /\ DOMAIN buf = Entries
      /\ DOMAIN bytes_sent = Entries /\ DOMAIN bytes_received = Entries
      /\ DOMAIN transit = Entries /\ DOMAIN arrived = Entries /\ i \in Nat /\ count \in Nat
  BY DEF ClientInv, Shape
<1>5. /\ buf' = [buf EXCEPT ![i] = SubSeq(transit[i], 1, n)]
      /\ transit' = [transit EXCEPT ![i] = SubSeq(@, n + 1, Len(@))]
      /\ arrived' = [arrived EXCEPT ![i] = @ - n]
      /\ bytes_received' = [bytes_received EXCEPT ![i] = @ + n]
      /\ events' = [events EXCEPT ![i] = "OUT"]
      /\ revents' = [revents EXCEPT ![i] = {}] /\ i' = i + 1
      /\ bytes_sent' = bytes_sent
  BY DEF RecvData, Handled
<1> HIDE DEF n
<1>6. Shape'
  BY <1>1, <1>4, <1>5 DEF Shape
<1>7. EntryInv("OUT", {}, SubSeq(transit[i], 1, n), bytes_sent[i], bytes_received[i] + n,
               SubSeq(transit[i], n + 1, Len(transit[i])), arrived[i] - n)
  BY <1>2, <1>3, EntryReceives DEF EntryAt
<1>8. ASSUME NEW k \in Entries PROVE EntryAt(k)'
  <2>1. CASE k = i
    <3>1. /\ events'[k] = "OUT" /\ revents'[k] = {} /\ buf'[k] = SubSeq(transit[i], 1, n)
          /\ bytes_sent'[k] = bytes_sent[i] /\ bytes_received'[k] = bytes_received[i] + n
          /\ transit'[k] = SubSeq(transit[i], n + 1, Len(transit[i]))
          /\ arrived'[k] = arrived[i] - n
      BY <1>1, <1>4, <1>5, <2>1
    <3>2. QED
      BY <1>7, <3>1 DEF EntryAt
  <2>2. CASE k # i
    <3>1. /\ events'[k] = events[k] /\ revents'[k] = revents[k] /\ buf'[k] = buf[k]
          /\ bytes_sent'[k] = bytes_sent[k] /\ bytes_received'[k] = bytes_received[k]
          /\ transit'[k] = transit[k] /\ arrived'[k] = arrived[k]
      BY <1>4, <1>5, <2>2
    <3>2. QED
      BY <3>1 DEF EntryAt, ClientInv
  <2>3. QED
    BY <2>1, <2>2
<1>9. QED
  BY <1>1, <1>6, <1>8 DEF ClientInv

LEMMA SendKeeps ==
  ASSUME ClientInv, NEW n \in 1..BufSize, SendSome(n)
  PROVE  ClientInv'
<1>1. i \in Entries /\ count' = count /\ Entries' = Entries
  BY DEF ClientInv, Shape, SendSome, Handling, Entries
<1>2. EntryAt(i) /\ n \in 1..Len(buf[i])
  BY <1>1 DEF ClientInv, SendSome
<1>3. /\ DOMAIN events = Entries /\ DOMAIN revents = Entries /\ DOMAIN buf = Entries
      /\ DOMAIN bytes_sent = Entries /\ DOMAIN bytes_received = Entries
      /\ DOMAIN transit = Entries /\ DOMAIN arrived = Entries /\ i \in Nat /\ count \in Nat
  BY DEF ClientInv, Shape
<1>4. /\ transit' = [transit EXCEPT ![i] = @ \o SubSeq(buf[i], 1, n)]
      /\ bytes_sent' = [bytes_sent EXCEPT ![i] = @ + n]
      /\ buf' = [buf EXCEPT ![i] = SubSeq(@, n + 1, Len(@))]
      /\ events' = IF n < Len(buf[i]) THEN events ELSE [events EXCEPT ![i] = "IN"]
      /\ revents' = [revents EXCEPT ![i] = {}] /\ i' = i + 1
      /\ UNCHANGED <<bytes_received, arrived>>
  BY DEF SendSome, Handled
<1>5. Shape'
  BY <1>1, <1>3, <1>4 DEF Shape
<1>6. EntryInv(IF n < Len(buf[i]) THEN events[i] ELSE "IN", {}, SubSeq(buf[i], n + 1, Len(buf[i])),
               bytes_sent[i] + n, bytes_received[i], transit[i] \o SubSeq(buf[i], 1, n), arrived[i])
  BY <1>2, EntrySends DEF EntryAt
<1>7. ASSUME NEW k \in Entries PROVE EntryAt(k)'
  <2>1. CASE k = i
    <3>1. /\ events'[k] = IF n < Len(buf[i]) THEN events[i] ELSE "IN"
          /\ revents'[k] = {} /\ buf'[k] = SubSeq(buf[i], n + 1, Len(buf[i]))
          /\ bytes_sent'[k] = bytes_sent[i] + n /\ bytes_received'[k] = bytes_received[i]
          /\ transit'[k] = transit[i] \o SubSeq(buf[i], 1, n)
          /\ arrived'[k] = arrived[i]
      BY <1>1, <1>3, <1>4, <2>1
    <3>2. QED
      BY <1>6, <3>1 DEF EntryAt
  <2>2. CASE k # i
    <3>1. /\ events'[k] = events[k] /\ revents'[k] = revents[k] /\ buf'[k] = buf[k]
          /\ bytes_sent'[k] = bytes_sent[k] /\ bytes_received'[k] = bytes_received[k]
          /\ transit'[k] = transit[k] /\ arrived'[k] = arrived[k]
      BY <1>3, <1>4, <2>2
    <3>2. QED
      BY <3>1 DEF EntryAt, ClientInv
  <2>3. QED
    BY <2>1, <2>2
<1>8. QED
  BY <1>1, <1>5, <1>7 DEF ClientInv

\* The servers send back what is under way, and connections come and go.
LEMMA ServersKeep ==
  ASSUME ClientInv, Servers
  PROVE  ClientInv'
<1>1. PICK j \in Entries : Network(j)
  BY DEF Servers
<1>2. UNCHANGED <<entryVars, count, i>> /\ i \in Nat
  BY DEF Servers, ClientInv, Shape
<1>3. CASE UNCHANGED <<transit, arrived>>
  BY <1>2, <1>3, StillKeeps
<1>4. CASE /\ arrived[j] < Len(transit[j])
           /\ arrived' = [arrived EXCEPT ![j] = @ + 1]
           /\ UNCHANGED transit
  <2>1. Entries' = Entries /\ DOMAIN arrived = Entries
    BY <1>2 DEF Entries, ClientInv, Shape
  <2>2. Shape'
    BY <1>2, <1>4, <2>1 DEF ClientInv, Shape, entryVars
  <2>3. ASSUME NEW k \in Entries PROVE EntryAt(k)'
    <3>0. /\ EntryAt(k)
          /\ events'[k] = events[k] /\ revents'[k] = revents[k] /\ buf'[k] = buf[k]
          /\ bytes_sent'[k] = bytes_sent[k] /\ bytes_received'[k] = bytes_received[k]
          /\ transit'[k] = transit[k]
      BY <1>2, <1>4 DEF ClientInv, entryVars
    <3>1. CASE k = j
      <4>1. arrived'[k] = arrived[k] + 1 /\ arrived[k] < Len(transit[k])
        BY <1>4, <2>1, <3>1
      <4>2. EntryInv(events[k], revents[k], buf[k], bytes_sent[k], bytes_received[k],
                     transit[k], arrived[k] + 1)
        <5>1. EntryInv(events[k], revents[k], buf[k], bytes_sent[k], bytes_received[k],
                       transit[k], arrived[k])
          BY <3>0 DEF EntryAt
        <5>2. "IN" \in revents[k] => events[k] = "IN"
          BY <5>1 DEF EntryInv
        <5>3. QED
          BY <4>1, <5>1, <5>2, EntryKeeps
      <4>3. QED
        BY <3>0, <4>1, <4>2 DEF EntryAt
    <3>2. CASE k # j
      <4>1. arrived'[k] = arrived[k]
        BY <1>4, <2>1, <3>2
      <4>2. QED
        BY <3>0, <4>1 DEF EntryAt
    <3>3. QED
      BY <3>1, <3>2
  <2>4. QED
    BY <2>1, <2>2, <2>3 DEF ClientInv
<1>5. QED
  BY <1>1, <1>3, <1>4 DEF Network, Becomes

LEMMA NextClientInv == ClientInv /\ [Next]_vars => ClientInv'
<1> SUFFICES ASSUME ClientInv, [Next]_vars PROVE ClientInv'
  OBVIOUS
<1>0. i \in Nat /\ i + 1 \in Nat
  BY DEF ClientInv, Shape
<1>1. CASE CommandLine \/ Started \/ ConnectFails \/ PollFails \/ SkipIdle \/ HangUp
           \/ RecvEnds \/ SendFails \/ UNCHANGED vars
  <2>1. UNCHANGED <<entryVars, count, transit, arrived>> /\ i' \in Nat
    BY <1>0, <1>1 DEF CommandLine, AddTarget, AskFor, Misused, ArgumentsRead, Started,
      ConnectFails, PollFails, SkipIdle, HangUp, RecvEnds, SendFails, Exit, vars, netVars
  <2>2. QED
    BY <2>1, StillKeeps
<1>2. CASE StartOne
  BY <1>0, <1>2, ConnectKeeps DEF StartOne
<1>3. CASE OneMore
  <2>1. i' \in Nat
    BY <1>0, <1>3 DEF OneMore
  <2>2. ConnectNext \/ UNCHANGED <<entryVars, count, transit, arrived>>
    BY <1>3 DEF OneMore, netVars
  <2>3. QED
    BY <2>1, <2>2, ConnectKeeps, StillKeeps
<1>4. CASE Poll
  <2>1. PICK slow \in SUBSET Entries, bare \in BOOLEAN :
          revents' = [k \in Entries |-> Revents(k, slow, bare)]
    BY <1>4 DEF Poll
  <2>2. \A k \in Entries : "IN" \in revents'[k] => events[k] = "IN"
    BY <2>1 DEF Revents
  <2>3. i' \in Nat /\ DOMAIN revents' = Entries
        /\ UNCHANGED <<events, buf, bytes_sent, bytes_received, count, transit, arrived>>
    BY <1>0, <1>4, <2>1 DEF Poll, netVars
  <2>4. QED
    BY <2>2, <2>3, SnapshotKeeps
<1>5. CASE Refused
  <2>1. DOMAIN revents = Entries /\ \A k \in Entries : "IN" \in revents[k] => events[k] = "IN"
    BY DEF ClientInv, Shape, EntryAt, EntryInv
  <2>2. revents' = [revents EXCEPT ![i] = {}] /\ i' = i + 1
        /\ UNCHANGED <<events, buf, bytes_sent, bytes_received, count, transit, arrived>>
    BY <1>5 DEF Refused, Handled, netVars
  <2>3. DOMAIN revents' = Entries /\ \A k \in Entries : "IN" \in revents'[k] => events[k] = "IN"
    BY <2>1, <2>2
  <2>4. QED
    BY <1>0, <2>2, <2>3, SnapshotKeeps
<1>6. CASE EndPass
  <2>1. i' \in Nat /\ revents' = [k \in Entries |-> {}]
        /\ UNCHANGED <<events, buf, bytes_sent, bytes_received, count, transit, arrived>>
    BY <1>0, <1>6 DEF EndPass, netVars
  <2>2. DOMAIN revents' = Entries /\ \A k \in Entries : "IN" \in revents'[k] => events[k] = "IN"
    BY <2>1
  <2>3. QED
    BY <2>1, <2>2, SnapshotKeeps
<1>7. CASE RecvData
  BY <1>7, RecvKeeps
<1>8. CASE Send
  BY <1>8, SendKeeps DEF Send
<1>9. CASE Servers
  BY <1>9, ServersKeep
<1>10. QED
  BY <1>1, <1>2, <1>3, <1>4, <1>5, <1>6, <1>7, <1>8, <1>9 DEF Next, Client

LEMMA ClientInvCirculates == ClientInv => Circulates
BY DEF ClientInv, EntryAt, EntryInv, Circulates

-----------------------------------------------------------------------------
\* For any number of targets and connections, any size of the packet and of the
\* buffer and any servers: on each connection one packet goes round, no byte of
\* it lost, added or moved (tcp-client-poll.c:519-561).
THEOREM SpecCirculates == Spec => []Circulates
<1>1. Spec => []ClientInv
  BY InitClientInv, NextClientInv, PTL DEF Spec
<1>2. QED
  BY <1>1, ClientInvCirculates, PTL

-----------------------------------------------------------------------------
(* What is still true of an entry whose events were taken some time ago.   *)

\* The connection of an entry: its revents, counters and what has come back.
\* An error is no refusal unless POLLHUP says so too, nothing is carried before
\* a connection is up, and what could be read or sent still can, or the
\* connection has ended.
ReasonFor(rev, s, r, a, n) ==
  /\ n \in {"connecting", "up", "refused", "closed", "reset"}
  /\ n \in {"connecting", "refused"} => s = 0 /\ r = 0 /\ a = 0
  /\ rev \cap {"HUP", "ERR"} # {} =>
       /\ n \in {"refused", "closed", "reset"}
       /\ n = "refused" => "HUP" \in rev
  /\ rev \cap {"HUP", "ERR"} = {} =>
       /\ "IN" \in rev => a > 0 \/ n \in {"closed", "reset"}
       /\ "OUT" \in rev => n \in {"up", "closed", "reset"}

ReasonAt(k) == ReasonFor(revents[k], bytes_sent[k], bytes_received[k], arrived[k], net[k])

ReasonInv == DOMAIN net = Entries /\ \A k \in Entries : ReasonAt(k)

LEMMA InitReasonInv == Init => ReasonInv
BY DEF Init, ReasonInv, Entries, None

LEMMA ArrivedKnown ==
  ASSUME ClientInv, NEW k \in Entries
  PROVE  arrived[k] \in Nat
<1>1. EntryAt(k)
  BY DEF ClientInv
<1>2. transit[k] \in Seq(Byte) /\ arrived[k] \in 0..Len(transit[k])
  BY <1>1 DEF EntryAt, EntryInv
<1>3. Len(transit[k]) \in Nat
  BY <1>2, LenProperties
<1>4. QED
  BY <1>2, <1>3

\* What ReasonFor says of an entry that has just been handled.
LEMMA NothingReported ==
  ASSUME NEW s, NEW r, NEW a, NEW n \in {"connecting", "up", "refused", "closed", "reset"},
         n \in {"connecting", "refused"} => s = 0 /\ r = 0 /\ a = 0
  PROVE  ReasonFor({}, s, r, a, n)
BY DEF ReasonFor

\* A step that changes one entry at most, and its events only to none.
LEMMA OneEntry ==
  ASSUME ClientInv, ReasonInv, UNCHANGED count, NEW j \in Entries,
         DOMAIN net' = Entries, ReasonAt(j)',
         \A k \in Entries \ {j} :
           /\ revents'[k] = revents[k] /\ bytes_sent'[k] = bytes_sent[k]
           /\ bytes_received'[k] = bytes_received[k]
           /\ arrived'[k] = arrived[k] /\ net'[k] = net[k]
  PROVE  ReasonInv'
<1>1. Entries' = Entries
  BY DEF Entries
<1>2. ASSUME NEW k \in Entries, k # j PROVE ReasonAt(k)'
  BY <1>2 DEF ReasonInv, ReasonAt
<1>3. QED
  BY <1>1, <1>2 DEF ReasonInv

LEMMA ConnectReason ==
  ASSUME ClientInv, ReasonInv, ConnectNext
  PROVE  ReasonInv'
<1>1. count \in Nat /\ Entries' = 0..count
  BY DEF ClientInv, Shape, ConnectNext, Entries
<1>2. DOMAIN net' = Entries'
  BY <1>1 DEF ConnectNext, With
<1>3. ASSUME NEW k \in Entries' PROVE ReasonAt(k)'
  <2>1. CASE k = count
    <3>1. /\ revents'[k] = {} /\ bytes_sent'[k] = 0 /\ bytes_received'[k] = 0
          /\ arrived'[k] = 0 /\ net'[k] \in {"connecting", "up"}
      BY <1>1, <2>1 DEF ConnectNext, With
    <3>2. QED
      BY <3>1 DEF ReasonAt, ReasonFor
  <2>2. CASE k # count
    <3>1. k \in Entries
      <4>1. k \in 0..count
        BY <1>1
      <4>2. k \in 0..(count - 1)
        BY <1>1, <2>2, <4>1
      <4>3. QED
        BY <4>2 DEF Entries
    <3>2. /\ revents'[k] = revents[k] /\ bytes_sent'[k] = bytes_sent[k]
          /\ bytes_received'[k] = bytes_received[k]
          /\ arrived'[k] = arrived[k] /\ net'[k] = net[k]
      BY <1>1, <2>2 DEF ConnectNext, With
    <3>3. QED
      BY <3>1, <3>2 DEF ReasonAt, ReasonInv
  <2>3. QED
    BY <2>1, <2>2
<1>4. QED
  BY <1>2, <1>3 DEF ReasonInv

\* What poll() reports is true when it reports it.
LEMMA PollReason ==
  ASSUME ClientInv, ReasonInv, Poll
  PROVE  ReasonInv'
<1>1. PICK slow \in SUBSET Entries, bare \in BOOLEAN :
        revents' = [k \in Entries |-> Revents(k, slow, bare)]
  BY DEF Poll
<1>2. Entries' = Entries /\ UNCHANGED <<bytes_sent, bytes_received, net, arrived>>
  BY DEF Poll, Entries, netVars
<1>3. ASSUME NEW k \in Entries PROVE ReasonAt(k)'
  <2>1. revents'[k] = Revents(k, slow, bare)
    BY <1>1
  <2>2. ReasonAt(k)
    BY DEF ReasonInv
  <2>3. "HUP" \in Revents(k, slow, bare) =>
          net[k] \in {"refused", "closed", "reset"}
    BY DEF Revents
  <2>4. "ERR" \in Revents(k, slow, bare) <=> net[k] \in {"refused", "reset"}
    BY DEF Revents
  <2>5. net[k] = "refused" => "HUP" \in Revents(k, slow, bare)
    BY DEF Revents
  <2>6. "IN" \in Revents(k, slow, bare) => arrived[k] > 0 \/ net[k] \in {"closed", "refused", "reset"}
    BY DEF Revents
  <2>7. "OUT" \in Revents(k, slow, bare) => net[k] # "connecting"
    BY DEF Revents
  <2>8. QED
    BY <1>2, <2>1, <2>2, <2>3, <2>4, <2>5, <2>6, <2>7 DEF ReasonAt, ReasonFor
<1>4. QED
  BY <1>2, <1>3 DEF ReasonInv

\* What becomes of a connection afterwards takes no reason away.
LEMMA ServersReason ==
  ASSUME ClientInv, ReasonInv, Servers
  PROVE  ReasonInv'
<1>1. PICK j \in Entries : Network(j)
  BY DEF Servers
<1>2. UNCHANGED <<revents, bytes_sent, bytes_received, count>>
  BY DEF Servers, entryVars
<1>3. DOMAIN net = Entries /\ DOMAIN arrived = Entries /\ ReasonAt(j)
  BY DEF ClientInv, Shape, ReasonInv
<1>4. arrived[j] \in Nat
  BY ArrivedKnown
<1>5. CASE net[j] = "connecting" /\ \E outcome \in {"up", "refused"} : Becomes(j, outcome)
  <2>1. PICK outcome \in {"up", "refused"} : Becomes(j, outcome)
    BY <1>5
  <2>2. net' = [net EXCEPT ![j] = outcome] /\ UNCHANGED arrived
    BY <2>1 DEF Becomes
  <2>3. net'[j] = outcome
    BY <1>3, <2>2
  <2>4. ReasonAt(j)'
    BY <1>2, <1>3, <1>5, <2>2, <2>3 DEF ReasonAt, ReasonFor
  <2>5. QED
    BY <1>2, <1>3, <2>2, <2>4, OneEntry
<1>6. CASE net[j] \in {"up", "closed"} /\ \E ending \in {"closed", "reset"} : Becomes(j, ending)
  <2>1. PICK ending \in {"closed", "reset"} : Becomes(j, ending)
    BY <1>6
  <2>2. net' = [net EXCEPT ![j] = ending] /\ UNCHANGED arrived
    BY <2>1 DEF Becomes
  <2>3. net'[j] = ending
    BY <1>3, <2>2
  <2>4. ReasonAt(j)'
    BY <1>2, <1>3, <1>6, <2>2, <2>3 DEF ReasonAt, ReasonFor
  <2>5. QED
    BY <1>2, <1>3, <2>2, <2>4, OneEntry
<1>7. CASE net[j] = "up" /\ arrived' = [arrived EXCEPT ![j] = @ + 1] /\ UNCHANGED net
  <2>1. arrived'[j] = arrived[j] + 1
    BY <1>3, <1>7
  <2>2. ReasonAt(j)'
    BY <1>2, <1>3, <1>4, <1>7, <2>1 DEF ReasonAt, ReasonFor
  <2>3. QED
    BY <1>2, <1>3, <1>7, <2>2, OneEntry
<1>8. QED
  BY <1>1, <1>5, <1>6, <1>7 DEF Network

\* Only a connection that has been up has bytes to receive or to send.
LEMMA HandleReason ==
  ASSUME ClientInv, ReasonInv, Refused \/ RecvData \/ Send
  PROVE  ReasonInv'
<1>1. i \in Entries /\ UNCHANGED <<count, net>> /\ revents' = [revents EXCEPT ![i] = {}]
  BY DEF Refused, RecvData, Send, SendSome, Handled, Handling, ClientInv, Shape, Entries, netVars
<1>2. /\ DOMAIN revents = Entries /\ DOMAIN bytes_sent = Entries
      /\ DOMAIN bytes_received = Entries /\ DOMAIN arrived = Entries
      /\ DOMAIN net = Entries /\ ReasonAt(i)
  BY <1>1 DEF ClientInv, Shape, ReasonInv
<1>3. arrived[i] \in Nat
  BY <1>1, ArrivedKnown
<1>4. net[i] \in {"connecting", "refused"} => UNCHANGED <<bytes_sent, bytes_received, arrived>>
  <2>1. CASE Refused
    BY <2>1 DEF Refused, netVars
  <2>2. CASE RecvData
    <3>1. arrived[i] # 0
      BY <1>3, <2>2, ClientAssumption DEF RecvData
    <3>2. QED
      BY <1>2, <3>1 DEF ReasonAt, ReasonFor
  <2>3. CASE Send
    BY <2>3 DEF Send, SendSome
  <2>4. QED
    BY <2>1, <2>2, <2>3
<1>5. \A k \in Entries \ {i} :
        /\ revents'[k] = revents[k] /\ bytes_sent'[k] = bytes_sent[k]
        /\ bytes_received'[k] = bytes_received[k] /\ arrived'[k] = arrived[k]
  <2>1. CASE Refused
    BY <1>1, <1>2, <2>1 DEF Refused, netVars
  <2>2. CASE RecvData
    BY <1>1, <1>2, <2>2 DEF RecvData
  <2>3. CASE Send
    BY <1>1, <1>2, <2>3 DEF Send, SendSome
  <2>4. QED
    BY <2>1, <2>2, <2>3
<1>6. PICK j \in Entries : j = i
  BY <1>1
<1>7. ReasonAt(j)'
  <2>1. revents'[j] = {} /\ net'[j] = net[j]
    BY <1>1, <1>2, <1>6
  <2>2. /\ net[j] \in {"connecting", "up", "refused", "closed", "reset"}
        /\ net[j] \in {"connecting", "refused"} =>
             bytes_sent'[j] = 0 /\ bytes_received'[j] = 0 /\ arrived'[j] = 0
    BY <1>2, <1>4, <1>6 DEF ReasonAt, ReasonFor
  <2>3. ReasonFor({}, bytes_sent'[j], bytes_received'[j], arrived'[j], net[j])
    BY <2>2, NothingReported
  <2>4. QED
    BY <2>1, <2>3 DEF ReasonAt
<1>8. QED
  BY <1>1, <1>2, <1>5, <1>6, <1>7, OneEntry

LEMMA NextReasonInv == ClientInv /\ ReasonInv /\ [Next]_vars => ReasonInv'
<1> SUFFICES ASSUME ClientInv, ReasonInv, [Next]_vars PROVE ReasonInv'
  OBVIOUS
<1>1. ASSUME UNCHANGED <<revents, bytes_sent, bytes_received, count, arrived, net>>
      PROVE  ReasonInv'
  <2>1. Entries' = Entries
    BY <1>1 DEF Entries
  <2>2. ASSUME NEW k \in Entries PROVE ReasonAt(k)'
    BY <1>1 DEF ReasonInv, ReasonAt
  <2>3. QED
    BY <1>1, <2>1, <2>2 DEF ReasonInv
<1>2. CASE CommandLine \/ Started \/ ConnectFails \/ PollFails \/ SkipIdle \/ HangUp
           \/ RecvEnds \/ SendFails \/ UNCHANGED vars
  BY <1>1, <1>2 DEF CommandLine, AddTarget, AskFor, Misused, ArgumentsRead, Started,
    ConnectFails, PollFails, SkipIdle, HangUp, RecvEnds, SendFails, Exit, vars, entryVars, netVars
<1>3. CASE StartOne \/ OneMore
  <2>1. ConnectNext \/ UNCHANGED <<entryVars, count, netVars>>
    BY <1>3 DEF StartOne, OneMore
  <2>2. QED
    BY <1>1, <2>1, ConnectReason DEF entryVars, netVars
<1>4. CASE EndPass
  <2>1. /\ revents' = [k \in Entries |-> {}] /\ Entries' = Entries
        /\ UNCHANGED <<bytes_sent, bytes_received, arrived, net>>
    BY <1>4 DEF EndPass, Entries, netVars
  <2>2. ASSUME NEW k \in Entries PROVE ReasonAt(k)'
    <3>1. ReasonAt(k) /\ revents'[k] = {}
      BY <2>1 DEF ReasonInv
    <3>2. QED
      BY <2>1, <3>1 DEF ReasonAt, ReasonFor
  <2>3. QED
    BY <2>1, <2>2 DEF ReasonInv
<1>5. CASE Poll
  BY <1>5, PollReason
<1>6. CASE Refused \/ RecvData \/ Send
  BY <1>6, HandleReason
<1>7. CASE Servers
  BY <1>7, ServersReason
<1>8. QED
  BY <1>2, <1>3, <1>4, <1>5, <1>6, <1>7 DEF Next, Client

\* Giving up while handling events, on a connection that has ended.
LEMMA ExitHasReason ==
  ASSUME ClientInv, ReasonInv, Next, pc = "handle", pc' = "exit"
  PROVE  \E k \in Entries : net[k] \in {"closed", "reset"}
<1>1. HangUp \/ RecvEnds \/ SendFails
  BY DEF Next, Client, CommandLine, AddTarget, AskFor, Misused, ArgumentsRead, StartOne, Started,
    OneMore, ConnectFails, Poll, PollFails, SkipIdle, Refused, RecvData, Send, SendSome, EndPass, Servers
<1>2. i \in Entries /\ ReasonAt(i)
  BY <1>1 DEF HangUp, RecvEnds, SendFails, Handling, ClientInv, Shape, ReasonInv, Entries
<1>3. CASE HangUp
  <2>1. Failed /\ ("HUP" \in revents[i] => ~Untouched)
    BY <1>3 DEF HangUp
  <2>2. net[i] # "refused"
    BY <1>2, <2>1 DEF Failed, Untouched, ReasonAt, ReasonFor
  <2>3. QED
    BY <1>2, <2>1, <2>2 DEF Failed, ReasonAt, ReasonFor
<1>4. CASE RecvEnds
  BY <1>2, <1>4 DEF RecvEnds, Failed, ReasonAt, ReasonFor
<1>5. CASE SendFails
  BY <1>2, <1>5 DEF SendFails, Failed, ReasonAt, ReasonFor
<1>6. QED
  BY <1>1, <1>3, <1>4, <1>5

\* For any number of connections, and whatever becomes of them between poll() and
\* the call it leads to: handling events ends the program only if a server has
\* closed or reset a connection that was up, never for a refused one, and never
\* because an event is no longer true (tcp-client-poll.c:490-567).
THEOREM SpecExitsForAReason == Spec => ExitsForAReason
<1>1. ClientInv /\ ReasonInv /\ [Next]_vars
        => [pc = "handle" /\ pc' = "exit" => \E k \in Entries : net[k] \in {"closed", "reset"}]_vars
  BY ExitHasReason
<1>2. QED
  BY <1>1, InitClientInv, NextClientInv, InitReasonInv, NextReasonInv, PTL DEF Spec, ExitsForAReason
=============================================================================
