----------------------------- MODULE MycatProofs -----------------------------
(***************************************************************************)
(* Theorems about Mycat for every size of the input, of the connection and *)
(* of the buffers, with their proofs.                                      *)
(***************************************************************************)
EXTENDS Mycat, SequenceTheorems, TLAPS

(***************************************************************************)
(* Cutting a sequence in two.                                              *)
(***************************************************************************)

\* What a call takes from a queue and what it leaves are the queue.
LEMMA TakeDrop ==
  ASSUME NEW s \in Bytes, NEW n \in Nat
  PROVE  /\ Take(s, n) \in Bytes
         /\ Drop(s, n) \in Bytes
         /\ Len(Take(s, n)) = Least(n, Len(s))
         /\ Len(Drop(s, n)) = Len(s) - Least(n, Len(s))
         /\ Take(s, n) \o Drop(s, n) = s
<1> DEFINE m == Least(n, Len(s))  S == 1..MaxIn
<1>0. s \in Seq(S)
  BY DEF Bytes
<1> HIDE DEF S
<1>1. Len(s) \in Nat /\ m \in 0..Len(s)
  BY <1>0 DEF Least
<1>2. \A k \in 1..Len(s) : s[k] \in S
  BY <1>0, ElementOfSeq
<1>3. /\ SubSeq(s, 1, m) \in Seq(S)
      /\ Len(SubSeq(s, 1, m)) = IF 1 <= m THEN m - 1 + 1 ELSE 0
  <2>1. 1 \in Int /\ m \in Int /\ \A k \in 1..m : s[k] \in S
    BY <1>1, <1>2
  <2> HIDE DEF m
  <2>2. QED
    BY <2>1, SubSeqProperties
<1>4. /\ SubSeq(s, m + 1, Len(s)) \in Seq(S)
      /\ Len(SubSeq(s, m + 1, Len(s))) = IF m + 1 <= Len(s) THEN Len(s) - (m + 1) + 1 ELSE 0
  <2>1. m + 1 \in Int /\ Len(s) \in Int /\ \A k \in (m + 1)..Len(s) : s[k] \in S
    BY <1>1, <1>2
  <2> HIDE DEF m
  <2>2. QED
    BY <2>1, SubSeqProperties
<1>5. SubSeq(s, 1, m) \o SubSeq(s, m + 1, Len(s)) = SubSeq(s, 1, Len(s))
  <2>1. 1 \in 1..(Len(s) + 1) /\ m \in (1 - 1)..Len(s) /\ Len(s) \in m..Len(s)
    BY <1>1
  <2> HIDE DEF m
  <2>2. QED
    BY <1>0, <2>1, ConcatAdjacentSubSeq
<1>6. SubSeq(s, 1, Len(s)) = s
  BY <1>0, SubSeqFull
<1> HIDE DEF m
<1>7. Take(s, n) = SubSeq(s, 1, m) /\ Drop(s, n) = SubSeq(s, m + 1, Len(s))
  BY DEF Take, Drop, m
<1>8. Len(SubSeq(s, 1, m)) = m /\ Len(SubSeq(s, m + 1, Len(s))) = Len(s) - m
  BY <1>1, <1>3, <1>4
<1>9. QED
  BY <1>3, <1>4, <1>5, <1>6, <1>7, <1>8 DEF m, S, Bytes

\* Queues of bytes may be put one after the other, and regrouped.
LEMMA Concat ==
  ASSUME NEW a \in Bytes, NEW b \in Bytes
  PROVE  /\ a \o b \in Bytes
         /\ Len(a) \in Nat /\ Len(b) \in Nat /\ Len(a \o b) = Len(a) + Len(b)
BY ConcatProperties, LenProperties DEF Bytes

\* The order in which they are put together does not matter.
LEMMA Regroup ==
  ASSUME NEW a \in Bytes, NEW t \in Bytes, NEW d \in Bytes
  PROVE  (a \o t) \o d = a \o (t \o d)
BY ConcatAssociative DEF Bytes

\* Moving the front of one queue to the end of the one before it changes
\* nothing about the two taken together.
LEMMA Moves ==
  ASSUME NEW a \in Bytes, NEW b \in Bytes, NEW n \in Nat
  PROVE  (a \o Take(b, n)) \o Drop(b, n) = a \o b
<1>1. PICK t \in Bytes, d \in Bytes : t = Take(b, n) /\ d = Drop(b, n) /\ t \o d = b
  BY TakeDrop
<1>2. (a \o t) \o d = a \o (t \o d)
  BY Regroup
<1>3. QED
  BY <1>1, <1>2

\* A call that is given one byte of room takes one, if there is one.
LEMMA LeastOne ==
  ASSUME NEW n \in Nat, n # 0
  PROVE  Least(1, n) = 1
BY DEF Least

\* Bytes taken from the front of a queue may join either end of a regrouping.
LEMMA Joins ==
  ASSUME NEW a \in Bytes, NEW b \in Bytes, NEW c \in Bytes, NEW n \in Nat
  PROVE  a \o (b \o Take(c, n)) = (a \o b) \o Take(c, n)
<1>1. Take(c, n) \in Bytes
  BY TakeDrop
<1>2. (a \o b) \o Take(c, n) = a \o (b \o Take(c, n))
  <2>1. PICK t \in Bytes : t = Take(c, n)
    BY <1>1
  <2>2. (a \o b) \o t = a \o (b \o t)
    BY Regroup
  <2>3. QED
    BY <2>1, <2>2
<1>3. QED
  BY <1>2

\* The first n bytes of stdin, and the k bytes that follow them.
First(n) == [j \in 1..n |-> j]
NextOnes(n, k) == [j \in 1..k |-> n + j]

\* They are sequences, and together the first n + k.
LEMMA FirstNext ==
  ASSUME NEW n \in Nat, NEW k \in Nat, NEW m \in Nat, n + k <= m
  PROVE  /\ First(n) \in Seq(1..m) /\ NextOnes(n, k) \in Seq(1..m)
         /\ Len(NextOnes(n, k)) = k
         /\ First(n) \o NextOnes(n, k) = First(n + k)
<1>1. \A l \in Nat : l <= m => First(l) \in Seq(1..m) /\ Len(First(l)) = l
  <2> SUFFICES ASSUME NEW l \in Nat, l <= m
               PROVE  First(l) \in Seq(1..m) /\ Len(First(l)) = l
    OBVIOUS
  <2>1. First(l) \in [1..l -> 1..m]
    BY DEF First
  <2>2. First(l) \in Seq(1..m)
    BY <2>1, SeqDef
  <2>3. QED
    BY <2>1, <2>2, LenProperties
<1>2. NextOnes(n, k) \in Seq(1..m) /\ Len(NextOnes(n, k)) = k
  <2>1. NextOnes(n, k) \in [1..k -> 1..m]
    BY DEF NextOnes
  <2>2. NextOnes(n, k) \in Seq(1..m)
    BY <2>1, SeqDef
  <2>3. QED
    BY <2>1, <2>2, LenProperties
<1>3. /\ First(n) \o NextOnes(n, k) \in Seq(1..m)
      /\ Len(First(n) \o NextOnes(n, k)) = n + k
      /\ \A j \in 1..(n + k) : (First(n) \o NextOnes(n, k))[j] =
                                  IF j <= n THEN First(n)[j] ELSE NextOnes(n, k)[j - n]
  <2>1. First(n) \in Seq(1..m) /\ Len(First(n)) = n
    BY <1>1, n <= m
  <2> DEFINE f == First(n)  g == NextOnes(n, k)
  <2> HIDE DEF f, g
  <2>2. f \in Seq(1..m) /\ Len(f) = n /\ g \in Seq(1..m) /\ Len(g) = k
    BY <2>1, <1>2 DEF f, g
  <2>3. /\ f \o g \in Seq(1..m)
        /\ Len(f \o g) = n + k
        /\ \A j \in 1..(n + k) : (f \o g)[j] = IF j <= n THEN f[j] ELSE g[j - n]
    BY <2>2, ConcatProperties
  <2>4. QED
    BY <2>3 DEF f, g
<1>4. \A j \in 1..(n + k) : (First(n) \o NextOnes(n, k))[j] = First(n + k)[j]
  BY <1>3 DEF First, NextOnes
<1>5. First(n + k) \in Seq(1..m) /\ Len(First(n + k)) = n + k
  BY <1>1
<1>6. First(n) \o NextOnes(n, k) = First(n + k)
  BY <1>3, <1>4, <1>5, SeqEqual
<1>7. QED
  BY <1>1, <1>2, <1>6, n <= m

(***************************************************************************)
(* Types, and how much is under way.                                       *)
(***************************************************************************)
UnderWay ==
  Len(upSent) + Len(up) + Len(buf) + Len(downSent) + Len(down) + Len(rest)

\* What all but main_loop() and its kernel's receive buffer hold at most.
Beyond == 2 * SendBuf + RecvBuf + BufSize

\* What LittleUnderWay needs to be inductive: what is read from stdin is read
\* with BufSize less under way, and the two buffers hold something only while
\* their program is sending it.
FlowInv ==
  /\ TypeOK
  /\ Len(buf) <= BufSize /\ Len(rest) <= BufSize
  /\ (server = "recv" => buf = <<>>) /\ (server = "send" => buf # <<>>)
  /\ (pc \in {"start", "connect", "select", "recv", "read"} => rest = <<>>) /\ (pc = "send" => rest # <<>>)
  /\ UnderWay <= Beyond + BufSize
  /\ pc = "read" => UnderWay <= Beyond

\* The queues as sequences and their lengths as numbers.
LEMMA Lengths ==
  ASSUME NEW s \in Bytes
  PROVE  Len(s) \in Nat /\ (Len(s) = 0 <=> s = <<>>) /\ <<>> \in Bytes /\ Len(<<>>) = 0
BY EmptySeq, LenProperties DEF Bytes

LEMMA InitFlowInv == Init => FlowInv
<1> USE MycatAssumption
<1>1. <<>> \in Bytes /\ Len(<<>>) = 0
  BY EmptySeq DEF Bytes
<1>2. SUFFICES ASSUME Init PROVE FlowInv
  OBVIOUS
<1>3. TypeOK
  <2>1. 0 \in 0..MaxIn /\ 0 \in 0..0 /\ 0 <= SendBuf /\ 0 <= RecvBuf
    OBVIOUS
  <2>2. QED
    BY <1>1, <1>2, <2>1 DEF Init, TypeOK
<1>4. /\ Len(upSent) = 0 /\ Len(up) = 0 /\ Len(downSent) = 0 /\ Len(down) = 0
      /\ Len(buf) = 0 /\ Len(rest) = 0
  BY <1>1, <1>2 DEF Init
<1>5. UnderWay <= Beyond + BufSize
  BY <1>4 DEF UnderWay, Beyond
<1>6. QED
  BY <1>2, <1>3, <1>4, <1>5 DEF Init, FlowInv

\* One step of main_loop(), of the server or of the outside.
LEMMA NextFlowInv == FlowInv /\ [Next]_vars => FlowInv'
<1> SUFFICES ASSUME FlowInv, [Next]_vars PROVE FlowInv'
  OBVIOUS
<1> USE MycatAssumption
<1>1. TypeOK
  BY DEF FlowInv
<1>2. /\ upSent \in Bytes /\ up \in Bytes /\ downSent \in Bytes /\ down \in Bytes
      /\ buf \in Bytes /\ rest \in Bytes /\ stdout \in Bytes
      /\ Len(upSent) \in Nat /\ Len(up) \in Nat /\ Len(downSent) \in Nat /\ Len(down) \in Nat
      /\ Len(buf) \in Nat /\ Len(rest) \in Nat
  BY <1>1, Lengths DEF TypeOK
<1>3. \A s \in Bytes : Len(s) \in Nat /\ (Len(s) = 0 <=> s = <<>>) /\ <<>> \in Bytes /\ Len(<<>>) = 0
  BY Lengths
<1> DEFINE same == /\ upSent' = upSent /\ up' = up /\ downSent' = downSent /\ down' = down
                   /\ buf' = buf /\ rest' = rest /\ server' = server
<1>17. ASSUME same PROVE UnderWay' = UnderWay
  BY <1>17 DEF UnderWay
<1>18. ASSUME down = <<>>, rest = <<>> PROVE UnderWay <= Beyond
  BY <1>2, <1>3, <1>18 DEF UnderWay, Beyond, FlowInv, TypeOK
<1>4. CASE Select
  <2>1. same /\ pc = "select" /\ rest = <<>> /\ pc' \in {"aborted", "recv", "read"}
    BY <1>4 DEF Select, FlowInv, netVars, srvVars
  <2>2. TypeOK'
    BY <1>1, <1>4, <2>1 DEF Select, Ready, TypeOK, Ended, inVars, netVars, srvVars
  <2>3. pc' = "read" => down = <<>>
    BY <1>4 DEF Select, Ready
  <2>4. QED
    BY <1>17, <1>18, <2>1, <2>2, <2>3 DEF FlowInv, Beyond
<1>5. CASE RecvData
  <2>1. /\ Take(down, BufSize) \in Bytes /\ Drop(down, BufSize) \in Bytes
        /\ Len(Drop(down, BufSize)) = Len(down) - Least(BufSize, Len(down))
    BY <1>2, TakeDrop
  <2>2. stdout \o Take(down, BufSize) \in Bytes
    BY <1>2, <2>1, Concat
  <2>3. TypeOK'
    <3>1. down' \in Bytes /\ stdout' \in Bytes /\ Len(down') <= RecvBuf
      BY <1>1, <1>2, <1>5, <2>1, <2>2 DEF RecvData, TypeOK, Least
    <3>2. pc' \in {"select", "read"}
      BY <1>5 DEF RecvData, AfterRecv
    <3>3. QED
      BY <1>1, <1>5, <3>1, <3>2 DEF RecvData, TypeOK, inVars, srvVars
  <2>4. /\ Len(down') = Len(down) - Least(BufSize, Len(down))
        /\ upSent' = upSent /\ up' = up /\ downSent' = downSent
        /\ buf' = buf /\ rest' = rest /\ server' = server /\ rest = <<>>
        /\ pc' \in {"select", "read"}
    BY <1>5, <2>1 DEF RecvData, AfterRecv, FlowInv, srvVars
  <2>5. /\ UnderWay <= Beyond + BufSize /\ Len(upSent) <= SendBuf /\ Len(up) <= RecvBuf
        /\ Len(downSent) <= SendBuf /\ Len(buf) <= BufSize /\ Len(rest) = 0
    BY <1>3, <2>4 DEF FlowInv, TypeOK
  <2>6. UnderWay' <= Beyond
    <3> DEFINE l == Least(BufSize, Len(down))
    <3>1. l \in Nat /\ l <= Len(down) /\ (l = BufSize \/ l = Len(down))
      BY <1>2 DEF Least
    <3> HIDE DEF l
    <3>2. Len(down') = Len(down) - l
      BY <2>4 DEF l
    <3>3. UnderWay' = UnderWay - l
      BY <1>2, <2>4, <3>1, <3>2 DEF UnderWay
    <3>4. CASE l = BufSize
      BY <1>2, <2>5, <3>3, <3>4 DEF UnderWay, Beyond
    <3>5. CASE l = Len(down)
      BY <1>2, <2>5, <3>3, <3>5 DEF UnderWay, Beyond
    <3>6. QED
      BY <3>1, <3>4, <3>5
  <2>7. UnderWay' <= Beyond + BufSize
    <3>1. UnderWay' \in Int /\ Beyond \in Int
      BY <2>3, Lengths DEF UnderWay, Beyond, TypeOK
    <3>2. QED
      BY <2>6, <3>1
  <2>8. QED
    BY <2>3, <2>4, <2>6, <2>7 DEF FlowInv, Beyond
<1>6. CASE RecvEof
  <2>1. TypeOK'
    BY <1>1, <1>6 DEF RecvEof, AfterRecv, TypeOK, Ended, inVars, srvVars
  <2>2. /\ same /\ pc' \in {"done", "read", "select"} /\ pc = "recv" /\ down = <<>>
    BY <1>6 DEF RecvEof, AfterRecv, srvVars
  <2>3. UnderWay <= Beyond
    BY <1>18, <2>2 DEF FlowInv
  <2>4. QED
    BY <1>17, <2>1, <2>2, <2>3 DEF FlowInv, Beyond
<1>7. CASE ReadData
  <2> DEFINE n == Least(BufSize, typed - taken)
  <2>1. n \in 1..BufSize /\ taken \in Nat /\ taken + n <= typed /\ typed <= MaxIn
    BY <1>1, <1>7 DEF ReadData, TypeOK, Least
  <2>2. rest' = NextOnes(taken, n) /\ taken' = taken + n
    BY <1>7 DEF ReadData, NextOnes
  <2> HIDE DEF n
  <2>3. rest' \in Bytes /\ Len(rest') = n
    <3>1. n \in Nat /\ taken \in Nat /\ taken + n <= MaxIn
      BY <1>1, <2>1 DEF TypeOK
    <3>2. NextOnes(taken, n) \in Seq(1..MaxIn) /\ Len(NextOnes(taken, n)) = n
      BY <3>1, FirstNext
    <3>3. QED
      BY <2>2, <3>2 DEF Bytes
  <2>4. TypeOK'
    BY <1>1, <1>7, <2>1, <2>2, <2>3 DEF ReadData, TypeOK, inVars, netVars, srvVars
  <2>5. rest' # <<>>
    BY <1>3, <2>1, <2>3
  <2>6. UnderWay' <= Beyond + BufSize /\ Len(rest') <= BufSize
    <3>1. /\ upSent' = upSent /\ up' = up /\ downSent' = downSent /\ down' = down /\ buf' = buf
          /\ UnderWay <= Beyond /\ Len(rest) = 0
      BY <1>3, <1>7 DEF ReadData, FlowInv, netVars, srvVars
    <3>2. UnderWay' = UnderWay + n
      BY <1>2, <2>1, <2>3, <3>1 DEF UnderWay
    <3>3. UnderWay \in Int /\ Beyond \in Int
      BY <1>2 DEF UnderWay, Beyond
    <3>4. QED
      BY <2>1, <2>3, <3>1, <3>2, <3>3
  <2>7. QED
    BY <1>7, <2>4, <2>5, <2>6 DEF ReadData, FlowInv, Beyond, srvVars
<1>8. CASE ReadEof
  <2>1. TypeOK'
    BY <1>1, <1>8 DEF ReadEof, TypeOK, inVars, srvVars
  <2>2. same /\ pc = "read" /\ pc' = "select"
    BY <1>8 DEF ReadEof, srvVars
  <2>3. QED
    BY <1>17, <2>1, <2>2 DEF FlowInv, Beyond
<1>9. CASE SendOn
  <2> DEFINE room == SendBuf - Len(upSent)
  <2>1. room \in Nat
    BY <1>1, <1>2, <1>9 DEF SendOn, TypeOK
  <2>2. /\ Take(rest, room) \in Bytes /\ Drop(rest, room) \in Bytes
        /\ Len(Take(rest, room)) = Least(room, Len(rest))
        /\ Len(Drop(rest, room)) = Len(rest) - Least(room, Len(rest))
    BY <1>2, <2>1, TakeDrop
  <2>3. upSent \o Take(rest, room) \in Bytes /\ Len(upSent \o Take(rest, room)) = Len(upSent) + Least(room, Len(rest))
    BY <1>2, <2>2, Concat
  <2>4. /\ upSent' = upSent \o Take(rest, room) /\ rest' = Drop(rest, room)
        /\ pc' = IF Len(rest) <= room THEN "select" ELSE "send"
    BY <1>9 DEF SendOn
  <2>5. upSent' \in Bytes /\ rest' \in Bytes /\ Len(upSent') <= SendBuf
    BY <1>2, <2>1, <2>2, <2>3, <2>4 DEF Least
  <2>6. /\ Len(upSent') = Len(upSent) + Least(room, Len(rest))
        /\ Len(rest') = Len(rest) - Least(room, Len(rest))
        /\ up' = up /\ downSent' = downSent /\ down' = down /\ buf' = buf
    BY <1>9, <2>2, <2>3, <2>4 DEF SendOn, srvVars
  <2>7. UnderWay' = UnderWay /\ Len(rest') <= Len(rest)
    <3> DEFINE l == Least(room, Len(rest))
    <3>1. l \in Nat
      BY <1>2, <2>1 DEF Least
    <3> HIDE DEF l
    <3>2. Len(upSent') = Len(upSent) + l /\ Len(rest') = Len(rest) - l
      BY <2>6 DEF l
    <3>3. QED
      BY <1>2, <2>6, <3>1, <3>2 DEF UnderWay
  <2>8. /\ pc' = IF Len(rest) <= room THEN "select" ELSE "send"
        /\ rest' = <<>> <=> Len(rest') = 0
    BY <1>3, <2>4, <2>5
  <2>9. (pc' = "select" => rest' = <<>>) /\ (pc' = "send" => rest' # <<>>)
    BY <1>2, <2>1, <2>6, <2>8 DEF Least
  <2>10. TypeOK'
    BY <1>1, <1>9, <2>4, <2>5 DEF SendOn, TypeOK, inVars, srvVars
  <2>11. Len(rest') <= BufSize /\ UnderWay' <= Beyond + BufSize
    <3>1. Len(rest') \in Nat /\ Len(rest) \in Nat
      BY <1>2, <1>3, <2>5
    <3>2. QED
      BY <2>7, <3>1 DEF FlowInv
  <2>12. QED
    BY <1>9, <2>4, <2>9, <2>10, <2>11 DEF SendOn, FlowInv, Beyond, srvVars
<1>10. CASE Fails
  <2>1. TypeOK'
    BY <1>1, <1>10 DEF Fails, TypeOK, Ended, inVars, srvVars
  <2>2. same /\ pc' = "error"
    BY <1>10 DEF Fails, srvVars
  <2>3. QED
    BY <1>17, <2>1, <2>2 DEF FlowInv, Beyond
<1>11. CASE ServerRecv
  <2>1. /\ Take(up, BufSize) \in Bytes /\ Drop(up, BufSize) \in Bytes
        /\ Len(Take(up, BufSize)) = Least(BufSize, Len(up))
        /\ Len(Drop(up, BufSize)) = Len(up) - Least(BufSize, Len(up))
    BY <1>2, TakeDrop
  <2>2. /\ buf' = Take(up, BufSize) /\ up' = Drop(up, BufSize) /\ buf = <<>> /\ up # <<>>
        /\ upSent' = upSent /\ downSent' = downSent /\ down' = down
        /\ server' = "send" /\ rest' = rest /\ pc' = pc
    BY <1>11 DEF ServerRecv, FlowInv, catVars
  <2>3. TypeOK'
    <3>1. up' \in Bytes /\ buf' \in Bytes /\ Len(up') <= RecvBuf
      BY <1>1, <1>2, <2>1, <2>2 DEF TypeOK, Least
    <3>2. QED
      BY <1>1, <1>11, <3>1 DEF ServerRecv, TypeOK, inVars, catVars
  <2>4. UnderWay' = UnderWay /\ Len(buf') <= BufSize /\ buf' # <<>>
    <3> DEFINE l == Least(BufSize, Len(up))
    <3>1. l \in 1..BufSize /\ l <= Len(up) /\ Len(buf) = 0
      BY <1>2, <1>3, <2>2 DEF Least
    <3> HIDE DEF l
    <3>2. Len(buf') = l /\ Len(up') = Len(up) - l /\ buf' \in Bytes
      BY <2>1, <2>2 DEF l
    <3>3. UnderWay' = UnderWay
      BY <1>2, <2>2, <3>1, <3>2 DEF UnderWay
    <3>4. QED
      BY <1>3, <3>1, <3>2, <3>3
  <2>5. QED
    BY <2>2, <2>3, <2>4 DEF FlowInv, Beyond
<1>12. CASE ServerSend
  <2> DEFINE room == SendBuf - Len(downSent)
  <2>1. room \in Nat
    BY <1>1, <1>2, <1>12 DEF ServerSend, TypeOK
  <2>2. /\ Take(buf, room) \in Bytes /\ Drop(buf, room) \in Bytes
        /\ Len(Take(buf, room)) = Least(room, Len(buf))
        /\ Len(Drop(buf, room)) = Len(buf) - Least(room, Len(buf))
    BY <1>2, <2>1, TakeDrop
  <2>3. downSent \o Take(buf, room) \in Bytes /\ Len(downSent \o Take(buf, room)) = Len(downSent) + Least(room, Len(buf))
    BY <1>2, <2>2, Concat
  <2>4. /\ downSent' = downSent \o Take(buf, room) /\ buf' = Drop(buf, room)
        /\ server' = IF Len(buf) <= room THEN "recv" ELSE "send"
        /\ rest' = rest /\ upSent' = upSent /\ up' = up /\ down' = down /\ pc' = pc
    BY <1>12 DEF ServerSend, catVars
  <2>5. downSent' \in Bytes /\ buf' \in Bytes /\ Len(downSent') <= SendBuf
    BY <1>2, <2>1, <2>2, <2>3, <2>4 DEF Least
  <2>6. /\ Len(downSent') = Len(downSent) + Least(room, Len(buf))
        /\ Len(buf') = Len(buf) - Least(room, Len(buf))
        /\ upSent' = upSent /\ up' = up /\ down' = down /\ rest' = rest
    BY <2>2, <2>3, <2>4
  <2>7. UnderWay' = UnderWay
    <3> DEFINE l == Least(room, Len(buf))
    <3>1. l \in Nat
      BY <1>2, <2>1 DEF Least
    <3> HIDE DEF l
    <3>2. /\ Len(downSent') = Len(downSent) + l /\ Len(buf') = Len(buf) - l
          /\ upSent' = upSent /\ up' = up /\ down' = down /\ rest' = rest
      BY <2>6 DEF l
    <3>3. QED
      BY <1>2, <3>1, <3>2 DEF UnderWay
  <2>8. /\ server' = IF Len(buf) <= room THEN "recv" ELSE "send"
        /\ buf' = <<>> <=> Len(buf') = 0
    BY <1>3, <2>4, <2>5
  <2>9. (server' = "recv" => buf' = <<>>) /\ (server' = "send" => buf' # <<>>)
    BY <1>2, <2>1, <2>6, <2>8 DEF Least
  <2>10. TypeOK'
    BY <1>1, <1>12, <2>4, <2>5 DEF ServerSend, TypeOK, inVars, catVars
  <2>11. Len(buf') <= BufSize
    BY <1>2, <2>1, <2>6 DEF FlowInv, Least
  <2>12. QED
    BY <2>4, <2>9, <2>10, <2>11, <2>7 DEF FlowInv, Beyond
<1>13. CASE ServerEnds
  <2>1. TypeOK'
    BY <1>1, <1>13 DEF ServerEnds, TypeOK, inVars, catVars
  <2>2. /\ upSent' = upSent /\ up' = up /\ downSent' = downSent /\ down' = down
        /\ buf' = buf /\ rest' = rest /\ pc' = pc /\ server' = "closed"
    BY <1>13 DEF ServerEnds, catVars
  <2>3. UnderWay' = UnderWay
    BY <2>2 DEF UnderWay
  <2>4. QED
    BY <2>1, <2>2, <2>3 DEF FlowInv, Beyond
<1>19. CASE ArriveUp
  <2>1. /\ Take(upSent, 1) \in Bytes /\ Drop(upSent, 1) \in Bytes
        /\ Len(Take(upSent, 1)) = Least(1, Len(upSent))
        /\ Len(Drop(upSent, 1)) = Len(upSent) - Least(1, Len(upSent))
    BY <1>2, TakeDrop
  <2>2. /\ up' = up \o Take(upSent, 1) /\ upSent' = Drop(upSent, 1)
        /\ Len(up) < RecvBuf /\ upSent # <<>>
        /\ downSent' = downSent /\ down' = down /\ buf' = buf /\ rest' = rest
        /\ server' = server /\ pc' = pc
    BY <1>19 DEF ArriveUp, catVars, srvVars
  <2>3. Least(1, Len(upSent)) = 1
    <3>1. upSent \in Bytes /\ upSent # <<>>
      BY <1>2, <2>2
    <3>2. Len(upSent) # 0 /\ Len(upSent) \in Nat
      BY <3>1, Lengths
    <3>3. QED
      BY <3>2, LeastOne
  <2>4. /\ up' \in Bytes /\ upSent' \in Bytes
        /\ Len(up') = Len(up) + 1 /\ Len(upSent') = Len(upSent) - 1
    BY <1>2, <2>1, <2>2, <2>3, Concat
  <2>5. Len(up') <= RecvBuf /\ Len(upSent') <= SendBuf
    BY <1>1, <1>2, <2>2, <2>4 DEF TypeOK
  <2>6. TypeOK'
    BY <1>1, <1>19, <2>4, <2>5 DEF ArriveUp, TypeOK, inVars, catVars, srvVars
  <2>7. UnderWay' = UnderWay
    <3>1. /\ Len(downSent') = Len(downSent) /\ Len(down') = Len(down)
          /\ Len(buf') = Len(buf) /\ Len(rest') = Len(rest)
      BY <2>2
    <3>2. /\ Len(upSent) \in Nat /\ Len(up) \in Nat /\ Len(downSent) \in Nat
          /\ Len(down) \in Nat /\ Len(buf) \in Nat /\ Len(rest) \in Nat
      BY <1>2
    <3>3. Len(up') = Len(up) + 1 /\ Len(upSent') = Len(upSent) - 1
      BY <2>4
    <3>4. QED
      BY <3>1, <3>2, <3>3 DEF UnderWay
  <2>8. QED
    BY <2>2, <2>6, <2>7 DEF FlowInv, Beyond
<1>20. CASE ArriveDown
  <2>1. /\ Take(downSent, 1) \in Bytes /\ Drop(downSent, 1) \in Bytes
        /\ Len(Take(downSent, 1)) = Least(1, Len(downSent))
        /\ Len(Drop(downSent, 1)) = Len(downSent) - Least(1, Len(downSent))
    BY <1>2, TakeDrop
  <2>2. /\ down' = down \o Take(downSent, 1) /\ downSent' = Drop(downSent, 1)
        /\ Len(down) < RecvBuf /\ downSent # <<>>
        /\ upSent' = upSent /\ up' = up /\ buf' = buf /\ rest' = rest
        /\ server' = server /\ pc' = pc
    BY <1>20 DEF ArriveDown, catVars, srvVars
  <2>3. Least(1, Len(downSent)) = 1
    <3>1. downSent \in Bytes /\ downSent # <<>>
      BY <1>2, <2>2
    <3>2. Len(downSent) # 0 /\ Len(downSent) \in Nat
      BY <3>1, Lengths
    <3>3. QED
      BY <3>2, LeastOne
  <2>4. /\ down' \in Bytes /\ downSent' \in Bytes
        /\ Len(down') = Len(down) + 1 /\ Len(downSent') = Len(downSent) - 1
    BY <1>2, <2>1, <2>2, <2>3, Concat
  <2>5. Len(down') <= RecvBuf /\ Len(downSent') <= SendBuf
    BY <1>1, <1>2, <2>2, <2>4 DEF TypeOK
  <2>6. TypeOK'
    BY <1>1, <1>20, <2>4, <2>5 DEF ArriveDown, TypeOK, inVars, catVars, srvVars
  <2>7. UnderWay' = UnderWay
    <3>1. /\ Len(upSent') = Len(upSent) /\ Len(up') = Len(up)
          /\ Len(buf') = Len(buf) /\ Len(rest') = Len(rest)
      BY <2>2
    <3>2. /\ Len(upSent) \in Nat /\ Len(up) \in Nat /\ Len(downSent) \in Nat
          /\ Len(down) \in Nat /\ Len(buf) \in Nat /\ Len(rest) \in Nat
      BY <1>2
    <3>3. Len(down') = Len(down) + 1 /\ Len(downSent') = Len(downSent) - 1
      BY <2>4
    <3>4. QED
      BY <3>1, <3>2, <3>3 DEF UnderWay
  <2>8. QED
    BY <2>2, <2>6, <2>7 DEF FlowInv, Beyond
<1>14. CASE Type \/ EndInput \/ Reset \/ ArriveFin \/ ArriveFinDown
  <2>1. TypeOK'
    <3>1. CASE Type
      <4>1. typed' \in 0..MaxIn /\ taken \in 0..typed'
        BY <1>1, <3>1 DEF Type, TypeOK
      <4>2. QED
        BY <1>1, <3>1, <4>1 DEF Type, TypeOK, catVars, netVars, srvVars
    <3>2. CASE EndInput
      BY <1>1, <3>2 DEF EndInput, TypeOK, catVars, netVars, srvVars
    <3>3. CASE Reset
      BY <1>1, <3>3 DEF Reset, TypeOK, inVars, catVars, srvVars
    <3>4. CASE ArriveFin
      BY <1>1, <3>4 DEF ArriveFin, TypeOK, inVars, catVars, srvVars
    <3>5. CASE ArriveFinDown
      BY <1>1, <3>5 DEF ArriveFinDown, TypeOK, inVars, catVars, srvVars
    <3>6. QED
      BY <1>14, <3>1, <3>2, <3>3, <3>4, <3>5
  <2>2. same /\ pc' = pc
    BY <1>14 DEF Type, EndInput, Reset, ArriveFin, ArriveFinDown, catVars, netVars, srvVars
  <2>3. QED
    BY <1>17, <2>1, <2>2 DEF FlowInv, Beyond
<1>15. CASE SetUp
  <2>1. TypeOK'
    <3>1. /\ is_halfclose' \in BOOLEAN /\ pc' \in {"connect", "select", "error"}
      BY <1>1, <1>15 DEF SetUp, ParseCommandLine, Refused, Connect, ConnectFails, TypeOK, inVars
    <3>2. UNCHANGED <<typed, inEof, taken, fdin, readset, rest, stdout, netVars, srvVars>>
      BY <1>15 DEF SetUp, ParseCommandLine, Refused, Connect, ConnectFails, inVars
    <3>3. QED
      BY <1>1, <3>1, <3>2 DEF TypeOK, Ended, netVars, srvVars
  <2>2. /\ same /\ rest = <<>> /\ pc' \in {"connect", "select", "error"}
    BY <1>15 DEF SetUp, ParseCommandLine, Refused, Connect, ConnectFails, FlowInv, netVars, srvVars
  <2>3. QED
    BY <1>17, <2>1, <2>2 DEF FlowInv, Beyond
<1>16. CASE UNCHANGED vars
  <2>1. TypeOK'
    BY <1>1, <1>16 DEF vars, TypeOK, inVars, catVars, netVars, srvVars
  <2>2. same /\ pc' = pc
    BY <1>16 DEF vars, catVars, netVars, srvVars
  <2>3. QED
    BY <1>17, <2>1, <2>2 DEF FlowInv, Beyond
<1>21. QED
  BY <1>4, <1>5, <1>6, <1>7, <1>8, <1>9, <1>10, <1>11, <1>12, <1>13, <1>14, <1>15, <1>16, <1>19, <1>20
     DEF Next, Cat, Server, Network

\* The invariant holds in every reachable state.
THEOREM SpecFlowInv == Spec => []FlowInv
BY InitFlowInv, NextFlowInv, PTL DEF Spec

\* TypeOK of the run, for every size of input, connection and buffers.
THEOREM SpecTypeOK == Spec => []TypeOK
<1>1. FlowInv => TypeOK
  BY DEF FlowInv
<1>2. QED
  BY <1>1, SpecFlowInv, PTL

\* What is under way between read() and write() never exceeds what the kernels'
\* buffers hold, main_loop()'s own receive buffer apart, and two buf[] (lines
\* 329-413), however long the network takes.
THEOREM SpecLittleUnderWay == Spec => []LittleUnderWay
<1>1. FlowInv => LittleUnderWay
  <2>1. FlowInv => UnderWay <= Beyond + BufSize
    BY DEF FlowInv
  <2>2. Beyond + BufSize = 2 * SendBuf + RecvBuf + 2 * BufSize
    BY MycatAssumption DEF Beyond
  <2>3. QED
    BY <2>1, <2>2 DEF LittleUnderWay, UnderWay
<1>2. QED
  BY <1>1, SpecFlowInv, PTL

\* Both programs wait in send() for the other to read.
BothStuck ==
  /\ pc = "send" /\ Len(upSent) = SendBuf /\ Len(up) = RecvBuf
  /\ server = "send" /\ Len(downSent) = SendBuf /\ Len(down) = RecvBuf

\* That cannot happen if a receive buffer holds two of buf[], less a byte.
THEOREM SpecNeverBothStuck ==
  ASSUME 2 * BufSize <= RecvBuf + 1
  PROVE  Spec => []~BothStuck
<1>1. FlowInv => ~BothStuck
  <2> SUFFICES ASSUME FlowInv, BothStuck PROVE FALSE
    OBVIOUS
  <2>1. Len(buf) \in Nat /\ Len(rest) \in Nat /\ Len(buf) # 0 /\ Len(rest) # 0
    BY Lengths DEF FlowInv, TypeOK, BothStuck
  <2>2. UnderWay = 2 * SendBuf + 2 * RecvBuf + Len(buf) + Len(rest)
    BY <2>1, MycatAssumption DEF UnderWay, BothStuck
  <2>3. UnderWay <= 2 * SendBuf + RecvBuf + 2 * BufSize
    BY MycatAssumption DEF FlowInv, Beyond
  <2>4. QED
    BY <2>1, <2>2, <2>3, MycatAssumption
<1>2. QED
  BY <1>1, SpecFlowInv, PTL

(***************************************************************************)
(* The order of the bytes.                                                 *)
(***************************************************************************)

\* A step that moves bytes takes them from the front of one queue to the end of
\* the one before it; the queues between are empty.
LEMMA NextCopiesInOrder == FlowInv /\ CopiesInOrder /\ [Next]_vars => CopiesInOrder'
<1> SUFFICES ASSUME FlowInv, CopiesInOrder, [Next]_vars PROVE CopiesInOrder'
  OBVIOUS
<1> USE MycatAssumption
<1> DEFINE s == stdout \o down  sd == s \o downSent  sdb == sd \o buf
           sdbu == sdb \o up  all == sdbu \o upSent
<1>1. TypeOK
  BY DEF FlowInv
<1>2. /\ upSent \in Bytes /\ up \in Bytes /\ downSent \in Bytes /\ down \in Bytes
      /\ buf \in Bytes /\ rest \in Bytes /\ stdout \in Bytes /\ <<>> \in Bytes
      /\ Len(upSent) \in Nat /\ Len(downSent) \in Nat
  BY <1>1, Lengths DEF TypeOK
<1>0. s \in Bytes
  BY <1>2, Concat
<1>3. sd \in Bytes
  BY <1>0, <1>2, Concat
<1>4. sdb \in Bytes
  BY <1>2, <1>3, Concat
<1>5. sdbu \in Bytes
  BY <1>2, <1>4, Concat
<1>16. all \in Bytes
  BY <1>2, <1>5, Concat
<1>6. all \o rest = First(taken)
  BY DEF CopiesInOrder, First
<1>7. \A a \in Bytes : a \o <<>> = a
  BY ConcatEmptySeq DEF Bytes
<1>8. ((((((stdout' \o down') \o downSent') \o buf') \o up') \o upSent') \o rest' = First(taken')) => CopiesInOrder'
  BY DEF CopiesInOrder, First
<1>9. CASE RecvData
  <2>1. (stdout \o Take(down, BufSize)) \o Drop(down, BufSize) = stdout \o down
    BY <1>2, Moves
  <2>2. /\ stdout' \o down' = s /\ downSent' = downSent /\ buf' = buf /\ up' = up
        /\ upSent' = upSent /\ rest' = rest /\ taken' = taken
    BY <1>9, <2>1 DEF RecvData, srvVars
  <2>3. QED
    BY <1>6, <1>8, <2>2
<1>10. CASE ReadData
  <2> DEFINE n == Least(BufSize, typed - taken)
  <2>1. n \in Nat /\ taken \in Nat /\ taken + n <= MaxIn
    BY <1>1, <1>10 DEF ReadData, TypeOK, Least
  <2>2. rest' = NextOnes(taken, n) /\ taken' = taken + n /\ rest = <<>>
    BY <1>10 DEF ReadData, NextOnes, FlowInv
  <2>3. /\ stdout' = stdout /\ down' = down /\ downSent' = downSent /\ buf' = buf
        /\ up' = up /\ upSent' = upSent
    BY <1>10 DEF ReadData, netVars, srvVars
  <2> HIDE DEF n
  <2>4. First(taken) \o NextOnes(taken, n) = First(taken + n)
    BY <2>1, FirstNext
  <2>5. all = First(taken)
    BY <1>6, <1>7, <1>16, <2>2
  <2>6. QED
    BY <1>8, <2>2, <2>3, <2>4, <2>5
<1>11. CASE SendOn
  <2>1. SendBuf - Len(upSent) \in Nat
    BY <1>1, <1>2, <1>11 DEF SendOn, TypeOK
  <2>2. PICK room \in Nat : room = SendBuf - Len(upSent)
    BY <2>1
  <2>3. /\ upSent' = upSent \o Take(rest, room) /\ rest' = Drop(rest, room)
        /\ stdout' = stdout /\ down' = down /\ downSent' = downSent /\ buf' = buf
        /\ up' = up /\ taken' = taken
    BY <1>11, <2>2 DEF SendOn, srvVars
  <2>4. Take(rest, room) \in Bytes
    BY <1>2, TakeDrop
  <2> HIDE DEF sdbu
  <2>5. sdbu \o (upSent \o Take(rest, room)) = all \o Take(rest, room)
    <3>1. sdbu \in Bytes /\ upSent \in Bytes /\ rest \in Bytes /\ room \in Nat
      BY <1>0, <1>2, <1>4, <1>5
    <3>2. sdbu \o (upSent \o Take(rest, room)) = (sdbu \o upSent) \o Take(rest, room)
      BY <3>1, Joins
    <3>3. QED
      BY <3>2
  <2> HIDE DEF all
  <2>6. (all \o Take(rest, room)) \o Drop(rest, room) = all \o rest
    BY <1>2, <1>16, Moves
  <2>7. (sdbu \o upSent') \o rest' = First(taken')
    BY <1>6, <2>3, <2>5, <2>6
  <2>8. QED
    BY <1>8, <2>3, <2>7 DEF sdbu
<1>17. CASE ArriveUp
  <2>1. /\ up' = up \o Take(upSent, 1) /\ upSent' = Drop(upSent, 1)
        /\ stdout' = stdout /\ down' = down /\ downSent' = downSent /\ buf' = buf
        /\ rest' = rest /\ taken' = taken
    BY <1>17 DEF ArriveUp, catVars, srvVars
  <2>2. Take(upSent, 1) \in Bytes
    BY <1>2, TakeDrop
  <2> HIDE DEF sdb
  <2>3. sdb \o (up \o Take(upSent, 1)) = sdbu \o Take(upSent, 1)
    <3>1. sdb \in Bytes /\ up \in Bytes /\ upSent \in Bytes /\ 1 \in Nat
      BY <1>0, <1>2, <1>4, <1>5
    <3>2. sdb \o (up \o Take(upSent, 1)) = (sdb \o up) \o Take(upSent, 1)
      BY <3>1, Joins
    <3>3. QED
      BY <3>2
  <2> HIDE DEF sdbu
  <2>4. (sdbu \o Take(upSent, 1)) \o Drop(upSent, 1) = sdbu \o upSent
    BY <1>2, <1>5, Moves
  <2>5. (sdb \o up') \o upSent' = all
    BY <2>1, <2>3, <2>4
  <2> HIDE DEF all
  <2>6. QED
    BY <1>6, <1>8, <2>1, <2>5 DEF sdb
<1>12. CASE ServerRecv
  <2>1. /\ buf' = Take(up, BufSize) /\ up' = Drop(up, BufSize) /\ buf = <<>>
        /\ stdout' = stdout /\ down' = down /\ downSent' = downSent /\ upSent' = upSent
        /\ rest' = rest /\ taken' = taken
    BY <1>12 DEF ServerRecv, FlowInv, catVars
  <2>2. sdb = sd
    BY <1>3, <1>7, <2>1
  <2> HIDE DEF sd
  <2>3. (sd \o Take(up, BufSize)) \o Drop(up, BufSize) = sd \o up
    BY <1>2, <1>3, Moves
  <2>4. QED
    BY <1>6, <1>8, <2>1, <2>2, <2>3 DEF sd
<1>13. CASE ServerSend
  <2>1. SendBuf - Len(downSent) \in Nat
    BY <1>1, <1>2, <1>13 DEF ServerSend, TypeOK
  <2>2. PICK room \in Nat : room = SendBuf - Len(downSent)
    BY <2>1
  <2>3. /\ downSent' = downSent \o Take(buf, room) /\ buf' = Drop(buf, room)
        /\ stdout' = stdout /\ down' = down /\ up' = up /\ upSent' = upSent
        /\ rest' = rest /\ taken' = taken
    BY <1>13, <2>2 DEF ServerSend, catVars
  <2>4. Take(buf, room) \in Bytes
    BY <1>2, TakeDrop
  <2> HIDE DEF s
  <2>5. s \o (downSent \o Take(buf, room)) = sd \o Take(buf, room)
    <3>1. s \in Bytes /\ downSent \in Bytes /\ buf \in Bytes /\ room \in Nat
      BY <1>0, <1>2, <1>4, <1>5
    <3>2. s \o (downSent \o Take(buf, room)) = (s \o downSent) \o Take(buf, room)
      BY <3>1, Joins
    <3>3. QED
      BY <3>2
  <2> HIDE DEF sd
  <2>6. (sd \o Take(buf, room)) \o Drop(buf, room) = sd \o buf
    BY <1>2, <1>3, Moves
  <2>7. (s \o downSent') \o buf' = sdb
    BY <2>3, <2>5, <2>6
  <2>8. QED
    BY <1>6, <1>8, <2>3, <2>7 DEF s
<1>18. CASE ArriveDown
  <2>1. /\ down' = down \o Take(downSent, 1) /\ downSent' = Drop(downSent, 1)
        /\ stdout' = stdout /\ buf' = buf /\ up' = up /\ upSent' = upSent
        /\ rest' = rest /\ taken' = taken
    BY <1>18 DEF ArriveDown, catVars, srvVars
  <2>2. Take(downSent, 1) \in Bytes
    BY <1>2, TakeDrop
  <2>3. stdout \o (down \o Take(downSent, 1)) = s \o Take(downSent, 1)
    <3>1. stdout \in Bytes /\ down \in Bytes /\ downSent \in Bytes /\ 1 \in Nat
      BY <1>0, <1>2, <1>4, <1>5
    <3>2. stdout \o (down \o Take(downSent, 1)) = (stdout \o down) \o Take(downSent, 1)
      BY <3>1, Joins
    <3>3. QED
      BY <3>2
  <2> HIDE DEF s
  <2>4. (s \o Take(downSent, 1)) \o Drop(downSent, 1) = s \o downSent
    BY <1>0, <1>2, Moves
  <2>5. (stdout \o down') \o downSent' = sd
    BY <2>1, <2>3, <2>4
  <2> HIDE DEF sd
  <2>6. QED
    BY <1>6, <1>8, <2>1, <2>5
<1>14. CASE \/ SetUp \/ Select \/ RecvEof \/ ReadEof \/ Fails \/ ServerEnds
           \/ Type \/ EndInput \/ Reset \/ ArriveFin \/ ArriveFinDown \/ UNCHANGED vars
  <2>1. /\ stdout' = stdout /\ down' = down /\ downSent' = downSent /\ buf' = buf
        /\ up' = up /\ upSent' = upSent /\ rest' = rest /\ taken' = taken
    BY <1>14 DEF SetUp, ParseCommandLine, Refused, Connect, ConnectFails, Select, RecvEof, ReadEof,
                 Fails, ServerEnds, Type, EndInput, Reset, ArriveFin, ArriveFinDown, vars, inVars,
                 catVars, netVars, srvVars
  <2>2. QED
    BY <1>6, <1>8, <2>1
<1>15. QED
  BY <1>9, <1>10, <1>11, <1>12, <1>13, <1>14, <1>17, <1>18 DEF Next, Cat, Server, Network

\* CopiesInOrder of the run: nothing is lost, repeated or reordered between
\* stdin and stdout, however reads and sends are split (lines 335-413).
THEOREM SpecCopiesInOrder == Spec => []CopiesInOrder
<1>1. Init => CopiesInOrder
  <2>1. <<>> \in Bytes /\ \A a \in Bytes : a \o <<>> = a
    BY ConcatEmptySeq, EmptySeq DEF Bytes
  <2>2. First(0) = <<>>
    BY DEF First
  <2>3. <<>> \o <<>> = <<>>
    BY <2>1
  <2>4. QED
    BY <2>2, <2>3 DEF Init, CopiesInOrder, First
<1>2. QED
  BY <1>1, NextCopiesInOrder, SpecFlowInv, PTL DEF Spec
=============================================================================
