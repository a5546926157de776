--------------------------- MODULE OneServerProofs ---------------------------
(***************************************************************************)
(* Theorems about OneServer, for any clients, windows and buffers: the     *)
(* servers that take one connection at a time implement EchoService.       *)
(***************************************************************************)
EXTENDS OneServer, TcpPeersProofs

Serving == server \in {"recv", "send"}

OneTypes ==
  /\ PeersTypeOK
  /\ server \in {"start", "accept", "recv", "send", "down"}
  /\ fd2 \in Conn \cup {NoConn}
  /\ buf \in ByteSeq

\* Only the connection that is served has left the queue and not been closed.
OneAtATime ==
  /\ Serving => fd2 \in Conn
  /\ \A c \in Conn : (phase[c] = "open") <=> (Serving /\ c = fd2)

\* What came from the peer that is served, in order and each byte once, is what
\* it was sent back and what waits in the buffer; nobody has touched the others.
ServedInOrder ==
  /\ server = "recv" => echoed[fd2] = Stream(fd2, 0, taken[fd2])
  /\ server = "send" => buf # <<>> /\ echoed[fd2] \o buf = Stream(fd2, 0, taken[fd2])
  /\ \A c \in Conn :
       /\ taken[c] <= sent[c]
       /\ phase[c] \in {"idle", "queued"} => taken[c] = 0 /\ echoed[c] = <<>>

OneInv == OneTypes /\ QueueOK /\ OneAtATime /\ ServedInOrder

\* Every client moves only as a peer may, and touches nothing of the server.
LEMMA ClientMoves ==
  ASSUME NEW c \in Conn, Client(c) \/ KernelResets(c)
  PROVE  UNCHANGED serverVars
         /\ (UNCHANGED peerVars \/ PeerConnect(c) \/ PeerSend(c) \/ PeerShutdown(c) \/ PeerReset(c))
BY DEF Client, Connect, ConnectFails, ConnectAgain, Send, SendEnds, SendTimesOut, Recv, RecvEnds,
       RecvTimesOut, KernelResets, End, Close

LEMMA InitOneInv == Init => OneInv
<1> SUFFICES ASSUME Init PROVE OneInv
  OBVIOUS
<1> USE PeersAssumption, OneServerAssumption
<1>1. OneTypes /\ QueueOK
  BY DEF Init, PeersInit, OneTypes, PeersTypeOK, Phase, ByteSeq, QueueOK
<1>2. OneAtATime
  BY DEF Init, PeersInit, OneAtATime, Serving
<1>3. ServedInOrder
  <2>1. server = "start" /\ \A c \in Conn : taken[c] = 0 /\ sent[c] = 0 /\ echoed[c] = <<>>
    BY DEF Init, PeersInit
  <2>2. QED
    BY <2>1 DEF ServedInOrder
<1>4. QED
  BY <1>1, <1>2, <1>3 DEF OneInv

\* The clients.
LEMMA ClientOneInv ==
  ASSUME OneInv, NEW c \in Conn, Client(c) \/ KernelResets(c)
  PROVE  OneInv'
<1> USE PeersAssumption, OneServerAssumption
<1>1. UNCHANGED <<server, fd2, buf>>
  BY ClientMoves DEF serverVars
<1>2. CASE UNCHANGED peerVars
  <2>1. UNCHANGED <<phase, fin, rst, sent, taken, echoed, backlog>>
    BY <1>2 DEF peerVars
  <2>2. QED
    BY <1>1, <2>1 DEF OneInv, OneTypes, PeersTypeOK, QueueOK, OneAtATime, Serving, ServedInOrder, Stream
<1>3. CASE PeerNext
  <2>1. PeersTypeOK /\ QueueOK
    BY DEF OneInv, OneTypes
  <2>2. /\ PeersTypeOK' /\ QueueOK'
        /\ UNCHANGED <<taken, echoed>>
        /\ \A d \in Conn : /\ (phase'[d] = "open") <=> (phase[d] = "open")
                           /\ phase'[d] \in {"idle", "queued"} => phase[d] \in {"idle", "queued"}
                           /\ sent[d] <= sent'[d]
    BY <1>3, <2>1, PeersMove
  <2>3. OneTypes' /\ OneAtATime'
    BY <1>1, <2>2 DEF OneInv, OneTypes, OneAtATime, Serving
  <2>4. \A d \in Conn : taken[d] <= sent'[d]
    <3> SUFFICES ASSUME NEW d \in Conn PROVE taken[d] <= sent'[d]
      OBVIOUS
    <3>1. taken[d] \in Nat /\ sent[d] \in Nat /\ sent'[d] \in Nat
      BY <2>1, <2>2 DEF PeersTypeOK
    <3>2. QED
      BY <2>2, <3>1 DEF OneInv, ServedInOrder
  <2>5. ServedInOrder'
    BY <1>1, <2>2, <2>4 DEF OneInv, ServedInOrder, Stream
  <2>6. QED
    BY <2>2, <2>3, <2>5 DEF OneInv
<1>4. QED
  BY <1>2, <1>3, ClientMoves DEF PeerNext

\* accept() begins with a connection nothing has been done to.
LEMMA AcceptOneInv ==
  ASSUME OneInv, Accept
  PROVE  OneInv'
<1> USE PeersAssumption, OneServerAssumption
<1>1. PICK c \in Conn : SysAccept(c) /\ fd2' = c
  BY DEF Accept
<1>2. /\ server = "accept" /\ server' = "recv" /\ buf' = buf
      /\ phase' = [phase EXCEPT ![c] = "open"] /\ UNCHANGED <<fin, rst, sent, taken, echoed>>
  BY <1>1 DEF Accept, SysAccept
<1>3. PeersTypeOK' /\ QueueOK' /\ phase[c] = "queued" /\ phase \in [Conn -> Phase]
  BY <1>1, AcceptMove DEF OneInv, OneTypes, PeersTypeOK
<1>4. taken[c] = 0 /\ echoed[c] = <<>>
  BY <1>3 DEF OneInv, ServedInOrder
<1>5. OneTypes' /\ OneAtATime'
  BY <1>1, <1>2, <1>3 DEF OneInv, OneTypes, OneAtATime, Serving
<1>6. ServedInOrder'
  <2>1. Stream(c, 0, 0) = <<>>
    <3>1. Stream(c, 0, 0) \in ByteSeq /\ Len(Stream(c, 0, 0)) = 0
      BY StreamFromStart
    <3>2. QED
      BY <3>1, EmptySeq DEF ByteSeq
  <2>2. \A d \in Conn : phase'[d] \in {"idle", "queued"} => phase[d] \in {"idle", "queued"}
    BY <1>2, <1>3
  <2>3. QED
    BY <1>1, <1>2, <1>4, <2>1, <2>2 DEF OneInv, ServedInOrder, Stream
<1>7. QED
  BY <1>3, <1>5, <1>6 DEF OneInv

\* recv() reads on where the last one stopped.
LEMMA RecvDataOneInv ==
  ASSUME OneInv, RecvData
  PROVE  OneInv'
<1> USE PeersAssumption, OneServerAssumption
<1> DEFINE c == fd2
           t == taken[fd2]
           n == Received(fd2, BufSize)
<1>1. /\ server = "recv" /\ server' = "send" /\ fd2' = c
      /\ buf' = Stream(c, t, taken'[c])
      /\ t < sent[c] /\ taken' = [taken EXCEPT ![c] = n]
      /\ UNCHANGED <<phase, fin, rst, sent, echoed, backlog>>
  BY DEF RecvData, SysRecv
<1>2. c \in Conn
  BY <1>1 DEF OneInv, OneAtATime, Serving
<1>3. taken \in [Conn -> 0..MaxSend] /\ sent \in [Conn -> 0..MaxSend] /\ MaxSend \in Nat
  BY DEF OneInv, OneTypes, PeersTypeOK
<1>4. n \in 0..MaxSend /\ t < n /\ n <= sent[c] /\ n \in Nat /\ t \in Nat
  BY <1>1, <1>2, <1>3 DEF Received
<1> HIDE DEF n, t, c
<1>5. taken' \in [Conn -> 0..MaxSend] /\ taken'[c] = n /\ \A d \in Conn : d # c => taken'[d] = taken[d]
  BY <1>1, <1>2, <1>3, <1>4
<1>6. buf' = Stream(c, t, n)
  BY <1>1, <1>5
<1>7. buf' \in ByteSeq /\ buf' # <<>> /\ Stream(c, 0, t) \o buf' = Stream(c, 0, n)
  <2>1. t \in Nat /\ n \in Nat /\ t <= n /\ t < n
    BY <1>4
  <2>2. Stream(c, t, n) \in ByteSeq
    BY <1>2, <2>1, StreamProperties
  <2>3. Stream(c, t, n) # <<>> /\ Stream(c, 0, t) \o Stream(c, t, n) = Stream(c, 0, n)
    BY <1>2, <2>1, StreamGrows
  <2>4. QED
    BY <1>6, <2>2, <2>3
<1>8. echoed[c] = Stream(c, 0, t)
  BY <1>1 DEF OneInv, ServedInOrder, c, t
<1>9. OneTypes' /\ QueueOK'
  BY <1>1, <1>2, <1>5, <1>7 DEF OneInv, OneTypes, PeersTypeOK, QueueOK
<1>10. OneAtATime'
  BY <1>1, <1>2 DEF OneInv, OneAtATime, Serving, c
<1>11. ServedInOrder'
  <2>1. echoed'[fd2'] \o buf' = Stream(fd2', 0, taken'[fd2'])
    BY <1>1, <1>5, <1>7, <1>8
  <2>2. \A d \in Conn : taken'[d] <= sent[d]
    BY <1>4, <1>5 DEF OneInv, ServedInOrder
  <2>3. phase[c] = "open"
    BY <1>1, <1>2 DEF OneInv, OneAtATime, Serving, c
  <2>4. \A d \in Conn : phase[d] \in {"idle", "queued"} => taken'[d] = 0 /\ echoed[d] = <<>>
    BY <1>5, <2>3 DEF OneInv, ServedInOrder
  <2>5. QED
    BY <1>1, <1>7, <2>1, <2>2, <2>4 DEF ServedInOrder, Stream
<1>12. QED
  BY <1>9, <1>10, <1>11 DEF OneInv

\* send() takes the front of the buffer and keeps the rest.
LEMMA SendSomeOneInv ==
  ASSUME OneInv, SendSome
  PROVE  OneInv'
<1> USE PeersAssumption, OneServerAssumption
<1> DEFINE c == fd2
<1>1. PICK n \in 1..Len(buf) : /\ SysSend(fd2, SubSeq(buf, 1, n))
                               /\ buf' = SubSeq(buf, n + 1, Len(buf))
  BY DEF SendSome
<1>2. /\ server = "send" /\ server' = IF buf' = <<>> THEN "recv" ELSE "send"
      /\ fd2' = c
      /\ echoed' = [echoed EXCEPT ![c] = @ \o SubSeq(buf, 1, n)]
      /\ UNCHANGED <<phase, fin, rst, sent, taken, backlog>>
  BY <1>1 DEF SendSome, SysSend
<1>3. c \in Conn
  BY <1>2 DEF OneInv, OneAtATime, Serving
<1>4. buf \in ByteSeq /\ echoed \in [Conn -> ByteSeq]
  BY DEF OneInv, OneTypes, PeersTypeOK, ByteSeq
<1> DEFINE a == SubSeq(buf, 1, n)
           r == SubSeq(buf, n + 1, Len(buf))
           e == echoed[c]
<1>5. a \in ByteSeq /\ r \in ByteSeq /\ a \o r = buf /\ e \in ByteSeq
  BY <1>3, <1>4, SplitBuffer
<1>6. e \o buf = Stream(c, 0, taken[c])
  BY <1>2 DEF OneInv, ServedInOrder
<1>7. /\ echoed' = [echoed EXCEPT ![c] = e \o a] /\ buf' = r
  BY <1>1, <1>2
<1> HIDE DEF a, r, e, c
<1>8. (e \o a) \o r = Stream(c, 0, taken[c])
  BY <1>5, <1>6, EchoAssociative
<1>9. e \o a \in ByteSeq
  BY <1>5, ConcatProperties DEF ByteSeq
<1>10. /\ echoed' \in [Conn -> ByteSeq] /\ echoed'[c] = e \o a
       /\ \A d \in Conn : d # c => echoed'[d] = echoed[d]
  BY <1>3, <1>4, <1>7, <1>9
<1>11. r = <<>> => e \o a = Stream(c, 0, taken[c])
  <2>1. (e \o a) \o <<>> = e \o a
    BY <1>9, ConcatEmptySeq DEF ByteSeq
  <2>2. QED
    BY <1>8, <2>1
<1>12. OneTypes' /\ QueueOK'
  <2>1. OneTypes'
    BY <1>2, <1>3, <1>5, <1>7, <1>10 DEF OneInv, OneTypes, PeersTypeOK, ByteSeq
  <2>2. QED
    BY <1>2, <2>1 DEF OneInv, QueueOK
<1>13. OneAtATime'
  BY <1>2, <1>3 DEF OneInv, OneAtATime, Serving, c
<1>14. ServedInOrder'
  <2>1. phase[c] = "open"
    BY <1>2, <1>3 DEF OneInv, OneAtATime, Serving, c
  <2>2. \A d \in Conn : phase[d] \in {"idle", "queued"} => taken[d] = 0 /\ echoed'[d] = <<>>
    BY <1>10, <2>1 DEF OneInv, ServedInOrder
  <2>3. server' = "recv" => echoed'[c] = Stream(c, 0, taken[c])
    BY <1>2, <1>7, <1>10, <1>11
  <2>4. server' = "send" => buf' # <<>> /\ echoed'[c] \o buf' = Stream(c, 0, taken[c])
    BY <1>2, <1>7, <1>8, <1>10
  <2>5. QED
    BY <1>2, <2>2, <2>3, <2>4 DEF OneInv, ServedInOrder, Stream
<1>15. QED
  BY <1>12, <1>13, <1>14 DEF OneInv

\* The connection is closed and the server goes back to accept().
LEMMA CloseOneInv ==
  ASSUME OneInv, RecvStops \/ SendFails
  PROVE  OneInv'
<1> USE PeersAssumption, OneServerAssumption
<1>1. /\ Serving /\ server' = "accept" /\ fd2' = NoConn /\ buf' = <<>>
      /\ phase' = [phase EXCEPT ![fd2] = "closed"]
      /\ UNCHANGED <<fin, rst, sent, taken, echoed, backlog>>
  BY DEF RecvStops, SendFails, CloseFd2, SysClose, Serving
<1>2. fd2 \in Conn /\ phase[fd2] = "open" /\ phase \in [Conn -> Phase]
  BY <1>1 DEF OneInv, OneAtATime, OneTypes, PeersTypeOK
<1>3. OneTypes'
  BY <1>1, <1>2 DEF OneInv, OneTypes, PeersTypeOK, Phase, ByteSeq
<1>4. QueueOK'
  <2>1. \A j \in 1..Len(backlog) : backlog[j] \in Conn /\ backlog[j] # fd2
    BY <1>2 DEF OneInv, QueueOK, OneTypes, PeersTypeOK
  <2>2. QED
    BY <1>1, <1>2, <2>1 DEF OneInv, QueueOK
<1>5. OneAtATime'
  BY <1>1, <1>2 DEF OneInv, OneAtATime, Serving
<1>6. ServedInOrder'
  BY <1>1, <1>2 DEF OneInv, ServedInOrder
<1>7. QED
  BY <1>3, <1>4, <1>5, <1>6 DEF OneInv

\* The program starts, or ends with every connection it has.
LEMMA UpDownOneInv ==
  ASSUME OneInv, Listen \/ SetUpFails \/ NameFails \/ Killed
  PROVE  OneInv'
<1> USE PeersAssumption, OneServerAssumption
<1>1. CASE Listen \/ SetUpFails
  <2>1. /\ ~Serving /\ server' \in {"accept", "down"} /\ UNCHANGED <<fd2, buf>>
        /\ UNCHANGED <<phase, fin, rst, sent, taken, echoed, backlog>>
    BY <1>1 DEF Listen, SetUpFails, Serving, peerVars
  <2>2. QED
    BY <2>1 DEF OneInv, OneTypes, PeersTypeOK, QueueOK, OneAtATime, Serving, ServedInOrder
<1>2. CASE NameFails \/ Killed
  <2>1. /\ server' = "down" /\ UNCHANGED <<fd2, buf>>
        /\ phase' = [c \in Conn |-> IF phase[c] = "idle" THEN "idle" ELSE "closed"]
        /\ backlog' = <<>>
        /\ UNCHANGED <<fin, rst, sent, taken, echoed>>
    BY <1>2 DEF NameFails, Killed, SysCloseAll
  <2>2. OneTypes' /\ QueueOK'
    BY <2>1 DEF OneInv, OneTypes, PeersTypeOK, Phase, QueueOK
  <2>3. OneAtATime'
    BY <2>1 DEF OneAtATime, Serving
  <2>4. ServedInOrder'
    BY <2>1 DEF OneInv, ServedInOrder
  <2>5. QED
    BY <2>2, <2>3, <2>4 DEF OneInv
<1>3. QED
  BY <1>1, <1>2

LEMMA NextOneInv == OneInv /\ [Next]_vars => OneInv'
<1> SUFFICES ASSUME OneInv, [Next]_vars PROVE OneInv'
  OBVIOUS
<1>1. CASE \E c \in Conn : Client(c) \/ KernelResets(c)
  BY <1>1, ClientOneInv
<1>2. CASE Accept
  BY <1>2, AcceptOneInv
<1>3. CASE RecvData
  BY <1>3, RecvDataOneInv
<1>4. CASE SendSome
  BY <1>4, SendSomeOneInv
<1>5. CASE RecvStops \/ SendFails
  BY <1>5, CloseOneInv
<1>6. CASE Listen \/ SetUpFails \/ NameFails \/ Killed
  BY <1>6, UpDownOneInv
<1>7. CASE UNCHANGED vars
  BY <1>7 DEF vars, peerVars, serverVars, OneInv, OneTypes, PeersTypeOK, QueueOK, OneAtATime,
              Serving, ServedInOrder, Stream
<1>8. QED
  BY <1>1, <1>2, <1>3, <1>4, <1>5, <1>6, <1>7 DEF Next, Server

\* Which connection is served, and what has been done with its bytes, at every
\* moment of every run (the inductive invariant behind the next theorem).
THEOREM SpecOneInv == Spec => []OneInv
<1>1. Init => OneInv
  BY InitOneInv
<1>2. OneInv /\ [Next]_vars => OneInv'
  BY NextOneInv
<1>3. QED
  BY <1>1, <1>2, PTL DEF Spec

-----------------------------------------------------------------------------
(***************************************************************************)
(* The refinement.  `up` of the service is the server that is not down.    *)
(***************************************************************************)
LEMMA ClientRefines ==
  ASSUME OneInv, NEW c \in Conn, Client(c) \/ KernelResets(c)
  PROVE  [Service!Next]_(Service!svcVars)
<1>1. (server' # "down") = (server # "down")
  BY ClientMoves DEF serverVars
<1>2. CASE UNCHANGED peerVars
  BY <1>1, <1>2 DEF peerVars, Service!svcVars
<1>3. CASE PeerConnect(c)
  <2>1. Service!Connect(c)
    BY <1>1, <1>3 DEF PeerConnect, Service!Connect
  <2>2. QED
    BY <2>1 DEF Service!Next
<1>4. CASE PeerSend(c)
  <2>1. Service!Send(c)
    BY <1>1, <1>4 DEF PeerSend, Alive, Service!Send
  <2>2. QED
    BY <2>1 DEF Service!Next
<1>5. CASE PeerShutdown(c)
  <2>1. Service!Shutdown(c)
    BY <1>1, <1>5 DEF PeerShutdown, Alive, Service!Shutdown
  <2>2. QED
    BY <2>1 DEF Service!Next
<1>6. CASE PeerReset(c)
  <2>1. phase' \in {phase, [phase EXCEPT ![c] = IF @ = "queued" THEN "closed" ELSE @]}
    BY <1>6 DEF PeerReset
  <2>2. Service!Reset(c)
    BY <1>1, <1>6, <2>1 DEF PeerReset, Alive, Service!Reset
  <2>3. QED
    BY <2>2 DEF Service!Next
<1>7. QED
  BY <1>2, <1>3, <1>4, <1>5, <1>6, ClientMoves

\* What send() takes of the buffer are the peer's next bytes.
LEMMA SendRefines ==
  ASSUME OneInv, SendSome
  PROVE  Service!Next
<1> DEFINE c == fd2
<1>1. PICK n \in 1..Len(buf) : SysSend(fd2, SubSeq(buf, 1, n))
  BY DEF SendSome
<1>2. /\ server = "send" /\ server' # "down" /\ server # "down"
      /\ echoed' = [echoed EXCEPT ![c] = @ \o SubSeq(buf, 1, n)]
      /\ UNCHANGED <<phase, fin, rst, sent>>
  BY <1>1 DEF SendSome, SysSend
<1>3. c \in Conn /\ phase[c] = "open" /\ echoed[c] \o buf = Stream(c, 0, taken[c])
  BY <1>2 DEF OneInv, OneAtATime, Serving, ServedInOrder
<1>4. /\ echoed[c] \in ByteSeq /\ buf \in ByteSeq /\ taken[c] \in Nat /\ taken[c] <= sent[c]
      /\ sent[c] \in 0..MaxSend /\ MaxSend \in Nat
  BY <1>3, PeersAssumption DEF OneInv, OneTypes, ServedInOrder, PeersTypeOK, ByteSeq
<1> HIDE DEF c
<1>5. /\ SubSeq(buf, 1, n) = [k \in 1..n |-> <<c, Len(echoed[c]) + k>>]
      /\ Len(echoed[c]) + n <= taken[c]
  BY <1>1, <1>3, <1>4, FrontIsNext
<1>6. Len(echoed[c]) \in Nat /\ n \in Nat /\ 1 <= n
  BY <1>1, <1>4 DEF ByteSeq
<1>7. Len(echoed[c]) + n <= sent[c] /\ n \in 1..MaxSend
  BY <1>4, <1>5, <1>6
<1>8. echoed' = [echoed EXCEPT ![c] = @ \o [k \in 1..n |-> <<c, Len(@) + k>>]]
  BY <1>2, <1>5
<1>9. (server' # "down") = (server # "down")
  BY <1>2
<1>10. Service!Echo(c, n)
  BY <1>2, <1>3, <1>7, <1>8, <1>9 DEF Service!Echo
<1>11. QED
  BY <1>3, <1>7, <1>10 DEF Service!Next

\* The server closes a connection that is finished or reset.
LEMMA CloseRefines ==
  ASSUME OneInv, RecvStops \/ SendFails
  PROVE  Service!Next
<1>1. /\ server' # "down" /\ server # "down"
      /\ phase' = [phase EXCEPT ![fd2] = "closed"]
      /\ UNCHANGED <<fin, rst, sent, echoed>>
      /\ rst[fd2] \/ (server = "recv" /\ fin[fd2] /\ taken[fd2] = sent[fd2])
  BY DEF RecvStops, SendFails, CloseFd2, SysClose, AtEof
<1>2. fd2 \in Conn /\ phase[fd2] = "open"
  BY DEF RecvStops, SendFails, OneInv, OneAtATime, Serving
<1>3. rst[fd2] \/ (fin[fd2] /\ Len(echoed[fd2]) = sent[fd2])
  <2>1. CASE server = "recv" /\ fin[fd2] /\ taken[fd2] = sent[fd2]
    <3>1. echoed[fd2] = Stream(fd2, 0, sent[fd2]) /\ sent[fd2] \in Nat
      BY <1>2, <2>1 DEF OneInv, OneTypes, ServedInOrder, PeersTypeOK
    <3>2. QED
      BY <1>2, <2>1, <3>1, StreamFromStart
  <2>2. QED
    BY <1>1, <2>1
<1>4. (server' # "down") = (server # "down")
  BY <1>1
<1>5. Service!HangUp(fd2)
  BY <1>1, <1>2, <1>3, <1>4 DEF Service!HangUp
<1>6. QED
  BY <1>2, <1>5 DEF Service!Next

LEMMA NextRefines == OneInv /\ [Next]_vars => [Service!Next]_(Service!svcVars)
<1> SUFFICES ASSUME OneInv, [Next]_vars PROVE [Service!Next]_(Service!svcVars)
  OBVIOUS
<1>1. CASE \E c \in Conn : Client(c) \/ KernelResets(c)
  BY <1>1, ClientRefines
<1>2. CASE Listen \/ RecvData \/ UNCHANGED vars
  <2>1. UNCHANGED <<phase, fin, rst, sent, echoed>>
    BY <1>2 DEF Listen, RecvData, SysRecv, vars, peerVars
  <2>2. (server' # "down") = (server # "down")
    BY <1>2 DEF Listen, RecvData, vars, serverVars
  <2>3. QED
    BY <2>1, <2>2 DEF Service!svcVars
<1>3. CASE Accept
  <2>1. PICK c \in Conn : SysAccept(c)
    BY <1>3 DEF Accept
  <2>2. phase[c] = "queued"
    BY <2>1, AcceptMove DEF OneInv, OneTypes
  <2>3. server # "down" /\ server' # "down"
    BY <1>3 DEF Accept
  <2>4. Service!Accept(c)
    BY <2>1, <2>2, <2>3 DEF SysAccept, Service!Accept
  <2>5. QED
    BY <2>4 DEF Service!Next
<1>4. CASE SendSome
  BY <1>4, SendRefines
<1>5. CASE RecvStops \/ SendFails
  BY <1>5, CloseRefines
<1>6. ASSUME SetUpFails \/ NameFails \/ Killed
      PROVE  Service!Next
  <2>1. CASE SetUpFails
    <3>1. /\ server' = "down" /\ UNCHANGED <<phase, fin, rst, sent, echoed>>
          /\ phase \in [Conn -> Phase]
      BY <2>1 DEF SetUpFails, peerVars, OneInv, OneTypes, PeersTypeOK
    <3>2. phase' = [c \in Conn |-> IF c \in {} THEN "closed" ELSE phase[c]]
      BY <3>1
    <3>3. {} \in SUBSET {c \in Conn : phase[c] # "idle"}
      OBVIOUS
    <3>4. Service!GoDown
      BY <3>1, <3>2, <3>3 DEF Service!GoDown
    <3>5. QED
      BY <3>4 DEF Service!Next
  <2>2. CASE NameFails \/ Killed
    <3> DEFINE gone == {c \in Conn : phase[c] # "idle"}
    <3>1. /\ phase' = [c \in Conn |-> IF phase[c] = "idle" THEN "idle" ELSE "closed"]
          /\ UNCHANGED <<fin, rst, sent, echoed>> /\ server' = "down"
      BY <2>2 DEF NameFails, Killed, SysCloseAll
    <3>2. phase' = [c \in Conn |-> IF c \in gone THEN "closed" ELSE phase[c]]
      BY <3>1
    <3>3. gone \in SUBSET {c \in Conn : phase[c] # "idle"}
      OBVIOUS
    <3> HIDE DEF gone
    <3>4. Service!GoDown
      BY <3>1, <3>2, <3>3 DEF Service!GoDown
    <3>5. QED
      BY <3>4 DEF Service!Next
  <2>3. QED
    BY <1>6, <2>1, <2>2
<1>7. QED
  BY <1>1, <1>2, <1>3, <1>4, <1>5, <1>6 DEF Next, Server

\* Each of the three servers implements the echo service, whatever the clients
\* do and however send() splits the buffer.
THEOREM SpecImplementsService == Spec => ImplementsService
<1>1. Init => Service!Init
  <2> SUFFICES ASSUME Init PROVE Service!Init
    OBVIOUS
  <2>1. (server # "down") = TRUE
    BY DEF Init
  <2>2. QED
    BY <2>1 DEF Init, PeersInit, Service!Init
<1>2. QED
  BY <1>1, NextRefines, SpecOneInv, PTL DEF Spec, ImplementsService, Service!Spec
=============================================================================
