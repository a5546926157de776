---------------------------- MODULE PollerProofs ----------------------------
(***************************************************************************)
(* Theorems about Poller for every set of peers and every value of the     *)
(* bounds, with their proofs.                                              *)
(***************************************************************************)
EXTENDS Poller, TcpPeersProofs

(***************************************************************************)
(* The inductive invariant about slots and descriptors.  SlotsMatch alone  *)
(* is not inductive: accept() must bring in a peer that no slot has, so    *)
(* the accept queue holds each waiting peer once, and the peers of slots   *)
(* are exactly connections that have left it.                              *)
(***************************************************************************)
PeersOfSlots ==
  /\ \A s \in Slots : phase[connections[s].peer] = "open"
  /\ \A s, t \in Slots : connections[s].peer = connections[t].peer => s = t
  /\ pc = "done" => count = 0

SlotInv == TypeOK /\ SlotsMatch /\ NoLeak /\ RoomForOne /\ QueueOK /\ PeersOfSlots

\* poller_create() establishes the invariant of the slots.
LEMMA InitSlotInv == Init => SlotInv
<1> SUFFICES ASSUME Init PROVE SlotInv
  OBVIOUS
<1> USE PollerAssumption, PeersAssumption
<1>1. TypeOK
  BY DEF Init, PeersInit, TypeOK, PeersTypeOK, Phase, Fd, ListenFd, Entry, Event,
         Connection, Label
<1>2. SlotsMatch /\ NoLeak /\ RoomForOne
  BY DEF Init, SlotsMatch, NoLeak, RoomForOne, Running, Slots, Fd, ListenFd
<1>3. QueueOK /\ PeersOfSlots
  BY DEF Init, PeersInit, QueueOK, PeersOfSlots, Slots
<1>4. QED
  BY <1>1, <1>2, <1>3 DEF SlotInv

-----------------------------------------------------------------------------
(* Every removal, whatever event led to it, keeps the invariant.           *)
LEMMA RemoveAtSlotInv ==
  ASSUME SlotInv, NEW s \in Slots, PollerRemoveAt(s), pc = "handle",
         pc' = pc, fd' = fd, i' \in Nat \ {0}
  PROVE  SlotInv'
<1> USE PollerAssumption, PeersAssumption
<1> DEFINE last == count - 1
<1>1. /\ count \in Nat /\ s \in 1..last /\ last \in 1..last
      /\ list \in [0..last -> Entry]
      /\ connections \in [1..last -> Connection]
      /\ file \in [Fd -> Conn \cup {NoFile, Listener}]
  BY DEF SlotInv, TypeOK, Slots
<1>2. /\ count' = last
      /\ list' = [k \in 0..(last - 1) |-> IF k = s THEN list[last] ELSE list[k]]
      /\ connections' = [k \in 1..(last - 1) |->
                           IF k = s THEN connections[last] ELSE connections[k]]
      /\ file' = [file EXCEPT ![list[s].fd] = NoFile]
      /\ max' = max
  BY <1>1 DEF PollerRemoveAt
<1>3. /\ file[list[s].fd] = connections[s].peer
      /\ connections[s].peer \in Conn
      /\ list[s].fd \in Fd
  BY <1>1 DEF SlotInv, SlotsMatch, Slots, Connection, Entry
<1>4. /\ phase' = [phase EXCEPT ![connections[s].peer] = "closed"]
      /\ UNCHANGED <<fin, rst, sent, taken, echoed, backlog>>
  BY <1>3 DEF PollerRemoveAt, SysClose
<1>5. TypeOK'
  <2>1. list' \in [0..(count' - 1) -> Entry]
    BY <1>1, <1>2
  <2>2. connections' \in [1..(count' - 1) -> Connection]
    BY <1>1, <1>2
  <2>3. file' \in [Fd -> Conn \cup {NoFile, Listener}]
    BY <1>1, <1>2
  <2>4. PeersTypeOK'
    BY <1>4 DEF SlotInv, TypeOK, PeersTypeOK, Phase
  <2>5. QED
    BY <1>1, <1>2, <2>1, <2>2, <2>3, <2>4 DEF SlotInv, TypeOK
<1>6. SlotsMatch'
  <2>1. list'[0] = list[0] /\ 0 \in 0..last /\ list[0].fd = ListenFd /\ file[ListenFd] = Listener
    BY <1>1, <1>2 DEF SlotInv, SlotsMatch, Running, Slots
  <2>2. list[s].fd # ListenFd
    BY <1>3, <2>1
  <2>3. \A t \in 1..(last - 1) : file'[list'[t].fd] = connections'[t].peer
    <3> SUFFICES ASSUME NEW t \in 1..(last - 1)
                 PROVE  file'[list'[t].fd] = connections'[t].peer
      OBVIOUS
    <3> DEFINE from == IF t = s THEN last ELSE t
    <3>1. from \in 1..last /\ from # s
      BY <1>1
    <3>2. list'[t] = list[from] /\ connections'[t] = connections[from]
      BY <1>1, <1>2
    <3>3. list[from].fd # list[s].fd /\ list[from].fd \in Fd
      BY <1>1, <3>1 DEF SlotInv, SlotsMatch, Slots, Entry
    <3>4. file'[list[from].fd] = connections[from].peer
      BY <1>1, <1>2, <3>1, <3>3 DEF SlotInv, SlotsMatch, Slots
    <3>5. QED
      BY <3>2, <3>4
  <2>4. \A t, u \in 0..(last - 1) : list'[t].fd = list'[u].fd => t = u
    BY <1>1, <1>2 DEF SlotInv, SlotsMatch, Slots
  <2>5. file'[ListenFd] = Listener
    BY <1>1, <1>2, <2>1, <2>2 DEF ListenFd, Fd
  <2>6. count' > 0 /\ list'[0].fd = ListenFd
    BY <1>1, <1>2, <2>1
  <2>7. QED
    BY <1>2, <2>3, <2>4, <2>5, <2>6 DEF SlotsMatch, Slots, ListenFd
<1>7. NoLeak'
  <2> SUFFICES ASSUME NEW f \in Fd, file'[f] # NoFile
               PROVE  \E t \in 0..(last - 1) : list'[t].fd = f
    BY <1>2 DEF NoLeak
  <2>1. f # list[s].fd /\ file[f] # NoFile
    BY <1>1, <1>2
  <2>2. PICK t \in 0..last : list[t].fd = f
    BY <2>1 DEF SlotInv, NoLeak
  <2>3. CASE t = last
    BY <1>1, <1>2, <2>1, <2>2, <2>3
  <2>4. CASE t # last
    BY <1>1, <1>2, <2>1, <2>2, <2>4
  <2>5. QED
    BY <2>3, <2>4
<1>8. RoomForOne'
  BY <1>1, <1>2 DEF SlotInv, TypeOK, RoomForOne, Running
<1>9. QueueOK'
  <2>1. \A j \in 1..Len(backlog) : backlog[j] # connections[s].peer
    BY DEF SlotInv, QueueOK, PeersOfSlots
  <2>2. backlog \in Seq(Conn) /\ phase \in [Conn -> Phase]
    BY DEF SlotInv, TypeOK, PeersTypeOK
  <2>3. QED
    BY <1>4, <2>1, <2>2 DEF SlotInv, QueueOK
<1>10. PeersOfSlots'
  <2>1. \A t \in 1..last : t # s => connections[t].peer # connections[s].peer
    BY <1>1 DEF SlotInv, PeersOfSlots, Slots
  <2>2. \A t \in 1..last : connections[t].peer \in Conn /\ phase[connections[t].peer] = "open"
    BY <1>1 DEF SlotInv, PeersOfSlots, Slots, Connection
  <2>3. phase \in [Conn -> Phase]
    BY DEF SlotInv, TypeOK, PeersTypeOK
  <2>4. \A t \in 1..(last - 1) : phase'[connections'[t].peer] = "open"
    BY <1>1, <1>2, <1>4, <2>1, <2>2, <2>3
  <2>5. \A t, u \in 1..(last - 1) : connections'[t].peer = connections'[u].peer => t = u
    BY <1>1, <1>2, <2>1 DEF SlotInv, PeersOfSlots, Slots
  <2>6. QED
    BY <1>2, <2>4, <2>5 DEF PeersOfSlots, Slots
<1>11. QED
  BY <1>5, <1>6, <1>7, <1>8, <1>9, <1>10 DEF SlotInv

-----------------------------------------------------------------------------
(* accept() adds a peer that no slot has, on a descriptor that no slot has. *)
LEMMA AcceptSlotInv ==
  ASSUME SlotInv, Accept
  PROVE  SlotInv'
<1> USE PollerAssumption, PeersAssumption
<1>1. PICK f \in Fd, c \in Conn :
        /\ file[f] = NoFile
        /\ SysAccept(c)
        /\ file' = [file EXCEPT ![f] = c]
        /\ PollerAdd(f, c)
        /\ fd' = f
  BY DEF Accept
<1>2. /\ count \in Nat /\ max \in Nat /\ count > 0 /\ count < max
      /\ list \in [0..(count - 1) -> Entry]
      /\ connections \in [1..(count - 1) -> Connection]
      /\ file \in [Fd -> Conn \cup {NoFile, Listener}]
      /\ phase \in [Conn -> Phase]
      /\ backlog \in Seq(Conn) /\ backlog # <<>> /\ c = Head(backlog)
  BY <1>1 DEF SlotInv, TypeOK, PeersTypeOK, SlotsMatch, RoomForOne, Running, Accept, SysAccept
<1>3. /\ list' = [k \in 0..count |->
                    IF k = count THEN [fd |-> f, events |-> "IN", revents |-> {}] ELSE list[k]]
      /\ connections' = [k \in 1..count |->
                           IF k = count THEN [peer |-> c, buf |-> <<>>] ELSE connections[k]]
      /\ count' = count + 1
      /\ max' = IF count + 1 >= max THEN max + 1 ELSE max
      /\ pc' = "handle" /\ i' = i
      /\ file' = [file EXCEPT ![f] = c]
      /\ phase' = [phase EXCEPT ![c] = "open"]
      /\ backlog' = Tail(backlog)
      /\ UNCHANGED <<fin, rst, sent, taken, echoed>>
  BY <1>1 DEF PollerAdd, SysAccept, Accept
<1>4. /\ list[0].fd = ListenFd /\ file[ListenFd] = Listener
      /\ \A s \in 1..(count - 1) : /\ file[list[s].fd] = connections[s].peer
                                   /\ phase[connections[s].peer] = "open"
      /\ \A s \in 0..(count - 1) : file[list[s].fd] # NoFile
  <2>1. list[0].fd = ListenFd /\ file[ListenFd] = Listener
    BY DEF SlotInv, SlotsMatch, Running, Accept
  <2>2. \A s \in 1..(count - 1) : /\ file[list[s].fd] = connections[s].peer
                                 /\ phase[connections[s].peer] = "open"
                                 /\ connections[s].peer \in Conn
    BY <1>2 DEF SlotInv, SlotsMatch, PeersOfSlots, Slots, Connection
  <2>3. ASSUME NEW s \in 0..(count - 1)
        PROVE  file[list[s].fd] # NoFile
    <3>1. CASE s = 0
      BY <2>1, <3>1
    <3>2. CASE s # 0
      <4>1. s \in 1..(count - 1)
        BY <1>2, <3>2
      <4>2. QED
        BY <2>2, <4>1
    <3>3. QED
      BY <3>1, <3>2
  <2>4. QED
    BY <2>1, <2>2, <2>3
<1>5. f # ListenFd /\ \A s \in 0..(count - 1) : list[s].fd # f
  BY <1>1, <1>4
<1>6. phase[c] = "queued" /\ \A s \in 1..(count - 1) : connections[s].peer # c
  BY <1>2, <1>4 DEF SlotInv, QueueOK
<1>7. TypeOK'
  <2>1. list' \in [0..(count' - 1) -> Entry]
    BY <1>2, <1>3 DEF Entry, Event
  <2>2. connections' \in [1..(count' - 1) -> Connection]
    <3>1. [peer |-> c, buf |-> <<>>] \in Connection
      BY DEF Connection
    <3>2. QED
      BY <1>2, <1>3, <3>1
  <2>3. file' \in [Fd -> Conn \cup {NoFile, Listener}]
    BY <1>2, <1>3
  <2>4. PeersTypeOK'
    <3>1. backlog' \in Seq(Conn) /\ phase' \in [Conn -> Phase]
      BY <1>2, <1>3 DEF Phase
    <3>2. QED
      BY <1>3, <3>1 DEF SlotInv, TypeOK, PeersTypeOK
  <2>5. count' \in Nat /\ max' \in Nat /\ i' \in Nat \ {0} /\ fd' \in Fd \cup {-1} /\ pc' \in Label
    BY <1>1, <1>2, <1>3 DEF SlotInv, TypeOK, Label
  <2>6. QED
    BY <2>1, <2>2, <2>3, <2>4, <2>5 DEF TypeOK
<1>8. SlotsMatch'
  <2>1. count' > 0 /\ list'[0].fd = ListenFd /\ file'[ListenFd] = Listener
    BY <1>2, <1>3, <1>4, <1>5 DEF Fd, ListenFd
  <2>2. \A s \in 1..count : file'[list'[s].fd] = connections'[s].peer
    <3> SUFFICES ASSUME NEW s \in 1..count
                 PROVE  file'[list'[s].fd] = connections'[s].peer
      OBVIOUS
    <3>1. CASE s = count
      BY <1>2, <1>3, <3>1
    <3>2. CASE s # count
      <4>1. /\ s \in 1..(count - 1) /\ list'[s] = list[s] /\ connections'[s] = connections[s]
            /\ list[s].fd \in Fd
        BY <1>2, <1>3, <3>2 DEF Entry
      <4>2. QED
        BY <1>2, <1>3, <1>4, <1>5, <4>1
    <3>3. QED
      BY <3>1, <3>2
  <2>3. \A s, t \in 0..count : list'[s].fd = list'[t].fd => s = t
    BY <1>2, <1>3, <1>5 DEF SlotInv, SlotsMatch
  <2>4. count' - 1 = count
    BY <1>2, <1>3
  <2>5. QED
    BY <2>1, <2>2, <2>3, <2>4 DEF SlotsMatch, Slots, ListenFd
<1>9. NoLeak'
  <2> SUFFICES ASSUME NEW g \in Fd, file'[g] # NoFile
               PROVE  \E s \in 0..count : list'[s].fd = g
    BY <1>2, <1>3 DEF NoLeak
  <2>1. CASE g = f
    BY <1>2, <1>3, <2>1
  <2>2. CASE g # f
    <3>1. PICK s \in 0..(count - 1) : list[s].fd = g
      BY <1>2, <1>3, <2>2 DEF SlotInv, NoLeak
    <3>2. QED
      BY <1>2, <1>3, <3>1
  <2>3. QED
    BY <2>1, <2>2
<1>10. RoomForOne'
  BY <1>2, <1>3 DEF RoomForOne
<1>11. QueueOK'
  BY <1>1, AcceptMove DEF SlotInv, TypeOK
<1>12. PeersOfSlots'
  <2>1. \A s \in 1..count : phase'[connections'[s].peer] = "open"
    BY <1>2, <1>3, <1>4, <1>6 DEF Connection
  <2>2. \A s, t \in 1..count : connections'[s].peer = connections'[t].peer => s = t
    BY <1>2, <1>3, <1>6 DEF SlotInv, PeersOfSlots, Slots
  <2>3. QED
    BY <1>2, <1>3, <2>1, <2>2 DEF PeersOfSlots, Slots
<1>13. QED
  BY <1>7, <1>8, <1>9, <1>10, <1>11, <1>12 DEF SlotInv

-----------------------------------------------------------------------------
(* The peers' own moves: they touch no slot, and a slot's peer stays open. *)
LEMMA PeersSlotInv ==
  ASSUME SlotInv, Peers
  PROVE  SlotInv'
<1> USE PollerAssumption, PeersAssumption
<1>1. UNCHANGED pollerVars /\ pc # "done"
  BY DEF Peers
<1>2. PeersTypeOK /\ phase \in [Conn -> Phase] /\ backlog \in Seq(Conn)
  BY DEF SlotInv, TypeOK, PeersTypeOK
<1>3. PeerNext /\ PeersTypeOK /\ QueueOK
  BY DEF Peers, SlotInv, TypeOK
<1>4. PeersTypeOK' /\ QueueOK' /\ \A d \in Conn : phase[d] = "open" => phase'[d] = "open"
  BY <1>3, PeersMove
<1>5. TypeOK' /\ SlotsMatch' /\ NoLeak' /\ RoomForOne'
  BY <1>1, <1>4 DEF SlotInv, TypeOK, SlotsMatch, NoLeak, RoomForOne, Running, Slots, pollerVars
<1>6. PeersOfSlots'
  <2>1. Slots' = Slots /\ connections' = connections
    BY <1>1 DEF Slots, pollerVars
  <2>2. \A s \in Slots : connections[s].peer \in Conn
    BY DEF SlotInv, TypeOK, Slots, Connection
  <2>3. QED
    BY <1>1, <1>4, <2>1, <2>2 DEF SlotInv, PeersOfSlots, pollerVars
<1>7. QED
  BY <1>4, <1>5, <1>6 DEF SlotInv

-----------------------------------------------------------------------------
(* Steps that change no descriptor and no slot's fd or peer.               *)
LEMMA SameSlotsSlotInv ==
  ASSUME SlotInv,
         UNCHANGED <<count, max, file, phase, backlog>>,
         list' \in [0..(count - 1) -> Entry],
         \A s \in 0..(count - 1) : list'[s].fd = list[s].fd,
         connections' \in [1..(count - 1) -> Connection],
         \A s \in Slots : connections'[s].peer = connections[s].peer,
         PeersTypeOK', i' \in Nat \ {0}, fd' \in Fd \cup {-1}, pc' \in Label \ {"done"},
         pc # "done"
  PROVE  SlotInv'
<1>1. TypeOK'
  BY DEF SlotInv, TypeOK
<1>2. count \in Nat /\ Slots' = Slots
  BY DEF SlotInv, TypeOK, Slots
<1>3. count > 0 /\ list[0].fd = ListenFd /\ file[ListenFd] = Listener /\ count < max
  BY DEF SlotInv, SlotsMatch, RoomForOne, Running, TypeOK, Label
<1>4. /\ \A s \in Slots : file'[list'[s].fd] = connections'[s].peer
      /\ \A s, t \in 0..(count - 1) : list'[s].fd = list'[t].fd => s = t
  BY <1>2 DEF SlotInv, SlotsMatch, Slots
<1>5. SlotsMatch'
  BY <1>2, <1>3, <1>4 DEF SlotsMatch, ListenFd
<1>6. NoLeak' /\ RoomForOne'
  BY <1>3 DEF SlotInv, NoLeak, RoomForOne
<1>7. QueueOK'
  BY DEF SlotInv, QueueOK
<1>8. PeersOfSlots'
  BY <1>2 DEF SlotInv, PeersOfSlots
<1>9. QED
  BY <1>1, <1>5, <1>6, <1>7, <1>8 DEF SlotInv

\* What poll() reports is a set of events.
LEMMA ReventsType ==
  \A s, slow, bare : Revents(s, slow, bare) \subseteq Event
BY DEF Revents, Event

\* poll() writes only revents.
LEMMA PollSlotInv ==
  ASSUME SlotInv, NEW slow, NEW bare, PollWith(slow, bare)
  PROVE  SlotInv'
<1>1. /\ count \in Nat /\ list \in [0..(count - 1) -> Entry]
      /\ connections \in [1..(count - 1) -> Connection]
      /\ fd \in Fd \cup {-1} /\ PeersTypeOK
  BY DEF SlotInv, TypeOK
<1>2. /\ list' = [k \in 0..(count - 1) |->
                    [list[k] EXCEPT !.revents = Revents(k, slow, bare)]]
      /\ pc = "poll" /\ pc' \in {"accept", "handle"} /\ i' = 1
      /\ UNCHANGED <<connections, count, max, fd, file>>
      /\ UNCHANGED <<phase, fin, rst, sent, taken, echoed, backlog>>
  BY DEF PollWith, peerVars
<1>3. list' \in [0..(count - 1) -> Entry]
  BY <1>1, <1>2, ReventsType DEF Entry
<1>4. \A s \in 0..(count - 1) : list'[s].fd = list[s].fd
  BY <1>1, <1>2 DEF Entry
<1>5. PeersTypeOK'
  BY <1>1, <1>2 DEF PeersTypeOK
<1>6. QED
  BY <1>1, <1>2, <1>3, <1>4, <1>5, SameSlotsSlotInv DEF Label

\* The socket the loop looks at is that of the slot's peer.
LEMMA SockIsPeer ==
  ASSUME SlotInv, i < count
  PROVE  /\ i \in Slots /\ i \in 0..(count - 1) /\ count \in Nat
         /\ Sock = connections[i].peer /\ Sock \in Conn
         /\ phase[Sock] = "open"
BY DEF SlotInv, TypeOK, SlotsMatch, PeersOfSlots, Slots, Sock, Connection

\* recv() > 0 changes the buffer and the events of one slot (lines 319, 331).
LEMMA RecvDataSlotInv ==
  ASSUME SlotInv, RecvData
  PROVE  SlotInv'
<1> USE PollerAssumption, PeersAssumption
<1>1. /\ pc = "handle" /\ i < count
      /\ connections' = [connections EXCEPT ![i].buf =
                           Stream(Sock, taken[Sock], taken'[Sock])]
      /\ list' = [list EXCEPT ![i].events = "OUT"]
      /\ i' = i + 1
      /\ UNCHANGED <<count, max, fd, pc, file>>
      /\ SysRecv(Sock, BufSize)
  BY DEF RecvData, Handling
<1>2. /\ i \in Nat \ {0} /\ list \in [0..(count - 1) -> Entry] /\ fd \in Fd \cup {-1}
      /\ connections \in [1..(count - 1) -> Connection]
      /\ taken \in [Conn -> 0..MaxSend] /\ sent \in [Conn -> 0..MaxSend] /\ PeersTypeOK
  BY DEF SlotInv, TypeOK, PeersTypeOK
<1>3. /\ i \in 1..(count - 1) /\ i \in 0..(count - 1) /\ Sock \in Conn /\ count \in Nat
  BY <1>1, SockIsPeer DEF Slots
<1>4. /\ taken' = [taken EXCEPT ![Sock] = Received(Sock, BufSize)]
      /\ taken[Sock] < sent[Sock]
      /\ UNCHANGED <<phase, fin, rst, sent, echoed, backlog>>
  BY <1>1 DEF SysRecv
<1>5. Received(Sock, BufSize) \in 0..MaxSend
  BY <1>2, <1>3, <1>4 DEF Received
<1>6. PeersTypeOK'
  BY <1>2, <1>3, <1>4, <1>5 DEF PeersTypeOK
<1>7. Stream(Sock, taken[Sock], taken'[Sock]) \in ByteSeq
  <2>1. taken[Sock] \in Nat /\ taken'[Sock] \in Nat /\ taken[Sock] <= taken'[Sock]
    BY <1>2, <1>3, <1>4 DEF Received
  <2>2. QED
    BY <1>3, <2>1, StreamProperties
<1>8. list' \in [0..(count - 1) -> Entry] /\ \A s \in 0..(count - 1) : list'[s].fd = list[s].fd
  BY <1>1, <1>2, <1>3 DEF Entry
<1>9. /\ connections' \in [1..(count - 1) -> Connection]
      /\ \A s \in 1..(count - 1) : connections'[s].peer = connections[s].peer
  BY <1>1, <1>2, <1>3, <1>7 DEF Connection, ByteSeq
<1>10. QED
  BY <1>1, <1>2, <1>3, <1>4, <1>6, <1>8, <1>9, SameSlotsSlotInv DEF Slots, Label

\* So does a send(), whole or partial (lines 336-352).
LEMMA SendSlotInv ==
  ASSUME SlotInv, NEW n \in 1..BufSize, SendSome(n)
  PROVE  SlotInv'
<1> USE PollerAssumption, PeersAssumption
<1> DEFINE buf == connections[i].buf
<1>1. /\ pc = "handle" /\ i < count /\ n \in 1..Len(buf)
      /\ i' = i + 1
      /\ UNCHANGED <<count, max, fd, pc, file>>
      /\ echoed' = [echoed EXCEPT ![Sock] = @ \o SubSeq(buf, 1, n)]
      /\ UNCHANGED <<phase, fin, rst, sent, taken, backlog>>
      /\ \/ /\ n < Len(buf)
            /\ connections' = [connections EXCEPT ![i].buf = SubSeq(buf, n + 1, Len(buf))]
            /\ list' = [list EXCEPT ![i].events = "OUT"]
         \/ /\ ~(n < Len(buf))
            /\ connections' = connections
            /\ list' = [list EXCEPT ![i].events = "IN"]
  BY DEF SendSome, Handling, SysSend
<1>2. /\ i \in Nat \ {0} /\ list \in [0..(count - 1) -> Entry] /\ fd \in Fd \cup {-1}
      /\ connections \in [1..(count - 1) -> Connection]
      /\ echoed \in [Conn -> Seq(Conn \X Nat)] /\ PeersTypeOK
  BY DEF SlotInv, TypeOK, PeersTypeOK
<1>3. /\ i \in 1..(count - 1) /\ i \in 0..(count - 1) /\ Sock \in Conn /\ count \in Nat
  BY <1>1, SockIsPeer DEF Slots
<1>4. buf \in ByteSeq
  BY <1>2, <1>3 DEF Connection, ByteSeq
<1>5. SubSeq(buf, 1, n) \in ByteSeq /\ SubSeq(buf, n + 1, Len(buf)) \in ByteSeq
  BY <1>1, <1>4, SplitBuffer
<1>6. echoed' \in [Conn -> Seq(Conn \X Nat)]
  <2>1. echoed[Sock] \o SubSeq(buf, 1, n) \in Seq(Conn \X Nat)
    BY <1>2, <1>3, <1>5, ConcatProperties DEF ByteSeq
  <2>2. QED
    BY <1>1, <1>2, <1>3, <2>1
<1>7. PeersTypeOK'
  BY <1>1, <1>2, <1>6 DEF PeersTypeOK
<1>8. list' \in [0..(count - 1) -> Entry] /\ \A s \in 0..(count - 1) : list'[s].fd = list[s].fd
  <2> SUFFICES ASSUME NEW e \in {"IN", "OUT"}, list' = [list EXCEPT ![i].events = e]
               PROVE  /\ list' \in [0..(count - 1) -> Entry]
                      /\ \A s \in 0..(count - 1) : list'[s].fd = list[s].fd
    BY <1>1
  <2>1. QED
    BY <1>2, <1>3 DEF Entry
<1>9. /\ connections' \in [1..(count - 1) -> Connection]
      /\ \A s \in 1..(count - 1) : connections'[s].peer = connections[s].peer
  <2>1. CASE connections' = connections
    BY <1>2, <2>1
  <2>2. CASE connections' = [connections EXCEPT ![i].buf = SubSeq(buf, n + 1, Len(buf))]
    <3> HIDE DEF buf
    <3>1. QED
      BY <1>2, <1>3, <1>5, <2>2 DEF Connection, ByteSeq
  <2>3. QED
    BY <1>1, <2>1, <2>2
<1>10. QED
  BY <1>1, <1>2, <1>3, <1>7, <1>8, <1>9, SameSlotsSlotInv DEF Slots, Label

\* After poller_destroy() no slot is left and no descriptor is open.
LEMMA CleanupSlotInv ==
  ASSUME SlotInv, Cleanup
  PROVE  SlotInv'
<1> USE PollerAssumption, PeersAssumption
<1>1. /\ file' = [f \in Fd |-> IF f = fd \/ \E k \in 0..(count - 1) : list[k].fd = f
                               THEN NoFile ELSE file[f]]
      /\ phase' = [c \in Conn |-> IF phase[c] = "idle" THEN "idle" ELSE "closed"]
      /\ backlog' = <<>> /\ UNCHANGED <<fin, rst, sent, taken, echoed, max, i, fd>>
      /\ list' = [k \in {} |-> list[0]] /\ connections' = [k \in {} |-> connections[1]]
      /\ count' = 0 /\ pc' = "done"
  BY DEF Cleanup, SysCloseAll
<1>2. TypeOK /\ PeersTypeOK
  BY DEF SlotInv, TypeOK
<1>3. PeersTypeOK'
  BY <1>1, <1>2 DEF PeersTypeOK, Phase
<1>4. file' \in [Fd -> Conn \cup {NoFile, Listener}]
  BY <1>1, <1>2 DEF TypeOK
<1>5. list' \in [0..(count' - 1) -> Entry] /\ connections' \in [1..(count' - 1) -> Connection]
  BY <1>1
<1>6. TypeOK'
  BY <1>1, <1>2, <1>3, <1>4, <1>5 DEF TypeOK, Label
<1>7. \A f \in Fd : file'[f] = NoFile
  BY <1>1 DEF SlotInv, NoLeak
<1>8. SlotsMatch' /\ NoLeak' /\ RoomForOne'
  BY <1>1, <1>7 DEF SlotsMatch, NoLeak, RoomForOne, Running, Slots
<1>9. QueueOK' /\ PeersOfSlots'
  BY <1>1 DEF QueueOK, PeersOfSlots, Slots
<1>10. QED
  BY <1>6, <1>8, <1>9 DEF SlotInv

\* Steps that move only main()'s own i, fd and pc.
LEMMA MoveOnSlotInv ==
  ASSUME SlotInv, AcceptFails \/ SkipIdle \/ EndPass \/ PollFails
  PROVE  SlotInv'
<1>1. /\ UNCHANGED <<list, connections, count, max, file>>
      /\ UNCHANGED <<phase, fin, rst, sent, taken, echoed, backlog>>
      /\ i' \in {i, i + 1} /\ fd' \in {fd, -1}
      /\ pc # "done" /\ pc' \in Label \ {"done"}
  BY DEF AcceptFails, SkipIdle, EndPass, PollFails, peerVars, Label
<1>2. /\ i \in Nat \ {0} /\ fd \in Fd \cup {-1} /\ PeersTypeOK
      /\ list \in [0..(count - 1) -> Entry]
      /\ connections \in [1..(count - 1) -> Connection]
  BY DEF SlotInv, TypeOK
<1>3. PeersTypeOK'
  BY <1>1, <1>2 DEF PeersTypeOK
<1>4. i' \in Nat \ {0} /\ fd' \in Fd \cup {-1}
  BY <1>1, <1>2
<1>5. QED
  BY <1>1, <1>2, <1>3, <1>4, SameSlotsSlotInv

\* Every step keeps the invariant of the slots.
LEMMA NextSlotInv == SlotInv /\ [Next]_vars => SlotInv'
<1> SUFFICES ASSUME SlotInv, [Next]_vars
             PROVE  SlotInv'
  OBVIOUS
<1>1. CASE Poll
  BY <1>1, PollSlotInv DEF Poll
<1>2. CASE Accept
  BY <1>2, AcceptSlotInv
<1>3. CASE AcceptFails \/ SkipIdle \/ EndPass \/ PollFails
  BY <1>3, MoveOnSlotInv
<1>4. CASE HangUp \/ RecvEnds \/ SendFails
  <2>1. /\ pc = "handle" /\ i < count /\ PollerRemoveAt(i) /\ pc' = pc /\ fd' = fd
        /\ i' \in {i, i + 1}
    BY <1>4 DEF HangUp, RecvEnds, SendFails, Handling
  <2>2. i \in Slots /\ i' \in Nat \ {0}
    BY <2>1, SockIsPeer DEF SlotInv, TypeOK
  <2>3. QED
    BY <2>1, <2>2, RemoveAtSlotInv
<1>5. CASE RecvData
  BY <1>5, RecvDataSlotInv
<1>6. CASE Send
  BY <1>6, SendSlotInv DEF Send
<1>7. CASE Cleanup
  BY <1>7, CleanupSlotInv
<1>8. CASE Peers
  BY <1>8, PeersSlotInv
<1>9. CASE UNCHANGED vars
  BY <1>9 DEF vars, pollerVars, peerVars, SlotInv, TypeOK, PeersTypeOK, SlotsMatch, NoLeak,
              RoomForOne, QueueOK, PeersOfSlots, Running, Slots
<1>10. QED
  BY <1>1, <1>2, <1>3, <1>4, <1>5, <1>6, <1>7, <1>8, <1>9 DEF Next, Server

\* Types, slots, descriptors and array bounds, for any number of peers and
\* descriptors: no schedule of peers and kernel makes the parallel arrays and
\* the descriptor table disagree (poller_add, poller_remove_at).
THEOREM SpecSlotInv == Spec => []SlotInv
<1>1. Init => SlotInv
  BY InitSlotInv
<1>2. SlotInv /\ [Next]_vars => SlotInv'
  BY NextSlotInv
<1>3. QED
  BY <1>1, <1>2, PTL DEF Spec

\* The variables have their types, and the loop index is never 0: i-- on slot 1
\* is followed by i++ before slot 0 could be taken for a connection.
THEOREM SpecTypeOK == Spec => []TypeOK
BY SpecSlotInv, PTL DEF SlotInv

\* Each slot describes the peer its descriptor is open on (lines 128-141).
THEOREM SpecSlotsMatch == Spec => []SlotsMatch
BY SpecSlotInv, PTL DEF SlotInv

\* No open descriptor is missing from the poll set.
THEOREM SpecNoLeak == Spec => []NoLeak
BY SpecSlotInv, PTL DEF SlotInv

\* poller_add() never writes past the end of its arrays (lines 87-92).
THEOREM SpecRoomForOne == Spec => []RoomForOne
BY SpecSlotInv, PTL DEF SlotInv

-----------------------------------------------------------------------------
(***************************************************************************)
(* The inductive invariant about data and about the snapshot of revents.   *)
(* EchoInOrder needs to know that a connection not yet accepted has had    *)
(* nothing done to it; what the loop does on a snapshot is right because   *)
(* every reported event of a slot not yet handled still holds of the peer  *)
(* that is in the slot now.                                                *)
(***************************************************************************)
SlotEcho(s) ==
  LET c == connections[s].peer IN
  IF list[s].events = "OUT"
    THEN /\ connections[s].buf # <<>>
         /\ echoed[c] \o connections[s].buf = Stream(c, 0, taken[c])
    ELSE echoed[c] = Stream(c, 0, taken[c])

SlotSnapshot(s) ==
  LET c == connections[s].peer IN
  /\ "IN" \in list[s].revents => list[s].events = "IN" /\ Readable(c)
  /\ "OUT" \in list[s].revents => list[s].events = "OUT"
  /\ list[s].revents \cap {"HUP", "ERR"} # {} => rst[c] \/ (HupOnFin /\ fin[c])

Untouched ==
  \A c \in Conn : /\ taken[c] <= sent[c]
                  /\ phase[c] \in {"idle", "queued"} => taken[c] = 0 /\ echoed[c] = <<>>

DataInv ==
  /\ \A s \in Slots : SlotEcho(s)
  /\ pc = "accept" => i = 1
  /\ pc \in {"accept", "handle"} => \A s \in Slots : s >= i => SlotSnapshot(s)
  /\ Untouched

\* The two parts about slots, unprimed and primed, as the later steps use them.
LEMMA SlotFacts ==
  ASSUME SlotInv, DataInv, pc = "handle", i < count
  PROVE  SlotEcho(i) /\ SlotSnapshot(i)
BY SockIsPeer, i >= i DEF DataInv, SlotInv, TypeOK

\* SlotEcho of a slot in the next state, spelled out.
LEMMA SlotEchoPrimed ==
  ASSUME NEW s
  PROVE  SlotEcho(s)' <=>
           LET c == connections'[s].peer IN
           IF list'[s].events = "OUT"
             THEN /\ connections'[s].buf # <<>>
                  /\ echoed'[c] \o connections'[s].buf = Stream(c, 0, taken'[c])
             ELSE echoed'[c] = Stream(c, 0, taken'[c])
BY DEF SlotEcho, Stream

\* Nothing has been received or sent when the server starts.
LEMMA InitDataInv == Init => DataInv
BY DEF Init, PeersInit, DataInv, Untouched, Slots

\* A removal at the loop's index, with or without the i-- after it.
LEMMA RemoveAtDataInv ==
  ASSUME SlotInv, DataInv, PollerRemoveAt(i), pc = "handle", i < count,
         pc' = pc, i' \in {i, i + 1}
  PROVE  DataInv'
<1>1. /\ i \in 1..(count - 1) /\ count \in Nat /\ i \in Slots
      /\ file[list[i].fd] \in Conn
  BY SockIsPeer DEF Slots, Sock
<1>2. /\ count' = count - 1
      /\ list' = [k \in 0..(count - 2) |-> IF k = i THEN list[count - 1] ELSE list[k]]
      /\ connections' = [k \in 1..(count - 2) |->
                           IF k = i THEN connections[count - 1] ELSE connections[k]]
      /\ phase' = [phase EXCEPT ![file[list[i].fd]] = "closed"]
      /\ UNCHANGED <<fin, rst, sent, taken, echoed>>
  BY DEF PollerRemoveAt, SysClose
<1>3. ASSUME NEW s \in Slots'
      PROVE  /\ SlotEcho(s)'
             /\ s >= i' => SlotSnapshot(s)'
  <2> DEFINE from == IF s = i THEN count - 1 ELSE s
  <2>1. s \in 1..(count - 2) /\ from \in Slots /\ (s >= i' => from >= i)
    BY <1>1, <1>2 DEF Slots
  <2>2. list'[s] = list[from] /\ connections'[s] = connections[from]
    BY <1>1, <1>2, <2>1
  <2> HIDE DEF from
  <2>3. SlotEcho(s)'
    BY <1>2, <2>1, <2>2 DEF DataInv, SlotEcho, Stream
  <2>4. from >= i => SlotSnapshot(from)
    BY <2>1 DEF DataInv
  <2>5. SlotSnapshot(s)' <=> SlotSnapshot(from)
    BY <1>2, <2>2 DEF SlotSnapshot, Readable
  <2>6. QED
    BY <2>1, <2>3, <2>4, <2>5
<1>4. Untouched'
  <2>1. phase \in [Conn -> Phase]
    BY DEF SlotInv, TypeOK, PeersTypeOK
  <2>2. QED
    BY <1>1, <1>2, <2>1 DEF DataInv, Untouched
<1>5. QED
  BY <1>3, <1>4 DEF DataInv

\* A peer that is accepted has been sent nothing and its slot holds nothing.
LEMMA AcceptDataInv ==
  ASSUME SlotInv, DataInv, Accept
  PROVE  DataInv'
<1>1. PICK f \in Fd, c \in Conn : SysAccept(c) /\ PollerAdd(f, c)
  BY DEF Accept
<1>2. /\ list' = [k \in 0..count |->
                    IF k = count THEN [fd |-> f, events |-> "IN", revents |-> {}] ELSE list[k]]
      /\ connections' = [k \in 1..count |->
                           IF k = count THEN [peer |-> c, buf |-> <<>>] ELSE connections[k]]
      /\ count' = count + 1 /\ pc = "accept" /\ pc' = "handle" /\ i' = i
      /\ phase' = [phase EXCEPT ![c] = "open"] /\ backlog # <<>> /\ c = Head(backlog)
      /\ UNCHANGED <<fin, rst, sent, taken, echoed>>
  BY <1>1 DEF PollerAdd, SysAccept, Accept
<1>3. /\ count \in Nat /\ count > 0 /\ phase \in [Conn -> Phase] /\ backlog \in Seq(Conn)
      /\ i = 1
  BY <1>2 DEF SlotInv, TypeOK, PeersTypeOK, SlotsMatch, Running, DataInv
<1>4. phase[c] = "queued" /\ taken[c] = 0 /\ echoed[c] = <<>>
  BY <1>2, <1>3 DEF SlotInv, QueueOK, DataInv, Untouched
<1>5. Stream(c, 0, 0) = <<>>
  BY StreamFromStart DEF ByteSeq
<1>6. ASSUME NEW s \in Slots'
      PROVE  SlotEcho(s)' /\ (s >= i' => SlotSnapshot(s)')
  <2>1. CASE s = count
    <3>1. /\ list'[s].events = "IN" /\ list'[s].revents = {} /\ connections'[s].peer = c
      BY <1>2, <1>3, <2>1
    <3>2. SlotEcho(s)'
      BY <1>2, <1>4, <1>5, <3>1 DEF SlotEcho
    <3>3. SlotSnapshot(s)'
      BY <3>1 DEF SlotSnapshot
    <3>4. QED
      BY <3>2, <3>3
  <2>2. CASE s # count
    <3>1. s \in Slots /\ list'[s] = list[s] /\ connections'[s] = connections[s]
      BY <1>2, <1>3, <2>2 DEF Slots
    <3>2. SlotEcho(s)'
      BY <1>2, <3>1 DEF DataInv, SlotEcho, Stream
    <3>3. s >= i => SlotSnapshot(s)
      BY <1>2, <3>1 DEF DataInv
    <3>4. SlotSnapshot(s)' <=> SlotSnapshot(s)
      BY <1>2, <3>1 DEF SlotSnapshot, Readable
    <3>5. QED
      BY <1>2, <3>2, <3>3, <3>4
  <2>3. QED
    BY <2>1, <2>2
<1>7. Untouched'
  BY <1>2, <1>3 DEF DataInv, Untouched
<1>8. QED
  BY <1>2, <1>6, <1>7 DEF DataInv

\* The peers' own moves take no byte from the server and give it none, and what
\* poll() has reported of a peer stays true.
LEMMA PeersDataInv ==
  ASSUME SlotInv, DataInv, Peers
  PROVE  DataInv'
<1>1. UNCHANGED pollerVars
  BY DEF Peers
<1>2. PICK c \in Conn : PeerConnect(c) \/ PeerSend(c) \/ PeerShutdown(c) \/ PeerReset(c)
  BY DEF Peers, PeerNext
<1>3. /\ phase \in [Conn -> Phase] /\ fin \in [Conn -> BOOLEAN] /\ rst \in [Conn -> BOOLEAN]
      /\ sent \in [Conn -> 0..MaxSend] /\ taken \in [Conn -> 0..MaxSend] /\ MaxSend \in Nat
  BY PeersAssumption DEF SlotInv, TypeOK, PeersTypeOK
<1>4. /\ UNCHANGED <<taken, echoed>>
      /\ \A d \in Conn : /\ fin[d] => fin'[d]
                         /\ rst[d] => rst'[d]
                         /\ sent[d] <= sent'[d]
                         /\ phase'[d] \in {"idle", "queued"} => phase[d] \in {"idle", "queued"}
  <2>1. CASE PeerConnect(c)
    BY <1>3, <2>1 DEF PeerConnect
  <2>2. CASE PeerSend(c)
    BY <1>3, <2>2 DEF PeerSend
  <2>3. CASE PeerShutdown(c)
    BY <1>3, <2>3 DEF PeerShutdown
  <2>4. CASE PeerReset(c)
    <3>1. \/ phase' = phase
          \/ phase' = [phase EXCEPT ![c] = "closed"]
      BY <2>4 DEF PeerReset
    <3>2. QED
      BY <1>3, <2>4, <3>1 DEF PeerReset
  <2>5. QED
    BY <1>2, <2>1, <2>2, <2>3, <2>4
<1>5. /\ Slots' = Slots /\ \A s \in Slots : connections[s].peer \in Conn
      /\ UNCHANGED <<list, connections, i, pc>>
  BY <1>1 DEF SlotInv, TypeOK, Slots, Connection, pollerVars
<1>6. sent' \in [Conn -> 0..MaxSend]
  BY PeersSlotInv DEF SlotInv, TypeOK, PeersTypeOK
<1>7. \A s \in Slots : SlotEcho(s)'
  BY <1>4, <1>5 DEF DataInv, SlotEcho, Stream
<1>8. ASSUME NEW s \in Slots, SlotSnapshot(s)
      PROVE  SlotSnapshot(s)'
  <2> DEFINE d == connections[s].peer
  <2>1. d \in Conn /\ connections'[s].peer = d /\ list'[s] = list[s]
    BY <1>5
  <2>2. Readable(d) => Readable(d)'
    BY <1>3, <1>4, <1>6, <2>1 DEF Readable
  <2>3. QED
    BY <1>4, <1>8, <2>1, <2>2 DEF SlotSnapshot
<1>9. Untouched'
  BY <1>3, <1>4, <1>6 DEF DataInv, Untouched
<1>10. QED
  BY <1>5, <1>7, <1>8, <1>9 DEF DataInv

\* The snapshot poll() takes is true when it is taken.
LEMMA PollDataInv ==
  ASSUME SlotInv, DataInv, NEW slow, NEW bare, PollWith(slow, bare)
  PROVE  DataInv'
<1>1. /\ list' = [k \in 0..(count - 1) |->
                    [list[k] EXCEPT !.revents = Revents(k, slow, bare)]]
      /\ i' = 1
      /\ UNCHANGED <<connections, count, phase, fin, rst, sent, taken, echoed>>
  BY DEF PollWith, peerVars
<1>2. /\ Slots' = Slots /\ count \in Nat /\ list \in [0..(count - 1) -> Entry]
      /\ \A s \in Slots : s \in 0..(count - 1) /\ s # 0
                         /\ file[list[s].fd] = connections[s].peer
  BY <1>1 DEF SlotInv, TypeOK, SlotsMatch, Slots
<1>3. ASSUME NEW s \in Slots
      PROVE  SlotEcho(s)' /\ SlotSnapshot(s)'
  <2> DEFINE c == connections[s].peer  r == Revents(s, slow, bare)
  <2>1. /\ list'[s].events = list[s].events /\ list'[s].revents = r
        /\ connections'[s] = connections[s]
    BY <1>1, <1>2 DEF Entry
  <2>2. /\ "IN" \in r => list[s].events = "IN" /\ Readable(c)
        /\ "OUT" \in r => list[s].events = "OUT"
        /\ "HUP" \in r => rst[c] \/ (HupOnFin /\ fin[c])
        /\ "ERR" \in r => rst[c]
    BY <1>2 DEF Revents
  <2>3. SlotEcho(s)'
    BY <1>1, <2>1 DEF DataInv, SlotEcho, Stream
  <2>4. SlotSnapshot(s)'
    BY <1>1, <2>1, <2>2 DEF SlotSnapshot, Readable
  <2>5. QED
    BY <2>3, <2>4
<1>4. Untouched'
  BY <1>1 DEF DataInv, Untouched
<1>5. QED
  BY <1>1, <1>2, <1>3, <1>4 DEF DataInv

\* What recv() and send() leave alone: every slot but the one handled.
LEMMA OtherSlotsDataInv ==
  ASSUME SlotInv, DataInv, pc = "handle", i < count,
         UNCHANGED <<count, pc, file, phase, fin, rst, sent>>,
         \A s \in Slots : s # i => list'[s] = list[s] /\ connections'[s] = connections[s],
         \A c \in Conn : c # Sock => taken'[c] = taken[c] /\ echoed'[c] = echoed[c],
         taken'[Sock] <= sent[Sock],
         \A s \in Slots : s = i => SlotEcho(s)', i' = i + 1
  PROVE  DataInv'
<1>1. /\ Slots' = Slots /\ i \in Slots /\ Sock = connections[i].peer /\ i \in Nat /\ Slots \subseteq Nat
      /\ \A s \in Slots : connections[s].peer \in Conn
      /\ \A s \in Slots : s # i => connections[s].peer # Sock
      /\ Sock \in Conn /\ phase[Sock] = "open"
  <2>1. i \in Slots /\ Sock = connections[i].peer /\ Sock \in Conn /\ phase[Sock] = "open"
    BY SockIsPeer
  <2>2. /\ Slots' = Slots /\ Slots \subseteq Nat
        /\ \A s \in Slots : connections[s].peer \in Conn
    BY DEF Slots, SlotInv, TypeOK, Connection
  <2>3. \A s \in Slots : s # i => connections[s].peer # Sock
    BY <2>1 DEF SlotInv, PeersOfSlots
  <2>4. QED
    BY <2>1, <2>2, <2>3
<1>2. \A s \in Slots : SlotEcho(s)'
  <2>1. ASSUME NEW s \in Slots, s # i
        PROVE  SlotEcho(s)'
    <3>1. /\ connections[s].peer \in Conn /\ connections[s].peer # Sock
          /\ list'[s] = list[s] /\ connections'[s] = connections[s]
      BY <1>1, <2>1
    <3>2. SlotEcho(s)
      BY DEF DataInv
    <3>3. QED
      BY <3>1, <3>2, SlotEchoPrimed DEF SlotEcho
  <2>2. ASSUME NEW s \in Slots, s = i
        PROVE  SlotEcho(s)'
    BY <2>2
  <2>3. QED
    BY <2>1, <2>2
<1>3. ASSUME NEW s \in Slots, s >= i'
      PROVE  SlotSnapshot(s)'
  <2>1. s # i /\ s >= i
    BY <1>1, <1>3
  <2>2. /\ connections[s].peer \in Conn /\ connections[s].peer # Sock
        /\ list'[s] = list[s] /\ connections'[s] = connections[s]
    BY <1>1, <2>1
  <2>3. QED
    BY <2>1, <2>2 DEF DataInv, SlotSnapshot, Readable
<1>4. Untouched'
  BY <1>1 DEF DataInv, Untouched
<1>5. QED
  BY <1>1, <1>2, <1>3, <1>4 DEF DataInv

\* recv() puts into the buffer what comes after the bytes already echoed.
LEMMA RecvDataDataInv ==
  ASSUME SlotInv, DataInv, RecvData
  PROVE  DataInv'
<1> DEFINE got == Stream(Sock, taken[Sock], taken'[Sock])
<1>1. /\ pc = "handle" /\ i < count /\ "IN" \in list[i].revents
      /\ connections' = [connections EXCEPT ![i].buf = got]
      /\ list' = [list EXCEPT ![i].events = "OUT"]
      /\ i' = i + 1 /\ UNCHANGED <<count, pc, file, phase, fin, rst, sent, echoed>>
      /\ taken' = [taken EXCEPT ![Sock] = Received(Sock, BufSize)]
      /\ taken[Sock] < sent[Sock]
  BY DEF RecvData, Handling, SysRecv
<1>2. /\ i \in Slots /\ i \in 0..(count - 1) /\ Sock = connections[i].peer /\ Sock \in Conn
      /\ list \in [0..(count - 1) -> Entry] /\ connections \in [Slots -> Connection]
      /\ taken \in [Conn -> 0..MaxSend] /\ sent \in [Conn -> 0..MaxSend] /\ MaxSend \in Nat
      /\ BufSize \in Nat \ {0}
  BY <1>1, SockIsPeer, PeersAssumption, PollerAssumption DEF SlotInv, TypeOK, PeersTypeOK, Slots
<1>3. /\ taken[Sock] \in Nat /\ taken'[Sock] \in Nat
      /\ taken[Sock] < taken'[Sock] /\ taken'[Sock] <= sent[Sock]
  BY <1>1, <1>2 DEF Received
<1>4. list[i].events = "IN" /\ echoed[Sock] = Stream(Sock, 0, taken[Sock])
  BY <1>1, <1>2, SlotFacts DEF SlotSnapshot, SlotEcho
<1>5. got # <<>> /\ echoed[Sock] \o got = Stream(Sock, 0, taken'[Sock])
  BY <1>2, <1>3, <1>4, StreamGrows
<1>6. ASSUME NEW s \in Slots, s = i
      PROVE  SlotEcho(s)'
  <2>1. list'[i].events = "OUT" /\ connections'[i].buf = got /\ connections'[i].peer = Sock
    BY <1>1, <1>2 DEF Entry, Connection
  <2>2. echoed' = echoed
    BY <1>1
  <2> HIDE DEF got
  <2>3. QED
    BY <1>5, <1>6, <2>1, <2>2, SlotEchoPrimed
<1>7. \A s \in Slots : s # i => list'[s] = list[s] /\ connections'[s] = connections[s]
  BY <1>1, <1>2 DEF Slots
<1>8. QED
  BY <1>1, <1>2, <1>3, <1>6, <1>7, OtherSlotsDataInv

\* send() moves bytes from the front of the buffer to the end of the echo.
LEMMA SendDataInv ==
  ASSUME SlotInv, DataInv, NEW n \in 1..BufSize, SendSome(n)
  PROVE  DataInv'
<1> DEFINE buf == connections[i].buf
           out == SubSeq(buf, 1, n)
           left == SubSeq(buf, n + 1, Len(buf))
<1>1. /\ pc = "handle" /\ i < count /\ n \in 1..Len(buf) /\ "OUT" \in list[i].revents
      /\ i' = i + 1
      /\ echoed' = [echoed EXCEPT ![Sock] = @ \o out]
      /\ UNCHANGED <<count, pc, file, phase, fin, rst, sent, taken>>
      /\ \/ /\ n < Len(buf)
            /\ connections' = [connections EXCEPT ![i].buf = left]
            /\ list' = [list EXCEPT ![i].events = "OUT"]
         \/ /\ ~(n < Len(buf))
            /\ connections' = connections
            /\ list' = [list EXCEPT ![i].events = "IN"]
  BY DEF SendSome, Handling, SysSend
<1>2. /\ i \in Slots /\ i \in 0..(count - 1) /\ Sock = connections[i].peer /\ Sock \in Conn
      /\ list \in [0..(count - 1) -> Entry] /\ connections \in [Slots -> Connection]
      /\ echoed \in [Conn -> ByteSeq]
  BY <1>1, SockIsPeer DEF SlotInv, TypeOK, PeersTypeOK, Slots, ByteSeq
<1>3. buf \in ByteSeq
  BY <1>2 DEF Connection, ByteSeq
<1>4. echoed[Sock] \o buf = Stream(Sock, 0, taken[Sock])
  BY <1>1, <1>2, SlotFacts DEF SlotSnapshot, SlotEcho
<1>5. /\ out \in ByteSeq /\ left \in ByteSeq /\ out \o left = buf
      /\ n = Len(buf) => out = buf
      /\ n < Len(buf) => left # <<>>
  BY <1>1, <1>3, SplitBuffer
<1> HIDE DEF out, left
<1>6. (echoed[Sock] \o out) \o left = Stream(Sock, 0, taken[Sock])
  <2>1. echoed[Sock] \in ByteSeq
    BY <1>2
  <2>2. (echoed[Sock] \o out) \o left = echoed[Sock] \o (out \o left)
    BY <1>5, <2>1, EchoAssociative
  <2>3. QED
    BY <1>4, <1>5, <2>2
<1>7. echoed'[Sock] = echoed[Sock] \o out /\ connections'[i].peer = Sock
  BY <1>1, <1>2 DEF Connection
<1>8. ASSUME NEW s \in Slots, s = i
      PROVE  SlotEcho(s)'
  <2>1. CASE n < Len(buf)
    <3>1. list'[i].events = "OUT" /\ connections'[i].buf = left
      <4>1. /\ connections' = [connections EXCEPT ![i].buf = left]
            /\ list' = [list EXCEPT ![i].events = "OUT"]
        BY <1>1, <2>1
      <4>2. QED
        BY <1>2, <4>1 DEF Entry, Connection
    <3>2. QED
      BY <1>1, <1>5, <1>6, <1>7, <1>8, <2>1, <3>1, SlotEchoPrimed
  <2>2. CASE ~(n < Len(buf))
    <3>1. list'[i].events = "IN" /\ connections' = connections
      BY <1>1, <1>2, <2>2 DEF Entry
    <3>2. n = Len(buf)
      BY <1>1, <1>3, <2>2, LenProperties DEF ByteSeq
    <3>3. echoed'[Sock] = Stream(Sock, 0, taken[Sock])
      BY <1>4, <1>5, <1>7, <3>2
    <3>4. QED
      BY <1>1, <1>7, <1>8, <3>1, <3>3, SlotEchoPrimed
  <2>3. QED
    BY <2>1, <2>2
<1>9. \A s \in Slots : s # i => list'[s] = list[s] /\ connections'[s] = connections[s]
  <2>1. \A s \in Slots : s \in 0..(count - 1)
    BY <1>2 DEF Slots, SlotInv, TypeOK
  <2>2. /\ \E e \in {"IN", "OUT"} : list' = [list EXCEPT ![i].events = e]
        /\ \/ connections' = connections
           \/ connections' = [connections EXCEPT ![i].buf = left]
    BY <1>1
  <2>3. QED
    BY <1>2, <2>1, <2>2
<1>10. \A c \in Conn : c # Sock => echoed'[c] = echoed[c]
  BY <1>1, <1>2
<1>11. taken'[Sock] <= sent[Sock]
  BY <1>1, <1>2 DEF DataInv, Untouched
<1>12. QED
  BY <1>1, <1>8, <1>9, <1>10, <1>11, OtherSlotsDataInv

\* Steps that change only main()'s i, fd and pc disturb no byte.
LEMMA MoveOnDataInv ==
  ASSUME SlotInv, DataInv, AcceptFails \/ SkipIdle \/ EndPass \/ PollFails
  PROVE  DataInv'
<1>1. /\ UNCHANGED <<list, connections, count, phase, fin, rst, sent, taken, echoed>>
      /\ i' \in {i, i + 1} /\ i \in Nat
      /\ pc' \in {"poll", "cleanup"} \/ (pc' = "handle" /\ pc = "handle")
  BY DEF AcceptFails, SkipIdle, EndPass, PollFails, peerVars, SlotInv, TypeOK
<1>2. Slots' = Slots /\ Slots \subseteq Nat
  BY <1>1 DEF Slots, SlotInv, TypeOK
<1>3. \A s \in Slots : /\ SlotEcho(s)' <=> SlotEcho(s)
                      /\ SlotSnapshot(s)' <=> SlotSnapshot(s)
  BY <1>1 DEF SlotEcho, SlotSnapshot, Stream, Readable
<1>4. \A s \in Slots : s >= i' => s >= i
  BY <1>1, <1>2
<1>5. Untouched'
  BY <1>1 DEF DataInv, Untouched
<1>6. pc' # "accept"
  BY <1>1
<1>7. pc' = "handle" => \A s \in Slots : s >= i' => SlotSnapshot(s)'
  BY <1>1, <1>3, <1>4 DEF DataInv
<1>8. ASSUME NEW s \in Slots
      PROVE  SlotEcho(s)'
  <2>1. SlotEcho(s)
    BY DEF DataInv
  <2>2. QED
    BY <1>1, <2>1, SlotEchoPrimed DEF SlotEcho
<1>9. QED
  BY <1>1, <1>2, <1>5, <1>6, <1>7, <1>8 DEF DataInv

\* After the cleanup there is no slot to speak of.
LEMMA CleanupDataInv ==
  ASSUME SlotInv, DataInv, Cleanup
  PROVE  DataInv'
<1>1. /\ count' = 0 /\ pc' = "done" /\ UNCHANGED <<fin, rst, sent, taken, echoed>>
      /\ phase' = [c \in Conn |-> IF phase[c] = "idle" THEN "idle" ELSE "closed"]
  BY DEF Cleanup, SysCloseAll
<1>2. Slots' = {}
  BY <1>1 DEF Slots
<1>3. Untouched'
  BY <1>1 DEF DataInv, Untouched
<1>4. QED
  BY <1>1, <1>2, <1>3 DEF DataInv

\* Every step keeps the invariant of the data.
LEMMA NextDataInv == SlotInv /\ DataInv /\ [Next]_vars => DataInv'
<1> SUFFICES ASSUME SlotInv, DataInv, [Next]_vars
             PROVE  DataInv'
  OBVIOUS
<1>1. CASE Poll
  BY <1>1, PollDataInv DEF Poll
<1>2. CASE Accept
  BY <1>2, AcceptDataInv
<1>3. CASE AcceptFails \/ SkipIdle \/ EndPass \/ PollFails
  BY <1>3, MoveOnDataInv
<1>4. CASE HangUp \/ RecvEnds \/ SendFails
  <2>1. /\ pc = "handle" /\ i < count /\ PollerRemoveAt(i) /\ pc' = pc
        /\ i' \in {i, i + 1}
    BY <1>4 DEF HangUp, RecvEnds, SendFails, Handling
  <2>2. QED
    BY <2>1, RemoveAtDataInv
<1>5. CASE RecvData
  BY <1>5, RecvDataDataInv
<1>6. CASE Send
  BY <1>6, SendDataInv DEF Send
<1>7. CASE Cleanup
  BY <1>7, CleanupDataInv
<1>8. CASE Peers
  BY <1>8, PeersDataInv
<1>9. CASE UNCHANGED vars
  <2>1. /\ UNCHANGED <<list, connections, count, i, pc, file>>
        /\ UNCHANGED <<phase, fin, rst, sent, taken, echoed>>
    BY <1>9 DEF vars, pollerVars, peerVars
  <2>2. \A s \in Slots : (SlotEcho(s)' <=> SlotEcho(s)) /\ (SlotSnapshot(s)' <=> SlotSnapshot(s))
    BY <2>1 DEF SlotEcho, SlotSnapshot, Stream, Readable
  <2>3. Slots' = Slots /\ (Untouched' <=> Untouched)
    BY <2>1 DEF Slots, Untouched
  <2>4. QED
    BY <2>1, <2>2, <2>3 DEF DataInv
<1>10. QED
  BY <1>1, <1>2, <1>3, <1>4, <1>5, <1>6, <1>7, <1>8, <1>9 DEF Next, Server

\* Every slot's buffer continues its peer's echo, no byte has
\* been taken from or sent to a peer not yet accepted, and the part of poll()'s
\* snapshot not yet handled is still true (lines 257-352).
THEOREM SpecDataInv == Spec => []DataInv
<1>1. Init => DataInv
  BY InitDataInv
<1>2. SlotInv /\ DataInv /\ [Next]_vars => DataInv'
  BY NextDataInv
<1>3. QED
  BY <1>1, <1>2, SpecSlotInv, PTL DEF Spec

\* Every peer is sent its own bytes, in order and each once, however send()
\* splits them (recv at 319, send and memmove at 336-351).
THEOREM SpecEchoInOrder == Spec => []EchoInOrder
<1>1. DataInv => EchoInOrder
  BY DEF DataInv, SlotEcho, EchoInOrder
<1>2. QED
  BY <1>1, SpecDataInv, PTL

\* A connection poll() reported is still there when accept() is called.
AcceptReady == pc = "accept" => backlog # <<>>

\* A connection that poll() has reported waits until it is accepted, when the
\* kernel does not drop it from the queue.
LEMMA NextAcceptReady ==
  ASSUME ~DropAborted, AcceptReady, SlotInv, [Next]_vars
  PROVE  AcceptReady'
<1>1. CASE Poll
  <2>1. PICK slow, bare \in SUBSET Conn : PollWith(slow, bare)
    BY <1>1 DEF Poll
  <2>2. 0 \in 0..(count - 1) /\ list \in [0..(count - 1) -> Entry]
    BY <2>1 DEF SlotInv, TypeOK, SlotsMatch, Running, PollWith
  <2>3. list'[0].revents = Revents(0, slow, bare) /\ backlog' = backlog
    BY <2>1, <2>2 DEF PollWith, Entry, peerVars
  <2>4. pc' = "accept" => list'[0].revents # {}
    BY <2>1 DEF PollWith
  <2>5. Revents(0, slow, bare) # {} => backlog # <<>>
    BY DEF Revents
  <2>6. QED
    BY <2>3, <2>4, <2>5 DEF AcceptReady
<1>2. CASE Server /\ ~Poll
  <2>1. pc' # "accept"
    BY <1>2 DEF Server, Accept, AcceptFails, SkipIdle, HangUp, RecvData, RecvEnds, Send, SendSome,
                SendFails, EndPass, PollFails, Cleanup, Handling
  <2>2. QED
    BY <2>1 DEF AcceptReady
<1>3. CASE Peers
  <2>1. pc' = pc /\ PeerNext
    BY <1>3 DEF Peers, pollerVars
  <2>2. backlog \in Seq(Conn)
    BY DEF SlotInv, TypeOK, PeersTypeOK
  <2>3. PICK c \in Conn : PeerConnect(c) \/ PeerSend(c) \/ PeerShutdown(c) \/ PeerReset(c)
    BY <2>1 DEF PeerNext
  <2>4. backlog' = backlog \/ backlog' = Append(backlog, c)
    BY <2>3 DEF PeerConnect, PeerSend, PeerShutdown, PeerReset
  <2>5. Append(backlog, c) # <<>>
    BY <2>2, AppendProperties
  <2>6. QED
    BY <2>1, <2>4, <2>5 DEF AcceptReady
<1>4. CASE UNCHANGED vars
  BY <1>4 DEF vars, pollerVars, peerVars, AcceptReady
<1>5. QED
  BY <1>1, <1>2, <1>3, <1>4 DEF Next

\* On a kernel that keeps aborted connections in the accept queue (Linux), no
\* accept() or recv() of the dispatch loop blocks the server (lines 273, 319).
THEOREM SpecNeverBlocks ==
  ASSUME ~DropAborted
  PROVE  Spec => []NeverBlocks
<1>1. Init => AcceptReady
  BY DEF Init, AcceptReady
<1>2. AcceptReady /\ SlotInv /\ [Next]_vars => AcceptReady'
  BY NextAcceptReady
<1>3. DataInv /\ AcceptReady => NeverBlocks
  BY DEF DataInv, SlotSnapshot, AcceptReady, NeverBlocks
<1>4. QED
  BY <1>1, <1>2, <1>3, SpecSlotInv, SpecDataInv, PTL DEF Spec

\* The server closes an open connection only for a peer that has shut down or
\* reset it, or because it stops (the removals at 300, 316, 324, 328, 341).
THEOREM SpecOnlyPeerEndsIt == Spec => OnlyPeerEndsIt
<1> DEFINE Step == \A c \in Conn : phase[c] = "open" /\ phase'[c] = "closed"
                                     => fin[c] \/ rst[c] \/ pc = "cleanup"
<1>1. SlotInv /\ DataInv /\ [Next]_vars => [Step]_vars
  <2> SUFFICES ASSUME SlotInv, DataInv, Next, NEW c \in Conn,
                      phase[c] = "open", phase'[c] = "closed", pc # "cleanup"
               PROVE  fin[c] \/ rst[c]
    OBVIOUS
  <2>1. phase \in [Conn -> Phase]
    BY DEF SlotInv, TypeOK, PeersTypeOK
  <2>2. CASE HangUp \/ RecvEnds \/ SendFails
    <3>1. i < count /\ phase' = [phase EXCEPT ![Sock] = "closed"] /\ pc = "handle"
      BY <2>2 DEF HangUp, RecvEnds, SendFails, PollerRemoveAt, SysClose, Handling, Sock
    <3>2. c = Sock
      BY <2>1, <3>1
    <3>3. Failed => rst[Sock] \/ fin[Sock]
      BY <3>1, SlotFacts, SockIsPeer DEF SlotSnapshot, Failed
    <3>4. QED
      BY <2>2, <3>2, <3>3 DEF HangUp, RecvEnds, SendFails, AtEof
  <2>3. CASE Accept
    <3>1. PICK d \in Conn : phase' = [phase EXCEPT ![d] = "open"]
      BY <2>3 DEF Accept, SysAccept
    <3>2. QED
      BY <2>1, <3>1
  <2>4. CASE Peers
    <3>1. PICK d \in Conn : PeerConnect(d) \/ PeerSend(d) \/ PeerShutdown(d) \/ PeerReset(d)
      BY <2>4 DEF Peers, PeerNext
    <3>2. \/ phase' = phase
          \/ phase' = [phase EXCEPT ![d] = "queued"]
          \/ phase[d] = "queued" /\ phase' = [phase EXCEPT ![d] = "closed"]
      BY <3>1 DEF PeerConnect, PeerSend, PeerShutdown, PeerReset
    <3>3. QED
      BY <2>1, <3>2
  <2>5. CASE Poll \/ AcceptFails \/ SkipIdle \/ RecvData \/ Send \/ EndPass \/ PollFails
    <3>1. phase' = phase
      BY <2>5 DEF Poll, PollWith, AcceptFails, SkipIdle, RecvData, Send, SendSome, SysRecv,
                  SysSend, EndPass, PollFails, peerVars
    <3>2. QED
      BY <3>1
  <2>6. CASE Cleanup
    BY <2>6 DEF Cleanup
  <2>7. QED
    BY <2>2, <2>3, <2>4, <2>5, <2>6 DEF Next, Server
<1>2. QED
  BY <1>1, SpecSlotInv, SpecDataInv, PTL DEF Spec, OnlyPeerEndsIt

\* Bytes move only on an open connection, and a closed one has no slot.
LEMMA NextEchoComplete ==
  ASSUME ~HupOnFin, EchoComplete, SlotInv, DataInv, [Next]_vars
  PROVE  EchoComplete'
<1> SUFFICES ASSUME NEW c \in Conn, phase'[c] = "closed", ~rst'[c], Running'
             PROVE  fin'[c] /\ echoed'[c] = Stream(c, 0, sent'[c])
  BY DEF EchoComplete, Stream
<1>1. /\ phase \in [Conn -> Phase] /\ fin \in [Conn -> BOOLEAN] /\ rst \in [Conn -> BOOLEAN]
      /\ sent \in [Conn -> 0..MaxSend] /\ echoed \in [Conn -> ByteSeq]
  BY DEF SlotInv, TypeOK, PeersTypeOK, ByteSeq
<1>2. Running
  BY DEF Running, SlotInv, TypeOK, Label, Next, Server, Peers, Poll, PollWith, Accept, AcceptFails,
         SkipIdle, HangUp, RecvData, RecvEnds, Send, SendSome, SendFails, EndPass, PollFails,
         Cleanup, Handling, vars, pollerVars
<1>3. CASE phase[c] = "closed" /\ UNCHANGED <<fin, sent>> /\ echoed'[c] = echoed[c] /\ rst'[c] = rst[c]
  BY <1>2, <1>3 DEF EchoComplete
<1>4. CASE HangUp \/ RecvEnds \/ SendFails
  <2>1. /\ i < count /\ pc = "handle" /\ phase' = [phase EXCEPT ![Sock] = "closed"]
        /\ UNCHANGED <<fin, rst, sent, taken, echoed>>
    BY <1>4 DEF HangUp, RecvEnds, SendFails, PollerRemoveAt, SysClose, Handling, Sock
  <2>2. CASE c # Sock
    BY <1>1, <1>3, <2>1, <2>2
  <2>3. CASE c = Sock
    <3>1. SlotEcho(i) /\ SlotSnapshot(i) /\ Sock = connections[i].peer
      BY <2>1, SlotFacts, SockIsPeer
    <3>2. RecvEnds /\ AtEof(Sock)
      BY <1>4, <2>1, <2>3, <3>1 DEF HangUp, RecvEnds, SendFails, SlotSnapshot, Failed
    <3>3. list[i].events = "IN"
      BY <3>1, <3>2 DEF RecvEnds, Handling, SlotSnapshot
    <3>4. QED
      BY <2>1, <2>3, <3>1, <3>2, <3>3 DEF SlotEcho, AtEof
  <2>4. QED
    BY <2>2, <2>3
<1>5. CASE Accept
  <2>1. PICK d \in Conn : SysAccept(d)
    BY <1>5 DEF Accept
  <2>2. phase' = [phase EXCEPT ![d] = "open"] /\ UNCHANGED <<fin, rst, sent, echoed>>
    BY <2>1 DEF SysAccept
  <2>3. QED
    BY <1>1, <1>3, <2>2
<1>6. CASE RecvData \/ Send
  <2>1. /\ i < count /\ UNCHANGED <<phase, fin, rst, sent>>
        /\ \/ UNCHANGED echoed
           \/ \E bytes : echoed' = [echoed EXCEPT ![Sock] = @ \o bytes]
    BY <1>6 DEF RecvData, SysRecv, Send, SendSome, SysSend, Handling
  <2>2. phase[Sock] = "open"
    BY <2>1, SockIsPeer
  <2>3. c # Sock
    BY <2>1, <2>2
  <2>4. echoed'[c] = echoed[c]
    BY <1>1, <2>1, <2>3
  <2>5. QED
    BY <1>3, <2>1, <2>4
<1>7. CASE Peers
  <2>1. PICK d \in Conn : PeerConnect(d) \/ PeerSend(d) \/ PeerShutdown(d) \/ PeerReset(d)
    BY <1>7 DEF Peers, PeerNext
  <2>2. UNCHANGED echoed
    BY <2>1 DEF PeerConnect, PeerSend, PeerShutdown, PeerReset
  <2>3. CASE d = c
    BY <1>1, <2>1, <2>3 DEF PeerConnect, PeerSend, PeerShutdown, PeerReset, Alive
  <2>4. CASE d # c
    <3>1. phase[c] = "closed"
      <4>1. \/ phase' = phase
            \/ phase' = [phase EXCEPT ![d] = "queued"]
            \/ phase' = [phase EXCEPT ![d] = "closed"]
        BY <2>1 DEF PeerConnect, PeerSend, PeerShutdown, PeerReset
      <4>2. QED
        BY <1>1, <2>4, <4>1
    <3>2. fin'[c] = fin[c] /\ rst'[c] = rst[c] /\ sent'[c] = sent[c]
      BY <1>1, <2>1, <2>4 DEF PeerConnect, PeerSend, PeerShutdown, PeerReset
    <3>3. QED
      BY <1>2, <2>2, <3>1, <3>2 DEF EchoComplete
  <2>5. QED
    BY <2>3, <2>4
<1>8. CASE Poll \/ AcceptFails \/ SkipIdle \/ EndPass \/ PollFails \/ UNCHANGED vars
  <2>1. UNCHANGED <<phase, fin, rst, sent, echoed>>
    BY <1>8 DEF Poll, PollWith, AcceptFails, SkipIdle, EndPass, PollFails, vars, peerVars
  <2>2. QED
    BY <1>3, <2>1
<1>9. CASE Cleanup
  BY <1>9 DEF Cleanup, Running
<1>10. QED
  BY <1>4, <1>5, <1>6, <1>7, <1>8, <1>9 DEF Next, Server

\* Where a half-close alone is not POLLHUP (Linux), a connection that was not
\* reset is closed only after all the peer sent has come back to it.
THEOREM SpecEchoComplete ==
  ASSUME ~HupOnFin
  PROVE  Spec => []EchoComplete
<1>1. Init => EchoComplete
  BY DEF Init, PeersInit, EchoComplete
<1>2. EchoComplete /\ SlotInv /\ DataInv /\ [Next]_vars => EchoComplete'
  BY NextEchoComplete
<1>3. QED
  BY <1>1, <1>2, SpecSlotInv, SpecDataInv, PTL DEF Spec

(***************************************************************************)
(* The refinement.  `up` of the service is the dispatch loop that has not  *)
(* cleaned up.  send() may take any part of a buffer: SlotEcho says that   *)
(* it is the next part of the peer's own stream.                           *)
(***************************************************************************)

\* Removing the slot of a failed or finished connection hangs up on its peer.
LEMMA RemoveRefines ==
  ASSUME ~HupOnFin, SlotInv, DataInv, HangUp \/ RecvEnds \/ SendFails
  PROVE  Service!Next
<1>1. /\ i < count /\ pc = "handle" /\ pc' = pc /\ phase' = [phase EXCEPT ![Sock] = "closed"]
      /\ UNCHANGED <<fin, rst, sent, echoed>>
  BY DEF HangUp, RecvEnds, SendFails, PollerRemoveAt, SysClose, Handling, Sock
<1>2. /\ SlotEcho(i) /\ SlotSnapshot(i) /\ Sock = connections[i].peer /\ Sock \in Conn
      /\ phase[Sock] = "open"
  BY <1>1, SlotFacts, SockIsPeer
<1>3. rst[Sock] \/ (fin[Sock] /\ Len(echoed[Sock]) = sent[Sock])
  <2>1. CASE RecvEnds /\ AtEof(Sock)
    <3>1. list[i].events = "IN"
      BY <1>2, <2>1 DEF RecvEnds, Handling, SlotSnapshot
    <3>2. echoed[Sock] = Stream(Sock, 0, sent[Sock]) /\ fin[Sock] /\ sent[Sock] \in Nat
      BY <1>2, <2>1, <3>1, PeersAssumption DEF SlotEcho, AtEof, SlotInv, TypeOK, PeersTypeOK
    <3>3. QED
      BY <1>2, <3>2, StreamFromStart
  <2>2. CASE ~(RecvEnds /\ AtEof(Sock))
    BY <1>1, <1>2, <2>2 DEF HangUp, RecvEnds, SendFails, SlotSnapshot, Failed
  <2>3. QED
    BY <2>1, <2>2
<1>4. (pc' # "done") = (pc # "done")
  BY <1>1
<1>5. Service!HangUp(Sock)
  BY <1>1, <1>2, <1>3, <1>4 DEF Service!HangUp
<1>6. QED
  BY <1>2, <1>5 DEF Service!Next

\* What send() takes of the buffer are the peer's next bytes.
LEMMA SendRefines ==
  ASSUME SlotInv, DataInv, Send
  PROVE  Service!Next
<1> DEFINE c == connections[i].peer
           b == connections[i].buf
<1>1. PICK n \in 1..BufSize : SendSome(n)
  BY DEF Send
<1>2. /\ pc = "handle" /\ pc' = pc /\ i < count /\ "OUT" \in list[i].revents
      /\ n \in 1..Len(b)
      /\ echoed' = [echoed EXCEPT ![Sock] = @ \o SubSeq(b, 1, n)]
      /\ UNCHANGED <<phase, fin, rst, sent>>
  BY <1>1 DEF SendSome, SysSend, Handling
<1>3. SlotEcho(i) /\ SlotSnapshot(i) /\ Sock = c /\ c \in Conn /\ phase[c] = "open" /\ i \in Slots
  BY <1>2, SlotFacts, SockIsPeer
<1>4. echoed[c] \o b = Stream(c, 0, taken[c])
  BY <1>2, <1>3 DEF SlotSnapshot, SlotEcho
<1>5. /\ echoed[c] \in ByteSeq /\ taken[c] \in Nat /\ taken[c] <= sent[c]
      /\ sent[c] \in 0..MaxSend /\ MaxSend \in Nat
  BY <1>3, PeersAssumption DEF SlotInv, DataInv, Untouched, TypeOK, PeersTypeOK, ByteSeq
<1>6. b \in ByteSeq
  BY <1>3 DEF SlotInv, TypeOK, Slots, Connection, ByteSeq
<1> HIDE DEF b, c
<1>7. /\ SubSeq(b, 1, n) = [k \in 1..n |-> <<c, Len(echoed[c]) + k>>]
      /\ Len(echoed[c]) + n <= taken[c]
  BY <1>2, <1>3, <1>4, <1>5, <1>6, FrontIsNext
<1>8. Len(echoed[c]) \in Nat /\ n \in Nat /\ 1 <= n
  BY <1>1, <1>5, PollerAssumption DEF ByteSeq
<1>9. Len(echoed[c]) + n <= sent[c] /\ n \in 1..MaxSend
  BY <1>5, <1>7, <1>8
<1>10. echoed' = [echoed EXCEPT ![c] = @ \o [k \in 1..n |-> <<c, Len(@) + k>>]]
  BY <1>2, <1>3, <1>7
<1>11. (pc' # "done") = (pc # "done")
  BY <1>2
<1>12. Service!Echo(c, n)
  BY <1>2, <1>3, <1>9, <1>10, <1>11 DEF Service!Echo
<1>13. QED
  BY <1>3, <1>9, <1>12 DEF Service!Next

\* What the peers do is what the service lets them do.
LEMMA PeersRefine ==
  ASSUME SlotInv, Peers
  PROVE  Service!Next
<1>1. PICK c \in Conn : PeerConnect(c) \/ PeerSend(c) \/ PeerShutdown(c) \/ PeerReset(c)
  BY DEF Peers, PeerNext
<1>2. (pc' # "done") = (pc # "done")
  BY DEF Peers, pollerVars
<1>3. CASE PeerConnect(c)
  <2>1. Service!Connect(c)
    BY <1>2, <1>3 DEF PeerConnect, Service!Connect
  <2>2. QED
    BY <2>1 DEF Service!Next
<1>4. CASE PeerSend(c)
  <2>1. Service!Send(c)
    BY <1>2, <1>4 DEF PeerSend, Alive, Service!Send
  <2>2. QED
    BY <2>1 DEF Service!Next
<1>5. CASE PeerShutdown(c)
  <2>1. Service!Shutdown(c)
    BY <1>2, <1>5 DEF PeerShutdown, Alive, Service!Shutdown
  <2>2. QED
    BY <2>1 DEF Service!Next
<1>6. CASE PeerReset(c)
  <2>1. phase' \in {phase, [phase EXCEPT ![c] = IF @ = "queued" THEN "closed" ELSE @]}
    BY <1>6 DEF PeerReset
  <2>2. Service!Reset(c)
    BY <1>2, <1>6, <2>1 DEF PeerReset, Alive, Service!Reset
  <2>3. QED
    BY <2>2 DEF Service!Next
<1>7. QED
  BY <1>1, <1>3, <1>4, <1>5, <1>6

\* Every step of the dispatch loop is a step of the service, or shows nothing of it.
LEMMA NextRefines ==
  ASSUME ~HupOnFin, SlotInv, DataInv, [Next]_vars
  PROVE  [Service!Next]_(Service!svcVars)
<1>1. CASE Poll \/ AcceptFails \/ SkipIdle \/ RecvData \/ EndPass \/ PollFails \/ UNCHANGED vars
  <2>1. UNCHANGED <<phase, fin, rst, sent, echoed>>
    BY <1>1 DEF Poll, PollWith, AcceptFails, SkipIdle, RecvData, SysRecv, EndPass, PollFails,
                vars, peerVars
  <2>2. (pc' # "done") = (pc # "done")
    BY <1>1 DEF Poll, PollWith, AcceptFails, SkipIdle, RecvData, Handling, EndPass, PollFails,
                vars, pollerVars
  <2>3. QED
    BY <2>1, <2>2 DEF Service!svcVars
<1>2. CASE Accept
  <2>1. PICK c \in Conn : SysAccept(c)
    BY <1>2 DEF Accept
  <2>2. phase[c] = "queued"
    BY <2>1, AcceptMove DEF SlotInv, TypeOK
  <2>3. pc # "done" /\ pc' # "done"
    BY <1>2 DEF Accept
  <2>4. Service!Accept(c)
    BY <2>1, <2>2, <2>3 DEF SysAccept, Service!Accept
  <2>5. QED
    BY <2>4 DEF Service!Next
<1>3. CASE HangUp \/ RecvEnds \/ SendFails
  BY <1>3, RemoveRefines
<1>4. CASE Send
  BY <1>4, SendRefines
<1>5. CASE Cleanup
  <2> DEFINE gone == {c \in Conn : phase[c] # "idle"}
  <2>1. /\ phase' = [c \in Conn |-> IF phase[c] = "idle" THEN "idle" ELSE "closed"]
        /\ UNCHANGED <<fin, rst, sent, echoed>> /\ pc' = "done"
    BY <1>5 DEF Cleanup, SysCloseAll
  <2>2. phase' = [c \in Conn |-> IF c \in gone THEN "closed" ELSE phase[c]]
    BY <2>1
  <2>3. gone \in SUBSET {c \in Conn : phase[c] # "idle"}
    OBVIOUS
  <2> HIDE DEF gone
  <2>4. Service!GoDown
    BY <2>1, <2>2, <2>3 DEF Service!GoDown
  <2>5. QED
    BY <2>4 DEF Service!Next
<1>6. CASE Peers
  BY <1>6, PeersRefine
<1>7. QED
  BY <1>1, <1>2, <1>3, <1>4, <1>5, <1>6 DEF Next, Server

\* Where a half-close alone is not POLLHUP (Linux), slots, buffers and
\* descriptors implement the echo service, whatever poll() reports in what order.
THEOREM SpecImplementsService ==
  ASSUME ~HupOnFin
  PROVE  Spec => ImplementsService
<1>1. Init => Service!Init
  <2> SUFFICES ASSUME Init PROVE Service!Init
    OBVIOUS
  <2>1. (pc # "done") = TRUE
    BY DEF Init
  <2>2. QED
    BY <2>1 DEF Init, PeersInit, Service!Init
<1>2. SlotInv /\ DataInv /\ [Next]_vars => [Service!Next]_(Service!svcVars)
  BY NextRefines
<1>3. QED
  BY <1>1, <1>2, SpecSlotInv, SpecDataInv, PTL DEF Spec, ImplementsService, Service!Spec
=============================================================================
