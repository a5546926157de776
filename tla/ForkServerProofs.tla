-------------------------- MODULE ForkServerProofs --------------------------
(***************************************************************************)
(* Theorems about ForkServer, for any peers and any limits: who holds      *)
(* which connection, that a peer sees its connection end, and that the     *)
(* processes, the signal and the descriptors implement EchoService.        *)
(***************************************************************************)
EXTENDS ForkServer, TcpPeersProofs

ForkTypes ==
  /\ PeersTypeOK
  /\ parent \in {"start", "accept", "fork", "close", "exited"}
  /\ fd2 \in Conn \cup {NoConn}
  /\ held \subseteq Conn
  /\ child \in [Conn -> {"none", "start", "recv", "send", "zombie", "gone"}]
  /\ inherited \in [Conn -> SUBSET Conn]
  /\ buf \in [Conn -> ByteSeq]

\* fd2 is in use from accept() to close(), by a connection the parent holds and
\* that no child has inherited; until fork() it has no child.
Fd2InUse ==
  /\ (fd2 # NoConn) <=> parent \in {"fork", "close"}
  /\ fd2 # NoConn =>
       /\ fd2 \in held
       /\ (parent = "fork") <=> (child[fd2] = "none")
       /\ \A d \in Conn : Running(d) => fd2 \notin inherited[d]
  /\ parent \in {"start", "exited"} => held = {}

\* Process d has connection c open.
HasOpen(d, c) == Running(d) /\ (c = d \/ c \in inherited[d])

\* A connection is open exactly as long as some process has it open.
OpenWhileHeld ==
  \A c \in Conn : (phase[c] = "open") <=> (c \in held \/ \E d \in Conn : HasOpen(d, c))

\* What else a process holds are connections for which fork() has failed: they
\* have no child, and the parent holds them as long as it lives.
Leftovers ==
  /\ \A c \in held : c # fd2 => child[c] = "none"
  /\ \A d \in Conn : Running(d) =>
       \A c \in inherited[d] : child[c] = "none" /\ (parent # "exited" => c \in held)
  /\ \A c \in Conn : child[c] # "none" => phase[c] \in {"open", "closed"}

\* What the child has received and not sent are the bytes that come next, and it
\* ends only when the peer is finished or gone.
ChildEchoes ==
  \A c \in Conn :
    /\ Len(echoed[c]) <= taken[c] /\ taken[c] <= sent[c]
    /\ child[c] \notin {"send", "zombie", "gone"} => Len(echoed[c]) = taken[c]
    /\ child[c] = "send" =>
         Len(echoed[c]) < taken[c] /\ buf[c] = Stream(c, Len(echoed[c]), taken[c])
    /\ child[c] \in {"zombie", "gone"} => rst[c] \/ (fin[c] /\ Len(echoed[c]) = sent[c])

ForkInv == ForkTypes /\ QueueOK /\ Fd2InUse /\ OpenWhileHeld /\ Leftovers /\ ChildEchoes

\* What OpenInChildren() means.
LEMMA OpenMeans ==
  ASSUME NEW except
  PROVE  \A c : c \in OpenInChildren(except) <=> \E d \in Conn \ except : HasOpen(d, c)
BY DEF OpenInChildren, HasOpen

\* Before the first connection there is nothing to hold.
LEMMA InitForkInv == Init => ForkInv
<1> SUFFICES ASSUME Init PROVE ForkInv
  OBVIOUS
<1> USE PeersAssumption, ForkAssumption
<1>1. ForkTypes
  BY DEF Init, PeersInit, ForkTypes, PeersTypeOK, Phase, ByteSeq
<1>2. QueueOK /\ Fd2InUse
  BY DEF Init, PeersInit, QueueOK, Fd2InUse
<1>3. OpenWhileHeld /\ Leftovers
  BY DEF Init, PeersInit, OpenWhileHeld, HasOpen, Leftovers, Running
<1>4. ChildEchoes
  <2>1. \A c \in Conn : echoed[c] = <<>> /\ taken[c] = 0 /\ sent[c] = 0 /\ child[c] = "none"
    BY DEF Init, PeersInit
  <2>2. \A c \in Conn : Len(echoed[c]) = 0
    BY <2>1
  <2>3. ASSUME NEW c \in Conn
        PROVE  /\ Len(echoed[c]) <= taken[c] /\ taken[c] <= sent[c]
               /\ Len(echoed[c]) = taken[c] /\ child[c] \notin {"send", "zombie", "gone"}
    <3>1. Len(echoed[c]) = 0 /\ taken[c] = 0 /\ sent[c] = 0
      BY <2>1, <2>2
    <3>2. Len(echoed[c]) <= taken[c] /\ taken[c] <= sent[c]
      BY <3>1
    <3>3. child[c] \notin {"send", "zombie", "gone"}
      BY <2>1
    <3>4. QED
      BY <3>1, <3>2, <3>3
  <2>4. QED
    BY <2>3, Zenon DEF ChildEchoes
<1>5. QED
  BY <1>1, <1>2, <1>3, <1>4 DEF ForkInv

\* The parent's calls that touch no connection, and the signal handler's moves.
LEMMA QuietForkInv ==
  ASSUME ForkInv, Listen \/ SetUpFails \/ ForkFails \/ Deliver \/ HandlerReturns \/ UNCHANGED vars
  PROVE  ForkInv'
<1> USE PeersAssumption, ForkAssumption
<1>1. UNCHANGED <<held, child, inherited, buf, peerVars>>
  BY DEF Listen, SetUpFails, ForkFails, Deliver, HandlerReturns, vars, procVars
<1>2. UNCHANGED <<phase, fin, rst, sent, taken, echoed, backlog>>
  BY <1>1 DEF peerVars
<1>3. \/ fd2' = fd2 /\ (parent' = parent \/ (parent = "start" /\ parent' \in {"accept", "exited"}))
      \/ parent = "fork" /\ parent' = "accept" /\ fd2' = NoConn
  BY DEF Listen, SetUpFails, ForkFails, InMain, Deliver, HandlerReturns, vars, procVars
<1>4. ForkTypes' /\ QueueOK'
  BY <1>1, <1>2, <1>3 DEF ForkInv, ForkTypes, PeersTypeOK, QueueOK
<1>5. Fd2InUse' /\ Leftovers'
  BY <1>1, <1>2, <1>3 DEF ForkInv, ForkTypes, Fd2InUse, Leftovers, Running
<1>6. OpenWhileHeld' /\ ChildEchoes'
  BY <1>1, <1>2 DEF ForkInv, OpenWhileHeld, HasOpen, ChildEchoes, Stream, Running
<1>7. QED
  BY <1>4, <1>5, <1>6 DEF ForkInv

\* The connection accept() returns had no process: it is only the parent's.
LEMMA AcceptForkInv ==
  ASSUME ForkInv, Accept
  PROVE  ForkInv'
<1> USE PeersAssumption, ForkAssumption
<1>1. PICK c \in Conn : SysAccept(c) /\ fd2' = c /\ held' = held \cup {c}
  BY DEF Accept
<1>2. /\ parent = "accept" /\ parent' = "fork" /\ UNCHANGED <<child, inherited, buf>>
      /\ phase' = [phase EXCEPT ![c] = "open"] /\ UNCHANGED <<fin, rst, sent, taken, echoed>>
  BY <1>1 DEF Accept, InMain, SysAccept
<1>3. PeersTypeOK' /\ QueueOK' /\ phase[c] = "queued" /\ phase \in [Conn -> Phase]
  BY <1>1, AcceptMove DEF ForkInv, ForkTypes, PeersTypeOK
<1>4. child[c] = "none" /\ c \notin held /\ ~ \E d \in Conn : HasOpen(d, c)
  BY <1>3 DEF ForkInv, Leftovers, OpenWhileHeld
<1>5. fd2 = NoConn
  BY <1>2 DEF ForkInv, Fd2InUse
<1>6. ForkTypes'
  BY <1>1, <1>2, <1>3 DEF ForkInv, ForkTypes
<1>7. Fd2InUse'
  BY <1>1, <1>2, <1>4 DEF Fd2InUse, HasOpen, Running
<1>8. OpenWhileHeld'
  BY <1>1, <1>2, <1>3 DEF ForkInv, OpenWhileHeld, HasOpen, Running
<1>9. Leftovers'
  BY <1>1, <1>2, <1>3, <1>4, <1>5 DEF ForkInv, ForkTypes, Leftovers, Running
<1>10. ChildEchoes'
  BY <1>2 DEF ForkInv, ChildEchoes, Stream
<1>11. QED
  BY <1>3, <1>6, <1>7, <1>8, <1>9, <1>10 DEF ForkInv

\* fork() gives the child the new connection and every other one the parent holds.
LEMMA ForkForkInv ==
  ASSUME ForkInv, Fork
  PROVE  ForkInv'
<1> USE PeersAssumption, ForkAssumption
<1>1. /\ parent = "fork" /\ parent' = "close"
      /\ child' = [child EXCEPT ![fd2] = "start"]
      /\ inherited' = [inherited EXCEPT ![fd2] = held \ {fd2}]
      /\ UNCHANGED <<fd2, held, buf, phase, fin, rst, sent, taken, echoed, backlog>>
  BY DEF Fork, InMain, peerVars
<1>2. /\ fd2 \in Conn /\ fd2 \in held /\ child[fd2] = "none"
      /\ \A d \in Conn : Running(d) => fd2 \notin inherited[d]
  BY <1>1 DEF ForkInv, ForkTypes, Fd2InUse
<1>3. /\ child \in [Conn -> {"none", "start", "recv", "send", "zombie", "gone"}]
      /\ inherited \in [Conn -> SUBSET Conn] /\ held \subseteq Conn
  BY DEF ForkInv, ForkTypes
<1>4. \A d \in Conn : /\ d # fd2 => child'[d] = child[d] /\ inherited'[d] = inherited[d]
                      /\ child'[fd2] = "start" /\ inherited'[fd2] = held \ {fd2}
  BY <1>1, <1>2, <1>3
<1>5. ForkTypes' /\ QueueOK'
  BY <1>1, <1>2, <1>3 DEF ForkInv, ForkTypes, PeersTypeOK, QueueOK
<1>6. Fd2InUse'
  BY <1>1, <1>2, <1>4 DEF Fd2InUse, Running
<1>7. \A c \in Conn : (c \in held \/ \E d \in Conn : HasOpen(d, c))
                        <=> (c \in held \/ \E d \in Conn : HasOpen(d, c)')
  BY <1>2, <1>4 DEF HasOpen, Running
<1>8. OpenWhileHeld'
  BY <1>1, <1>7 DEF ForkInv, OpenWhileHeld, HasOpen, Running
<1>9. Leftovers'
  <2>1. phase[fd2] = "open" /\ \A c \in held : c # fd2 => child[c] = "none"
    BY <1>2 DEF ForkInv, OpenWhileHeld, Leftovers
  <2>2. \A c \in Conn : child'[c] # "none" => phase[c] \in {"open", "closed"}
    BY <1>4, <2>1 DEF ForkInv, Leftovers
  <2>3. ASSUME NEW d \in Conn, Running(d)', NEW c \in inherited'[d]
        PROVE  child'[c] = "none" /\ c \in held
    BY <1>1, <1>2, <1>3, <1>4, <2>1, <2>3 DEF ForkInv, Leftovers, Running
  <2>4. QED
    BY <1>1, <1>2, <1>3, <1>4, <2>1, <2>2, <2>3 DEF Leftovers
<1>10. ChildEchoes'
  BY <1>1, <1>2, <1>4 DEF ForkInv, ChildEchoes, Stream
<1>11. QED
  BY <1>5, <1>6, <1>8, <1>9, <1>10 DEF ForkInv

\* close(fd2) in the parent: the connection lives on in its child, or ends with it.
LEMMA ParentCloseForkInv ==
  ASSUME ForkInv, ParentClose
  PROVE  ForkInv'
<1> USE PeersAssumption, ForkAssumption
<1>1. /\ parent = "close" /\ parent' = "accept" /\ fd2' = NoConn /\ held' = held \ {fd2}
      /\ SysRelease({fd2} \ OpenInChildren({}), FALSE)
      /\ UNCHANGED <<child, inherited, buf>>
  BY DEF ParentClose, InMain
<1>2. fd2 \in Conn /\ fd2 \in held /\ child[fd2] # "none"
  BY <1>1 DEF ForkInv, ForkTypes, Fd2InUse
<1>3. phase[fd2] = "open"
  BY <1>2 DEF ForkInv, OpenWhileHeld
<1>4. PeersTypeOK' /\ QueueOK'
  BY <1>1, <1>2, <1>3, ReleaseMove DEF ForkInv, ForkTypes
<1>5. /\ \A c \in Conn : phase'[c] = IF c = fd2 /\ ~ \E d \in Conn : HasOpen(d, c)
                                       THEN "closed" ELSE phase[c]
      /\ UNCHANGED <<fin, rst, sent, taken, echoed>>
  BY <1>1, OpenMeans DEF SysRelease
<1>6. ForkTypes'
  BY <1>1, <1>4 DEF ForkInv, ForkTypes
<1>7. Fd2InUse'
  BY <1>1 DEF Fd2InUse
<1>8. OpenWhileHeld'
  BY <1>1, <1>5 DEF ForkInv, OpenWhileHeld, HasOpen, Running
<1>9. Leftovers'
  <2>1. \A d \in Conn : Running(d) => \A c \in inherited[d] : child[c] = "none" /\ c \in held'
    BY <1>1, <1>2 DEF ForkInv, Leftovers
  <2>2. \A c \in held' : child[c] = "none"
    BY <1>1 DEF ForkInv, Leftovers
  <2>3. QED
    BY <1>1, <1>3, <1>5, <2>1, <2>2 DEF ForkInv, Leftovers, Running
<1>10. ChildEchoes'
  BY <1>1, <1>5 DEF ForkInv, ChildEchoes, Stream
<1>11. QED
  BY <1>4, <1>6, <1>7, <1>8, <1>9, <1>10 DEF ForkInv

\* The parent exits: what no child has open is closed.
LEMMA NameFailsForkInv ==
  ASSUME ForkInv, NameFails
  PROVE  ForkInv'
<1> USE PeersAssumption, ForkAssumption
<1> DEFINE gone == held \ OpenInChildren({})
           deaf == ~ListenerInChildren({})
<1>1. /\ parent' = "exited" /\ fd2' = NoConn /\ held' = {}
      /\ SysRelease(gone, deaf)
      /\ child' = [c \in Conn |-> IF child[c] = "zombie" THEN "gone" ELSE child[c]]
      /\ UNCHANGED <<inherited, buf>>
  BY DEF NameFails
<1>2. /\ \A c \in gone : c \in Conn /\ phase[c] = "open"
      /\ gone \in SUBSET Conn /\ deaf \in BOOLEAN
  BY DEF ForkInv, ForkTypes, OpenWhileHeld
<1>3. PeersTypeOK' /\ QueueOK'
  <2> HIDE DEF gone, deaf
  <2>1. QED
    BY <1>1, <1>2, ReleaseMove DEF ForkInv, ForkTypes
<1>4. /\ \A c \in Conn : phase'[c] = IF (c \in held /\ ~ \E d \in Conn : HasOpen(d, c))
                                        \/ (deaf /\ phase[c] = "queued")
                                       THEN "closed" ELSE phase[c]
      /\ UNCHANGED <<fin, rst, sent, taken, echoed>>
  BY <1>1, OpenMeans DEF SysRelease
<1>5. \A c \in Conn : child'[c] = IF child[c] = "zombie" THEN "gone" ELSE child[c]
  BY <1>1
<1>6. ForkTypes'
  BY <1>1, <1>3 DEF ForkInv, ForkTypes
<1>7. Fd2InUse'
  BY <1>1 DEF Fd2InUse
<1>8. \A d, c \in Conn : HasOpen(d, c)' <=> HasOpen(d, c)
  BY <1>1, <1>5 DEF HasOpen, Running
<1>9. OpenWhileHeld'
  BY <1>1, <1>4, <1>8 DEF ForkInv, OpenWhileHeld
<1>10. Leftovers'
  <2>1. \A c \in Conn : phase[c] \in {"open", "closed"} => phase'[c] \in {"open", "closed"}
    BY <1>4
  <2>2. \A d \in Conn : Running(d)' => Running(d) /\ inherited'[d] = inherited[d]
    BY <1>1, <1>5 DEF Running
  <2>3. \A c : c \in Conn /\ child[c] = "none" => child'[c] = "none"
    BY <1>5
  <2>4. \A d \in Conn : inherited[d] \subseteq Conn
    BY DEF ForkInv, ForkTypes
  <2>5. QED
    BY <1>1, <1>5, <2>1, <2>2, <2>3, <2>4 DEF ForkInv, Leftovers
<1>11. ChildEchoes'
  BY <1>1, <1>4, <1>5 DEF ForkInv, ChildEchoes, Stream
<1>12. QED
  BY <1>3, <1>6, <1>7, <1>9, <1>10, <1>11 DEF ForkInv

\* waitpid() changes what the parent knows of a child, not what the child has open.
LEMMA ReapForkInv ==
  ASSUME ForkInv, Reap
  PROVE  ForkInv'
<1> USE PeersAssumption, ForkAssumption
<1>1. PICK c \in Conn : child[c] = "zombie" /\ child' = [child EXCEPT ![c] = "gone"]
  BY DEF Reap
<1>2. UNCHANGED <<parent, fd2, held, inherited, buf, phase, fin, rst, sent, taken, echoed, backlog>>
  BY DEF Reap, peerVars
<1>3. child \in [Conn -> {"none", "start", "recv", "send", "zombie", "gone"}]
  BY DEF ForkInv, ForkTypes
<1>4. \A d \in Conn : child'[d] = IF d = c THEN "gone" ELSE child[d]
  BY <1>1, <1>3
<1>5. \A d \in Conn : /\ Running(d)' <=> Running(d)
                      /\ (child'[d] = "none") <=> (child[d] = "none")
                      /\ (child'[d] \in {"zombie", "gone"}) <=> (child[d] \in {"zombie", "gone"})
                      /\ (child'[d] = "send") <=> (child[d] = "send")
  BY <1>1, <1>4 DEF Running
<1>6. ForkTypes' /\ QueueOK'
  BY <1>1, <1>2, <1>3 DEF ForkInv, ForkTypes, PeersTypeOK, QueueOK
<1>7. Fd2InUse'
  BY <1>2, <1>5, <1>6 DEF ForkInv, Fd2InUse, ForkTypes
<1>8. OpenWhileHeld'
  BY <1>2, <1>5 DEF ForkInv, OpenWhileHeld, HasOpen
<1>9. Leftovers'
  <2>1. held \subseteq Conn /\ \A d \in Conn : inherited[d] \subseteq Conn
    BY DEF ForkInv, ForkTypes
  <2>2. QED
    BY <1>2, <1>5, <2>1 DEF ForkInv, Leftovers
<1>10. ChildEchoes'
  BY <1>1, <1>2, <1>4 DEF ForkInv, ChildEchoes, Stream
<1>11. QED
  BY <1>6, <1>7, <1>8, <1>9, <1>10 DEF ForkInv

\* The peers' own moves open and close nothing the server holds.
LEMMA PeersForkInv ==
  ASSUME ForkInv, Peers
  PROVE  ForkInv'
<1> USE PeersAssumption, ForkAssumption
<1>1. PeerNext /\ UNCHANGED <<parent, fd2, held, child, inherited, buf>>
  BY DEF Peers, PeerNext, procVars
<1>2. PeersTypeOK /\ QueueOK
  BY DEF ForkInv, ForkTypes
<1>3. /\ PeersTypeOK' /\ QueueOK'
      /\ UNCHANGED <<taken, echoed>>
      /\ \A d \in Conn : /\ (phase'[d] = "open") <=> (phase[d] = "open")
                         /\ phase[d] = "closed" => phase'[d] = "closed"
                         /\ fin[d] => fin'[d]
                         /\ rst[d] => rst'[d]
                         /\ sent[d] <= sent'[d]
                         /\ fin[d] => sent'[d] = sent[d]
  BY <1>1, <1>2, PeersMove
<1>4. ForkTypes' /\ Fd2InUse'
  BY <1>1, <1>3 DEF ForkInv, ForkTypes, Fd2InUse, Running
<1>5. OpenWhileHeld' /\ Leftovers'
  BY <1>1, <1>3 DEF ForkInv, OpenWhileHeld, HasOpen, Leftovers, Running
<1>6. ChildEchoes'
  <2> SUFFICES ASSUME NEW c \in Conn
               PROVE  /\ Len(echoed[c]) <= taken[c] /\ taken[c] <= sent'[c]
                      /\ child[c] \notin {"send", "zombie", "gone"} => Len(echoed[c]) = taken[c]
                      /\ child[c] = "send" =>
                           Len(echoed[c]) < taken[c] /\ buf[c] = Stream(c, Len(echoed[c]), taken[c])
                      /\ child[c] \in {"zombie", "gone"} => rst'[c] \/ (fin'[c] /\ Len(echoed[c]) = sent'[c])
    BY <1>1, <1>3 DEF ChildEchoes, Stream
  <2>1. taken[c] \in Nat /\ sent[c] \in Nat /\ sent'[c] \in Nat
    BY <1>2, <1>3 DEF PeersTypeOK
  <2>2. taken[c] <= sent'[c]
    BY <1>3, <2>1 DEF ForkInv, ChildEchoes
  <2>3. QED
    BY <1>3, <2>2 DEF ForkInv, ChildEchoes
<1>7. QED
  BY <1>3, <1>4, <1>5, <1>6 DEF ForkInv

-----------------------------------------------------------------------------
(* The children.                                                           *)

\* close(fd) in the child: with the parent gone it may be the last listener.
LEMMA ChildCloseListenerForkInv ==
  ASSUME ForkInv, NEW c \in Conn, ChildCloseListener(c)
  PROVE  ForkInv'
<1> USE PeersAssumption, ForkAssumption
<1> DEFINE deaf == parent = "exited" /\ ~ListenerInChildren({c})
<1>1. /\ child[c] = "start" /\ child' = [child EXCEPT ![c] = "recv"]
      /\ SysRelease({}, deaf)
      /\ UNCHANGED <<parent, fd2, held, inherited, buf>>
  BY DEF ChildCloseListener
<1>2. PeersTypeOK' /\ QueueOK'
  <2>1. deaf \in BOOLEAN
    OBVIOUS
  <2> HIDE DEF deaf
  <2>2. QED
    BY <1>1, <2>1, ReleaseMove DEF ForkInv, ForkTypes
<1>3. /\ \A d \in Conn : phase'[d] = IF deaf /\ phase[d] = "queued" THEN "closed" ELSE phase[d]
      /\ UNCHANGED <<fin, rst, sent, taken, echoed>>
  BY <1>1 DEF SysRelease
<1> HIDE DEF deaf
<1>4. \A d \in Conn : child'[d] = IF d = c THEN "recv" ELSE child[d]
  BY <1>1 DEF ForkInv, ForkTypes
<1>5. \A d \in Conn : /\ Running(d)' <=> Running(d)
                      /\ (child'[d] = "none") <=> (child[d] = "none")
  BY <1>1, <1>4 DEF Running
<1>6. ForkTypes'
  BY <1>1, <1>2 DEF ForkInv, ForkTypes
<1>7. Fd2InUse'
  BY <1>1, <1>5, <1>6 DEF ForkInv, Fd2InUse, ForkTypes
<1>8. OpenWhileHeld'
  BY <1>1, <1>3, <1>5 DEF ForkInv, OpenWhileHeld, HasOpen
<1>9. Leftovers'
  <2>1. held \subseteq Conn /\ \A d \in Conn : inherited[d] \subseteq Conn
    BY DEF ForkInv, ForkTypes
  <2>2. QED
    BY <1>1, <1>3, <1>5, <2>1 DEF ForkInv, Leftovers
<1>10. ChildEchoes'
  BY <1>1, <1>3, <1>4 DEF ForkInv, ChildEchoes, Stream
<1>11. QED
  BY <1>2, <1>6, <1>7, <1>8, <1>9, <1>10 DEF ForkInv

\* Moves of a child that closes nothing: the descriptors are as before.
LEMMA SameHoldings ==
  ASSUME ForkInv, NEW c \in Conn, PeersTypeOK', ByteSeq = ByteSeq',
         child[c] \in {"recv", "send"}, NEW to \in {"recv", "send"},
         child' = [child EXCEPT ![c] = to], buf' \in [Conn -> ByteSeq],
         UNCHANGED <<parent, fd2, held, inherited, phase, backlog>>
  PROVE  ForkTypes' /\ QueueOK' /\ Fd2InUse' /\ OpenWhileHeld' /\ Leftovers'
<1>1. \A d \in Conn : child'[d] = IF d = c THEN to ELSE child[d]
  BY DEF ForkInv, ForkTypes
<1>2. \A d \in Conn : /\ Running(d)' <=> Running(d)
                      /\ (child'[d] = "none") <=> (child[d] = "none")
  BY <1>1 DEF Running
<1>3. ForkTypes' /\ QueueOK'
  BY DEF ForkInv, ForkTypes, QueueOK
<1>4. Fd2InUse'
  BY <1>2, <1>3 DEF ForkInv, Fd2InUse, ForkTypes
<1>5. OpenWhileHeld'
  BY <1>2 DEF ForkInv, OpenWhileHeld, HasOpen
<1>6. Leftovers'
  <2>1. held \subseteq Conn /\ \A d \in Conn : inherited[d] \subseteq Conn
    BY DEF ForkInv, ForkTypes
  <2>2. QED
    BY <1>2, <2>1 DEF ForkInv, Leftovers
<1>7. QED
  BY <1>3, <1>4, <1>5, <1>6

\* recv() gives the child the bytes that come after those it has echoed.
LEMMA ChildRecvForkInv ==
  ASSUME ForkInv, NEW c \in Conn, ChildRecv(c)
  PROVE  ForkInv'
<1> USE PeersAssumption, ForkAssumption
<1>1. /\ child[c] = "recv" /\ child' = [child EXCEPT ![c] = "send"]
      /\ buf' = [buf EXCEPT ![c] = Stream(c, taken[c], taken'[c])]
      /\ UNCHANGED <<parent, fd2, held, inherited>>
  BY DEF ChildRecv
<1>2. /\ taken[c] < sent[c] /\ taken' = [taken EXCEPT ![c] = Received(c, BufSize)]
      /\ UNCHANGED <<phase, fin, rst, sent, echoed, backlog>>
  BY DEF ChildRecv, SysRecv
<1>3. /\ taken \in [Conn -> 0..MaxSend] /\ sent \in [Conn -> 0..MaxSend]
      /\ echoed \in [Conn -> ByteSeq] /\ buf \in [Conn -> ByteSeq]
  BY DEF ForkInv, ForkTypes, PeersTypeOK, ByteSeq
<1> DEFINE n == Received(c, BufSize)
<1>4. n \in 0..MaxSend /\ taken[c] < n /\ n <= sent[c] /\ n \in Nat /\ taken[c] \in Nat
  BY <1>2, <1>3 DEF Received
<1> HIDE DEF n
<1>5. taken'[c] = n /\ \A d \in Conn : d # c => taken'[d] = taken[d]
  BY <1>2, <1>3 DEF n
<1>6. PeersTypeOK'
  <2>1. taken' \in [Conn -> 0..MaxSend]
    BY <1>2, <1>3, <1>4 DEF n
  <2>2. QED
    BY <1>2, <2>1 DEF ForkInv, ForkTypes, PeersTypeOK
<1>7. Stream(c, taken[c], n) \in ByteSeq
  BY <1>4, StreamProperties
<1>8. buf' \in [Conn -> ByteSeq] /\ buf'[c] = Stream(c, taken[c], n)
      /\ \A d \in Conn : d # c => buf'[d] = buf[d]
  BY <1>1, <1>3, <1>5, <1>7
<1>9. ForkTypes' /\ QueueOK' /\ Fd2InUse' /\ OpenWhileHeld' /\ Leftovers'
  BY <1>1, <1>2, <1>6, <1>8, SameHoldings
<1>10. ChildEchoes'
  <2>1. \A d \in Conn : child'[d] = IF d = c THEN "send" ELSE child[d]
    BY <1>1 DEF ForkInv, ForkTypes
  <2>2. Len(echoed[c]) = taken[c]
    BY <1>1 DEF ForkInv, ChildEchoes
  <2>3. ASSUME NEW d \in Conn
        PROVE  /\ Len(echoed[d]) <= taken'[d] /\ taken'[d] <= sent[d]
               /\ child'[d] \notin {"send", "zombie", "gone"} => Len(echoed[d]) = taken'[d]
               /\ child'[d] = "send" =>
                    Len(echoed[d]) < taken'[d] /\ buf'[d] = Stream(d, Len(echoed[d]), taken'[d])
               /\ child'[d] \in {"zombie", "gone"} => rst[d] \/ (fin[d] /\ Len(echoed[d]) = sent[d])
    <3>1. CASE d = c
      BY <1>4, <1>5, <1>8, <2>1, <2>2, <3>1
    <3>2. CASE d # c
      BY <1>5, <1>8, <2>1, <3>2 DEF ForkInv, ChildEchoes
    <3>3. QED
      BY <3>1, <3>2
  <2>4. QED
    BY <1>2, <2>3 DEF ChildEchoes, Stream
<1>11. QED
  BY <1>9, <1>10 DEF ForkInv

\* send() echoes exactly what had been received.
LEMMA ChildSendForkInv ==
  ASSUME ForkInv, NEW c \in Conn, ChildSend(c)
  PROVE  ForkInv'
<1> USE PeersAssumption, ForkAssumption
<1>1. /\ child[c] = "send" /\ child' = [child EXCEPT ![c] = "recv"]
      /\ UNCHANGED <<parent, fd2, held, inherited, buf>>
  BY DEF ChildSend
<1>2. /\ echoed' = [echoed EXCEPT ![c] = @ \o buf[c]]
      /\ UNCHANGED <<phase, fin, rst, sent, taken, backlog>>
  BY DEF ChildSend, SysSend
<1>3. /\ taken \in [Conn -> 0..MaxSend] /\ sent \in [Conn -> 0..MaxSend]
      /\ echoed \in [Conn -> ByteSeq] /\ buf \in [Conn -> ByteSeq]
  BY DEF ForkInv, ForkTypes, PeersTypeOK, ByteSeq
<1>4. Len(echoed[c]) < taken[c] /\ buf[c] = Stream(c, Len(echoed[c]), taken[c])
  BY <1>1 DEF ForkInv, ChildEchoes
<1>5. Len(echoed[c]) \in Nat /\ taken[c] \in Nat /\ buf[c] \in ByteSeq /\ echoed[c] \in ByteSeq
  BY <1>3 DEF ByteSeq
<1>6. Len(buf[c]) = taken[c] - Len(echoed[c])
  <2> DEFINE m == Len(echoed[c])
             n == taken[c]
  <2>1. m \in Nat /\ n \in Nat /\ m <= n /\ buf[c] = Stream(c, m, n)
    BY <1>4, <1>5
  <2> HIDE DEF m, n
  <2>2. Len(buf[c]) = n - m
    BY <2>1, StreamProperties
  <2>3. QED
    BY <2>2 DEF m, n
<1>7. /\ echoed[c] \o buf[c] \in ByteSeq
      /\ Len(echoed[c] \o buf[c]) = Len(echoed[c]) + Len(buf[c])
  BY <1>5, ConcatProperties DEF ByteSeq
<1>8. Len(echoed[c] \o buf[c]) = taken[c]
  BY <1>5, <1>6, <1>7
<1>9. /\ echoed' \in [Conn -> ByteSeq] /\ echoed'[c] = echoed[c] \o buf[c]
      /\ \A d \in Conn : d # c => echoed'[d] = echoed[d]
  BY <1>2, <1>3, <1>7
<1>10. PeersTypeOK'
  BY <1>2, <1>9 DEF ForkInv, ForkTypes, PeersTypeOK, ByteSeq
<1>11. ForkTypes' /\ QueueOK' /\ Fd2InUse' /\ OpenWhileHeld' /\ Leftovers'
  BY <1>1, <1>2, <1>3, <1>10, SameHoldings
<1>12. ChildEchoes'
  <2>1. \A d \in Conn : child'[d] = IF d = c THEN "recv" ELSE child[d]
    BY <1>1 DEF ForkInv, ForkTypes
  <2>2. taken[c] <= sent[c]
    BY DEF ForkInv, ChildEchoes
  <2>3. ASSUME NEW d \in Conn
        PROVE  /\ Len(echoed'[d]) <= taken[d] /\ taken[d] <= sent[d]
               /\ child'[d] \notin {"send", "zombie", "gone"} => Len(echoed'[d]) = taken[d]
               /\ child'[d] = "send" =>
                    Len(echoed'[d]) < taken[d] /\ buf[d] = Stream(d, Len(echoed'[d]), taken[d])
               /\ child'[d] \in {"zombie", "gone"} => rst[d] \/ (fin[d] /\ Len(echoed'[d]) = sent[d])
    <3>1. CASE d = c
      <4>1. child'[d] = "recv" /\ Len(echoed'[d]) = taken[d] /\ taken[d] \in Nat
        BY <1>5, <1>8, <1>9, <2>1, <3>1
      <4>2. QED
        BY <2>2, <3>1, <4>1
    <3>2. CASE d # c
      BY <1>9, <2>1, <3>2 DEF ForkInv, ChildEchoes
    <3>3. QED
      BY <3>1, <3>2
  <2>4. QED
    BY <1>1, <1>2, <2>3 DEF ChildEchoes, Stream
<1>13. QED
  BY <1>11, <1>12 DEF ForkInv

\* The child closes its connection and all it inherited.
LEMMA ChildEndsForkInv ==
  ASSUME ForkInv, NEW c \in Conn, ChildEnds(c)
  PROVE  ForkInv'
<1> USE PeersAssumption, ForkAssumption
<1> DEFINE gone == (inherited[c] \cup {c}) \ (held \cup OpenInChildren({c}))
           end == IF parent = "exited" THEN "gone" ELSE "zombie"
<1>1. /\ child[c] \in {"recv", "send"}
      /\ rst[c] \/ (child[c] = "recv" /\ fin[c] /\ taken[c] = sent[c])
      /\ child' = [child EXCEPT ![c] = end]
      /\ SysRelease(gone, FALSE)
      /\ UNCHANGED <<parent, fd2, held, inherited, buf>>
  BY DEF ChildEnds, AtEof
<1>2. Running(c) /\ gone \in SUBSET Conn /\ \A d \in gone : HasOpen(c, d)
  BY <1>1 DEF Running, HasOpen, ForkInv, ForkTypes
<1>3. \A d \in gone : phase[d] = "open"
  BY <1>2 DEF ForkInv, OpenWhileHeld
<1>4. PeersTypeOK' /\ QueueOK'
  <2> HIDE DEF gone
  <2>1. QED
    BY <1>1, <1>2, <1>3, ReleaseMove DEF ForkInv, ForkTypes
<1>5. /\ \A d \in Conn : phase'[d] = IF d \in gone THEN "closed" ELSE phase[d]
      /\ UNCHANGED <<fin, rst, sent, taken, echoed>>
  BY <1>1 DEF SysRelease
<1>6. \A d \in Conn : child'[d] = IF d = c THEN end ELSE child[d]
  BY <1>1 DEF ForkInv, ForkTypes
<1>7. /\ ~Running(c)' /\ \A d \in Conn \ {c} : Running(d)' <=> Running(d)
      /\ \A d \in Conn : (child'[d] = "none") <=> (child[d] = "none")
  BY <1>1, <1>6 DEF Running
<1>8. ForkTypes'
  BY <1>1, <1>4 DEF ForkInv, ForkTypes
<1>9. Fd2InUse'
  BY <1>1, <1>7, <1>8 DEF ForkInv, Fd2InUse, ForkTypes
<1>10. OpenWhileHeld'
  <2> SUFFICES ASSUME NEW d \in Conn
               PROVE  (phase'[d] = "open") <=> (d \in held \/ \E e \in Conn : HasOpen(e, d)')
    BY <1>1 DEF OpenWhileHeld
  <2>1. d \in gone <=> /\ d = c \/ d \in inherited[c]
                       /\ d \notin held
                       /\ ~ \E e \in Conn \ {c} : HasOpen(e, d)
    BY OpenMeans
  <2>2. (\E e \in Conn : HasOpen(e, d)') <=> \E e \in Conn \ {c} : HasOpen(e, d)
    BY <1>1, <1>7 DEF HasOpen
  <2>3. (phase[d] = "open") <=> (d \in held \/ \E e \in Conn : HasOpen(e, d))
    BY DEF ForkInv, OpenWhileHeld
  <2>4. HasOpen(c, d) <=> d = c \/ d \in inherited[c]
    BY <1>2 DEF HasOpen
  <2> HIDE DEF gone
  <2>5. QED
    BY <1>5, <2>1, <2>2, <2>3, <2>4
<1>11. Leftovers'
  <2>1. held \subseteq Conn /\ \A d \in Conn : inherited[d] \subseteq Conn
    BY DEF ForkInv, ForkTypes
  <2>2. \A d \in Conn : Running(d)' => Running(d)
    BY <1>7
  <2>3. \A d \in Conn : phase[d] \in {"open", "closed"} => phase'[d] \in {"open", "closed"}
    BY <1>5
  <2>4. QED
    BY <1>1, <1>7, <2>1, <2>2, <2>3 DEF ForkInv, Leftovers
<1>12. ChildEchoes'
  <2>1. child[c] = "recv" => Len(echoed[c]) = taken[c]
    BY DEF ForkInv, ChildEchoes
  <2>2. rst[c] \/ (fin[c] /\ Len(echoed[c]) = sent[c])
    BY <1>1, <2>1
  <2>3. QED
    BY <1>1, <1>5, <1>6, <2>2 DEF ForkInv, ChildEchoes, Stream
<1>13. QED
  BY <1>4, <1>8, <1>9, <1>10, <1>11, <1>12 DEF ForkInv

-----------------------------------------------------------------------------
\* Every step keeps the invariant.
LEMMA NextForkInv == ForkInv /\ [Next]_vars => ForkInv'
<1> SUFFICES ASSUME ForkInv, [Next]_vars PROVE ForkInv'
  OBVIOUS
<1>1. CASE Listen \/ SetUpFails \/ ForkFails \/ Deliver \/ HandlerReturns \/ UNCHANGED vars
  BY <1>1, QuietForkInv
<1>2. CASE Accept
  BY <1>2, AcceptForkInv
<1>3. CASE NameFails
  BY <1>3, NameFailsForkInv
<1>4. CASE Fork
  BY <1>4, ForkForkInv
<1>5. CASE ParentClose
  BY <1>5, ParentCloseForkInv
<1>6. CASE Reap
  BY <1>6, ReapForkInv
<1>7. CASE \E c \in Conn : Child(c)
  BY <1>7, ChildCloseListenerForkInv, ChildRecvForkInv, ChildSendForkInv, ChildEndsForkInv DEF Child
<1>8. CASE Peers
  BY <1>8, PeersForkInv
<1>9. QED
  BY <1>1, <1>2, <1>3, <1>4, <1>5, <1>6, <1>7, <1>8 DEF Next, Parent, Handler

\* Who holds what, and what each child has echoed, at every moment of every run
\* (the inductive invariant behind the two theorems that follow).
THEOREM SpecForkInv == Spec => []ForkInv
<1>1. Init => ForkInv
  BY InitForkInv
<1>2. ForkInv /\ [Next]_vars => ForkInv'
  BY NextForkInv
<1>3. QED
  BY <1>1, <1>2, PTL DEF Spec

\* When a child has ended, no process but a parent about to close it has its
\* connection open, so the peer has seen it end (tcp-srv-fork.c:154-202).
THEOREM SpecPeerSeesTheEnd == Spec => []PeerSeesTheEnd
<1>1. ForkInv => PeerSeesTheEnd
  <2> SUFFICES ASSUME ForkInv, NEW c \in Conn, child[c] \in {"zombie", "gone"}, fd2 # c
               PROVE  phase[c] = "closed"
    BY DEF PeerSeesTheEnd
  <2>1. phase[c] \in {"open", "closed"} /\ c \notin held
    BY DEF ForkInv, Leftovers
  <2>2. ~ \E d \in Conn : HasOpen(d, c)
    BY DEF ForkInv, Leftovers, HasOpen, Running
  <2>3. QED
    BY <2>1, <2>2 DEF ForkInv, OpenWhileHeld
<1>2. QED
  BY <1>1, SpecForkInv, PTL

(***************************************************************************)
(* The refinement.  `up` of the service is the parent that has not exited. *)
(* A connection is hung up by whoever closes it last: the child, or the    *)
(* parent whose child was faster.                                          *)
(***************************************************************************)
SameUp == (parent' # "exited") <=> (parent # "exited")

\* Nothing the service shows has changed.
LEMMA Stutter ==
  ASSUME UNCHANGED <<phase, fin, rst, sent, echoed>>, SameUp
  PROVE  [Service!Next]_(Service!svcVars)
<1>1. (parent' # "exited") = (parent # "exited")
  BY DEF SameUp
<1>2. QED
  BY <1>1 DEF Service!svcVars

\* With the parent gone, whoever closes connections is the service going down.
LEMMA Down ==
  ASSUME ForkInv, NEW gone \in SUBSET Conn, NEW deaf \in BOOLEAN,
         \A c \in gone : phase[c] # "idle", SysRelease(gone, deaf), parent' = "exited"
  PROVE  Service!Next
<1> DEFINE all == {c \in Conn : c \in gone \/ (deaf /\ phase[c] = "queued")}
<1>1. /\ phase' = [c \in Conn |-> IF c \in gone \/ (deaf /\ phase[c] = "queued")
                                    THEN "closed" ELSE phase[c]]
      /\ UNCHANGED <<fin, rst, sent, echoed>>
  BY DEF SysRelease
<1>2. phase' = [c \in Conn |-> IF c \in all THEN "closed" ELSE phase[c]]
  BY <1>1
<1>3. all \in SUBSET {c \in Conn : phase[c] # "idle"}
  OBVIOUS
<1> HIDE DEF all
<1>4. Service!GoDown
  BY <1>1, <1>2, <1>3 DEF Service!GoDown
<1>5. QED
  BY <1>4 DEF Service!Next

\* One connection is closed, whose peer is finished or gone.
LEMMA HangUpOne ==
  ASSUME ForkInv, NEW c \in Conn, phase[c] = "open",
         rst[c] \/ (fin[c] /\ Len(echoed[c]) = sent[c]),
         SysRelease({c}, FALSE), parent' = parent
  PROVE  Service!Next
<1>1. /\ phase \in [Conn -> Phase]
      /\ phase' = [d \in Conn |-> IF d \in {c} \/ (FALSE /\ phase[d] = "queued")
                                    THEN "closed" ELSE phase[d]]
      /\ UNCHANGED <<fin, rst, sent, echoed>>
  BY DEF SysRelease, ForkInv, ForkTypes, PeersTypeOK
<1>2. phase' = [phase EXCEPT ![c] = "closed"]
  BY <1>1
<1>3. (parent' # "exited") = (parent # "exited")
  OBVIOUS
<1>4. Service!HangUp(c)
  BY <1>1, <1>2, <1>3 DEF Service!HangUp
<1>5. QED
  BY <1>4 DEF Service!Next

\* No connection is closed.
LEMMA ReleaseNone ==
  ASSUME ForkInv, SysRelease({}, FALSE), parent' = parent
  PROVE  [Service!Next]_(Service!svcVars)
<1>1. /\ phase \in [Conn -> Phase]
      /\ phase' = [d \in Conn |-> IF d \in {} \/ (FALSE /\ phase[d] = "queued")
                                    THEN "closed" ELSE phase[d]]
      /\ UNCHANGED <<fin, rst, sent, echoed>>
  BY DEF SysRelease, ForkInv, ForkTypes, PeersTypeOK
<1>2. phase' = phase
  BY <1>1
<1>3. QED
  BY <1>1, <1>2, Stutter DEF SameUp

\* What the peers do is what the service lets them do.
LEMMA PeersRefine ==
  ASSUME ForkInv, Peers
  PROVE  Service!Next
<1>1. PICK c \in Conn : PeerConnect(c) \/ PeerSend(c) \/ PeerShutdown(c) \/ PeerReset(c)
  BY DEF Peers
<1>2. (parent' # "exited") = (parent # "exited")
  BY DEF Peers, procVars
<1>3. CASE PeerConnect(c)
  <2>1. Service!Connect(c)
    BY <1>2, <1>3 DEF PeerConnect, Service!Connect
  <2>2. QED
    BY <2>1 DEF Service!Next
<1>4. CASE PeerSend(c)
  <2>1. Service!Send(c)
    BY <1>2, <1>4 DEF PeerSend, Alive, Service!Send
  <2>2. QED
    BY <2>1 DEF Service!Next
<1>5. CASE PeerShutdown(c)
  <2>1. Service!Shutdown(c)
    BY <1>2, <1>5 DEF PeerShutdown, Alive, Service!Shutdown
  <2>2. QED
    BY <2>1 DEF Service!Next
<1>6. CASE PeerReset(c)
  <2>1. phase' \in {phase, [phase EXCEPT ![c] = IF @ = "queued" THEN "closed" ELSE @]}
    BY <1>6 DEF PeerReset
  <2>2. Service!Reset(c)
    BY <1>2, <1>6, <2>1 DEF PeerReset, Alive, Service!Reset
  <2>3. QED
    BY <2>2 DEF Service!Next
<1>7. QED
  BY <1>1, <1>3, <1>4, <1>5, <1>6

LEMMA AcceptRefines ==
  ASSUME ForkInv, Accept
  PROVE  Service!Next
<1>1. PICK c \in Conn : SysAccept(c)
  BY DEF Accept
<1>2. phase[c] = "queued"
  BY <1>1, AcceptMove DEF ForkInv, ForkTypes
<1>3. parent # "exited" /\ parent' # "exited"
  BY DEF Accept, InMain
<1>4. Service!Accept(c)
  BY <1>1, <1>2, <1>3 DEF SysAccept, Service!Accept
<1>5. QED
  BY <1>4 DEF Service!Next

\* The parent closes last when the child has already ended.
LEMMA ParentCloseRefines ==
  ASSUME ForkInv, ParentClose
  PROVE  [Service!Next]_(Service!svcVars)
<1>1. /\ parent = "close" /\ parent' = "accept"
      /\ SysRelease({fd2} \ OpenInChildren({}), FALSE)
  BY DEF ParentClose, InMain
<1>2. fd2 \in Conn /\ fd2 \in held /\ child[fd2] # "none"
  BY <1>1 DEF ForkInv, ForkTypes, Fd2InUse
<1>3. CASE fd2 \in OpenInChildren({})
  <2>1. SysRelease({}, FALSE)
    <3>1. {fd2} \ OpenInChildren({}) = {}
      BY <1>3
    <3>2. QED
      BY <1>1, <3>1
  <2>2. phase' = phase /\ UNCHANGED <<fin, rst, sent, echoed>>
    BY <2>1 DEF SysRelease, ForkInv, ForkTypes, PeersTypeOK
  <2>3. QED
    BY <1>1, <2>2, Stutter DEF SameUp
<1>4. CASE fd2 \notin OpenInChildren({})
  <2>1. ~HasOpen(fd2, fd2)
    BY <1>2, <1>4, OpenMeans
  <2>2. child[fd2] \in {"zombie", "gone"}
    BY <1>2, <2>1 DEF HasOpen, Running, ForkInv, ForkTypes
  <2>3. phase[fd2] = "open" /\ (rst[fd2] \/ (fin[fd2] /\ Len(echoed[fd2]) = sent[fd2]))
    BY <1>2, <2>2 DEF ForkInv, OpenWhileHeld, ChildEchoes
  <2>4. phase' = [phase EXCEPT ![fd2] = "closed"] /\ UNCHANGED <<fin, rst, sent, echoed>>
    BY <1>1, <1>2, <1>4 DEF SysRelease, ForkInv, ForkTypes, PeersTypeOK
  <2>5. (parent' # "exited") = (parent # "exited")
    BY <1>1
  <2>6. Service!HangUp(fd2)
    BY <2>3, <2>4, <2>5 DEF Service!HangUp
  <2>7. QED
    BY <1>2, <2>6 DEF Service!Next
<1>5. QED
  BY <1>3, <1>4

\* The child's send() is an echo of the bytes that come next.
LEMMA ChildSendRefines ==
  ASSUME ForkInv, NEW c \in Conn, ChildSend(c)
  PROVE  Service!Next
<1> DEFINE m == Len(echoed[c])
           n == taken[c] - m
<1>1. child[c] = "send" /\ parent' = parent
  BY DEF ChildSend
<1>2. /\ echoed' = [echoed EXCEPT ![c] = @ \o buf[c]]
      /\ UNCHANGED <<phase, fin, rst, sent>>
  BY DEF ChildSend, SysSend
<1>3. m < taken[c] /\ taken[c] <= sent[c] /\ buf[c] = Stream(c, m, taken[c])
  BY <1>1 DEF ForkInv, ChildEchoes
<1>4. /\ m \in Nat /\ taken[c] \in 0..MaxSend /\ sent[c] \in 0..MaxSend /\ MaxSend \in Nat
  BY PeersAssumption DEF ForkInv, ForkTypes, PeersTypeOK
<1>5. buf[c] = [k \in 1..n |-> <<c, m + k>>]
  BY <1>3 DEF Stream
<1>6. phase[c] = "open"
  BY <1>1 DEF ForkInv, OpenWhileHeld, HasOpen, Running
<1>7. n \in 1..MaxSend /\ m + n <= sent[c]
  <2> HIDE DEF m
  <2>1. QED
    BY <1>3, <1>4
<1>8. (parent' # "exited") = (parent # "exited")
  BY <1>1
<1>9. Service!Echo(c, n)
  <2>1. echoed' = [echoed EXCEPT ![c] = @ \o [k \in 1..n |-> <<c, Len(@) + k>>]]
    BY <1>2, <1>5
  <2>2. Len(echoed[c]) + n <= sent[c]
    BY <1>7
  <2> HIDE DEF n, m
  <2>3. QED
    BY <1>2, <1>6, <1>8, <2>1, <2>2 DEF Service!Echo
<1>10. QED
  BY <1>7, <1>9 DEF Service!Next

\* The child closes last, unless the parent has not come to close(fd2); what
\* else it closes had been left to it by a parent that has exited.
LEMMA ChildEndsRefines ==
  ASSUME ForkInv, NEW c \in Conn, ChildEnds(c)
  PROVE  [Service!Next]_(Service!svcVars)
<1> DEFINE gone == (inherited[c] \cup {c}) \ (held \cup OpenInChildren({c}))
<1>1. /\ child[c] \in {"recv", "send"}
      /\ rst[c] \/ (child[c] = "recv" /\ fin[c] /\ taken[c] = sent[c])
      /\ SysRelease(gone, FALSE)
      /\ parent' = parent
  BY DEF ChildEnds, AtEof
<1>2. Running(c) /\ gone \in SUBSET Conn /\ \A d \in gone : HasOpen(c, d)
  BY <1>1 DEF Running, HasOpen, ForkInv, ForkTypes
<1>3. \A d \in gone : phase[d] = "open"
  BY <1>2 DEF ForkInv, OpenWhileHeld
<1>4. CASE parent = "exited"
  <2> HIDE DEF gone
  <2>1. Service!Next
    BY <1>1, <1>2, <1>3, <1>4, Down
  <2>2. QED
    BY <2>1
<1>5. CASE parent # "exited"
  <2>1. inherited[c] \subseteq held
    BY <1>2, <1>5 DEF ForkInv, ForkTypes, Leftovers
  <2>2. gone = {} \/ gone = {c}
    BY <2>1
  <2>3. CASE gone = {}
    BY <1>1, <2>3, ReleaseNone
  <2>4. CASE gone = {c}
    <3>1. child[c] = "recv" => Len(echoed[c]) = taken[c]
      BY DEF ForkInv, ChildEchoes
    <3>2. phase[c] = "open" /\ (rst[c] \/ (fin[c] /\ Len(echoed[c]) = sent[c]))
      BY <1>1, <1>3, <2>4, <3>1
    <3>3. SysRelease({c}, FALSE)
      BY <1>1, <2>4
    <3>4. Service!Next
      BY <1>1, <3>2, <3>3, HangUpOne
    <3>5. QED
      BY <3>4
  <2>5. QED
    BY <2>2, <2>3, <2>4
<1>6. QED
  BY <1>4, <1>5

\* Every step of the processes is a step of the service, or shows nothing of it.
LEMMA NextRefines == ForkInv /\ [Next]_vars => [Service!Next]_(Service!svcVars)
<1> SUFFICES ASSUME ForkInv, [Next]_vars PROVE [Service!Next]_(Service!svcVars)
  OBVIOUS
<1>1. CASE Listen \/ ForkFails \/ Deliver \/ HandlerReturns \/ Reap \/ Fork \/ UNCHANGED vars
  <2>1. UNCHANGED <<phase, fin, rst, sent, echoed>>
    BY <1>1 DEF Listen, ForkFails, Deliver, HandlerReturns, Reap, Fork, vars, peerVars
  <2>2. SameUp
    BY <1>1 DEF Listen, ForkFails, Deliver, HandlerReturns, Reap, Fork, vars, procVars, InMain, SameUp
  <2>3. QED
    BY <2>1, <2>2, Stutter
<1>2. CASE SetUpFails
  <2>1. UNCHANGED <<phase, fin, rst, sent, taken, echoed, backlog>> /\ parent' = "exited"
    BY <1>2 DEF SetUpFails, peerVars
  <2>2. SysRelease({}, FALSE)
    BY <2>1 DEF SysRelease, ForkInv, ForkTypes, PeersTypeOK
  <2>3. Service!Next
    BY <2>1, <2>2, Down
  <2>4. QED
    BY <2>3
<1>3. CASE Accept
  BY <1>3, AcceptRefines
<1>4. CASE NameFails
  <2> DEFINE gone == held \ OpenInChildren({})
             deaf == ~ListenerInChildren({})
  <2>1. /\ \A c \in gone : c \in Conn /\ phase[c] = "open"
        /\ gone \in SUBSET Conn /\ deaf \in BOOLEAN
    BY DEF ForkInv, ForkTypes, OpenWhileHeld
  <2>2. SysRelease(gone, deaf) /\ parent' = "exited"
    BY <1>4 DEF NameFails
  <2> HIDE DEF gone, deaf
  <2>3. Service!Next
    BY <2>1, <2>2, Down
  <2>4. QED
    BY <2>3
<1>5. CASE ParentClose
  BY <1>5, ParentCloseRefines
<1>6. ASSUME NEW c \in Conn, Child(c)
      PROVE  [Service!Next]_(Service!svcVars)
  <2>1. CASE ChildCloseListener(c)
    <3> DEFINE deaf == parent = "exited" /\ ~ListenerInChildren({c})
    <3>1. SysRelease({}, deaf) /\ parent' = parent /\ deaf \in BOOLEAN
      BY <2>1 DEF ChildCloseListener
    <3>2. deaf => parent = "exited"
      OBVIOUS
    <3> HIDE DEF deaf
    <3>3. CASE deaf
      <4>1. Service!Next
        BY <3>1, <3>2, <3>3, Down
      <4>2. QED
        BY <4>1
    <3>4. CASE ~deaf
      <4>1. SysRelease({}, FALSE)
        <5>1. deaf = FALSE
          BY <3>1, <3>4
        <5>2. QED
          BY <3>1, <5>1
      <4>2. QED
        BY <3>1, <4>1, ReleaseNone
    <3>5. QED
      BY <3>3, <3>4
  <2>2. CASE ChildRecv(c)
    BY <2>2, Stutter DEF ChildRecv, SysRecv, SameUp
  <2>3. CASE ChildSend(c)
    BY <2>3, ChildSendRefines
  <2>4. CASE ChildEnds(c)
    BY <2>4, ChildEndsRefines
  <2>5. QED
    BY <1>6, <2>1, <2>2, <2>3, <2>4 DEF Child
<1>7. CASE Peers
  BY <1>7, PeersRefine
<1>8. QED
  BY <1>1, <1>2, <1>3, <1>4, <1>5, <1>6, <1>7 DEF Next, Parent, Handler

\* Processes, signal and descriptors implement the echo service, whatever the
\* order in which parent, children, handler and peers move.
THEOREM SpecImplementsService == Spec => ImplementsService
<1>1. Init => Service!Init
  <2> SUFFICES ASSUME Init PROVE Service!Init
    OBVIOUS
  <2>1. (parent # "exited") = TRUE
    BY DEF Init
  <2>2. QED
    BY <2>1 DEF Init, PeersInit, Service!Init
<1>2. QED
  BY <1>1, NextRefines, SpecForkInv, PTL DEF Spec, ImplementsService, Service!Spec
=============================================================================
