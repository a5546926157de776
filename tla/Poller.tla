------------------------------- MODULE Poller -------------------------------
(***************************************************************************)
(* tcp-srv-poll.c: an echo server on one thread.  It keeps two parallel    *)
(* arrays, `list` for poll() and `connections` for the data waiting to be  *)
(* echoed; slot 0 is the listening socket.  Each pass of the dispatch loop *)
(* polls, accepts at most one connection and then handles the other slots  *)
(* in turn.  A slot that is removed is refilled with the last one.         *)
(*                                                                         *)
(* The peers and the kernel move between any two system calls.  revents is *)
(* a snapshot taken by poll(): by the time a slot is handled its socket    *)
(* may have more data, may have been shut down or reset.                   *)
(***************************************************************************)
EXTENDS TcpPeers, Integers

CONSTANTS
  MaxFd,     \* RLIMIT_NOFILE: descriptors 1 .. MaxFd may be open
  BufSize,   \* sizeof(buf) of struct connection_t
  HupOnFin,  \* does poll() report POLLHUP as soon as the peer has shut down?
  NoFile,    \* the descriptor is not open
  Listener   \* the descriptor is the listening socket

ASSUME PollerAssumption ==
  /\ MaxFd \in Nat \ {0}
  /\ BufSize \in Nat \ {0}
  /\ HupOnFin \in BOOLEAN
  /\ NoFile \notin Conn
  /\ Listener \notin Conn
  /\ NoFile # Listener

VARIABLES
  list,         \* struct pollfd[]: 0 .. count-1 -> [fd, events, revents]
  connections,  \* struct connection_t[]: 1 .. count-1 -> [peer, buf], len is Len(buf)
  count, max,   \* entries in use and entries allocated
  i,            \* main()'s loop index
  fd,           \* main()'s fd: the last descriptor accept() returned
  pc,           \* where main() is
  file          \* the process's descriptor table, kept by the kernel

pollerVars == <<list, connections, count, max, i, fd, pc, file>>
vars == <<pollerVars, peerVars>>

Fd == 1..MaxFd
ListenFd == 1
Event == {"IN", "OUT", "HUP", "ERR"}
Label == {"poll", "accept", "handle", "cleanup", "done"}

Entry == [fd : Fd, events : {"IN", "OUT"}, revents : SUBSET Event]
Connection == [peer : Conn, buf : Seq(Conn \X Nat)]

TypeOK ==
  /\ PeersTypeOK
  /\ count \in Nat
  /\ max \in Nat
  /\ list \in [0..(count - 1) -> Entry]
  /\ connections \in [1..(count - 1) -> Connection]
  /\ i \in Nat \ {0}
  /\ fd \in Fd \cup {-1}
  /\ pc \in Label
  /\ file \in [Fd -> Conn \cup {NoFile, Listener}]

\* The state poller_create() leaves when the socket is listening.
Init ==
  /\ PeersInit
  /\ list = [k \in {0} |-> [fd |-> ListenFd, events |-> "IN", revents |-> {}]]
  /\ connections = [k \in {} |-> [peer |-> NoFile, buf |-> <<>>]]
  /\ count = 1
  /\ max = 2
  /\ i = 1
  /\ fd = -1
  /\ pc = "poll"
  /\ file = [f \in Fd |-> IF f = ListenFd THEN Listener ELSE NoFile]

-----------------------------------------------------------------------------
(* The poller's operations.                                                *)

\* poller_add(): a new last entry; the arrays grow by one when they are full.
PollerAdd(f, c) ==
  /\ list' = [k \in 0..count |->
                IF k = count THEN [fd |-> f, events |-> "IN", revents |-> {}] ELSE list[k]]
  /\ connections' = [k \in 1..count |->
                       IF k = count THEN [peer |-> c, buf |-> <<>>] ELSE connections[k]]
  /\ count' = count + 1
  /\ max' = IF count + 1 >= max THEN max + 1 ELSE max

\* What every mutation of poller_remove_at() below has in common: what it
\* moves from the last slot to slot s, and which slot's descriptor it closes.
RemoveAs(s, entry, connection, closed) ==
  /\ list' = [k \in 0..(count - 2) |-> IF k = s THEN entry ELSE list[k]]
  /\ connections' = [k \in 1..(count - 2) |-> IF k = s THEN connection ELSE connections[k]]
  /\ count' = count - 1
  /\ UNCHANGED max
  /\ IF closed \in Nat
       THEN /\ file' = [file EXCEPT ![list[closed].fd] = NoFile]
            /\ SysClose(file[list[closed].fd])
       ELSE UNCHANGED <<file, peerVars>>

\* Mutation: only list[] is moved, connections[] keeps the removed entry.
RemoveListOnly(s) == RemoveAs(s, list[count - 1], connections[s], s)

\* Mutation: the descriptor is not closed.
RemoveUnclosed(s) == RemoveAs(s, list[count - 1], connections[count - 1], -1)

\* Mutation: fd and events are moved, revents stays that of the removed entry.
RemoveStaleRevents(s) ==
  RemoveAs(s, [list[count - 1] EXCEPT !.revents = list[s].revents], connections[count - 1], s)

\* poller_remove_at(): close the descriptor, move the last entry into the hole.
PollerRemoveAt(s) ==
  /\ list' = [k \in 0..(count - 2) |-> IF k = s THEN list[count - 1] ELSE list[k]]
  /\ connections' = [k \in 1..(count - 2) |->
                       IF k = s THEN connections[count - 1] ELSE connections[k]]
  /\ count' = count - 1
  /\ file' = [file EXCEPT ![list[s].fd] = NoFile]
  /\ SysClose(file[list[s].fd])
  /\ UNCHANGED max

\* What poll() stores in revents of slot s.  The peers in `slow` leave no room
\* to send; a reset in `bare` is reported as POLLERR without POLLHUP.
Revents(s, slow, bare) ==
  LET c == file[list[s].fd]
      On(e, cond) == IF cond THEN {e} ELSE {}
  IN  IF s = 0
        THEN On("IN", backlog # <<>>)
        ELSE On("IN", list[s].events = "IN" /\ Readable(c))
             \cup On("OUT", list[s].events = "OUT" /\ (c \notin slow \/ rst[c]))
             \cup On("HUP", (rst[c] /\ c \notin bare) \/ (HupOnFin /\ fin[c]))
             \cup On("ERR", rst[c])

\* The socket and the connection the loop is looking at.
Sock == file[list[i].fd]
Handling(e) == pc = "handle" /\ i < count /\ e \in list[i].revents
Failed == list[i].revents \cap {"HUP", "ERR"} # {}

-----------------------------------------------------------------------------
(* main(): one action per call that can return and per branch it leads to. *)

\* poll() returns when a slot has events; a timeout only goes round the loop.
PollWith(slow, bare) ==
  /\ pc = "poll"
  /\ list' = [k \in 0..(count - 1) |-> [list[k] EXCEPT !.revents = Revents(k, slow, bare)]]
  /\ \E k \in 0..(count - 1) : list'[k].revents # {}
  /\ pc' = IF list'[0].revents # {} THEN "accept" ELSE "handle"
  /\ i' = 1
  /\ UNCHANGED <<connections, count, max, fd, file, peerVars>>

Poll == \E slow, bare \in SUBSET Conn : PollWith(slow, bare)

\* poll() == -1: "fatal program error".
PollFails ==
  /\ pc = "poll"
  /\ pc' = "cleanup"
  /\ UNCHANGED <<list, connections, count, max, i, fd, file, peerVars>>

\* accept() gives the lowest free descriptor, which joins the poller.
Accept ==
  /\ pc = "accept"
  /\ \E f \in Fd, c \in Conn :
       /\ file[f] = NoFile
       /\ \A g \in Fd : file[g] = NoFile => f <= g
       /\ SysAccept(c)
       /\ file' = [file EXCEPT ![f] = c]
       /\ PollerAdd(f, c)
       /\ fd' = f
  /\ pc' = "handle"
  /\ UNCHANGED i

\* accept() == -1: no descriptor left (EMFILE), or a failure that may pass.
\* The `continue` goes back to poll() without looking at the other slots.
AcceptFails ==
  /\ pc = "accept"
  /\ backlog # <<>> \/ NoFile \notin {file[f] : f \in Fd}
  /\ fd' = -1
  /\ pc' = "poll"
  /\ UNCHANGED <<list, connections, count, max, i, file, peerVars>>

\* Mutation: `continue` without the i++ of the for statement.
SkipIdleStays ==
  /\ pc = "handle" /\ i < count
  /\ list[i].revents = {}
  /\ UNCHANGED vars

SkipIdle ==
  /\ pc = "handle" /\ i < count
  /\ list[i].revents = {}
  /\ i' = i + 1
  /\ UNCHANGED <<list, connections, count, max, fd, pc, file, peerVars>>

\* POLLHUP or POLLERR: remove_at(i--), so that i++ comes to the moved entry.
HangUp ==
  /\ pc = "handle" /\ i < count
  /\ Failed
  /\ PollerRemoveAt(i)
  /\ UNCHANGED <<i, fd, pc>>

\* Mutation: the slot goes on waiting for data instead of waiting to send.
RecvDataKeepsIn ==
  /\ Handling("IN") /\ ~Failed
  /\ SysRecv(Sock, BufSize)
  /\ connections' = [connections EXCEPT ![i].buf =
                       Stream(Sock, taken[Sock], taken'[Sock])]
  /\ i' = i + 1
  /\ UNCHANGED <<list, count, max, fd, pc, file>>

\* recv() > 0: the bytes are buffered and the slot waits to send them.
RecvData ==
  /\ Handling("IN") /\ ~Failed
  /\ SysRecv(Sock, BufSize)
  /\ connections' = [connections EXCEPT ![i].buf =
                       Stream(Sock, taken[Sock], taken'[Sock])]
  /\ list' = [list EXCEPT ![i].events = "OUT"]
  /\ i' = i + 1
  /\ UNCHANGED <<count, max, fd, pc, file>>

\* Mutation: the half-close is taken for the end while data is unread.
RecvEndsOnFin ==
  /\ Handling("IN") /\ ~Failed
  /\ fin[Sock] \/ rst[Sock]
  /\ PollerRemoveAt(i)
  /\ UNCHANGED <<i, fd, pc>>

\* Mutation: recv() == 0 is logged and the connection kept.
RecvEndsKeeps ==
  /\ Handling("IN") /\ ~Failed
  /\ AtEof(Sock) \/ rst[Sock]
  /\ i' = i + 1
  /\ UNCHANGED <<list, connections, count, max, fd, pc, file, peerVars>>

\* recv() == 0, or recv() == -1 because the connection was reset after poll().
RecvEnds ==
  /\ Handling("IN") /\ ~Failed
  /\ AtEof(Sock) \/ rst[Sock]
  /\ PollerRemoveAt(i)
  /\ UNCHANGED <<i, fd, pc>>

\* Mutation: the length is reduced but the rest is not moved to the front.
SendSomeUnmoved(n) ==
  LET buf == connections[i].buf IN
  /\ Handling("OUT") /\ ~Failed
  /\ n \in 1..Len(buf)
  /\ SysSend(Sock, SubSeq(buf, 1, n))
  /\ IF n < Len(buf)
       THEN /\ connections' = [connections EXCEPT ![i].buf = SubSeq(buf, 1, Len(buf) - n)]
            /\ UNCHANGED list
       ELSE /\ list' = [list EXCEPT ![i].events = "IN"]
            /\ UNCHANGED connections
  /\ i' = i + 1
  /\ UNCHANGED <<count, max, fd, pc, file>>

\* Mutation: send() is taken to send everything.
SendSomeOnce(n) ==
  /\ Handling("OUT") /\ ~Failed
  /\ n \in 1..Len(connections[i].buf)
  /\ SysSend(Sock, SubSeq(connections[i].buf, 1, n))
  /\ list' = [list EXCEPT ![i].events = "IN"]
  /\ i' = i + 1
  /\ UNCHANGED <<connections, count, max, fd, pc, file>>

\* send() takes the first n bytes: what remains moves to the front of the
\* buffer, and the slot goes back to receiving only when nothing remains.
SendSome(n) ==
  LET buf == connections[i].buf IN
  /\ Handling("OUT") /\ ~Failed
  /\ n \in 1..Len(buf)
  /\ SysSend(Sock, SubSeq(buf, 1, n))
  /\ IF n < Len(buf)
       THEN /\ connections' = [connections EXCEPT ![i].buf = SubSeq(buf, n + 1, Len(buf))]
            /\ list' = [list EXCEPT ![i].events = "OUT"]
       ELSE /\ list' = [list EXCEPT ![i].events = "IN"]
            /\ UNCHANGED connections
  /\ i' = i + 1
  /\ UNCHANGED <<count, max, fd, pc, file>>

Send == \E n \in 1..BufSize : SendSome(n)

\* send() == -1: remove_at(i), without the i-- of every other removal.
SendFails ==
  /\ Handling("OUT") /\ ~Failed
  /\ rst[Sock]
  /\ PollerRemoveAt(i)
  /\ i' = i + 1
  /\ UNCHANGED <<fd, pc>>

EndPass ==
  /\ pc = "handle" /\ i >= count
  /\ pc' = "poll"
  /\ UNCHANGED <<list, connections, count, max, i, fd, file, peerVars>>

\* cleanup: close(fd), then poller_destroy() closes every slot from the last.
Cleanup ==
  /\ pc = "cleanup"
  /\ file' = [f \in Fd |->
                IF f = fd \/ \E k \in 0..(count - 1) : list[k].fd = f THEN NoFile ELSE file[f]]
  /\ SysCloseAll
  /\ list' = [k \in {} |-> list[0]]
  /\ connections' = [k \in {} |-> connections[1]]
  /\ count' = 0
  /\ pc' = "done"
  /\ UNCHANGED <<max, i, fd>>

Server ==
  \/ Poll \/ Accept \/ AcceptFails \/ SkipIdle \/ HangUp \/ RecvData \/ RecvEnds
  \/ Send \/ SendFails \/ EndPass \/ PollFails \/ Cleanup

Peers == pc # "done" /\ PeerNext /\ UNCHANGED pollerVars

Next == Server \/ Peers

Spec == Init /\ [][Next]_vars

-----------------------------------------------------------------------------
(* Fairness.  main() runs on while a call can return.  A peer that stays   *)
(* connected reads what it is sent, so poll() reports its socket writable  *)
(* again and again (SF, once per peer); an accept() failure other than     *)
(* EMFILE passes (SF).  Nothing is assumed of PollFails or of the peers'   *)
(* own moves.                                                              *)
Fairness ==
  /\ WF_vars(Poll)
  /\ \A c \in Conn : SF_vars(\E slow, bare \in SUBSET (Conn \ {c}) : PollWith(slow, bare))
  /\ SF_vars(Accept)
  /\ WF_vars(AcceptFails)
  /\ WF_vars(SkipIdle)
  /\ WF_vars(HangUp)
  /\ WF_vars(RecvData \/ RecvEnds)
  /\ WF_vars(Send \/ SendFails)
  /\ WF_vars(EndPass)
  /\ WF_vars(Cleanup)

FairSpec == Spec /\ Fairness

-----------------------------------------------------------------------------
(* Safety.                                                                 *)

Running == pc \in {"poll", "accept", "handle", "cleanup"}
Slots == 1..(count - 1)

\* The parallel arrays and the kernel agree: a slot's descriptor is open on the
\* peer its connection_t describes, no two slots share a descriptor, and slot 0
\* stays the listening socket (poller_add and poller_remove_at, lines 86-94 and
\* 128-141: a close or a copy of the wrong entry sends one peer's bytes to
\* another, or leaves poll() a closed descriptor and ends in exit(1)).
SlotsMatch ==
  /\ Running => count > 0 /\ list[0].fd = ListenFd /\ file[ListenFd] = Listener
  /\ \A s \in Slots : file[list[s].fd] = connections[s].peer
  /\ \A s, t \in 0..(count - 1) : list[s].fd = list[t].fd => s = t

\* No descriptor leaks: each open one is in the poll set, where an event can
\* still close it; and a process that has cleaned up holds none.
NoLeak == \A f \in Fd : file[f] # NoFile => \E s \in 0..(count - 1) : list[s].fd = f

\* poller_add() writes at index count before it checks the size of the arrays
\* (lines 87 and 92, the realloc is at 111): there is always room for one.
RoomForOne == Running => count < max

\* On a blocking socket a system call the kernel is not ready for stops the
\* server for everyone.  When accept() or recv() is called on an event of the
\* snapshot, the call returns: the event is still true, of this very slot's
\* peer, in spite of the slots moved, added and removed since poll().
NeverBlocks ==
  /\ pc = "accept" => backlog # <<>>
  /\ pc = "handle" => \A s \in Slots : s >= i /\ "IN" \in list[s].revents
                                        => Readable(connections[s].peer)

\* The bytes received from a peer are, in order and each once, those echoed
\* followed by those still buffered; a slot waits to send only when it has
\* something to send (recv at 319, the memmove at 346).
EchoInOrder ==
  \A s \in Slots :
    LET c == connections[s].peer IN
    IF list[s].events = "OUT"
      THEN /\ connections[s].buf # <<>>
           /\ echoed[c] \o connections[s].buf = Stream(c, 0, taken[c])
      ELSE echoed[c] = Stream(c, 0, taken[c])

\* A peer that shuts down its sending side and waits gets all its bytes back
\* before the server closes: the half-close is not taken for the end while a
\* reply is buffered or unread data remains.
EchoComplete ==
  \A c \in Conn : phase[c] = "closed" /\ ~rst[c] /\ Running
                    => fin[c] /\ echoed[c] = Stream(c, 0, sent[c])

\* The server never hangs up on a peer that has neither shut down nor reset.
OnlyPeerEndsIt ==
  [][\A c \in Conn : phase[c] = "open" /\ phase'[c] = "closed"
                       => fin[c] \/ rst[c] \/ pc = "cleanup"]_vars

\* The poller implements the abstract echo service.
Service == INSTANCE EchoService WITH up <- pc # "done"
ImplementsService == Service!Spec

-----------------------------------------------------------------------------
(* Liveness, while the server is up and has descriptors to give.           *)

\* Every waiting connection is accepted, whatever the other peers do.
EventuallyAccepted == \A c \in Conn : phase[c] = "queued" ~> phase[c] # "queued"

\* What a connected peer has sent is echoed, unless its connection ends.
EventuallyEchoed ==
  \A c \in Conn : Len(echoed[c]) < sent[c] ~> Len(echoed[c]) = sent[c] \/ phase[c] = "closed"

\* A connection whose peer is finished or gone is closed.
EventuallyClosed ==
  \A c \in Conn : phase[c] = "open" /\ (fin[c] \/ rst[c]) ~> phase[c] = "closed"
=============================================================================
