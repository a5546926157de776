------------------------------ MODULE TcpPeers ------------------------------
(***************************************************************************)
(* The environment of the TCP servers of this project: the peers (clients) *)
(* and the kernel's end of their connections, as the servers in src/ use   *)
(* them through accept(), recv(), send() and close().  None of it is code  *)
(* of the project; a server module EXTENDS this one and decides when the   *)
(* Sys... operators take effect.                                           *)
(*                                                                         *)
(* A peer makes one connection, so Conn names both.  Byte k of the stream  *)
(* that peer c sends is the pair <<c, k>>: a byte that is lost, repeated,  *)
(* reordered or sent to the wrong peer is seen as such.                    *)
(***************************************************************************)
EXTENDS Naturals, Sequences

CONSTANTS
  Conn,         \* the connections peers may make
  MaxSend,      \* bound: how many bytes a peer sends
  Backlog,      \* listen(fd, 10): how many connections wait for accept()
  DropAborted   \* does a reset connection leave the accept queue (BSD) or stay in it (Linux)?

ASSUME PeersAssumption ==
  /\ MaxSend \in Nat
  /\ Backlog \in Nat \ {0}
  /\ DropAborted \in BOOLEAN

VARIABLES
  phase,    \* phase[c]: "idle", then "queued" for accept(), "open", "closed" by the server
  fin,      \* fin[c]: the peer has shut down its sending side
  rst,      \* rst[c]: the connection has been reset
  sent,     \* sent[c]: how many bytes the peer has sent
  taken,    \* taken[c]: how many of them the server has received
  echoed,   \* echoed[c]: the bytes the server has sent back
  backlog   \* the accept queue of the listening socket

peerVars == <<phase, fin, rst, sent, taken, echoed, backlog>>

Phase == {"idle", "queued", "open", "closed"}

\* The stream of peer c between two positions: bytes from + 1 .. to.
Stream(c, from, to) == [k \in 1..(to - from) |-> <<c, from + k>>]

PeersTypeOK ==
  /\ phase \in [Conn -> Phase]
  /\ fin \in [Conn -> BOOLEAN]
  /\ rst \in [Conn -> BOOLEAN]
  /\ sent \in [Conn -> 0..MaxSend]
  /\ taken \in [Conn -> 0..MaxSend]
  /\ echoed \in [Conn -> Seq(Conn \X Nat)]
  /\ backlog \in Seq(Conn)

PeersInit ==
  /\ phase = [c \in Conn |-> "idle"]
  /\ fin = [c \in Conn |-> FALSE]
  /\ rst = [c \in Conn |-> FALSE]
  /\ sent = [c \in Conn |-> 0]
  /\ taken = [c \in Conn |-> 0]
  /\ echoed = [c \in Conn |-> <<>>]
  /\ backlog = <<>>

-----------------------------------------------------------------------------
(* What a peer does, at any time.                                          *)

Alive(c) == phase[c] \in {"queued", "open"} /\ ~rst[c]

PeerConnect(c) ==
  /\ phase[c] = "idle"
  /\ Len(backlog) < Backlog
  /\ phase' = [phase EXCEPT ![c] = "queued"]
  /\ backlog' = Append(backlog, c)
  /\ UNCHANGED <<fin, rst, sent, taken, echoed>>

PeerSend(c) ==
  /\ Alive(c)
  /\ ~fin[c]
  /\ sent[c] < MaxSend
  /\ sent' = [sent EXCEPT ![c] = @ + 1]
  /\ UNCHANGED <<phase, fin, rst, taken, echoed, backlog>>

PeerShutdown(c) ==
  /\ Alive(c)
  /\ ~fin[c]
  /\ fin' = [fin EXCEPT ![c] = TRUE]
  /\ UNCHANGED <<phase, rst, sent, taken, echoed, backlog>>

\* The k-th connection leaves the accept queue.
LeaveQueue(k) ==
  [j \in 1..(Len(backlog) - 1) |-> IF j < k THEN backlog[j] ELSE backlog[j + 1]]

PeerReset(c) ==
  /\ Alive(c)
  /\ rst' = [rst EXCEPT ![c] = TRUE]
  /\ \/ /\ DropAborted /\ phase[c] = "queued"
        /\ \E k \in 1..Len(backlog) : backlog[k] = c /\ backlog' = LeaveQueue(k)
        /\ phase' = [phase EXCEPT ![c] = "closed"]
     \/ /\ ~(DropAborted /\ phase[c] = "queued")
        /\ UNCHANGED <<backlog, phase>>
  /\ UNCHANGED <<fin, sent, taken, echoed>>

PeerNext ==
  \E c \in Conn : PeerConnect(c) \/ PeerSend(c) \/ PeerShutdown(c) \/ PeerReset(c)

-----------------------------------------------------------------------------
(* What the system calls of a server do to a connection.  Each Sys...      *)
(* operator is the effect of a call that returns; its guard says when the  *)
(* call can return that way.                                               *)

\* poll() reports the socket readable: data, end of file or a pending error.
Readable(c) == taken[c] < sent[c] \/ fin[c] \/ rst[c]

\* accept() takes the oldest waiting connection.
SysAccept(c) ==
  /\ backlog # <<>>
  /\ c = Head(backlog)
  /\ backlog' = Tail(backlog)
  /\ phase' = [phase EXCEPT ![c] = "open"]
  /\ UNCHANGED <<fin, rst, sent, taken, echoed>>

\* recv() returns what is there, up to the size of the caller's buffer.
Received(c, size) == IF sent[c] - taken[c] < size THEN sent[c] ELSE taken[c] + size

SysRecv(c, size) ==
  /\ taken[c] < sent[c]
  /\ taken' = [taken EXCEPT ![c] = Received(c, size)]
  /\ UNCHANGED <<phase, fin, rst, sent, echoed, backlog>>

\* recv() returns 0: the peer has shut down and every byte has been read.
AtEof(c) == taken[c] = sent[c] /\ fin[c] /\ ~rst[c]

\* send() accepts the bytes of a sequence; on a reset connection it fails.
SysSend(c, bytes) ==
  /\ ~rst[c]
  /\ echoed' = [echoed EXCEPT ![c] = @ \o bytes]
  /\ UNCHANGED <<phase, fin, rst, sent, taken, backlog>>

SysClose(c) ==
  /\ phase' = [phase EXCEPT ![c] = "closed"]
  /\ UNCHANGED <<fin, rst, sent, taken, echoed, backlog>>

\* The process ends, or closes everything: no connection outlives it.
SysCloseAll ==
  /\ phase' = [c \in Conn |-> IF phase[c] = "idle" THEN "idle" ELSE "closed"]
  /\ backlog' = <<>>
  /\ UNCHANGED <<fin, rst, sent, taken, echoed>>

\* The last descriptors of the connections in `gone` are closed and, with
\* `deaf`, the last one of the listening socket, which drops the accept queue.
SysRelease(gone, deaf) ==
  /\ phase' = [c \in Conn |-> IF c \in gone \/ (deaf /\ phase[c] = "queued")
                                THEN "closed" ELSE phase[c]]
  /\ backlog' = IF deaf THEN <<>> ELSE backlog
  /\ UNCHANGED <<fin, rst, sent, taken, echoed>>
=============================================================================
