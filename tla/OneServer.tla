----------------------------- MODULE OneServer -----------------------------
(* The echo servers that serve one connection at a time (tcp-srv-echo.c,
   tcp-srv-sigpipe.c, simple-tcp-srv-echo.c), together with the blocking clients
   of src/ that connect to them.  A client is a program run once; what it does to
   its connection are the Peer... operators of TcpPeers. *)
EXTENDS TcpPeers

CONSTANTS
  Variants,    \* which of the servers: subset of {"echo", "sigpipe", "simple"}
  Programs,    \* which of the clients
  BufSize,     \* bytes of the server's buffer: 1024 or 512
  Request,     \* bytes of a client's request
  Addresses,   \* addresses getaddrinfo() gives a client
  Window,      \* bytes under way in one direction of a connection
  NoConn

ASSUME OneServerAssumption ==
  /\ Variants \subseteq {"echo", "sigpipe", "simple"}
  /\ Programs \subseteq {"client", "shutdown", "trivial", "daytime", "bind", "flood"}
  /\ BufSize \in Nat \ {0} /\ Request \in 1 .. MaxSend /\ Addresses \in Nat \ {0} /\ Window \in Nat \ {0}
  /\ NoConn \notin Conn

VARIABLES
  variant,   \* the server that runs
  server,    \* where it is: "start", "accept", "recv", "send" or "down"
  fd2,       \* the connection it serves
  buf,       \* what it has received and not yet sent
  program,   \* program[c]: the client that makes connection c
  pc,        \* where it is: "start", "again", "sending", "receiving" or "ended"
  tried,     \* addresses it has tried in vain
  got        \* bytes of the echo it has received

serverVars == <<variant, server, fd2, buf>>
clientVars == <<program, pc, tried, got>>
vars == <<peerVars, serverVars, clientVars>>

Init ==
  /\ PeersInit
  /\ variant \in Variants /\ server = "start" /\ fd2 = NoConn /\ buf = <<>>
  /\ program \in [Conn -> Programs]
  /\ pc = [c \in Conn |-> "start"] /\ tried = [c \in Conn |-> 0] /\ got = [c \in Conn |-> 0]

-----------------------------------------------------------------------------
(* The clients *)

\* tcp-client-shutdown.c and tcp-send-fail.c go on to the next address, the
\* others use the first only; tcp-client-bind.c exits.
ConnectFails(c) ==
  /\ pc[c] = "start"
  /\ IF program[c] \in {"shutdown", "flood"} /\ tried[c] + 1 < Addresses
     THEN tried' = [tried EXCEPT ![c] = @ + 1] /\ UNCHANGED pc
     ELSE pc' = [pc EXCEPT ![c] = "ended"] /\ UNCHANGED tried
  /\ UNCHANGED <<peerVars, serverVars, program, got>>

Connect(c) ==
  /\ pc[c] = "start" /\ server \notin {"start", "down"}
  /\ PeerConnect(c)
  /\ pc' = [pc EXCEPT ![c] = CASE program[c] = "bind"    -> "again"
                                [] program[c] = "daytime" -> "receiving"
                                [] OTHER                  -> "sending"]
  /\ UNCHANGED <<serverVars, program, tried, got>>

\* close() or exit(): with unread bytes the kernel sends a RST, else a FIN.
Close(c, read) ==
  IF Alive(c) THEN IF read < Len(echoed[c]) THEN PeerReset(c) ELSE PeerShutdown(c)
  ELSE UNCHANGED peerVars

End(c) ==
  /\ Close(c, got[c])
  /\ pc' = [pc EXCEPT ![c] = "ended"]
  /\ UNCHANGED <<serverVars, program, tried, got>>

\* tcp-client-bind.c connects once more from the same port; whether that
\* succeeds or not, the program ends and takes both connections with it.
ConnectAgain(c) == pc[c] = "again" /\ End(c)

Room(c) == sent[c] - taken[c] < Window

Send(c) ==
  /\ pc[c] = "sending" /\ Room(c)
  /\ PeerSend(c)
  /\ pc' = [pc EXCEPT ![c] = IF program[c] # "flood" /\ sent[c] + 1 = Request THEN "receiving" ELSE @]
  /\ UNCHANGED <<serverVars, program, tried, got>>

\* tcp-send-fail.c does not block: it stops at the first send() that falls
\* short.  In the others send() fails when the connection is gone.
SendEnds(c) ==
  /\ pc[c] = "sending"
  /\ ~Alive(c) \/ (program[c] = "flood" /\ (~Room(c) \/ sent[c] = MaxSend))
  /\ End(c)

\* SO_SNDTIMEO of tcp-client.c: a part was sent, or none and the program ends.
SendTimesOut(c) ==
  /\ pc[c] = "sending" /\ program[c] = "client" /\ ~Room(c)
  /\ pc' = [pc EXCEPT ![c] = "receiving"]
  /\ UNCHANGED <<peerVars, serverVars, program, tried, got>>

\* One byte a call in tcp-client-shutdown.c and tcp-client-daytime.c, which
\* stops at a '\n'; one call in trivial-tcp-client.c and quickstart/a-tcp-client.c.
Recv(c) ==
  /\ pc[c] = "receiving" /\ ~rst[c]
  /\ \E n \in 1 .. (Len(echoed[c]) - got[c]) :
       /\ program[c] \in {"shutdown", "daytime"} => n = 1
       /\ got' = [got EXCEPT ![c] = @ + n]
       /\ \/ program[c] # "trivial" /\ UNCHANGED <<peerVars, pc>>
          \/ /\ program[c] \in {"trivial", "daytime"}
             /\ Close(c, got[c] + n) /\ pc' = [pc EXCEPT ![c] = "ended"]
  /\ UNCHANGED <<serverVars, program, tried>>

\* recv() returns 0 or -1; where the server closed with bytes unread the RST may
\* overtake what was not received yet.
RecvEnds(c) ==
  /\ pc[c] = "receiving"
  /\ rst[c] \/ (phase[c] = "closed" /\ (got[c] = Len(echoed[c]) \/ taken[c] < sent[c]))
  /\ End(c)

\* SO_RCVTIMEO of tcp-client.c: five seconds without a byte.
RecvTimesOut(c) ==
  /\ pc[c] = "receiving" /\ program[c] = "client" /\ got[c] = Len(echoed[c])
  /\ End(c)

\* What arrives for a socket that was closed is answered with a RST.
KernelResets(c) ==
  /\ pc[c] = "ended" /\ got[c] < Len(echoed[c])
  /\ PeerReset(c)
  /\ UNCHANGED <<serverVars, clientVars>>

Client(c) ==
  \/ Connect(c) \/ ConnectFails(c) \/ ConnectAgain(c) \/ Send(c) \/ SendEnds(c) \/ SendTimesOut(c)
  \/ Recv(c) \/ RecvEnds(c) \/ RecvTimesOut(c)

-----------------------------------------------------------------------------
(* The server *)

\* From getaddrinfo() to listen(), all of which succeed, or the program ends.
Listen ==
  /\ server = "start" /\ server' = "accept"
  /\ UNCHANGED <<peerVars, variant, fd2, buf, clientVars>>

SetUpFails ==
  /\ server = "start" /\ server' = "down"
  /\ UNCHANGED <<peerVars, variant, fd2, buf, clientVars>>

\* A failing accept() is reported and tried again.
Accept ==
  /\ server = "accept"
  /\ \E c \in Conn : SysAccept(c) /\ fd2' = c
  /\ server' = "recv"
  /\ UNCHANGED <<variant, buf, clientVars>>

\* getnameinfo() fails: the program ends.
NameFails ==
  /\ server = "accept" /\ variant # "simple" /\ backlog # <<>>
  /\ SysCloseAll
  /\ server' = "down"
  /\ UNCHANGED <<variant, fd2, buf, clientVars>>

RecvData ==
  /\ server = "recv" /\ ~rst[fd2]
  /\ SysRecv(fd2, BufSize)
  /\ buf' = Stream(fd2, taken[fd2], taken'[fd2])
  /\ server' = "send"
  /\ UNCHANGED <<variant, fd2, clientVars>>

CloseFd2 ==
  /\ SysClose(fd2)
  /\ server' = "accept" /\ fd2' = NoConn /\ buf' = <<>>
  /\ UNCHANGED <<variant, clientVars>>

RecvStopsAtZero == server = "recv" /\ AtEof(fd2) /\ CloseFd2   \* Mutation: -1 does not end the loop.

RecvStops == server = "recv" /\ (AtEof(fd2) \/ rst[fd2]) /\ CloseFd2

SendSomeAgain ==   \* Mutation: after a part the rest is sent from the beginning of the buffer.
  /\ server = "send"
  /\ \E n \in 1 .. Len(buf) :
       /\ SysSend(fd2, SubSeq(buf, 1, n))
       /\ buf' = SubSeq(buf, 1, Len(buf) - n)
  /\ server' = IF buf' = <<>> THEN "recv" ELSE "send"
  /\ UNCHANGED <<variant, fd2, clientVars>>

\* A blocking send(): as there is room, until everything is sent.
SendSome ==
  /\ server = "send"
  /\ \E n \in 1 .. Len(buf) :
       /\ pc[fd2] = "ended" \/ Len(echoed[fd2]) + n - got[fd2] <= Window
       /\ SysSend(fd2, SubSeq(buf, 1, n))
       /\ buf' = SubSeq(buf, n + 1, Len(buf))
  /\ server' = IF buf' = <<>> THEN "recv" ELSE "send"
  /\ UNCHANGED <<variant, fd2, clientVars>>

SendFails == server = "send" /\ rst[fd2] /\ CloseFd2

\* Only tcp-srv-echo.c ignores SIGPIPE.
Killed ==
  /\ server = "send" /\ rst[fd2] /\ variant # "echo"
  /\ SysCloseAll
  /\ server' = "down"
  /\ UNCHANGED <<variant, fd2, buf, clientVars>>

Server == Listen \/ SetUpFails \/ Accept \/ NameFails \/ RecvData \/ RecvStops \/ SendSome \/ SendFails \/ Killed

Next == Server \/ \E c \in Conn : Client(c) \/ KernelResets(c)

Spec == Init /\ [][Next]_vars

\* The server and the clients are processes of their own: each goes on when it
\* can.  Timeouts expire, and a RST arrives.
Fairness == WF_vars(Server) /\ \A c \in Conn : WF_vars(Client(c)) /\ WF_vars(KernelResets(c))

FairSpec == Spec /\ Fairness

-----------------------------------------------------------------------------
\* Whatever clients come and however they leave, each of the three servers is
\* the abstract echo service: bytes come back in order, once, only to whom they
\* came from, and a connection is closed only when it is finished or reset, or
\* the server goes down (the two loops of main()).
Service == INSTANCE EchoService WITH up <- server # "down"
ImplementsService == Service!Spec

\* These two read to the end of the connection, or to a '\n', with no timeout and
\* without shutting down: an echo server that waits for more waits for ever, and
\* so does who stands behind them.
Endless == {"shutdown", "daytime"}

\* Every client ends, although one server serves them one after the other: a
\* client that leaves early, that never reads or that floods the server holds up
\* the others only for a while (main() of the servers, main() of the clients).
EveryoneEnds ==
  (\A c \in Conn : program[c] \notin Endless) => \A c \in Conn : <>(pc[c] = "ended")
=============================================================================
