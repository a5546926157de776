----------------------------- MODULE ForkServer -----------------------------
(***************************************************************************)
(* tcp-srv-fork.c: an echo server that forks a process for each connection *)
(* it accepts.  The parent closes its copy of the connection and goes back *)
(* to accept(); the child closes its copy of the listening socket, echoes  *)
(* until the peer is finished, and exits.  The SIGCHLD handler interrupts  *)
(* the parent anywhere and reaps children.                                 *)
(*                                                                         *)
(* A connection ends, for its peer, when the last process that has it open *)
(* closes it, so who holds which descriptor is kept for every process.     *)
(***************************************************************************)
EXTENDS TcpPeers, FiniteSets

CONSTANTS
  MaxFd,    \* RLIMIT_NOFILE: descriptors the parent may have open, the listener included
  BufSize,  \* sizeof(buf) of the child's loop
  NoConn    \* fd2 is not in use

ASSUME ForkAssumption ==
  /\ MaxFd \in Nat \ {0}
  /\ BufSize \in Nat \ {0}
  /\ NoConn \notin Conn

VARIABLES
  parent,     \* where the parent is: "start", "accept" (in accept()), "fork" (before fork()),
              \* "close" (before close(fd2)) or "exited"
  fd2,        \* the connection it has just accepted
  held,       \* the connections it has open
  pending,    \* SIGCHLD is pending
  reaping,    \* the parent is in child_exit()
  child,      \* child[c]: the process forked for c, "none", "start", "recv", "send", "zombie"
              \* or "gone" (reaped)
  inherited,  \* inherited[c]: what else child c has open, copied by fork()
  buf         \* buf[c]: what child c has received and not sent yet

procVars == <<parent, fd2, held, pending, reaping, child, inherited, buf>>
vars == <<procVars, peerVars>>

Init ==
  /\ PeersInit
  /\ parent = "start"
  /\ fd2 = NoConn
  /\ held = {}
  /\ pending = FALSE
  /\ reaping = FALSE
  /\ child = [c \in Conn |-> "none"]
  /\ inherited = [c \in Conn |-> {}]
  /\ buf = [c \in Conn |-> <<>>]

-----------------------------------------------------------------------------
Running(c) == child[c] \in {"start", "recv", "send"}
Unreaped == {c \in Conn : Running(c) \/ child[c] = "zombie"}

\* What the children other than those in `except` have open.
OpenInChildren(except) ==
  UNION {inherited[c] \cup {c} : c \in {d \in Conn \ except : Running(d)}}

\* Is the listening socket open in a child that has not come to close(fd)?
ListenerInChildren(except) == \E c \in Conn \ except : child[c] = "start"

\* main() runs: the parent is not in the signal handler.
InMain(at) == parent = at /\ ~reaping

-----------------------------------------------------------------------------
(* The parent.  accept() == -1 only goes round its loop.                   *)

\* getaddrinfo(), getnameinfo(), socket(), both setsockopt(), bind() and listen().
Listen ==
  /\ parent = "start"
  /\ parent' = "accept"
  /\ UNCHANGED <<fd2, held, pending, reaping, child, inherited, buf, peerVars>>

\* Any of them fails, or the arguments are wrong: the program ends.
SetUpFails ==
  /\ parent = "start"
  /\ parent' = "exited"
  /\ UNCHANGED <<fd2, held, pending, reaping, child, inherited, buf, peerVars>>

Accept ==
  /\ InMain("accept")
  /\ Cardinality(held) + 1 < MaxFd
  /\ \E c \in Conn :
       /\ SysAccept(c)
       /\ fd2' = c
       /\ held' = held \cup {c}
  /\ parent' = "fork"
  /\ UNCHANGED <<pending, reaping, child, inherited, buf>>

\* getnameinfo() fails: goto cleanup, and the parent exits.  Its children
\* live on; those that have exited are nobody's to reap.
NameFails ==
  /\ InMain("fork")
  /\ SysRelease(held \ OpenInChildren({}), ~ListenerInChildren({}))
  /\ parent' = "exited"
  /\ held' = {}
  /\ fd2' = NoConn
  /\ pending' = FALSE
  /\ child' = [c \in Conn |-> IF child[c] = "zombie" THEN "gone" ELSE child[c]]
  /\ UNCHANGED <<reaping, inherited, buf>>

Fork ==
  /\ InMain("fork")
  /\ child' = [child EXCEPT ![fd2] = "start"]
  /\ inherited' = [inherited EXCEPT ![fd2] = held \ {fd2}]
  /\ parent' = "close"
  /\ UNCHANGED <<fd2, held, pending, reaping, buf, peerVars>>

\* fork() == -1 (no process or no memory left): back to accept() with fd2 open.
ForkFails ==
  /\ InMain("fork")
  /\ parent' = "accept"
  /\ fd2' = NoConn
  /\ UNCHANGED <<held, pending, reaping, child, inherited, buf, peerVars>>

\* Mutation: the parent does not close its copy of the connection.
ParentKeeps ==
  /\ InMain("close")
  /\ parent' = "accept"
  /\ fd2' = NoConn
  /\ UNCHANGED <<held, pending, reaping, child, inherited, buf, peerVars>>

ParentClose ==
  /\ InMain("close")
  /\ SysRelease({fd2} \ OpenInChildren({}), FALSE)
  /\ held' = held \ {fd2}
  /\ parent' = "accept"
  /\ fd2' = NoConn
  /\ UNCHANGED <<pending, reaping, child, inherited, buf>>

-----------------------------------------------------------------------------
(* child_exit(), run when SIGCHLD is delivered and blocked while it runs.  *)

Deliver ==
  /\ pending /\ ~reaping
  /\ pending' = FALSE
  /\ reaping' = TRUE
  /\ UNCHANGED <<parent, fd2, held, child, inherited, buf, peerVars>>

\* Mutation: one waitpid() for each signal.
ReapOne ==
  /\ reaping
  /\ \E c \in Conn : child[c] = "zombie" /\ child' = [child EXCEPT ![c] = "gone"]
  /\ reaping' = FALSE
  /\ UNCHANGED <<parent, fd2, held, pending, inherited, buf, peerVars>>

\* waitpid() > 0.  When it returns 0 the loop only comes back to it.
Reap ==
  /\ reaping
  /\ \E c \in Conn : child[c] = "zombie" /\ child' = [child EXCEPT ![c] = "gone"]
  /\ UNCHANGED <<parent, fd2, held, pending, reaping, inherited, buf, peerVars>>

\* Mutation: ECHILD is not taken for the end of the loop.
HandlerStays ==
  /\ reaping
  /\ UNCHANGED vars

\* waitpid() == -1: there are no children.
HandlerReturns ==
  /\ reaping
  /\ Unreaped = {}
  /\ reaping' = FALSE
  /\ UNCHANGED <<parent, fd2, held, pending, child, inherited, buf, peerVars>>

-----------------------------------------------------------------------------
(* The child that serves connection c.                                     *)

ChildCloseListener(c) ==
  /\ child[c] = "start"
  /\ child' = [child EXCEPT ![c] = "recv"]
  /\ SysRelease({}, parent = "exited" /\ ~ListenerInChildren({c}))
  /\ UNCHANGED <<parent, fd2, held, pending, reaping, inherited, buf>>

\* Mutation: the child goes back to recv() without sending.
ChildRecvOnly(c) ==
  /\ child[c] = "recv"
  /\ SysRecv(c, BufSize)
  /\ UNCHANGED procVars

ChildRecv(c) ==
  /\ child[c] = "recv"
  /\ SysRecv(c, BufSize)
  /\ buf' = [buf EXCEPT ![c] = Stream(c, taken[c], taken'[c])]
  /\ child' = [child EXCEPT ![c] = "send"]
  /\ UNCHANGED <<parent, fd2, held, pending, reaping, inherited>>

\* Mutation: the buffer is sent again.
ChildSendTwice(c) ==
  /\ child[c] = "send"
  /\ SysSend(c, buf[c] \o buf[c])
  /\ child' = [child EXCEPT ![c] = "recv"]
  /\ UNCHANGED <<parent, fd2, held, pending, reaping, inherited, buf>>

\* send() on a blocking socket takes the whole buffer.
ChildSend(c) ==
  /\ child[c] = "send"
  /\ SysSend(c, buf[c])
  /\ child' = [child EXCEPT ![c] = "recv"]
  /\ UNCHANGED <<parent, fd2, held, pending, reaping, inherited, buf>>

\* recv() == 0, recv() == -1 or send() == -1: close(fd2) and exit.
ChildEnds(c) ==
  /\ \/ child[c] = "recv" /\ (AtEof(c) \/ rst[c])
     \/ child[c] = "send" /\ rst[c]
  /\ SysRelease((inherited[c] \cup {c}) \ (held \cup OpenInChildren({c})), FALSE)
  /\ child' = [child EXCEPT ![c] = IF parent = "exited" THEN "gone" ELSE "zombie"]
  /\ pending' = (parent # "exited")
  /\ UNCHANGED <<parent, fd2, held, reaping, inherited, buf>>

-----------------------------------------------------------------------------
Parent == Listen \/ SetUpFails \/ Accept \/ NameFails \/ Fork \/ ForkFails \/ ParentClose
Handler == Deliver \/ Reap \/ HandlerReturns
Child(c) == ChildCloseListener(c) \/ ChildRecv(c) \/ ChildSend(c) \/ ChildEnds(c)

\* A peer can connect while some process has the listening socket open.
Peers ==
  /\ \E c \in Conn :
       \/ PeerConnect(c) /\ (parent \notin {"start", "exited"} \/ ListenerInChildren({}))
       \/ PeerSend(c) \/ PeerShutdown(c) \/ PeerReset(c)
  /\ UNCHANGED procVars

Next == Parent \/ Handler \/ (\E c \in Conn : Child(c)) \/ Peers

Spec == Init /\ [][Next]_vars

\* Every process is scheduled and a pending signal is delivered, also to a
\* parent that keeps making system calls; peers read what they are sent.
Fairness ==
  /\ WF_vars(Accept)
  /\ WF_vars(Fork \/ ForkFails)
  /\ WF_vars(ParentClose)
  /\ SF_vars(Deliver)
  /\ WF_vars(Reap)
  /\ WF_vars(HandlerReturns)
  /\ \A c \in Conn : WF_vars(Child(c))

FairSpec == Spec /\ Fairness

-----------------------------------------------------------------------------
(* Properties.                                                             *)

\* When a child has ended, its peer sees the connection end: no other process
\* still has it open, apart from a parent that is about to close it.
PeerSeesTheEnd ==
  \A c \in Conn : child[c] \in {"zombie", "gone"} /\ fd2 # c => phase[c] = "closed"

\* Processes, signal and descriptors together give the abstract echo service.
Service == INSTANCE EchoService WITH up <- parent # "exited"
ImplementsService == Service!Spec

\* Every child is reaped.
EventuallyReaped == \A c \in Conn : child[c] = "zombie" ~> child[c] = "gone"

\* What its peer has sent is echoed by a child that runs, whatever the parent does.
EventuallyEchoed ==
  \A c \in Conn : Running(c) /\ Len(echoed[c]) < sent[c]
                    ~> Len(echoed[c]) = sent[c] \/ ~Running(c)

\* A waiting connection is accepted if again and again no child is running and
\* the parent has a descriptor left.
AcceptedWhenIdle ==
  \A c \in Conn :
    []<>(Unreaped = {}) /\ []<>(Cardinality(held) + 1 < MaxFd)
      => (phase[c] = "queued" ~> phase[c] # "queued" \/ parent = "exited")

\* "this process continues accepting new connections" (lines 142 and 152).
EventuallyAccepted ==
  \A c \in Conn : phase[c] = "queued" ~> phase[c] # "queued"
=============================================================================
