-------------------------------- MODULE Mycat --------------------------------
(***************************************************************************)
(* mycat.c, a small netcat, talking to the echo loop of tcp-srv-fork.c.    *)
(* main_loop() waits in select() for the connection and for stdin and      *)
(* copies stdin to the connection and the connection to stdout.  Its calls *)
(* block, and so do the server's, and the connection holds only so much in *)
(* each direction: the two programs wait for each other through it.  What  *)
(* one of them has sent stays in its kernel until the network has carried  *)
(* it to the other's, which takes any time.                                *)
(*                                                                         *)
(* The k-th byte of stdin is the number k.                                 *)
(***************************************************************************)
EXTENDS Integers, Sequences

CONSTANTS
  MaxIn,      \* bound: how many bytes stdin gives
  SendBuf,    \* bytes a kernel holds that the other has not got yet
  RecvBuf,    \* bytes a kernel holds that recv() has not returned yet
  BufSize,    \* sizeof(buf), 512 in both programs
  Fortified   \* is FD_ISSET() with a descriptor of -1 caught (_FORTIFY_SOURCE)?

ASSUME MycatAssumption ==
  /\ MaxIn \in Nat
  /\ SendBuf \in Nat \ {0}
  /\ RecvBuf \in Nat \ {0}
  /\ BufSize \in Nat \ {0}
  /\ Fortified \in BOOLEAN

VARIABLES
  is_halfclose,  \* the -K option
  typed, inEof,  \* how many bytes stdin has had, and whether it has ended
  taken,         \* how many of them main_loop() has read
  fdin,          \* is fdin still stdin (else -1)?
  readset,       \* what select() has found readable
  pc,            \* where main_loop() is
  rest,          \* what send() has still to pass to the kernel
  stdout,        \* what has been written
  upSent, up,    \* the bytes sent to the server, and those of them it can receive
  downSent, down, \* the bytes the server has sent, and those main_loop() can receive
  fin, eof,      \* the sending side towards the server is shut down; the server can see it
  finDown, eofDown, \* the server has closed; main_loop() can see it
  rst,           \* the connection has been reset
  server,        \* where the server's loop is
  buf            \* what the server has received and not yet sent

inVars == <<is_halfclose, typed, inEof>>
catVars == <<taken, fdin, readset, pc, rest, stdout>>
netVars == <<upSent, up, downSent, down, fin, eof, finDown, eofDown, rst>>
srvVars == <<server, buf>>
vars == <<inVars, catVars, netVars, srvVars>>

Ended == {"done", "error", "aborted"}
Bytes == Seq(1..MaxIn)

TypeOK ==
  /\ is_halfclose \in BOOLEAN /\ inEof \in BOOLEAN
  /\ typed \in 0..MaxIn /\ taken \in 0..typed
  /\ fdin \in BOOLEAN
  /\ readset \subseteq {"fd", "fdin"}
  /\ pc \in {"start", "connect", "select", "recv", "read", "send"} \cup Ended
  /\ rest \in Bytes /\ stdout \in Bytes
  /\ upSent \in Bytes /\ up \in Bytes /\ downSent \in Bytes /\ down \in Bytes
  /\ fin \in BOOLEAN /\ eof \in BOOLEAN
  /\ finDown \in BOOLEAN /\ eofDown \in BOOLEAN /\ rst \in BOOLEAN
  /\ server \in {"recv", "send", "closed"}
  /\ buf \in Bytes
  /\ Len(upSent) <= SendBuf /\ Len(up) <= RecvBuf
  /\ Len(downSent) <= SendBuf /\ Len(down) <= RecvBuf

Init ==
  /\ is_halfclose = FALSE
  /\ typed = 0 /\ inEof = FALSE
  /\ taken = 0 /\ fdin = TRUE /\ readset = {} /\ pc = "start"
  /\ rest = <<>> /\ stdout = <<>>
  /\ upSent = <<>> /\ up = <<>> /\ downSent = <<>> /\ down = <<>>
  /\ fin = FALSE /\ eof = FALSE /\ finDown = FALSE /\ eofDown = FALSE /\ rst = FALSE
  /\ server = "recv" /\ buf = <<>>

-----------------------------------------------------------------------------
Least(a, b) == IF a < b THEN a ELSE b
Take(s, n) == SubSeq(s, 1, Least(n, Len(s)))
Drop(s, n) == SubSeq(s, Least(n, Len(s)) + 1, Len(s))

-----------------------------------------------------------------------------
(* main() before main_loop().  It leaves nothing open when it ends.        *)

\* parse_command_line(): a host, a port and perhaps -K ...
ParseCommandLine ==
  /\ pc = "start"
  /\ is_halfclose' \in BOOLEAN
  /\ pc' = "connect"
  /\ UNCHANGED <<typed, inEof, taken, fdin, readset, rest, stdout, netVars, srvVars>>

\* ... or -h, a host or a port given twice, or one of them missing: exit(1).
Refused ==
  /\ pc = "start"
  /\ pc' = "error"
  /\ UNCHANGED <<inVars, taken, fdin, readset, rest, stdout, netVars, srvVars>>

\* wrap_connect().  A connect() that a signal interrupts and that fails later is
\* also taken for a connection, as Linux does not report that in errset: it is
\* one that is reset at once.
Connect ==
  /\ pc = "connect"
  /\ pc' = "select"
  /\ UNCHANGED <<inVars, taken, fdin, readset, rest, stdout, netVars, srvVars>>

\* getaddrinfo(), socket(), connect() or select() fails: exit(1).
ConnectFails ==
  /\ pc = "connect"
  /\ pc' = "error"
  /\ UNCHANGED <<inVars, taken, fdin, readset, rest, stdout, netVars, srvVars>>

SetUp == ParseCommandLine \/ Refused \/ Connect \/ ConnectFails

-----------------------------------------------------------------------------
(* main_loop().  Nobody sends urgent data, so errset stays empty.          *)

Ready ==
  (IF down # <<>> \/ eofDown \/ rst THEN {"fd"} ELSE {})
  \cup (IF fdin /\ (taken < typed \/ inEof) THEN {"fdin"} ELSE {})

AfterRecv == IF "fdin" \in readset THEN "read" ELSE "select"

\* Mutation: stdin is read before the connection, and alone.
SelectStdinFirst ==
  /\ pc = "select"
  /\ Ready # {}
  /\ readset' = Ready
  /\ pc' = IF "fdin" \in Ready THEN "read" ELSE "recv"
  /\ UNCHANGED <<inVars, taken, fdin, rest, stdout, netVars, srvVars>>

\* select() returns.  With fdin == -1 the tests FD_ISSET(fdin, ...) look outside
\* the set: a fortified build aborts, another finds a bit that is not set.
Select ==
  /\ pc = "select"
  /\ Ready # {}
  /\ readset' = Ready
  /\ pc' = IF ~fdin /\ Fortified THEN "aborted"
           ELSE IF "fd" \in Ready THEN "recv" ELSE "read"
  /\ UNCHANGED <<inVars, taken, fdin, rest, stdout, netVars, srvVars>>

\* recv() > 0, and write() of all of it to stdout.
RecvData ==
  /\ pc = "recv"
  /\ down # <<>>
  /\ stdout' = stdout \o Take(down, BufSize)
  /\ down' = Drop(down, BufSize)
  /\ pc' = AfterRecv
  /\ UNCHANGED <<inVars, taken, fdin, readset, rest, upSent, up, downSent>>
  /\ UNCHANGED <<fin, eof, finDown, eofDown, rst, srvVars>>

\* recv() == 0: the end, or with -K the end of one direction.  (is_receiving
\* stays true, the assignment is commented out.)
RecvEof ==
  /\ pc = "recv"
  /\ down = <<>> /\ eofDown
  /\ IF is_halfclose
       THEN pc' = AfterRecv /\ UNCHANGED fin
       ELSE pc' = "done" /\ fin' = TRUE
  /\ UNCHANGED <<inVars, taken, fdin, readset, rest, stdout, srvVars>>
  /\ UNCHANGED <<upSent, up, downSent, down, eof, finDown, eofDown, rst>>

\* read() > 0: what was read goes to send().
ReadData ==
  LET n == Least(BufSize, typed - taken) IN
  /\ pc = "read"
  /\ n > 0
  /\ rest' = [k \in 1..n |-> taken + k]
  /\ taken' = taken + n
  /\ pc' = "send"
  /\ UNCHANGED <<inVars, fdin, readset, stdout, netVars, srvVars>>

\* Mutation: the server is not told.
ReadEofOnly ==
  /\ pc = "read"
  /\ taken = typed /\ inEof
  /\ fdin' = FALSE
  /\ pc' = "select"
  /\ UNCHANGED <<inVars, taken, readset, rest, stdout, netVars, srvVars>>

\* read() == 0: shutdown(fd, SHUT_WR), and fdin = -1.
ReadEof ==
  /\ pc = "read"
  /\ taken = typed /\ inEof
  /\ fin' = TRUE
  /\ fdin' = FALSE
  /\ pc' = "select"
  /\ UNCHANGED <<inVars, taken, readset, rest, stdout, srvVars>>
  /\ UNCHANGED <<upSent, up, downSent, down, eof, finDown, eofDown, rst>>

\* Mutation: send() passes on what there is room for and the rest is dropped.
SendShort ==
  LET room == SendBuf - Len(upSent) IN
  /\ pc = "send"
  /\ room > 0 /\ ~rst /\ server # "closed"
  /\ upSent' = upSent \o Take(rest, room)
  /\ rest' = <<>>
  /\ pc' = "select"
  /\ UNCHANGED <<inVars, taken, fdin, readset, stdout, srvVars>>
  /\ UNCHANGED <<up, downSent, down, fin, eof, finDown, eofDown, rst>>

\* send() blocks until the kernel has taken everything, as there is room.
SendOn ==
  LET room == SendBuf - Len(upSent) IN
  /\ pc = "send"
  /\ room > 0 /\ ~rst /\ server # "closed"
  /\ upSent' = upSent \o Take(rest, room)
  /\ rest' = Drop(rest, room)
  /\ pc' = IF Len(rest) <= room THEN "select" ELSE "send"
  /\ UNCHANGED <<inVars, taken, fdin, readset, stdout, srvVars>>
  /\ UNCHANGED <<up, downSent, down, fin, eof, finDown, eofDown, rst>>

\* A call returns -1, and so does main_loop(): recv() and send() on a connection
\* that was reset, write() to stdout or read() of stdin failing by themselves.
Fails ==
  /\ pc \in {"recv", "read"} \/ (pc = "send" /\ rst)
  /\ pc' = "error"
  /\ fin' = TRUE
  /\ UNCHANGED <<inVars, taken, fdin, readset, rest, stdout, srvVars>>
  /\ UNCHANGED <<upSent, up, downSent, down, eof, finDown, eofDown, rst>>

Cat == SetUp \/ Select \/ RecvData \/ RecvEof \/ ReadData \/ ReadEof \/ SendOn \/ Fails

-----------------------------------------------------------------------------
(* The server's child: recv() and send() in turn until the stream ends.    *)

ServerRecv ==
  /\ server = "recv"
  /\ up # <<>>
  /\ buf' = Take(up, BufSize)
  /\ up' = Drop(up, BufSize)
  /\ server' = "send"
  /\ UNCHANGED <<inVars, catVars, upSent, downSent, down, fin, eof, finDown, eofDown, rst>>

ServerSend ==
  LET room == SendBuf - Len(downSent) IN
  /\ server = "send"
  /\ room > 0 /\ ~rst
  /\ downSent' = downSent \o Take(buf, room)
  /\ buf' = Drop(buf, room)
  /\ server' = IF Len(buf) <= room THEN "recv" ELSE "send"
  /\ UNCHANGED <<inVars, catVars, upSent, up, down, fin, eof, finDown, eofDown, rst>>

ServerEnds ==
  /\ \/ server = "recv" /\ (rst \/ (up = <<>> /\ eof))
     \/ server = "send" /\ rst
  /\ server' = "closed"
  /\ finDown' = TRUE
  /\ UNCHANGED <<inVars, catVars, upSent, up, downSent, down, fin, eof, eofDown, rst, buf>>

Server == ServerRecv \/ ServerSend \/ ServerEnds

-----------------------------------------------------------------------------
(* Stdin and the network.  What was sent arrives in order while there is   *)
(* room for it, and after it the end of the stream; nothing more arrives   *)
(* when the connection is reset.  A program that has ended answers with a  *)
(* reset what is still sent to it.                                         *)

Type ==
  /\ ~inEof /\ typed < MaxIn /\ pc \notin Ended
  /\ typed' = typed + 1
  /\ UNCHANGED <<is_halfclose, inEof, catVars, netVars, srvVars>>

EndInput ==
  /\ ~inEof /\ pc \notin Ended
  /\ inEof' = TRUE
  /\ UNCHANGED <<is_halfclose, typed, catVars, netVars, srvVars>>

Reset ==
  /\ ~rst /\ pc \notin {"start", "connect"}
  /\ rst' = TRUE
  /\ UNCHANGED <<inVars, catVars, upSent, up, downSent, down, fin, eof, finDown, eofDown, srvVars>>

ArriveUp ==
  /\ upSent # <<>> /\ Len(up) < RecvBuf /\ ~rst
  /\ up' = up \o Take(upSent, 1)
  /\ upSent' = Drop(upSent, 1)
  /\ UNCHANGED <<inVars, catVars, downSent, down, fin, eof, finDown, eofDown, rst, srvVars>>

ArriveFin ==
  /\ fin /\ ~eof /\ upSent = <<>> /\ ~rst
  /\ eof' = TRUE
  /\ UNCHANGED <<inVars, catVars, upSent, up, downSent, down, fin, finDown, eofDown, rst, srvVars>>

ArriveDown ==
  /\ downSent # <<>> /\ Len(down) < RecvBuf /\ ~rst
  /\ down' = down \o Take(downSent, 1)
  /\ downSent' = Drop(downSent, 1)
  /\ UNCHANGED <<inVars, catVars, upSent, up, fin, eof, finDown, eofDown, rst, srvVars>>

ArriveFinDown ==
  /\ finDown /\ ~eofDown /\ downSent = <<>> /\ ~rst
  /\ eofDown' = TRUE
  /\ UNCHANGED <<inVars, catVars, upSent, up, downSent, down, fin, eof, finDown, rst, srvVars>>

Network == Reset \/ ArriveUp \/ ArriveFin \/ ArriveDown \/ ArriveFinDown

Next == Cat \/ Server \/ Type \/ EndInput \/ Network

Spec == Init /\ [][Next]_vars

\* Both programs run on while a call can return, and TCP sends again until what
\* was sent arrives; stdin owes nobody anything, and no call has to fail but on a
\* reset connection.
Fairness ==
  /\ WF_vars(SetUp)
  /\ WF_vars(Select)
  /\ WF_vars(RecvData \/ RecvEof \/ (rst /\ Fails))
  /\ WF_vars(ReadData \/ ReadEof)
  /\ WF_vars(SendOn \/ (rst /\ Fails))
  /\ WF_vars(Server)
  /\ WF_vars(ArriveUp \/ ArriveFin)
  /\ WF_vars(ArriveDown \/ ArriveFinDown)

FairSpec == Spec /\ Fairness

-----------------------------------------------------------------------------
(* Properties.                                                             *)

\* Every byte read from stdin is in one place: on its way to the server, in the
\* server, on its way back, or on stdout; in the order it was read (335-413).
CopiesInOrder ==
  stdout \o down \o downSent \o buf \o up \o upSent \o rest = [k \in 1..taken |-> k]

\* A round of main_loop() that reads from stdin has first received as much from
\* the connection, if it had arrived (lines 329-413), so that its own receive
\* buffer never adds to what is under way: at most what the three other kernel
\* buffers and the two buf[] hold.  The server's send buffer counts in full, as
\* select() does not see what has not arrived.  Both programs stuck in send()
\* would take 2 * (SendBuf + RecvBuf) + 2 bytes.
LittleUnderWay ==
  Len(upSent) + Len(up) + Len(buf) + Len(downSent) + Len(down) + Len(rest)
    <= 2 * SendBuf + RecvBuf + 2 * BufSize

\* What stdin held when it ended comes back from the echo server, "we still
\* need to read data" (line 396), unless a call fails: the two programs
\* are never both stuck in send().
AllBack == inEof ~> Len(stdout) = typed \/ rst \/ pc = "error"

\* Without -K the program ends when its input has ended and come back.
Ends == inEof /\ ~is_halfclose /\ pc # "start" ~> pc \in Ended
=============================================================================
