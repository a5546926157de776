----------------------------- MODULE ClientPoll -----------------------------
(***************************************************************************)
(* tcp-client-poll.c: a client on one thread that opens connections to     *)
(* echo servers and keeps one packet going round on each: it sends the     *)
(* packet, waits for it to come back and sends again what came back.  The  *)
(* sockets are non-blocking; connect() goes on in the background and poll()*)
(* tells of it.                                                            *)
(*                                                                         *)
(* A connection is removed only just before exit(1), so entry k of both    *)
(* arrays is the k-th connection for as long as the program runs.          *)
(***************************************************************************)
EXTENDS Integers, Sequences

CONSTANTS
  Wanted,    \* values of the -c option: how many connections are asked for
  Default,   \* connections without -c: 100
  MaxTargets, \* bound: addresses of targets
  MaxConn,   \* how many sockets RLIMIT_NOFILE leaves
  Packet,    \* bytes of the first packet: 16
  BufSize,   \* sizeof(buf): 512
  MaxBytes   \* bound: how many bytes the server echoes on a connection

ASSUME ClientAssumption ==
  /\ Wanted \subseteq Nat \ {0}
  /\ Default \in Nat \ {0}
  /\ MaxTargets \in Nat
  /\ MaxConn \in Nat
  /\ Packet \in Nat \ {0}
  /\ BufSize \in Nat /\ BufSize >= Packet
  /\ MaxBytes \in Nat

VARIABLES
  events,           \* of struct pollfd, for each entry
  revents,          \* the same; what is not going to be looked at again is {}
  buf,              \* the bytes c->buf holds for sending, c->len of them; else <<>>
  bytes_sent, bytes_received,
  targets,          \* targets_count: addresses to connect to
  count, max,       \* entries in use and allocated
  i,                \* the index of main()'s loops
  pc,               \* where main() is
  net,              \* net[k]: what has become of connection k
  transit,          \* transit[k]: bytes sent that have not come back, oldest first
  arrived           \* arrived[k]: how many of them the server has sent back

entryVars == <<events, revents, buf, bytes_sent, bytes_received>>
netVars == <<net, transit, arrived>>
vars == <<entryVars, targets, count, max, i, pc, netVars>>

Entries == 0..(count - 1)
Byte == 1..Packet
None == [k \in {} |-> 0]

\* dispatcher_create(): memset() to 0.
Init ==
  /\ events = None /\ revents = None /\ buf = None
  /\ bytes_sent = None /\ bytes_received = None
  /\ targets = 0
  /\ count = 0
  /\ max = 0
  /\ i = 0
  /\ pc = "arguments"
  /\ net = None /\ transit = None /\ arrived = None

-----------------------------------------------------------------------------
(* The dispatcher's operations.                                            *)

\* A function over the entries with one more at the end.
With(f, e) == [k \in 0..count |-> IF k = count THEN e ELSE f[k]]

FirstPacket == [n \in 1..Packet |-> n]

\* dispatcher_connect_next(): a socket, dispatcher_add() with the first packet
\* in its buffer, and a connect() that goes on or has succeeded at once.
ConnectNext ==
  /\ count < MaxConn
  /\ events' = With(events, "OUT")
  /\ revents' = With(revents, {})
  /\ buf' = With(buf, FirstPacket)
  /\ bytes_sent' = With(bytes_sent, 0)
  /\ bytes_received' = With(bytes_received, 0)
  /\ \E outcome \in {"connecting", "up"} : net' = With(net, outcome)
  /\ transit' = With(transit, <<>>)
  /\ arrived' = With(arrived, 0)
  /\ count' = count + 1
  /\ max' = IF count + 1 >= max THEN max + 1 ELSE max

\* exit(1) closes everything; what the variables hold no longer matters.
Exit == pc' = "exit" /\ UNCHANGED <<entryVars, targets, count, max, i, netVars>>

-----------------------------------------------------------------------------
(* dispatcher_parse_command_line().  Sources (-s) are looked up and never  *)
(* used, and a target that cannot be looked up is only reported.           *)

\* dispatcher_add_target(): every address of the name.
AddTarget ==
  /\ pc = "arguments"
  /\ \E addresses \in 1..(MaxTargets - targets) : targets' = targets + addresses
  /\ UNCHANGED <<entryVars, count, max, i, pc, netVars>>

\* -c: dispatcher_alloc_connections()
AskFor ==
  /\ pc = "arguments"
  /\ max' \in Wanted
  /\ UNCHANGED <<entryVars, targets, count, i, pc, netVars>>

\* An unknown option, a count that is none, or no target at the end.
Misused == pc = "arguments" /\ Exit

ArgumentsRead ==
  /\ pc = "arguments"
  /\ targets > 0
  /\ max' = IF max = 0 THEN Default ELSE max
  /\ pc' = "start"
  /\ UNCHANGED <<entryVars, targets, count, i, netVars>>

CommandLine == AddTarget \/ AskFor \/ Misused \/ ArgumentsRead

-----------------------------------------------------------------------------
(* main().                                                                 *)

\* The first connections, at most ten.
StartOne ==
  /\ pc = "start"
  /\ i < 10 /\ i < targets
  /\ ConnectNext
  /\ i' = i + 1
  /\ UNCHANGED <<targets, pc>>

Started ==
  /\ pc = "start"
  /\ i = 10 \/ i = targets
  /\ pc' = "next"
  /\ UNCHANGED <<entryVars, targets, count, max, i, netVars>>

\* Each turn of the dispatch loop opens another connection while there is room.
OneMore ==
  /\ pc = "next"
  /\ IF count < max THEN ConnectNext
                    ELSE UNCHANGED <<entryVars, count, max, netVars>>
  /\ pc' = "poll"
  /\ UNCHANGED <<targets, i>>

\* socket() == -1 for want of descriptors, or connect() fails at once.
ConnectFails ==
  /\ (pc = "start" /\ i < 10 /\ i < targets) \/ (pc = "next" /\ count < max)
  /\ Exit

\* What poll() reports of entry k; a peer that does not read leaves no room to
\* send.  Kernels differ (`bare`) in whether POLLHUP comes with a reset and with
\* the end of the stream.
Revents(k, slow, bare) ==
  LET On(e, cond) == IF cond THEN {e} ELSE {}
      failed == net[k] \in {"refused", "reset"}
  IN  On("IN", events[k] = "IN" /\ (arrived[k] > 0 \/ net[k] = "closed" \/ failed))
      \cup On("OUT", events[k] = "OUT" /\ net[k] # "connecting" /\ (k \notin slow \/ failed))
      \cup On("HUP", net[k] = "refused" \/ (net[k] \in {"closed", "reset"} /\ ~bare))
      \cup On("ERR", failed)

Poll ==
  /\ pc = "poll"
  /\ \E slow \in SUBSET Entries, bare \in BOOLEAN :
       revents' = [k \in Entries |-> Revents(k, slow, bare)]
  /\ IF \A k \in Entries : revents'[k] = {}
       THEN pc' = "next" /\ UNCHANGED i
       ELSE pc' = "handle" /\ i' = 1
  /\ UNCHANGED <<events, buf, bytes_sent, bytes_received, targets, count, max, netVars>>

\* poll() == -1: the loop ends, dispatcher_destroy().
PollFails == pc = "poll" /\ Exit

Handling == pc = "handle" /\ i < count
Handled == revents' = [revents EXCEPT ![i] = {}] /\ i' = i + 1
Failed == revents[i] \cap {"HUP", "ERR"} # {}
Untouched == bytes_received[i] = 0 /\ bytes_sent[i] = 0

SkipIdle ==
  /\ Handling
  /\ revents[i] = {}
  /\ i' = i + 1
  /\ UNCHANGED <<entryVars, targets, count, max, pc, netVars>>

\* POLLHUP on a connection that never carried a byte is taken for a refusal and
\* only printed.  The entry stays.
Refused ==
  /\ Handling
  /\ "HUP" \in revents[i] /\ Untouched
  /\ Handled
  /\ UNCHANGED <<events, buf, bytes_sent, bytes_received, targets, count, max, pc, netVars>>

\* Mutation: a refusal is not told from a connection that broke.
HangUpAny == Handling /\ Failed /\ Exit

\* POLLHUP on a connection in use, or POLLERR.
HangUp ==
  /\ Handling
  /\ Failed
  /\ "HUP" \in revents[i] => ~Untouched
  /\ Exit

\* recv() takes what has come back, up to the size of the buffer.
RecvData ==
  LET n == IF arrived[i] < BufSize THEN arrived[i] ELSE BufSize IN
  /\ Handling
  /\ "IN" \in revents[i] /\ ~Failed
  /\ n > 0
  /\ buf' = [buf EXCEPT ![i] = SubSeq(transit[i], 1, n)]
  /\ transit' = [transit EXCEPT ![i] = SubSeq(@, n + 1, Len(@))]
  /\ arrived' = [arrived EXCEPT ![i] = @ - n]
  /\ bytes_received' = [bytes_received EXCEPT ![i] = @ + n]
  /\ events' = [events EXCEPT ![i] = "OUT"]
  /\ Handled
  /\ UNCHANGED <<bytes_sent, targets, count, max, pc, net>>

\* recv() == 0, or recv() == -1 (a reset, or nothing there after all).
RecvEnds ==
  /\ Handling
  /\ "IN" \in revents[i] /\ ~Failed
  /\ net[i] = "reset" \/ arrived[i] = 0
  /\ Exit

\* Mutation: what is left is not moved to the front of the buffer.
SendSomeUnmoved(n) ==
  /\ Handling
  /\ "OUT" \in revents[i] /\ ~Failed /\ net[i] \in {"up", "closed"}
  /\ n \in 1..Len(buf[i])
  /\ transit' = [transit EXCEPT ![i] = @ \o SubSeq(buf[i], 1, n)]
  /\ bytes_sent' = [bytes_sent EXCEPT ![i] = @ + n]
  /\ IF n < Len(buf[i])
       THEN buf' = [buf EXCEPT ![i] = SubSeq(@, 1, Len(@) - n)] /\ UNCHANGED events
       ELSE buf' = [buf EXCEPT ![i] = <<>>] /\ events' = [events EXCEPT ![i] = "IN"]
  /\ Handled
  /\ UNCHANGED <<bytes_received, targets, count, max, pc, net, arrived>>

\* send() takes n bytes; the rest waits for the next POLLOUT.
SendSome(n) ==
  /\ Handling
  /\ "OUT" \in revents[i] /\ ~Failed /\ net[i] \in {"up", "closed"}
  /\ n \in 1..Len(buf[i])
  /\ transit' = [transit EXCEPT ![i] = @ \o SubSeq(buf[i], 1, n)]
  /\ bytes_sent' = [bytes_sent EXCEPT ![i] = @ + n]
  /\ buf' = [buf EXCEPT ![i] = SubSeq(@, n + 1, Len(@))]
  /\ events' = IF n < Len(buf[i]) THEN events ELSE [events EXCEPT ![i] = "IN"]
  /\ Handled
  /\ UNCHANGED <<bytes_received, targets, count, max, pc, net, arrived>>

Send == \E n \in 1..BufSize : SendSome(n)

\* send() == -1: the connection was reset, or is not connected.
SendFails ==
  /\ Handling
  /\ "OUT" \in revents[i] /\ ~Failed
  /\ net[i] \notin {"up", "closed"}
  /\ Exit

EndPass ==
  /\ pc = "handle" /\ i >= count
  /\ pc' = "next"
  /\ revents' = [k \in Entries |-> {}]
  /\ UNCHANGED <<events, buf, bytes_sent, bytes_received, targets, count, max, i, netVars>>

Client ==
  \/ CommandLine \/ StartOne \/ Started \/ OneMore \/ ConnectFails \/ Poll \/ PollFails
  \/ SkipIdle \/ Refused \/ HangUp \/ RecvData \/ RecvEnds \/ Send \/ SendFails \/ EndPass

-----------------------------------------------------------------------------
(* The servers and the network.                                            *)

Becomes(k, state) == net' = [net EXCEPT ![k] = state] /\ UNCHANGED <<transit, arrived>>

Network(k) ==
  \/ net[k] = "connecting" /\ \E outcome \in {"up", "refused"} : Becomes(k, outcome)
  \/ net[k] \in {"up", "closed"} /\ \E ending \in {"closed", "reset"} : Becomes(k, ending)
  \/ /\ net[k] = "up"
     /\ arrived[k] < Len(transit[k])
     /\ bytes_received[k] + arrived[k] < MaxBytes
     /\ arrived' = [arrived EXCEPT ![k] = @ + 1]
     /\ UNCHANGED <<net, transit>>

Servers ==
  /\ pc # "exit"
  /\ \E k \in Entries : Network(k)
  /\ UNCHANGED <<entryVars, targets, count, max, i, pc>>

Next == Client \/ Servers

Spec == Init /\ [][Next]_vars

-----------------------------------------------------------------------------
(* Properties.                                                             *)

\* Bytes a .. b of the packet repeated for ever.
Pattern(a, b) == [n \in 1..(b - a + 1) |-> ((a + n - 2) % Packet) + 1]

\* On each connection one packet goes round: what is under way to and from the
\* server, followed by what waits to be sent, is the packet from where the
\* client has received it, no byte lost, added or moved, however sends and
\* receives are split (lines 519-561).  A connection never waits for data when
\* there is none under way.
Circulates ==
  \A k \in Entries :
    /\ transit[k] \o buf[k] = Pattern(bytes_received[k] + 1, bytes_received[k] + Packet)
    /\ bytes_sent[k] = bytes_received[k] + Len(transit[k])
    /\ (events[k] = "OUT") <=> (buf[k] # <<>>)

\* Once it is handling events the program gives up only when a server has
\* closed or reset a connection that was up: not for a refused connection, and
\* not because an event of the snapshot is no longer true (lines 490-567).
ExitsForAReason ==
  [][pc = "handle" /\ pc' = "exit" => \E k \in Entries : net[k] \in {"closed", "reset"}]_vars

-----------------------------------------------------------------------------
(* What a comment of the source says and the program does not do.          *)

\* Line 484, "handle all the TCP connections": when the loop over the
\* connections is done, nothing poll() has reported is left unhandled.
HandlesAll ==
  [][pc = "handle" /\ pc' = "next" => \A k \in Entries : revents[k] = {}]_vars
=============================================================================
