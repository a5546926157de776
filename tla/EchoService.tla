---------------------------- MODULE EchoService -----------------------------
(***************************************************************************)
(* What an echo server promises its peers, whatever its architecture: a    *)
(* connection that has been accepted is sent back its own bytes, in order, *)
(* each once, never before the peer has sent them; and unless the          *)
(* connection is reset or the server itself has gone down, it is closed    *)
(* only after the peer has shut down and everything it sent was echoed.    *)
(* No descriptor, buffer, process or poll set appears here.                *)
(***************************************************************************)
EXTENDS Naturals, Sequences

CONSTANTS Conn, MaxSend

VARIABLES
  phase,   \* "idle", "queued", "open" or "closed", per connection
  fin,     \* the peer has shut down its sending side
  rst,     \* the connection has been reset
  sent,    \* bytes the peer has sent
  echoed,  \* the bytes sent back
  up       \* the server accepts connections

svcVars == <<phase, fin, rst, sent, echoed, up>>

Init ==
  /\ phase = [c \in Conn |-> "idle"]
  /\ fin = [c \in Conn |-> FALSE]
  /\ rst = [c \in Conn |-> FALSE]
  /\ sent = [c \in Conn |-> 0]
  /\ echoed = [c \in Conn |-> <<>>]
  /\ up = TRUE

\* A peer connects, sends a byte, shuts down or resets.
Connect(c) ==
  /\ phase[c] = "idle"
  /\ phase' = [phase EXCEPT ![c] = "queued"]
  /\ UNCHANGED <<fin, rst, sent, echoed, up>>

Send(c) ==
  /\ phase[c] \in {"queued", "open"} /\ ~fin[c] /\ ~rst[c]
  /\ sent[c] < MaxSend
  /\ sent' = [sent EXCEPT ![c] = @ + 1]
  /\ UNCHANGED <<phase, fin, rst, echoed, up>>

Shutdown(c) ==
  /\ phase[c] \in {"queued", "open"} /\ ~rst[c]
  /\ fin' = [fin EXCEPT ![c] = TRUE]
  /\ UNCHANGED <<phase, rst, sent, echoed, up>>

Reset(c) ==
  /\ phase[c] \in {"queued", "open"}
  /\ rst' = [rst EXCEPT ![c] = TRUE]
  /\ phase' \in {phase, [phase EXCEPT ![c] = IF @ = "queued" THEN "closed" ELSE @]}
  /\ UNCHANGED <<fin, sent, echoed, up>>

\* The server accepts, echoes the next n bytes of the peer's own stream,
\* hangs up on a peer that is finished or gone, or stops accepting.
Accept(c) ==
  /\ up
  /\ phase[c] = "queued"
  /\ phase' = [phase EXCEPT ![c] = "open"]
  /\ UNCHANGED <<fin, rst, sent, echoed, up>>

Echo(c, n) ==
  /\ phase[c] = "open"
  /\ Len(echoed[c]) + n <= sent[c]
  /\ echoed' = [echoed EXCEPT ![c] = @ \o [k \in 1..n |-> <<c, Len(@) + k>>]]
  /\ UNCHANGED <<phase, fin, rst, sent, up>>

HangUp(c) ==
  /\ phase[c] = "open"
  /\ rst[c] \/ (fin[c] /\ Len(echoed[c]) = sent[c])
  /\ phase' = [phase EXCEPT ![c] = "closed"]
  /\ UNCHANGED <<fin, rst, sent, echoed, up>>

\* A server that is down, or goes down, may drop any of its connections.
GoDown ==
  /\ up' = FALSE
  /\ \E gone \in SUBSET {c \in Conn : phase[c] # "idle"} :
       phase' = [c \in Conn |-> IF c \in gone THEN "closed" ELSE phase[c]]
  /\ UNCHANGED <<fin, rst, sent, echoed>>

Next ==
  \/ GoDown
  \/ \E c \in Conn :
       \/ Connect(c) \/ Send(c) \/ Shutdown(c) \/ Reset(c)
       \/ Accept(c) \/ HangUp(c)
       \/ \E n \in 1..MaxSend : Echo(c, n)

Spec == Init /\ [][Next]_svcVars
=============================================================================
