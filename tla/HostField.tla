----------------------------- MODULE HostField -----------------------------
(* parse-http-fields.c: the value of a Host field, one byte a call.  Bytes are
   ASCII codes.  The text goes to the end of the header's buffer, which grows
   when it is full; the port is a number.  The caller that finds the fields of
   a header does not exist yet; see NextField. *)
EXTENDS Ctype, Sequences

CONSTANTS
  HostBytes,       \* the bytes of a value
  MaxHostBytes,    \* bound: bytes of a header's Host fields
  MaxPort,         \* 65535
  PortValues       \* values of an unsigned: 2^32

ASSUME HostAssumption ==
  HostBytes \subseteq 0 .. 255 /\ MaxPort \in Nat /\ PortValues \in Nat /\ 10 * (MaxPort + 1) <= PortValues

VARIABLES
  host,         \* the part of struct httpheader that http_parse_host() uses
  value,        \* the bytes of the field so far
  fed,          \* bytes of all the fields so far
  fields        \* Host fields of the header so far

hostVars == <<host, value, fed, fields>>

HostInit ==
  /\ host = [state2 |-> "START", offset |-> 0, length |-> 0, port |-> 0, error |-> FALSE,
             buf |-> <<>>, room |-> 0]
  /\ value = <<>> /\ fed = 0 /\ fields = 1

\* _field_append()
Stored(h, c) == [h EXCEPT !.buf = Append(@, c)]

\* _field_length(): what is left of the buffer, not what is in the field.
FieldLength(h) == h.room - Len(h.buf)

Grown(h) == IF Len(h.buf) >= h.room THEN [h EXCEPT !.room = 2 * @ + 1] ELSE h

DigitBytes == 48 .. 57

HostState(h, state) == [h EXCEPT !.state2 = state]
HostError(h) == [h EXCEPT !.error = TRUE]

\* A second Host field is refused if the first left an offset or a length.
HostStart(h, c) ==
  IF h.offset # 0 \/ h.length # 0 THEN HostState(HostError(h), "ERROR")
  ELSE IF c = 10 THEN HostError(h)
  ELSE HostState(Stored([h EXCEPT !.offset = Len(h.buf)], c), IF c = 91 THEN "IPV6" ELSE "TEXT")

HostText(h, c) ==
  CASE c = 10            -> [h EXCEPT !.length = FieldLength(h)]
    [] c = 58            -> HostState(h, "PORT")
    [] c \in {32, 13, 9} -> HostState([h EXCEPT !.length = FieldLength(h)], "TEXT_SPACE")
    [] OTHER             -> Stored(h, c)

HostTextSpace(h, c) ==
  CASE c = 58                -> HostState(h, "PORT")
    [] c \in {10, 32, 13, 9} -> h
    [] OTHER                 -> HostError(h)

\* Mutation: the number is compared before the digit is added.
HostPortLate(h, c) ==
  CASE c \in DigitBytes      -> [h EXCEPT !.port = (10 * @ + c - 48) % PortValues, !.error = @ \/ h.port > MaxPort]
    [] c = 10            -> h
    [] c \in {32, 13, 9} -> HostState(h, "PORT_SPACE")
    [] OTHER             -> Stored(h, c)

HostPort(h, c) ==
  CASE c \in DigitBytes      -> LET port == (10 * h.port + c - 48) % PortValues
                            IN [h EXCEPT !.port = port, !.error = @ \/ port > MaxPort]
    [] c = 10            -> h
    [] c \in {32, 13, 9} -> HostState(h, "PORT_SPACE")
    [] OTHER             -> Stored(h, c)

\* http_parse_host(): there is no case for "IPV6" but the default.
ParseHost(header, c) ==
  LET h == Grown(header)
  IN CASE h.state2 = "START"      -> HostStart(h, c)
       [] h.state2 = "TEXT"       -> HostText(h, c)
       [] h.state2 = "TEXT_SPACE" -> HostTextSpace(h, c)
       [] h.state2 = "PORT"       -> HostPort(h, c)
       [] h.state2 = "PORT_SPACE" -> IF ISSPACE(c) THEN h ELSE HostError(h)
       [] OTHER                   -> HostState(HostError(h), "ERROR")

FieldEnded == value # <<>> /\ value[Len(value)] = 10

FeedHost ==
  /\ fed < MaxHostBytes /\ ~FieldEnded
  /\ \E c \in HostBytes : host' = ParseHost(host, c) /\ value' = Append(value, c)
  /\ fed' = fed + 1
  /\ UNCHANGED fields

\* "Set to zero (0) to start parsing the field" (parse-http.h:31)
NextField ==
  /\ FieldEnded
  /\ host' = HostState(host, "START") /\ value' = <<>> /\ fields' = fields + 1
  /\ UNCHANGED fed

HostNext == FeedHost \/ NextField
HostSpec == HostInit /\ [][HostNext]_hostVars

-----------------------------------------------------------------------------
White == {9, 10, 13, 32}

\* The first place of one of the codes in s from the i-th on, or the one after its end.
FirstFrom(s, i, codes) ==
  CHOOSE k \in 1 .. Len(s) + 1 :
    /\ k <= Len(s) => k >= i /\ s[k] \in codes
    /\ \A j \in i .. k - 1 : s[j] \notin codes

\* The number that the digits of s make, and what is left without them.
Counted(n, c)      == IF c \in DigitBytes THEN 10 * n + c - 48 ELSE n
WithoutDigit(s, c) == IF c \in DigitBytes THEN s ELSE Append(s, c)
Decimal(s)  == LET n[i \in 0 .. Len(s)] == IF i = 0 THEN 0 ELSE Counted(n[i - 1], s[i]) IN n[Len(s)]
NoDigits(s) == LET r[i \in 0 .. Len(s)] == IF i = 0 THEN <<>> ELSE WithoutDigit(r[i - 1], s[i]) IN r[Len(s)]

\* The value's parts: text, white space, ':', port, white space.
TextEnd == FirstFrom(value, 2, White \cup {58})
Colon   == FirstFrom(value, 2, {58})
PortEnd == FirstFrom(value, Colon + 1, White)
HostPart == SubSeq(value, 1, TextEnd - 1)
PortPart == SubSeq(value, Colon + 1, PortEnd - 1)

\* No byte is stored beyond the buffer, in any number of fields; and in the first
\* field, until an error is recorded, what is stored is the text before the
\* colon or white space (and what follows the colon without being a digit), the
\* port is the number its digits make, in no more than 16 bits, and white space
\* has stood only after the text and after the port (http_parse_host()).
HostFieldRead ==
  /\ Len(host.buf) <= host.room
  /\ ~host.error /\ value # <<>> /\ fields = 1 =>
       /\ host.buf = HostPart \o NoDigits(PortPart)
       /\ host.port = Decimal(PortPart) /\ host.port <= MaxPort
       /\ \A i \in TextEnd .. Colon - 1 : value[i] \in White
       /\ \A i \in PortEnd .. Len(value) : ISSPACE(value[i])
=============================================================================
