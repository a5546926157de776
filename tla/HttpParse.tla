----------------------------- MODULE HttpParse -----------------------------
(* parse-http.c: the first line of an HTTP request, one byte a call.  The method
   is looked up in a SMACK whose patterns are anchored at both ends; the URI is
   only skipped (httpparse_next_uri() does nothing yet), so that its decoded
   bytes (tmp, hexval()) reach nobody.  A character is a number of the SMACK's
   alphabet, and Code gives its ASCII code. *)
EXTENDS Ctype, Smack

CONSTANTS
  Code,           \* ASCII code of a character
  MethodTexts,    \* the methods, in lower case; an id is a place in the list
  Pieces,         \* the lines are put together from these
  MaxPieces,      \* bound: pieces of a line
  Debug           \* built with -DDEBUG: smack_compile() keeps its patterns

\* Two characters have two codes, and the search and the parser agree about case.
ASSUME HttpAssumption ==
  /\ Code \in [0 .. Chars - 1 -> 0 .. 255] /\ Debug \in BOOLEAN
  /\ \A a, b \in 0 .. Chars - 1 : Code[a] = Code[b] => a = b
  /\ \A c \in 0 .. Chars - 1 : Code[ToLower(c)] = TOLOWER(Code[c])
  /\ MethodTexts \in Seq(Seq(Letters .. 2 * Letters - 1))
  /\ \A i, j \in DOMAIN MethodTexts : MethodTexts[i] # <<>> /\ (MethodTexts[i] = MethodTexts[j] => i = j)
  /\ Pieces \subseteq Seq(0 .. Chars - 1)

VARIABLES
  parser,    \* "created", "compiled" or "crashed"
  methods,   \* the compiled table of the methods
  hdr,       \* struct httpheader
  line,      \* the bytes given to httpparse_next() since httpparse_start()
  pieces     \* how many pieces they came from

httpVars == <<parser, methods, hdr, line, pieces>>

TAB == 9   LF == 10   CR == 13   SP == 32
Percent == 37
LowerCode(c) == TOLOWER(Code[c])

Anchored(id) ==
  [text |-> MethodTexts[id], id |-> id, begin |-> TRUE, end |-> TRUE, wild |-> FALSE, hack |-> FALSE]
Methods ==
  LET known[n \in 0 .. Len(MethodTexts)] ==
        IF n = 0 THEN Create(TRUE) ELSE AddPattern(known[n - 1], Anchored(n))
  IN known[Len(MethodTexts)]

\* The names of the methods are few and short: their table fits the widths.
ASSUME MethodsAssumption == NothingCut(Methods, Compiled(Methods))

Zeroed ==
  [state1 |-> "SPACE0", state2 |-> Start, method |-> 0, major |-> 0, minor |-> 0, error |-> FALSE]

HttpInit == parser = "created" /\ methods = <<>> /\ hdr = Zeroed /\ line = <<>> /\ pieces = 0

\* The patterns are compiled, then, where the URI prefixes were meant, compiled
\* again: their list was freed by the first time unless the build keeps it, and
\* the second walks a NULL list.
HttpCompile ==
  /\ parser = "created"
  /\ parser' = IF Debug THEN "compiled" ELSE "crashed"
  /\ methods' = Compiled(Methods)
  /\ UNCHANGED <<hdr, line, pieces>>

-----------------------------------------------------------------------------
(* httpparse_next(), by the state it finds *)

To(h, state) == [h EXCEPT !.state1 = state]

Method(h, c) ==
  IF Code[c] = LF THEN To(h, "EOL")
  ELSE IF ISSPACE(Code[c])
  THEN LET ids == SearchDone(methods, h.state2)
       IN To([h EXCEPT !.method = IF ids = <<>> THEN -1 ELSE ids[1]], "SPACE1")
  ELSE To([h EXCEPT !.state2 = SearchNext(methods, @, <<c>>, 0).state], "METHOD")

Uri(h, c) ==
  To(h, CASE Code[c] = Percent         -> "URL_PERCENT1"
          [] Code[c] \in {SP, TAB, CR} -> "SPACE2"
          [] Code[c] = LF              -> "EOL"
          [] OTHER                     -> "URI")

Percent1Resumes(h, c) ==   \* Mutation: the byte after a lone '%' is always part of the URI.
  IF ISXDIGIT(Code[c]) THEN To(h, "URL_PERCENT2") ELSE To([h EXCEPT !.error = TRUE], "URI")

Percent1(h, c) ==
  IF ISXDIGIT(Code[c]) THEN To(h, "URL_PERCENT2")
  ELSE To([h EXCEPT !.error = TRUE], IF Code[c] = LF THEN "EOL" ELSE "URI")

\* The states of "HTTP/": the letter each one waits for, and the next state.
Wanted ==
  [SPACE2 |-> <<104, "VERSION_H">>, VERSION_H |-> <<116, "VERSION_HT">>, VERSION_HT |-> <<116, "VERSION_HTT">>,
   VERSION_HTT |-> <<112, "VERSION_HTTP">>, VERSION_HTTP |-> <<47, "VERSION_HTTPMAJ">>]

Version(h, c) ==
  To(h, CASE Code[c] = LF                                            -> "EOL"
          [] h.state1 = "SPACE2" /\ Code[c] \in {SP, TAB, CR}        -> "SPACE2"
          [] LowerCode(c) = Wanted[h.state1][1]                      -> Wanted[h.state1][2]
          [] OTHER                                                   -> "VERSION_ERR")

\* A number is an unsigned char; it may grow while it is below 100.
Number(h, field, c) ==
  CASE Code[c] = LF                           -> To(h, "EOL")
    [] Code[c] = CR                           -> h
    [] ISDIGIT(Code[c]) /\ h[field] < 100     -> [h EXCEPT ![field] = (10 * @ + Code[c] - 48) % 256]
    [] ISDIGIT(Code[c]) /\ h[field] >= 100    -> To([h EXCEPT ![field] = 0], "VERSION_ERR")
    [] Code[c] = 46 /\ field = "major"        -> To(h, "VERSION_HTTPMIN")
    [] OTHER                                  -> To(h, "VERSION_ERR")

NextByte(h, c) ==
  CASE h.state1 = "SPACE0"          -> LET g == [h EXCEPT !.state2 = Start]
                                       IN IF ISSPACE(Code[c]) THEN g ELSE Method(g, c)
    [] h.state1 = "METHOD"          -> Method(h, c)
    [] h.state1 = "SPACE1"          -> IF Code[c] = LF THEN To(h, "EOL")
                                       ELSE IF ISSPACE(Code[c]) THEN h ELSE Uri(h, c)
    [] h.state1 = "URI"             -> Uri(h, c)
    [] h.state1 = "URL_PERCENT1"    -> Percent1(h, c)
    [] h.state1 = "URL_PERCENT2"    -> To(h, IF Code[c] = LF THEN "EOL" ELSE "URI")
    [] h.state1 \in DOMAIN Wanted   -> Version(h, c)
    [] h.state1 = "VERSION_HTTPMAJ" -> Number(h, "major", c)
    [] h.state1 = "VERSION_HTTPMIN" -> Number(h, "minor", c)
    [] h.state1 = "VERSION_ERR"     -> IF Code[c] = LF THEN To(h, "EOL") ELSE h
    [] h.state1 = "EOL"             -> h

\* httpparse_next() is called with one byte after the other.
NextBytes(h, px) ==
  LET read[n \in 0 .. Len(px)] == IF n = 0 THEN h ELSE NextByte(read[n - 1], px[n])
  IN read[Len(px)]

Feed ==
  /\ parser = "compiled" /\ hdr.state1 # "EOL" /\ pieces < MaxPieces
  /\ \E p \in Pieces : hdr' = NextBytes(hdr, p) /\ line' = line \o p
  /\ pieces' = pieces + 1
  /\ UNCHANGED <<parser, methods>>

\* httpparse_start(), httpparse_begin(): for the next request.
HttpStart ==
  /\ parser = "compiled" /\ line # <<>>
  /\ hdr' = Zeroed /\ line' = <<>> /\ pieces' = 0
  /\ UNCHANGED <<parser, methods>>

HttpNext == HttpCompile \/ Feed \/ HttpStart

HttpSpec == HttpInit /\ [][HttpNext]_httpVars

-----------------------------------------------------------------------------
Space(c) == ISSPACE(Code[c])
LineSpace(c) == Code[c] \in {SP, TAB, CR}

\* The line without leading white space, up to its '\n' if that has come.
First  == Least({n \in 1 .. Len(line) : ~Space(line[n])} \cup {Len(line) + 1})
Ending == Least({n \in First .. Len(line) : Code[line[n]] = LF} \cup {Len(line) + 1})
Between(i, j) == SubSeq(line, i, j)
Http == <<104, 116, 116, 112, 47>>
Codes(s) == [i \in DOMAIN s |-> LowerCode(s[i])]
Digits(s) == Len(s) \in 1 .. 2 /\ \A i \in DOMAIN s : Code[s[i]] \in 48 .. 57
Digit(c) == Code[c] - 48
Value(s) == IF Len(s) = 1 THEN Digit(s[1]) ELSE 10 * Digit(s[1]) + Digit(s[2])

MethodOf(word) ==
  LET ids == {id \in DOMAIN MethodTexts : Codes(MethodTexts[id]) = Codes(word)}
  IN IF ids = {} THEN -1 ELSE CHOOSE id \in ids : TRUE

\* The line's last byte before '\n' or "\r\n".
Stop == IF Code[line[Ending - 1]] = CR THEN Ending - 2 ELSE Ending - 1

\* From i to j is white space and a URI that a well-formed request can have.
UriBetween(i, j) ==
  /\ Space(line[i]) /\ ~Space(line[i + 1]) /\ LineSpace(line[j])
  /\ \A n \in First .. i - 1 : Space(line[n]) => \A k \in n .. i : Space(line[k])
  /\ \A n \in i + 1 .. j - 1 :
       /\ ~LineSpace(line[n])
       /\ Code[line[n]] = Percent => n + 2 < j /\ ISXDIGIT(Code[line[n + 1]]) /\ ISXDIGIT(Code[line[n + 2]])

\* What the parser says of a request line: it ends at the '\n', whatever states
\* the bytes before led through, and at no other byte; the method is the
\* one whose name, in any case, is the whole first word, or -1; and where the
\* last word is HTTP/a.b after a URI whose every '%' has two hexadecimal digits,
\* a and b are the version (httpparse_next(), httpparser_compile()).
LineParsed ==
  parser = "compiled" /\ First <= Len(line) =>
    /\ hdr.state1 = "EOL" <=> Ending <= Len(line)
    /\ hdr.state1 = "EOL" =>
         /\ \A i \in First + 1 .. Ending - 1 :
              Space(line[i]) /\ (\A k \in First .. i - 1 : ~Space(line[k])) =>
                hdr.method = MethodOf(Between(First, i - 1))
         /\ \A i \in First + 1 .. Stop : \A j \in i + 1 .. Stop - 6 : \A d \in j + 6 .. Stop :
              /\ UriBetween(i, j) /\ Codes(Between(j + 1, j + 5)) = Http /\ Code[line[d]] = 46
              /\ Digits(Between(j + 6, d - 1)) /\ Digits(Between(d + 1, Stop))
              => hdr.major = Value(Between(j + 6, d - 1)) /\ hdr.minor = Value(Between(d + 1, Stop))

\* httpparser_selftest() compiles a parser and goes on: httpparser_compile()
\* returns (parse-http.c:423).
CompileReturns == parser # "crashed"
=============================================================================
