------------------------------- MODULE Smack -------------------------------
(* util-smack.c, the multi-pattern search: patterns are registered, compiled
   into one table (Aho-Corasick), and the table is run over input that arrives
   in fragments.

   Characters are numbers, as in the code: 0 .. Letters-1 are the upper-case
   letters, Letters .. 2*Letters-1 the same letters in lower case, then come
   the others, among them Star ('*') and Hack (0x80, the byte that patterns
   with SMACK_SNMP_HACK skip).  The two pseudo-characters of the anchors follow,
   like 256 and 257 in the code.  A current_state is the pair its 32 bits hold:
   the row, and how many matches of that row are still to be reported.

   Three numbers are stored in less than the int they are counted in: a symbol
   in an unsigned char, a cell of the table in a transition_t, and the matches
   still to be reported in the upper 8 bits of current_state.  (The row has 24
   of those bits, which a cell of 16 never fills.) *)
EXTENDS Integers, Sequences

CONSTANTS
  Letters,      \* letters of the alphabet
  Chars,        \* characters of the alphabet (256 in the code)
  Star, Hack,   \* '*' and 0x80
  SymbolValues, CellValues, PendingValues  \* numbers each of the three can hold: 256, 65536, 256

ASSUME AlphabetAssumption ==
  /\ Letters \in Nat /\ Chars \in Nat /\ 2 * Letters <= Chars
  /\ Star \in 2 * Letters .. Chars - 1 /\ Hack \in 2 * Letters .. Chars - 1

ASSUME WidthAssumption == {SymbolValues, CellValues, PendingValues} \subseteq Nat \ {0}

AnchorStart == Chars
AnchorEnd   == Chars + 1
Alphabet    == 0 .. Chars + 1
Fail        == -1
ToLower(c)  == IF c < Letters THEN c + Letters ELSE c

Elements(s) == {s[i] : i \in DOMAIN s}
Least(S)    == CHOOSE x \in S : \A y \in S : x <= y
Greatest(S) == CHOOSE x \in S : \A y \in S : y <= x

-----------------------------------------------------------------------------
(* Registering patterns *)

\* The object smack_create() returns.
Create(nocase) ==
  [nocase |-> nocase, symbols |-> <<>>, begin |-> FALSE, end |-> FALSE,
   patterns |-> <<>>, room |-> 0]

AddSymbol(symbols, c) == IF c \in Elements(symbols) THEN symbols ELSE Append(symbols, c)
AddSymbols(symbols, cs) ==
  LET known[n \in 0 .. Len(cs)] == IF n = 0 THEN symbols ELSE AddSymbol(known[n - 1], cs[n])
  IN known[Len(cs)]

\* The pattern as it is kept: in lower case when the engine ignores case.
Kept(sm, pat) ==
  [pat EXCEPT !.text = [i \in DOMAIN @ |-> IF sm.nocase THEN ToLower(@[i]) ELSE @[i]]]

AddPattern(sm, pat) ==
  LET kept  == Kept(sm, pat)
      known == AddSymbols(sm.symbols, kept.text)
  IN [sm EXCEPT !.begin    = @ \/ pat.begin,
                !.end      = @ \/ pat.end,
                !.symbols  = IF pat.hack THEN AddSymbol(known, Hack) ELSE known,
                !.patterns = Append(@, kept),
                !.room     = IF Len(sm.patterns) + 1 >= @ THEN 2 * @ + 1 ELSE @]

-----------------------------------------------------------------------------
(* Compiling.  m is the intermediate table: goto, fail and match of each of the
   `count` states in use. *)

\* Ids are not listed twice when two lists of matches are merged.
AddId(old, ids, id) == IF id \in Elements(old) THEN ids ELSE Append(ids, id)
CopyMatches(old, new) ==
  LET merged[n \in 0 .. Len(new)] == IF n = 0 THEN old ELSE AddId(old, merged[n - 1], new[n])
  IN merged[Len(new)]

NewState(m, s, c) == [m EXCEPT !.goto[s][c] = m.count, !.count = @ + 1]

\* One character further along a pattern: to a state that exists or to a new one.
Extend(at, c, hack) ==
  IF at.m.goto[at.s][c] # Fail THEN [at EXCEPT !.s = at.m.goto[at.s][c]]
  ELSE [m |-> NewState(IF hack THEN [at.m EXCEPT !.goto[at.s][Hack] = at.s] ELSE at.m, at.s, c), s |-> at.m.count]

Path(m, pat) ==
  LET start == [m |-> m, s |-> IF pat.begin THEN m.goto[0][AnchorStart] ELSE 0]
      at[n \in 0 .. Len(pat.text)] == IF n = 0 THEN start ELSE Extend(at[n - 1], pat.text[n], pat.hack)
  IN at[Len(pat.text)]

Ended(at, pat) == IF pat.end THEN [m |-> NewState(at.m, at.s, AnchorEnd), s |-> at.m.count] ELSE at

AddPrefixes(m, pat) ==
  LET last == Ended(Path(m, pat), pat) IN [last.m EXCEPT !.match[last.s] = CopyMatches(@, <<pat.id>>)]

\* The table's size is fixed before it is known which prefixes are shared.
StateMax(patterns) ==
  LET max[n \in 0 .. Len(patterns)] ==
        IF n = 0 THEN 1
        ELSE max[n - 1] + Len(patterns[n].text) + (IF patterns[n].begin THEN 1 ELSE 0) + (IF patterns[n].end THEN 1 ELSE 0)
  IN max[Len(patterns)]

\* create_intermediate_table(), create_matches_table()
Blank(states) ==
  [match |-> [s \in states |-> <<>>], count |-> 1,
   goto |-> [s \in states |-> [a \in Alphabet |-> Fail]], fail |-> [s \in states |-> 0]]

Prefixes(sm) ==
  LET blank == Blank(0 .. StateMax(sm.patterns) - 1)
      full[n \in 0 .. Len(sm.patterns)] ==
        IF n = 0 THEN IF sm.begin THEN NewState(blank, 0, AnchorStart) ELSE blank
        ELSE AddPrefixes(full[n - 1], sm.patterns[n])
  IN full[Len(sm.patterns)]

CompilePrefixes(sm) ==
  [Prefixes(sm) EXCEPT !.goto[0] = [a \in Alphabet |-> IF @[a] = Fail THEN 0 ELSE @[a]]]

\* The states that are enqueued when r is taken from the queue: those one
\* character further, by character, without a loop.
Enqueue(m, r, queue, a) == IF m.goto[r][a] \in {Fail, r} THEN queue ELSE Append(queue, m.goto[r][a])
Below(m, r) ==
  LET queue[n \in 0 .. Chars + 2] == IF n = 0 THEN <<>> ELSE Enqueue(m, r, queue[n - 1], n - 1)
  IN queue[Chars + 2]

\* All that is ever enqueued, in its order; the n-th is the head in the n-th turn.
\* Both walks have this order, for the second changes no row before its turn.
Queued(m, queue, n) == IF n <= Len(queue) THEN queue \o Below(m, queue[n]) ELSE queue
Order(m) ==
  LET queue[n \in 0 .. m.count] == IF n = 0 THEN Below(m, 0) ELSE Queued(m, queue[n - 1], n)
  IN queue[m.count]

\* The first of fail[r], fail[fail[r]], ... that goes on with a.
FallBack(m, f, a) == IF m.goto[f][a] = Fail THEN m.fail[f] ELSE f
FailTarget(m, r, a) ==
  LET f[n \in 0 .. m.count] == IF n = 0 THEN m.fail[r] ELSE FallBack(m, f[n - 1], a)
  IN m.goto[f[m.count]][a]

\* Where the states below r go on when no pattern continues; the longest proper
\* suffix that is itself a prefix, whose matches are matches here too ("BERT" in
\* "ROBERT").
NextStates(m, r) == {m.goto[r][a] : a \in Alphabet} \ {Fail, r}
FailOf(m, r, s) == FailTarget(m, r, CHOOSE a \in Alphabet : m.goto[r][a] = s)
GiveFails(m, r) ==
  [m EXCEPT !.fail  = [s \in DOMAIN @ |-> IF s \in NextStates(m, r) THEN FailOf(m, r, s) ELSE @[s]],
            !.match = [s \in DOMAIN @ |-> IF s \in NextStates(m, r) THEN CopyMatches(@[s], @[FailOf(m, r, s)]) ELSE @[s]]]

WithFails(m) ==
  LET order == Order(m)
      given[n \in 0 .. Len(order)] == IF n = 0 THEN m ELSE GiveFails(given[n - 1], order[n])
  IN given[Len(order)]

Onto(m, r, s, a) == IF s = r /\ m.goto[s][a] = Fail THEN m.goto[m.fail[s]][a] ELSE m.goto[s][a]
LinkRow(m, r) == [m EXCEPT !.goto = [s \in DOMAIN @ |-> [a \in Alphabet |-> Onto(m, r, s, a)]]]

Linked(m) ==
  LET order == Order(m)
      linked[n \in 0 .. Len(order)] == IF n = 0 THEN m ELSE LinkRow(linked[n - 1], order[n])
  IN linked[Len(order)]

\* Two states exchange their rows, and every pointer to them follows.
Other(i, j, s) == IF s = i THEN j ELSE IF s = j THEN i ELSE s
SwapRows(m, i, j) ==
  [m EXCEPT !.goto  = [s \in DOMAIN @ |-> [a \in Alphabet |-> Other(i, j, @[Other(i, j, s)][a])]],
            !.match = [s \in DOMAIN @ |-> @[Other(i, j, s)]]]

\* States with matches go to the end, so that the search can tell them by number:
\* the first with matches changes places with the last without, until it is behind it.
\* (Before `start` there are none with matches and from `end` on none without.)
FirstMatch(m) == Least({s \in 0 .. m.count - 1 : m.match[s] # <<>>} \cup {m.count})
LastEmpty(m)  == Greatest({s \in 0 .. m.count - 1 : m.match[s] = <<>>} \cup {-1})
SortTurn(m)   == IF FirstMatch(m) < LastEmpty(m) THEN SwapRows(m, FirstMatch(m), LastEmpty(m)) ELSE m

Unsorted(m) == [m |-> m, limit |-> 0]   \* Mutation: the stage called "prettify" is left out.

Sorted(m) ==
  LET turn[n \in 0 .. m.count] == IF n = 0 THEN m ELSE SortTurn(turn[n - 1])
  IN [m |-> turn[m.count], limit |-> FirstMatch(turn[m.count])]

\* row_shift_from_symbol_count(): the width of a row, as a power of two.
Doubled(width, symbols) == IF width < symbols THEN 2 * width ELSE width
Width(symbols) ==
  LET width[n \in 0 .. symbols] == IF n = 0 THEN 2 ELSE Doubled(width[n - 1], symbols) IN width[symbols]

\* Character to symbol, cut to its width; 0 stands for every character of no pattern.
AllSymbols(sm) ==
  LET used == IF sm.begin THEN AddSymbol(sm.symbols, AnchorStart) ELSE sm.symbols
  IN IF sm.end THEN AddSymbol(used, AnchorEnd) ELSE used
Place(all, c) == Greatest({i \in DOMAIN all : all[i] = c} \cup {0})
Symbols(sm) ==
  [c \in Alphabet |-> Place(AllSymbols(sm), IF sm.nocase THEN ToLower(c) ELSE c) % SymbolValues]

FinalTableAnyOrder(m, symbols, width) ==   \* Mutation: the first character of a symbol wins.
  [row \in 0 .. m.count - 1 |->
    [k \in 0 .. width - 1 |->
      LET cols == {c \in Alphabet : symbols[c] = k} IN IF cols = {} THEN 0 ELSE m.goto[row][Least(cols)] % CellValues]]

\* One column per symbol.  Characters that share a symbol write the same cell
\* one after the other, an upper-case letter before its lower-case one.  A cell
\* holds the row cut to its width.
FinalTable(m, symbols, width) ==
  [row \in 0 .. m.count - 1 |->
    [k \in 0 .. width - 1 |->
      LET cols == {c \in Alphabet : symbols[c] = k} IN IF cols = {} THEN 0 ELSE m.goto[row][Greatest(cols)] % CellValues]]

Step(d, row, c) == d.table[row][d.symbol[c]]

\* The rows a search passes through, from `row` at `from` on.
Rows(d, row, px, from) ==
  LET r[i \in from .. Len(px)] == IF i = from THEN row ELSE Step(d, r[i - 1], px[i]) IN r

\* A '*' of a wildcard pattern: every cell of its row that leads back to the
\* base leads on instead.  Right only for anchored patterns that do not overlap.
FixupAt(d, sm, pat, j) ==
  IF pat.text[j] # Star THEN d ELSE
  LET row  == Rows(d, 0, pat.text, 0)[j - 1]
      base == IF sm.begin THEN 1 ELSE 0
      next == Step(d, row, Star)
  IN [d EXCEPT !.table[row] = [k \in DOMAIN @ |-> IF @[k] = base THEN next ELSE @[k]]]

FixupPattern(d, sm, pat) ==
  LET fixed[j \in 0 .. Len(pat.text)] == IF j = 0 THEN d ELSE FixupAt(fixed[j - 1], sm, pat, j)
  IN IF pat.wild THEN fixed[Len(pat.text)] ELSE d

FixupWildcards(d, sm) ==
  LET fixed[n \in 0 .. Len(sm.patterns)] == IF n = 0 THEN d ELSE FixupPattern(fixed[n - 1], sm, sm.patterns[n])
  IN fixed[Len(sm.patterns)]

\* The row of the text's beginning becomes row 0, where every search starts.
AnchorFirst(sm, m) == IF sm.begin THEN SwapRows(m, 0, 1) ELSE m

Assembled(rows, sm) ==
  [table |-> FinalTable(rows.m, Symbols(sm), Width(Len(AllSymbols(sm)) + 1)), match |-> rows.m.match,
   limit |-> rows.limit, symbol |-> Symbols(sm), count |-> rows.m.count]

Rowed(sm) == Sorted(AnchorFirst(sm, Linked(WithFails(CompilePrefixes(sm)))))
Compiled(sm) == FixupWildcards(Assembled(Rowed(sm), sm), sm)

\* The symbols, the rows and the matches of every row are few enough for the
\* numbers that are kept of them: nothing of d, compiled from sm, was cut, and no
\* count of pending matches will be.
NothingCut(sm, d) ==
  /\ Len(AllSymbols(sm)) < SymbolValues /\ d.count <= CellValues
  /\ \A row \in 0 .. d.count - 1 : Len(d.match[row]) <= PendingValues

-----------------------------------------------------------------------------
(* Searching *)

Start == [row |-> 0, pending |-> 0]

\* smack_search(): a whole fragment, with a callback for every match; `found`
\* is the sequence of <<id, bytes read>>.
Report(dfa, at, c, i) ==
  LET row == Step(dfa, at.row, c)
  IN [row |-> row, found |-> at.found \o [k \in DOMAIN dfa.match[row] |-> <<dfa.match[row][k], i>>]]
Search(dfa, state, px) ==
  LET at[i \in 0 .. Len(px)] == IF i = 0 THEN [row |-> state.row, found |-> <<>>] ELSE Report(dfa, at[i - 1], px[i], i)
  IN at[Len(px)]

\* The row and the offset where the scan of px stops: at a match or at the end.
InnerMatch(dfa, row, px, offset) ==
  LET rows  == Rows(dfa, row, px, offset)
      stops == {i \in offset + 1 .. Len(px) : rows[i] >= dfa.limit}
  IN IF stops = {} THEN [row |-> rows[Len(px)], i |-> Len(px)]
     ELSE [row |-> rows[Least(stops)], i |-> Least(stops) - 1]

\* smack_search_next(): the matches of a row come out last id first, one a call,
\* before any more input is read.  Where none is pending and no input is left, the
\* row the last call stopped at is taken for a new match.
SearchNext(dfa, state, px, offset) ==
  LET at    == IF state.pending # 0 THEN [row |-> state.row, i |-> offset]
               ELSE InnerMatch(dfa, state.row, px, offset)
      fresh == state.pending = 0 /\ dfa.match[at.row] # <<>>
      left  == IF fresh THEN Len(dfa.match[at.row]) ELSE state.pending
  IN [ids    |-> IF left = 0 THEN <<>> ELSE <<dfa.match[at.row][left]>>,
      offset |-> IF fresh THEN at.i + 1 ELSE at.i,
      state  |-> [row |-> at.row, pending |-> IF left = 0 THEN 0 ELSE (left - 1) % PendingValues]]

NextMatch(dfa, state) ==
  [ids   |-> IF state.pending = 0 THEN <<>> ELSE <<dfa.match[state.row][state.pending]>>,
   state |-> [state EXCEPT !.pending = IF @ = 0 THEN 0 ELSE @ - 1]]

\* smack_search_done() reports one id and leaves the state alone,
\* smack_search_end() reports all and moves to the row of the anchor.
SearchDone(dfa, state) ==
  LET ids == dfa.match[Step(dfa, state.row, AnchorEnd)] IN IF ids = <<>> THEN <<>> ELSE <<ids[1]>>
SearchEnd(dfa, state) ==
  LET row == Step(dfa, state.row, AnchorEnd)
  IN [ids |-> dfa.match[row], state |-> [row |-> row, pending |-> 0]]
=============================================================================
