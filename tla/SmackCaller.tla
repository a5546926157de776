----------------------------- MODULE SmackCaller -----------------------------
(* A caller of Smack: registers patterns, compiles, and searches texts that
   arrive in fragments with any mixture of the calls, as util-smack.h describes
   them. *)
EXTENDS Smack

CONSTANTS
  Pool,         \* patterns the caller may register
  MaxPatterns,  \* bound: patterns registered at once
  Input,        \* characters of the searched text
  MaxText,      \* bound: length of a text
  MaxFragment   \* bound: length of a fragment

ASSUME InputAssumption ==
  Input \subseteq 0 .. Chars - 1 /\ MaxPatterns \in Nat /\ MaxText \in Nat /\ MaxFragment \in Nat

\* A pattern has at least one character, and one that skips a byte does not name it.
ASSUME PoolAssumption ==
  \A p \in Pool :
    /\ p = [text |-> p.text, id |-> p.id, begin |-> p.begin, end |-> p.end, wild |-> p.wild, hack |-> p.hack]
    /\ p.text \in Seq(0 .. Chars - 1) /\ p.text # <<>>
    /\ {p.begin, p.end, p.wild, p.hack} \subseteq BOOLEAN
    /\ p.hack => \A i \in DOMAIN p.text : p.text[i] # Hack

VARIABLES
  phase,      \* "adding", "searching", then "done" or "ended" by the last call
  smack,      \* what smack_create() returned
  dfa,        \* the compiled table
  state,      \* the caller's current_state
  text,       \* the bytes delivered so far, the current fragment last
  fragment,   \* the current fragment
  offset,     \* the caller's offset into it
  reported,   \* matches reported so far: <<id, bytes of text read>>
  answer,     \* what the call at the end of the text reported
  strayed     \* a call on this text came where the state is not made for it:
              \* smack_search() while matches were pending, or smack_search_next()
              \* at the end of a fragment whose last match had been taken

smackVars == <<phase, smack, dfa, state, text, fragment, offset, reported, answer, strayed>>
caller == <<text, fragment, offset, reported, strayed>>

\* Wildcards and the SNMP bytes are documented for narrow cases only: anchored
\* patterns that do not overlap, and patterns that all skip the byte.
Supported(patterns) ==
  /\ \A p, q \in patterns : p.hack = q.hack
  /\ (\E p \in patterns : p.wild) =>
       \A p, q \in patterns : p.begin /\ (p # q => p.text[1] # q.text[1])

SmackInit ==
  /\ phase = "adding" /\ dfa = <<>> /\ state = Start
  /\ smack \in {Create(nocase) : nocase \in BOOLEAN}
  /\ text = <<>> /\ fragment = <<>> /\ offset = 0 /\ reported = <<>> /\ answer = <<>> /\ strayed = FALSE

\* Each pattern is registered once; its id is its number.
Register ==
  /\ phase = "adding" /\ Len(smack.patterns) < MaxPatterns
  /\ \E p \in Pool :
       LET pat  == [p EXCEPT !.id = Len(smack.patterns) + 1]
           Text(q) == [Kept(smack, q) EXCEPT !.id = 0]
       IN /\ \A q \in Elements(smack.patterns) : Text(q) # Text(pat)
          /\ Supported({Text(q) : q \in Elements(smack.patterns)} \cup {Text(pat)})
          /\ smack' = AddPattern(smack, pat)
  /\ UNCHANGED <<phase, dfa, state, caller, answer>>

Compile ==
  /\ phase = "adding" /\ smack.patterns # <<>>
  /\ dfa' = Compiled(smack)
  /\ phase' = "searching"
  /\ UNCHANGED <<smack, state, caller, answer>>

Deliver ==
  /\ phase = "searching" /\ offset >= Len(fragment)
  /\ \E n \in 1 .. MaxFragment : \E px \in [1 .. n -> Input] :
       /\ Len(text) + n <= MaxText
       /\ text' = text \o px /\ fragment' = px
  /\ offset' = 0
  /\ UNCHANGED <<phase, smack, dfa, state, reported, answer, strayed>>

Base == Len(text) - Len(fragment)

\* Of what is left of the fragment.  Matches that are pending are forgotten.
CallSearch ==
  /\ phase = "searching" /\ offset <= Len(fragment)
  /\ LET result == Search(dfa, state, SubSeq(fragment, offset + 1, Len(fragment)))
     IN /\ state' = [row |-> result.row, pending |-> 0]
        /\ reported' = reported \o [k \in DOMAIN result.found |->
                                       <<result.found[k][1], Base + offset + result.found[k][2]>>]
  /\ offset' = Len(fragment)
  /\ strayed' = (strayed \/ state.pending # 0)
  /\ UNCHANGED <<phase, smack, dfa, text, fragment, answer>>

\* The call for the rest of the fragment, which may be nothing.
CallSearchNext ==
  /\ phase = "searching" /\ offset <= Len(fragment)
  /\ LET result == SearchNext(dfa, state, fragment, offset)
     IN /\ state' = result.state /\ offset' = result.offset
        /\ reported' = reported \o [k \in DOMAIN result.ids |-> <<result.ids[k], Base + result.offset>>]
  /\ strayed' = (strayed \/ (offset = Len(fragment) /\ state.pending = 0 /\ dfa.match[state.row] # <<>>))
  /\ UNCHANGED <<phase, smack, dfa, text, fragment, answer>>

CallNextMatch ==
  /\ phase = "searching" /\ state.pending > 0
  /\ LET result == NextMatch(dfa, state)
     IN /\ state' = result.state
        /\ reported' = reported \o [k \in DOMAIN result.ids |-> <<result.ids[k], Base + offset>>]
  /\ UNCHANGED <<phase, smack, dfa, text, fragment, offset, answer, strayed>>

\* With matches pending, *current_state is not a row: the call reads past the table.
AtEnd == phase = "searching" /\ offset >= Len(fragment) /\ state.pending = 0

CallSearchDone ==
  /\ AtEnd
  /\ answer' = SearchDone(dfa, state) /\ phase' = "done"
  /\ UNCHANGED <<smack, dfa, state, caller>>

CallSearchEnd ==
  /\ AtEnd
  /\ LET result == SearchEnd(dfa, state) IN answer' = result.ids /\ state' = result.state
  /\ phase' = "ended"
  /\ UNCHANGED <<smack, dfa, caller>>

NewText ==
  /\ phase \in {"done", "ended"} /\ phase' = "searching" /\ state' = Start
  /\ text' = <<>> /\ fragment' = <<>> /\ offset' = 0 /\ reported' = <<>> /\ answer' = <<>>
  /\ strayed' = FALSE
  /\ UNCHANGED <<smack, dfa>>

SmackNext == \/ Register \/ Compile \/ Deliver \/ CallSearch \/ CallSearchNext \/ CallNextMatch
        \/ CallSearchDone \/ CallSearchEnd \/ NewText

SmackSpec == SmackInit /\ [][SmackNext]_smackVars

-----------------------------------------------------------------------------
(* What the search must find, said without a table. *)

NoTwice(s) == \A i, j \in DOMAIN s : s[i] = s[j] => i = j

\* p occurs in t so that its last character is t's last.
EndsIn(sm, p, t) ==
  LET u == IF p.hack THEN SelectSeq(t, LAMBDA c : c # Hack) ELSE t
      k == Len(u) - Len(p.text)
      Same(a, c) == (p.wild /\ a = Star) \/ a = (IF sm.nocase THEN ToLower(c) ELSE c)
  IN /\ k >= 0 /\ (p.begin => k = 0)
     /\ p.hack /\ t # <<>> /\ ~p.end => t[Len(t)] # Hack
     /\ \A i \in DOMAIN p.text : Same(p.text[i], u[k + i])

Matches(sm, end, t) == {p.id : p \in {q \in Elements(sm.patterns) : q.end = end /\ EndsIn(sm, q, t)}}

\* Reported, and still to come from the row that current_state names.
Seen == reported \o [k \in 1 .. state.pending |-> <<dfa.match[state.row][k], Base + offset>>]

\* Every occurrence so far, once, at the byte that completes it, in order.
ExactSoFar ==
  phase = "searching" =>
    /\ NoTwice(Seen)
    /\ \A i, j \in DOMAIN Seen : i < j => Seen[i][2] <= Seen[j][2]
    /\ Elements(Seen) = UNION {Matches(smack, FALSE, SubSeq(text, 1, e)) \X {e} : e \in 1 .. Base + offset}

\* Left out are wildcard patterns without '$': smack_fixup_wildcards() redirects
\* the anchor's column too, so that "a*" is reported at the end of "a".
ExactAtEnd ==
  phase \in {"done", "ended"} /\ (\A p \in Elements(smack.patterns) : p.wild => p.end) =>
    LET ids == Matches(smack, TRUE, text)
    IN /\ NoTwice(answer) /\ Elements(answer) \subseteq ids
       /\ IF phase = "ended" THEN ids \subseteq Elements(answer) ELSE ids = {} <=> answer = <<>>

\* However the text is cut into fragments and whatever mixture of calls reads it,
\* as long as no call has strayed and nothing that was compiled had to be cut:
\* every occurrence of a pattern is reported once, where it ends, and nothing else
\* is (smack_search(), smack_search_next() and smack_next_match() over the table
\* that stages 0 to 4 build: overlapping patterns, ^, case, '*' and 0x80); and
\* of the patterns that are anchored at the end, smack_search_end() reports all
\* that match the whole text and smack_search_done() one.
ReportsExact ==
  phase # "adding" /\ ~strayed /\ NothingCut(smack, dfa) => ExactSoFar /\ ExactAtEnd

\* The tables bear the indices used on them, also where a number was cut: the list
\* of patterns and the intermediate table were big enough, every cell of the final
\* table is one of its rows, every symbol one of its columns, and m_match_limit
\* divides the rows that are matches from those that are not (inner_match() only
\* tests that limit, smack_search() only the count).  While the symbols are few
\* enough for their width, no two characters of the patterns share a column.
TablesFit ==
  /\ Len(smack.patterns) <= smack.room
  /\ phase # "adding" =>
       /\ dfa.count <= StateMax(smack.patterns)
       /\ \A r \in 0 .. dfa.count - 1 :
            /\ (dfa.match[r] # <<>>) <=> r >= dfa.limit
            /\ \A c \in Alphabet : dfa.symbol[c] \in DOMAIN dfa.table[r]
            /\ \A k \in DOMAIN dfa.table[r] : dfa.table[r][k] \in 0 .. dfa.count - 1
       /\ Len(AllSymbols(smack)) < SymbolValues =>
            \A a, b \in Elements(AllSymbols(smack)) : dfa.symbol[a] = dfa.symbol[b] => a = b
=============================================================================
