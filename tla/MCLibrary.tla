----------------------------- MODULE MCLibrary -----------------------------
(* Instance of Library for TLC. *)
EXTENDS Library, Bitwise

\* "HPThpt \r\n%/.5\t*\x80"; 'h', 'p' and 't' are the letters.
MCCode == [c \in 0 .. 15 |-> <<72, 80, 84, 104, 112, 116, 32, 13, 10, 37, 47, 46, 53, 9, 42, 128>>[c + 1]]

\* The searched patterns have 'h' in two cases (0 and 3), 'p' (4), '*' and 0x80.
Pat(chars, flags) ==
  [text |-> chars, id |-> 0, begin |-> "^" \in flags, end |-> "$" \in flags,
   wild |-> "*" \in flags, hack |-> "h" \in flags]

MCPool ==
  {Pat(<<3>>, {}), Pat(<<15, 0>>, {}), Pat(<<3, 4, 3>>, {}), Pat(<<3, 4, 3>>, {"^"}),
   Pat(<<4, 3>>, {"$"}), Pat(<<3, 14, 4>>, {"^", "*"}), Pat(<<4, 14>>, {"^", "$", "*"}), Pat(<<3, 3>>, {"h"})}

\* PT, PTH and HP stand for the methods.
MCMethods == <<<<4, 5>>, <<4, 5, 3>>, <<3, 4>>>>
MCPieces  == {<<1, 5, 6>>, <<1, 2, 0>>, <<6>>, <<10, 9>>, <<12>>, <<6, 0, 5, 2, 4, 10, 12, 11>>, <<12, 7, 8>>, <<8>>}

MCArgs == {[flag |-> "", rest |-> r] : r \in {"list", "MX", "5"}} \cup
          {[flag |-> "f", rest |-> r] : r \in {"", "list"}} \cup
          {[flag |-> "w", rest |-> r] : r \in {"", "5", "0"}} \cup
          {[flag |-> r, rest |-> ""] : r \in {"v", "d", "q", "x"}}

MCKeys  == {<<0>>, <<0, 0, 0>>, <<0, 0, 0, 0, 0, 0, 0>>}
MCSeeds == {[id |-> 1, nonce |-> 0], [id |-> 2, nonce |-> 1]}
MCXor(a, b) == a ^^ b
=============================================================================
