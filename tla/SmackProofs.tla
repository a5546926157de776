---------------------------- MODULE SmackProofs ----------------------------
(***************************************************************************)
(* Theorems about the multi-pattern search, for any alphabet, any patterns *)
(* and any widths of the numbers that are stored; what is reported, for    *)
(* patterns few and short enough that nothing is cut to its width.         *)
(* A label is given to every state: the prefix of a pattern it             *)
(* stands for.  Each stage of the compilation is shown to keep or to build *)
(* what the labels say: a tree of prefixes (stage 0), failure links to the *)
(* longest shorter label (stage 1), rows that lead to the longest label    *)
(* the text ends in (stage 2), the same rows in another order (stage 3)    *)
(* and in columns (stage 4).  A search is then always in the row of the    *)
(* longest label, and that row's matches are the patterns that end there.  *)
(***************************************************************************)
EXTENDS SmackCaller, TLAPS, SequenceTheorems, WellFoundedInduction, FiniteSetTheorems

(***************************************************************************)
(* Induction, and the loops over a sequence that are written as recursive  *)
(* functions.                                                              *)
(***************************************************************************)
\* A set of numbers has a smallest.
LEMMA Smallest ==
  ASSUME NEW S, S \subseteq Nat, S # {}
  PROVE  \E x \in S : \A y \in S : x <= y
<1> DEFINE Less == {ss \in Nat \X Nat : ss[1] < ss[2]}
<1>1. OpToRel(<, Nat) = Less
  BY Zenon DEF OpToRel
<1>2. IsWellFoundedOn(Less, Nat)
  BY NatLessThanWellFounded, <1>1
<1>3. PICK x \in S : \A y \in S : ~(<<y, x>> \in Less)
  <2> HIDE DEF Less
  <2>1. QED
    BY <1>2, WFMin
<1>4. ASSUME NEW y \in S PROVE x <= y
  <2>1. y < x => <<y, x>> \in Less
    OBVIOUS
  <2>2. ~(y < x)
    BY <1>3, <2>1
  <2>3. QED
    BY <2>2
<1>5. QED
  BY <1>4

\* A set that has 0 and with each number the next has all numbers.
LEMMA Induction ==
  ASSUME NEW T, 0 \in T, \A n \in Nat : n \in T => n + 1 \in T
  PROVE  Nat \subseteq T
<1> DEFINE Rest == Nat \ T
<1>1. CASE Rest # {}
  <2>1. PICK x \in Rest : \A y \in Rest : x <= y
    BY <1>1, Smallest
  <2>2. x \in Nat /\ x # 0 /\ x - 1 \in Nat /\ ~(x <= x - 1)
    OBVIOUS
  <2>3. x - 1 \notin Rest
    BY <2>1, <2>2
  <2>4. QED
    BY <2>2, <2>3
<1>2. QED
  BY <1>1

\* The same for the numbers up to N.
LEMMA UpTo ==
  ASSUME NEW N \in Nat, NEW T, 0 \in T, \A n \in 0 .. N - 1 : n \in T => n + 1 \in T
  PROVE  0 .. N \subseteq T
<1> DEFINE U == {n \in Nat : n <= N => n \in T}
<1>1. 0 \in U
  OBVIOUS
<1>2. ASSUME NEW n \in Nat, n \in U PROVE n + 1 \in U
  BY <1>2
<1>3. Nat \subseteq U
  <2> HIDE DEF U
  <2>1. QED
    BY <1>1, <1>2, Induction
<1>4. QED
  BY <1>3

\* A set of numbers that is bounded has a greatest.
LEMMA Largest ==
  ASSUME NEW N \in Nat, NEW S, S \subseteq -1 .. N, S # {}
  PROVE  \E x \in S : \A y \in S : y <= x
<1> DEFINE D == {N - x : x \in S}
<1>1. D \subseteq Nat /\ D # {}
  <2>1. \A x \in S : x \in Int /\ x <= N
    OBVIOUS
  <2>2. \A x \in S : N - x \in Nat
    BY <2>1
  <2>3. PICK x \in S : TRUE
    OBVIOUS
  <2>4. N - x \in D
    BY <2>3
  <2>5. QED
    BY <2>2, <2>4
<1>2. PICK d \in D : \A e \in D : d <= e
  BY <1>1, Smallest
<1>3. PICK x \in S : d = N - x
  BY <1>2
<1>4. ASSUME NEW y \in S PROVE y <= x
  <2>1. d <= N - y
    BY <1>2
  <2>2. QED
    BY <1>3, <2>1
<1>5. QED
  BY <1>4

\* What the CHOOSE of Least() picks.
LEMMA LeastIs ==
  ASSUME NEW S, S \subseteq Nat, S # {}
  PROVE  Least(S) \in S /\ \A y \in S : Least(S) <= y
BY Smallest DEF Least

\* What the CHOOSE of Greatest() picks.
LEMMA GreatestIs ==
  ASSUME NEW N \in Nat, NEW S, S \subseteq -1 .. N, S # {}
  PROVE  Greatest(S) \in S /\ \A y \in S : y <= Greatest(S)
BY Largest DEF Greatest

(***************************************************************************)
(* Suffixes.                                                               *)
(***************************************************************************)
Sfx(u, v) == Len(u) <= Len(v) /\ \A i \in 1 .. Len(u) : u[i] = v[Len(v) - Len(u) + i]

\* Every text ends in itself,
LEMMA SfxSelf ==
  ASSUME NEW S, NEW u \in Seq(S)
  PROVE  Sfx(u, u)
BY DEF Sfx

\* and in the empty text.
LEMMA SfxEmpty ==
  ASSUME NEW S, NEW u \in Seq(S)
  PROVE  Sfx(<<>>, u)
BY DEF Sfx

\* What ends in v ends in all that v ends in.
LEMMA SfxThrough ==
  ASSUME NEW S, NEW u \in Seq(S), NEW v \in Seq(S), NEW w \in Seq(S), Sfx(u, v), Sfx(v, w)
  PROVE  Sfx(u, w)
<1>1. Len(u) \in Nat /\ Len(v) \in Nat /\ Len(w) \in Nat /\ Len(u) <= Len(v) /\ Len(v) <= Len(w)
  BY DEF Sfx
<1>2. ASSUME NEW i \in 1 .. Len(u) PROVE u[i] = w[Len(w) - Len(u) + i]
  <2> DEFINE j == Len(v) - Len(u) + i
  <2>1. j \in 1 .. Len(v) /\ Len(w) - Len(v) + j = Len(w) - Len(u) + i
    BY <1>1
  <2>2. u[i] = v[j]
    BY DEF Sfx
  <2> HIDE DEF j
  <2>3. v[j] = w[Len(w) - Len(v) + j]
    BY <2>1 DEF Sfx
  <2>4. QED
    BY <2>1, <2>2, <2>3
<1>3. QED
  BY <1>1, <1>2 DEF Sfx

\* A text ends in only one text of its own length.
LEMMA SfxWhole ==
  ASSUME NEW S, NEW u \in Seq(S), NEW v \in Seq(S), Sfx(u, v), Len(u) = Len(v)
  PROVE  u = v
<1>1. \A i \in 1 .. Len(u) : u[i] = v[i]
  BY DEF Sfx
<1>2. QED
  BY <1>1, SeqEqual

\* Of two suffixes the shorter is a suffix of the longer.
LEMMA SfxNested ==
  ASSUME NEW S, NEW u \in Seq(S), NEW v \in Seq(S), NEW w \in Seq(S),
         Sfx(u, w), Sfx(v, w), Len(u) <= Len(v)
  PROVE  Sfx(u, v)
<1>1. Len(u) \in Nat /\ Len(v) \in Nat /\ Len(w) \in Nat /\ Len(u) <= Len(w) /\ Len(v) <= Len(w)
  BY DEF Sfx
<1>2. ASSUME NEW i \in 1 .. Len(u) PROVE u[i] = v[Len(v) - Len(u) + i]
  <2> DEFINE j == Len(v) - Len(u) + i
  <2>1. j \in 1 .. Len(v) /\ Len(w) - Len(v) + j = Len(w) - Len(u) + i
    BY <1>1
  <2>2. u[i] = w[Len(w) - Len(u) + i]
    BY DEF Sfx
  <2> HIDE DEF j
  <2>3. v[j] = w[Len(w) - Len(v) + j]
    BY <2>1 DEF Sfx
  <2>4. QED
    BY <2>1, <2>2, <2>3 DEF j
<1>3. QED
  BY <1>1, <1>2 DEF Sfx

\* One more character on both sides,
LEMMA SfxLonger ==
  ASSUME NEW S, NEW u \in Seq(S), NEW v \in Seq(S), NEW a \in S, Sfx(u, v)
  PROVE  Sfx(Append(u, a), Append(v, a))
<1> DEFINE x == Append(u, a)
           y == Append(v, a)
<1>1. /\ Len(u) \in Nat /\ Len(v) \in Nat /\ Len(u) <= Len(v)
      /\ Len(x) = Len(u) + 1 /\ Len(y) = Len(v) + 1
      /\ x[Len(u) + 1] = a /\ y[Len(v) + 1] = a
      /\ \A i \in 1 .. Len(u) : x[i] = u[i]
      /\ \A i \in 1 .. Len(v) : y[i] = v[i]
  BY DEF Sfx
<1> HIDE DEF x, y
<1>2. ASSUME NEW i \in 1 .. Len(u) + 1 PROVE x[i] = y[Len(v) - Len(u) + i]
  <2>1. CASE i = Len(u) + 1
    BY <1>1, <2>1
  <2>2. CASE i # Len(u) + 1
    <3>1. i \in 1 .. Len(u) /\ Len(v) - Len(u) + i \in 1 .. Len(v)
      BY <1>1, <2>2
    <3>2. u[i] = v[Len(v) - Len(u) + i]
      BY <3>1 DEF Sfx
    <3>3. QED
      BY <1>1, <3>1, <3>2
  <2>3. QED
    BY <2>1, <2>2
<1>3. Len(y) - Len(x) = Len(v) - Len(u)
  BY <1>1
<1>4. QED
  BY <1>1, <1>2, <1>3 DEF x, y, Sfx

\* or one fewer.
LEMMA SfxShorter ==
  ASSUME NEW S, NEW u \in Seq(S), NEW v \in Seq(S), NEW a \in S, NEW b \in S,
         Sfx(Append(u, a), Append(v, b))
  PROVE  a = b /\ Sfx(u, v)
<1> DEFINE x == Append(u, a)
           y == Append(v, b)
<1>1. /\ Len(u) \in Nat /\ Len(v) \in Nat
      /\ Len(x) = Len(u) + 1 /\ Len(y) = Len(v) + 1
      /\ x[Len(u) + 1] = a /\ y[Len(v) + 1] = b
      /\ \A i \in 1 .. Len(u) : x[i] = u[i]
      /\ \A i \in 1 .. Len(v) : y[i] = v[i]
  OBVIOUS
<1>2. Sfx(x, y)
  OBVIOUS
<1> HIDE DEF x, y
<1>3. Len(u) <= Len(v) /\ Len(y) - Len(x) = Len(v) - Len(u)
  BY <1>1, <1>2 DEF Sfx
<1>4. \A i \in 1 .. Len(u) + 1 : x[i] = y[Len(v) - Len(u) + i]
  BY <1>1, <1>2, <1>3 DEF Sfx
<1>5. a = b
  <2>1. Len(v) - Len(u) + (Len(u) + 1) = Len(v) + 1 /\ Len(u) + 1 \in 1 .. Len(u) + 1
    BY <1>1
  <2>2. x[Len(u) + 1] = y[Len(v) - Len(u) + (Len(u) + 1)]
    BY <1>4, <2>1
  <2>3. QED
    BY <1>1, <2>1, <2>2
<1>6. ASSUME NEW i \in 1 .. Len(u) PROVE u[i] = v[Len(v) - Len(u) + i]
  <2>1. Len(v) - Len(u) + i \in 1 .. Len(v) /\ i \in 1 .. Len(u) + 1
    BY <1>1, <1>3
  <2>2. QED
    BY <1>1, <1>4, <2>1
<1>7. QED
  BY <1>3, <1>5, <1>6 DEF Sfx

(***************************************************************************)
(* Labels: every state stands for a prefix of a pattern, and a search is   *)
(* right when it is in the state of the longest one the text ends in.      *)
(***************************************************************************)
Text == Seq(Alphabet)

Labels(lab, n) ==
  /\ n \in Nat
  /\ lab \in [0 .. n - 1 -> Text]
  /\ \A s, t \in 0 .. n - 1 : lab[s] = lab[t] => s = t
  /\ \E s \in 0 .. n - 1 : lab[s] = <<>>
  /\ \A t \in 0 .. n - 1 : lab[t] # <<>> =>
        \E s \in 0 .. n - 1, a \in Alphabet : lab[t] = Append(lab[s], a)

\* s is the state of the longest label that v ends in.
IsBest(lab, n, v, s) ==
  /\ s \in 0 .. n - 1 /\ Sfx(lab[s], v)
  /\ \A t \in 0 .. n - 1 : Sfx(lab[t], v) => Len(lab[t]) <= Len(lab[s])

\* f is the state of the longest label that s ends in, other than its own.
IsFail(lab, n, s, f) ==
  /\ f \in 0 .. n - 1 /\ Sfx(lab[f], lab[s]) /\ Len(lab[f]) < Len(lab[s])
  /\ \A t \in 0 .. n - 1 :
        Sfx(lab[t], lab[s]) /\ Len(lab[t]) < Len(lab[s]) => Len(lab[t]) <= Len(lab[f])

\* The best state for a label is its own.
LEMMA BestSelf ==
  ASSUME NEW lab, NEW n, Labels(lab, n), NEW s \in 0 .. n - 1
  PROVE  IsBest(lab, n, lab[s], s)
<1>1. lab[s] \in Text
  BY DEF Labels
<1>2. Sfx(lab[s], lab[s])
  BY <1>1, SfxSelf DEF Text
<1>3. QED
  BY <1>2 DEF IsBest, Sfx

\* A label that a longer text ends in, without its last character.
LEMMA LabelShorter ==
  ASSUME NEW lab, NEW n, Labels(lab, n), NEW v \in Text, NEW a \in Alphabet,
         NEW t \in 0 .. n - 1, Sfx(lab[t], Append(v, a)), lab[t] # <<>>
  PROVE  \E p \in 0 .. n - 1 : lab[t] = Append(lab[p], a) /\ Sfx(lab[p], v)
<1>1. PICK p \in 0 .. n - 1, b \in Alphabet : lab[t] = Append(lab[p], b)
  BY DEF Labels
<1>2. lab[p] \in Text
  BY DEF Labels
<1>3. b = a /\ Sfx(lab[p], v)
  BY <1>1, <1>2, SfxShorter DEF Text
<1>4. QED
  BY <1>1, <1>3

\* Lengths are numbers.
LEMMA LenNonNegative ==
  ASSUME NEW v \in Text
  PROVE  Len(v) \in Nat /\ (v = <<>> <=> Len(v) = 0)
BY LenProperties, EmptySeq DEF Text

\* A text with one more character.
LEMMA Appended ==
  ASSUME NEW v \in Text, NEW a \in Alphabet
  PROVE  Append(v, a) \in Text /\ Len(Append(v, a)) = Len(v) + 1
BY DEF Text

\* The search needs to remember no more of the text than its state.
LEMMA BestStep ==
  ASSUME NEW lab, NEW n, Labels(lab, n), NEW v \in Text, NEW a \in Alphabet, NEW f, NEW s,
         IsBest(lab, n, v, f), IsBest(lab, n, Append(lab[f], a), s)
  PROVE  IsBest(lab, n, Append(v, a), s)
<1>1. /\ f \in 0 .. n - 1 /\ s \in 0 .. n - 1 /\ lab[f] \in Text /\ lab[s] \in Text
      /\ Sfx(lab[f], v) /\ Sfx(lab[s], Append(lab[f], a))
  BY DEF Labels, IsBest
<1>2. Append(lab[f], a) \in Text /\ Append(v, a) \in Text
  BY <1>1, Appended
<1>3. Sfx(Append(lab[f], a), Append(v, a))
  BY <1>1, SfxLonger DEF Text
<1>4. Sfx(lab[s], Append(v, a))
  BY <1>1, <1>2, <1>3, SfxThrough DEF Text
<1>5. ASSUME NEW t \in 0 .. n - 1, Sfx(lab[t], Append(v, a)) PROVE Len(lab[t]) <= Len(lab[s])
  <2>1. lab[t] \in Text
    BY DEF Labels
  <2>2. CASE lab[t] = <<>>
    BY <1>1, <2>1, <2>2, LenNonNegative
  <2>3. CASE lab[t] # <<>>
    <3>1. PICK p \in 0 .. n - 1 : lab[t] = Append(lab[p], a) /\ Sfx(lab[p], v)
      BY <1>5, <2>3, LabelShorter
    <3>2. lab[p] \in Text /\ Len(lab[p]) <= Len(lab[f])
      BY <3>1 DEF IsBest, Labels
    <3>3. Sfx(lab[p], lab[f])
      BY <1>1, <3>1, <3>2, SfxNested DEF Text
    <3>4. Sfx(lab[t], Append(lab[f], a))
      BY <1>1, <3>1, <3>2, <3>3, SfxLonger DEF Text
    <3>5. QED
      BY <3>4 DEF IsBest
  <2>4. QED
    BY <2>2, <2>3
<1>6. QED
  BY <1>1, <1>4, <1>5 DEF IsBest

\* Where no label goes on, the state to fall back to goes on as well as s.
LEMMA FailStep ==
  ASSUME NEW lab, NEW n, Labels(lab, n), NEW s \in 0 .. n - 1, NEW a \in Alphabet, NEW f, NEW g,
         \A t \in 0 .. n - 1 : lab[t] # Append(lab[s], a),
         IsFail(lab, n, s, f), IsBest(lab, n, Append(lab[f], a), g)
  PROVE  IsBest(lab, n, Append(lab[s], a), g)
<1>1. /\ f \in 0 .. n - 1 /\ g \in 0 .. n - 1 /\ lab[f] \in Text /\ lab[g] \in Text /\ lab[s] \in Text
      /\ Sfx(lab[f], lab[s]) /\ Sfx(lab[g], Append(lab[f], a))
  BY DEF Labels, IsBest, IsFail
<1>2. Append(lab[f], a) \in Text /\ Append(lab[s], a) \in Text
  BY <1>1, Appended
<1>3. Sfx(Append(lab[f], a), Append(lab[s], a))
  BY <1>1, SfxLonger DEF Text
<1>4. Sfx(lab[g], Append(lab[s], a))
  BY <1>1, <1>2, <1>3, SfxThrough DEF Text
<1>5. ASSUME NEW t \in 0 .. n - 1, Sfx(lab[t], Append(lab[s], a)) PROVE Len(lab[t]) <= Len(lab[g])
  <2>1. lab[t] \in Text
    BY DEF Labels
  <2>2. CASE lab[t] = <<>>
    BY <1>1, <2>1, <2>2, LenNonNegative
  <2>3. CASE lab[t] # <<>>
    <3>1. PICK p \in 0 .. n - 1 : lab[t] = Append(lab[p], a) /\ Sfx(lab[p], lab[s])
      BY <1>1, <1>5, <2>3, LabelShorter
    <3>2. lab[p] \in Text
      BY DEF Labels
    <3>3. Len(lab[p]) # Len(lab[s])
      <4>1. lab[p] # lab[s]
        BY <3>1
      <4>2. QED
        BY <1>1, <3>1, <3>2, <4>1, SfxWhole DEF Text
    <3>4. Len(lab[p]) < Len(lab[s])
      BY <1>1, <3>1, <3>2, <3>3, LenNonNegative DEF Sfx
    <3>5. Len(lab[p]) <= Len(lab[f])
      BY <3>1, <3>4 DEF IsFail
    <3>6. Sfx(lab[p], lab[f])
      BY <1>1, <3>1, <3>2, <3>5, SfxNested DEF Text
    <3>7. Sfx(lab[t], Append(lab[f], a))
      BY <1>1, <3>1, <3>2, <3>6, SfxLonger DEF Text
    <3>8. QED
      BY <3>7 DEF IsBest
  <2>4. QED
    BY <2>2, <2>3
<1>6. QED
  BY <1>1, <1>4, <1>5 DEF IsBest

(***************************************************************************)
(* Lists without repetitions.                                              *)
(***************************************************************************)
LEMMA ElementsAppend ==
  ASSUME NEW S, NEW s \in Seq(S), NEW x \in S
  PROVE  /\ Append(s, x) \in Seq(S)
         /\ Elements(Append(s, x)) = Elements(s) \cup {x}
         /\ NoTwice(s) /\ x \notin Elements(s) => NoTwice(Append(s, x))
<1> DEFINE t == Append(s, x)
<1>1. /\ Len(s) \in Nat /\ DOMAIN s = 1 .. Len(s) /\ DOMAIN t = 1 .. Len(s) + 1 /\ t \in Seq(S)
      /\ t[Len(s) + 1] = x /\ \A i \in 1 .. Len(s) : t[i] = s[i]
  OBVIOUS
<1> HIDE DEF t
<1>2. Elements(t) = Elements(s) \cup {x}
  <2>1. \A y \in Elements(t) : y \in Elements(s) \cup {x}
    BY <1>1 DEF Elements
  <2>2. \A y \in Elements(s) : y \in Elements(t)
    BY <1>1 DEF Elements
  <2>3. x \in Elements(t)
    BY <1>1 DEF Elements
  <2>4. QED
    BY <2>1, <2>2, <2>3
<1>3. ASSUME NoTwice(s), x \notin Elements(s), NEW i \in DOMAIN t, NEW j \in DOMAIN t, t[i] = t[j] PROVE i = j
  <2>1. CASE i \in 1 .. Len(s) /\ j \in 1 .. Len(s)
    BY <1>1, <1>3, <2>1 DEF NoTwice
  <2>2. CASE i = Len(s) + 1 /\ j # Len(s) + 1
    BY <1>1, <1>3, <2>2 DEF Elements
  <2>3. CASE j = Len(s) + 1 /\ i # Len(s) + 1
    BY <1>1, <1>3, <2>3 DEF Elements
  <2>4. QED
    BY <1>1, <2>1, <2>2, <2>3
<1>4. QED
  BY <1>1, <1>2, <1>3 DEF t, NoTwice

CopyMatchesLoop(n, r, old, new) ==
  r = [i \in 0 .. n |-> IF i = 0 THEN old ELSE AddId(old, r[i - 1], new[i])]

\* copy_matches() turn by turn.
LEMMA CopyMatchesSteps ==
  ASSUME NEW old, NEW new, Len(new) \in Nat
  PROVE  \E r : CopyMatchesLoop(Len(new), r, old, new) /\ CopyMatches(old, new) = r[Len(new)]
<1> DEFINE T == {n \in Nat : \E r : CopyMatchesLoop(n, r, old, new)}
<1>1. 0 \in T
  <2>1. CopyMatchesLoop(0, [i \in 0 .. 0 |-> old], old, new)
    BY DEF CopyMatchesLoop
  <2>2. QED
    BY <2>1
<1>2. ASSUME NEW n \in Nat, n \in T PROVE n + 1 \in T
  <2>1. PICK r : CopyMatchesLoop(n, r, old, new)
    BY <1>2
  <2> DEFINE q == [i \in 0 .. n + 1 |-> IF i = n + 1 THEN AddId(old, r[n], new[(n + 1)]) ELSE r[i]]
  <2>2. ASSUME NEW i \in 0 .. n + 1
        PROVE  q[i] = IF i = 0 THEN old ELSE AddId(old, q[i - 1], new[i])
    BY <2>1 DEF CopyMatchesLoop
  <2>3. CopyMatchesLoop(n + 1, q, old, new)
    BY <2>2 DEF CopyMatchesLoop
  <2>4. QED
    BY <2>3
<1>3. Len(new) \in T
  BY <1>1, <1>2, Induction
<1>4. QED
  BY <1>3 DEF CopyMatches, CopyMatchesLoop

\* Copying adds what is missing, once.
LEMMA CopyMatchesIs ==
  ASSUME NEW S, NEW old \in Seq(S), NEW new \in Seq(S), NoTwice(old), NoTwice(new)
  PROVE  /\ CopyMatches(old, new) \in Seq(S)
         /\ NoTwice(CopyMatches(old, new))
         /\ Elements(CopyMatches(old, new)) = Elements(old) \cup Elements(new)
<1> DEFINE N == Len(new)
           Done(n) == {new[k] : k \in 1 .. n}
<1>1. N \in Nat /\ DOMAIN new = 1 .. N /\ \A k \in 1 .. N : new[k] \in S
  OBVIOUS
<1>2. PICK r : CopyMatchesLoop(N, r, old, new) /\ CopyMatches(old, new) = r[N]
  BY <1>1, CopyMatchesSteps
<1> HIDE DEF N
<1> DEFINE T == {n \in 0 .. N : r[n] \in Seq(S) /\ NoTwice(r[n]) /\ Elements(r[n]) = Elements(old) \cup Done(n)
                                /\ \A id \in Done(n) : id \in Elements(r[n])}
<1>3. 0 \in T
  BY <1>1, <1>2 DEF CopyMatchesLoop
<1>4. ASSUME NEW n \in 0 .. N - 1, n \in T PROVE n + 1 \in T
  <2> DEFINE id == new[n + 1]
             x == r[n]
  <2>1. n + 1 \in 1 .. N /\ r[n + 1] = AddId(old, x, id) /\ id \in S
    BY <1>1, <1>2 DEF CopyMatchesLoop
  <2>2. Done(n + 1) = Done(n) \cup {id}
    BY <1>1
  <2>3. x \in Seq(S) /\ NoTwice(x) /\ Elements(x) = Elements(old) \cup Done(n)
    BY <1>4
  <2>4. CASE id \in Elements(old)
    BY <1>1, <2>1, <2>2, <2>3, <2>4 DEF AddId
  <2>5. CASE id \notin Elements(old)
    <3>1. id \notin Done(n)
      BY <1>1, <2>1 DEF NoTwice
    <3>2. id \notin Elements(x)
      BY <2>3, <2>5, <3>1
    <3>3. r[n + 1] = Append(x, id)
      BY <2>1, <2>5 DEF AddId
    <3> HIDE DEF x, id, Done
    <3>4. r[n + 1] \in Seq(S) /\ NoTwice(r[n + 1]) /\ Elements(r[n + 1]) = Elements(x) \cup {id}
      BY <2>1, <2>3, <3>2, <3>3, ElementsAppend
    <3>5. QED
      BY <2>1, <2>2, <2>3, <3>4
  <2>6. QED
    BY <2>4, <2>5
<1>5. N \in T
  <2> HIDE DEF T
  <2>1. QED
    BY <1>1, <1>3, <1>4, UpTo
<1>6. Elements(new) = Done(N)
  BY <1>1 DEF Elements
<1>7. QED
  BY <1>2, <1>5, <1>6

\* One id is added, unless it is there.
LEMMA CopyOne ==
  ASSUME NEW S, NEW old \in Seq(S), NEW x \in S, NoTwice(old),
         NEW one \in Seq(S), DOMAIN one = {1}, one[1] = x
  PROVE  /\ CopyMatches(old, one) \in Seq(S)
         /\ NoTwice(CopyMatches(old, one))
         /\ Elements(CopyMatches(old, one)) = Elements(old) \cup {x}
<1>3. Elements(one) = {x}
  BY DEF Elements
<1>4. NoTwice(one)
  BY DEF NoTwice
<1>1. /\ CopyMatches(old, one) \in Seq(S)
      /\ NoTwice(CopyMatches(old, one))
      /\ Elements(CopyMatches(old, one)) = Elements(old) \cup {x}
  BY <1>3, <1>4, CopyMatchesIs
<1>2. QED
  BY <1>1

AddSymbolsLoop(n, r, symbols, cs) ==
  r = [i \in 0 .. n |-> IF i = 0 THEN symbols ELSE AddSymbol(r[i - 1], cs[i])]

\* The symbols of a pattern, character by character.
LEMMA AddSymbolsSteps ==
  ASSUME NEW symbols, NEW cs, Len(cs) \in Nat
  PROVE  \E r : AddSymbolsLoop(Len(cs), r, symbols, cs) /\ AddSymbols(symbols, cs) = r[Len(cs)]
<1> DEFINE T == {n \in Nat : \E r : AddSymbolsLoop(n, r, symbols, cs)}
<1>1. 0 \in T
  <2>1. AddSymbolsLoop(0, [i \in 0 .. 0 |-> symbols], symbols, cs)
    BY DEF AddSymbolsLoop
  <2>2. QED
    BY <2>1
<1>2. ASSUME NEW n \in Nat, n \in T PROVE n + 1 \in T
  <2>1. PICK r : AddSymbolsLoop(n, r, symbols, cs)
    BY <1>2
  <2> DEFINE q == [i \in 0 .. n + 1 |-> IF i = n + 1 THEN AddSymbol(r[n], cs[(n + 1)]) ELSE r[i]]
  <2>2. ASSUME NEW i \in 0 .. n + 1
        PROVE  q[i] = IF i = 0 THEN symbols ELSE AddSymbol(q[i - 1], cs[i])
    BY <2>1 DEF AddSymbolsLoop
  <2>3. AddSymbolsLoop(n + 1, q, symbols, cs)
    BY <2>2 DEF AddSymbolsLoop
  <2>4. QED
    BY <2>3
<1>3. Len(cs) \in T
  BY <1>1, <1>2, Induction
<1>4. QED
  BY <1>3 DEF AddSymbols, AddSymbolsLoop

\* A symbol is added, unless it is there.
LEMMA AddSymbolIs ==
  ASSUME NEW S, NEW symbols \in Seq(S), NEW c \in S
  PROVE  /\ AddSymbol(symbols, c) \in Seq(S)
         /\ Elements(AddSymbol(symbols, c)) = Elements(symbols) \cup {c}
BY ElementsAppend DEF AddSymbol

\* All the characters of a pattern become symbols.
LEMMA AddSymbolsIs ==
  ASSUME NEW S, NEW symbols \in Seq(S), NEW cs \in Seq(S)
  PROVE  /\ AddSymbols(symbols, cs) \in Seq(S)
         /\ Elements(AddSymbols(symbols, cs)) = Elements(symbols) \cup Elements(cs)
<1> DEFINE N == Len(cs)
           Done(n) == {cs[k] : k \in 1 .. n}
<1>1. N \in Nat /\ DOMAIN cs = 1 .. N /\ \A k \in 1 .. N : cs[k] \in S
  OBVIOUS
<1>2. PICK r : AddSymbolsLoop(N, r, symbols, cs) /\ AddSymbols(symbols, cs) = r[N]
  BY <1>1, AddSymbolsSteps
<1> HIDE DEF N
<1> DEFINE T == {n \in 0 .. N : r[n] \in Seq(S) /\ Elements(r[n]) = Elements(symbols) \cup Done(n)}
<1>3. 0 \in T
  BY <1>1, <1>2 DEF AddSymbolsLoop
<1>4. ASSUME NEW n \in 0 .. N - 1, n \in T PROVE n + 1 \in T
  <2> DEFINE c == cs[n + 1]
             x == r[n]
  <2>1. n + 1 \in 1 .. N /\ r[n + 1] = AddSymbol(x, c) /\ c \in S
    BY <1>1, <1>2 DEF AddSymbolsLoop
  <2>2. Done(n + 1) = Done(n) \cup {c}
    BY <1>1
  <2>3. x \in Seq(S) /\ Elements(x) = Elements(symbols) \cup Done(n)
    BY <1>4
  <2> HIDE DEF x, c, Done
  <2>4. r[n + 1] \in Seq(S) /\ Elements(r[n + 1]) = Elements(x) \cup {c}
    BY <2>1, <2>3, AddSymbolIs
  <2>5. QED
    BY <2>1, <2>2, <2>3, <2>4
<1>5. N \in T
  <2> HIDE DEF T
  <2>1. QED
    BY <1>1, <1>3, <1>4, UpTo
<1>6. Elements(cs) = Done(N)
  BY <1>1 DEF Elements
<1>7. QED
  BY <1>2, <1>5, <1>6

(***************************************************************************)
(* The tree of prefixes.                                                   *)
(***************************************************************************)
Tables(max) ==
  [match : [0 .. max - 1 -> Seq(Nat)], count : 1 .. max,
   goto : [0 .. max - 1 -> [Alphabet -> -1 .. max - 1]], fail : [0 .. max - 1 -> 0 .. max - 1]]

\* Two states have no label in common, and a state leads to itself (by the
\* byte that is skipped), to nothing, or to its label with one more character.
Tree(m, lab, max, hack) ==
  /\ max \in Nat /\ m \in Tables(max)
  /\ lab \in [0 .. m.count - 1 -> Text] /\ lab[0] = <<>>
  /\ \A s, t \in 0 .. m.count - 1 : lab[s] = lab[t] => s = t
  /\ \A t \in 1 .. m.count - 1 : \E s \in 0 .. t - 1, a \in Alphabet : m.goto[s][a] = t
  /\ \A s \in 0 .. m.count - 1, a \in Alphabet :
        \/ m.goto[s][a] = Fail
        \/ m.goto[s][a] = s /\ hack /\ a = Hack
        \/ /\ m.goto[s][a] \in s + 1 .. m.count - 1 /\ lab[m.goto[s][a]] = Append(lab[s], a)
           /\ hack => a # Hack
  /\ \A s \in m.count .. max - 1, a \in Alphabet : m.goto[s][a] = Fail

\* What is assumed of the alphabet.
LEMMA Characters ==
  /\ Chars \in Nat /\ Letters \in Nat /\ 2 * Letters <= Chars
  /\ AnchorStart = Chars /\ AnchorEnd = Chars + 1 /\ Alphabet = 0 .. Chars + 1
  /\ AnchorStart \in Alphabet /\ AnchorEnd \in Alphabet
  /\ Hack \in 2 * Letters .. Chars - 1 /\ Star \in 2 * Letters .. Chars - 1
  /\ Hack \in Alphabet /\ Star \in Alphabet /\ Fail = -1
BY AlphabetAssumption DEF AnchorStart, AnchorEnd, Alphabet, Fail

\* The fields of an intermediate table.
LEMMA TablesAre ==
  ASSUME NEW max \in Nat, NEW m \in Tables(max)
  PROVE  /\ m.match \in [0 .. max - 1 -> Seq(Nat)] /\ m.count \in 1 .. max /\ m.count \in Nat
         /\ m.count >= 1 /\ m.count <= max
         /\ m.goto \in [0 .. max - 1 -> [Alphabet -> -1 .. max - 1]]
         /\ m.fail \in [0 .. max - 1 -> 0 .. max - 1]
<1>1. m.count \in 1 .. max
  BY DEF Tables
<1>2. m.count \in Nat /\ m.count >= 1 /\ m.count <= max
  BY <1>1
<1>3. /\ m.match \in [0 .. max - 1 -> Seq(Nat)]
      /\ m.goto \in [0 .. max - 1 -> [Alphabet -> -1 .. max - 1]]
      /\ m.fail \in [0 .. max - 1 -> 0 .. max - 1]
  BY DEF Tables
<1>4. QED
  BY <1>1, <1>2, <1>3, Zenon

\* A tree is a table whose states have labels.
LEMMA TreeTables ==
  ASSUME NEW m, NEW lab, NEW max, NEW hack, Tree(m, lab, max, hack)
  PROVE  max \in Nat /\ m \in Tables(max) /\ m.count \in Nat /\ m.count >= 1 /\ m.count <= max
BY TablesAre DEF Tree

\* Two texts with one more character are the same only when the shorter ones are.
LEMMA SameAppended ==
  ASSUME NEW v \in Text, NEW w \in Text, NEW a \in Alphabet, NEW b \in Alphabet, Append(v, a) = Append(w, b)
  PROVE  v = w /\ a = b
<1>1. Sfx(Append(v, a), Append(w, b)) /\ Len(v) = Len(w)
  <2>1. Append(v, a) \in Text /\ Len(v) + 1 = Len(w) + 1 /\ Len(v) \in Nat /\ Len(w) \in Nat
    BY Appended, LenNonNegative
  <2>2. Sfx(Append(v, a), Append(v, a))
    BY <2>1, SfxSelf DEF Text
  <2>3. QED
    BY <2>1, <2>2
<1>2. a = b /\ Sfx(v, w)
  BY <1>1, SfxShorter DEF Text
<1>3. QED
  BY <1>1, <1>2, SfxWhole DEF Text

\* A label leads to its longer label.
LEMMA GotoOf ==
  ASSUME NEW m, NEW lab, NEW max, NEW hack, Tree(m, lab, max, hack),
         NEW s \in 0 .. m.count - 1, NEW t \in 0 .. m.count - 1, NEW a \in Alphabet,
         lab[t] = Append(lab[s], a)
  PROVE  m.goto[s][a] = t /\ t \in s + 1 .. m.count - 1 /\ (hack => a # Hack)
<1>0. m.count \in Nat
  BY TreeTables
<1>1. lab[s] \in Text /\ lab[t] \in Text
  BY DEF Tree
<1>2. t # 0
  <2>1. Len(lab[t]) = Len(lab[s]) + 1 /\ Len(lab[s]) \in Nat
    BY <1>1, Appended, LenNonNegative
  <2>2. CASE t = 0
    <3>1. Len(lab[t]) = 0
      BY <1>1, <2>2, LenNonNegative DEF Tree
    <3>2. QED
      BY <2>1, <3>1
  <2>3. QED
    BY <2>2
<1>9. t \in 1 .. m.count - 1
  BY <1>0, <1>2
<1>3. PICK r \in 0 .. t - 1, b \in Alphabet : m.goto[r][b] = t
  BY <1>9 DEF Tree
<1>4. r \in 0 .. m.count - 1 /\ m.goto[r][b] # Fail /\ m.goto[r][b] # r
  BY <1>0, <1>3, Characters
<1>5. lab[t] = Append(lab[r], b) /\ lab[r] \in Text /\ (hack => b # Hack) /\ t \in r + 1 .. m.count - 1
  BY <1>3, <1>4 DEF Tree
<1>6. lab[r] = lab[s] /\ b = a
  <2> DEFINE v == lab[r]
             w == lab[s]
  <2>1. Append(v, b) = Append(w, a) /\ v \in Text /\ w \in Text
    BY <1>1, <1>5
  <2> HIDE DEF v, w
  <2>2. v = w /\ b = a
    BY <2>1, SameAppended
  <2>3. QED
    BY <2>2 DEF v, w
<1>7. r = s
  BY <1>4, <1>6 DEF Tree
<1>8. QED
  BY <1>3, <1>5, <1>6, <1>7

\* What a new state changes.
LEMMA ChildIs ==
  ASSUME NEW max \in Nat, NEW m \in Tables(max), NEW s \in 0 .. m.count - 1, NEW c \in Alphabet, m.count < max
  PROVE  /\ NewState(m, s, c) \in Tables(max)
         /\ NewState(m, s, c).count = m.count + 1
         /\ NewState(m, s, c).match = m.match
         /\ NewState(m, s, c).fail = m.fail
         /\ \A t \in 0 .. max - 1, a \in Alphabet :
               NewState(m, s, c).goto[t][a] = IF t = s /\ a = c THEN m.count ELSE m.goto[t][a]
<1>1. s \in 0 .. max - 1 /\ m.count \in 1 .. max - 1 /\ m.goto \in [0 .. max - 1 -> [Alphabet -> -1 .. max - 1]]
      /\ m.count + 1 \in 1 .. max /\ m.count \in -1 .. max - 1
  <2> DEFINE n == m.count
  <2>1. n \in Nat /\ n >= 1 /\ m.goto \in [0 .. max - 1 -> [Alphabet -> -1 .. max - 1]] /\ s \in 0 .. n - 1 /\ n < max
    BY TablesAre
  <2> HIDE DEF n
  <2>2. s \in 0 .. max - 1 /\ n \in 1 .. max - 1 /\ n + 1 \in 1 .. max /\ n \in -1 .. max - 1
    BY <2>1
  <2>3. QED
    BY <2>1, <2>2 DEF n
<1>2. [m.goto EXCEPT ![s][c] = m.count] \in [0 .. max - 1 -> [Alphabet -> -1 .. max - 1]]
  BY <1>1
<1>3. NewState(m, s, c) = [m EXCEPT !.goto = [m.goto EXCEPT ![s][c] = m.count], !.count = m.count + 1]
  BY DEF NewState, Tables
<1>4. \A t \in 0 .. max - 1, a \in Alphabet :
        [m.goto EXCEPT ![s][c] = m.count][t][a] = IF t = s /\ a = c THEN m.count ELSE m.goto[t][a]
  BY <1>1
<1> DEFINE g == [m.goto EXCEPT ![s][c] = m.count]
<1>7. \A t \in 0 .. max - 1, a \in Alphabet : g[t][a] = IF t = s /\ a = c THEN m.count ELSE m.goto[t][a]
  BY <1>4
<1>8. g \in [0 .. max - 1 -> [Alphabet -> -1 .. max - 1]]
  BY <1>2
<1>9. NewState(m, s, c) = [m EXCEPT !.goto = g, !.count = m.count + 1]
  BY <1>3
<1> HIDE DEF g
<1> DEFINE r == [m EXCEPT !.goto = g, !.count = m.count + 1]
<1>5. r \in Tables(max) /\ r.goto = g /\ r.count = m.count + 1 /\ r.match = m.match /\ r.fail = m.fail
  BY <1>1, <1>8 DEF Tables
<1> HIDE DEF r
<1>6. QED
  BY <1>5, <1>7, <1>9 DEF r

GrownLabels(lab, n, w) == [t \in 0 .. n |-> IF t = n THEN w ELSE lab[t]]

\* A new state gives the tree one more label.
LEMMA ChildTree ==
  ASSUME NEW m, NEW lab, NEW max, NEW hack, Tree(m, lab, max, hack),
         NEW s \in 0 .. m.count - 1, NEW c \in Alphabet, m.goto[s][c] = Fail, m.count < max,
         hack => c # Hack
  PROVE  Tree(NewState(m, s, c), GrownLabels(lab, m.count, Append(lab[s], c)), max, hack)
<1> DEFINE n == m.count
           w == Append(lab[s], c)
           g == NewState(m, s, c)
           l == GrownLabels(lab, n, w)
<1>1. max \in Nat /\ m \in Tables(max) /\ n \in Nat /\ n \in 1 .. max /\ n < max
  BY TreeTables
<1>2. /\ g \in Tables(max) /\ g.count = n + 1
      /\ \A t \in 0 .. max - 1, a \in Alphabet : g.goto[t][a] = IF t = s /\ a = c THEN n ELSE m.goto[t][a]
  BY <1>1, ChildIs
<1>3. lab[s] \in Text /\ w \in Text
  BY Appended DEF Tree
<1>4. l \in [0 .. n -> Text] /\ l[n] = w /\ \A t \in 0 .. n - 1 : l[t] = lab[t]
  BY <1>1, <1>3 DEF GrownLabels, Tree
<1>5. \A t \in 0 .. n - 1 : lab[t] # w
  <2> TAKE t \in 0 .. n - 1
  <2>1. CASE lab[t] = w
    <3>1. m.goto[s][c] = t
      BY <1>1, <2>1, GotoOf
    <3>2. t \in Nat
      BY <1>1
    <3>3. t # Fail
      BY <3>2, Characters
    <3>4. QED
      BY <3>1, <3>3
  <2>2. QED
    BY <2>1
<1>10. l[0] = <<>>
  BY <1>1, <1>4 DEF Tree
<1> HIDE DEF w, g, l, n
<1>6. \A p, t \in 0 .. n : l[p] = l[t] => p = t
  <2> TAKE p, t \in 0 .. n
  <2>1. CASE p = n /\ t = n
    BY <2>1
  <2>2. CASE p = n /\ t # n
    BY <1>1, <1>4, <1>5, <2>2
  <2>3. CASE p # n /\ t = n
    BY <1>1, <1>4, <1>5, <2>3
  <2>4. CASE p # n /\ t # n
    <3>1. p \in 0 .. n - 1 /\ t \in 0 .. n - 1
      BY <1>1, <2>4
    <3>2. QED
      BY <1>4, <3>1 DEF Tree, n
  <2>5. QED
    BY <2>1, <2>2, <2>3, <2>4
<1>7. \A t \in 1 .. n : \E p \in 0 .. t - 1, a \in Alphabet : g.goto[p][a] = t
  <2> TAKE t \in 1 .. n
  <2>1. CASE t = n
    <3>1. s \in 0 .. t - 1 /\ g.goto[s][c] = t
      BY <1>1, <1>2, <2>1 DEF n
    <3>2. QED
      BY <3>1
  <2>2. CASE t # n
    <3>1. t \in 1 .. m.count - 1
      BY <1>1, <2>2 DEF n
    <3>2. PICK p \in 0 .. t - 1, a \in Alphabet : m.goto[p][a] = t
      BY <3>1 DEF Tree
    <3>3. ~(p = s /\ a = c)
      BY <3>1, <3>2, Characters
    <3>4. p \in 0 .. max - 1
      BY <1>1, <3>1 DEF n
    <3>5. g.goto[p][a] = t
      BY <1>2, <3>2, <3>3, <3>4
    <3>6. QED
      BY <3>5
  <2>3. QED
    BY <2>1, <2>2
<1>8. \A p \in 0 .. n, a \in Alphabet :
        \/ g.goto[p][a] = Fail
        \/ g.goto[p][a] = p /\ hack /\ a = Hack
        \/ g.goto[p][a] \in p + 1 .. n /\ l[g.goto[p][a]] = Append(l[p], a) /\ (hack => a # Hack)
  <2> TAKE p \in 0 .. n, a \in Alphabet
  <2>0. p \in 0 .. max - 1
    BY <1>1
  <2>1. CASE p = s /\ a = c
    <3>1. g.goto[p][a] = n
      BY <1>2, <2>0, <2>1
    <3>2. n \in p + 1 .. n
      BY <1>1, <2>1 DEF n
    <3>3. l[n] = Append(l[p], a)
      BY <1>1, <1>4, <2>1 DEF w, n
    <3>4. QED
      BY <2>1, <3>1, <3>2, <3>3
  <2>2. CASE p = n
    <3>1. p \in m.count .. max - 1
      BY <1>1, <2>2 DEF n
    <3>2. ~(p = s)
      BY <1>1, <2>2 DEF n
    <3>3. g.goto[p][a] = Fail
      BY <1>2, <2>0, <3>1, <3>2 DEF Tree
    <3>4. QED
      BY <3>3
  <2>3. CASE p # n /\ ~(p = s /\ a = c)
    <3>1. p \in 0 .. m.count - 1
      BY <1>1, <2>3 DEF n
    <3>2. g.goto[p][a] = m.goto[p][a]
      BY <1>2, <2>0, <2>3
    <3>3. \/ m.goto[p][a] = Fail
          \/ m.goto[p][a] = p /\ hack /\ a = Hack
          \/ m.goto[p][a] \in p + 1 .. n - 1 /\ lab[m.goto[p][a]] = Append(lab[p], a) /\ (hack => a # Hack)
      BY <3>1 DEF Tree, n
    <3>4. CASE m.goto[p][a] \in p + 1 .. n - 1
      <4>1. m.goto[p][a] \in 0 .. n - 1 /\ m.goto[p][a] \in p + 1 .. n /\ p \in 0 .. n - 1
        BY <1>1, <3>4
      <4>2. l[m.goto[p][a]] = lab[m.goto[p][a]] /\ l[p] = lab[p]
        BY <1>4, <4>1
      <4>3. m.goto[p][a] # Fail /\ m.goto[p][a] # p
        BY <1>1, <3>4, Characters
      <4>4. lab[m.goto[p][a]] = Append(lab[p], a) /\ (hack => a # Hack)
        BY <3>3, <4>3
      <4>5. QED
        BY <3>2, <4>1, <4>2, <4>4
    <3>5. QED
      BY <3>2, <3>3, <3>4
  <2>4. QED
    BY <2>1, <2>2, <2>3
<1>9. \A p \in n + 1 .. max - 1, a \in Alphabet : g.goto[p][a] = Fail
  <2> TAKE p \in n + 1 .. max - 1, a \in Alphabet
  <2>1. p \in 0 .. max - 1 /\ p \in m.count .. max - 1 /\ p # s
    BY <1>1 DEF n
  <2>2. QED
    BY <1>2, <2>1 DEF Tree
<1>11. n + 1 - 1 = n
  BY <1>1
<1>12. Tree(g, l, max, hack)
  BY <1>1, <1>2, <1>4, <1>6, <1>7, <1>8, <1>9, <1>10, <1>11 DEF Tree
<1>13. QED
  BY <1>12 DEF g, l, w, n

\* The byte that is skipped leads back.
Looped(m, s) == [m EXCEPT !.goto[s][Hack] = s]

\* What the loop of the skipped byte changes.
LEMMA LoopedIs ==
  ASSUME NEW max \in Nat, NEW m \in Tables(max), NEW s \in 0 .. m.count - 1
  PROVE  /\ Looped(m, s) \in Tables(max)
         /\ Looped(m, s).count = m.count
         /\ Looped(m, s).match = m.match
         /\ Looped(m, s).fail = m.fail
         /\ \A t \in 0 .. max - 1, a \in Alphabet :
               Looped(m, s).goto[t][a] = IF t = s /\ a = Hack THEN s ELSE m.goto[t][a]
<1>1. s \in 0 .. max - 1 /\ m.goto \in [0 .. max - 1 -> [Alphabet -> -1 .. max - 1]] /\ Hack \in Alphabet
      /\ s \in -1 .. max - 1
  <2> DEFINE n == m.count
  <2>1. n \in Nat /\ n <= max /\ m.goto \in [0 .. max - 1 -> [Alphabet -> -1 .. max - 1]] /\ s \in 0 .. n - 1
    BY TablesAre
  <2> HIDE DEF n
  <2>2. s \in 0 .. max - 1 /\ s \in -1 .. max - 1
    BY <2>1
  <2>3. QED
    BY <2>1, <2>2, Characters
<1>2. [m.goto EXCEPT ![s][Hack] = s] \in [0 .. max - 1 -> [Alphabet -> -1 .. max - 1]]
  BY <1>1
<1>3. Looped(m, s) = [m EXCEPT !.goto = [m.goto EXCEPT ![s][Hack] = s]]
  BY DEF Looped, Tables
<1>4. \A t \in 0 .. max - 1, a \in Alphabet :
        [m.goto EXCEPT ![s][Hack] = s][t][a] = IF t = s /\ a = Hack THEN s ELSE m.goto[t][a]
  BY <1>1
<1> DEFINE g == [m.goto EXCEPT ![s][Hack] = s]
<1>7. \A t \in 0 .. max - 1, a \in Alphabet : g[t][a] = IF t = s /\ a = Hack THEN s ELSE m.goto[t][a]
  BY <1>4
<1>8. g \in [0 .. max - 1 -> [Alphabet -> -1 .. max - 1]]
  BY <1>2
<1>9. Looped(m, s) = [m EXCEPT !.goto = g]
  BY <1>3
<1> HIDE DEF g
<1> DEFINE r == [m EXCEPT !.goto = g]
<1>5. r \in Tables(max) /\ r.goto = g /\ r.count = m.count /\ r.match = m.match /\ r.fail = m.fail
  BY <1>1, <1>8 DEF Tables
<1> HIDE DEF r
<1>6. QED
  BY <1>5, <1>7, <1>9 DEF r

\* The loop of the skipped byte gives no state a label.
LEMMA LoopedTree ==
  ASSUME NEW m, NEW lab, NEW max, Tree(m, lab, max, TRUE), NEW s \in 0 .. m.count - 1
  PROVE  Tree(Looped(m, s), lab, max, TRUE)
<1> DEFINE n == m.count
           g == Looped(m, s)
<1>0. max \in Nat /\ m \in Tables(max) /\ n \in Nat /\ n >= 1 /\ n <= max
  BY TreeTables
<1>1. max \in Nat /\ m \in Tables(max) /\ n \in Nat /\ n \in 1 .. max
  BY <1>0
<1>2. /\ g \in Tables(max) /\ g.count = n
      /\ \A t \in 0 .. max - 1, a \in Alphabet : g.goto[t][a] = IF t = s /\ a = Hack THEN s ELSE m.goto[t][a]
  BY <1>1, LoopedIs
<1> HIDE DEF g, n
<1>3. \A t \in 1 .. n - 1 : \E p \in 0 .. t - 1, a \in Alphabet : g.goto[p][a] = t
  <2> TAKE t \in 1 .. n - 1
  <2>1. PICK p \in 0 .. t - 1, a \in Alphabet : m.goto[p][a] = t
    BY DEF Tree, n
  <2>2. p \in 0 .. n - 1 /\ p \in 0 .. max - 1 /\ m.goto[p][a] # Fail /\ m.goto[p][a] # p
    <3>1. t \in Nat /\ p \in Nat /\ p < t /\ t < n /\ n <= max /\ t # Fail
      BY <1>1, Characters
    <3>2. p \in 0 .. n - 1 /\ p \in 0 .. max - 1 /\ t # p
      BY <1>1, <3>1
    <3>3. QED
      BY <2>1, <3>1, <3>2, Zenon
  <2>3. a # Hack
    BY <2>2 DEF Tree, n
  <2>4. g.goto[p][a] = t
    BY <1>2, <2>1, <2>2, <2>3
  <2>5. QED
    BY <2>4
<1>4. \A p \in 0 .. n - 1, a \in Alphabet :
        \/ g.goto[p][a] = Fail
        \/ g.goto[p][a] = p /\ a = Hack
        \/ g.goto[p][a] \in p + 1 .. n - 1 /\ lab[g.goto[p][a]] = Append(lab[p], a) /\ a # Hack
  <2> TAKE p \in 0 .. n - 1, a \in Alphabet
  <2>1. p \in 0 .. max - 1
    BY <1>1
  <2>2. CASE p = s /\ a = Hack
    BY <1>2, <2>1, <2>2
  <2>3. CASE ~(p = s /\ a = Hack)
    <3>1. g.goto[p][a] = m.goto[p][a]
      BY <1>2, <2>1, <2>3
    <3>2. \/ m.goto[p][a] = Fail
          \/ m.goto[p][a] = p /\ a = Hack
          \/ m.goto[p][a] \in p + 1 .. n - 1 /\ lab[m.goto[p][a]] = Append(lab[p], a) /\ a # Hack
      BY DEF Tree, n
    <3>3. QED
      BY <3>1, <3>2
  <2>4. QED
    BY <2>2, <2>3
<1>5. \A p \in n .. max - 1, a \in Alphabet : g.goto[p][a] = Fail
  <2> TAKE p \in n .. max - 1, a \in Alphabet
  <2>1. p \in 0 .. max - 1 /\ p # s
    BY <1>1 DEF n
  <2>2. QED
    BY <1>2, <2>1 DEF Tree, n
<1>6. QED
  BY <1>1, <1>2, <1>3, <1>4, <1>5 DEF Tree, n, g

(***************************************************************************)
(* Patterns and their words.                                               *)
(***************************************************************************)
PatternSet ==
  [text : Seq(0 .. Chars - 1), id : Nat, begin : BOOLEAN, end : BOOLEAN, wild : BOOLEAN, hack : BOOLEAN]

\* A pattern as the search meets it, the anchors included.
Lead(p) == IF p.begin THEN <<AnchorStart>> ELSE <<>>

Upto(p, k) == Lead(p) \o SubSeq(p.text, 1, k)

PatternWord(p) == IF p.end THEN Append(Upto(p, Len(p.text)), AnchorEnd) ELSE Upto(p, Len(p.text))

Hacked(sm) == \E i \in DOMAIN sm.patterns : sm.patterns[i].hack

Used(sm) ==
  Elements(sm.symbols) \cup (IF sm.begin THEN {AnchorStart} ELSE {}) \cup (IF sm.end THEN {AnchorEnd} ELSE {})

\* What smack_add_pattern() has collected, when it was called as it should be.
PatternFits(sm, i, p) ==
  /\ p.id = i /\ p.text # <<>> /\ Elements(p.text) \subseteq Elements(sm.symbols)
  /\ (p.begin => sm.begin) /\ (p.end => sm.end)
  /\ p.hack => \A k \in DOMAIN p.text : p.text[k] # Hack
  /\ sm.nocase => \A k \in DOMAIN p.text : ToLower(p.text[k]) = p.text[k]

Registered(sm) ==
  /\ sm \in [nocase : BOOLEAN, symbols : Seq(0 .. Chars - 1), begin : BOOLEAN, end : BOOLEAN,
             patterns : Seq(PatternSet), room : Nat]
  /\ \A i \in DOMAIN sm.patterns : PatternFits(sm, i, sm.patterns[i])
  /\ \A i, j \in DOMAIN sm.patterns : sm.patterns[i].hack = sm.patterns[j].hack
  /\ \A i, j \in DOMAIN sm.patterns : PatternWord(sm.patterns[i]) = PatternWord(sm.patterns[j]) => i = j
  /\ sm.begin => \E i \in DOMAIN sm.patterns : sm.patterns[i].begin

\* What is known of a registered pattern.
LEMMA RegisteredPattern ==
  ASSUME NEW sm, Registered(sm), NEW i \in DOMAIN sm.patterns
  PROVE  /\ sm.patterns[i] \in PatternSet /\ PatternFits(sm, i, sm.patterns[i])
         /\ Len(sm.patterns) \in Nat /\ DOMAIN sm.patterns = 1 .. Len(sm.patterns)
         /\ sm.patterns[i].hack = Hacked(sm)
<1>1. sm.patterns \in Seq(PatternSet)
  BY DEF Registered
<1>2. Len(sm.patterns) \in Nat /\ DOMAIN sm.patterns = 1 .. Len(sm.patterns) /\ sm.patterns[i] \in PatternSet
  BY <1>1
<1>3. sm.patterns[i].hack = Hacked(sm)
  <2>1. sm.patterns[i].hack \in BOOLEAN
    BY <1>2 DEF PatternSet
  <2>2. CASE sm.patterns[i].hack
    BY <2>2 DEF Hacked
  <2>3. CASE ~ sm.patterns[i].hack
    <3>1. \A j \in DOMAIN sm.patterns : ~ sm.patterns[j].hack
      BY <2>3 DEF Registered
    <3>2. ~ Hacked(sm)
      BY <3>1 DEF Hacked
    <3> DEFINE h == sm.patterns[i].hack
    <3>3. h \in BOOLEAN /\ ~h
      BY <2>1, <2>3
    <3>5. Hacked(sm) \in BOOLEAN
      BY DEF Hacked
    <3> HIDE DEF h
    <3>4. h = Hacked(sm)
      BY <3>2, <3>3, <3>5
    <3>6. QED
      BY <3>4 DEF h
  <2>4. QED
    BY <2>1, <2>2, <2>3
<1>4. QED
  BY <1>2, <1>3 DEF Registered

\* A sequence over part of a set.
LEMMA SeqInto ==
  ASSUME NEW S, NEW T, S \subseteq T, NEW s \in Seq(S)
  PROVE  s \in Seq(T) /\ Len(s) \in Nat /\ DOMAIN s = 1 .. Len(s) /\ \A k \in 1 .. Len(s) : s[k] \in S
<1>1. Len(s) \in Nat /\ s \in [1 .. Len(s) -> S] /\ DOMAIN s = 1 .. Len(s)
  BY LenProperties
<1>2. s \in [1 .. Len(s) -> T]
  BY <1>1
<1>3. s \in Seq(T)
  BY <1>1, <1>2, SeqDef
<1>4. QED
  BY <1>1, <1>3

\* A sequence of one element.
LEMMA OneIs ==
  ASSUME NEW S, NEW x \in S
  PROVE  <<x>> \in Seq(S) /\ Len(<<x>>) = 1 /\ DOMAIN <<x>> = {1} /\ <<x>>[1] = x /\ Elements(<<x>>) = {x}
<1> DEFINE one == <<x>>
<1>1. one \in Seq(S) /\ Len(one) = 1 /\ one[1] = x
  OBVIOUS
<1>2. DOMAIN one = {1}
  OBVIOUS
<1> HIDE DEF one
<1>3. Elements(one) = {x}
  BY <1>1, <1>2 DEF Elements
<1>4. QED
  BY <1>1, <1>2, <1>3 DEF one

\* The anchor that a pattern begins with is a text.
LEMMA LeadText ==
  ASSUME NEW p \in PatternSet
  PROVE  /\ Lead(p) \in Text /\ p.text \in Text /\ Len(p.text) \in Nat /\ DOMAIN p.text = 1 .. Len(p.text)
         /\ \A k \in 1 .. Len(p.text) : p.text[k] \in 0 .. Chars - 1
<1>1. p.text \in Seq(0 .. Chars - 1)
  BY DEF PatternSet
<1>2. 0 .. Chars - 1 \subseteq Alphabet
  BY Characters
<1>3. Lead(p) \in Text
  <2>1. CASE p.begin
    <3>1. <<AnchorStart>> \in Seq(Alphabet)
      BY Characters, OneIs
    <3>2. QED
      BY <2>1, <3>1 DEF Lead, Text
  <2>2. CASE ~p.begin
    BY <2>2 DEF Lead, Text
  <2>3. QED
    BY <2>1, <2>2
<1>4. /\ p.text \in Seq(Alphabet) /\ Len(p.text) \in Nat /\ DOMAIN p.text = 1 .. Len(p.text)
      /\ \A k \in 1 .. Len(p.text) : p.text[k] \in 0 .. Chars - 1
  BY <1>1, <1>2, SeqInto
<1>5. QED
  BY <1>3, <1>4 DEF Text

\* So is the pattern up to a character,
LEMMA UptoText ==
  ASSUME NEW p \in PatternSet, NEW k \in 0 .. Len(p.text)
  PROVE  /\ Upto(p, k) \in Text /\ Upto(p, 0) = Lead(p)
         /\ Len(Upto(p, k)) = Len(Lead(p)) + k
         /\ \A i \in 1 .. Len(Lead(p)) : Upto(p, k)[i] = Lead(p)[i]
         /\ \A i \in 1 .. k : Upto(p, k)[Len(Lead(p)) + i] = p.text[i]
<1> DEFINE t == p.text
           u == SubSeq(t, 1, k)
           l == Lead(p)
<1>1. t \in Text /\ l \in Text /\ Len(t) \in Nat /\ Len(l) \in Nat
  BY LeadText, LenNonNegative
<1>2. u \in Text /\ Len(u) = k /\ \A i \in 1 .. k : u[i] = t[i]
  <2> HIDE DEF t
  <2>1. k \in 0 .. Len(t)
    BY DEF t
  <2>2. QED
    BY <1>1, <2>1, SubSeqProperties DEF Text
<1>3. l \o SubSeq(t, 1, 0) = l
  <2>1. SubSeq(t, 1, 0) = <<>>
    BY <1>1
  <2> HIDE DEF l, t
  <2>2. l \o <<>> = l
    BY <1>1 DEF Text
  <2>3. QED
    BY <2>1, <2>2
<1>4. /\ l \o u \in Text /\ Len(l \o u) = Len(l) + k
      /\ \A i \in 1 .. Len(l) : (l \o u)[i] = l[i]
      /\ \A i \in 1 .. k : (l \o u)[Len(l) + i] = u[i]
  <2> HIDE DEF l, u
  <2>1. l \o u \in Text /\ Len(l \o u) = Len(l) + Len(u)
    BY <1>1, <1>2, ConcatProperties DEF Text
  <2>2. \A i \in 1 .. Len(l) + Len(u) : (l \o u)[i] = IF i <= Len(l) THEN l[i] ELSE u[i - Len(l)]
    BY <1>1, <1>2, ConcatProperties DEF Text
  <2>3. \A i \in 1 .. Len(l) : (l \o u)[i] = l[i]
    BY <1>1, <1>2, <2>2
  <2>4. ASSUME NEW i \in 1 .. k PROVE (l \o u)[Len(l) + i] = u[i]
    <3>1. Len(l) + i \in 1 .. Len(l) + Len(u) /\ ~(Len(l) + i <= Len(l)) /\ Len(l) + i - Len(l) = i
      BY <1>1, <1>2
    <3>2. QED
      BY <2>2, <3>1
  <2>5. QED
    BY <1>2, <2>1, <2>3, <2>4
<1>5. QED
  BY <1>2, <1>3, <1>4 DEF Upto

\* with the next character after it,
LEMMA UptoNext ==
  ASSUME NEW p \in PatternSet, NEW k \in 0 .. Len(p.text) - 1
  PROVE  Upto(p, k + 1) = Append(Upto(p, k), p.text[k + 1])
<1> DEFINE v == Upto(p, k + 1)
           u == Upto(p, k)
           c == p.text[k + 1]
           n == Len(Lead(p))
           w == Append(u, c)
<1>1. Len(p.text) \in Nat /\ n \in Nat /\ c \in Alphabet /\ k + 1 \in 0 .. Len(p.text) /\ k \in 0 .. Len(p.text)
  <2>1. Len(p.text) \in Nat /\ n \in Nat
    BY LeadText, LenNonNegative
  <2>2. k + 1 \in 1 .. Len(p.text) /\ k \in 0 .. Len(p.text) /\ k + 1 \in 0 .. Len(p.text)
    BY <2>1
  <2>3. c \in 0 .. Chars - 1
    BY <2>2, LeadText
  <2>4. QED
    BY <2>1, <2>2, <2>3, Characters
<1>2. /\ v \in Text /\ Len(v) = n + (k + 1)
      /\ \A i \in 1 .. n : v[i] = Lead(p)[i]
      /\ \A i \in 1 .. k + 1 : v[n + i] = p.text[i]
  BY <1>1, UptoText
<1>3. /\ u \in Text /\ Len(u) = n + k
      /\ \A i \in 1 .. n : u[i] = Lead(p)[i]
      /\ \A i \in 1 .. k : u[n + i] = p.text[i]
  BY <1>1, UptoText
<1>4. w \in Text /\ Len(w) = n + k + 1 /\ w[n + k + 1] = c /\ \A i \in 1 .. n + k : w[i] = u[i]
  <2> HIDE DEF u, c
  <2>1. QED
    BY <1>1, <1>3 DEF Text
<1> HIDE DEF u, v, w, n
<1>5. ASSUME NEW i \in 1 .. n + k + 1 PROVE v[i] = w[i]
  <2>1. CASE i <= n
    BY <1>1, <1>2, <1>3, <1>4, <2>1
  <2>2. CASE n < i /\ i <= n + k
    <3>1. i - n \in 1 .. k /\ i - n \in 1 .. k + 1 /\ n + (i - n) = i /\ i \in 1 .. n + k
      BY <1>1, <2>2
    <3>2. v[n + (i - n)] = p.text[i - n] /\ u[n + (i - n)] = p.text[i - n]
      BY <1>2, <1>3, <3>1
    <3>3. QED
      BY <1>4, <3>1, <3>2
  <2>3. CASE i = n + k + 1
    <3>1. k + 1 \in 1 .. k + 1 /\ n + (k + 1) = i
      BY <1>1, <2>3
    <3>2. v[n + (k + 1)] = c
      BY <1>2, <3>1
    <3>3. QED
      BY <1>4, <2>3, <3>1, <3>2
  <2>4. QED
    BY <1>1, <2>1, <2>2, <2>3
<1>6. Len(v) = Len(w) /\ Len(w) = n + k + 1
  BY <1>1, <1>2, <1>4
<1>7. v = w
  BY <1>2, <1>4, <1>5, <1>6, SeqEqual DEF Text
<1>8. QED
  BY <1>7 DEF v, w, u

\* and so is the whole pattern with its anchors.
LEMMA WordText ==
  ASSUME NEW p \in PatternSet
  PROVE  PatternWord(p) \in Text
<1>1. Len(p.text) \in 0 .. Len(p.text)
  BY LeadText
<1>2. Upto(p, Len(p.text)) \in Text
  BY <1>1, UptoText
<1>3. QED
  BY <1>2, Appended, Characters DEF PatternWord

\* No character of a pattern is an anchor.
LEMMA UptoElements ==
  ASSUME NEW p \in PatternSet, NEW k \in 0 .. Len(p.text)
  PROVE  /\ AnchorEnd \notin Elements(Upto(p, k))
         /\ Elements(Upto(p, k)) \subseteq Elements(p.text) \cup (IF p.begin THEN {AnchorStart} ELSE {})
<1> DEFINE u == Upto(p, k)
           l == Lead(p)
           n == Len(Lead(p))
<1>1. /\ u \in Text /\ Len(u) = n + k /\ n \in Nat /\ k \in Nat /\ DOMAIN u = 1 .. n + k
      /\ \A i \in 1 .. n : u[i] = l[i]
      /\ \A i \in 1 .. k : u[n + i] = p.text[i]
  <2>1. n \in Nat /\ Len(p.text) \in Nat
    BY LeadText, LenNonNegative
  <2>2. u \in Text /\ Len(u) = n + k /\ \A i \in 1 .. n : u[i] = l[i]
    BY UptoText
  <2>3. \A i \in 1 .. k : u[n + i] = p.text[i]
    BY UptoText
  <2>4. DOMAIN u = 1 .. Len(u)
    BY <2>2 DEF Text
  <2>5. QED
    BY <2>1, <2>2, <2>3, <2>4
<1>2. ASSUME NEW i \in 1 .. n PROVE p.begin /\ l[i] = AnchorStart
  <2>1. p.begin
    BY DEF Lead
  <2>2. l = <<AnchorStart>>
    BY <2>1 DEF Lead
  <2>3. QED
    BY <2>1, <2>2
<1>3. \A i \in 1 .. k : p.text[i] \in 0 .. Chars - 1 /\ i \in DOMAIN p.text
  BY LeadText
<1>5. AnchorStart # AnchorEnd /\ AnchorEnd \notin 0 .. Chars - 1
  BY Characters
<1> HIDE DEF u, n, l
<1>4. ASSUME NEW i \in DOMAIN u
      PROVE  u[i] # AnchorEnd /\ u[i] \in Elements(p.text) \cup (IF p.begin THEN {AnchorStart} ELSE {})
  <2>1. CASE i <= n
    <3>1. i \in 1 .. n
      BY <1>1, <2>1
    <3>2. u[i] = AnchorStart /\ p.begin
      BY <1>1, <1>2, <3>1
    <3>3. QED
      BY <1>5, <3>2
  <2>2. CASE ~(i <= n)
    <3>1. i - n \in 1 .. k /\ n + (i - n) = i
      BY <1>1, <2>2
    <3>2. u[i] = p.text[i - n]
      BY <1>1, <3>1
    <3>3. QED
      BY <1>3, <1>5, <3>1, <3>2 DEF Elements
  <2>3. QED
    BY <2>1, <2>2
<1>6. QED
  BY <1>4 DEF u, Elements

(***************************************************************************)
(* Prefixes: how the tree grows, and that it stays within the table.       *)
(***************************************************************************)

\* The tree has the first n patterns' words.
Built(sm, m, lab, n) ==
  /\ Tree(m, lab, StateMax(sm.patterns), Hacked(sm))
  /\ \A s \in 0 .. StateMax(sm.patterns) - 1 : m.fail[s] = 0
  /\ \A s \in m.count .. StateMax(sm.patterns) - 1 : m.match[s] = <<>>
  /\ \A s \in 0 .. m.count - 1 :
        NoTwice(m.match[s]) /\ Elements(m.match[s]) = {i \in 1 .. n : PatternWord(sm.patterns[i]) = lab[s]}
  /\ \A i \in 1 .. n : \E s \in 0 .. m.count - 1 : lab[s] = PatternWord(sm.patterns[i])
  /\ \A s \in 0 .. m.count - 1 : Elements(lab[s]) \subseteq Used(sm)

Begun(sm, m, lab) == sm.begin => m.count >= 2 /\ lab[1] = <<AnchorStart>>

\* Only a word of a pattern has the anchor of the end.
EndsInWords(sm, m, lab, n) ==
  \A s \in 0 .. m.count - 1 : AnchorEnd \in Elements(lab[s]) => \E j \in 1 .. n : lab[s] = PatternWord(sm.patterns[j])

\* Labels with one more.
LEMMA GrownIs ==
  ASSUME NEW lab, NEW n \in Nat, NEW w
  PROVE  GrownLabels(lab, n, w)[n] = w /\ \A t \in 0 .. n - 1 : GrownLabels(lab, n, w)[t] = lab[t]
BY DEF GrownLabels

\* The characters of a text with one more character.
LEMMA ElementsOf ==
  ASSUME NEW v \in Text, NEW a \in Alphabet
  PROVE  Elements(Append(v, a)) = Elements(v) \cup {a}
BY ElementsAppend DEF Text

\* What is built so far is a table with labels.
LEMMA BuiltTables ==
  ASSUME NEW sm, NEW m, NEW lab, NEW n, Built(sm, m, lab, n)
  PROVE  /\ Tree(m, lab, StateMax(sm.patterns), Hacked(sm))
         /\ StateMax(sm.patterns) \in Nat /\ m \in Tables(StateMax(sm.patterns))
         /\ m.count \in Nat /\ m.count >= 1 /\ m.count <= StateMax(sm.patterns)
         /\ m.match \in [0 .. StateMax(sm.patterns) - 1 -> Seq(Nat)]
         /\ \A s \in 0 .. m.count - 1 : lab[s] \in Text
<1>1. Tree(m, lab, StateMax(sm.patterns), Hacked(sm))
  BY DEF Built
<1>2. /\ StateMax(sm.patterns) \in Nat /\ m \in Tables(StateMax(sm.patterns))
      /\ m.count \in Nat /\ m.count >= 1 /\ m.count <= StateMax(sm.patterns)
  BY <1>1, TreeTables
<1>3. \A s \in 0 .. m.count - 1 : lab[s] \in Text
  BY <1>1 DEF Tree
<1>4. QED
  BY <1>1, <1>2, <1>3, TablesAre

\* It stays so when a state is added for a prefix of a pattern,
LEMMA ChildBuilt ==
  ASSUME NEW sm, NEW m, NEW lab, NEW n \in Nat, Built(sm, m, lab, n),
         NEW s \in 0 .. m.count - 1, NEW c \in Alphabet, c \in Used(sm), m.goto[s][c] = Fail,
         m.count < StateMax(sm.patterns), Hacked(sm) => c # Hack
  PROVE  /\ Built(sm, NewState(m, s, c), GrownLabels(lab, m.count, Append(lab[s], c)), n)
         /\ Begun(sm, m, lab) => Begun(sm, NewState(m, s, c), GrownLabels(lab, m.count, Append(lab[s], c)))
         /\ NewState(m, s, c).count = m.count + 1
         /\ GrownLabels(lab, m.count, Append(lab[s], c))[m.count] = Append(lab[s], c)
<1> DEFINE k == m.count
           w == Append(lab[s], c)
           g == NewState(m, s, c)
           l == GrownLabels(lab, k, w)
           max == StateMax(sm.patterns)
           W(i) == PatternWord(sm.patterns[i])
<1>1. /\ Tree(m, lab, max, Hacked(sm)) /\ max \in Nat /\ m \in Tables(max) /\ k \in Nat /\ k >= 1 /\ k < max
      /\ m.match \in [0 .. max - 1 -> Seq(Nat)] /\ \A t \in 0 .. k - 1 : lab[t] \in Text
  BY BuiltTables
<1>2. Tree(g, l, max, Hacked(sm))
  BY <1>1, ChildTree
<1>3. g.count = k + 1 /\ g.match = m.match /\ g.fail = m.fail
  BY <1>1, ChildIs
<1>4. l[k] = w /\ \A t \in 0 .. k - 1 : l[t] = lab[t]
  <2> HIDE DEF k, w
  <2>1. QED
    BY <1>1, GrownIs
<1>5. Elements(w) = Elements(lab[s]) \cup {c} /\ lab[s] \in Text /\ Elements(lab[s]) \subseteq Used(sm)
  BY <1>1, ElementsOf DEF Built
<1>6. /\ \A t \in 0 .. max - 1 : m.fail[t] = 0
      /\ \A t \in k .. max - 1 : m.match[t] = <<>>
      /\ \A t \in 0 .. k - 1 : NoTwice(m.match[t]) /\ Elements(m.match[t]) = {i \in 1 .. n : W(i) = lab[t]}
      /\ \A i \in 1 .. n : \E t \in 0 .. k - 1 : lab[t] = W(i)
      /\ \A t \in 0 .. k - 1 : Elements(lab[t]) \subseteq Used(sm)
  BY DEF Built
<1>14. Begun(sm, m, lab) => Begun(sm, g, l)
  <2> SUFFICES ASSUME Begun(sm, m, lab) PROVE Begun(sm, g, l)
    OBVIOUS
  <2>1. CASE sm.begin
    <3>1. k >= 2 /\ lab[1] = <<AnchorStart>>
      BY <2>1 DEF Begun
    <3>2. 1 \in 0 .. k - 1 /\ k + 1 >= 2
      BY <1>1, <3>1
    <3>3. QED
      BY <1>3, <1>4, <3>1, <3>2 DEF Begun
  <2>2. QED
    BY <2>1 DEF Begun
<1> HIDE DEF k, w, g, l, max, W
<1>12. k + 1 - 1 = k
  BY <1>1
<1>17. g.count - 1 = k
  BY <1>1, <1>3
<1>7. \A t, r \in 0 .. k : l[t] = l[r] => t = r
  <2>1. 0 .. g.count - 1 = 0 .. k
    BY <1>17
  <2>2. \A t, r \in 0 .. g.count - 1 : l[t] = l[r] => t = r
    BY <1>2 DEF Tree
  <2>3. QED
    BY <2>1, <2>2
<1>8. \A i \in 1 .. n : W(i) # w
  <2> TAKE i \in 1 .. n
  <2>1. PICK t \in 0 .. k - 1 : lab[t] = W(i)
    BY <1>6
  <2>2. t \in 0 .. k /\ k \in 0 .. k /\ t # k
    BY <1>1
  <2>3. l[t] # l[k]
    BY <1>7, <2>2
  <2>4. QED
    BY <1>4, <2>1, <2>3
<1>9. \A t \in k + 1 .. max - 1 : g.match[t] = <<>>
  BY <1>1, <1>3, <1>6
<1>10. ASSUME NEW t \in 0 .. k
       PROVE  /\ NoTwice(g.match[t]) /\ Elements(g.match[t]) = {i \in 1 .. n : W(i) = l[t]}
              /\ Elements(l[t]) \subseteq Used(sm)
  <2>1. CASE t = k
    <3>1. k \in k .. max - 1
      BY <1>1
    <3>2. g.match[t] = <<>>
      BY <1>3, <1>6, <2>1, <3>1
    <3>3. NoTwice(<<>>) /\ Elements(<<>>) = {}
      BY DEF NoTwice, Elements
    <3>4. {i \in 1 .. n : W(i) = l[t]} = {}
      BY <1>4, <1>8, <2>1
    <3>5. Elements(l[t]) \subseteq Used(sm)
      BY <1>4, <1>5, <2>1
    <3>6. QED
      BY <3>2, <3>3, <3>4, <3>5
  <2>2. CASE t # k
    <3>1. t \in 0 .. k - 1
      BY <1>1, <2>2
    <3>2. QED
      BY <1>3, <1>4, <1>6, <3>1
  <2>3. QED
    BY <2>1, <2>2
<1>11. ASSUME NEW i \in 1 .. n PROVE \E t \in 0 .. k : l[t] = W(i)
  <2>1. PICK t \in 0 .. k - 1 : lab[t] = W(i)
    BY <1>6
  <2>2. t \in 0 .. k /\ l[t] = lab[t]
    BY <1>1, <1>4
  <2>3. QED
    BY <2>1, <2>2
<1>15. \A t \in 0 .. max - 1 : g.fail[t] = 0
  BY <1>3, <1>6
<1>13. Built(sm, g, l, n)
  <2>1. \A t \in g.count .. max - 1 : g.match[t] = <<>>
    BY <1>3, <1>9
  <2>2. \A t \in 0 .. g.count - 1 : NoTwice(g.match[t]) /\ Elements(g.match[t]) = {i \in 1 .. n : W(i) = l[t]}
    BY <1>10, <1>17
  <2>3. \A i \in 1 .. n : \E t \in 0 .. g.count - 1 : l[t] = W(i)
    BY <1>11, <1>17
  <2>4. \A t \in 0 .. g.count - 1 : Elements(l[t]) \subseteq Used(sm)
    BY <1>10, <1>17
  <2>5. QED
    BY <1>2, <1>15, <2>1, <2>2, <2>3, <2>4 DEF Built, max, W
<1>16. QED
  BY <1>3, <1>4, <1>13, <1>14 DEF g, l, k, w, max

\* when the skipped byte gets its loop,
LEMMA LoopedBuilt ==
  ASSUME NEW sm, NEW m, NEW lab, NEW n \in Nat, Built(sm, m, lab, n), NEW s \in 0 .. m.count - 1, Hacked(sm)
  PROVE  Built(sm, Looped(m, s), lab, n) /\ Looped(m, s).count = m.count
<1> DEFINE max == StateMax(sm.patterns)
           g == Looped(m, s)
<1>1. Tree(m, lab, max, TRUE) /\ max \in Nat /\ m \in Tables(max) /\ Hacked(sm) = TRUE
  BY BuiltTables DEF Hacked
<1>2. g.count = m.count /\ g.match = m.match /\ g.fail = m.fail
  BY <1>1, LoopedIs
<1>3. Tree(g, lab, max, Hacked(sm))
  BY <1>1, LoopedTree
<1> HIDE DEF g
<1>4. Built(sm, g, lab, n)
  BY <1>2, <1>3 DEF Built
<1>5. QED
  BY <1>2, <1>4 DEF g

\* The state of v in the tree of the first n words.
Reached(sm, at, lab, n, v) ==
  /\ at = [m |-> at.m, s |-> at.s]
  /\ Built(sm, at.m, lab, n) /\ Begun(sm, at.m, lab)
  /\ at.s \in 0 .. at.m.count - 1 /\ lab[at.s] = v

\* (a new state is the end of no pattern yet)
LEMMA EndsGrown ==
  ASSUME NEW sm, NEW m, NEW lab, NEW n \in Nat, NEW q \in Nat, n <= q, m.count \in Nat, EndsInWords(sm, m, lab, n),
         NEW g, g.count = m.count + 1, NEW w,
         AnchorEnd \in Elements(w) => \E j \in 1 .. q : w = PatternWord(sm.patterns[j])
  PROVE  EndsInWords(sm, g, GrownLabels(lab, m.count, w), q)
<1> DEFINE k == m.count
           l == GrownLabels(lab, k, w)
           W(j) == PatternWord(sm.patterns[j])
<1>1. k \in Nat /\ l[k] = w /\ \A t \in 0 .. k - 1 : l[t] = lab[t]
  <2> HIDE DEF k
  <2>1. k \in Nat
    BY DEF k
  <2>2. QED
    BY <2>1, GrownIs
<1>2. \A t \in 0 .. k - 1 : AnchorEnd \in Elements(lab[t]) => \E j \in 1 .. n : lab[t] = W(j)
  BY DEF EndsInWords
<1>3. g.count - 1 = k
  OBVIOUS
<1>4. AnchorEnd \in Elements(w) => \E j \in 1 .. q : w = W(j)
  OBVIOUS
<1> HIDE DEF k, l, W
<1>5. ASSUME NEW t \in 0 .. k, AnchorEnd \in Elements(l[t]) PROVE \E j \in 1 .. q : l[t] = W(j)
  <2>1. CASE t = k
    BY <1>1, <1>4, <1>5, <2>1
  <2>2. CASE t # k
    <3>1. t \in 0 .. k - 1
      BY <1>1, <2>2
    <3>2. PICK j \in 1 .. n : lab[t] = W(j)
      BY <1>1, <1>2, <1>5, <3>1
    <3>3. j \in 1 .. q /\ l[t] = lab[t]
      BY <1>1, <3>1
    <3>4. QED
      BY <3>2, <3>3
  <2>3. QED
    BY <2>1, <2>2
<1>6. QED
  BY <1>3, <1>5 DEF EndsInWords, l, W, k

\* when a pattern is followed by one character,
LEMMA ExtendBuilt ==
  ASSUME NEW sm, NEW at, NEW lab, NEW n \in Nat, NEW v \in Text, Reached(sm, at, lab, n, v), EndsInWords(sm, at.m, lab, n),
         NEW c \in Alphabet, c \in Used(sm), c # AnchorEnd, AnchorEnd \notin Elements(v),
         at.m.count < StateMax(sm.patterns), NEW hack \in BOOLEAN, hack = Hacked(sm), hack => c # Hack
  PROVE  /\ \E l : Reached(sm, Extend(at, c, hack), l, n, Append(v, c)) /\ EndsInWords(sm, Extend(at, c, hack).m, l, n)
         /\ Extend(at, c, hack).m.count <= at.m.count + 1
<1> DEFINE m == at.m
           s == at.s
           max == StateMax(sm.patterns)
           e == Extend(at, c, hack)
<1>1. /\ at = [m |-> m, s |-> s] /\ Built(sm, m, lab, n) /\ Begun(sm, m, lab) /\ EndsInWords(sm, m, lab, n)
      /\ s \in 0 .. m.count - 1 /\ lab[s] = v
  BY DEF Reached
<1>2. Tree(m, lab, max, Hacked(sm)) /\ max \in Nat /\ m \in Tables(max) /\ m.count \in Nat
  BY <1>1, BuiltTables
<1>3. CASE m.goto[s][c] # Fail
  <2> DEFINE t == m.goto[s][c]
  <2>1. t \in s + 1 .. m.count - 1 /\ lab[t] = Append(lab[s], c)
    BY <1>1, <1>2, <1>3 DEF Tree
  <2>2. e = [m |-> m, s |-> t]
    BY <1>1, <1>3 DEF Extend
  <2>3. t \in 0 .. m.count - 1
    BY <1>1, <1>2, <2>1
  <2>5. e.m = m /\ e.s = t
    BY <2>2
  <2> HIDE DEF t, e, m
  <2>4. Reached(sm, e, lab, n, Append(v, c)) /\ EndsInWords(sm, e.m, lab, n) /\ e.m.count <= m.count + 1
    BY <1>1, <1>2, <2>1, <2>2, <2>3, <2>5 DEF Reached
  <2>6. QED
    BY <2>4 DEF e, m
<1>4. CASE m.goto[s][c] = Fail
  <2> DEFINE b == IF hack THEN Looped(m, s) ELSE m
             g == NewState(b, s, c)
             w == Append(v, c)
             l == GrownLabels(lab, m.count, w)
  <2>1. e = [m |-> g, s |-> m.count]
    BY <1>4 DEF Extend, Looped
  <2>2. Built(sm, b, lab, n) /\ b.count = m.count /\ b.goto[s][c] = Fail
    <3>1. CASE hack
      <4>1. Built(sm, Looped(m, s), lab, n) /\ Looped(m, s).count = m.count
        BY <1>1, <3>1, LoopedBuilt
      <4>2. s \in 0 .. max - 1 /\ c # Hack
        BY <1>1, <1>2, <3>1, TreeTables
      <4>3. Looped(m, s).goto[s][c] = m.goto[s][c]
        BY <1>1, <1>2, <4>2, LoopedIs
      <4>4. QED
        BY <1>4, <3>1, <4>1, <4>3
    <3>2. CASE ~hack
      BY <1>1, <1>4, <3>2
    <3>3. QED
      BY <3>1, <3>2
  <2>8. Begun(sm, b, lab)
    BY <1>1, <2>2 DEF Begun
  <2> HIDE DEF b, e, g, m, l, w
  <2>3. Built(sm, g, l, n) /\ Begun(sm, g, l) /\ g.count = m.count + 1 /\ l[m.count] = w
    <3>1. s \in 0 .. b.count - 1 /\ b.count < max /\ lab[s] = v
      BY <1>1, <2>2 DEF m
    <3>2. /\ Built(sm, NewState(b, s, c), GrownLabels(lab, b.count, Append(lab[s], c)), n)
          /\ Begun(sm, NewState(b, s, c), GrownLabels(lab, b.count, Append(lab[s], c)))
          /\ NewState(b, s, c).count = b.count + 1
          /\ GrownLabels(lab, b.count, Append(lab[s], c))[b.count] = Append(lab[s], c)
      BY <2>2, <2>8, <3>1, ChildBuilt
    <3>3. QED
      BY <2>2, <3>1, <3>2 DEF g, l, w
  <2>4. AnchorEnd \notin Elements(w)
    BY ElementsOf DEF w
  <2>5. EndsInWords(sm, g, l, n)
    BY <1>1, <1>2, <2>3, <2>4, EndsGrown DEF l
  <2>6. m.count \in 0 .. g.count - 1
    BY <1>2, <2>3
  <2>9. e.m = g /\ e.s = m.count
    BY <2>1
  <2>7. Reached(sm, e, l, n, w) /\ EndsInWords(sm, e.m, l, n) /\ e.m.count <= m.count + 1
    BY <1>2, <2>1, <2>3, <2>5, <2>6, <2>9 DEF Reached
  <2>10. QED
    BY <2>7 DEF e, w, m
<1>5. QED
  BY <1>3, <1>4

\* when the anchor at its end is added,
LEMMA EndedBuilt ==
  ASSUME NEW sm, Registered(sm), NEW n \in Nat, n + 1 \in DOMAIN sm.patterns, NEW at, NEW lab,
         Reached(sm, at, lab, n, Upto(sm.patterns[n + 1], Len(sm.patterns[n + 1].text))), EndsInWords(sm, at.m, lab, n),
         sm.patterns[n + 1].end => at.m.count < StateMax(sm.patterns)
  PROVE  /\ \E l : /\ Reached(sm, Ended(at, sm.patterns[n + 1]), l, n, PatternWord(sm.patterns[n + 1]))
                   /\ EndsInWords(sm, Ended(at, sm.patterns[n + 1]).m, l, n + 1)
         /\ Ended(at, sm.patterns[n + 1]).m.count <= at.m.count + (IF sm.patterns[n + 1].end THEN 1 ELSE 0)
<1> DEFINE p == sm.patterns[n + 1]
           u == Upto(p, Len(p.text))
           m == at.m
           s == at.s
           e == Ended(at, p)
           max == StateMax(sm.patterns)
<1>1. /\ at = [m |-> m, s |-> s] /\ Built(sm, m, lab, n) /\ Begun(sm, m, lab) /\ EndsInWords(sm, m, lab, n)
      /\ s \in 0 .. m.count - 1 /\ lab[s] = u
  BY DEF Reached
<1>2. Tree(m, lab, max, Hacked(sm)) /\ max \in Nat /\ m \in Tables(max) /\ m.count \in Nat
  BY <1>1, BuiltTables
<1>3. p \in PatternSet /\ PatternFits(sm, n + 1, p) /\ Len(p.text) \in 0 .. Len(p.text)
  BY RegisteredPattern, LeadText
<1>4. u \in Text /\ AnchorEnd \notin Elements(u)
  BY <1>3, UptoText, UptoElements
<1>5. CASE ~p.end
  <2>1. e = at /\ PatternWord(p) = u
    BY <1>5 DEF Ended, PatternWord
  <2>2. EndsInWords(sm, m, lab, n + 1)
    <3>1. 1 .. n \subseteq 1 .. n + 1
      OBVIOUS
    <3>2. QED
      BY <1>1, <3>1 DEF EndsInWords
  <2>4. m.count <= m.count + 0
    BY <1>2
  <2> HIDE DEF m, e, u, p
  <2>3. QED
    BY <1>5, <2>1, <2>2, <2>4 DEF m, e, u, p
<1>6. CASE p.end
  <2> DEFINE w == Append(u, AnchorEnd)
             g == NewState(m, s, AnchorEnd)
             l == GrownLabels(lab, m.count, w)
  <2>1. e = [m |-> g, s |-> m.count] /\ PatternWord(p) = w
    BY <1>6 DEF Ended, PatternWord
  <2>2. w \in Text /\ AnchorEnd \in Elements(w)
    BY <1>4, Characters, Appended, ElementsOf
  <2>3. m.goto[s][AnchorEnd] = Fail
    <3>1. CASE m.goto[s][AnchorEnd] # Fail
      <4> DEFINE t == m.goto[s][AnchorEnd]
      <4>1. AnchorEnd \in Alphabet /\ AnchorEnd # Hack
        BY Characters
      <4>2. t \in s + 1 .. m.count - 1 /\ lab[t] = Append(lab[s], AnchorEnd)
        BY <1>1, <1>2, <3>1, <4>1 DEF Tree
      <4>11. s \in 0 .. m.count - 1 /\ m.count \in Nat /\ lab[s] = u
        BY <1>1, <1>2
      <4>12. w = Append(u, AnchorEnd)
        OBVIOUS
      <4> HIDE DEF t, m, w, u, p, s
      <4>3. t \in 0 .. m.count - 1 /\ lab[t] = w
        <5>1. t \in 0 .. m.count - 1
          BY <4>2, <4>11
        <5>2. lab[t] = w
          BY <4>2, <4>11, <4>12, Zenon
        <5>3. QED
          BY <5>1, <5>2
      <4>4. PICK j \in 1 .. n : lab[t] = PatternWord(sm.patterns[j])
        BY <1>1, <2>2, <4>3 DEF EndsInWords
      <4>5. j \in DOMAIN sm.patterns
        <5>1. DOMAIN sm.patterns = 1 .. Len(sm.patterns) /\ Len(sm.patterns) \in Nat
          BY RegisteredPattern
        <5>2. QED
          BY <5>1
      <4>6. PatternWord(sm.patterns[j]) = PatternWord(sm.patterns[n + 1])
        BY <2>1, <4>3, <4>4 DEF p
      <4>7. j = n + 1
        BY <4>5, <4>6 DEF Registered
      <4>8. QED
        BY <4>7
    <3>2. QED
      BY <3>1
  <2>4. AnchorEnd \in Used(sm) /\ AnchorEnd \in Alphabet /\ AnchorEnd # Hack
    BY <1>3, <1>6, Characters DEF Used, PatternFits
  <2>5. m.count < max
    BY <1>6
  <2>11. u = lab[s] /\ n + 1 \in Nat /\ n <= n + 1 /\ n + 1 \in 1 .. n + 1
    BY <1>1
  <2> HIDE DEF e, g, m, l, w, u, s, max
  <2>6. Built(sm, g, l, n) /\ Begun(sm, g, l) /\ g.count = m.count + 1 /\ l[m.count] = w
    <3>1. /\ Built(sm, NewState(m, s, AnchorEnd), GrownLabels(lab, m.count, Append(lab[s], AnchorEnd)), n)
          /\ Begun(sm, NewState(m, s, AnchorEnd), GrownLabels(lab, m.count, Append(lab[s], AnchorEnd)))
          /\ NewState(m, s, AnchorEnd).count = m.count + 1
          /\ GrownLabels(lab, m.count, Append(lab[s], AnchorEnd))[m.count] = Append(lab[s], AnchorEnd)
      BY <1>1, <2>3, <2>4, <2>5, ChildBuilt DEF max
    <3>2. QED
      BY <2>11, <3>1 DEF g, l, w
  <2>7. EndsInWords(sm, g, l, n + 1)
    <3>1. w = PatternWord(sm.patterns[n + 1])
      BY <2>1 DEF p
    <3>2. QED
      BY <1>1, <1>2, <2>6, <2>11, <3>1, EndsGrown DEF l
  <2>8. m.count \in 0 .. g.count - 1
    BY <1>2, <2>6
  <2>9. e.m = g /\ e.s = m.count
    BY <2>1
  <2>10. Reached(sm, e, l, n, w) /\ EndsInWords(sm, e.m, l, n + 1) /\ e.m.count <= m.count + 1
    BY <1>2, <2>1, <2>6, <2>7, <2>8, <2>9 DEF Reached
  <2>12. QED
    BY <1>6, <2>1, <2>10 DEF e, m
<1>7. p.end \in BOOLEAN
  BY <1>3 DEF PatternSet
<1>8. QED
  BY <1>5, <1>6

\* The pattern's number is noted at the state of its word.
Matched(m, s, id) == [m EXCEPT !.match[s] = CopyMatches(@, <<id>>)]

\* and when its id is noted at its last state.
LEMMA MatchedBuilt ==
  ASSUME NEW sm, NEW n \in Nat, NEW m, NEW lab, Built(sm, m, lab, n), NEW s \in 0 .. m.count - 1,
         lab[s] = PatternWord(sm.patterns[n + 1])
  PROVE  /\ Built(sm, Matched(m, s, n + 1), lab, n + 1)
         /\ Matched(m, s, n + 1).count = m.count
<1> DEFINE max == StateMax(sm.patterns)
           k == m.count
           new == CopyMatches(m.match[s], <<n + 1>>)
           f == [m.match EXCEPT ![s] = new]
           g == [m EXCEPT !.match = f]
           W(i) == PatternWord(sm.patterns[i])
<1>1. /\ Tree(m, lab, max, Hacked(sm)) /\ max \in Nat /\ m \in Tables(max) /\ k \in Nat /\ k >= 1 /\ k <= max
      /\ m.match \in [0 .. max - 1 -> Seq(Nat)]
  BY BuiltTables
<1>2. /\ \A t \in 0 .. max - 1 : m.fail[t] = 0
      /\ \A t \in k .. max - 1 : m.match[t] = <<>>
      /\ \A t \in 0 .. k - 1 : NoTwice(m.match[t]) /\ Elements(m.match[t]) = {i \in 1 .. n : W(i) = lab[t]}
      /\ \A i \in 1 .. n : \E t \in 0 .. k - 1 : lab[t] = W(i)
      /\ \A t \in 0 .. k - 1 : Elements(lab[t]) \subseteq Used(sm)
  BY DEF Built
<1>3. s \in 0 .. k - 1 /\ s \in 0 .. max - 1 /\ lab[s] = W(n + 1)
  <2> HIDE DEF k
  <2>1. s \in 0 .. k - 1
    BY DEF k
  <2>2. QED
    BY <1>1, <2>1
<1>4. m.match[s] \in Seq(Nat) /\ NoTwice(m.match[s]) /\ n + 1 \in Nat
  BY <1>1, <1>2, <1>3
<1>5. new \in Seq(Nat) /\ NoTwice(new) /\ Elements(new) = Elements(m.match[s]) \cup {n + 1}
  <2> DEFINE old == m.match[s]
             x == n + 1
             S == Nat
             one == <<x>>
  <2>1. old \in Seq(S) /\ NoTwice(old) /\ x \in S
    BY <1>4
  <2>4. one \in Seq(S) /\ DOMAIN one = {1} /\ one[1] = x
    OBVIOUS
  <2> HIDE DEF old, x, S, one
  <2>2. /\ CopyMatches(old, one) \in Seq(S) /\ NoTwice(CopyMatches(old, one))
        /\ Elements(CopyMatches(old, one)) = Elements(old) \cup {x}
    BY <2>1, <2>4, CopyOne
  <2>3. QED
    BY <2>2 DEF old, x, S, one, new
<1> HIDE DEF new
<1>6. f \in [0 .. max - 1 -> Seq(Nat)] /\ f[s] = new /\ \A t \in 0 .. max - 1 : t # s => f[t] = m.match[t]
  BY <1>1, <1>3, <1>5
<1>7. Matched(m, s, n + 1) = g
  BY DEF Matched, Tables, new
<1> HIDE DEF f
<1>8. g \in Tables(max) /\ g.match = f /\ g.goto = m.goto /\ g.count = k /\ g.fail = m.fail
  BY <1>1, <1>6 DEF Tables
<1>9. Tree(g, lab, max, Hacked(sm))
  BY <1>1, <1>8 DEF Tree
<1>10. \A t, r \in 0 .. k - 1 : lab[t] = lab[r] => t = r
  BY <1>1 DEF Tree
<1> HIDE DEF g, k, max, W
<1>11. \A t \in k .. max - 1 : g.match[t] = <<>>
  <2> TAKE t \in k .. max - 1
  <2>1. t \in 0 .. max - 1 /\ t # s
    BY <1>1, <1>3
  <2>2. QED
    BY <1>2, <1>6, <1>8, <2>1
<1>12. ASSUME NEW t \in 0 .. k - 1
       PROVE  NoTwice(g.match[t]) /\ Elements(g.match[t]) = {i \in 1 .. n + 1 : W(i) = lab[t]}
  <2>1. CASE t = s
    <3>1. {i \in 1 .. n + 1 : W(i) = lab[t]} = {i \in 1 .. n : W(i) = lab[t]} \cup {n + 1}
      BY <1>3, <2>1
    <3>2. Elements(m.match[s]) = {i \in 1 .. n : W(i) = lab[t]}
      BY <1>2, <2>1
    <3>3. g.match[t] = new
      BY <1>6, <1>8, <2>1
    <3>4. QED
      BY <1>5, <3>1, <3>2, <3>3
  <2>2. CASE t # s
    <3>0. s \in 0 .. k - 1 /\ t \in 0 .. k - 1
      BY <1>3
    <3>1. lab[t] # W(n + 1)
      BY <1>3, <1>10, <2>2, <3>0
    <3>2. {i \in 1 .. n + 1 : W(i) = lab[t]} = {i \in 1 .. n : W(i) = lab[t]}
      BY <3>1
    <3>3. t \in 0 .. max - 1
      BY <1>1
    <3>4. QED
      BY <1>2, <1>6, <1>8, <2>2, <3>2, <3>3
  <2>3. QED
    BY <2>1, <2>2
<1>13. ASSUME NEW i \in 1 .. n + 1 PROVE \E t \in 0 .. k - 1 : lab[t] = W(i)
  <2>1. CASE i = n + 1
    BY <1>3, <2>1
  <2>2. CASE i # n + 1
    <3>1. i \in 1 .. n
      BY <2>2
    <3>2. QED
      BY <1>2, <3>1
  <2>3. QED
    BY <2>1, <2>2
<1>14. Built(sm, g, lab, n + 1)
  BY <1>2, <1>8, <1>9, <1>11, <1>12, <1>13 DEF Built, max, W
<1>15. QED
  BY <1>7, <1>8, <1>14 DEF g, k

StateMaxLoop(n, r, patterns) ==
  r = [i \in 0 .. n |-> IF i = 0 THEN 1 ELSE r[i - 1] + Len(patterns[i].text) + (IF patterns[i].begin THEN 1 ELSE 0) + (IF patterns[i].end THEN 1 ELSE 0)]

\* The size of the table, pattern by pattern.
LEMMA StateMaxSteps ==
  ASSUME NEW patterns, Len(patterns) \in Nat
  PROVE  \E r : StateMaxLoop(Len(patterns), r, patterns) /\ StateMax(patterns) = r[Len(patterns)]
<1> DEFINE T == {n \in Nat : \E r : StateMaxLoop(n, r, patterns)}
<1>1. 0 \in T
  <2>1. StateMaxLoop(0, [i \in 0 .. 0 |-> 1], patterns)
    BY DEF StateMaxLoop
  <2>2. QED
    BY <2>1
<1>2. ASSUME NEW n \in Nat, n \in T PROVE n + 1 \in T
  <2>1. PICK r : StateMaxLoop(n, r, patterns)
    BY <1>2
  <2> DEFINE q == [i \in 0 .. n + 1 |-> IF i = n + 1 THEN r[n] + Len(patterns[(n + 1)].text) + (IF patterns[(n + 1)].begin THEN 1 ELSE 0) + (IF patterns[(n + 1)].end THEN 1 ELSE 0) ELSE r[i]]
  <2>2. ASSUME NEW i \in 0 .. n + 1
        PROVE  q[i] = IF i = 0 THEN 1 ELSE q[i - 1] + Len(patterns[i].text) + (IF patterns[i].begin THEN 1 ELSE 0) + (IF patterns[i].end THEN 1 ELSE 0)
    BY <2>1 DEF StateMaxLoop
  <2>3. StateMaxLoop(n + 1, q, patterns)
    BY <2>2 DEF StateMaxLoop
  <2>4. QED
    BY <2>3
<1>3. Len(patterns) \in T
  BY <1>1, <1>2, Induction
<1>4. QED
  BY <1>3 DEF StateMax, StateMaxLoop

PathStart(m, pat) == [m |-> m, s |-> IF pat.begin THEN m.goto[0][AnchorStart] ELSE 0]

PathLoop(n, r, m, pat) ==
  r = [i \in 0 .. n |-> IF i = 0 THEN PathStart(m, pat) ELSE Extend(r[i - 1], pat.text[i], pat.hack)]

\* The path of a pattern, character by character.
LEMMA PathSteps ==
  ASSUME NEW m, NEW pat, Len(pat.text) \in Nat
  PROVE  \E r : PathLoop(Len(pat.text), r, m, pat) /\ Path(m, pat) = r[Len(pat.text)]
<1> DEFINE T == {n \in Nat : \E r : PathLoop(n, r, m, pat)}
<1>1. 0 \in T
  <2>1. PathLoop(0, [i \in 0 .. 0 |-> PathStart(m, pat)], m, pat)
    BY DEF PathLoop
  <2>2. QED
    BY <2>1
<1>2. ASSUME NEW n \in Nat, n \in T PROVE n + 1 \in T
  <2>1. PICK r : PathLoop(n, r, m, pat)
    BY <1>2
  <2> DEFINE q == [i \in 0 .. n + 1 |-> IF i = n + 1 THEN Extend(r[n], pat.text[(n + 1)], pat.hack) ELSE r[i]]
  <2>2. ASSUME NEW i \in 0 .. n + 1
        PROVE  q[i] = IF i = 0 THEN PathStart(m, pat) ELSE Extend(q[i - 1], pat.text[i], pat.hack)
    BY <2>1 DEF PathLoop
  <2>3. PathLoop(n + 1, q, m, pat)
    BY <2>2 DEF PathLoop
  <2>4. QED
    BY <2>3
<1>3. Len(pat.text) \in T
  BY <1>1, <1>2, Induction
<1>4. QED
  BY <1>3 DEF Path, PathLoop, PathStart

FirstPrefixes(sm) ==
  IF sm.begin THEN NewState(Blank(0 .. StateMax(sm.patterns) - 1), 0, AnchorStart)
  ELSE Blank(0 .. StateMax(sm.patterns) - 1)

PrefixesLoop(n, r, sm) ==
  r = [i \in 0 .. n |-> IF i = 0 THEN FirstPrefixes(sm) ELSE AddPrefixes(r[i - 1], sm.patterns[i])]

\* The tree, pattern by pattern.
LEMMA PrefixesSteps ==
  ASSUME NEW sm, Len(sm.patterns) \in Nat
  PROVE  \E r : PrefixesLoop(Len(sm.patterns), r, sm) /\ Prefixes(sm) = r[Len(sm.patterns)]
<1> DEFINE T == {n \in Nat : \E r : PrefixesLoop(n, r, sm)}
<1>1. 0 \in T
  <2>1. PrefixesLoop(0, [i \in 0 .. 0 |-> FirstPrefixes(sm)], sm)
    BY DEF PrefixesLoop
  <2>2. QED
    BY <2>1
<1>2. ASSUME NEW n \in Nat, n \in T PROVE n + 1 \in T
  <2>1. PICK r : PrefixesLoop(n, r, sm)
    BY <1>2
  <2> DEFINE q == [i \in 0 .. n + 1 |-> IF i = n + 1 THEN AddPrefixes(r[n], sm.patterns[(n + 1)]) ELSE r[i]]
  <2>2. ASSUME NEW i \in 0 .. n + 1
        PROVE  q[i] = IF i = 0 THEN FirstPrefixes(sm) ELSE AddPrefixes(q[i - 1], sm.patterns[i])
    BY <2>1 DEF PrefixesLoop
  <2>3. PrefixesLoop(n + 1, q, sm)
    BY <2>2 DEF PrefixesLoop
  <2>4. QED
    BY <2>3
<1>3. Len(sm.patterns) \in T
  BY <1>1, <1>2, Induction
<1>4. QED
  BY <1>3 DEF Prefixes, PrefixesLoop, FirstPrefixes

\* A whole pattern needs no more states than it has characters.
LEMMA PathBuilt ==
  ASSUME NEW sm, Registered(sm), NEW n \in Nat, n + 1 \in DOMAIN sm.patterns, NEW m, NEW lab,
         Built(sm, m, lab, n), Begun(sm, m, lab), EndsInWords(sm, m, lab, n),
         m.count + Len(sm.patterns[n + 1].text) <= StateMax(sm.patterns)
  PROVE  /\ \E l : /\ Reached(sm, Path(m, sm.patterns[n + 1]), l, n, Upto(sm.patterns[n + 1], Len(sm.patterns[n + 1].text)))
                   /\ EndsInWords(sm, Path(m, sm.patterns[n + 1]).m, l, n)
         /\ Path(m, sm.patterns[n + 1]).m.count <= m.count + Len(sm.patterns[n + 1].text)
<1> DEFINE p == sm.patterns[n + 1]
           N == Len(p.text)
           max == StateMax(sm.patterns)
<1>1. /\ p \in PatternSet /\ PatternFits(sm, n + 1, p) /\ p.hack = Hacked(sm) /\ p.hack \in BOOLEAN
      /\ N \in Nat /\ DOMAIN p.text = 1 .. N /\ \A k \in 1 .. N : p.text[k] \in 0 .. Chars - 1
      /\ \A k \in 1 .. N : p.text[k] \in Alphabet /\ p.text[k] # AnchorEnd
  <2>1. p \in PatternSet /\ PatternFits(sm, n + 1, p) /\ p.hack = Hacked(sm)
    BY RegisteredPattern
  <2>2. p.hack \in BOOLEAN
    BY <2>1 DEF PatternSet
  <2>3. N \in Nat /\ DOMAIN p.text = 1 .. N /\ \A k \in 1 .. N : p.text[k] \in 0 .. Chars - 1
    BY <2>1, LeadText
  <2>4. \A k \in 0 .. Chars - 1 : k \in Alphabet /\ k # AnchorEnd
    BY Characters
  <2>5. QED
    BY <2>1, <2>2, <2>3, <2>4
<1>2. PICK r : PathLoop(N, r, m, p) /\ Path(m, p) = r[N]
  BY <1>1, PathSteps
<1>3. /\ max \in Nat /\ m.count \in Nat /\ m.count >= 1
      /\ Tree(m, lab, max, Hacked(sm)) /\ m \in Tables(max)
  BY BuiltTables
<1> HIDE DEF p, N, max
<1> DEFINE Good(k) == /\ \E l : Reached(sm, r[k], l, n, Upto(p, k)) /\ EndsInWords(sm, r[k].m, l, n)
                      /\ r[k].m.count <= m.count + k
           T == {k \in 0 .. N : Good(k)}
<1>4. 0 \in T
  <2> DEFINE s == IF p.begin THEN m.goto[0][AnchorStart] ELSE 0
  <2>1. r[0] = [m |-> m, s |-> s] /\ 0 \in 0 .. N
    BY <1>1, <1>2 DEF PathLoop, PathStart
  <2>2. Upto(p, 0) = Lead(p)
    <3>1. 0 \in 0 .. Len(p.text)
      BY <1>1 DEF N
    <3>2. QED
      BY <1>1, <3>1, UptoText
  <2>3. s \in 0 .. m.count - 1 /\ lab[s] = Lead(p)
    <3>1. CASE p.begin
      <4>1. m.count >= 2 /\ lab[1] = <<AnchorStart>>
        BY <1>1, <3>1 DEF PatternFits, Begun
      <4>2. lab[0] = <<>> /\ 0 \in 0 .. m.count - 1 /\ 1 \in 0 .. m.count - 1
        BY <1>3, <4>1 DEF Tree
      <4>3. lab[1] = Append(lab[0], AnchorStart)
        BY <4>1, <4>2
      <4>4. m.goto[0][AnchorStart] = 1
        <5>1. 0 \in 0 .. m.count - 1 /\ 1 \in 0 .. m.count - 1 /\ AnchorStart \in Alphabet
          BY <4>2, Characters
        <5>2. QED
          BY <1>3, <4>3, <5>1, GotoOf
      <4>5. QED
        BY <3>1, <4>1, <4>2, <4>4 DEF Lead
    <3>2. CASE ~p.begin
      BY <1>3, <3>2 DEF Lead, Tree
    <3>3. QED
      BY <3>1, <3>2
  <2> HIDE DEF s
  <2>4. r[0].m = m /\ r[0].s = s
    BY <2>1
  <2>5. Reached(sm, r[0], lab, n, Upto(p, 0)) /\ EndsInWords(sm, r[0].m, lab, n)
    BY <2>1, <2>2, <2>3, <2>4 DEF Reached
  <2>6. m.count <= m.count + 0
    BY <1>3
  <2>7. Good(0)
    BY <2>4, <2>5, <2>6
  <2>8. QED
    BY <2>1, <2>7
<1>5. ASSUME NEW k \in 0 .. N - 1, k \in T PROVE k + 1 \in T
  <2> DEFINE at == r[k]
             c == p.text[k + 1]
             v == Upto(p, k)
             e == Extend(at, c, p.hack)
  <2>1. k + 1 \in 1 .. N /\ k + 1 \in 0 .. N /\ r[k + 1] = e
    BY <1>1, <1>2 DEF PathLoop
  <2>2. PICK l : Reached(sm, at, l, n, v) /\ EndsInWords(sm, at.m, l, n)
    BY <1>5
  <2>3. at.m.count <= m.count + k
    BY <1>5
  <2>4. c \in Alphabet /\ c # AnchorEnd /\ c \in Elements(p.text)
    BY <1>1, <2>1 DEF Elements
  <2>5. c \in Used(sm)
    BY <1>1, <2>4 DEF Used, PatternFits
  <2>6. v \in Text /\ AnchorEnd \notin Elements(v)
    <3>1. k \in 0 .. Len(p.text)
      BY <1>1 DEF N
    <3>2. QED
      BY <1>1, <3>1, UptoText, UptoElements
  <2>7. p.hack => c # Hack
    BY <1>1, <2>1 DEF PatternFits
  <2>8. Upto(p, k + 1) = Append(v, c)
    <3>1. k \in 0 .. Len(p.text) - 1
      BY DEF N
    <3>2. QED
      BY <1>1, <3>1, UptoNext
  <2>9. at.m.count \in Nat
    BY <2>2, BuiltTables DEF Reached
  <2>10. at.m.count < max
    <3>1. m.count + N <= max
      BY DEF N, max, p
    <3> DEFINE x == at.m.count
               y == m.count
    <3>2. x \in Nat /\ y \in Nat /\ x <= y + k /\ y + N <= max
      BY <1>3, <2>3, <2>9, <3>1
    <3> HIDE DEF x, y, at
    <3>3. x < max
      BY <1>1, <1>3, <3>2
    <3>4. QED
      BY <3>3 DEF x
  <2> HIDE DEF at, c, v, e
  <2>11. /\ \E q : Reached(sm, e, q, n, Append(v, c)) /\ EndsInWords(sm, e.m, q, n)
         /\ e.m.count <= at.m.count + 1
    BY <1>1, <2>2, <2>4, <2>5, <2>6, <2>7, <2>10, ExtendBuilt DEF e, max
  <2>12. e.m.count <= m.count + (k + 1)
    <3> DEFINE x == at.m.count
               y == m.count
               z == e.m.count
    <3>0. z \in Nat
      BY <2>11, BuiltTables DEF Reached
    <3>1. x \in Nat /\ y \in Nat /\ x <= y + k /\ z <= x + 1
      BY <1>3, <2>3, <2>9, <2>11 DEF at
    <3> HIDE DEF x, y, z
    <3>2. z <= y + (k + 1)
      BY <3>0, <3>1
    <3>3. QED
      BY <3>2 DEF y, z
  <2>13. Good(k + 1)
    BY <2>1, <2>8, <2>11, <2>12
  <2>14. QED
    BY <2>1, <2>13
<1>6. N \in T
  <2> HIDE DEF T
  <2>1. N \in Nat
    BY <1>1
  <2>2. 0 .. N \subseteq T
    BY <1>4, <1>5, <2>1, UpTo
  <2>3. QED
    BY <2>1, <2>2
<1>7. Good(N)
  BY <1>6
<1>8. QED
  BY <1>2, <1>7 DEF p, N

\* With its anchor, too.
LEMMA AddPrefixesBuilt ==
  ASSUME NEW sm, Registered(sm), NEW n \in Nat, n + 1 \in DOMAIN sm.patterns, NEW m, NEW lab,
         Built(sm, m, lab, n), Begun(sm, m, lab), EndsInWords(sm, m, lab, n),
         m.count + Len(sm.patterns[n + 1].text) + (IF sm.patterns[n + 1].end THEN 1 ELSE 0) <= StateMax(sm.patterns)
  PROVE  /\ \E l : /\ Built(sm, AddPrefixes(m, sm.patterns[n + 1]), l, n + 1)
                   /\ Begun(sm, AddPrefixes(m, sm.patterns[n + 1]), l)
                   /\ EndsInWords(sm, AddPrefixes(m, sm.patterns[n + 1]), l, n + 1)
         /\ AddPrefixes(m, sm.patterns[n + 1]).count
               <= m.count + Len(sm.patterns[n + 1].text) + (IF sm.patterns[n + 1].end THEN 1 ELSE 0)
<1> DEFINE p == sm.patterns[n + 1]
           N == Len(p.text)
           E == IF p.end THEN 1 ELSE 0
           max == StateMax(sm.patterns)
           at == Path(m, p)
           last == Ended(at, p)
           k0 == m.count
           k1 == at.m.count
           k2 == last.m.count
<1>1. p \in PatternSet /\ N \in Nat /\ p.end \in BOOLEAN /\ p.id = n + 1
  BY RegisteredPattern, LeadText DEF PatternSet, PatternFits
<1>2. max \in Nat /\ k0 \in Nat
  BY BuiltTables
<1>3. E \in Nat /\ k0 + N + E <= max
  BY <1>1
<1>4. k0 + N <= max
  <2> HIDE DEF k0, N, E, max
  <2>1. QED
    BY <1>1, <1>2, <1>3
<1>5. /\ \E l : Reached(sm, at, l, n, Upto(p, N)) /\ EndsInWords(sm, at.m, l, n)
      /\ k1 <= k0 + N
  BY <1>4, PathBuilt
<1>6. PICK l1 : Reached(sm, at, l1, n, Upto(p, N)) /\ EndsInWords(sm, at.m, l1, n)
  BY <1>5
<1>7. k1 \in Nat
  BY <1>6, BuiltTables DEF Reached
<1>8. p.end => k1 < max
  <2>1. k1 <= k0 + N /\ (p.end => E = 1)
    BY <1>5
  <2> HIDE DEF k0, k1, N, E, max
  <2>2. QED
    BY <1>1, <1>2, <1>3, <1>7, <2>1
<1>9. /\ \E l : Reached(sm, last, l, n, PatternWord(p)) /\ EndsInWords(sm, last.m, l, n + 1)
      /\ k2 <= k1 + E
  <2> HIDE DEF at
  <2>1. QED
    BY <1>6, <1>8, EndedBuilt
<1>10. PICK l2 : Reached(sm, last, l2, n, PatternWord(p)) /\ EndsInWords(sm, last.m, l2, n + 1)
  BY <1>9
<1>11. /\ Built(sm, last.m, l2, n) /\ Begun(sm, last.m, l2)
       /\ last.s \in 0 .. last.m.count - 1 /\ l2[last.s] = PatternWord(p)
  BY <1>10 DEF Reached
<1>12. k2 \in Nat
  BY <1>11, BuiltTables
<1>13. AddPrefixes(m, p) = Matched(last.m, last.s, n + 1)
  BY <1>1 DEF AddPrefixes, Matched
<1> HIDE DEF at, last, k0, k1, E, N
<1>14. /\ Built(sm, Matched(last.m, last.s, n + 1), l2, n + 1)
       /\ Matched(last.m, last.s, n + 1).count = k2
  <2> DEFINE g == last.m
             s == last.s
  <2>1. Built(sm, g, l2, n) /\ s \in 0 .. g.count - 1 /\ l2[s] = PatternWord(sm.patterns[n + 1])
    BY <1>11
  <2> HIDE DEF g, s
  <2>2. Built(sm, Matched(g, s, n + 1), l2, n + 1) /\ Matched(g, s, n + 1).count = g.count
    BY <2>1, MatchedBuilt
  <2>3. QED
    BY <2>2 DEF g, s, k2
<1> HIDE DEF k2
<1>15. Begun(sm, AddPrefixes(m, p), l2) /\ EndsInWords(sm, AddPrefixes(m, p), l2, n + 1)
  BY <1>10, <1>11, <1>13, <1>14 DEF Begun, EndsInWords, k2
<1>16. k2 <= k0 + N + E
  BY <1>1, <1>2, <1>3, <1>5, <1>7, <1>9, <1>12
<1>17. QED
  BY <1>13, <1>14, <1>15, <1>16 DEF k0, N, E, p

\* Room for one more state while the pattern that begins a text is still to come.
Budget(sm, n, r) == r[n] + (IF sm.begin /\ \A i \in 1 .. n : ~sm.patterns[i].begin THEN 1 ELSE 0)

\* The sum over some of the patterns is no more than the sum over all.
LEMMA BudgetIs ==
  ASSUME NEW sm, Registered(sm), NEW r, StateMaxLoop(Len(sm.patterns), r, sm.patterns)
  PROVE  \A n \in 0 .. Len(sm.patterns) :
           /\ r[n] \in Nat /\ r[n] >= 1 /\ Budget(sm, n, r) \in Nat
           /\ Budget(sm, n, r) <= r[Len(sm.patterns)]
<1> DEFINE N == Len(sm.patterns)
           P(i) == sm.patterns[i]
           L(i) == Len(P(i).text)
           b(i) == IF P(i).begin THEN 1 ELSE 0
           e(i) == IF P(i).end THEN 1 ELSE 0
<1>1. N \in Nat /\ DOMAIN sm.patterns = 1 .. N
  BY DEF Registered
<1>2. \A i \in 1 .. N : L(i) \in Nat /\ b(i) \in 0 .. 1 /\ e(i) \in 0 .. 1 /\ (P(i).begin => b(i) = 1)
  <2> TAKE i \in 1 .. N
  <2>1. P(i) \in PatternSet
    BY <1>1, RegisteredPattern
  <2>2. Len(P(i).text) \in Nat
    <3> DEFINE p == P(i)
    <3>1. p \in PatternSet
      BY <2>1
    <3> HIDE DEF p
    <3>2. Len(p.text) \in Nat
      BY <3>1, LeadText
    <3>3. QED
      BY <3>2 DEF p
  <2>3. L(i) \in Nat
    BY <2>2
  <2>4. b(i) \in 0 .. 1 /\ (P(i).begin => b(i) = 1)
    OBVIOUS
  <2>5. e(i) \in 0 .. 1
    OBVIOUS
  <2>6. QED
    BY <2>3, <2>4, <2>5
<1>3. r[0] = 1 /\ \A i \in 1 .. N : r[i] = r[i - 1] + L(i) + b(i) + e(i)
  <2>1. r = [i \in 0 .. N |-> IF i = 0 THEN 1 ELSE r[i - 1] + L(i) + b(i) + e(i)]
    BY DEF StateMaxLoop
  <2> HIDE DEF L, b, e
  <2>2. r[0] = 1
    BY <1>1, <2>1
  <2>3. ASSUME NEW i \in 1 .. N PROVE r[i] = r[i - 1] + L(i) + b(i) + e(i)
    <3>1. i \in 0 .. N /\ i # 0
      BY <1>1
    <3>2. QED
      BY <2>1, <3>1
  <2>4. QED
    BY <2>2, <2>3
<1> HIDE DEF L, b, e
<1> DEFINE T == {n \in 0 .. N : r[n] \in Nat /\ r[n] >= 1}
<1>4. 0 \in T
  BY <1>1, <1>3
<1>5. ASSUME NEW n \in 0 .. N - 1, n \in T PROVE n + 1 \in T
  <2>1. n + 1 \in 1 .. N /\ n + 1 \in 0 .. N /\ r[n] \in Nat /\ r[n] >= 1
    BY <1>1, <1>5
  <2>2. r[n + 1] = r[n] + L(n + 1) + b(n + 1) + e(n + 1)
    BY <1>3, <2>1
  <2>3. L(n + 1) \in Nat /\ b(n + 1) \in 0 .. 1 /\ e(n + 1) \in 0 .. 1
    BY <1>2, <2>1
  <2>4. r[n + 1] \in Nat /\ r[n + 1] >= 1
    BY <2>1, <2>2, <2>3
  <2>5. QED
    BY <2>1, <2>4
<1>6. \A n \in 0 .. N : r[n] \in Nat /\ r[n] >= 1
  <2> HIDE DEF T
  <2>1. 0 .. N \subseteq T
    BY <1>1, <1>4, <1>5, UpTo
  <2>2. QED
    BY <2>1 DEF T
<1>7. ASSUME NEW i \in 0 .. N - 1
      PROVE  r[i] <= r[i + 1] /\ (P(i + 1).begin => r[i] + 1 <= r[i + 1])
  <2>1. i + 1 \in 1 .. N /\ i + 1 \in 0 .. N /\ i \in 0 .. N
    BY <1>1
  <2>2. r[i + 1] = r[i] + L(i + 1) + b(i + 1) + e(i + 1) /\ r[i] \in Nat
    BY <1>3, <1>6, <2>1
  <2>3. L(i + 1) \in Nat /\ b(i + 1) \in 0 .. 1 /\ e(i + 1) \in 0 .. 1 /\ (P(i + 1).begin => b(i + 1) = 1)
    BY <1>2, <2>1
  <2>4. QED
    BY <2>2, <2>3
<1> HIDE DEF P
<1> DEFINE U == {n \in 0 .. N : \A i \in 0 .. n :
                    r[i] <= r[n] /\ ((\E j \in i + 1 .. n : P(j).begin) => r[i] + 1 <= r[n])}
<1>8. 0 \in U
  BY <1>1, <1>3
<1>9. ASSUME NEW n \in 0 .. N - 1, n \in U PROVE n + 1 \in U
  <2>1. n + 1 \in 0 .. N /\ r[n] \in Nat /\ r[n + 1] \in Nat /\ r[n] <= r[n + 1]
        /\ (P(n + 1).begin => r[n] + 1 <= r[n + 1])
    BY <1>1, <1>6, <1>7
  <2>2. ASSUME NEW i \in 0 .. n + 1
        PROVE  r[i] <= r[n + 1] /\ ((\E j \in i + 1 .. n + 1 : P(j).begin) => r[i] + 1 <= r[n + 1])
    <3>1. CASE i = n + 1
      BY <2>1, <3>1
    <3>2. CASE i # n + 1
      <4>1. i \in 0 .. n /\ i \in 0 .. N /\ r[i] \in Nat
        BY <1>1, <1>6, <3>2
      <4>2. r[i] <= r[n] /\ ((\E j \in i + 1 .. n : P(j).begin) => r[i] + 1 <= r[n])
        BY <1>9, <4>1
      <4>3. ASSUME NEW j \in i + 1 .. n + 1, P(j).begin PROVE r[i] + 1 <= r[n + 1]
        <5>1. CASE j = n + 1
          BY <2>1, <4>1, <4>2, <4>3, <5>1
        <5>2. CASE j # n + 1
          <6>1. j \in i + 1 .. n
            BY <5>2
          <6>2. r[i] + 1 <= r[n]
            BY <4>2, <4>3, <6>1
          <6>3. QED
            BY <2>1, <4>1, <6>2
        <5>3. QED
          BY <5>1, <5>2
      <4>4. r[i] <= r[n + 1]
        BY <2>1, <4>1, <4>2
      <4>5. QED
        BY <4>3, <4>4
    <3>3. QED
      BY <3>1, <3>2
  <2>3. QED
    BY <2>1, <2>2
<1>10. N \in U
  <2> HIDE DEF U
  <2>1. 0 .. N \subseteq U
    BY <1>1, <1>8, <1>9, UpTo
  <2>2. QED
    BY <1>1, <2>1
<1>11. ASSUME NEW n \in 0 .. N
       PROVE  Budget(sm, n, r) \in Nat /\ Budget(sm, n, r) <= r[N]
  <2>1. r[n] \in Nat /\ r[n] <= r[N] /\ r[N] \in Nat /\ ((\E j \in n + 1 .. N : P(j).begin) => r[n] + 1 <= r[N])
    BY <1>1, <1>6, <1>10
  <2>2. CASE sm.begin /\ \A i \in 1 .. n : ~sm.patterns[i].begin
    <3>1. PICK j \in 1 .. N : P(j).begin
      BY <1>1, <2>2 DEF Registered, P
    <3>2. j \in n + 1 .. N
      BY <1>1, <2>2, <3>1 DEF P
    <3>3. r[n] + 1 <= r[N]
      BY <2>1, <3>1, <3>2
    <3>4. Budget(sm, n, r) = r[n] + 1
      BY <2>2 DEF Budget
    <3>5. QED
      BY <2>1, <3>3, <3>4
  <2>3. CASE ~(sm.begin /\ \A i \in 1 .. n : ~sm.patterns[i].begin)
    <3>1. Budget(sm, n, r) = r[n]
      BY <2>1, <2>3 DEF Budget
    <3>2. QED
      BY <2>1, <3>1
  <2>4. QED
    BY <2>2, <2>3
<1>12. QED
  BY <1>6, <1>11

\* The next pattern's states are within the sum that includes it.
LEMMA BudgetNext ==
  ASSUME NEW sm, Registered(sm), NEW r, StateMaxLoop(Len(sm.patterns), r, sm.patterns),
         NEW n \in Nat, n + 1 \in DOMAIN sm.patterns
  PROVE  Budget(sm, n, r) + Len(sm.patterns[n + 1].text) + (IF sm.patterns[n + 1].end THEN 1 ELSE 0)
             <= Budget(sm, n + 1, r)
<1> DEFINE N == Len(sm.patterns)
           p == sm.patterns[n + 1]
           L == Len(p.text)
           b == IF p.begin THEN 1 ELSE 0
           e == IF p.end THEN 1 ELSE 0
           x == r[n]
           y == r[n + 1]
           None(k) == sm.begin /\ \A i \in 1 .. k : ~sm.patterns[i].begin
<1>1. N \in Nat /\ DOMAIN sm.patterns = 1 .. N
  BY DEF Registered
<1>2. n \in 0 .. N /\ n + 1 \in 1 .. N /\ n + 1 \in 0 .. N
  BY <1>1
<1>3. x \in Nat /\ y \in Nat
  BY <1>2, BudgetIs
<1>4. y = x + L + b + e
  BY <1>1, <1>2 DEF StateMaxLoop
<1>5. L \in Nat /\ b \in 0 .. 1 /\ e \in 0 .. 1 /\ (p.begin <=> b = 1)
  BY RegisteredPattern, LeadText
<1>6. ~p.begin /\ None(n) => None(n + 1)
  BY <1>1
<1>7. Budget(sm, n, r) = x + (IF None(n) THEN 1 ELSE 0) /\ Budget(sm, n + 1, r) = y + (IF None(n + 1) THEN 1 ELSE 0)
  BY DEF Budget
<1> HIDE DEF N, L, b, e, x, y, None, p
<1>8. x + (IF None(n) THEN 1 ELSE 0) + L + e <= y + (IF None(n + 1) THEN 1 ELSE 0)
  BY <1>3, <1>4, <1>5, <1>6
<1>9. QED
  BY <1>7, <1>8 DEF L, e, p

\* A table with its first state only is built for no patterns.
LEMMA BlankBuilt ==
  ASSUME NEW sm, Registered(sm), StateMax(sm.patterns) \in Nat, StateMax(sm.patterns) >= 1
  PROVE  /\ Built(sm, Blank(0 .. StateMax(sm.patterns) - 1), [s \in 0 .. 0 |-> <<>>], 0)
         /\ EndsInWords(sm, Blank(0 .. StateMax(sm.patterns) - 1), [s \in 0 .. 0 |-> <<>>], 0)
         /\ Blank(0 .. StateMax(sm.patterns) - 1).count = 1
<1> DEFINE max == StateMax(sm.patterns)
           m == Blank(0 .. max - 1)
           lab == [s \in 0 .. 0 |-> <<>>]
           h == Hacked(sm)
<1>1. /\ m.count = 1 /\ m.match = [s \in 0 .. max - 1 |-> <<>>]
      /\ m.goto = [s \in 0 .. max - 1 |-> [a \in Alphabet |-> Fail]] /\ m.fail = [s \in 0 .. max - 1 |-> 0]
      /\ m = [match |-> m.match, count |-> m.count, goto |-> m.goto, fail |-> m.fail]
  BY DEF Blank
<1>2. lab[0] = <<>> /\ lab \in [0 .. 0 -> Text]
  BY DEF Text
<1>9. max \in Nat /\ max >= 1
  OBVIOUS
<1> HIDE DEF m, max, h, lab
<1>3. m \in Tables(max)
  <2>1. m.count \in 1 .. max
    BY <1>1, <1>9
  <2>2. m.match \in [0 .. max - 1 -> Seq(Nat)]
    BY <1>1
  <2>3. m.goto \in [0 .. max - 1 -> [Alphabet -> -1 .. max - 1]]
    <3>1. Fail \in -1 .. max - 1
      BY <1>9, Characters
    <3>2. QED
      BY <1>1, <3>1
  <2>4. m.fail \in [0 .. max - 1 -> 0 .. max - 1]
    <3>1. 0 \in 0 .. max - 1
      BY <1>9
    <3>2. QED
      BY <1>1, <3>1
  <2>5. QED
    BY <1>1, <2>1, <2>2, <2>3, <2>4 DEF Tables
<1>4. 0 .. m.count - 1 = {0} /\ 1 .. m.count - 1 = {} /\ 0 .. 0 = 0 .. m.count - 1
  BY <1>1
<1>5. \A s \in 0 .. max - 1, a \in Alphabet : m.goto[s][a] = Fail
  BY <1>1
<1>6. Tree(m, lab, max, h)
  <2>1. \A s \in 0 .. m.count - 1, a \in Alphabet : m.goto[s][a] = Fail
    BY <1>4, <1>5, <1>9
  <2>2. \A s \in m.count .. max - 1, a \in Alphabet : m.goto[s][a] = Fail
    BY <1>1, <1>5, <1>9
  <2>3. \A s, t \in 0 .. m.count - 1 : lab[s] = lab[t] => s = t
    BY <1>4
  <2>4. \A t \in 1 .. m.count - 1 : \E s \in 0 .. t - 1, a \in Alphabet : m.goto[s][a] = t
    BY <1>4
  <2>5. lab \in [0 .. m.count - 1 -> Text]
    BY <1>2, <1>4
  <2>6. QED
    BY <1>2, <1>3, <1>9, <2>1, <2>2, <2>3, <2>4, <2>5 DEF Tree
<1>10. Elements(<<>>) = {} /\ NoTwice(<<>>)
  BY DEF Elements, NoTwice
<1>7. Built(sm, m, lab, 0)
  <2>1. \A s \in 0 .. max - 1 : m.fail[s] = 0
    BY <1>1
  <2>2. \A s \in m.count .. max - 1 : m.match[s] = <<>>
    BY <1>1, <1>9
  <2>3. m.match[0] = <<>>
    BY <1>1, <1>9
  <2>4. \A s \in 0 .. m.count - 1 :
           NoTwice(m.match[s]) /\ Elements(m.match[s]) = {i \in 1 .. 0 : PatternWord(sm.patterns[i]) = lab[s]}
    <3>1. ASSUME NEW s \in {0}
          PROVE NoTwice(m.match[s]) /\ Elements(m.match[s]) = {i \in 1 .. 0 : PatternWord(sm.patterns[i]) = lab[s]}
      <4>1. {i \in 1 .. 0 : PatternWord(sm.patterns[i]) = lab[s]} = {}
        OBVIOUS
      <4>2. m.match[s] = <<>>
        BY <2>3
      <4>3. QED
        BY <1>10, <4>1, <4>2
    <3>2. QED
      BY <1>4, <3>1
  <2>5. \A s \in 0 .. m.count - 1 : Elements(lab[s]) \subseteq Used(sm)
    BY <1>2, <1>4, <1>10
  <2>6. \A i \in 1 .. 0 : \E s \in 0 .. m.count - 1 : lab[s] = PatternWord(sm.patterns[i])
    OBVIOUS
  <2>7. QED
    BY <1>6, <2>1, <2>2, <2>4, <2>5, <2>6 DEF Built, max, h
<1>8. EndsInWords(sm, m, lab, 0)
  BY <1>2, <1>4, <1>10 DEF EndsInWords
<1>11. QED
  BY <1>1, <1>7, <1>8 DEF m, max, lab

\* So is the one with the state of the anchor at the beginning.
LEMMA FirstBuilt ==
  ASSUME NEW sm, Registered(sm), StateMax(sm.patterns) \in Nat,
         (IF sm.begin THEN 2 ELSE 1) <= StateMax(sm.patterns)
  PROVE  \E lab : /\ Built(sm, FirstPrefixes(sm), lab, 0) /\ Begun(sm, FirstPrefixes(sm), lab)
                  /\ EndsInWords(sm, FirstPrefixes(sm), lab, 0)
                  /\ FirstPrefixes(sm).count = IF sm.begin THEN 2 ELSE 1
<1> DEFINE max == StateMax(sm.patterns)
           m == Blank(0 .. max - 1)
           lab == [s \in 0 .. 0 |-> <<>>]
<1>1. Built(sm, m, lab, 0) /\ EndsInWords(sm, m, lab, 0) /\ m.count = 1
  BY BlankBuilt
<1>2. CASE ~sm.begin
  <2>1. FirstPrefixes(sm) = m
    BY <1>2 DEF FirstPrefixes
  <2> HIDE DEF m, lab
  <2>2. QED
    BY <1>1, <1>2, <2>1 DEF Begun
<1>3. CASE sm.begin
  <2> DEFINE g == NewState(m, 0, AnchorStart)
             w == Append(lab[0], AnchorStart)
             l == GrownLabels(lab, m.count, w)
  <2>1. FirstPrefixes(sm) = g
    BY <1>3 DEF FirstPrefixes
  <2>2. w = <<AnchorStart>> /\ Elements(w) = {AnchorStart}
    <3>1. w = <<AnchorStart>>
      OBVIOUS
    <3>2. QED
      BY <3>1, Characters, OneIs
  <2>3. AnchorStart \in Used(sm) /\ AnchorStart \in Alphabet /\ AnchorStart # Hack /\ AnchorStart # AnchorEnd
    BY <1>3, Characters DEF Used
  <2>4. m.goto[0][AnchorStart] = Fail
    BY <1>3, <2>3 DEF Blank
  <2>5. m.count < max /\ 0 \in 0 .. m.count - 1 /\ m.count \in Nat
    BY <1>1, <1>3
  <2> HIDE DEF m, lab, g, w, l, max
  <2>6. Built(sm, g, l, 0) /\ g.count = m.count + 1 /\ l[m.count] = w
    <3>1. /\ Built(sm, NewState(m, 0, AnchorStart), GrownLabels(lab, m.count, Append(lab[0], AnchorStart)), 0)
          /\ NewState(m, 0, AnchorStart).count = m.count + 1
          /\ GrownLabels(lab, m.count, Append(lab[0], AnchorStart))[m.count] = Append(lab[0], AnchorStart)
      BY <1>1, <2>3, <2>4, <2>5, ChildBuilt DEF max
    <3>2. QED
      BY <3>1 DEF g, l, w
  <2>7. Begun(sm, g, l)
    BY <1>1, <2>2, <2>6 DEF Begun
  <2>8. EndsInWords(sm, g, l, 0)
    <3>1. AnchorEnd \notin Elements(w)
      BY <2>2, <2>3
    <3>2. QED
      <4> DEFINE z == 0
      <4>1. z \in Nat /\ z <= z /\ EndsInWords(sm, m, lab, z)
        BY <1>1
      <4> HIDE DEF z
      <4>2. EndsInWords(sm, g, l, z)
        BY <2>5, <2>6, <3>1, <4>1, EndsGrown DEF l
      <4>3. QED
        BY <4>2 DEF z
  <2>9. g.count = 2
    BY <1>1, <2>6
  <2>10. QED
    BY <1>3, <2>1, <2>6, <2>7, <2>8, <2>9
<1>4. QED
  BY <1>2, <1>3

\* create_intermediate_table() has made the table big enough, and after
\* smack_add_prefixes() for every pattern it holds the tree of their words.
LEMMA PrefixesBuilt ==
  ASSUME NEW sm, Registered(sm)
  PROVE  \E lab : /\ Built(sm, Prefixes(sm), lab, Len(sm.patterns))
                  /\ Begun(sm, Prefixes(sm), lab) /\ EndsInWords(sm, Prefixes(sm), lab, Len(sm.patterns))
<1> DEFINE N == Len(sm.patterns)
           max == StateMax(sm.patterns)
<1>1. N \in Nat /\ DOMAIN sm.patterns = 1 .. N
  BY DEF Registered
<1>2. PICK b : StateMaxLoop(N, b, sm.patterns) /\ max = b[N]
  BY <1>1, StateMaxSteps
<1>3. \A n \in 0 .. N : b[n] \in Nat /\ b[n] >= 1 /\ Budget(sm, n, b) \in Nat /\ Budget(sm, n, b) <= max
  BY <1>2, BudgetIs
<1>4. max \in Nat
  BY <1>1, <1>2, <1>3
<1>5. PICK r : PrefixesLoop(N, r, sm) /\ Prefixes(sm) = r[N]
  BY <1>1, PrefixesSteps
<1>6. Budget(sm, 0, b) = IF sm.begin THEN 2 ELSE 1
  <2>1. b[0] = 1
    BY <1>1, <1>2 DEF StateMaxLoop
  <2>2. QED
    BY <2>1 DEF Budget
<1> DEFINE Good(n) == \E l : /\ Built(sm, r[n], l, n) /\ Begun(sm, r[n], l) /\ EndsInWords(sm, r[n], l, n)
                             /\ r[n].count <= Budget(sm, n, b)
           T == {n \in 0 .. N : Good(n)}
<1>7. 0 \in T
  <2>1. r[0] = FirstPrefixes(sm) /\ 0 \in 0 .. N
    BY <1>1, <1>5 DEF PrefixesLoop
  <2>2. (IF sm.begin THEN 2 ELSE 1) <= max
    BY <1>3, <1>6, <2>1
  <2>3. PICK l : /\ Built(sm, r[0], l, 0) /\ Begun(sm, r[0], l) /\ EndsInWords(sm, r[0], l, 0)
                 /\ r[0].count = Budget(sm, 0, b)
    BY <1>4, <1>6, <2>1, <2>2, FirstBuilt
  <2>4. r[0].count <= Budget(sm, 0, b)
    BY <1>3, <2>1, <2>3
  <2>5. Good(0)
    BY <2>3, <2>4
  <2>6. QED
    BY <2>1, <2>5
<1>8. ASSUME NEW n \in 0 .. N - 1, n \in T PROVE n + 1 \in T
  <2> DEFINE p == sm.patterns[n + 1]
             m == r[n]
             g == AddPrefixes(m, p)
             E == IF p.end THEN 1 ELSE 0
             L == Len(p.text)
  <2>1. n + 1 \in 0 .. N /\ n + 1 \in DOMAIN sm.patterns /\ n \in Nat /\ n \in 0 .. N /\ r[n + 1] = g
    <3>1. n + 1 \in 0 .. N /\ n + 1 \in 1 .. N /\ n \in Nat /\ n \in 0 .. N /\ n + 1 # 0 /\ n + 1 - 1 = n
      BY <1>1
    <3>2. r = [i \in 0 .. N |-> IF i = 0 THEN FirstPrefixes(sm) ELSE AddPrefixes(r[i - 1], sm.patterns[i])]
      BY <1>5 DEF PrefixesLoop
    <3> HIDE DEF N
    <3>3. r[n + 1] = AddPrefixes(r[n + 1 - 1], sm.patterns[n + 1])
      BY <3>1, <3>2
    <3>4. QED
      BY <1>1, <3>1, <3>3
  <2>2. PICK l : /\ Built(sm, m, l, n) /\ Begun(sm, m, l) /\ EndsInWords(sm, m, l, n)
                 /\ m.count <= Budget(sm, n, b)
    BY <1>8
  <2>3. Budget(sm, n, b) + L + E <= Budget(sm, n + 1, b)
    BY <1>2, <2>1, BudgetNext
  <2>4. m.count \in Nat
    BY <2>2, BuiltTables
  <2>5. L \in Nat /\ E \in 0 .. 1 /\ Budget(sm, n, b) \in Nat /\ Budget(sm, n + 1, b) \in Nat
        /\ Budget(sm, n + 1, b) <= max
    BY <1>3, <2>1, RegisteredPattern, LeadText
  <2>6. m.count + L + E <= Budget(sm, n + 1, b) /\ m.count + L + E <= max
    <3> DEFINE x == m.count
    <3> HIDE DEF L, E, m, max
    <3>1. x \in Nat /\ x <= Budget(sm, n, b)
      BY <2>2, <2>4
    <3> HIDE DEF x
    <3>2. x + L + E <= Budget(sm, n + 1, b) /\ x + L + E <= max
      BY <1>4, <2>3, <2>5, <3>1
    <3>3. QED
      BY <3>2 DEF x
  <2>7. /\ \E q : Built(sm, g, q, n + 1) /\ Begun(sm, g, q) /\ EndsInWords(sm, g, q, n + 1)
        /\ g.count <= m.count + L + E
    <3>1. m.count + Len(sm.patterns[n + 1].text) + (IF sm.patterns[n + 1].end THEN 1 ELSE 0) <= StateMax(sm.patterns)
      BY <2>6
    <3> HIDE DEF m
    <3>2. QED
      BY <2>1, <2>2, <3>1, AddPrefixesBuilt
  <2>8. PICK q : Built(sm, g, q, n + 1) /\ Begun(sm, g, q) /\ EndsInWords(sm, g, q, n + 1)
    BY <2>7
  <2>9. g.count \in Nat
    BY <2>8, BuiltTables
  <2>10. g.count <= Budget(sm, n + 1, b)
    <3> DEFINE x == m.count
               y == g.count
    <3>1. x \in Nat /\ y \in Nat /\ y <= x + L + E /\ x + L + E <= Budget(sm, n + 1, b)
      BY <2>4, <2>6, <2>7, <2>9
    <3> HIDE DEF x, y, L, E
    <3>2. y <= Budget(sm, n + 1, b)
      BY <2>5, <3>1
    <3>3. QED
      BY <3>2 DEF y
  <2> HIDE DEF g, m
  <2>11. Good(n + 1)
    BY <2>1, <2>8, <2>10
  <2>12. QED
    BY <2>1, <2>11
<1>9. N \in T
  <2> HIDE DEF T
  <2>1. 0 .. N \subseteq T
    BY <1>1, <1>7, <1>8, UpTo
  <2>2. QED
    BY <1>1, <2>1
<1>10. Good(N)
  BY <1>9
<1>11. QED
  BY <1>5, <1>10

(***************************************************************************)
(* The first state goes on with every character.                           *)
(***************************************************************************)
Rooted(m, lab, max, hack) ==
  /\ max \in Nat /\ m \in Tables(max)
  /\ lab \in [0 .. m.count - 1 -> Text] /\ lab[0] = <<>>
  /\ \A s, t \in 0 .. m.count - 1 : lab[s] = lab[t] => s = t
  /\ \A t \in 1 .. m.count - 1 : \E s \in 0 .. t - 1, a \in Alphabet : lab[t] = Append(lab[s], a)
  /\ \A s, t \in 0 .. m.count - 1, a \in Alphabet :
        lab[t] = Append(lab[s], a) => m.goto[s][a] = t /\ s < t /\ (hack => a # Hack)
  /\ \A s \in 0 .. m.count - 1, a \in Alphabet :
        \/ m.goto[s][a] \in 0 .. m.count - 1 /\ lab[m.goto[s][a]] = Append(lab[s], a)
        \/ /\ \A t \in 0 .. m.count - 1 : lab[t] # Append(lab[s], a)
           /\ (m.goto[s][a] = Fail /\ s # 0) \/ (m.goto[s][a] = s /\ (s = 0 \/ (hack /\ a = Hack)))

\* What is known of the labels of a tree with a complete first row.
LEMMA RootedLabels ==
  ASSUME NEW m, NEW lab, NEW max, NEW hack, Rooted(m, lab, max, hack)
  PROVE  /\ Labels(lab, m.count) /\ m \in Tables(max) /\ max \in Nat
         /\ m.count \in Nat /\ m.count >= 1 /\ m.count <= max
         /\ \A s \in 0 .. m.count - 1 : lab[s] \in Text
<1>1. max \in Nat /\ m \in Tables(max)
  BY DEF Rooted
<1>2. m.count \in Nat /\ m.count >= 1 /\ m.count <= max
  BY <1>1, TablesAre
<1>3. lab \in [0 .. m.count - 1 -> Text]
  BY DEF Rooted
<1>4. \E s \in 0 .. m.count - 1 : lab[s] = <<>>
  <2>1. 0 \in 0 .. m.count - 1 /\ lab[0] = <<>>
    BY <1>2 DEF Rooted
  <2>2. QED
    BY <2>1
<1>5. ASSUME NEW t \in 0 .. m.count - 1, lab[t] # <<>>
      PROVE  \E s \in 0 .. m.count - 1, a \in Alphabet : lab[t] = Append(lab[s], a)
  <2>1. t # 0
    BY <1>5 DEF Rooted
  <2>2. t \in 1 .. m.count - 1
    BY <1>2, <2>1
  <2>3. PICK s \in 0 .. t - 1, a \in Alphabet : lab[t] = Append(lab[s], a)
    BY <2>2 DEF Rooted
  <2>4. s \in 0 .. m.count - 1
    BY <1>2
  <2>5. QED
    BY <2>3, <2>4
<1>6. \A s, t \in 0 .. m.count - 1 : lab[s] = lab[t] => s = t
  BY DEF Rooted
<1>7. QED
  BY <1>1, <1>2, <1>3, <1>4, <1>5, <1>6 DEF Labels

\* The tree that goes on from the first state.
RootedOf(m) == [m EXCEPT !.goto[0] = [a \in Alphabet |-> IF @[a] = Fail THEN 0 ELSE @[a]]]

\* What completing the first row changes.
LEMMA RootedOfIs ==
  ASSUME NEW max \in Nat, NEW m \in Tables(max)
  PROVE  /\ RootedOf(m) \in Tables(max)
         /\ RootedOf(m).count = m.count
         /\ RootedOf(m).match = m.match
         /\ RootedOf(m).fail = m.fail
         /\ \A t \in 0 .. max - 1, a \in Alphabet :
               RootedOf(m).goto[t][a] = IF t = 0 /\ m.goto[t][a] = Fail THEN 0 ELSE m.goto[t][a]
<1> DEFINE row == [a \in Alphabet |-> IF m.goto[0][a] = Fail THEN 0 ELSE m.goto[0][a]]
           g == [m.goto EXCEPT ![0] = row]
<1>1. /\ m.goto \in [0 .. max - 1 -> [Alphabet -> -1 .. max - 1]] /\ m.count \in Nat /\ m.count >= 1 /\ m.count <= max
  BY TablesAre
<1>2. 0 \in 0 .. max - 1 /\ 0 \in -1 .. max - 1
  BY <1>1
<1>3. row \in [Alphabet -> -1 .. max - 1]
  BY <1>1, <1>2
<1>4. RootedOf(m) = [m EXCEPT !.goto = g]
  BY DEF RootedOf, Tables
<1>5. \A a \in Alphabet : row[a] = IF m.goto[0][a] = Fail THEN 0 ELSE m.goto[0][a]
  OBVIOUS
<1> HIDE DEF row
<1>6. g \in [0 .. max - 1 -> [Alphabet -> -1 .. max - 1]] /\ g[0] = row /\ \A t \in 0 .. max - 1 : t # 0 => g[t] = m.goto[t]
  BY <1>1, <1>2, <1>3
<1> HIDE DEF g
<1> DEFINE q == [m EXCEPT !.goto = g]
<1>7. q \in Tables(max) /\ q.goto = g /\ q.count = m.count /\ q.match = m.match /\ q.fail = m.fail
  BY <1>1, <1>6 DEF Tables
<1> HIDE DEF q
<1>8. ASSUME NEW t \in 0 .. max - 1, NEW a \in Alphabet
      PROVE  q.goto[t][a] = IF t = 0 /\ m.goto[t][a] = Fail THEN 0 ELSE m.goto[t][a]
  <2>1. CASE t = 0
    <3>1. q.goto[t][a] = row[a]
      BY <1>6, <1>7, <2>1
    <3>2. QED
      BY <1>5, <2>1, <3>1
  <2>2. CASE t # 0
    <3>1. q.goto[t][a] = m.goto[t][a]
      BY <1>6, <1>7, <2>2
    <3>2. QED
      BY <2>2, <3>1
  <2>3. QED
    BY <2>1, <2>2
<1>9. QED
  BY <1>4, <1>7, <1>8 DEF q

\* The first row completed, the tree has the same labels.
LEMMA RootedTree ==
  ASSUME NEW m, NEW lab, NEW max, NEW hack \in BOOLEAN, Tree(m, lab, max, hack)
  PROVE  Rooted(RootedOf(m), lab, max, hack)
<1> DEFINE g == RootedOf(m)
           n == m.count
<1>1. max \in Nat /\ m \in Tables(max) /\ n \in Nat /\ n >= 1 /\ n <= max
  BY TreeTables
<1>2. /\ g \in Tables(max) /\ g.count = n
      /\ \A t \in 0 .. max - 1, a \in Alphabet :
            g.goto[t][a] = IF t = 0 /\ m.goto[t][a] = Fail THEN 0 ELSE m.goto[t][a]
  BY <1>1, RootedOfIs
<1>3. /\ lab \in [0 .. n - 1 -> Text] /\ lab[0] = <<>>
      /\ \A s, t \in 0 .. n - 1 : lab[s] = lab[t] => s = t
  BY DEF Tree
<1>4. \A s, t \in 0 .. n - 1, a \in Alphabet :
        lab[t] = Append(lab[s], a) => m.goto[s][a] = t /\ t \in s + 1 .. n - 1 /\ (hack => a # Hack)
  BY GotoOf
<1>5. \A s \in 0 .. n - 1, a \in Alphabet :
        \/ m.goto[s][a] = Fail
        \/ m.goto[s][a] = s /\ hack /\ a = Hack
        \/ m.goto[s][a] \in s + 1 .. n - 1 /\ lab[m.goto[s][a]] = Append(lab[s], a) /\ (hack => a # Hack)
  BY DEF Tree
<1>6. \A t \in 1 .. n - 1 : \E s \in 0 .. t - 1, a \in Alphabet : m.goto[s][a] = t
  BY DEF Tree
<1> HIDE DEF g, n
<1>7. ASSUME NEW t \in 1 .. n - 1 PROVE \E s \in 0 .. t - 1, a \in Alphabet : lab[t] = Append(lab[s], a)
  <2>1. PICK s \in 0 .. t - 1, a \in Alphabet : m.goto[s][a] = t
    BY <1>6
  <2>2. s \in 0 .. n - 1 /\ t # Fail /\ t # s
    BY <1>1, Characters
  <2>3. lab[t] = Append(lab[s], a)
    BY <1>5, <2>1, <2>2
  <2>4. QED
    BY <2>3
<1>8. ASSUME NEW s \in 0 .. n - 1, NEW t \in 0 .. n - 1, NEW a \in Alphabet, lab[t] = Append(lab[s], a)
      PROVE  g.goto[s][a] = t /\ s < t /\ (hack => a # Hack)
  <2>1. m.goto[s][a] = t /\ t \in s + 1 .. n - 1 /\ (hack => a # Hack)
    BY <1>4, <1>8
  <2>2. t # Fail /\ s < t /\ s \in 0 .. max - 1
    BY <1>1, <2>1, Characters
  <2>3. QED
    BY <1>2, <2>1, <2>2
<1>9. ASSUME NEW s \in 0 .. n - 1, NEW a \in Alphabet
      PROVE  \/ g.goto[s][a] \in 0 .. n - 1 /\ lab[g.goto[s][a]] = Append(lab[s], a)
             \/ /\ \A t \in 0 .. n - 1 : lab[t] # Append(lab[s], a)
                /\ (g.goto[s][a] = Fail /\ s # 0) \/ (g.goto[s][a] = s /\ (s = 0 \/ (hack /\ a = Hack)))
  <2>1. s \in 0 .. max - 1
    BY <1>1
  <2>2. g.goto[s][a] = IF s = 0 /\ m.goto[s][a] = Fail THEN 0 ELSE m.goto[s][a]
    BY <1>2, <2>1
  <2>3. CASE m.goto[s][a] \in s + 1 .. n - 1 /\ lab[m.goto[s][a]] = Append(lab[s], a)
    <3>1. m.goto[s][a] \in 0 .. n - 1 /\ m.goto[s][a] # Fail
      <4> DEFINE x == m.goto[s][a]
      <4>1. x \in s + 1 .. n - 1
        BY <2>3
      <4> HIDE DEF x
      <4>2. x \in 0 .. n - 1 /\ x # Fail
        BY <1>1, <4>1, Characters
      <4>3. QED
        BY <4>2 DEF x
    <3>2. QED
      BY <2>2, <2>3, <3>1
  <2>4. CASE m.goto[s][a] = Fail
    <3>1. ASSUME NEW t \in 0 .. n - 1 PROVE lab[t] # Append(lab[s], a)
      <4>1. t # Fail
        BY <1>1, Characters
      <4>2. QED
        BY <1>4, <2>4, <4>1
    <3>2. QED
      BY <2>2, <2>4, <3>1
  <2>5. CASE m.goto[s][a] = s /\ hack /\ a = Hack
    <3>1. ASSUME NEW t \in 0 .. n - 1 PROVE lab[t] # Append(lab[s], a)
      BY <1>4, <2>5
    <3>2. s # Fail
      BY <1>1, Characters
    <3>3. QED
      BY <2>2, <2>5, <3>1, <3>2
  <2>6. QED
    BY <1>5, <2>3, <2>4, <2>5
<1>10. Rooted(g, lab, max, hack)
  <2>0. g.count = n
    BY <1>2
  <2>1. lab \in [0 .. g.count - 1 -> Text] /\ lab[0] = <<>>
    BY <1>3, <2>0
  <2>2. \A s, t \in 0 .. g.count - 1 : lab[s] = lab[t] => s = t
    BY <1>3, <2>0
  <2>3. \A t \in 1 .. g.count - 1 : \E s \in 0 .. t - 1, a \in Alphabet : lab[t] = Append(lab[s], a)
    BY <1>7, <2>0
  <2>4. \A s, t \in 0 .. g.count - 1, a \in Alphabet :
           lab[t] = Append(lab[s], a) => g.goto[s][a] = t /\ s < t /\ (hack => a # Hack)
    BY <1>8, <2>0
  <2>5. \A s \in 0 .. g.count - 1, a \in Alphabet :
           \/ g.goto[s][a] \in 0 .. g.count - 1 /\ lab[g.goto[s][a]] = Append(lab[s], a)
           \/ /\ \A t \in 0 .. g.count - 1 : lab[t] # Append(lab[s], a)
              /\ (g.goto[s][a] = Fail /\ s # 0) \/ (g.goto[s][a] = s /\ (s = 0 \/ (hack /\ a = Hack)))
    BY <1>9, <2>0
  <2>6. QED
    BY <1>1, <1>2, <2>1, <2>2, <2>3, <2>4, <2>5 DEF Rooted
<1>11. QED
  BY <1>10 DEF g

\* What the prefixes of the patterns are compiled to.
Planted(sm, m, lab) ==
  /\ Rooted(m, lab, StateMax(sm.patterns), Hacked(sm))
  /\ \A s \in 0 .. StateMax(sm.patterns) - 1 : m.fail[s] = 0
  /\ \A s \in 0 .. m.count - 1 :
        NoTwice(m.match[s]) /\ Elements(m.match[s]) = {i \in 1 .. Len(sm.patterns) : PatternWord(sm.patterns[i]) = lab[s]}
  /\ \A i \in 1 .. Len(sm.patterns) : \E s \in 0 .. m.count - 1 : lab[s] = PatternWord(sm.patterns[i])
  /\ \A s \in 0 .. m.count - 1 : Elements(lab[s]) \subseteq Used(sm)
  /\ Begun(sm, m, lab)

\* smack_stage0_compile_prefixes(): every pattern has its path, and its id is at the end of it.
LEMMA CompilePrefixesPlanted ==
  ASSUME NEW sm, Registered(sm)
  PROVE  \E lab : Planted(sm, CompilePrefixes(sm), lab)
<1> DEFINE m == Prefixes(sm)
           g == RootedOf(m)
           max == StateMax(sm.patterns)
<1>1. PICK lab : Built(sm, m, lab, Len(sm.patterns)) /\ Begun(sm, m, lab)
  BY PrefixesBuilt
<1>2. CompilePrefixes(sm) = g
  BY DEF CompilePrefixes, RootedOf
<1>3. Tree(m, lab, max, Hacked(sm)) /\ max \in Nat /\ m \in Tables(max) /\ Hacked(sm) \in BOOLEAN
  BY <1>1, BuiltTables DEF Hacked
<1>4. g.count = m.count /\ g.match = m.match /\ g.fail = m.fail
  BY <1>3, RootedOfIs
<1>5. Rooted(g, lab, max, Hacked(sm))
  BY <1>3, RootedTree
<1> HIDE DEF m, g
<1>6. Begun(sm, g, lab)
  BY <1>1, <1>4 DEF Begun
<1>7. Planted(sm, g, lab)
  BY <1>1, <1>4, <1>5, <1>6 DEF Planted, Built
<1>8. QED
  BY <1>2, <1>7

(***************************************************************************)
(* The order in which the states are visited: each once, the shorter       *)
(* prefixes first.                                                         *)
(***************************************************************************)
LEMMA NextStatesAre ==
  ASSUME NEW m, NEW lab, NEW max, NEW hack, Rooted(m, lab, max, hack), NEW s \in 0 .. m.count - 1
  PROVE  /\ \A t : t \in NextStates(m, s) <=> t \in 0 .. m.count - 1 /\ \E a \in Alphabet : lab[t] = Append(lab[s], a)
         /\ \A t \in NextStates(m, s) :
               /\ t \in s + 1 .. m.count - 1 /\ t \in 1 .. m.count - 1
               /\ Len(lab[t]) = Len(lab[s]) + 1
<1>1. m.count \in Nat /\ m.count >= 1 /\ \A t \in 0 .. m.count - 1 : lab[t] \in Text
  BY RootedLabels
<1>2. ASSUME NEW t \in NextStates(m, s)
      PROVE  t \in 0 .. m.count - 1 /\ \E a \in Alphabet : lab[t] = Append(lab[s], a)
  <2>1. PICK a \in Alphabet : t = m.goto[s][a] /\ t # Fail /\ t # s
    BY DEF NextStates
  <2>2. t \in 0 .. m.count - 1 /\ lab[t] = Append(lab[s], a)
    BY <2>1 DEF Rooted
  <2>3. QED
    BY <2>2
<1>3. ASSUME NEW t \in 0 .. m.count - 1, NEW a \in Alphabet, lab[t] = Append(lab[s], a)
      PROVE  t \in NextStates(m, s) /\ s < t
  <2>1. m.goto[s][a] = t /\ s < t
    BY <1>3 DEF Rooted
  <2>2. t # Fail /\ t # s
    BY <1>1, <2>1, Characters
  <2>3. QED
    BY <2>1, <2>2 DEF NextStates
<1>4. ASSUME NEW t \in NextStates(m, s)
      PROVE  t \in s + 1 .. m.count - 1 /\ t \in 1 .. m.count - 1 /\ Len(lab[t]) = Len(lab[s]) + 1
  <2>1. PICK a \in Alphabet : t \in 0 .. m.count - 1 /\ lab[t] = Append(lab[s], a)
    BY <1>2
  <2>2. s < t
    BY <1>3, <2>1
  <2>3. lab[s] \in Text
    BY <1>1
  <2>4. Len(Append(lab[s], a)) = Len(lab[s]) + 1
    BY <2>3, Appended
  <2>5. t \in s + 1 .. m.count - 1 /\ t \in 1 .. m.count - 1
    <3> DEFINE n == m.count
    <3>1. n \in Nat /\ t \in 0 .. n - 1 /\ s \in 0 .. n - 1
      BY <1>1, <2>1
    <3> HIDE DEF n
    <3>2. t \in s + 1 .. n - 1 /\ t \in 1 .. n - 1
      BY <2>2, <3>1
    <3>3. QED
      BY <3>2 DEF n
  <2>6. QED
    BY <2>1, <2>4, <2>5
<1>5. QED
  BY <1>2, <1>3, <1>4

\* A state is below one other only.
LEMMA OneParent ==
  ASSUME NEW m, NEW lab, NEW max, NEW hack, Rooted(m, lab, max, hack), NEW s \in 0 .. m.count - 1,
         NEW q \in 0 .. m.count - 1, NEW t, t \in NextStates(m, s), t \in NextStates(m, q)
  PROVE  s = q
<1>1. PICK a \in Alphabet : lab[t] = Append(lab[s], a)
  BY NextStatesAre
<1>2. PICK b \in Alphabet : lab[t] = Append(lab[q], b)
  BY NextStatesAre
<1> DEFINE v == lab[s]
           w == lab[q]
<1>3. v \in Text /\ w \in Text /\ Append(v, a) = Append(w, b)
  BY <1>1, <1>2, RootedLabels
<1> HIDE DEF v, w
<1>4. v = w
  BY <1>3, SameAppended
<1>5. QED
  BY <1>4 DEF v, w, Rooted

BelowLoop(n, r, m, s) == r[0] = <<>> /\ \A i \in 0 .. n - 1 : r[i + 1] = Enqueue(m, s, r[i], i + 1 - 1)

\* The states below one, character by character.
LEMMA BelowSteps ==
  ASSUME NEW m, NEW s, Chars + 2 \in Nat
  PROVE  \E r : BelowLoop(Chars + 2, r, m, s) /\ Below(m, s) = r[Chars + 2]
<1> DEFINE F(n, r) == r = [i \in 0 .. n |-> IF i = 0 THEN <<>> ELSE Enqueue(m, s, r[i - 1], i - 1)]
           T == {n \in Nat : \E r : F(n, r)}
<1>1. 0 \in T
  <2>1. F(0, [i \in 0 .. 0 |-> <<>>])
    OBVIOUS
  <2>2. QED
    BY <2>1
<1>2. ASSUME NEW n \in Nat, n \in T PROVE n + 1 \in T
  <2>1. PICK r : F(n, r)
    BY <1>2
  <2> DEFINE q == [i \in 0 .. n + 1 |-> IF i = n + 1 THEN Enqueue(m, s, r[n], (n + 1) - 1) ELSE r[i]]
  <2>2. ASSUME NEW i \in 0 .. n + 1
        PROVE  q[i] = IF i = 0 THEN <<>> ELSE Enqueue(m, s, q[i - 1], i - 1)
    BY <2>1
  <2>3. F(n + 1, q)
    BY <2>2
  <2> HIDE DEF F, q
  <2>4. QED
    BY <2>3
<1>3. Chars + 2 \in T
  BY <1>1, <1>2, Induction
<1> DEFINE N == Chars + 2
           w == CHOOSE r : F(N, r)
<1>4. F(N, w)
  BY <1>3
<1>5. Below(m, s) = w[N]
  BY DEF Below
<1>6. BelowLoop(N, w, m, s)
  <2> HIDE DEF w, N
  <2>1. w = [i \in 0 .. N |-> IF i = 0 THEN <<>> ELSE Enqueue(m, s, w[i - 1], i - 1)] /\ N \in Nat
    BY <1>4 DEF N
  <2>2. w[0] = <<>>
    BY <2>1
  <2>3. ASSUME NEW i \in 0 .. N - 1 PROVE w[i + 1] = Enqueue(m, s, w[i], i + 1 - 1)
    <3>1. i + 1 \in 0 .. N /\ i + 1 # 0 /\ i + 1 - 1 = i
      BY <2>1
    <3>2. w[i + 1] = Enqueue(m, s, w[i + 1 - 1], i + 1 - 1)
      BY <2>1, <3>1
    <3>3. QED
      BY <3>1, <3>2
  <2>4. QED
    BY <2>2, <2>3 DEF BelowLoop
<1>7. QED
  BY <1>5, <1>6

\* They are enqueued once each.
LEMMA BelowIs ==
  ASSUME NEW m, NEW lab, NEW max, NEW hack, Rooted(m, lab, max, hack), NEW s \in 0 .. m.count - 1
  PROVE  /\ Below(m, s) \in Seq(1 .. m.count - 1) /\ NoTwice(Below(m, s))
         /\ Elements(Below(m, s)) = NextStates(m, s)
<1> DEFINE N == Chars + 2
           S == 1 .. m.count - 1
           Done(k) == {m.goto[s][a] : a \in 0 .. k - 1} \ {Fail, s}
<1>1. N \in Nat /\ Alphabet = 0 .. N - 1
  BY Characters
<1>2. PICK r : BelowLoop(N, r, m, s) /\ Below(m, s) = r[N]
  BY <1>1, BelowSteps
<1>3. \A t \in NextStates(m, s) : t \in S
  BY NextStatesAre
<1>4. \A a, b \in Alphabet : m.goto[s][a] = m.goto[s][b] /\ m.goto[s][a] \notin {Fail, s} => a = b
  <2> TAKE a, b \in Alphabet
  <2> HAVE m.goto[s][a] = m.goto[s][b] /\ m.goto[s][a] \notin {Fail, s}
  <2>1. lab[m.goto[s][a]] = Append(lab[s], a) /\ lab[m.goto[s][b]] = Append(lab[s], b)
    BY DEF Rooted
  <2> DEFINE v == lab[s]
  <2>2. v \in Text /\ Append(v, a) = Append(v, b)
    BY <2>1, RootedLabels
  <2> HIDE DEF v
  <2>3. QED
    BY <2>2, SameAppended
<1> HIDE DEF N, S
<1> DEFINE T == {k \in 0 .. N : r[k] \in Seq(S) /\ NoTwice(r[k]) /\ Elements(r[k]) = Done(k)}
<1>5. 0 \in T
  <2>1. r[0] = <<>> /\ 0 \in 0 .. N
    BY <1>1, <1>2 DEF BelowLoop
  <2>2. Done(0) = {}
    BY <1>1
  <2>3. Elements(<<>>) = {} /\ NoTwice(<<>>) /\ <<>> \in Seq(S)
    BY DEF Elements, NoTwice
  <2>4. QED
    BY <2>1, <2>2, <2>3
<1>6. ASSUME NEW k \in 0 .. N - 1, k \in T PROVE k + 1 \in T
  <2> DEFINE t == m.goto[s][k]
             x == r[k]
  <2>1. k + 1 \in 0 .. N /\ k \in Alphabet
    BY <1>1
  <2>2. r[k + 1] = Enqueue(m, s, x, k)
    <3>1. k + 1 # 0 /\ k + 1 - 1 = k
      BY <1>1
    <3>2. QED
      BY <1>2, <2>1, <3>1 DEF BelowLoop
  <2>3. x \in Seq(S) /\ NoTwice(x) /\ Elements(x) = Done(k)
    BY <1>6
  <2>4. Done(k + 1) = Done(k) \cup ({t} \ {Fail, s})
    <3>1. 0 .. (k + 1) - 1 = (0 .. k - 1) \cup {k}
      BY <1>1
    <3>2. QED
      BY <3>1
  <2>5. CASE t \in {Fail, s}
    <3>1. r[k + 1] = x
      BY <2>2, <2>5 DEF Enqueue
    <3>2. Done(k + 1) = Done(k)
      BY <2>4, <2>5
    <3>3. QED
      BY <2>1, <2>3, <3>1, <3>2
  <2>6. CASE t \notin {Fail, s}
    <3>1. r[k + 1] = Append(x, t)
      BY <2>2, <2>6 DEF Enqueue
    <3>2. Done(k + 1) = Done(k) \cup {t}
      BY <2>4, <2>6
    <3>3. t \in S
      <4>1. t \in NextStates(m, s)
        BY <2>1, <2>6 DEF NextStates
      <4>2. QED
        BY <1>3, <4>1
    <3>4. t \notin Done(k)
      <4>1. ASSUME NEW a \in 0 .. k - 1 PROVE m.goto[s][a] # t
        <5>1. a \in Alphabet /\ a # k
          BY <1>1
        <5>2. QED
          BY <1>4, <2>1, <2>6, <5>1
      <4>2. QED
        BY <4>1
    <3> HIDE DEF t, x, Done
    <3>5. Append(x, t) \in Seq(S) /\ Elements(Append(x, t)) = Elements(x) \cup {t} /\ NoTwice(Append(x, t))
      BY <2>3, <3>3, <3>4, ElementsAppend
    <3>6. QED
      BY <2>1, <2>3, <3>1, <3>2, <3>5
  <2>7. QED
    BY <2>5, <2>6
<1>7. N \in T
  <2> HIDE DEF T
  <2>1. 0 .. N \subseteq T
    BY <1>1, <1>5, <1>6, UpTo
  <2>2. QED
    BY <1>1, <2>1
<1>8. Done(N) = NextStates(m, s)
  BY <1>1 DEF NextStates
<1>9. QED
  BY <1>2, <1>7, <1>8 DEF S

\* One list after the other,
LEMMA Joined ==
  ASSUME NEW S, NEW s \in Seq(S), NEW t \in Seq(S)
  PROVE  /\ s \o t \in Seq(S) /\ Len(s \o t) = Len(s) + Len(t) /\ Len(s) \in Nat /\ Len(t) \in Nat
         /\ \A i \in 1 .. Len(s) : (s \o t)[i] = s[i]
         /\ \A i \in 1 .. Len(t) : (s \o t)[Len(s) + i] = t[i]
         /\ \A i \in 1 .. Len(s) + Len(t) : i \in 1 .. Len(s) \/ \E j \in 1 .. Len(t) : i = Len(s) + j
<1>1. s \o t \in Seq(S) /\ Len(s \o t) = Len(s) + Len(t)
  BY ConcatProperties
<1>2. \A i \in 1 .. Len(s) + Len(t) : (s \o t)[i] = IF i <= Len(s) THEN s[i] ELSE t[i - Len(s)]
  BY ConcatProperties
<1>3. Len(s) \in Nat /\ Len(t) \in Nat
  BY LenProperties
<1> DEFINE k == Len(s)
           n == Len(t)
           w == s \o t
<1>4. k \in Nat /\ n \in Nat /\ \A i \in 1 .. k + n : w[i] = IF i <= k THEN s[i] ELSE t[i - k]
  BY <1>2, <1>3
<1> HIDE DEF k, n, w
<1>5. \A i \in 1 .. k : w[i] = s[i]
  BY <1>4
<1>6. ASSUME NEW i \in 1 .. n PROVE w[k + i] = t[i]
  <2>1. k + i \in 1 .. k + n /\ ~(k + i <= k) /\ k + i - k = i
    BY <1>4
  <2>2. QED
    BY <1>4, <2>1
<1>7. ASSUME NEW i \in 1 .. k + n PROVE i \in 1 .. k \/ \E j \in 1 .. n : i = k + j
  <2>1. CASE i <= k
    BY <1>4, <2>1
  <2>2. CASE ~(i <= k)
    <3>1. i - k \in 1 .. n /\ i = k + (i - k)
      BY <1>4, <2>2
    <3>2. QED
      BY <3>1
  <2>3. QED
    BY <2>1, <2>2
<1>8. QED
  BY <1>1, <1>3, <1>5, <1>6, <1>7 DEF k, n, w

\* and what is in it.
LEMMA ElementsJoined ==
  ASSUME NEW S, NEW s \in Seq(S), NEW t \in Seq(S)
  PROVE  /\ Elements(s \o t) = Elements(s) \cup Elements(t)
         /\ NoTwice(s) /\ NoTwice(t) /\ Elements(s) \cap Elements(t) = {} => NoTwice(s \o t)
<1> DEFINE w == s \o t
           k == Len(s)
           n == Len(t)
<1>1. /\ w \in Seq(S) /\ k \in Nat /\ n \in Nat /\ Len(w) = k + n
      /\ \A i \in 1 .. k : w[i] = s[i]
      /\ \A i \in 1 .. n : w[k + i] = t[i]
      /\ \A i \in 1 .. k + n : i \in 1 .. k \/ \E j \in 1 .. n : i = k + j
  BY Joined
<1>2. DOMAIN s = 1 .. k /\ DOMAIN t = 1 .. n /\ DOMAIN w = 1 .. k + n
  BY <1>1, LenProperties
<1> HIDE DEF w, k, n
<1>3. Elements(w) = Elements(s) \cup Elements(t)
  <2>1. ASSUME NEW i \in 1 .. k + n PROVE w[i] \in Elements(s) \cup Elements(t)
    <3>1. CASE i \in 1 .. k
      BY <1>1, <1>2, <3>1 DEF Elements
    <3>2. ASSUME NEW j \in 1 .. n, i = k + j PROVE w[i] \in Elements(t)
      BY <1>1, <1>2, <3>2 DEF Elements
    <3>3. QED
      BY <1>1, <3>1, <3>2
  <2>2. ASSUME NEW i \in 1 .. k PROVE s[i] \in Elements(w)
    <3>1. i \in 1 .. k + n /\ w[i] = s[i]
      BY <1>1
    <3>2. QED
      BY <1>2, <3>1 DEF Elements
  <2>3. ASSUME NEW i \in 1 .. n PROVE t[i] \in Elements(w)
    <3>1. k + i \in 1 .. k + n /\ w[k + i] = t[i]
      BY <1>1
    <3>2. QED
      BY <1>2, <3>1 DEF Elements
  <2>4. Elements(w) = {w[i] : i \in 1 .. k + n} /\ Elements(s) = {s[i] : i \in 1 .. k} /\ Elements(t) = {t[i] : i \in 1 .. n}
    BY <1>2 DEF Elements
  <2>5. QED
    BY <2>1, <2>2, <2>3, <2>4
<1>4. ASSUME NoTwice(s), NoTwice(t), Elements(s) \cap Elements(t) = {} PROVE NoTwice(w)
  <2>1. ASSUME NEW i \in 1 .. k, NEW j \in 1 .. n PROVE s[i] # t[j]
    BY <1>2, <1>4 DEF Elements
  <2>2. ASSUME NEW i \in 1 .. k + n, NEW j \in 1 .. k + n, w[i] = w[j] PROVE i = j
    <3>1. CASE i \in 1 .. k /\ j \in 1 .. k
      BY <1>1, <1>2, <1>4, <2>2, <3>1 DEF NoTwice
    <3>2. ASSUME NEW b \in 1 .. n, j = k + b, i \in 1 .. k PROVE FALSE
      BY <1>1, <2>1, <2>2, <3>2
    <3>3. ASSUME NEW a \in 1 .. n, i = k + a, j \in 1 .. k PROVE FALSE
      BY <1>1, <2>1, <2>2, <3>3
    <3>4. ASSUME NEW a \in 1 .. n, i = k + a, NEW b \in 1 .. n, j = k + b PROVE i = j
      <4>1. t[a] = t[b]
        BY <1>1, <2>2, <3>4
      <4>2. a = b
        BY <1>2, <1>4, <4>1 DEF NoTwice
      <4>3. QED
        BY <3>4, <4>2
    <3>5. QED
      BY <1>1, <3>1, <3>2, <3>3, <3>4
  <2>3. QED
    BY <1>2, <2>2 DEF NoTwice
<1>5. QED
  BY <1>3, <1>4 DEF w

\* A list without repetitions is no longer than what there is to list.
LEMMA NoLonger ==
  ASSUME NEW n \in Nat, NEW s \in Seq(1 .. n), NoTwice(s)
  PROVE  Len(s) <= n
<1>1. Len(s) \in Nat /\ DOMAIN s = 1 .. Len(s) /\ s \in [1 .. Len(s) -> 1 .. n]
  BY LenProperties
<1> DEFINE k == Len(s)
<1>2. k \in Nat /\ s \in [1 .. k -> 1 .. n]
  BY <1>1
<1>3. \A i, j \in 1 .. k : s[i] = s[j] => i = j
  BY <1>1 DEF NoTwice
<1> HIDE DEF k
<1>4. IsFiniteSet(1 .. k) /\ IsFiniteSet(1 .. n) /\ Cardinality(1 .. k) = k /\ Cardinality(1 .. n) = n
  BY <1>2, FS_Interval
<1>5. ~(k > n)
  <2>1. CASE k > n
    <3>1. Cardinality(1 .. n) < Cardinality(1 .. k)
      BY <1>2, <1>4, <2>1
    <3>2. \E i, j \in 1 .. k : i # j /\ s[i] = s[j]
      BY <1>2, <1>4, <3>1, FS_PigeonHole
    <3>3. QED
      BY <1>3, <3>2
  <2>2. QED
    BY <2>1
<1>6. QED
  BY <1>2, <1>5 DEF k

\* The queue after k turns.
Visited(m, lab, q, k) ==
  /\ q \in Seq(1 .. m.count - 1) /\ NoTwice(q) /\ k \in 0 .. Len(q)
  /\ \A t : t \in Elements(q) <=> t \in NextStates(m, 0) \/ \E i \in 1 .. k : t \in NextStates(m, q[i])
  /\ \A i, j \in 1 .. Len(q) : i <= j => Len(lab[q[i]]) <= Len(lab[q[j]])
  /\ \A i \in 1 .. Len(q) : Len(lab[q[i]]) <= (IF k = 0 THEN 1 ELSE Len(lab[q[k]]) + 1)

\* The first state has the empty label.
LEMMA RootIn ==
  ASSUME NEW m, NEW lab, NEW max, NEW hack, Rooted(m, lab, max, hack)
  PROVE  0 \in 0 .. m.count - 1 /\ lab[0] \in Text /\ Len(lab[0]) = 0
<1>1. m.count \in Nat /\ m.count >= 1
  BY RootedLabels
<1>2. 0 \in 0 .. m.count - 1
  BY <1>1
<1>3. lab[0] = <<>>
  BY DEF Rooted
<1>4. QED
  BY <1>2, <1>3, RootedLabels

\* At first the states below the first are in the queue.
LEMMA VisitedFirst ==
  ASSUME NEW m, NEW lab, NEW max, NEW hack, Rooted(m, lab, max, hack)
  PROVE  Visited(m, lab, Below(m, 0), 0)
<1> DEFINE q == Below(m, 0)
<1>0. 0 \in 0 .. m.count - 1 /\ Len(lab[0]) = 0
  BY RootIn
<1>1. q \in Seq(1 .. m.count - 1) /\ NoTwice(q) /\ Elements(q) = NextStates(m, 0)
  BY <1>0, BelowIs
<1> HIDE DEF q
<1>2. Len(q) \in Nat /\ DOMAIN q = 1 .. Len(q)
  BY <1>1, LenProperties
<1>3. ASSUME NEW i \in 1 .. Len(q) PROVE Len(lab[q[i]]) = 1
  <2>1. q[i] \in NextStates(m, 0)
    BY <1>1, <1>2 DEF Elements
  <2>2. Len(lab[q[i]]) = Len(lab[0]) + 1
    <3> DEFINE z == 0
    <3>1. z \in 0 .. m.count - 1 /\ q[i] \in NextStates(m, z)
      BY <1>0, <2>1
    <3> HIDE DEF z
    <3>2. Len(lab[q[i]]) = Len(lab[z]) + 1
      BY <3>1, NextStatesAre
    <3>3. QED
      BY <3>2 DEF z
  <2>3. QED
    BY <1>0, <2>2
<1>4. 1 .. 0 = {}
  OBVIOUS
<1>5. Visited(m, lab, q, 0)
  <2>1. \A t : t \in Elements(q) <=> t \in NextStates(m, 0) \/ \E i \in 1 .. 0 : t \in NextStates(m, q[i])
    BY <1>1, <1>4
  <2>2. \A i, j \in 1 .. Len(q) : i <= j => Len(lab[q[i]]) <= Len(lab[q[j]])
    BY <1>3
  <2>3. \A i \in 1 .. Len(q) : Len(lab[q[i]]) <= (IF 0 = 0 THEN 1 ELSE Len(lab[q[0]]) + 1)
    <3>1. ASSUME NEW i \in 1 .. Len(q) PROVE Len(lab[q[i]]) <= 1
      <4> DEFINE x == Len(lab[q[i]])
      <4>1. x = 1
        BY <1>3
      <4> HIDE DEF x
      <4>2. x <= 1
        BY <4>1
      <4>3. QED
        BY <4>2 DEF x
    <3>2. QED
      BY <3>1
  <2>4. 0 \in 0 .. Len(q)
    BY <1>2
  <2>5. QED
    BY <1>1, <2>1, <2>2, <2>3, <2>4 DEF Visited
<1>6. QED
  BY <1>5 DEF q

\* Every turn adds those below its head.
LEMMA VisitedNext ==
  ASSUME NEW m, NEW lab, NEW max, NEW hack, Rooted(m, lab, max, hack),
         NEW q, NEW k \in Nat, Visited(m, lab, q, k), k + 1 <= Len(q)
  PROVE  /\ Visited(m, lab, q \o Below(m, q[k + 1]), k + 1)
         /\ \A i \in 1 .. k + 1 : (q \o Below(m, q[k + 1]))[i] = q[i]
<1> DEFINE s == q[k + 1]
           b == Below(m, s)
           w == q \o b
           N == Len(q)
           B == Len(b)
           S == 1 .. m.count - 1
           d(x) == Len(lab[x])
<1>1. /\ q \in Seq(S) /\ NoTwice(q) /\ N \in Nat /\ DOMAIN q = 1 .. N /\ \A i \in 1 .. N : q[i] \in S
  BY LenProperties, ElementOfSeq DEF Visited
<1>2. k + 1 \in 1 .. N /\ s \in S /\ s \in 0 .. m.count - 1 /\ s # 0
  <2>1. k + 1 \in 1 .. N
    BY <1>1
  <2>2. s \in S
    BY <1>1, <2>1
  <2>3. m.count \in Nat
    BY RootedLabels
  <2>4. QED
    BY <2>1, <2>2, <2>3
<1>3. b \in Seq(S) /\ NoTwice(b) /\ Elements(b) = NextStates(m, s)
  BY <1>2, BelowIs
<1>4. B \in Nat /\ DOMAIN b = 1 .. B
  BY <1>3, LenProperties
<1>5. /\ \A t : t \in Elements(q) <=> t \in NextStates(m, 0) \/ \E i \in 1 .. k : t \in NextStates(m, q[i])
      /\ \A i, j \in 1 .. N : i <= j => d(q[i]) <= d(q[j])
      /\ \A i \in 1 .. N : d(q[i]) <= (IF k = 0 THEN 1 ELSE d(q[k]) + 1)
  BY DEF Visited
<1>6. \A i \in 1 .. N : q[i] \in 0 .. m.count - 1 /\ d(q[i]) \in Nat
  <2> TAKE i \in 1 .. N
  <2>1. q[i] \in 0 .. m.count - 1
    <3> DEFINE x == q[i]
    <3>1. x \in S /\ m.count \in Nat
      BY <1>1, RootedLabels
    <3> HIDE DEF x
    <3>2. QED
      BY <3>1 DEF x
  <2>2. QED
    BY <2>1, RootedLabels, LenNonNegative
<1>15. \A i \in 1 .. k : i \in 1 .. N
  BY <1>1, <1>2
<1>7. \A t \in Elements(b) : d(t) = d(s) + 1 /\ t \in S
  BY <1>2, <1>3, NextStatesAre
<1>8. Elements(q) \cap Elements(b) = {}
  <2>1. ASSUME NEW t \in Elements(q), t \in NextStates(m, s) PROVE FALSE
    <3>1. CASE t \in NextStates(m, 0)
      <4>1. 0 \in 0 .. m.count - 1
        BY RootedLabels
      <4>2. s = 0
        BY <1>2, <2>1, <3>1, <4>1, OneParent
      <4>3. QED
        BY <1>2, <4>2
    <3>2. ASSUME NEW i \in 1 .. k, t \in NextStates(m, q[i]) PROVE FALSE
      <4>1. i \in 1 .. N /\ i # k + 1 /\ q[i] \in 0 .. m.count - 1
        BY <1>6, <1>15
      <4>2. q[i] = s
        BY <1>2, <2>1, <3>2, <4>1, OneParent
      <4>3. i = k + 1
        BY <1>1, <1>2, <4>1, <4>2 DEF NoTwice
      <4>4. QED
        BY <4>1, <4>3
    <3>3. QED
      BY <1>5, <2>1, <3>1, <3>2
  <2>2. QED
    BY <1>3, <2>1
<1>9. /\ w \in Seq(S) /\ Len(w) = N + B
      /\ \A i \in 1 .. N : w[i] = q[i]
      /\ \A i \in 1 .. B : w[N + i] = b[i]
      /\ \A i \in 1 .. N + B : i \in 1 .. N \/ \E j \in 1 .. B : i = N + j
  BY <1>1, <1>3, Joined
<1>10. Elements(w) = Elements(q) \cup Elements(b) /\ NoTwice(w)
  <2> HIDE DEF S, b
  <2>1. QED
    BY <1>1, <1>3, <1>8, ElementsJoined
<1>16. w[k + 1] = s /\ \A i \in 1 .. k : w[i] = q[i]
  BY <1>2, <1>9, <1>15
<1> HIDE DEF w, b, s, N, B, S, d
<1>11. \A t : t \in Elements(w) <=> t \in NextStates(m, 0) \/ \E i \in 1 .. k + 1 : t \in NextStates(m, w[i])
  <2> TAKE t
  <2>1. ASSUME t \in Elements(w) PROVE t \in NextStates(m, 0) \/ \E i \in 1 .. k + 1 : t \in NextStates(m, w[i])
    <3>1. CASE t \in Elements(b)
      BY <1>3, <1>16, <3>1
    <3>2. CASE t \in Elements(q)
      <4>1. CASE t \in NextStates(m, 0)
        BY <4>1
      <4>2. ASSUME NEW i \in 1 .. k, t \in NextStates(m, q[i]) PROVE \E j \in 1 .. k + 1 : t \in NextStates(m, w[j])
        <5>1. i \in 1 .. k + 1 /\ w[i] = q[i]
          BY <1>16
        <5>2. QED
          BY <4>2, <5>1
      <4>3. QED
        BY <1>5, <3>2, <4>1, <4>2
    <3>3. QED
      BY <1>10, <2>1, <3>1, <3>2
  <2>2. ASSUME t \in NextStates(m, 0) PROVE t \in Elements(w)
    BY <1>5, <1>10, <2>2
  <2>3. ASSUME NEW i \in 1 .. k + 1, t \in NextStates(m, w[i]) PROVE t \in Elements(w)
    <3>1. CASE i = k + 1
      BY <1>3, <1>10, <1>16, <2>3, <3>1
    <3>2. CASE i # k + 1
      <4>1. i \in 1 .. k
        BY <3>2
      <4>2. t \in NextStates(m, q[i])
        BY <1>16, <2>3, <4>1
      <4>3. QED
        BY <1>5, <1>10, <4>1, <4>2
    <3>3. QED
      BY <3>1, <3>2
  <2>4. QED
    BY <2>1, <2>2, <2>3
<1>12. d(s) \in Nat /\ \A i \in 1 .. N : d(q[i]) <= d(s) + 1
  <2>1. d(s) \in Nat
    BY <1>2, <1>6 DEF s
  <2>2. ASSUME NEW i \in 1 .. N PROVE d(q[i]) <= d(s) + 1
    <3>1. CASE k = 0
      BY <1>5, <1>6, <2>1, <3>1
    <3>2. CASE k # 0
      <4>1. k \in 1 .. k /\ k \in 1 .. N /\ d(q[k]) \in Nat
        BY <1>6, <1>15, <3>2
      <4>2. d(q[k]) <= d(s)
        <5>1. k <= k + 1
          OBVIOUS
        <5>2. QED
          BY <1>2, <1>5, <4>1, <5>1 DEF s
      <4>3. d(q[i]) <= d(q[k]) + 1 /\ d(q[i]) \in Nat
        BY <1>5, <1>6, <3>2
      <4>4. QED
        BY <2>1, <4>1, <4>2, <4>3
    <3>3. QED
      BY <3>1, <3>2
  <2>3. QED
    BY <2>1, <2>2
<1>17. \A i \in 1 .. B : d(b[i]) = d(s) + 1
  BY <1>4, <1>7 DEF Elements
<1>13. \A i, j \in 1 .. N + B : i <= j => d(w[i]) <= d(w[j])
  <2> TAKE i, j \in 1 .. N + B
  <2> HAVE i <= j
  <2>1. CASE i \in 1 .. N /\ j \in 1 .. N
    BY <1>5, <1>9, <2>1
  <2>2. ASSUME i \in 1 .. N, NEW y \in 1 .. B, j = N + y PROVE d(w[i]) <= d(w[j])
    BY <1>9, <1>12, <1>17, <2>2
  <2>3. ASSUME NEW x \in 1 .. B, i = N + x, j \in 1 .. N PROVE FALSE
    BY <1>1, <2>3
  <2>4. ASSUME NEW x \in 1 .. B, i = N + x, NEW y \in 1 .. B, j = N + y PROVE d(w[i]) <= d(w[j])
    BY <1>9, <1>12, <1>17, <2>4
  <2>5. QED
    BY <1>9, <2>1, <2>2, <2>3, <2>4
<1>14. \A i \in 1 .. N + B : d(w[i]) <= d(w[k + 1]) + 1
  <2> TAKE i \in 1 .. N + B
  <2>1. CASE i \in 1 .. N
    BY <1>9, <1>12, <1>16, <2>1
  <2>2. ASSUME NEW y \in 1 .. B, i = N + y PROVE d(w[i]) <= d(w[k + 1]) + 1
    BY <1>9, <1>12, <1>16, <1>17, <2>2
  <2>3. QED
    BY <1>9, <2>1, <2>2
<1>18. k + 1 \in 0 .. N + B /\ k + 1 # 0
  BY <1>1, <1>2, <1>4
<1>20. \A i \in 1 .. N + B : d(w[i]) <= (IF k + 1 = 0 THEN 1 ELSE d(w[k + 1]) + 1)
  BY <1>14, <1>18
<1>19. Visited(m, lab, w, k + 1)
  <2>1. k + 1 \in 0 .. Len(w) /\ w \in Seq(1 .. m.count - 1)
    BY <1>9, <1>18 DEF S
  <2>2. \A i, j \in 1 .. Len(w) : i <= j => Len(lab[w[i]]) <= Len(lab[w[j]])
    BY <1>9, <1>13 DEF d
  <2>3. \A i \in 1 .. Len(w) : Len(lab[w[i]]) <= (IF k + 1 = 0 THEN 1 ELSE Len(lab[w[k + 1]]) + 1)
    BY <1>9, <1>20 DEF d
  <2>4. QED
    BY <1>10, <1>11, <2>1, <2>2, <2>3 DEF Visited
<1>21. \A i \in 1 .. k + 1 : w[i] = q[i]
  <2> TAKE i \in 1 .. k + 1
  <2>1. i \in 1 .. N
    BY <1>1, <1>2
  <2>2. QED
    BY <1>9, <2>1
<1>22. QED
  BY <1>19, <1>21 DEF w, b, s

OrderLoop(n, r, m) == r[0] = Below(m, 0) /\ \A i \in 0 .. n - 1 : r[i + 1] = Queued(m, r[i], i + 1)

\* The queue, turn by turn.
LEMMA OrderSteps ==
  ASSUME NEW m, m.count \in Nat
  PROVE  \E r : OrderLoop(m.count, r, m) /\ Order(m) = r[m.count]
<1> DEFINE F(n, r) == r = [i \in 0 .. n |-> IF i = 0 THEN Below(m, 0) ELSE Queued(m, r[i - 1], i)]
           T == {n \in Nat : \E r : F(n, r)}
<1>1. 0 \in T
  <2>1. F(0, [i \in 0 .. 0 |-> Below(m, 0)])
    OBVIOUS
  <2>2. QED
    BY <2>1
<1>2. ASSUME NEW n \in Nat, n \in T PROVE n + 1 \in T
  <2>1. PICK r : F(n, r)
    BY <1>2
  <2> DEFINE q == [i \in 0 .. n + 1 |-> IF i = n + 1 THEN Queued(m, r[n], (n + 1)) ELSE r[i]]
  <2>2. ASSUME NEW i \in 0 .. n + 1
        PROVE  q[i] = IF i = 0 THEN Below(m, 0) ELSE Queued(m, q[i - 1], i)
    BY <2>1
  <2>3. F(n + 1, q)
    BY <2>2
  <2> HIDE DEF F, q
  <2>4. QED
    BY <2>3
<1>3. m.count \in T
  BY <1>1, <1>2, Induction
<1> DEFINE N == m.count
           w == CHOOSE r : F(N, r)
<1>4. F(N, w)
  BY <1>3
<1>5. Order(m) = w[N]
  BY DEF Order
<1>6. OrderLoop(N, w, m)
  <2> HIDE DEF w, N
  <2>1. w = [i \in 0 .. N |-> IF i = 0 THEN Below(m, 0) ELSE Queued(m, w[i - 1], i)] /\ N \in Nat
    BY <1>4 DEF N
  <2>2. w[0] = Below(m, 0)
    BY <2>1
  <2>3. ASSUME NEW i \in 0 .. N - 1 PROVE w[i + 1] = Queued(m, w[i], i + 1)
    <3>1. i + 1 \in 0 .. N /\ i + 1 # 0 /\ i + 1 - 1 = i
      BY <2>1
    <3>2. w[i + 1] = Queued(m, w[i + 1 - 1], i + 1)
      BY <2>1, <3>1
    <3>3. QED
      BY <3>1, <3>2
  <2>4. QED
    BY <2>2, <2>3 DEF OrderLoop
<1>7. QED
  BY <1>5, <1>6

\* Every state but the first, once, the shorter prefixes first.
Ordered(m, lab, o) ==
  /\ o \in Seq(1 .. m.count - 1) /\ NoTwice(o)
  /\ \A t \in 1 .. m.count - 1 : \E i \in 1 .. Len(o) : o[i] = t
  /\ \A i, j \in 1 .. Len(o) : i <= j => Len(lab[o[i]]) <= Len(lab[o[j]])

\* All states but the first are visited, each once, the shorter labels first.
LEMMA OrderIs ==
  ASSUME NEW m, NEW lab, NEW max, NEW hack, Rooted(m, lab, max, hack)
  PROVE  Ordered(m, lab, Order(m))
<1> DEFINE c == m.count
<1>1. c \in Nat /\ c >= 1
  BY RootedLabels
<1>2. PICK r : OrderLoop(c, r, m) /\ Order(m) = r[c]
  BY <1>1, OrderSteps
<1> DEFINE Good(n) == \E k \in 0 .. n : Visited(m, lab, r[n], k) /\ (k = n \/ k = Len(r[n]))
           T == {n \in 0 .. c : Good(n)}
<1>3. 0 \in T
  <2>1. r[0] = Below(m, 0) /\ 0 \in 0 .. c /\ 0 \in 0 .. 0
    BY <1>1, <1>2 DEF OrderLoop
  <2>2. Visited(m, lab, r[0], 0)
    BY <2>1, VisitedFirst
  <2>3. QED
    BY <2>1, <2>2
<1> HIDE DEF c
<1>4. ASSUME NEW n \in 0 .. c - 1, n \in T PROVE n + 1 \in T
  <2> DEFINE q == r[n]
  <2>1. r[n + 1] = Queued(m, q, n + 1) /\ n + 1 \in 0 .. c
    BY <1>1, <1>2 DEF OrderLoop
  <2>2. PICK k \in 0 .. n : Visited(m, lab, q, k) /\ (k = n \/ k = Len(q))
    BY <1>4
  <2>3. k \in 0 .. Len(q) /\ Len(q) \in Nat
    BY <2>2, LenProperties DEF Visited
  <2> HIDE DEF q
  <2>4. CASE n + 1 <= Len(q)
    <3>1. k = n
      BY <2>2, <2>3, <2>4
    <3>2. r[n + 1] = q \o Below(m, q[n + 1])
      BY <2>1, <2>4 DEF Queued
    <3>3. n \in Nat /\ Visited(m, lab, q, n)
      BY <1>1, <2>2, <3>1
    <3>4. Visited(m, lab, r[n + 1], n + 1)
      BY <2>4, <3>2, <3>3, VisitedNext
    <3>5. n + 1 \in 0 .. n + 1
      BY <1>1
    <3>6. Good(n + 1)
      BY <3>4, <3>5
    <3>7. QED
      BY <2>1, <3>6
  <2>5. CASE ~(n + 1 <= Len(q))
    <3>1. k = Len(q)
      BY <2>2, <2>3, <2>5
    <3>2. r[n + 1] = q
      BY <2>1, <2>5 DEF Queued
    <3>3. k \in 0 .. n + 1
      BY <1>1
    <3>4. Good(n + 1)
      BY <2>2, <3>1, <3>2, <3>3
    <3>5. QED
      BY <2>1, <3>4
  <2>6. QED
    BY <2>4, <2>5
<1>5. c \in T
  <2> HIDE DEF T
  <2>1. 0 .. c \subseteq T
    BY <1>1, <1>3, <1>4, UpTo
  <2>2. QED
    BY <1>1, <2>1
<1> DEFINE o == Order(m)
<1>6. PICK k \in 0 .. c : Visited(m, lab, o, k) /\ (k = c \/ k = Len(o))
  BY <1>2, <1>5
<1> HIDE DEF o
<1>7. /\ o \in Seq(1 .. c - 1) /\ NoTwice(o) /\ k \in 0 .. Len(o)
      /\ \A t : t \in Elements(o) <=> t \in NextStates(m, 0) \/ \E i \in 1 .. k : t \in NextStates(m, o[i])
      /\ \A i, j \in 1 .. Len(o) : i <= j => Len(lab[o[i]]) <= Len(lab[o[j]])
  BY <1>6 DEF Visited, c
<1>8. Len(o) <= c - 1 /\ Len(o) \in Nat /\ DOMAIN o = 1 .. Len(o)
  <2>1. c - 1 \in Nat
    BY <1>1
  <2>2. QED
    BY <1>7, <2>1, NoLonger, LenProperties
<1>9. k = Len(o)
  <2> DEFINE n == Len(o)
  <2>1. k \in 0 .. n /\ (k = c \/ k = n) /\ n <= c - 1 /\ n \in Nat
    BY <1>6, <1>7, <1>8
  <2> HIDE DEF n
  <2>2. k = n
    BY <1>1, <2>1
  <2>3. QED
    BY <2>2 DEF n
<1> DEFINE U == {n \in 0 .. c - 1 : \A t \in 1 .. n : \E i \in 1 .. Len(o) : o[i] = t}
<1>10. 0 \in U
  BY <1>1
<1>11. ASSUME NEW n \in 0 .. (c - 1) - 1, n \in U PROVE n + 1 \in U
  <2> DEFINE t == n + 1
  <2>1. t \in 1 .. c - 1 /\ t \in 0 .. c - 1
    BY <1>1
  <2>2. PICK s \in 0 .. t - 1, a \in Alphabet : lab[t] = Append(lab[s], a)
    BY <2>1 DEF Rooted, c
  <2>3. s \in 0 .. c - 1
    BY <1>1, <2>1
  <2>4. t \in NextStates(m, s)
    BY <2>1, <2>2, <2>3, NextStatesAre DEF c
  <2>5. t \in Elements(o)
    <3>1. CASE s = 0
      BY <1>7, <2>4, <3>1
    <3>2. CASE s # 0
      <4>1. s \in 1 .. n
        BY <1>1, <3>2
      <4>2. PICK i \in 1 .. Len(o) : o[i] = s
        BY <1>11, <4>1
      <4>3. QED
        BY <1>7, <1>9, <2>4, <4>2
    <3>3. QED
      BY <3>1, <3>2
  <2>6. \E i \in 1 .. Len(o) : o[i] = t
    BY <1>8, <2>5 DEF Elements
  <2> HIDE DEF t
  <2>7. ASSUME NEW x \in 1 .. n + 1 PROVE \E i \in 1 .. Len(o) : o[i] = x
    <3>1. CASE x = n + 1
      BY <2>6, <3>1 DEF t
    <3>2. CASE x # n + 1
      <4>1. x \in 1 .. n
        BY <1>1, <3>2
      <4>2. QED
        BY <1>11, <4>1
    <3>3. QED
      BY <3>1, <3>2
  <2>8. QED
    BY <2>1, <2>7 DEF t
<1>12. c - 1 \in U
  <2> HIDE DEF U
  <2>1. c - 1 \in Nat
    BY <1>1
  <2> DEFINE z == c - 1
  <2>2. z \in Nat /\ 0 \in U /\ \A n \in 0 .. z - 1 : n \in U => n + 1 \in U
    BY <1>10, <1>11, <2>1
  <2> HIDE DEF z
  <2>3. 0 .. z \subseteq U
    BY <2>2, UpTo
  <2>4. z \in U
    BY <2>2, <2>3
  <2>5. QED
    BY <2>4 DEF z
<1>13. \A t \in 1 .. c - 1 : \E i \in 1 .. Len(o) : o[i] = t
  BY <1>12
<1>14. QED
  BY <1>7, <1>13 DEF Ordered, c, o

\* A prefix is no longer than its state's number.
LEMMA DepthBound ==
  ASSUME NEW m, NEW lab, NEW max, NEW hack, Rooted(m, lab, max, hack), NEW t \in 0 .. m.count - 1
  PROVE  Len(lab[t]) \in Nat /\ Len(lab[t]) <= t
<1> DEFINE c == m.count
           d(x) == Len(lab[x])
           T == {n \in 0 .. c - 1 : \A x \in 0 .. n : d(x) <= x}
<1>1. c \in Nat /\ c >= 1 /\ \A x \in 0 .. c - 1 : d(x) \in Nat
  BY RootedLabels, LenNonNegative
<1>2. d(0) = 0
  BY RootIn
<1>3. \A x \in 1 .. c - 1 : \E y \in 0 .. x - 1 : d(x) = d(y) + 1
  <2> TAKE x \in 1 .. c - 1
  <2>1. PICK y \in 0 .. x - 1, a \in Alphabet : lab[x] = Append(lab[y], a)
    BY DEF Rooted
  <2>2. y \in 0 .. c - 1
    BY <1>1
  <2>3. lab[y] \in Text
    BY <2>2, RootedLabels
  <2>4. Len(Append(lab[y], a)) = Len(lab[y]) + 1
    BY <2>3, Appended
  <2>5. QED
    BY <2>1, <2>4
<1> HIDE DEF c, d
<1>4. 0 \in T
  BY <1>1, <1>2
<1>5. ASSUME NEW n \in 0 .. (c - 1) - 1, n \in T PROVE n + 1 \in T
  <2>1. n + 1 \in 1 .. c - 1 /\ n + 1 \in 0 .. c - 1
    BY <1>1
  <2>2. PICK y \in 0 .. n + 1 - 1 : d(n + 1) = d(y) + 1
    BY <1>3, <2>1
  <2>3. y \in 0 .. n /\ y \in 0 .. c - 1
    BY <1>1, <2>1
  <2>4. d(y) <= y /\ d(y) \in Nat
    BY <1>1, <1>5, <2>3
  <2>5. d(n + 1) <= n + 1
    BY <2>2, <2>3, <2>4
  <2>6. ASSUME NEW x \in 0 .. n + 1 PROVE d(x) <= x
    <3>1. CASE x = n + 1
      BY <2>5, <3>1
    <3>2. CASE x # n + 1
      <4>1. x \in 0 .. n
        BY <1>1, <3>2
      <4>2. QED
        BY <1>5, <4>1
    <3>3. QED
      BY <3>1, <3>2
  <2>7. QED
    BY <2>1, <2>6
<1>6. c - 1 \in T
  <2> HIDE DEF T
  <2> DEFINE z == c - 1
  <2>2. z \in Nat /\ 0 \in T /\ \A n \in 0 .. z - 1 : n \in T => n + 1 \in T
    BY <1>1, <1>4, <1>5
  <2> HIDE DEF z
  <2>3. 0 .. z \subseteq T
    BY <2>2, UpTo
  <2>4. z \in T
    BY <2>2, <2>3
  <2>5. QED
    BY <2>4 DEF z
<1>7. t \in 0 .. c - 1
  BY DEF c
<1>8. QED
  BY <1>1, <1>6, <1>7 DEF d

(***************************************************************************)
(* Where a search goes on when no pattern continues.                       *)
(***************************************************************************)

FailTargetLoop(n, r, m, s, a) == r[0] = m.fail[s] /\ \A i \in 0 .. n - 1 : r[i + 1] = FallBack(m, r[i], a)

\* The walk along the failure links, step by step.
LEMMA FailTargetSteps ==
  ASSUME NEW m, NEW s, NEW a, m.count \in Nat
  PROVE  \E r : FailTargetLoop(m.count, r, m, s, a) /\ FailTarget(m, s, a) = m.goto[r[m.count]][a]
<1> DEFINE F(n, r) == r = [i \in 0 .. n |-> IF i = 0 THEN m.fail[s] ELSE FallBack(m, r[i - 1], a)]
           T == {n \in Nat : \E r : F(n, r)}
<1>1. 0 \in T
  <2>1. F(0, [i \in 0 .. 0 |-> m.fail[s]])
    OBVIOUS
  <2>2. QED
    BY <2>1
<1>2. ASSUME NEW n \in Nat, n \in T PROVE n + 1 \in T
  <2>1. PICK r : F(n, r)
    BY <1>2
  <2> DEFINE q == [i \in 0 .. n + 1 |-> IF i = n + 1 THEN FallBack(m, r[n], a) ELSE r[i]]
  <2>2. ASSUME NEW i \in 0 .. n + 1
        PROVE  q[i] = IF i = 0 THEN m.fail[s] ELSE FallBack(m, q[i - 1], a)
    BY <2>1
  <2>3. F(n + 1, q)
    BY <2>2
  <2> HIDE DEF F, q
  <2>4. QED
    BY <2>3
<1>3. m.count \in T
  BY <1>1, <1>2, Induction
<1> DEFINE N == m.count
           w == CHOOSE r : F(N, r)
<1>4. F(N, w)
  BY <1>3
<1>5. FailTarget(m, s, a) = m.goto[w[m.count]][a]
  BY DEF FailTarget
<1>6. FailTargetLoop(N, w, m, s, a)
  <2> HIDE DEF w, N
  <2>1. w = [i \in 0 .. N |-> IF i = 0 THEN m.fail[s] ELSE FallBack(m, w[i - 1], a)] /\ N \in Nat
    BY <1>4 DEF N
  <2>2. w[0] = m.fail[s]
    BY <2>1
  <2>3. ASSUME NEW i \in 0 .. N - 1 PROVE w[i + 1] = FallBack(m, w[i], a)
    <3>1. i + 1 \in 0 .. N /\ i + 1 # 0 /\ i + 1 - 1 = i
      BY <2>1
    <3>2. w[i + 1] = FallBack(m, w[i + 1 - 1], a)
      BY <2>1, <3>1
    <3>3. QED
      BY <3>1, <3>2
  <2>4. QED
    BY <2>2, <2>3 DEF FailTargetLoop
<1>7. QED
  <2> HIDE DEF w
  <2>1. QED
    BY <1>5, <1>6

\* It ends in the best state for what the links lead to.
LEMMA FailTargetIs ==
  ASSUME NEW m, NEW lab, NEW max, NEW hack \in BOOLEAN, Rooted(m, lab, max, hack),
         NEW s \in 1 .. m.count - 1, NEW a \in Alphabet, NEW z \in 0 .. m.count - 1, lab[z] = Append(lab[s], a),
         \A t \in 1 .. m.count - 1 : Len(lab[t]) <= Len(lab[s]) => IsFail(lab, m.count, t, m.fail[t])
  PROVE  IsFail(lab, m.count, z, FailTarget(m, s, a))
<1> DEFINE c == m.count
           d(x) == Len(lab[x])
           S == 0 .. c - 1
           Cand(p) == p \in S /\ Sfx(lab[p], lab[s]) /\ d(p) < d(s) /\ \E t \in S : lab[t] = Append(lab[p], a)
           Behind(x) == x \in S /\ Sfx(lab[x], lab[s]) /\ d(x) < d(s) /\ \A p : Cand(p) => d(p) <= d(x)
           Goes(x) == m.goto[x][a] # Fail
<1>1. /\ c \in Nat /\ c >= 1 /\ \A x \in S : lab[x] \in Text /\ d(x) \in Nat
      /\ Labels(lab, c) /\ \A x, y \in S : lab[x] = lab[y] => x = y
  <2>1. c \in Nat /\ c >= 1 /\ Labels(lab, c) /\ \A x \in S : lab[x] \in Text
    BY RootedLabels
  <2>2. \A x \in S : d(x) \in Nat
    BY <2>1, LenNonNegative
  <2>3. \A x, y \in S : lab[x] = lab[y] => x = y
    BY DEF Rooted
  <2>4. QED
    BY <2>1, <2>2, <2>3
<1>2. s \in S /\ s # 0
  <2> HIDE DEF c
  <2>1. s \in 1 .. c - 1
    BY DEF c
  <2>2. QED
    BY <1>1, <2>1
<1>3. hack => a # Hack
  <2>1. m.goto[s][a] = z /\ s < z /\ (hack => a # Hack)
    BY <1>2 DEF Rooted
  <2>2. QED
    BY <2>1
<1>4. \A x \in S : \/ m.goto[x][a] \in S /\ lab[m.goto[x][a]] = Append(lab[x], a)
                   \/ (\A t \in S : lab[t] # Append(lab[x], a)) /\ m.goto[x][a] = Fail /\ x # 0
                   \/ (\A t \in S : lab[t] # Append(lab[x], a)) /\ m.goto[x][a] = x /\ x = 0
  <2> TAKE x \in S
  <2>1. \/ m.goto[x][a] \in S /\ lab[m.goto[x][a]] = Append(lab[x], a)
        \/ /\ \A t \in S : lab[t] # Append(lab[x], a)
           /\ (m.goto[x][a] = Fail /\ x # 0) \/ (m.goto[x][a] = x /\ (x = 0 \/ (hack /\ a = Hack)))
    BY DEF Rooted
  <2>2. QED
    BY <1>3, <2>1
<1>5. \A x \in S : d(x) <= x
  BY DepthBound
<1>6. \A t \in S : t # 0 /\ d(t) <= d(s) => IsFail(lab, c, t, m.fail[t])
  <2> TAKE t \in S
  <2> HAVE t # 0 /\ d(t) <= d(s)
  <2> HIDE DEF c
  <2>1. t \in 1 .. c - 1
    BY <1>1
  <2> USE DEF c
  <2>2. QED
    BY <2>1
<1>7. PICK r : FailTargetLoop(c, r, m, s, a) /\ FailTarget(m, s, a) = m.goto[r[c]][a]
  <2>1. m.count \in Nat
    BY <1>1
  <2>2. \E r : FailTargetLoop(m.count, r, m, s, a) /\ FailTarget(m, s, a) = m.goto[r[m.count]][a]
    BY <2>1, FailTargetSteps
  <2>3. QED
    BY <2>2
<1>8. d(0) = 0 /\ 0 \in S
  BY RootIn
<1> HIDE DEF c, d, S
<1>9. Behind(m.fail[s])
  <2> DEFINE f == m.fail[s]
  <2>1. IsFail(lab, c, s, f)
    <3>1. d(s) <= d(s)
      BY <1>1, <1>2
    <3>2. QED
      BY <1>2, <1>6, <3>1
  <2> HIDE DEF f
  <2>2. f \in S /\ Sfx(lab[f], lab[s]) /\ d(f) < d(s)
    BY <2>1 DEF IsFail, S, d
  <2>3. ASSUME NEW p, Cand(p) PROVE d(p) <= d(f)
    BY <2>1, <2>3 DEF IsFail, S, d
  <2>4. Behind(f)
    BY <2>2, <2>3
  <2>5. QED
    BY <2>4 DEF f
<1>10. ASSUME NEW x, Behind(x), ~Goes(x)
       PROVE  Behind(m.fail[x]) /\ d(m.fail[x]) + 1 <= d(x)
  <2> DEFINE f == m.fail[x]
  <2>1. x \in S /\ Sfx(lab[x], lab[s]) /\ d(x) < d(s) /\ d(x) \in Nat /\ d(s) \in Nat
    BY <1>1, <1>2, <1>10
  <2>2. (\A t \in S : lab[t] # Append(lab[x], a)) /\ x # 0
    <3>1. m.goto[x][a] = Fail
      BY <1>10
    <3>2. Fail \notin S
      BY <1>1, Characters DEF S
    <3>3. CASE m.goto[x][a] = x
      BY <2>1, <3>1, <3>2, <3>3
    <3>4. CASE m.goto[x][a] # x
      BY <1>4, <2>1, <3>1, <3>2, <3>4
    <3>5. QED
      BY <3>3, <3>4
  <2>3. IsFail(lab, c, x, f)
    BY <1>6, <2>1, <2>2
  <2> HIDE DEF f
  <2>4. f \in S /\ Sfx(lab[f], lab[x]) /\ d(f) < d(x) /\ d(f) \in Nat
    BY <1>1, <2>3 DEF IsFail, S, d
  <2>5. Sfx(lab[f], lab[s])
    <3>1. lab[f] \in Seq(Alphabet) /\ lab[x] \in Seq(Alphabet) /\ lab[s] \in Seq(Alphabet)
      BY <1>1, <1>2, <2>1, <2>4 DEF Text
    <3>2. QED
      BY <2>1, <2>4, <3>1, SfxThrough
  <2>6. ASSUME NEW p, Cand(p) PROVE d(p) <= d(f)
    <3>1. p \in S /\ Sfx(lab[p], lab[s]) /\ d(p) <= d(x) /\ d(p) \in Nat
      BY <1>1, <1>10, <2>6
    <3>2. lab[p] \in Seq(Alphabet) /\ lab[x] \in Seq(Alphabet) /\ lab[s] \in Seq(Alphabet)
      BY <1>1, <1>2, <2>1, <3>1 DEF Text
    <3>3. Sfx(lab[p], lab[x])
      BY <2>1, <3>1, <3>2, SfxNested DEF d
    <3>4. p # x
      BY <2>2, <2>6
    <3>5. d(p) # d(x)
      <4>1. CASE d(p) = d(x)
        <5>1. lab[p] = lab[x]
          BY <3>2, <3>3, <4>1, SfxWhole DEF d
        <5>2. QED
          BY <1>1, <2>1, <3>1, <3>4, <5>1
      <4>2. QED
        BY <4>1
    <3>6. d(p) < d(x)
      BY <2>1, <3>1, <3>5
    <3>7. QED
      BY <2>3, <3>1, <3>3, <3>6 DEF IsFail, S, d
  <2>7. d(f) < d(s) /\ d(f) + 1 <= d(x)
    BY <2>1, <2>4
  <2>8. Behind(f)
    BY <2>4, <2>5, <2>6, <2>7
  <2>9. QED
    BY <2>7, <2>8 DEF f
<1> HIDE DEF Behind, Goes
<1> DEFINE T == {n \in 0 .. c : Behind(r[n]) /\ (Goes(r[n]) \/ d(r[n]) + n <= c - 1)}
<1>11. 0 \in T
  <2>1. r[0] = m.fail[s] /\ 0 \in 0 .. c
    BY <1>1, <1>7 DEF FailTargetLoop
  <2>2. Behind(r[0])
    BY <1>9, <2>1
  <2>3. r[0] \in S
    BY <2>2 DEF Behind
  <2>4. d(r[0]) <= r[0] /\ d(r[0]) \in Nat /\ r[0] \in 0 .. c - 1
    BY <1>1, <1>5, <2>3 DEF S
  <2>5. d(r[0]) + 0 <= c - 1
    <3> DEFINE x == r[0]
               y == d(x)
    <3>1. y <= x /\ y \in Nat /\ x \in 0 .. c - 1
      BY <2>4
    <3> HIDE DEF x, y
    <3>2. y + 0 <= c - 1
      BY <1>1, <3>1
    <3>3. QED
      BY <3>2 DEF x, y
  <2>6. QED
    BY <2>1, <2>2, <2>5
<1>12. ASSUME NEW n \in 0 .. c - 1, n \in T PROVE n + 1 \in T
  <2> DEFINE x == r[n]
  <2>1. r[n + 1] = FallBack(m, x, a) /\ n + 1 \in 0 .. c
    BY <1>1, <1>7 DEF FailTargetLoop
  <2>2. Behind(x) /\ (Goes(x) \/ d(x) + n <= c - 1)
    BY <1>12
  <2> HIDE DEF x
  <2>3. CASE Goes(x)
    <3>1. r[n + 1] = x
      BY <2>1, <2>3 DEF FallBack, Goes
    <3>2. QED
      BY <2>1, <2>2, <2>3, <3>1
  <2>4. CASE ~Goes(x)
    <3> DEFINE f == m.fail[x]
    <3>1. r[n + 1] = f
      BY <2>1, <2>4 DEF FallBack, Goes
    <3>2. Behind(f) /\ d(f) + 1 <= d(x)
      BY <1>10, <2>2, <2>4
    <3> HIDE DEF f
    <3>3. f \in S /\ x \in S
      BY <2>2, <3>2 DEF Behind
    <3>4. d(f) \in Nat /\ d(x) \in Nat
      BY <1>1, <3>3
    <3>5. d(f) + (n + 1) <= c - 1
      BY <1>1, <2>2, <2>4, <3>2, <3>4
    <3>6. QED
      BY <2>1, <3>1, <3>2, <3>5
  <2>5. QED
    BY <2>3, <2>4
<1>13. c \in T
  <2> HIDE DEF T
  <2>1. 0 .. c \subseteq T
    BY <1>1, <1>11, <1>12, UpTo
  <2>2. QED
    BY <1>1, <2>1
<1> DEFINE f == r[c]
           g == m.goto[f][a]
<1>14. Behind(f) /\ (Goes(f) \/ d(f) + c <= c - 1)
  BY <1>13
<1> HIDE DEF f
<1>15. f \in S /\ d(f) \in Nat /\ Sfx(lab[f], lab[s]) /\ d(f) < d(s) /\ \A p : Cand(p) => d(p) <= d(f)
  BY <1>1, <1>14 DEF Behind
<1>16. g # Fail
  BY <1>1, <1>14, <1>15 DEF Goes
<1>17. lab[f] \in Text /\ lab[s] \in Text /\ d(s) \in Nat /\ lab[z] \in Text /\ d(z) = d(s) + 1 /\ z \in S
  <2>1. z \in S
    BY DEF S, c
  <2>2. lab[s] \in Text
    BY <1>1, <1>2
  <2>3. Len(Append(lab[s], a)) = Len(lab[s]) + 1
    BY <2>2, Appended
  <2>4. QED
    BY <1>1, <1>2, <1>15, <2>1, <2>2, <2>3 DEF d
<1>21. ASSUME NEW t \in S, Sfx(lab[t], lab[z]), d(t) < d(z), lab[t] # <<>>
       PROVE  \E p : Cand(p) /\ lab[t] = Append(lab[p], a) /\ d(t) = d(p) + 1
  <2>1. \E p \in 0 .. c - 1 : lab[t] = Append(lab[p], a) /\ Sfx(lab[p], lab[s])
    <3>1. Labels(lab, c) /\ lab[s] \in Text /\ t \in 0 .. c - 1 /\ Sfx(lab[t], Append(lab[s], a)) /\ lab[t] # <<>>
      BY <1>1, <1>17, <1>21 DEF S
    <3>2. QED
      BY <3>1, LabelShorter
  <2>2. PICK p \in S : lab[t] = Append(lab[p], a) /\ Sfx(lab[p], lab[s])
    BY <2>1 DEF S
  <2>3. lab[p] \in Text /\ d(p) \in Nat
    BY <1>1
  <2>4. d(t) = d(p) + 1
    <3>1. Len(Append(lab[p], a)) = Len(lab[p]) + 1
      BY <2>3, Appended
    <3>2. QED
      BY <2>2, <3>1 DEF d
  <2>5. d(p) < d(s)
    BY <1>17, <1>21, <2>3, <2>4
  <2>6. QED
    BY <2>2, <2>4, <2>5
<1> HIDE DEF g
<1>18. CASE g \in S /\ lab[g] = Append(lab[f], a)
  <2>1. Sfx(lab[g], lab[z])
    <3>1. Sfx(Append(lab[f], a), Append(lab[s], a))
      BY <1>15, <1>17, SfxLonger DEF Text
    <3>2. QED
      BY <1>18, <3>1
  <2>2. d(g) = d(f) + 1
    <3>1. Len(Append(lab[f], a)) = Len(lab[f]) + 1
      BY <1>17, Appended
    <3>2. QED
      BY <1>18, <3>1 DEF d
  <2>3. d(g) < d(z)
    BY <1>15, <1>17, <2>2
  <2>4. ASSUME NEW t \in S, Sfx(lab[t], lab[z]), d(t) < d(z) PROVE d(t) <= d(g)
    <3>1. CASE lab[t] = <<>>
      <4>1. d(t) = 0
        BY <3>1 DEF d
      <4>2. QED
        BY <1>15, <2>2, <4>1
    <3>2. CASE lab[t] # <<>>
      <4>1. PICK p : Cand(p) /\ d(t) = d(p) + 1
        BY <1>21, <2>4, <3>2
      <4>2. d(p) <= d(f) /\ d(p) \in Nat
        BY <1>1, <1>15, <4>1
      <4>3. QED
        BY <1>15, <2>2, <4>1, <4>2
    <3>3. QED
      BY <3>1, <3>2
  <2>5. IsFail(lab, c, z, g)
    BY <1>18, <2>1, <2>3, <2>4 DEF IsFail, S, d
  <2>6. QED
    BY <1>7, <2>5 DEF c, g, f
<1>19. CASE (\A t \in S : lab[t] # Append(lab[f], a)) /\ g = f /\ f = 0
  <2>0. g = 0 /\ g \in S /\ d(g) = 0
    BY <1>8, <1>19
  <2>1. Sfx(lab[g], lab[z])
    <3>1. lab[g] = <<>>
      BY <2>0 DEF Rooted
    <3>2. QED
      BY <1>17, <3>1, SfxEmpty DEF Text
  <2>2. d(g) < d(z)
    BY <1>17, <2>0
  <2>3. ASSUME NEW t \in S, Sfx(lab[t], lab[z]), d(t) < d(z) PROVE d(t) <= d(g)
    <3>1. CASE lab[t] = <<>>
      <4>1. d(t) = 0
        BY <3>1 DEF d
      <4>2. QED
        BY <2>0, <4>1
    <3>2. CASE lab[t] # <<>>
      <4>1. PICK p : Cand(p) /\ lab[t] = Append(lab[p], a) /\ d(t) = d(p) + 1
        BY <1>21, <2>3, <3>2
      <4>2. p \in S /\ d(p) <= d(f) /\ d(p) \in Nat /\ d(f) = 0
        BY <1>1, <1>8, <1>15, <1>19, <4>1
      <4>3. d(p) = 0
        BY <4>2
      <4>4. lab[p] = <<>>
        BY <1>1, <4>2, <4>3, LenNonNegative DEF d
      <4>5. lab[p] = lab[f]
        BY <1>19, <4>4 DEF Rooted
      <4>6. QED
        BY <1>19, <4>1, <4>5
    <3>3. QED
      BY <3>1, <3>2
  <2>4. IsFail(lab, c, z, g)
    BY <2>0, <2>1, <2>2, <2>3 DEF IsFail, S, d
  <2>5. QED
    BY <1>7, <2>4 DEF c, g, f
<1>20. QED
  BY <1>4, <1>15, <1>16, <1>18, <1>19 DEF g

Hits(sm, v) == {i \in 1 .. Len(sm.patterns) : Sfx(PatternWord(sm.patterns[i]), v)}

Own(sm, v) == {i \in 1 .. Len(sm.patterns) : PatternWord(sm.patterns[i]) = v}

Given(m, o, n, t) == t = 0 \/ t \in NextStates(m, 0) \/ \E i \in 1 .. n : t \in NextStates(m, o[i])

\* What holds of the labels from here on.
Vocabulary(sm, lab, c) ==
  /\ \A i \in 1 .. Len(sm.patterns) : \E s \in 0 .. c - 1 : lab[s] = PatternWord(sm.patterns[i])
  /\ \A s \in 0 .. c - 1 : Elements(lab[s]) \subseteq Used(sm)
  /\ sm.begin => c >= 2 /\ lab[1] = <<AnchorStart>>

\* After n turns, the states below the first n have got their way back and the
\* matches of their suffixes.
Failing(sm, m, lab, o, n) ==
  /\ Rooted(m, lab, StateMax(sm.patterns), Hacked(sm)) /\ Ordered(m, lab, o) /\ Vocabulary(sm, lab, m.count)
  /\ \A t \in 0 .. m.count - 1 : NoTwice(m.match[t])
  /\ \A t \in 1 .. m.count - 1 : Given(m, o, n, t) => IsFail(lab, m.count, t, m.fail[t])
  /\ \A t \in 0 .. m.count - 1 : Given(m, o, n, t) => Elements(m.match[t]) = Hits(sm, lab[t])
  /\ \A t \in 0 .. m.count - 1 : ~Given(m, o, n, t) => Elements(m.match[t]) = Own(sm, lab[t])

\* A pattern with its anchors is not empty.
LEMMA WordLong ==
  ASSUME NEW sm, Registered(sm), NEW i \in 1 .. Len(sm.patterns)
  PROVE  PatternWord(sm.patterns[i]) \in Text /\ Len(PatternWord(sm.patterns[i])) >= 1 /\ Len(PatternWord(sm.patterns[i])) \in Nat
<1> DEFINE p == sm.patterns[i]
           u == Upto(p, Len(p.text))
<1>1. i \in DOMAIN sm.patterns
  BY DEF Registered
<1>2. p \in PatternSet /\ p.text # <<>>
  BY <1>1, RegisteredPattern DEF PatternFits
<1>3. Len(p.text) \in Nat /\ Len(p.text) >= 1 /\ Lead(p) \in Text
  <2>1. p.text \in Text /\ Lead(p) \in Text
    BY <1>2, LeadText
  <2>2. QED
    BY <1>2, <2>1, LenNonNegative
<1>4. u \in Text /\ Len(u) = Len(Lead(p)) + Len(p.text)
  <2>1. Len(p.text) \in 0 .. Len(p.text)
    BY <1>3
  <2>2. QED
    BY <1>2, <2>1, UptoText
<1>5. Len(Lead(p)) \in Nat
  BY <1>3, LenNonNegative
<1>6. Len(u) >= 1
  <2> DEFINE x == Len(Lead(p))
             y == Len(p.text)
             w == Len(u)
  <2>1. x \in Nat /\ y \in Nat /\ y >= 1 /\ w = x + y
    BY <1>3, <1>4, <1>5
  <2> HIDE DEF x, y, w
  <2>2. w >= 1
    BY <2>1
  <2>3. QED
    BY <2>2 DEF w
<1>7. PatternWord(p) \in Text /\ Len(PatternWord(p)) \in Nat
  BY <1>2, WordText, LenNonNegative
<1>8. Len(PatternWord(p)) >= 1
  <2>1. CASE p.end
    <3>1. PatternWord(p) = Append(u, AnchorEnd)
      BY <2>1 DEF PatternWord
    <3> HIDE DEF u
    <3>2. Len(Append(u, AnchorEnd)) = Len(u) + 1 /\ Len(u) \in Nat
      BY <1>4, Characters, Appended, LenNonNegative
    <3>3. QED
      BY <3>1, <3>2
  <2>2. CASE ~p.end
    BY <1>6, <2>2 DEF PatternWord
  <2>3. QED
    BY <2>1, <2>2
<1>9. QED
  BY <1>7, <1>8

\* Failure links and matches have no part in the labels.
LEMMA RootedSame ==
  ASSUME NEW m, NEW g, NEW lab, NEW max, NEW hack, Rooted(m, lab, max, hack),
         g \in Tables(max), g.goto = m.goto, g.count = m.count
  PROVE  Rooted(g, lab, max, hack)
BY DEF Rooted

\* A text of one character ends in no pattern but itself.
LEMMA HitsShort ==
  ASSUME NEW sm, Registered(sm), NEW v \in Text, Len(v) <= 1
  PROVE  Hits(sm, v) = Own(sm, v)
<1>1. ASSUME NEW i \in 1 .. Len(sm.patterns) PROVE Sfx(PatternWord(sm.patterns[i]), v) <=> PatternWord(sm.patterns[i]) = v
  <2> DEFINE w == PatternWord(sm.patterns[i])
  <2>1. w \in Text /\ Len(w) >= 1 /\ Len(w) \in Nat /\ Len(v) \in Nat
    BY WordLong, LenNonNegative
  <2> HIDE DEF w
  <2>2. ASSUME Sfx(w, v) PROVE w = v
    <3>1. Len(w) = Len(v)
      BY <2>1, <2>2 DEF Sfx
    <3>2. QED
      BY <2>1, <2>2, <3>1, SfxWhole DEF Text
  <2>3. ASSUME w = v PROVE Sfx(w, v)
    BY <2>3, SfxSelf DEF Text
  <2>4. QED
    BY <2>2, <2>3 DEF w
<1>2. QED
  BY <1>1 DEF Hits, Own

\* What holds before the first failure link is set.
LEMMA FailingFirst ==
  ASSUME NEW sm, Registered(sm), NEW m, NEW lab, Planted(sm, m, lab), NEW o, Ordered(m, lab, o)
  PROVE  Failing(sm, m, lab, o, 0)
<1> DEFINE c == m.count
           max == StateMax(sm.patterns)
<1>1. Rooted(m, lab, max, Hacked(sm)) /\ Vocabulary(sm, lab, m.count)
  BY DEF Planted, Vocabulary, Begun
<1>2. c \in Nat /\ c >= 1 /\ c <= max /\ max \in Nat /\ \A x \in 0 .. c - 1 : lab[x] \in Text
  BY <1>1, RootedLabels
<1>3. \A t \in 0 .. c - 1 : NoTwice(m.match[t]) /\ Elements(m.match[t]) = Own(sm, lab[t])
  BY DEF Planted, Own
<1>4. 0 \in 0 .. c - 1 /\ lab[0] \in Text /\ Len(lab[0]) = 0 /\ lab[0] = <<>>
  <2>1. 0 \in 0 .. c - 1 /\ lab[0] \in Text /\ Len(lab[0]) = 0
    BY <1>1, RootIn
  <2>2. lab[0] = <<>>
    BY <1>1 DEF Rooted
  <2>3. QED
    BY <2>1, <2>2
<1>5. \A t \in 0 .. max - 1 : m.fail[t] = 0
  BY DEF Planted
<1>6. ASSUME NEW t \in 0 .. c - 1, Given(m, o, 0, t) PROVE Len(lab[t]) <= 1 /\ (t # 0 => Len(lab[t]) = 1)
  <2>1. CASE t = 0
    BY <1>4, <2>1
  <2>2. CASE t \in NextStates(m, 0)
    <3> DEFINE z == 0
    <3>1. z \in 0 .. c - 1 /\ t \in NextStates(m, z)
      BY <1>4, <2>2
    <3> HIDE DEF z
    <3>2. Len(lab[t]) = Len(lab[z]) + 1
      BY <1>1, <3>1, NextStatesAre
    <3>3. QED
      BY <1>4, <3>2 DEF z
  <2>3. 1 .. 0 = {}
    OBVIOUS
  <2>4. QED
    BY <1>6, <2>1, <2>2, <2>3 DEF Given
<1>7. ASSUME NEW t \in 0 .. c - 1, Given(m, o, 0, t) PROVE Elements(m.match[t]) = Hits(sm, lab[t])
  <2>1. lab[t] \in Text /\ Len(lab[t]) <= 1
    BY <1>2, <1>6, <1>7
  <2>2. QED
    BY <1>3, <2>1, HitsShort
<1>8. ASSUME NEW t \in 1 .. c - 1, Given(m, o, 0, t) PROVE IsFail(lab, c, t, m.fail[t])
  <2>1. t \in 0 .. c - 1 /\ t \in 0 .. max - 1 /\ t # 0
    <3> HIDE DEF c, max
    <3>1. QED
      BY <1>2
  <2>2. m.fail[t] = 0 /\ Len(lab[t]) = 1 /\ lab[t] \in Text
    BY <1>2, <1>5, <1>6, <1>8, <2>1
  <2>3. Sfx(lab[0], lab[t])
    BY <1>4, <2>2, SfxEmpty DEF Text
  <2>4. ASSUME NEW x \in 0 .. c - 1, Len(lab[x]) < 1 PROVE Len(lab[x]) <= 0
    <3>1. lab[x] \in Text
      BY <1>2
    <3>2. Len(lab[x]) \in Nat
      BY <3>1, LenNonNegative
    <3>3. QED
      BY <2>4, <3>2
  <2> HIDE DEF c
  <2>5. IsFail(lab, c, t, 0)
    BY <1>4, <2>2, <2>3, <2>4 DEF IsFail
  <2>6. QED
    BY <2>2, <2>5
<1>9. QED
  BY <1>1, <1>3, <1>7, <1>8 DEF Failing

\* What a turn of smack_stage1_generate_fails() changes.
LEMMA GiveFailsIs ==
  ASSUME NEW max \in Nat, NEW m \in Tables(max), NEW s,
         \A z \in NextStates(m, s) : FailOf(m, s, z) \in 0 .. max - 1 /\ z \in 0 .. max - 1
                                     /\ CopyMatches(m.match[z], m.match[FailOf(m, s, z)]) \in Seq(Nat)
  PROVE  /\ GiveFails(m, s) \in Tables(max)
         /\ GiveFails(m, s).goto = m.goto /\ GiveFails(m, s).count = m.count
         /\ \A t \in 0 .. max - 1 :
              /\ GiveFails(m, s).fail[t] = IF t \in NextStates(m, s) THEN FailOf(m, s, t) ELSE m.fail[t]
              /\ GiveFails(m, s).match[t] =
                    IF t \in NextStates(m, s) THEN CopyMatches(m.match[t], m.match[FailOf(m, s, t)]) ELSE m.match[t]
<1> DEFINE K == NextStates(m, s)
           F(z) == FailOf(m, s, z)
           C(z) == CopyMatches(m.match[z], m.match[F(z)])
           f == [z \in 0 .. max - 1 |-> IF z \in K THEN F(z) ELSE m.fail[z]]
           h == [z \in 0 .. max - 1 |-> IF z \in K THEN C(z) ELSE m.match[z]]
           g == [m EXCEPT !.fail = f, !.match = h]
<1>1. /\ m.match \in [0 .. max - 1 -> Seq(Nat)] /\ m.fail \in [0 .. max - 1 -> 0 .. max - 1]
      /\ DOMAIN m.match = 0 .. max - 1 /\ DOMAIN m.fail = 0 .. max - 1
  BY TablesAre
<1>2. GiveFails(m, s) = g
  BY <1>1 DEF GiveFails, Tables
<1>3. \A z \in K : F(z) \in 0 .. max - 1 /\ C(z) \in Seq(Nat)
  OBVIOUS
<1> HIDE DEF K, F, C
<1>4. f \in [0 .. max - 1 -> 0 .. max - 1]
  BY <1>1, <1>3
<1>5. h \in [0 .. max - 1 -> Seq(Nat)]
  BY <1>1, <1>3
<1>6. \A t \in 0 .. max - 1 : f[t] = (IF t \in K THEN F(t) ELSE m.fail[t]) /\ h[t] = (IF t \in K THEN C(t) ELSE m.match[t])
  OBVIOUS
<1> HIDE DEF f, h
<1>7. g \in Tables(max) /\ g.fail = f /\ g.match = h /\ g.goto = m.goto /\ g.count = m.count
  BY <1>4, <1>5 DEF Tables
<1> HIDE DEF g
<1>8. QED
  BY <1>2, <1>6, <1>7 DEF K, F, C

\* The link it sets is to the longest shorter label.
LEMMA FailOfIs ==
  ASSUME NEW m, NEW lab, NEW max, NEW hack \in BOOLEAN, Rooted(m, lab, max, hack),
         NEW s \in 1 .. m.count - 1, NEW z \in NextStates(m, s),
         \A t \in 1 .. m.count - 1 : Len(lab[t]) <= Len(lab[s]) => IsFail(lab, m.count, t, m.fail[t])
  PROVE  IsFail(lab, m.count, z, FailOf(m, s, z))
<1> DEFINE a == CHOOSE x \in Alphabet : m.goto[s][x] = z
<1>1. a \in Alphabet /\ m.goto[s][a] = z /\ z # Fail /\ z # s
  BY DEF NextStates
<1>2. FailOf(m, s, z) = FailTarget(m, s, a)
  BY DEF FailOf
<1> HIDE DEF a
<1>3. s \in 0 .. m.count - 1 /\ s # 0
  <2>1. m.count \in Nat
    BY RootedLabels
  <2>2. QED
    BY <2>1
<1>4. z \in 0 .. m.count - 1 /\ lab[z] = Append(lab[s], a)
  BY <1>1, <1>3 DEF Rooted
<1>5. IsFail(lab, m.count, z, FailTarget(m, s, a))
  BY <1>1, <1>4, FailTargetIs
<1>6. QED
  BY <1>2, <1>5

\* The states that have their links after one more turn.
LEMMA GivenNext ==
  ASSUME NEW m, NEW o, NEW n \in Nat, NEW t
  PROVE  Given(m, o, n + 1, t) <=> Given(m, o, n, t) \/ t \in NextStates(m, o[n + 1])
<1>1. \A i : i \in 1 .. n + 1 <=> i \in 1 .. n \/ i = n + 1
  OBVIOUS
<1>2. QED
  BY <1>1 DEF Given

\* A turn concerns states that had none.
LEMMA GivenSame ==
  ASSUME NEW m, NEW g, g.goto = m.goto, NEW o, NEW n, NEW t
  PROVE  Given(g, o, n, t) <=> Given(m, o, n, t)
<1>1. \A s : NextStates(g, s) = NextStates(m, s)
  BY DEF NextStates
<1>2. QED
  BY <1>1 DEF Given

\* The head of the queue is a state.
LEMMA InOrder ==
  ASSUME NEW m, NEW lab, NEW o, Ordered(m, lab, o), m.count \in Nat, NEW i \in 1 .. Len(o)
  PROVE  /\ Len(o) \in Nat /\ DOMAIN o = 1 .. Len(o)
         /\ o[i] \in 1 .. m.count - 1 /\ o[i] \in 0 .. m.count - 1 /\ o[i] # 0
<1>1. o \in Seq(1 .. m.count - 1)
  BY DEF Ordered
<1>2. Len(o) \in Nat /\ DOMAIN o = 1 .. Len(o) /\ o[i] \in 1 .. m.count - 1
  BY <1>1
<1>3. QED
  BY <1>2

\* A state whose label is shorter than the head's next has its link already.
LEMMA EarlierGiven ==
  ASSUME NEW m, NEW lab, NEW max, NEW hack, Rooted(m, lab, max, hack), NEW o, Ordered(m, lab, o),
         NEW n \in Nat, n + 1 <= Len(o), NEW t \in 1 .. m.count - 1, Len(lab[t]) <= Len(lab[o[n + 1]])
  PROVE  Given(m, o, n, t)
<1> DEFINE c == m.count
<1>1. c \in Nat /\ c >= 1 /\ \A x \in 0 .. c - 1 : lab[x] \in Text
  BY RootedLabels
<1>2. Len(o) \in Nat
  BY DEF Ordered
<1>3. n + 1 \in 1 .. Len(o)
  BY <1>2
<1>4. o[n + 1] \in 0 .. c - 1
  BY <1>1, <1>3, InOrder
<1>5. PICK s \in 0 .. t - 1, a \in Alphabet : lab[t] = Append(lab[s], a)
  BY DEF Rooted
<1>6. s \in 0 .. c - 1 /\ t \in 0 .. c - 1
  BY <1>1
<1>7. t \in NextStates(m, s)
  BY <1>5, <1>6, NextStatesAre
<1>8. lab[s] \in Text /\ lab[o[n + 1]] \in Text /\ Len(lab[t]) = Len(lab[s]) + 1
  BY <1>1, <1>4, <1>6, <1>7, NextStatesAre
<1>9. Len(lab[s]) \in Nat /\ Len(lab[o[n + 1]]) \in Nat
  BY <1>8, LenNonNegative
<1>10. Len(lab[s]) < Len(lab[o[n + 1]])
  <2> DEFINE x == Len(lab[s])
             y == Len(lab[o[n + 1]])
             w == Len(lab[t])
  <2>1. x \in Nat /\ y \in Nat /\ w = x + 1 /\ w <= y
    BY <1>8, <1>9
  <2> HIDE DEF x, y, w
  <2>2. x < y
    BY <2>1
  <2>3. QED
    BY <2>2 DEF x, y
<1>11. CASE s = 0
  BY <1>7, <1>11 DEF Given
<1>12. CASE s # 0
  <2>1. s \in 1 .. c - 1
    BY <1>1, <1>6, <1>12
  <2>2. PICK i \in 1 .. Len(o) : o[i] = s
    BY <2>1 DEF Ordered
  <2>3. ASSUME n + 1 <= i PROVE FALSE
    <3>1. Len(lab[o[n + 1]]) <= Len(lab[o[i]])
      BY <1>3, <2>3 DEF Ordered
    <3>2. QED
      BY <1>9, <1>10, <2>2, <3>1
  <2>4. i \in 1 .. n
    BY <1>2, <2>3
  <2>5. QED
    BY <1>7, <2>2, <2>4 DEF Given
<1>13. QED
  BY <1>11, <1>12

\* The states below the head have none yet.
LEMMA NotYetGiven ==
  ASSUME NEW m, NEW lab, NEW max, NEW hack, Rooted(m, lab, max, hack), NEW o, Ordered(m, lab, o),
         NEW n \in Nat, n + 1 <= Len(o), NEW z \in NextStates(m, o[n + 1])
  PROVE  ~Given(m, o, n, z)
<1> DEFINE c == m.count
           s == o[n + 1]
<1>1. c \in Nat /\ c >= 1
  BY RootedLabels
<1>2. Len(o) \in Nat
  BY DEF Ordered
<1>3. n + 1 \in 1 .. Len(o)
  BY <1>2
<1>4. s \in 0 .. c - 1 /\ s # 0
  BY <1>1, <1>3, InOrder
<1> HIDE DEF s
<1>5. z \in 1 .. c - 1 /\ z \in NextStates(m, s)
  BY <1>4, NextStatesAre DEF s
<1>6. z # 0
  BY <1>1, <1>5
<1>7. ASSUME z \in NextStates(m, 0) PROVE FALSE
  <2> DEFINE q == 0
  <2>1. q \in 0 .. c - 1 /\ z \in NextStates(m, q)
    BY <1>7, RootIn
  <2> HIDE DEF q
  <2>2. s = q
    BY <1>4, <1>5, <2>1, OneParent
  <2>3. QED
    BY <1>4, <2>2 DEF q
<1>8. ASSUME NEW i \in 1 .. n, z \in NextStates(m, o[i]) PROVE FALSE
  <2>1. i \in 1 .. Len(o) /\ i # n + 1
    BY <1>2
  <2>2. o[i] \in 0 .. c - 1 /\ DOMAIN o = 1 .. Len(o)
    BY <1>1, <2>1, InOrder
  <2>3. s = o[i]
    BY <1>4, <1>5, <1>8, <2>2, OneParent
  <2>4. NoTwice(o)
    BY DEF Ordered
  <2>5. QED
    BY <1>3, <2>1, <2>2, <2>3, <2>4 DEF NoTwice, s
<1>9. QED
  BY <1>6, <1>7, <1>8 DEF Given

\* What the text of a state ends in: the state's own word, or what the text of
\* the way back ends in.
LEMMA HitsOf ==
  ASSUME NEW sm, Registered(sm), NEW lab, NEW c, Labels(lab, c), Vocabulary(sm, lab, c),
         NEW z \in 0 .. c - 1, NEW f, IsFail(lab, c, z, f)
  PROVE  Hits(sm, lab[z]) = Own(sm, lab[z]) \cup Hits(sm, lab[f])
<1>1. lab[z] \in Text /\ lab[f] \in Text /\ f \in 0 .. c - 1 /\ Sfx(lab[f], lab[z])
  BY DEF Labels, IsFail
<1> DEFINE v == lab[z]
           u == lab[f]
<1>2. v \in Text /\ u \in Text /\ Sfx(u, v) /\ Len(v) \in Nat /\ Len(u) \in Nat
  BY <1>1, LenNonNegative
<1>3. ASSUME NEW i \in 1 .. Len(sm.patterns), Sfx(PatternWord(sm.patterns[i]), v), PatternWord(sm.patterns[i]) # v
      PROVE  Sfx(PatternWord(sm.patterns[i]), u)
  <2> DEFINE w == PatternWord(sm.patterns[i])
  <2>1. PICK t \in 0 .. c - 1 : lab[t] = w
    BY DEF Vocabulary
  <2>2. w \in Text /\ Len(w) \in Nat
    BY WordLong
  <2>3. Len(w) < Len(v)
    <3>1. Len(w) <= Len(v)
      BY <1>3 DEF Sfx
    <3>2. Len(w) # Len(v)
      BY <1>2, <1>3, <2>2, SfxWhole DEF Text
    <3>3. QED
      BY <1>2, <2>2, <3>1, <3>2
  <2>4. Len(w) <= Len(u)
    BY <1>3, <2>1, <2>3 DEF IsFail
  <2> HIDE DEF w, u, v
  <2>5. Sfx(w, u)
    BY <1>2, <1>3, <2>2, <2>4, SfxNested DEF Text, w
  <2>6. QED
    BY <2>5 DEF w
<1>4. ASSUME NEW i \in 1 .. Len(sm.patterns), Sfx(PatternWord(sm.patterns[i]), u)
      PROVE  Sfx(PatternWord(sm.patterns[i]), v)
  <2>1. PatternWord(sm.patterns[i]) \in Text
    BY WordLong
  <2> HIDE DEF u, v
  <2>2. QED
    BY <1>2, <1>4, <2>1, SfxThrough DEF Text
<1>5. ASSUME NEW i \in 1 .. Len(sm.patterns), PatternWord(sm.patterns[i]) = v PROVE Sfx(PatternWord(sm.patterns[i]), v)
  <2>1. PatternWord(sm.patterns[i]) \in Text
    BY WordLong
  <2>2. QED
    BY <1>5, <2>1, SfxSelf DEF Text
<1>6. QED
  BY <1>3, <1>4, <1>5 DEF Hits, Own

\* A turn keeps what holds of links and matches.
LEMMA FailingNext ==
  ASSUME NEW sm, Registered(sm), NEW m, NEW lab, NEW o, NEW n \in Nat, n + 1 <= Len(o), Failing(sm, m, lab, o, n)
  PROVE  /\ Failing(sm, GiveFails(m, o[n + 1]), lab, o, n + 1)
         /\ GiveFails(m, o[n + 1]).goto = m.goto /\ GiveFails(m, o[n + 1]).count = m.count
<1> DEFINE c == m.count
           max == StateMax(sm.patterns)
           s == o[n + 1]
           g == GiveFails(m, s)
           hack == Hacked(sm)
<1>1. Rooted(m, lab, max, hack) /\ Ordered(m, lab, o) /\ Vocabulary(sm, lab, c) /\ hack \in BOOLEAN
  BY DEF Failing, Hacked
<1>2. c \in Nat /\ c >= 1 /\ c <= max /\ max \in Nat /\ (\A x \in 0 .. c - 1 : lab[x] \in Text) /\ Labels(lab, c) /\ m \in Tables(max)
  BY <1>1, RootedLabels
<1>3. Len(o) \in Nat /\ n + 1 \in 1 .. Len(o)
  BY <1>1 DEF Ordered
<1>4. s \in 1 .. c - 1 /\ s \in 0 .. c - 1
  BY <1>1, <1>2, <1>3, InOrder
<1>5. \A t \in 1 .. c - 1 : Len(lab[t]) <= Len(lab[s]) => Given(m, o, n, t)
  BY <1>1, EarlierGiven
<1>6. \A t \in 1 .. c - 1 : Len(lab[t]) <= Len(lab[s]) => IsFail(lab, c, t, m.fail[t])
  BY <1>5 DEF Failing
<1>7. ASSUME NEW z \in NextStates(m, s)
      PROVE  z \in 1 .. c - 1 /\ z \in 0 .. c - 1 /\ IsFail(lab, c, z, FailOf(m, s, z)) /\ ~Given(m, o, n, z)
             /\ Len(lab[z]) = Len(lab[s]) + 1
  <2>1. IsFail(lab, c, z, FailOf(m, s, z))
    BY <1>1, <1>4, <1>6, FailOfIs
  <2>2. ~Given(m, o, n, z)
    BY <1>1, <1>3, NotYetGiven
  <2>3. z \in 1 .. c - 1 /\ z \in 0 .. c - 1 /\ Len(lab[z]) = Len(lab[s]) + 1
    BY <1>1, <1>4, NextStatesAre
  <2>4. QED
    BY <2>1, <2>2, <2>3
<1>8. m.match \in [0 .. max - 1 -> Seq(Nat)]
  BY <1>2, TablesAre
<1>9. ASSUME NEW z \in NextStates(m, s)
      PROVE  /\ FailOf(m, s, z) \in 0 .. c - 1
             /\ CopyMatches(m.match[z], m.match[FailOf(m, s, z)]) \in Seq(Nat)
             /\ NoTwice(CopyMatches(m.match[z], m.match[FailOf(m, s, z)]))
             /\ Elements(CopyMatches(m.match[z], m.match[FailOf(m, s, z)])) = Hits(sm, lab[z])
  <2> DEFINE f == FailOf(m, s, z)
  <2> HIDE DEF f
  <2>1. IsFail(lab, c, z, f) /\ z \in 0 .. c - 1 /\ ~Given(m, o, n, z)
    BY <1>7 DEF f
  <2>2. f \in 0 .. c - 1 /\ Len(lab[f]) < Len(lab[z])
    BY <2>1 DEF IsFail
  <2>3. Given(m, o, n, f)
    <3>1. CASE f = 0
      BY <3>1 DEF Given
    <3>2. CASE f # 0
      <4>1. lab[f] \in Text /\ lab[s] \in Text
        BY <1>2, <1>4, <2>2
      <4>2. Len(lab[f]) <= Len(lab[s])
        <5>1. Len(lab[f]) \in Nat /\ Len(lab[s]) \in Nat /\ Len(lab[z]) = Len(lab[s]) + 1
          BY <1>7, <4>1, LenNonNegative
        <5>2. QED
          BY <2>2, <5>1
      <4>3. f \in 1 .. c - 1
        <5> HIDE DEF c
        <5>1. QED
          BY <1>2, <2>2, <3>2
      <4>4. QED
        BY <1>5, <4>2, <4>3
    <3>3. QED
      BY <3>1, <3>2
  <2>4. Elements(m.match[f]) = Hits(sm, lab[f]) /\ Elements(m.match[z]) = Own(sm, lab[z])
        /\ NoTwice(m.match[f]) /\ NoTwice(m.match[z])
    BY <2>1, <2>2, <2>3 DEF Failing
  <2>5. z \in 0 .. max - 1 /\ f \in 0 .. max - 1
    <3> HIDE DEF c, max
    <3>1. QED
      BY <1>2, <2>1, <2>2
  <2>6. m.match[z] \in Seq(Nat) /\ m.match[f] \in Seq(Nat)
    BY <1>8, <2>5
  <2>7. /\ CopyMatches(m.match[z], m.match[f]) \in Seq(Nat)
        /\ NoTwice(CopyMatches(m.match[z], m.match[f]))
        /\ Elements(CopyMatches(m.match[z], m.match[f])) = Elements(m.match[z]) \cup Elements(m.match[f])
    BY <2>4, <2>6, CopyMatchesIs
  <2>8. Hits(sm, lab[z]) = Own(sm, lab[z]) \cup Hits(sm, lab[f])
    <3>1. Vocabulary(sm, lab, c) /\ Labels(lab, c)
      BY <1>1, <1>2
    <3> HIDE DEF c
    <3>2. QED
      BY <2>1, <3>1, HitsOf
  <2>9. QED
    BY <2>2, <2>4, <2>7, <2>8 DEF f
<1>10. \A x \in 0 .. c - 1 : x \in 0 .. max - 1
  <2> HIDE DEF c, max
  <2>1. QED
    BY <1>2
<1>11. /\ g \in Tables(max) /\ g.goto = m.goto /\ g.count = c
       /\ \A t \in 0 .. max - 1 :
            /\ g.fail[t] = IF t \in NextStates(m, s) THEN FailOf(m, s, t) ELSE m.fail[t]
            /\ g.match[t] =
                  IF t \in NextStates(m, s) THEN CopyMatches(m.match[t], m.match[FailOf(m, s, t)]) ELSE m.match[t]
  <2>1. \A z \in NextStates(m, s) : FailOf(m, s, z) \in 0 .. max - 1 /\ z \in 0 .. max - 1
                                     /\ CopyMatches(m.match[z], m.match[FailOf(m, s, z)]) \in Seq(Nat)
    BY <1>7, <1>9, <1>10
  <2> HIDE DEF max, s
  <2>2. QED
    BY <1>2, <2>1, GiveFailsIs
<1> HIDE DEF g, s
<1>12. Rooted(g, lab, max, hack)
  BY <1>1, <1>11, RootedSame
<1>13. Ordered(g, lab, o) /\ Vocabulary(sm, lab, g.count)
  <2>1. Ordered(g, lab, o)
    BY <1>1, <1>11 DEF Ordered
  <2>2. QED
    BY <1>1, <1>11, <2>1
<1>14. \A t : Given(g, o, n + 1, t) <=> Given(m, o, n, t) \/ t \in NextStates(m, s)
  <2>1. ASSUME NEW t PROVE Given(g, o, n + 1, t) <=> Given(m, o, n + 1, t)
    BY <1>11, GivenSame
  <2>2. ASSUME NEW t PROVE Given(m, o, n + 1, t) <=> Given(m, o, n, t) \/ t \in NextStates(m, s)
    BY GivenNext DEF s
  <2>3. QED
    BY <2>1, <2>2
<1>15. ASSUME NEW t \in 0 .. c - 1
       PROVE  /\ NoTwice(g.match[t])
              /\ Given(g, o, n + 1, t) => Elements(g.match[t]) = Hits(sm, lab[t])
              /\ ~Given(g, o, n + 1, t) => Elements(g.match[t]) = Own(sm, lab[t])
  <2>1. CASE t \in NextStates(m, s)
    <3>1. g.match[t] = CopyMatches(m.match[t], m.match[FailOf(m, s, t)])
      BY <1>10, <1>11, <2>1
    <3>2. QED
      BY <1>9, <1>14, <2>1, <3>1
  <2>2. CASE t \notin NextStates(m, s)
    <3>1. g.match[t] = m.match[t]
      BY <1>10, <1>11, <2>2
    <3>2. NoTwice(m.match[t]) /\ (Given(m, o, n, t) => Elements(m.match[t]) = Hits(sm, lab[t]))
          /\ (~Given(m, o, n, t) => Elements(m.match[t]) = Own(sm, lab[t]))
      BY DEF Failing
    <3>3. QED
      BY <1>14, <2>2, <3>1, <3>2
  <2>3. QED
    BY <2>1, <2>2
<1>16. ASSUME NEW t \in 1 .. c - 1, Given(g, o, n + 1, t) PROVE IsFail(lab, c, t, g.fail[t])
  <2>1. t \in 0 .. max - 1
    <3> HIDE DEF c, max
    <3>1. QED
      BY <1>2
  <2>2. CASE t \in NextStates(m, s)
    <3>1. g.fail[t] = FailOf(m, s, t)
      BY <1>11, <2>1, <2>2
    <3>2. QED
      BY <1>7, <2>2, <3>1
  <2>3. CASE t \notin NextStates(m, s)
    <3>1. g.fail[t] = m.fail[t] /\ Given(m, o, n, t)
      BY <1>11, <1>14, <1>16, <2>1, <2>3
    <3>2. QED
      BY <3>1 DEF Failing
  <2>4. QED
    BY <2>2, <2>3
<1>17. Failing(sm, g, lab, o, n + 1)
  BY <1>11, <1>12, <1>13, <1>15, <1>16 DEF Failing
<1>18. QED
  BY <1>11, <1>17 DEF g, s

WithFailsLoop(n, r, m) == r[0] = m /\ \A i \in 0 .. n - 1 : r[i + 1] = GiveFails(r[i], Order(m)[i + 1])

\* The turns one after the other.
LEMMA WithFailsSteps ==
  ASSUME NEW m, Len(Order(m)) \in Nat
  PROVE  \E r : WithFailsLoop(Len(Order(m)), r, m) /\ WithFails(m) = r[Len(Order(m))]
<1> DEFINE F(n, r) == r = [i \in 0 .. n |-> IF i = 0 THEN m ELSE GiveFails(r[i - 1], Order(m)[i])]
           T == {n \in Nat : \E r : F(n, r)}
<1>1. 0 \in T
  <2>1. F(0, [i \in 0 .. 0 |-> m])
    OBVIOUS
  <2>2. QED
    BY <2>1
<1>2. ASSUME NEW n \in Nat, n \in T PROVE n + 1 \in T
  <2>1. PICK r : F(n, r)
    BY <1>2
  <2> DEFINE q == [i \in 0 .. n + 1 |-> IF i = n + 1 THEN GiveFails(r[n], Order(m)[(n + 1)]) ELSE r[i]]
  <2>2. ASSUME NEW i \in 0 .. n + 1
        PROVE  q[i] = IF i = 0 THEN m ELSE GiveFails(q[i - 1], Order(m)[i])
    BY <2>1
  <2>3. F(n + 1, q)
    BY <2>2
  <2> HIDE DEF F, q
  <2>4. QED
    BY <2>3
<1>3. Len(Order(m)) \in T
  BY <1>1, <1>2, Induction
<1> DEFINE N == Len(Order(m))
           w == CHOOSE r : F(N, r)
<1>4. F(N, w)
  BY <1>3
<1>5. WithFails(m) = w[Len(Order(m))]
  BY DEF WithFails
<1>6. WithFailsLoop(N, w, m)
  <2> HIDE DEF w, N
  <2>1. w = [i \in 0 .. N |-> IF i = 0 THEN m ELSE GiveFails(w[i - 1], Order(m)[i])] /\ N \in Nat
    BY <1>4 DEF N
  <2>2. w[0] = m
    BY <2>1
  <2>3. ASSUME NEW i \in 0 .. N - 1 PROVE w[i + 1] = GiveFails(w[i], Order(m)[i + 1])
    <3>1. i + 1 \in 0 .. N /\ i + 1 # 0 /\ i + 1 - 1 = i
      BY <2>1
    <3>2. w[i + 1] = GiveFails(w[i + 1 - 1], Order(m)[i + 1])
      BY <2>1, <3>1
    <3>3. QED
      BY <3>1, <3>2
  <2>4. QED
    BY <2>2, <2>3 DEF WithFailsLoop
<1>7. QED
  <2> HIDE DEF w
  <2>1. QED
    BY <1>5, <1>6

\* In the end all states have their links.
LEMMA AllGiven ==
  ASSUME NEW m, NEW lab, NEW max, NEW hack, Rooted(m, lab, max, hack), NEW o, Ordered(m, lab, o),
         NEW t \in 0 .. m.count - 1
  PROVE  Given(m, o, Len(o), t)
<1> DEFINE c == m.count
<1>1. c \in Nat /\ c >= 1
  BY RootedLabels
<1>2. CASE t = 0
  BY <1>2 DEF Given
<1>3. CASE t # 0
  <2>1. t \in 1 .. c - 1
    BY <1>1, <1>3
  <2>2. PICK s \in 0 .. t - 1, a \in Alphabet : lab[t] = Append(lab[s], a)
    BY <2>1 DEF Rooted
  <2>3. s \in 0 .. c - 1
    BY <1>1, <2>1
  <2>4. t \in NextStates(m, s)
    BY <2>2, <2>3, NextStatesAre
  <2>5. CASE s = 0
    BY <2>4, <2>5 DEF Given
  <2>6. CASE s # 0
    <3>1. s \in 1 .. c - 1
      BY <1>1, <2>3, <2>6
    <3>2. PICK i \in 1 .. Len(o) : o[i] = s
      BY <3>1 DEF Ordered
    <3>3. QED
      BY <2>4, <3>2 DEF Given
  <2>7. QED
    BY <2>5, <2>6
<1>4. QED
  BY <1>2, <1>3

Failed(sm, m, lab) ==
  /\ Rooted(m, lab, StateMax(sm.patterns), Hacked(sm)) /\ Vocabulary(sm, lab, m.count)
  /\ \A t \in 0 .. m.count - 1 : NoTwice(m.match[t]) /\ Elements(m.match[t]) = Hits(sm, lab[t])
  /\ \A t \in 1 .. m.count - 1 : IsFail(lab, m.count, t, m.fail[t])

\* smack_stage1_generate_fails(): every state has the longest link, and the matches of all it ends in.
LEMMA WithFailsFailed ==
  ASSUME NEW sm, Registered(sm), NEW m, NEW lab, Planted(sm, m, lab)
  PROVE  Failed(sm, WithFails(m), lab)
<1> DEFINE o == Order(m)
<1>1. Rooted(m, lab, StateMax(sm.patterns), Hacked(sm))
  BY DEF Planted
<1>2. Ordered(m, lab, o)
  BY <1>1, OrderIs
<1>3. Len(o) \in Nat
  BY <1>2 DEF Ordered
<1>4. PICK r : WithFailsLoop(Len(o), r, m) /\ WithFails(m) = r[Len(o)]
  BY <1>3, WithFailsSteps
<1>5. r[0] = m /\ \A i \in 0 .. Len(o) - 1 : r[i + 1] = GiveFails(r[i], o[i + 1])
  BY <1>4 DEF WithFailsLoop
<1> HIDE DEF o
<1> DEFINE T == {i \in 0 .. Len(o) : Failing(sm, r[i], lab, o, i)}
<1>6. 0 \in T
  <2>1. Failing(sm, m, lab, o, 0)
    BY <1>2, FailingFirst
  <2>2. QED
    BY <1>3, <1>5, <2>1
<1>7. ASSUME NEW i \in 0 .. Len(o) - 1, i \in T PROVE i + 1 \in T
  <2>1. i \in Nat /\ i + 1 <= Len(o) /\ i + 1 \in 0 .. Len(o)
    BY <1>3
  <2>2. Failing(sm, r[i], lab, o, i)
    BY <1>7
  <2>3. Failing(sm, GiveFails(r[i], o[i + 1]), lab, o, i + 1)
    BY <2>1, <2>2, FailingNext
  <2>4. QED
    BY <1>5, <2>1, <2>3
<1> HIDE DEF T
<1>8. 0 .. Len(o) \subseteq T
  BY <1>3, <1>6, <1>7, UpTo
<1>9. Len(o) \in 0 .. Len(o)
  BY <1>3
<1>10. Failing(sm, r[Len(o)], lab, o, Len(o))
  BY <1>8, <1>9 DEF T
<1> DEFINE g == r[Len(o)]
<1>11. Rooted(g, lab, StateMax(sm.patterns), Hacked(sm)) /\ Ordered(g, lab, o)
  BY <1>10 DEF Failing
<1>12. \A t \in 0 .. g.count - 1 : Given(g, o, Len(o), t)
  BY <1>11, AllGiven
<1>13. \A t \in 1 .. g.count - 1 : t \in 0 .. g.count - 1
  <2>1. g.count \in Nat
    BY <1>11, RootedLabels
  <2>2. QED
    BY <2>1
<1>14. Failed(sm, g, lab)
  BY <1>10, <1>12, <1>13 DEF Failing, Failed
<1>15. QED
  BY <1>4, <1>14 DEF o

(***************************************************************************)
(* The table without failures.                                             *)
(***************************************************************************)

LinkedLoop(n, r, m) == r[0] = m /\ \A i \in 0 .. n - 1 : r[i + 1] = LinkRow(r[i], Order(m)[i + 1])

\* The turns of smack_stage2_link_fails().
LEMMA LinkedSteps ==
  ASSUME NEW m, Len(Order(m)) \in Nat
  PROVE  \E r : LinkedLoop(Len(Order(m)), r, m) /\ Linked(m) = r[Len(Order(m))]
<1> DEFINE F(n, r) == r = [i \in 0 .. n |-> IF i = 0 THEN m ELSE LinkRow(r[i - 1], Order(m)[i])]
           T == {n \in Nat : \E r : F(n, r)}
<1>1. 0 \in T
  <2>1. F(0, [i \in 0 .. 0 |-> m])
    OBVIOUS
  <2>2. QED
    BY <2>1
<1>2. ASSUME NEW n \in Nat, n \in T PROVE n + 1 \in T
  <2>1. PICK r : F(n, r)
    BY <1>2
  <2> DEFINE q == [i \in 0 .. n + 1 |-> IF i = n + 1 THEN LinkRow(r[n], Order(m)[(n + 1)]) ELSE r[i]]
  <2>2. ASSUME NEW i \in 0 .. n + 1
        PROVE  q[i] = IF i = 0 THEN m ELSE LinkRow(q[i - 1], Order(m)[i])
    BY <2>1
  <2>3. F(n + 1, q)
    BY <2>2
  <2> HIDE DEF F, q
  <2>4. QED
    BY <2>3
<1>3. Len(Order(m)) \in T
  BY <1>1, <1>2, Induction
<1> DEFINE N == Len(Order(m))
           w == CHOOSE r : F(N, r)
<1>4. F(N, w)
  BY <1>3
<1>5. Linked(m) = w[Len(Order(m))]
  BY DEF Linked
<1>6. LinkedLoop(N, w, m)
  <2> HIDE DEF w, N
  <2>1. w = [i \in 0 .. N |-> IF i = 0 THEN m ELSE LinkRow(w[i - 1], Order(m)[i])] /\ N \in Nat
    BY <1>4 DEF N
  <2>2. w[0] = m
    BY <2>1
  <2>3. ASSUME NEW i \in 0 .. N - 1 PROVE w[i + 1] = LinkRow(w[i], Order(m)[i + 1])
    <3>1. i + 1 \in 0 .. N /\ i + 1 # 0 /\ i + 1 - 1 = i
      BY <2>1
    <3>2. w[i + 1] = LinkRow(w[i + 1 - 1], Order(m)[i + 1])
      BY <2>1, <3>1
    <3>3. QED
      BY <3>1, <3>2
  <2>4. QED
    BY <2>2, <2>3 DEF LinkedLoop
<1>7. QED
  <2> HIDE DEF w
  <2>1. QED
    BY <1>5, <1>6

\* A row leads to the state of the longest label that the text then ends in.
Goes(lab, c, hack, s, a, t) == t \in 0 .. c - 1 /\ ((hack /\ a = Hack) \/ IsBest(lab, c, Append(lab[s], a), t))

Done(o, n, s) == s = 0 \/ \E i \in 1 .. n : o[i] = s

\* After n turns, the first n rows go on with every character; m is the table
\* before.
Linking(m, g, lab, max, hack, o, n) ==
  /\ g \in Tables(max) /\ g.count = m.count /\ g.match = m.match /\ g.fail = m.fail
  /\ \A s \in 0 .. m.count - 1, a \in Alphabet :
        /\ Done(o, n, s) => Goes(lab, m.count, hack, s, a, g.goto[s][a])
        /\ ~Done(o, n, s) => g.goto[s][a] = m.goto[s][a]

\* What one of them changes.
LEMMA LinkRowIs ==
  ASSUME NEW max \in Nat, NEW m \in Tables(max), NEW s
  PROVE  /\ LinkRow(m, s) \in Tables(max)
         /\ LinkRow(m, s).count = m.count
         /\ LinkRow(m, s).match = m.match
         /\ LinkRow(m, s).fail = m.fail
         /\ \A t \in 0 .. max - 1, a \in Alphabet : LinkRow(m, s).goto[t][a] = Onto(m, s, t, a)
<1> DEFINE f == [t \in 0 .. max - 1 |-> [a \in Alphabet |-> Onto(m, s, t, a)]]
           g == [m EXCEPT !.goto = f]
<1>1. /\ m.goto \in [0 .. max - 1 -> [Alphabet -> -1 .. max - 1]] /\ m.fail \in [0 .. max - 1 -> 0 .. max - 1]
      /\ DOMAIN m.goto = 0 .. max - 1
  BY TablesAre
<1>2. LinkRow(m, s) = g
  BY <1>1 DEF LinkRow, Tables
<1>3. ASSUME NEW t \in 0 .. max - 1, NEW a \in Alphabet PROVE Onto(m, s, t, a) \in -1 .. max - 1
  <2>1. m.fail[t] \in 0 .. max - 1
    BY <1>1
  <2>2. QED
    BY <1>1, <2>1 DEF Onto
<1>4. f \in [0 .. max - 1 -> [Alphabet -> -1 .. max - 1]]
  BY <1>3
<1>5. \A t \in 0 .. max - 1, a \in Alphabet : f[t][a] = Onto(m, s, t, a)
  OBVIOUS
<1> HIDE DEF f
<1>6. g \in Tables(max) /\ g.goto = f /\ g.count = m.count /\ g.match = m.match /\ g.fail = m.fail
  BY <1>4 DEF Tables
<1> HIDE DEF g
<1>7. QED
  BY <1>2, <1>5, <1>6

\* The first row is complete from the start.
LEMMA FirstGoes ==
  ASSUME NEW m, NEW lab, NEW max, NEW hack, Rooted(m, lab, max, hack), NEW a \in Alphabet
  PROVE  Goes(lab, m.count, hack, 0, a, m.goto[0][a])
<1> DEFINE c == m.count
           z == 0
           t == m.goto[z][a]
<1>1. c \in Nat /\ c >= 1 /\ Labels(lab, c) /\ \A x \in 0 .. c - 1 : lab[x] \in Text
  BY RootedLabels
<1>2. z \in 0 .. c - 1 /\ lab[z] \in Text /\ Len(lab[z]) = 0
  BY RootIn
<1>3. \/ t \in 0 .. c - 1 /\ lab[t] = Append(lab[z], a)
      \/ (\A x \in 0 .. c - 1 : lab[x] # Append(lab[z], a)) /\ t = z
  BY <1>2 DEF Rooted
<1>4. Append(lab[z], a) \in Text /\ Len(Append(lab[z], a)) = 1
  <2>1. Append(lab[z], a) \in Text /\ Len(Append(lab[z], a)) = Len(lab[z]) + 1
    BY <1>2, Appended
  <2>2. QED
    BY <1>2, <2>1
<1>5. CASE t \in 0 .. c - 1 /\ lab[t] = Append(lab[z], a)
  <2> HIDE DEF t, z
  <2>1. IsBest(lab, c, lab[t], t)
    BY <1>1, <1>5, BestSelf
  <2>2. QED
    BY <1>5, <2>1 DEF Goes, t, z
<1>6. CASE (\A x \in 0 .. c - 1 : lab[x] # Append(lab[z], a)) /\ t = z
  <2> DEFINE v == Append(lab[z], a)
  <2>1. Sfx(lab[z], v)
    <3> DEFINE e == lab[z]
    <3>1. e = <<>>
      BY <1>2, LenNonNegative
    <3> HIDE DEF e, v
    <3>2. v \in Text
      BY <1>4 DEF v
    <3>3. Sfx(<<>>, v)
      BY <3>2, SfxEmpty DEF Text
    <3>4. QED
      BY <3>1, <3>3 DEF e
  <2>2. ASSUME NEW x \in 0 .. c - 1, Sfx(lab[x], v) PROVE Len(lab[x]) <= Len(lab[z])
    <3> HIDE DEF v, z
    <3>1. lab[x] \in Text /\ Len(lab[x]) \in Nat /\ v \in Text
      BY <1>1, <1>4, LenNonNegative DEF v
    <3>2. Len(lab[x]) # Len(v)
      BY <1>6, <2>2, <3>1, SfxWhole DEF Text, v
    <3>3. Len(lab[x]) <= Len(v) /\ Len(v) = 1
      BY <1>4, <2>2 DEF Sfx, v
    <3>4. Len(lab[z]) = 0
      BY <1>2
    <3> DEFINE k == Len(lab[x])
    <3>5. k \in Nat /\ k # 1 /\ k <= 1
      BY <3>1, <3>2, <3>3
    <3> HIDE DEF k
    <3>6. k <= 0
      BY <3>5
    <3>7. QED
      BY <3>4, <3>6 DEF k
  <2> HIDE DEF v, t, z
  <2>3. IsBest(lab, c, v, t)
    BY <1>2, <1>6, <2>1, <2>2 DEF IsBest
  <2>4. QED
    BY <1>2, <1>6, <2>3 DEF Goes, v, t, z
<1>7. QED
  BY <1>3, <1>5, <1>6

\* What holds before the first turn.
LEMMA LinkingFirst ==
  ASSUME NEW m, NEW lab, NEW max, NEW hack, Rooted(m, lab, max, hack), NEW o
  PROVE  Linking(m, m, lab, max, hack, o, 0)
<1>1. m \in Tables(max)
  BY RootedLabels
<1>2. \A s : Done(o, 0, s) => s = 0
  BY DEF Done
<1>3. ASSUME NEW s \in 0 .. m.count - 1, NEW a \in Alphabet, Done(o, 0, s)
      PROVE  Goes(lab, m.count, hack, s, a, m.goto[s][a])
  <2>1. s = 0
    BY <1>2, <1>3
  <2>2. Goes(lab, m.count, hack, 0, a, m.goto[0][a])
    BY FirstGoes
  <2>3. QED
    BY <2>1, <2>2
<1>4. QED
  BY <1>1, <1>3 DEF Linking

\* A turn completes one row.
LEMMA LinkingNext ==
  ASSUME NEW m, NEW g, NEW lab, NEW max, NEW hack, Rooted(m, lab, max, hack), NEW o, Ordered(m, lab, o),
         NEW n \in Nat, n + 1 <= Len(o), Linking(m, g, lab, max, hack, o, n),
         \A t \in 1 .. m.count - 1 : IsFail(lab, m.count, t, m.fail[t])
  PROVE  Linking(m, LinkRow(g, o[n + 1]), lab, max, hack, o, n + 1)
<1> DEFINE c == m.count
           s == o[n + 1]
           h == LinkRow(g, s)
           f == m.fail[s]
<1>1. c \in Nat /\ c >= 1 /\ c <= max /\ max \in Nat /\ (\A x \in 0 .. c - 1 : lab[x] \in Text) /\ Labels(lab, c)
  BY RootedLabels
<1>2. Len(o) \in Nat /\ n + 1 \in 1 .. Len(o)
  BY DEF Ordered
<1>3. s \in 1 .. c - 1 /\ s \in 0 .. c - 1 /\ s # 0 /\ DOMAIN o = 1 .. Len(o)
  BY <1>1, <1>2, InOrder
<1>4. IsFail(lab, c, s, f)
  BY <1>3
<1>5. f \in 0 .. c - 1 /\ Len(lab[f]) < Len(lab[s])
  BY <1>4 DEF IsFail
<1>6. Done(o, n, f)
  <2>1. CASE f = 0
    BY <2>1 DEF Done
  <2>2. CASE f # 0
    <3>1. f \in 1 .. c - 1
      <4> HIDE DEF c, f
      <4>1. QED
        BY <1>1, <1>5, <2>2
    <3>2. PICK i \in 1 .. Len(o) : o[i] = f
      BY <3>1 DEF Ordered
    <3>3. ASSUME n + 1 <= i PROVE FALSE
      <4>1. Len(lab[s]) <= Len(lab[o[i]])
        BY <1>2, <3>3 DEF Ordered
      <4>2. Len(lab[s]) <= Len(lab[f])
        BY <3>2, <4>1
      <4>3. lab[s] \in Text /\ lab[f] \in Text
        BY <1>1, <1>3, <1>5
      <4>4. Len(lab[s]) \in Nat /\ Len(lab[f]) \in Nat
        BY <4>3, LenNonNegative
      <4>5. QED
        BY <1>5, <4>2, <4>4
    <3>4. i \in 1 .. n
      BY <1>2, <3>3
    <3>5. QED
      BY <3>2, <3>4 DEF Done
  <2>3. QED
    BY <2>1, <2>2
<1>7. ~Done(o, n, s)
  <2>1. ASSUME NEW i \in 1 .. n, o[i] = s PROVE FALSE
    <3>1. i \in 1 .. Len(o) /\ i # n + 1
      BY <1>2
    <3>2. NoTwice(o)
      BY DEF Ordered
    <3>3. QED
      BY <1>2, <1>3, <2>1, <3>1, <3>2 DEF NoTwice
  <2>2. QED
    BY <1>3, <2>1 DEF Done
<1>8. \A t : Done(o, n + 1, t) <=> Done(o, n, t) \/ t = s
  <2>1. \A i : i \in 1 .. n + 1 <=> i \in 1 .. n \/ i = n + 1
    OBVIOUS
  <2>2. QED
    BY <2>1 DEF Done
<1>9. g \in Tables(max) /\ g.count = c /\ g.match = m.match /\ g.fail = m.fail
  BY DEF Linking
<1>10. /\ h \in Tables(max) /\ h.count = c /\ h.match = m.match /\ h.fail = m.fail
       /\ \A t \in 0 .. max - 1, a \in Alphabet : h.goto[t][a] = Onto(g, s, t, a)
  <2> HIDE DEF s, c
  <2>1. QED
    BY <1>1, <1>9, LinkRowIs
<1> HIDE DEF h, s, f
<1>11. \A x \in 0 .. c - 1 : x \in 0 .. max - 1
  <2> HIDE DEF c
  <2>1. QED
    BY <1>1
<1>12. ASSUME NEW t \in 0 .. c - 1, NEW a \in Alphabet, t # s PROVE h.goto[t][a] = g.goto[t][a]
  BY <1>10, <1>11, <1>12 DEF Onto
<1>13. ASSUME NEW a \in Alphabet PROVE Goes(lab, c, hack, s, a, h.goto[s][a])
  <2>1. g.goto[s][a] = m.goto[s][a] /\ g.fail[s] = f
    BY <1>3, <1>7, <1>9 DEF Linking, f
  <2>2. h.goto[s][a] = IF m.goto[s][a] = Fail THEN g.goto[f][a] ELSE m.goto[s][a]
    BY <1>3, <1>10, <1>11, <2>1 DEF Onto
  <2> DEFINE t == m.goto[s][a]
  <2>3. \/ t \in 0 .. c - 1 /\ lab[t] = Append(lab[s], a)
        \/ (\A x \in 0 .. c - 1 : lab[x] # Append(lab[s], a)) /\ t = Fail
        \/ t = s /\ hack /\ a = Hack
    BY <1>3 DEF Rooted
  <2> HIDE DEF t
  <2>4. CASE t \in 0 .. c - 1 /\ lab[t] = Append(lab[s], a)
    <3>1. IsBest(lab, c, lab[t], t)
      BY <1>1, <2>4, BestSelf
    <3>2. t # Fail
      BY <2>4, Characters
    <3>3. h.goto[s][a] = t
      BY <2>2, <3>2 DEF t
    <3>4. QED
      BY <2>4, <3>1, <3>3 DEF Goes
  <2>5. CASE (\A x \in 0 .. c - 1 : lab[x] # Append(lab[s], a)) /\ t = Fail
    <3> DEFINE q == g.goto[f][a]
    <3>1. h.goto[s][a] = q
      BY <2>2, <2>5 DEF t
    <3>2. Goes(lab, c, hack, f, a, q)
      BY <1>5, <1>6 DEF Linking
    <3> HIDE DEF q
    <3>3. CASE hack /\ a = Hack
      BY <3>1, <3>2, <3>3 DEF Goes
    <3>4. CASE IsBest(lab, c, Append(lab[f], a), q)
      <4>1. IsBest(lab, c, Append(lab[s], a), q)
        <5> HIDE DEF c
        <5>1. QED
          BY <1>1, <1>3, <1>4, <2>5, <3>4, FailStep
      <4>2. QED
        BY <3>1, <3>2, <4>1 DEF Goes
    <3>5. QED
      BY <3>2, <3>3, <3>4 DEF Goes
  <2>6. CASE t = s /\ hack /\ a = Hack
    <3>1. s # Fail
      BY <1>3, Characters
    <3>2. h.goto[s][a] = s
      BY <2>2, <2>6, <3>1 DEF t
    <3>3. QED
      BY <1>3, <2>6, <3>2 DEF Goes
  <2>7. QED
    BY <2>3, <2>4, <2>5, <2>6
<1>14. ASSUME NEW t \in 0 .. c - 1, NEW a \in Alphabet
       PROVE  /\ Done(o, n + 1, t) => Goes(lab, c, hack, t, a, h.goto[t][a])
              /\ ~Done(o, n + 1, t) => h.goto[t][a] = m.goto[t][a]
  <2>1. CASE t = s
    BY <1>8, <1>13, <2>1
  <2>2. CASE t # s
    <3>1. h.goto[t][a] = g.goto[t][a] /\ (Done(o, n + 1, t) <=> Done(o, n, t))
      BY <1>8, <1>12, <2>2
    <3>2. /\ Done(o, n, t) => Goes(lab, c, hack, t, a, g.goto[t][a])
          /\ ~Done(o, n, t) => g.goto[t][a] = m.goto[t][a]
      BY DEF Linking
    <3>3. QED
      BY <3>1, <3>2
  <2>3. QED
    BY <2>1, <2>2
<1>15. Linking(m, h, lab, max, hack, o, n + 1)
  BY <1>10, <1>14 DEF Linking
<1>16. QED
  BY <1>15 DEF h, s

(***************************************************************************)
(* The finished table, whatever the numbers of its rows.                   *)
(***************************************************************************)
Finished(sm, m, lab) ==
  /\ StateMax(sm.patterns) \in Nat /\ m \in Tables(StateMax(sm.patterns))
  /\ Labels(lab, m.count)
  /\ \A i \in 1 .. Len(sm.patterns) : \E s \in 0 .. m.count - 1 : lab[s] = PatternWord(sm.patterns[i])
  /\ \A s \in 0 .. m.count - 1 : Elements(lab[s]) \subseteq Used(sm)
  /\ \A s \in 0 .. m.count - 1 : NoTwice(m.match[s]) /\ Elements(m.match[s]) = Hits(sm, lab[s])
  /\ \A s \in 0 .. m.count - 1, a \in Alphabet : Goes(lab, m.count, Hacked(sm), s, a, m.goto[s][a])

\* What a finished table is.
LEMMA FinishedIs ==
  ASSUME NEW sm, NEW m, NEW lab, Finished(sm, m, lab)
  PROVE  /\ StateMax(sm.patterns) \in Nat /\ m \in Tables(StateMax(sm.patterns)) /\ Labels(lab, m.count)
         /\ m.count \in Nat /\ m.count >= 1 /\ m.count <= StateMax(sm.patterns)
         /\ \A s \in 0 .. m.count - 1 : lab[s] \in Text
<1>1. StateMax(sm.patterns) \in Nat /\ m \in Tables(StateMax(sm.patterns)) /\ Labels(lab, m.count)
  BY DEF Finished
<1>2. m.count \in Nat /\ m.count >= 1 /\ m.count <= StateMax(sm.patterns)
  BY <1>1, TablesAre
<1>3. \A s \in 0 .. m.count - 1 : lab[s] \in Text
  BY <1>1 DEF Labels
<1>4. QED
  BY <1>1, <1>2, <1>3

\* smack_stage2_link_fails(): every row goes on with every character, to the best state.
LEMMA LinkedFinished ==
  ASSUME NEW sm, Registered(sm), NEW m, NEW lab, Failed(sm, m, lab)
  PROVE  /\ Finished(sm, Linked(m), lab) /\ Linked(m).count = m.count
         /\ lab[0] = <<>> /\ (sm.begin => m.count >= 2 /\ lab[1] = <<AnchorStart>>)
<1> DEFINE o == Order(m)
           max == StateMax(sm.patterns)
           hack == Hacked(sm)
           c == m.count
<1>1. Rooted(m, lab, max, hack) /\ Vocabulary(sm, lab, c)
  BY DEF Failed
<1>2. Ordered(m, lab, o)
  BY <1>1, OrderIs
<1>3. Len(o) \in Nat
  BY <1>2 DEF Ordered
<1>4. PICK r : LinkedLoop(Len(o), r, m) /\ Linked(m) = r[Len(o)]
  BY <1>3, LinkedSteps
<1>5. r[0] = m /\ \A i \in 0 .. Len(o) - 1 : r[i + 1] = LinkRow(r[i], o[i + 1])
  BY <1>4 DEF LinkedLoop
<1>6. \A t \in 1 .. c - 1 : IsFail(lab, c, t, m.fail[t])
  BY DEF Failed
<1>7. c \in Nat /\ c >= 1 /\ Labels(lab, c) /\ max \in Nat
  BY <1>1, RootedLabels
<1> HIDE DEF o, max, hack
<1> DEFINE T == {i \in 0 .. Len(o) : Linking(m, r[i], lab, max, hack, o, i)}
<1>8. 0 \in T
  <2>1. Linking(m, m, lab, max, hack, o, 0)
    BY <1>1, LinkingFirst
  <2>2. QED
    BY <1>3, <1>5, <2>1
<1>9. ASSUME NEW i \in 0 .. Len(o) - 1, i \in T PROVE i + 1 \in T
  <2>1. i \in Nat /\ i + 1 <= Len(o) /\ i + 1 \in 0 .. Len(o)
    BY <1>3
  <2>2. Linking(m, r[i], lab, max, hack, o, i)
    BY <1>9
  <2>3. Linking(m, LinkRow(r[i], o[i + 1]), lab, max, hack, o, i + 1)
    BY <1>1, <1>2, <1>6, <2>1, <2>2, LinkingNext
  <2>4. QED
    BY <1>5, <2>1, <2>3
<1> HIDE DEF T
<1>10. 0 .. Len(o) \subseteq T
  BY <1>3, <1>8, <1>9, UpTo
<1>11. Len(o) \in 0 .. Len(o)
  BY <1>3
<1> DEFINE g == r[Len(o)]
<1>12. Linking(m, g, lab, max, hack, o, Len(o))
  BY <1>10, <1>11 DEF T
<1>13. ASSUME NEW s \in 0 .. c - 1 PROVE Done(o, Len(o), s)
  <2>1. CASE s = 0
    BY <2>1 DEF Done
  <2>2. CASE s # 0
    <3>1. s \in 1 .. c - 1
      <4> HIDE DEF c
      <4>1. QED
        BY <1>7, <2>2
    <3>2. QED
      BY <1>2, <3>1 DEF Ordered, Done
  <2>3. QED
    BY <2>1, <2>2
<1>14. g \in Tables(max) /\ g.count = c /\ g.match = m.match
  BY <1>12 DEF Linking
<1>15. \A s \in 0 .. c - 1, a \in Alphabet : Goes(lab, c, hack, s, a, g.goto[s][a])
  BY <1>12, <1>13 DEF Linking
<1>16. \A s \in 0 .. c - 1 : NoTwice(g.match[s]) /\ Elements(g.match[s]) = Hits(sm, lab[s])
  BY <1>14 DEF Failed
<1> HIDE DEF g
<1>17. Finished(sm, g, lab)
  <2>1. /\ max \in Nat /\ g \in Tables(max) /\ Labels(lab, g.count)
    BY <1>7, <1>14
  <2>2. /\ \A i \in 1 .. Len(sm.patterns) : \E s \in 0 .. g.count - 1 : lab[s] = PatternWord(sm.patterns[i])
        /\ \A s \in 0 .. g.count - 1 : Elements(lab[s]) \subseteq Used(sm)
    BY <1>1, <1>14 DEF Vocabulary
  <2>3. QED
    BY <1>14, <1>15, <1>16, <2>1, <2>2 DEF Finished, max, hack
<1>18. lab[0] = <<>>
  BY <1>1 DEF Rooted
<1>19. sm.begin => c >= 2 /\ lab[1] = <<AnchorStart>>
  BY <1>1 DEF Vocabulary
<1>20. QED
  BY <1>4, <1>14, <1>17, <1>18, <1>19 DEF g

Relabelled(lab, n, i, j) == [s \in 0 .. n - 1 |-> lab[Other(i, j, s)]]

\* Exchanging two numbers twice changes nothing.
LEMMA OtherIs ==
  ASSUME NEW S, NEW i \in S, NEW j \in S, NEW s
  PROVE  /\ s \in S => Other(i, j, s) \in S
         /\ Other(i, j, Other(i, j, s)) = s
BY DEF Other

\* Labels that follow an exchange.
LEMMA RelabelledIs ==
  ASSUME NEW n \in Nat, NEW lab, NEW i \in 0 .. n - 1, NEW j \in 0 .. n - 1, NEW s \in 0 .. n - 1
  PROVE  /\ Relabelled(lab, n, i, j)[s] = lab[Other(i, j, s)]
         /\ Relabelled(lab, n, i, j)[Other(i, j, s)] = lab[s]
         /\ Other(i, j, s) \in 0 .. n - 1
<1>1. Other(i, j, s) \in 0 .. n - 1 /\ Other(i, j, Other(i, j, s)) = s
  BY DEF Other
<1>2. QED
  BY <1>1 DEF Relabelled

\* They are labels as before.
LEMMA RelabelledLabels ==
  ASSUME NEW n, NEW lab, Labels(lab, n), NEW i \in 0 .. n - 1, NEW j \in 0 .. n - 1
  PROVE  Labels(Relabelled(lab, n, i, j), n)
<1> DEFINE l == Relabelled(lab, n, i, j)
<1>1. n \in Nat /\ \A s \in 0 .. n - 1 : lab[s] \in Text
  BY DEF Labels
<1>2. \A s \in 0 .. n - 1 : l[s] = lab[Other(i, j, s)] /\ l[Other(i, j, s)] = lab[s] /\ Other(i, j, s) \in 0 .. n - 1
  <2>1. ASSUME NEW s \in 0 .. n - 1
        PROVE  l[s] = lab[Other(i, j, s)] /\ l[Other(i, j, s)] = lab[s] /\ Other(i, j, s) \in 0 .. n - 1
    BY <1>1, RelabelledIs
  <2>2. QED
    BY <2>1
<1>3. \A s : Other(i, j, Other(i, j, s)) = s
  BY DEF Other
<1>4. l \in [0 .. n - 1 -> Text]
  <2>1. \A s \in 0 .. n - 1 : lab[Other(i, j, s)] \in Text
    BY <1>1, <1>2
  <2>2. QED
    BY <2>1 DEF Relabelled
<1> HIDE DEF l
<1>5. ASSUME NEW s \in 0 .. n - 1, NEW t \in 0 .. n - 1, l[s] = l[t] PROVE s = t
  <2>1. Other(i, j, s) = Other(i, j, t)
    <3> DEFINE x == Other(i, j, s)
               y == Other(i, j, t)
    <3>1. x \in 0 .. n - 1 /\ y \in 0 .. n - 1 /\ lab[x] = lab[y]
      BY <1>2, <1>5
    <3> HIDE DEF x, y
    <3>2. x = y
      BY <3>1 DEF Labels
    <3>3. QED
      BY <3>2 DEF x, y
  <2>2. QED
    BY <1>3, <2>1
<1>6. \E s \in 0 .. n - 1 : l[s] = <<>>
  BY <1>2 DEF Labels
<1>7. ASSUME NEW t \in 0 .. n - 1, l[t] # <<>> PROVE \E s \in 0 .. n - 1, a \in Alphabet : l[t] = Append(l[s], a)
  <2>1. lab[Other(i, j, t)] # <<>> /\ Other(i, j, t) \in 0 .. n - 1
    BY <1>2, <1>7
  <2>2. PICK s \in 0 .. n - 1, a \in Alphabet : lab[Other(i, j, t)] = Append(lab[s], a)
    BY <2>1 DEF Labels
  <2>3. l[t] = lab[Other(i, j, t)] /\ l[Other(i, j, s)] = lab[s] /\ Other(i, j, s) \in 0 .. n - 1
    BY <1>2
  <2>4. QED
    BY <2>2, <2>3
<1>8. QED
  BY <1>1, <1>4, <1>5, <1>6, <1>7 DEF Labels, l

\* And the best state follows, too.
LEMMA BestRelabelled ==
  ASSUME NEW n \in Nat, NEW lab, NEW i \in 0 .. n - 1, NEW j \in 0 .. n - 1, NEW v, NEW t, IsBest(lab, n, v, t)
  PROVE  IsBest(Relabelled(lab, n, i, j), n, v, Other(i, j, t))
<1> DEFINE l == Relabelled(lab, n, i, j)
           O(s) == Other(i, j, s)
<1>1. \A s \in 0 .. n - 1 : l[s] = lab[O(s)] /\ l[O(s)] = lab[s] /\ O(s) \in 0 .. n - 1
  <2>1. ASSUME NEW s \in 0 .. n - 1
        PROVE  l[s] = lab[Other(i, j, s)] /\ l[Other(i, j, s)] = lab[s] /\ Other(i, j, s) \in 0 .. n - 1
    <3>1. n \in Nat /\ i \in 0 .. n - 1 /\ j \in 0 .. n - 1 /\ s \in 0 .. n - 1
      OBVIOUS
    <3>2. Relabelled(lab, n, i, j)[s] = lab[Other(i, j, s)]
      BY <3>1, RelabelledIs
    <3>3. Other(i, j, s) \in 0 .. n - 1
      BY <3>1, RelabelledIs
    <3>4. Relabelled(lab, n, i, j)[Other(i, j, s)] = lab[s]
      <4>1. Other(i, j, Other(i, j, s)) = s
        BY DEF Other
      <4>2. Relabelled(lab, n, i, j)[Other(i, j, s)] = lab[Other(i, j, Other(i, j, s))]
        BY <3>3 DEF Relabelled
      <4>3. QED
        BY <4>1, <4>2
    <3>5. QED
      BY <3>2, <3>3, <3>4
  <2>2. QED
    BY <2>1
<1> HIDE DEF l, O
<1>2. t \in 0 .. n - 1 /\ Sfx(lab[t], v)
  BY DEF IsBest
<1>3. ASSUME NEW s \in 0 .. n - 1, Sfx(l[s], v) PROVE Len(l[s]) <= Len(l[O(t)])
  <2>1. Sfx(lab[O(s)], v) /\ O(s) \in 0 .. n - 1
    BY <1>1, <1>3
  <2>2. Len(lab[O(s)]) <= Len(lab[t])
    BY <2>1 DEF IsBest
  <2>3. QED
    BY <1>1, <1>2, <2>2
<1>4. QED
  BY <1>1, <1>2, <1>3 DEF IsBest, l, O

\* What swap_rows() changes.
LEMMA SwapRowsIs ==
  ASSUME NEW max \in Nat, NEW m \in Tables(max), NEW i \in 0 .. max - 1, NEW j \in 0 .. max - 1
  PROVE  /\ SwapRows(m, i, j) \in Tables(max) /\ SwapRows(m, i, j).count = m.count
         /\ \A s \in 0 .. max - 1 :
               /\ SwapRows(m, i, j).match[s] = m.match[Other(i, j, s)]
               /\ \A a \in Alphabet : SwapRows(m, i, j).goto[s][a] = Other(i, j, m.goto[Other(i, j, s)][a])
<1> DEFINE f == [s \in 0 .. max - 1 |-> [a \in Alphabet |-> Other(i, j, m.goto[Other(i, j, s)][a])]]
           h == [s \in 0 .. max - 1 |-> m.match[Other(i, j, s)]]
           g == [m EXCEPT !.goto = f, !.match = h]
<1>1. /\ m.goto \in [0 .. max - 1 -> [Alphabet -> -1 .. max - 1]] /\ m.match \in [0 .. max - 1 -> Seq(Nat)]
      /\ DOMAIN m.goto = 0 .. max - 1 /\ DOMAIN m.match = 0 .. max - 1
  BY TablesAre
<1>2. SwapRows(m, i, j) = g
  BY <1>1 DEF SwapRows, Tables
<1>3. ASSUME NEW s \in 0 .. max - 1
      PROVE  /\ m.match[Other(i, j, s)] \in Seq(Nat)
             /\ \A a \in Alphabet : Other(i, j, m.goto[Other(i, j, s)][a]) \in -1 .. max - 1
  <2>1. Other(i, j, s) \in 0 .. max - 1
    BY OtherIs
  <2>2. i \in -1 .. max - 1 /\ j \in -1 .. max - 1
    OBVIOUS
  <2>3. \A t \in -1 .. max - 1 : Other(i, j, t) \in -1 .. max - 1
    BY <2>2, OtherIs
  <2>4. QED
    BY <1>1, <2>1, <2>3
<1>4. f \in [0 .. max - 1 -> [Alphabet -> -1 .. max - 1]] /\ h \in [0 .. max - 1 -> Seq(Nat)]
  BY <1>3
<1>5. \A s \in 0 .. max - 1 : h[s] = m.match[Other(i, j, s)]
                              /\ \A a \in Alphabet : f[s][a] = Other(i, j, m.goto[Other(i, j, s)][a])
  OBVIOUS
<1> HIDE DEF f, h
<1>6. g \in Tables(max) /\ g.goto = f /\ g.count = m.count /\ g.match = h
  BY <1>4 DEF Tables
<1> HIDE DEF g
<1>7. QED
  BY <1>2, <1>5, <1>6

\* A finished table stays finished when two of its states are exchanged.
LEMMA SwapFinished ==
  ASSUME NEW sm, NEW m, NEW lab, Finished(sm, m, lab), NEW i \in 0 .. m.count - 1, NEW j \in 0 .. m.count - 1
  PROVE  /\ Finished(sm, SwapRows(m, i, j), Relabelled(lab, m.count, i, j))
         /\ SwapRows(m, i, j).count = m.count
         /\ \A s \in 0 .. m.count - 1 : SwapRows(m, i, j).match[s] = m.match[Other(i, j, s)]
<1> DEFINE c == m.count
           max == StateMax(sm.patterns)
           hack == Hacked(sm)
           g == SwapRows(m, i, j)
           l == Relabelled(lab, c, i, j)
<1>1. c \in Nat /\ c >= 1 /\ c <= max /\ max \in Nat /\ Labels(lab, c) /\ m \in Tables(max)
  BY FinishedIs
<1>2. \A x \in 0 .. c - 1 : x \in 0 .. max - 1
  <2> HIDE DEF c, max
  <2>1. QED
    BY <1>1
<1>3. i \in 0 .. max - 1 /\ j \in 0 .. max - 1
  BY <1>2
<1>4. /\ g \in Tables(max) /\ g.count = c
      /\ \A s \in 0 .. max - 1 :
            /\ g.match[s] = m.match[Other(i, j, s)]
            /\ \A a \in Alphabet : g.goto[s][a] = Other(i, j, m.goto[Other(i, j, s)][a])
  <2> HIDE DEF max
  <2>2. max \in Nat /\ m \in Tables(max)
    BY <1>1
  <2>1. g \in Tables(max) /\ g.count = c
    BY <1>3, <2>2, SwapRowsIs
  <2> HIDE DEF c
  <2>4. \A s \in 0 .. max - 1 :
            /\ g.match[s] = m.match[Other(i, j, s)]
            /\ \A a \in Alphabet : g.goto[s][a] = Other(i, j, m.goto[Other(i, j, s)][a])
    BY <1>3, <2>2, SwapRowsIs
  <2>3. QED
    BY <2>1, <2>4
<1>5. \A s \in 0 .. c - 1 : l[s] = lab[Other(i, j, s)] /\ l[Other(i, j, s)] = lab[s] /\ Other(i, j, s) \in 0 .. c - 1
  <2> HIDE DEF c
  <2>1. i \in 0 .. c - 1 /\ j \in 0 .. c - 1
    BY DEF c
  <2>2. ASSUME NEW s \in 0 .. c - 1
        PROVE  l[s] = lab[Other(i, j, s)] /\ l[Other(i, j, s)] = lab[s] /\ Other(i, j, s) \in 0 .. c - 1
    <3>1. c \in Nat
      BY <1>1
    <3>2. l[s] = lab[Other(i, j, s)]
      BY <2>1, <3>1, RelabelledIs
    <3>3. l[Other(i, j, s)] = lab[s]
      BY <2>1, <3>1, RelabelledIs
    <3>4. Other(i, j, s) \in 0 .. c - 1
      BY <2>1, <3>1, RelabelledIs
    <3>5. QED
      BY <3>2, <3>3, <3>4
  <2>3. QED
    BY <2>2
<1>6. Labels(l, c)
  <2> HIDE DEF c
  <2>1. i \in 0 .. c - 1 /\ j \in 0 .. c - 1
    BY DEF c
  <2>2. QED
    BY <1>1, <2>1, RelabelledLabels
<1>7. \A v, t : IsBest(lab, c, v, t) => IsBest(l, c, v, Other(i, j, t))
  <2> HIDE DEF c
  <2>1. i \in 0 .. c - 1 /\ j \in 0 .. c - 1
    BY DEF c
  <2>2. QED
    BY <1>1, <2>1, BestRelabelled
<1> HIDE DEF g, l
<1>8. ASSUME NEW s \in 0 .. c - 1, NEW a \in Alphabet PROVE Goes(l, c, hack, s, a, g.goto[s][a])
  <2> DEFINE q == Other(i, j, s)
             t == m.goto[q][a]
  <2>1. q \in 0 .. c - 1 /\ l[s] = lab[q]
    BY <1>5
  <2>2. g.goto[s][a] = Other(i, j, t)
    BY <1>2, <1>4
  <2>3. Goes(lab, c, hack, q, a, t)
    BY <2>1 DEF Finished
  <2> HIDE DEF q, t
  <2>4. Other(i, j, t) \in 0 .. c - 1
    BY <1>5, <2>3 DEF Goes
  <2>5. CASE hack /\ a = Hack
    BY <2>2, <2>4, <2>5 DEF Goes
  <2>6. CASE IsBest(lab, c, Append(lab[q], a), t)
    <3>1. IsBest(l, c, Append(l[s], a), Other(i, j, t))
      BY <1>7, <2>1, <2>6
    <3>2. QED
      BY <2>2, <2>4, <3>1 DEF Goes
  <2>7. QED
    BY <2>3, <2>5, <2>6 DEF Goes
<1>9. ASSUME NEW s \in 0 .. c - 1
      PROVE  /\ Elements(l[s]) \subseteq Used(sm) /\ NoTwice(g.match[s]) /\ Elements(g.match[s]) = Hits(sm, l[s])
             /\ g.match[s] = m.match[Other(i, j, s)]
  <2>1. Other(i, j, s) \in 0 .. c - 1 /\ l[s] = lab[Other(i, j, s)] /\ g.match[s] = m.match[Other(i, j, s)]
    BY <1>2, <1>4, <1>5
  <2>2. QED
    BY <2>1 DEF Finished
<1>10. ASSUME NEW k \in 1 .. Len(sm.patterns) PROVE \E s \in 0 .. c - 1 : l[s] = PatternWord(sm.patterns[k])
  <2>1. PICK s \in 0 .. c - 1 : lab[s] = PatternWord(sm.patterns[k])
    BY DEF Finished
  <2>2. QED
    BY <1>5, <2>1
<1>11. Finished(sm, g, l)
  <2>1. /\ \A s \in 0 .. g.count - 1, a \in Alphabet : Goes(l, g.count, hack, s, a, g.goto[s][a])
    BY <1>4, <1>8
  <2>2. QED
    BY <1>1, <1>4, <1>6, <1>9, <1>10, <2>1 DEF Finished
<1>12. QED
  BY <1>4, <1>9, <1>11 DEF g, l

SortedTableLoop(n, r, m) == r[0] = m /\ \A i \in 0 .. n - 1 : r[i + 1] = SortTurn(r[i])

\* The exchanges of smack_stage3_sort(), one after the other.
LEMMA SortedTableSteps ==
  ASSUME NEW m, m.count \in Nat
  PROVE  \E r : SortedTableLoop(m.count, r, m) /\ Sorted(m).m = r[m.count]
<1> DEFINE F(n, r) == r = [i \in 0 .. n |-> IF i = 0 THEN m ELSE SortTurn(r[i - 1])]
           T == {n \in Nat : \E r : F(n, r)}
<1>1. 0 \in T
  <2>1. F(0, [i \in 0 .. 0 |-> m])
    OBVIOUS
  <2>2. QED
    BY <2>1
<1>2. ASSUME NEW n \in Nat, n \in T PROVE n + 1 \in T
  <2>1. PICK r : F(n, r)
    BY <1>2
  <2> DEFINE q == [i \in 0 .. n + 1 |-> IF i = n + 1 THEN SortTurn(r[n]) ELSE r[i]]
  <2>2. ASSUME NEW i \in 0 .. n + 1
        PROVE  q[i] = IF i = 0 THEN m ELSE SortTurn(q[i - 1])
    BY <2>1
  <2>3. F(n + 1, q)
    BY <2>2
  <2> HIDE DEF F, q
  <2>4. QED
    BY <2>3
<1>3. m.count \in T
  BY <1>1, <1>2, Induction
<1> DEFINE N == m.count
           w == CHOOSE r : F(N, r)
<1>4. F(N, w)
  BY <1>3
<1>5. Sorted(m).m = w[m.count]
  BY DEF Sorted
<1>6. SortedTableLoop(N, w, m)
  <2> HIDE DEF w, N
  <2>1. w = [i \in 0 .. N |-> IF i = 0 THEN m ELSE SortTurn(w[i - 1])] /\ N \in Nat
    BY <1>4 DEF N
  <2>2. w[0] = m
    BY <2>1
  <2>3. ASSUME NEW i \in 0 .. N - 1 PROVE w[i + 1] = SortTurn(w[i])
    <3>1. i + 1 \in 0 .. N /\ i + 1 # 0 /\ i + 1 - 1 = i
      BY <2>1
    <3>2. w[i + 1] = SortTurn(w[i + 1 - 1])
      BY <2>1, <3>1
    <3>3. QED
      BY <3>1, <3>2
  <2>4. QED
    BY <2>2, <2>3 DEF SortedTableLoop
<1>7. QED
  <2> HIDE DEF w
  <2>1. QED
    BY <1>5, <1>6

Opening(sm) == IF sm.begin THEN <<AnchorStart>> ELSE <<>>

\* What every text begins with is a text.
LEMMA OpeningText == ASSUME NEW sm PROVE Opening(sm) \in Text /\ Len(Opening(sm)) <= 1
<1>1. CASE sm.begin
  <2>1. <<AnchorStart>> \in Text /\ Len(<<AnchorStart>>) = 1
    BY Characters, OneIs DEF Text
  <2>2. QED
    BY <1>1, <2>1 DEF Opening
<1>2. CASE ~sm.begin
  BY <1>2 DEF Opening, Text
<1>3. QED
  BY <1>1, <1>2

\* No pattern is only that.
LEMMA WordNotOpening ==
  ASSUME NEW sm, Registered(sm), NEW i \in 1 .. Len(sm.patterns)
  PROVE  PatternWord(sm.patterns[i]) # Opening(sm)
<1> DEFINE p == sm.patterns[i]
           k == Len(p.text)
           u == Upto(p, k)
           w == PatternWord(p)
<1>1. i \in DOMAIN sm.patterns
  BY DEF Registered
<1>2. p \in PatternSet /\ p.text # <<>>
  BY <1>1, RegisteredPattern DEF PatternFits
<1>3. k \in Nat /\ k >= 1 /\ Lead(p) \in Text /\ (\A x \in 1 .. k : p.text[x] \in 0 .. Chars - 1)
  <2>1. p.text \in Text /\ Lead(p) \in Text /\ (\A x \in 1 .. k : p.text[x] \in 0 .. Chars - 1)
    BY <1>2, LeadText
  <2>2. QED
    BY <1>2, <2>1, LenNonNegative
<1>4. k \in 0 .. k /\ 1 \in 1 .. k
  BY <1>3
<1>5. u \in Text /\ Len(u) = Len(Lead(p)) + k /\ \A x \in 1 .. k : u[Len(Lead(p)) + x] = p.text[x]
  BY <1>2, <1>4, UptoText
<1>6. w \in Text /\ Len(w) >= 1 /\ Len(w) \in Nat
  BY WordLong
<1>7. Len(w) >= Len(u) /\ w[1] = u[1]
  <2>1. CASE p.end
    <3>1. w = Append(u, AnchorEnd)
      BY <2>1 DEF PatternWord
    <3> HIDE DEF u, w
    <3>2. Len(Append(u, AnchorEnd)) = Len(u) + 1 /\ Len(u) \in Nat
      BY <1>5, Characters, Appended, LenNonNegative
    <3>3. Len(Lead(p)) \in Nat
      BY <1>3, LenNonNegative
    <3>4. 1 \in 1 .. Len(u)
      <4> DEFINE x == Len(u)
                 y == Len(Lead(p))
      <4>1. x = y + k /\ y \in Nat /\ k >= 1 /\ k \in Nat
        BY <1>3, <1>5, <3>3
      <4> HIDE DEF x, y, k
      <4>2. 1 \in 1 .. x
        BY <4>1
      <4>3. QED
        BY <4>2 DEF x
    <3>5. Append(u, AnchorEnd)[1] = u[1]
      <4> DEFINE e == AnchorEnd
                 S == Alphabet
      <4>1. u \in Seq(S) /\ e \in S
        BY <1>5, Characters DEF Text
      <4> HIDE DEF e, S
      <4>2. Append(u, e)[1] = u[1]
        BY <3>4, <4>1
      <4>3. QED
        BY <4>2 DEF e
    <3>6. QED
      BY <3>1, <3>2, <3>5
  <2>2. CASE ~p.end
    <3>1. w = u
      BY <2>2 DEF PatternWord
    <3> HIDE DEF u, w
    <3>2. QED
      BY <1>6, <3>1
  <2>3. QED
    BY <2>1, <2>2
<1> HIDE DEF w, u
<1>8. CASE ~sm.begin
  <2>1. w # <<>>
    BY <1>6, LenNonNegative
  <2>2. QED
    BY <1>8, <2>1 DEF Opening, w
<1>9. CASE sm.begin /\ p.begin
  <2>1. Lead(p) = <<AnchorStart>>
    BY <1>9 DEF Lead
  <2>2. Len(<<AnchorStart>>) = 1
    BY OneIs
  <2>3. Len(u) = 1 + k
    BY <1>5, <2>1, <2>2
  <2>4. Len(w) # 1
    <3> DEFINE x == Len(w)
               y == Len(u)
    <3>1. x \in Nat /\ x >= y /\ y = 1 + k /\ k \in Nat /\ k >= 1
      BY <1>3, <1>6, <1>7, <2>3
    <3> HIDE DEF x, y, k
    <3>2. x # 1
      BY <3>1
    <3>3. QED
      BY <3>2 DEF x
  <2>5. QED
    BY <1>9, <2>2, <2>4 DEF Opening, w
<1>10. CASE sm.begin /\ ~p.begin
  <2>1. Lead(p) = <<>>
    BY <1>10 DEF Lead
  <2>2. Len(<<>>) = 0
    OBVIOUS
  <2>3. u[0 + 1] = p.text[1]
    BY <1>4, <1>5, <2>1, <2>2
  <2>4. u[1] \in 0 .. Chars - 1
    BY <1>3, <1>4, <2>3
  <2>5. w[1] # AnchorStart
    BY <1>7, <2>4, Characters
  <2>6. <<AnchorStart>>[1] = AnchorStart
    BY OneIs
  <2>7. QED
    BY <1>10, <2>5, <2>6 DEF Opening, w
<1>11. QED
  BY <1>8, <1>9, <1>10

\* The first state has no matches.
LEMMA RootEmpty ==
  ASSUME NEW sm, Registered(sm), NEW m, NEW lab, Finished(sm, m, lab), lab[0] = Opening(sm)
  PROVE  m.match[0] = <<>>
<1>1. m.count \in Nat /\ m.count >= 1 /\ m.count <= StateMax(sm.patterns) /\ m \in Tables(StateMax(sm.patterns))
      /\ StateMax(sm.patterns) \in Nat
  BY FinishedIs
<1>2. 0 \in 0 .. m.count - 1 /\ 0 \in 0 .. StateMax(sm.patterns) - 1
  BY <1>1
<1>3. m.match[0] \in Seq(Nat)
  BY <1>1, <1>2, TablesAre
<1>4. Elements(m.match[0]) = Hits(sm, lab[0])
  BY <1>2 DEF Finished
<1>5. Hits(sm, Opening(sm)) = Own(sm, Opening(sm))
  BY OpeningText, HitsShort
<1>6. Own(sm, Opening(sm)) = {}
  BY WordNotOpening DEF Own
<1>7. Elements(m.match[0]) = {}
  BY <1>4, <1>5, <1>6
<1> DEFINE s == m.match[0]
<1> HIDE DEF s
<1>8. s \in Seq(Nat) /\ Elements(s) = {}
  BY <1>3, <1>7 DEF s
<1>9. s = <<>>
  <2>1. Len(s) \in Nat /\ DOMAIN s = 1 .. Len(s)
    BY <1>8
  <2>2. ASSUME Len(s) # 0 PROVE FALSE
    <3>1. 1 \in DOMAIN s
      BY <2>1, <2>2
    <3>2. s[1] \in Elements(s)
      BY <3>1 DEF Elements
    <3>3. QED
      BY <1>8, <3>2
  <2>3. QED
    BY <1>8, <2>2
<1>10. QED
  BY <1>9 DEF s

\* The row of the text's beginning comes first.
LEMMA AnchorFirstFinished ==
  ASSUME NEW sm, Registered(sm), NEW m, NEW lab, Finished(sm, m, lab), lab[0] = <<>>,
         sm.begin => m.count >= 2 /\ lab[1] = <<AnchorStart>>
  PROVE  \E l : /\ Finished(sm, AnchorFirst(sm, m), l) /\ l[0] = Opening(sm)
                /\ AnchorFirst(sm, m).count = m.count
<1>1. m.count \in Nat /\ m.count >= 1
  BY FinishedIs
<1>2. CASE sm.begin
  <2> DEFINE i == 0
             j == 1
             c == m.count
             l == Relabelled(lab, c, i, j)
  <2>1. i \in 0 .. c - 1 /\ j \in 0 .. c - 1 /\ c \in Nat
    BY <1>1, <1>2
  <2>2. Other(i, j, i) = j
    BY DEF Other
  <2>3. lab[j] = Opening(sm)
    BY <1>2 DEF Opening
  <2>4. AnchorFirst(sm, m) = SwapRows(m, i, j)
    BY <1>2 DEF AnchorFirst
  <2> HIDE DEF i, j, l
  <2>5. Finished(sm, SwapRows(m, i, j), l) /\ SwapRows(m, i, j).count = c
    BY <2>1, SwapFinished DEF l
  <2>6. l[i] = lab[Other(i, j, i)]
    BY <2>1 DEF l, Relabelled
  <2>7. l[0] = Opening(sm)
    BY <2>2, <2>3, <2>6 DEF i
  <2>8. QED
    BY <2>4, <2>5, <2>7
<1>3. CASE ~sm.begin
  BY <1>3 DEF AnchorFirst, Opening
<1>4. QED
  BY <1>2, <1>3

\* The first state with matches.
LEMMA FirstMatchIs ==
  ASSUME NEW m, m.count \in Nat
  PROVE  /\ FirstMatch(m) \in 0 .. m.count
         /\ \A s \in 0 .. m.count - 1 : s < FirstMatch(m) => m.match[s] = <<>>
         /\ FirstMatch(m) < m.count => m.match[FirstMatch(m)] # <<>>
<1> DEFINE c == m.count
           S == {s \in 0 .. c - 1 : m.match[s] # <<>>} \cup {c}
           f == Least(S)
<1>1. S \subseteq Nat /\ S # {} /\ S \subseteq 0 .. c
  OBVIOUS
<1>2. f = FirstMatch(m)
  BY DEF FirstMatch
<1> HIDE DEF S, f
<1>3. f \in S /\ \A y \in S : f <= y
  BY <1>1, LeastIs DEF f
<1>4. f \in 0 .. c
  BY <1>1, <1>3
<1>5. ASSUME NEW s \in 0 .. c - 1, s < f PROVE m.match[s] = <<>>
  <2>1. s \notin S
    BY <1>3, <1>4, <1>5
  <2>2. QED
    BY <2>1 DEF S
<1>6. ASSUME f < c PROVE m.match[f] # <<>>
  BY <1>3, <1>6 DEF S
<1>7. QED
  BY <1>2, <1>4, <1>5, <1>6

\* The last one without.
LEMMA LastEmptyIs ==
  ASSUME NEW m, m.count \in Nat
  PROVE  /\ LastEmpty(m) \in -1 .. m.count - 1
         /\ \A s \in 0 .. m.count - 1 : LastEmpty(m) < s => m.match[s] # <<>>
         /\ LastEmpty(m) >= 0 => m.match[LastEmpty(m)] = <<>>
<1> DEFINE c == m.count
           S == {s \in 0 .. c - 1 : m.match[s] = <<>>} \cup {-1}
           f == Greatest(S)
<1>1. S \subseteq -1 .. c /\ S # {} /\ S \subseteq -1 .. c - 1
  OBVIOUS
<1>2. f = LastEmpty(m)
  BY DEF LastEmpty
<1> HIDE DEF S, f
<1>3. f \in S /\ \A y \in S : y <= f
  BY <1>1, GreatestIs DEF f
<1>4. f \in -1 .. c - 1
  BY <1>1, <1>3
<1>5. ASSUME NEW s \in 0 .. c - 1, f < s PROVE m.match[s] # <<>>
  <2>1. s \notin S
    BY <1>3, <1>4, <1>5
  <2>2. QED
    BY <2>1 DEF S
<1>6. ASSUME f >= 0 PROVE m.match[f] = <<>>
  BY <1>3, <1>6 DEF S
<1>7. QED
  BY <1>2, <1>4, <1>5, <1>6

\* What a turn of the sorting leaves: one row less to look at.
LEMMA SortTurnIs ==
  ASSUME NEW sm, Registered(sm), NEW m, NEW lab, Finished(sm, m, lab), lab[0] = Opening(sm),
         FirstMatch(m) < LastEmpty(m)
  PROVE  /\ \E l : Finished(sm, SortTurn(m), l) /\ l[0] = Opening(sm)
         /\ SortTurn(m).count = m.count
         /\ FirstMatch(SortTurn(m)) >= FirstMatch(m) + 1
<1> DEFINE c == m.count
           i == FirstMatch(m)
           j == LastEmpty(m)
           g == SwapRows(m, i, j)
           l == Relabelled(lab, c, i, j)
<1>1. c \in Nat /\ c >= 1
  BY FinishedIs
<1>2. /\ i \in 0 .. c /\ (\A s \in 0 .. c - 1 : s < i => m.match[s] = <<>>) /\ (i < c => m.match[i] # <<>>)
      /\ j \in -1 .. c - 1 /\ (j >= 0 => m.match[j] = <<>>)
  BY <1>1, FirstMatchIs, LastEmptyIs
<1>3. SortTurn(m) = g
  BY DEF SortTurn
<1>4. m.match[0] = <<>>
  BY RootEmpty
<1>5. i < j
  OBVIOUS
<1> HIDE DEF i, j
<1>6. i \in 0 .. c - 1 /\ j \in 0 .. c - 1 /\ i < j /\ i # 0 /\ j # 0
  <2>1. i # 0
    BY <1>1, <1>2, <1>4
  <2>2. QED
    BY <1>1, <1>2, <1>5, <2>1
<1>7. Finished(sm, g, l) /\ g.count = c /\ \A s \in 0 .. c - 1 : g.match[s] = m.match[Other(i, j, s)]
  BY <1>6, SwapFinished
<1>8. l[0] = Opening(sm)
  <2> DEFINE z == 0
  <2>1. z \in 0 .. c - 1 /\ Other(i, j, z) = z
    BY <1>1, <1>6 DEF Other
  <2> HIDE DEF z
  <2>2. l[z] = lab[Other(i, j, z)]
    BY <2>1 DEF Relabelled
  <2>3. QED
    BY <2>1, <2>2 DEF z
<1> HIDE DEF g, l
<1>9. ASSUME NEW s \in 0 .. c - 1, s <= i PROVE g.match[s] = <<>>
  <2>1. CASE s = i
    BY <1>2, <1>6, <1>7, <2>1 DEF Other
  <2>2. CASE s # i
    <3>1. s < i /\ s # j
      BY <1>6, <1>9, <2>2
    <3>2. Other(i, j, s) = s
      BY <2>2, <3>1 DEF Other
    <3>3. QED
      BY <1>2, <1>7, <3>1, <3>2
  <2>3. QED
    BY <2>1, <2>2
<1> DEFINE k == FirstMatch(g)
<1>10. k \in 0 .. c /\ (k < c => g.match[k] # <<>>)
  <2>1. g.count \in Nat
    BY <1>1, <1>7
  <2>2. FirstMatch(g) \in 0 .. g.count /\ (FirstMatch(g) < g.count => g.match[FirstMatch(g)] # <<>>)
    BY <2>1, FirstMatchIs
  <2>3. QED
    BY <1>7, <2>2
<1> HIDE DEF k
<1>11. k >= i + 1
  <2>1. CASE k = c
    BY <1>1, <1>6, <2>1
  <2>2. CASE k # c
    <3>1. k \in 0 .. c - 1 /\ k < c
      BY <1>1, <1>10, <2>2
    <3>2. ~(k <= i)
      BY <1>9, <1>10, <3>1
    <3>3. QED
      BY <1>6, <3>1, <3>2
  <2>3. QED
    BY <2>1, <2>2
<1>12. QED
  BY <1>3, <1>7, <1>8, <1>11 DEF k, i, g

\* smack_stage3_sort(): finished still, with the states that match behind all others.
LEMMA SortedIs ==
  ASSUME NEW sm, Registered(sm), NEW m, NEW lab, Finished(sm, m, lab), lab[0] = Opening(sm)
  PROVE  /\ \E l : Finished(sm, Sorted(m).m, l) /\ l[0] = Opening(sm)
         /\ Sorted(m).m.count = m.count /\ Sorted(m).limit \in Nat
         /\ \A s \in 0 .. m.count - 1 : (Sorted(m).m.match[s] # <<>>) <=> s >= Sorted(m).limit
<1> DEFINE c == m.count
<1>1. c \in Nat /\ c >= 1
  BY FinishedIs
<1>2. PICK r : SortedTableLoop(c, r, m) /\ Sorted(m).m = r[c]
  BY <1>1, SortedTableSteps
<1>3. r[0] = m /\ \A i \in 0 .. c - 1 : r[i + 1] = SortTurn(r[i])
  BY <1>2 DEF SortedTableLoop
<1>4. Sorted(m).limit = FirstMatch(Sorted(m).m)
  BY DEF Sorted
<1> HIDE DEF c
<1> DEFINE SoundSearch(g) == (\E l : Finished(sm, g, l) /\ l[0] = Opening(sm)) /\ g.count = c
           T == {i \in 0 .. c : SoundSearch(r[i]) /\ (FirstMatch(r[i]) >= i \/ ~(FirstMatch(r[i]) < LastEmpty(r[i])))}
<1>5. 0 \in T
  <2>1. SoundSearch(m)
    BY DEF c
  <2>2. FirstMatch(m) \in 0 .. m.count
    BY <1>1, FirstMatchIs DEF c
  <2>3. FirstMatch(m) >= 0
    BY <1>1, <2>2 DEF c
  <2>4. 0 \in 0 .. c
    BY <1>1
  <2> HIDE DEF SoundSearch
  <2>5. QED
    BY <1>3, <2>1, <2>3, <2>4
<1>6. ASSUME NEW i \in 0 .. c - 1, i \in T PROVE i + 1 \in T
  <2> DEFINE g == r[i]
  <2>1. i + 1 \in 0 .. c /\ r[i + 1] = SortTurn(g) /\ i \in Nat
    BY <1>1, <1>3
  <2>2. SoundSearch(g) /\ (FirstMatch(g) >= i \/ ~(FirstMatch(g) < LastEmpty(g)))
    BY <1>6
  <2> HIDE DEF g
  <2>3. CASE FirstMatch(g) < LastEmpty(g)
    <3>1. PICK l : Finished(sm, g, l) /\ l[0] = Opening(sm)
      BY <2>2
    <3>2. /\ \E k : Finished(sm, SortTurn(g), k) /\ k[0] = Opening(sm)
          /\ SortTurn(g).count = g.count
          /\ FirstMatch(SortTurn(g)) >= FirstMatch(g) + 1
      BY <2>3, <3>1, SortTurnIs
    <3>3. SoundSearch(SortTurn(g))
      BY <2>2, <3>2
    <3>4. FirstMatch(g) \in Nat /\ FirstMatch(SortTurn(g)) \in Nat
      <4>1. g.count \in Nat /\ SortTurn(g).count \in Nat
        BY <1>1, <2>2, <3>3
      <4>2. FirstMatch(g) \in 0 .. g.count /\ FirstMatch(SortTurn(g)) \in 0 .. SortTurn(g).count
        BY <4>1, FirstMatchIs
      <4>3. QED
        BY <4>1, <4>2
    <3>5. FirstMatch(SortTurn(g)) >= i + 1
      BY <2>1, <2>2, <2>3, <3>2, <3>4
    <3> HIDE DEF SoundSearch
    <3>6. QED
      BY <2>1, <3>3, <3>5
  <2>4. CASE ~(FirstMatch(g) < LastEmpty(g))
    <3>1. SortTurn(g) = g
      BY <2>4 DEF SortTurn
    <3> HIDE DEF SoundSearch
    <3>2. QED
      BY <2>1, <2>2, <2>4, <3>1
  <2>5. QED
    BY <2>3, <2>4
<1> HIDE DEF T
<1>7. 0 .. c \subseteq T
  BY <1>1, <1>5, <1>6, UpTo
<1> DEFINE g == r[c]
<1>8. SoundSearch(g) /\ (FirstMatch(g) >= c \/ ~(FirstMatch(g) < LastEmpty(g)))
  <2>1. c \in 0 .. c
    BY <1>1
  <2> HIDE DEF SoundSearch
  <2>2. QED
    BY <1>7, <2>1 DEF T
<1> HIDE DEF g
<1>9. g.count = c /\ g.count \in Nat
  BY <1>1, <1>8
<1> DEFINE f == FirstMatch(g)
           e == LastEmpty(g)
<1>10. /\ f \in 0 .. c /\ (\A s \in 0 .. c - 1 : s < f => g.match[s] = <<>>)
       /\ e \in -1 .. c - 1 /\ (\A s \in 0 .. c - 1 : e < s => g.match[s] # <<>>)
       /\ (f < c => g.match[f] # <<>>) /\ (e >= 0 => g.match[e] = <<>>)
  BY <1>9, FirstMatchIs, LastEmptyIs
<1>11. f >= c \/ ~(f < e)
  BY <1>8
<1> HIDE DEF f, e
<1>12. e < f
  <2>1. CASE f = e
    <3>1. f < c /\ e >= 0
      BY <1>1, <1>10, <2>1
    <3>2. QED
      BY <1>10, <2>1, <3>1
  <2>2. CASE f # e
    BY <1>1, <1>10, <1>11, <2>2
  <2>3. QED
    BY <2>1, <2>2
<1>13. ASSUME NEW s \in 0 .. c - 1 PROVE (g.match[s] # <<>>) <=> s >= f
  <2>1. CASE s < f
    BY <1>10, <2>1
  <2>2. CASE ~(s < f)
    <3>1. s >= f /\ e < s
      BY <1>10, <1>12, <2>2
    <3>2. QED
      BY <1>10, <3>1
  <2>3. QED
    BY <2>1, <2>2, <1>10
<1>14. Sorted(m).m = g /\ Sorted(m).limit = f /\ f \in Nat
  BY <1>2, <1>4, <1>10 DEF g, f
<1>15. QED
  BY <1>8, <1>9, <1>13, <1>14 DEF c

(***************************************************************************)
(* Symbols: a column for every character that a pattern has.               *)
(***************************************************************************)

WidthLoop(n, r, symbols) == r[0] = 2 /\ \A i \in 0 .. n - 1 : r[i + 1] = Doubled(r[i], symbols)

\* The width of a row, doubling by doubling.
LEMMA WidthSteps ==
  ASSUME NEW symbols, symbols \in Nat
  PROVE  \E r : WidthLoop(symbols, r, symbols) /\ Width(symbols) = r[symbols]
<1> DEFINE F(n, r) == r = [i \in 0 .. n |-> IF i = 0 THEN 2 ELSE Doubled(r[i - 1], symbols)]
           T == {n \in Nat : \E r : F(n, r)}
<1>1. 0 \in T
  <2>1. F(0, [i \in 0 .. 0 |-> 2])
    OBVIOUS
  <2>2. QED
    BY <2>1
<1>2. ASSUME NEW n \in Nat, n \in T PROVE n + 1 \in T
  <2>1. PICK r : F(n, r)
    BY <1>2
  <2> DEFINE q == [i \in 0 .. n + 1 |-> IF i = n + 1 THEN Doubled(r[n], symbols) ELSE r[i]]
  <2>2. ASSUME NEW i \in 0 .. n + 1
        PROVE  q[i] = IF i = 0 THEN 2 ELSE Doubled(q[i - 1], symbols)
    BY <2>1
  <2>3. F(n + 1, q)
    BY <2>2
  <2> HIDE DEF F, q
  <2>4. QED
    BY <2>3
<1>3. symbols \in T
  BY <1>1, <1>2, Induction
<1> DEFINE N == symbols
           w == CHOOSE r : F(N, r)
<1>4. F(N, w)
  BY <1>3
<1>5. Width(symbols) = w[symbols]
  BY DEF Width
<1>6. WidthLoop(N, w, symbols)
  <2> HIDE DEF w, N
  <2>1. w = [i \in 0 .. N |-> IF i = 0 THEN 2 ELSE Doubled(w[i - 1], symbols)] /\ N \in Nat
    BY <1>4 DEF N
  <2>2. w[0] = 2
    BY <2>1
  <2>3. ASSUME NEW i \in 0 .. N - 1 PROVE w[i + 1] = Doubled(w[i], symbols)
    <3>1. i + 1 \in 0 .. N /\ i + 1 # 0 /\ i + 1 - 1 = i
      BY <2>1
    <3>2. w[i + 1] = Doubled(w[i + 1 - 1], symbols)
      BY <2>1, <3>1
    <3>3. QED
      BY <3>1, <3>2
  <2>4. QED
    BY <2>2, <2>3 DEF WidthLoop
<1>7. QED
  <2> HIDE DEF w
  <2>1. QED
    BY <1>5, <1>6

\* It is enough for all symbols.
LEMMA WidthIs ==
  ASSUME NEW n \in Nat
  PROVE  Width(n) \in Nat /\ Width(n) >= n /\ Width(n) >= 1
<1>1. PICK r : WidthLoop(n, r, n) /\ Width(n) = r[n]
  BY WidthSteps
<1>2. r[0] = 2 /\ \A i \in 0 .. n - 1 : r[i + 1] = Doubled(r[i], n)
  BY <1>1 DEF WidthLoop
<1> DEFINE T == {i \in 0 .. n : r[i] \in Nat /\ r[i] >= 1 /\ (r[i] >= n \/ r[i] >= i)}
<1>3. 0 \in T
  BY <1>2
<1>4. ASSUME NEW i \in 0 .. n - 1, i \in T PROVE i + 1 \in T
  <2> DEFINE w == r[i]
             v == r[i + 1]
  <2>1. v = (IF w < n THEN 2 * w ELSE w) /\ w \in Nat /\ w >= 1 /\ (w >= n \/ w >= i)
    BY <1>2, <1>4 DEF Doubled
  <2> HIDE DEF w, v
  <2>2. v \in Nat /\ v >= 1 /\ (v >= n \/ v >= i + 1)
    BY <2>1
  <2>3. QED
    BY <2>2 DEF v
<1> HIDE DEF T
<1>5. 0 .. n \subseteq T
  BY <1>3, <1>4, UpTo
<1>6. n \in T
  BY <1>5
<1>7. QED
  BY <1>1, <1>6 DEF T

\* The symbols: the characters of the patterns and the anchors in use.
LEMMA AllSymbolsAre ==
  ASSUME NEW sm, Registered(sm)
  PROVE  /\ AllSymbols(sm) \in Seq(Alphabet) /\ Len(AllSymbols(sm)) \in Nat
         /\ Elements(AllSymbols(sm)) = Used(sm)
<1> DEFINE S == Alphabet
           a == AnchorStart
           b == AnchorEnd
           x == sm.symbols
           y == IF sm.begin THEN AddSymbol(x, a) ELSE x
           z == IF sm.end THEN AddSymbol(y, b) ELSE y
<1>1. a \in S /\ b \in S /\ 0 .. Chars - 1 \subseteq S
  BY Characters
<1>2. x \in Seq(0 .. Chars - 1)
  BY DEF Registered
<1>3. z = AllSymbols(sm)
  BY DEF AllSymbols
<1>4. Used(sm) = Elements(x) \cup (IF sm.begin THEN {a} ELSE {}) \cup (IF sm.end THEN {b} ELSE {})
  BY DEF Used
<1> HIDE DEF S, a, b, x
<1>5. x \in Seq(S)
  BY <1>1, <1>2, SeqInto
<1>6. y \in Seq(S) /\ Elements(y) = Elements(x) \cup (IF sm.begin THEN {a} ELSE {})
  <2>1. AddSymbol(x, a) \in Seq(S) /\ Elements(AddSymbol(x, a)) = Elements(x) \cup {a}
    BY <1>1, <1>5, AddSymbolIs
  <2>2. QED
    BY <1>5, <2>1
<1> HIDE DEF y
<1>7. z \in Seq(S) /\ Elements(z) = Elements(y) \cup (IF sm.end THEN {b} ELSE {})
  <2>1. AddSymbol(y, b) \in Seq(S) /\ Elements(AddSymbol(y, b)) = Elements(y) \cup {b}
    <3>1. y \in Seq(S) /\ b \in S
      BY <1>1, <1>6
    <3>2. QED
      BY <3>1, AddSymbolIs
  <2>2. QED
    BY <1>6, <2>1
<1> HIDE DEF z
<1>8. Len(z) \in Nat
  BY <1>7
<1>9. QED
  BY <1>3, <1>4, <1>6, <1>7, <1>8 DEF S

\* The place of a symbol in the list, 0 if it is not there.
LEMMA PlaceIs ==
  ASSUME NEW all \in Seq(Alphabet), NEW c
  PROVE  /\ Place(all, c) \in 0 .. Len(all)
         /\ c \in Elements(all) => Place(all, c) # 0 /\ all[Place(all, c)] = c
         /\ c \notin Elements(all) => Place(all, c) = 0
<1> DEFINE n == Len(all)
           S == {i \in DOMAIN all : all[i] = c} \cup {0}
           g == Greatest(S)
<1>1. n \in Nat /\ DOMAIN all = 1 .. n
  BY DEF Text
<1>2. S \subseteq 0 .. n /\ S # {} /\ S \subseteq -1 .. n
  BY <1>1
<1>3. Place(all, c) = g
  BY DEF Place
<1> HIDE DEF S, g, n
<1>4. g \in S /\ \A y \in S : y <= g
  BY <1>1, <1>2, GreatestIs DEF g
<1>5. ASSUME c \in Elements(all) PROVE g # 0 /\ all[g] = c
  <2>1. PICK i \in DOMAIN all : all[i] = c
    BY <1>5 DEF Elements
  <2>2. i \in S /\ i >= 1
    BY <1>1, <2>1 DEF S
  <2>3. g # 0
    BY <1>1, <1>2, <1>4, <2>2
  <2>4. QED
    BY <1>4, <2>3 DEF S
<1>6. ASSUME c \notin Elements(all) PROVE g = 0
  BY <1>4, <1>6 DEF S, Elements
<1>7. QED
  BY <1>2, <1>3, <1>4, <1>5, <1>6 DEF n

Fold(sm, c) == IF sm.nocase THEN ToLower(c) ELSE c

Folded(sm) == sm.nocase => \A x \in Elements(sm.symbols) : ToLower(x) = x

\* Folding twice is folding once, and the anchors have no case.
LEMMA FoldIs ==
  ASSUME NEW sm, NEW c \in Alphabet
  PROVE  /\ Fold(sm, c) \in Alphabet /\ Fold(sm, Fold(sm, c)) = Fold(sm, c)
         /\ c <= Fold(sm, c)
         /\ \A g \in Alphabet : Fold(sm, c) <= g /\ Fold(sm, g) = Fold(sm, c) => g = Fold(sm, c)
BY Characters DEF Fold, ToLower

\* The characters of the patterns are folded already.
LEMMA UsedFolded ==
  ASSUME NEW sm, Folded(sm), NEW x \in Used(sm)
  PROVE  Fold(sm, x) = x
<1>1. Fold(sm, AnchorStart) = AnchorStart /\ Fold(sm, AnchorEnd) = AnchorEnd
  BY Characters DEF Fold, ToLower
<1>2. CASE x \in Elements(sm.symbols)
  BY <1>2 DEF Folded, Fold
<1>3. CASE x \in {AnchorStart, AnchorEnd}
  BY <1>1, <1>3
<1>4. QED
  BY <1>2, <1>3 DEF Used

\* A number that is cut to N values is not greater, and the same when it was below N.
LEMMA CutNumber ==
  ASSUME NEW N \in Nat, N > 0, NEW x \in Nat
  PROVE  /\ x % N \in Nat /\ x % N <= x
         /\ x < N => x % N = x
<1> DEFINE q == x \div N
           r == x % N
<1>1. q \in Nat /\ r \in 0 .. N - 1 /\ x = N * q + r
  OBVIOUS
<1> HIDE DEF q, r
<1>2. CASE q = 0
  BY <1>1, <1>2 DEF r
<1>3. CASE q >= 1
  <2> DEFINE k == q - 1
  <2>1. k \in Nat /\ N * q = N * k + N
    BY <1>1, <1>3
  <2>2. N * k >= 0 /\ N * k \in Nat
    BY <2>1
  <2>3. N * q >= N /\ N * q \in Nat
    BY <2>1, <2>2
  <2>4. QED
    BY <1>1, <2>3 DEF r
<1>4. QED
  BY <1>1, <1>2, <1>3

\* The widths are positive.
LEMMA Widths ==
  /\ SymbolValues \in Nat /\ SymbolValues > 0 /\ CellValues \in Nat /\ CellValues > 0
  /\ PendingValues \in Nat /\ PendingValues > 0
BY WidthAssumption

FewSymbols(sm) == Len(AllSymbols(sm)) < SymbolValues

\* Two characters share a symbol when they fold to the same or are of no pattern.
LEMMA SymbolsAre ==
  ASSUME NEW sm, Registered(sm), NEW c \in Alphabet
  PROVE  /\ Symbols(sm)[c] \in 0 .. Len(AllSymbols(sm))
         /\ FewSymbols(sm) => Symbols(sm)[c] = Place(AllSymbols(sm), Fold(sm, c))
         /\ FewSymbols(sm) /\ Fold(sm, c) \in Used(sm) =>
              Symbols(sm)[c] # 0 /\ AllSymbols(sm)[Symbols(sm)[c]] = Fold(sm, c)
         /\ Fold(sm, c) \notin Used(sm) => Symbols(sm)[c] = 0
<1>1. Symbols(sm)[c] = Place(AllSymbols(sm), Fold(sm, c)) % SymbolValues
  BY DEF Symbols, Fold
<1>2. AllSymbols(sm) \in Seq(Alphabet) /\ Elements(AllSymbols(sm)) = Used(sm)
  BY AllSymbolsAre
<1> DEFINE all == AllSymbols(sm)
           f == Fold(sm, c)
<1> HIDE DEF all, f
<1>3. all \in Seq(Alphabet) /\ Elements(all) = Used(sm)
  BY <1>2 DEF all
<1>4. /\ Place(all, f) \in 0 .. Len(all)
      /\ f \in Elements(all) => Place(all, f) # 0 /\ all[Place(all, f)] = f
      /\ f \notin Elements(all) => Place(all, f) = 0
  BY <1>3, PlaceIs
<1>5. Len(all) \in Nat
  BY <1>3
<1> DEFINE x == Place(all, f)
<1>6. x \in Nat /\ x <= Len(all)
  BY <1>4, <1>5
<1>7. x % SymbolValues \in Nat /\ x % SymbolValues <= x /\ (x < SymbolValues => x % SymbolValues = x)
  BY <1>6, Widths, CutNumber
<1>8. Symbols(sm)[c] = x % SymbolValues /\ (FewSymbols(sm) <=> Len(all) < SymbolValues)
  BY <1>1 DEF all, f, FewSymbols
<1> HIDE DEF x
<1>9. Symbols(sm)[c] \in 0 .. Len(all) /\ (FewSymbols(sm) => Symbols(sm)[c] = x) /\ (x = 0 => Symbols(sm)[c] = 0)
  BY <1>5, <1>6, <1>7, <1>8, Widths
<1>10. QED
  BY <1>3, <1>4, <1>9 DEF all, f, x

Columns(symbols, k) == {c \in Alphabet : symbols[c] = k}

\* The character that a column is made from is the last of those that share it.
LEMMA ColumnIs ==
  ASSUME NEW symbols, NEW k, Columns(symbols, k) # {}
  PROVE  Greatest(Columns(symbols, k)) \in Columns(symbols, k)
         /\ \A x \in Columns(symbols, k) : x <= Greatest(Columns(symbols, k))
<1> DEFINE S == Columns(symbols, k)
           N == Chars + 1
<1>1. N \in Nat /\ S \subseteq -1 .. N
  BY Characters DEF Columns
<1>2. S # {}
  OBVIOUS
<1> HIDE DEF S, N
<1>3. Greatest(S) \in S /\ \A x \in S : x <= Greatest(S)
  BY <1>1, <1>2, GreatestIs
<1>4. QED
  BY <1>3 DEF S

\* Characters that share a symbol are the two cases of a letter, or in no pattern.
LEMMA SharedColumn ==
  ASSUME NEW sm, Registered(sm), FewSymbols(sm), NEW c \in Alphabet
  PROVE  LET g == Greatest(Columns(Symbols(sm), Symbols(sm)[c]))
         IN /\ g \in Alphabet
            /\ Fold(sm, c) \in Used(sm) => g = Fold(sm, c)
            /\ Fold(sm, c) \notin Used(sm) => Fold(sm, g) \notin Used(sm)
<1> DEFINE k == Symbols(sm)[c]
           C == Columns(Symbols(sm), k)
           g == Greatest(C)
           f == Fold(sm, c)
<1>1. c \in C
  BY DEF Columns
<1>2. g \in C /\ \A x \in C : x <= g
  BY <1>1, ColumnIs
<1>3. \A x \in C : x \in Alphabet /\ Symbols(sm)[x] = k
  BY DEF Columns
<1>4. f \in Alphabet /\ Fold(sm, f) = f /\ \A x \in Alphabet : f <= x /\ Fold(sm, x) = f => x = f
  BY FoldIs
<1> HIDE DEF C, g, f
<1>5. g \in Alphabet /\ Symbols(sm)[g] = k
  BY <1>2, <1>3
<1>6. ASSUME f \in Used(sm) PROVE g = f
  <2>1. k # 0 /\ AllSymbols(sm)[k] = f
    BY <1>6, SymbolsAre DEF f
  <2>2. Fold(sm, g) = f
    BY <1>5, <2>1, SymbolsAre
  <2>3. Symbols(sm)[f] = k
    <3>1. Symbols(sm)[f] = Place(AllSymbols(sm), Fold(sm, f)) /\ k = Place(AllSymbols(sm), f)
      BY <1>4, SymbolsAre DEF f
    <3>2. QED
      BY <1>4, <3>1
  <2>4. f \in C
    BY <1>4, <2>3 DEF C, Columns
  <2>5. QED
    BY <1>2, <1>4, <1>5, <2>2, <2>4
<1>7. ASSUME f \notin Used(sm) PROVE Fold(sm, g) \notin Used(sm)
  <2>1. k = 0
    BY <1>7, SymbolsAre DEF f
  <2>2. QED
    BY <1>5, <2>1, SymbolsAre
<1>8. QED
  BY <1>5, <1>6, <1>7 DEF g, C, f

(***************************************************************************)
(* The final table.                                                        *)
(***************************************************************************)
RowWidth(sm) == Width(Len(AllSymbols(sm)) + 1)

\* The width of a row is a number.
LEMMA RowWidthIs ==
  ASSUME NEW sm, Registered(sm)
  PROVE  /\ RowWidth(sm) \in Nat /\ RowWidth(sm) >= 1
         /\ \A c \in Alphabet : Symbols(sm)[c] \in 0 .. RowWidth(sm) - 1
         /\ Symbols(sm) \in [Alphabet -> 0 .. RowWidth(sm) - 1]
<1> DEFINE n == Len(AllSymbols(sm))
           w == RowWidth(sm)
<1>1. n \in Nat /\ n + 1 \in Nat
  BY AllSymbolsAre
<1>2. w \in Nat /\ w >= n + 1 /\ w >= 1
  <2>1. Width(n + 1) \in Nat /\ Width(n + 1) >= n + 1 /\ Width(n + 1) >= 1
    BY <1>1, WidthIs
  <2>2. QED
    BY <2>1 DEF RowWidth
<1>3. ASSUME NEW c \in Alphabet PROVE Symbols(sm)[c] \in 0 .. w - 1
  <2>1. Symbols(sm)[c] \in 0 .. n
    BY SymbolsAre
  <2> HIDE DEF n, w
  <2>2. QED
    BY <1>1, <1>2, <2>1
<1>4. Symbols(sm) \in [Alphabet -> 0 .. w - 1]
  BY <1>3 DEF Symbols
<1>5. QED
  BY <1>2, <1>3, <1>4

\* Every cell of the final table is one of its rows.
LEMMA FinalTableIn ==
  ASSUME NEW sm, NEW m, NEW lab, Finished(sm, m, lab), NEW symbols, NEW width
  PROVE  FinalTable(m, symbols, width) \in [0 .. m.count - 1 -> [0 .. width - 1 -> 0 .. m.count - 1]]
<1> DEFINE c == m.count
<1>1. c \in Nat /\ c >= 1 /\ 0 \in 0 .. c - 1
  BY FinishedIs
<1>2. ASSUME NEW row \in 0 .. c - 1, NEW k \in 0 .. width - 1
      PROVE  (IF Columns(symbols, k) = {} THEN 0 ELSE m.goto[row][Greatest(Columns(symbols, k))] % CellValues) \in 0 .. c - 1
  <2>1. CASE Columns(symbols, k) = {}
    BY <1>1, <2>1
  <2>2. CASE Columns(symbols, k) # {}
    <3> DEFINE g == Greatest(Columns(symbols, k))
    <3>1. g \in Columns(symbols, k)
      BY <2>2, ColumnIs
    <3>2. g \in Alphabet
      BY <3>1 DEF Columns
    <3> HIDE DEF g
    <3>3. m.goto[row][g] \in 0 .. c - 1
      BY <3>2 DEF Finished, Goes
    <3>4. m.goto[row][g] % CellValues \in 0 .. c - 1
      <4> DEFINE x == m.goto[row][g]
      <4>1. x \in Nat /\ x <= c - 1
        BY <1>1, <3>3
      <4> HIDE DEF x, c
      <4>2. x % CellValues \in Nat /\ x % CellValues <= x
        BY <4>1, Widths, CutNumber
      <4>3. x % CellValues \in 0 .. c - 1
        BY <1>1, <4>1, <4>2
      <4>4. QED
        BY <4>3 DEF x
    <3>5. QED
      BY <2>2, <3>4 DEF g
  <2>3. QED
    BY <2>1, <2>2
<1>3. FinalTable(m, symbols, width) =
        [row \in 0 .. c - 1 |->
          [k \in 0 .. width - 1 |-> IF Columns(symbols, k) = {} THEN 0 ELSE m.goto[row][Greatest(Columns(symbols, k))] % CellValues]]
  BY DEF FinalTable, Columns
<1>4. QED
  BY <1>2, <1>3

\* A character of no pattern leads back to the row of the empty text.
LEMMA UnknownBest ==
  ASSUME NEW lab, NEW n, Labels(lab, n), NEW U, \A s \in 0 .. n - 1 : Elements(lab[s]) \subseteq U,
         NEW v \in Text, NEW g \in Alphabet, NEW f \in Alphabet, g \notin U, f \notin U,
         NEW t, IsBest(lab, n, Append(v, g), t)
  PROVE  IsBest(lab, n, Append(v, f), t)
<1>1. ASSUME NEW a \in Alphabet, a \notin U, NEW x \in 0 .. n - 1, Sfx(lab[x], Append(v, a)) PROVE lab[x] = <<>>
  <2>1. ASSUME lab[x] # <<>> PROVE FALSE
    <3>1. PICK p \in 0 .. n - 1 : lab[x] = Append(lab[p], a) /\ Sfx(lab[p], v)
      BY <1>1, <2>1, LabelShorter
    <3>2. lab[p] \in Text
      BY DEF Labels
    <3>3. Elements(Append(lab[p], a)) = Elements(lab[p]) \cup {a}
      BY <3>2, ElementsOf
    <3>4. a \in Elements(lab[x])
      BY <3>1, <3>3
    <3>5. QED
      BY <1>1, <3>4
  <2>2. QED
    BY <2>1
<1>2. t \in 0 .. n - 1 /\ Sfx(lab[t], Append(v, g))
  BY DEF IsBest
<1>3. lab[t] = <<>>
  BY <1>1, <1>2
<1>4. Append(v, f) \in Text
  BY Appended
<1> DEFINE w == Append(v, f)
           e == lab[t]
<1>5. \A x \in 0 .. n - 1 : Sfx(lab[x], w) => lab[x] = e
  BY <1>1, <1>3
<1>6. e \in Text
  BY <1>2 DEF Labels
<1>7. Len(e) \in Nat
  BY <1>6, LenNonNegative
<1>8. Sfx(e, w)
  <2> HIDE DEF w, e
  <2>1. e = <<>>
    BY <1>3 DEF e
  <2>2. w \in Text
    BY <1>4 DEF w
  <2>3. Sfx(<<>>, w)
    BY <2>2, SfxEmpty DEF Text
  <2>4. QED
    BY <2>1, <2>3
<1>9. \A x \in 0 .. n - 1 : Sfx(lab[x], w) => Len(lab[x]) <= Len(e)
  <2> HIDE DEF w, e
  <2>1. Len(e) <= Len(e)
    BY <1>7
  <2>2. QED
    BY <1>5, <2>1
<1>10. QED
  BY <1>2, <1>8, <1>9 DEF IsBest

\* smack_stage4_make_final_table(): a step of it leads to the best row for the folded character.
LEMMA FinalTableBest ==
  ASSUME NEW sm, Registered(sm), Folded(sm), ~Hacked(sm), FewSymbols(sm), NEW m, m.count <= CellValues, NEW lab,
         Finished(sm, m, lab), NEW row \in 0 .. m.count - 1, NEW c \in Alphabet
  PROVE  IsBest(lab, m.count, Append(lab[row], Fold(sm, c)),
                FinalTable(m, Symbols(sm), RowWidth(sm))[row][Symbols(sm)[c]])
<1> DEFINE n == m.count
           k == Symbols(sm)[c]
           C == Columns(Symbols(sm), k)
           g == Greatest(C)
           f == Fold(sm, c)
           t == m.goto[row][g]
<1>1. Labels(lab, n) /\ lab[row] \in Text /\ \A s \in 0 .. n - 1 : Elements(lab[s]) \subseteq Used(sm)
  BY FinishedIs DEF Finished
<1>2. k \in 0 .. RowWidth(sm) - 1
  BY RowWidthIs
<1>3. C # {}
  BY DEF Columns
<1>4. FinalTable(m, Symbols(sm), RowWidth(sm))[row][k] = t
  <2>1. FinalTable(m, Symbols(sm), RowWidth(sm)) =
          [x \in 0 .. n - 1 |->
            [y \in 0 .. RowWidth(sm) - 1 |-> IF Columns(Symbols(sm), y) = {} THEN 0
                                           ELSE m.goto[x][Greatest(Columns(Symbols(sm), y))] % CellValues]]
    BY DEF FinalTable, Columns
  <2>2. g \in Alphabet
    <3>1. g \in C
      BY <1>3, ColumnIs
    <3>2. QED
      BY <3>1 DEF Columns
  <2>3. n \in Nat /\ t \in 0 .. n - 1
    <3>1. n \in Nat
      BY FinishedIs
    <3> HIDE DEF g
    <3>2. t \in 0 .. n - 1
      BY <2>2 DEF Finished, Goes
    <3>3. QED
      BY <3>1, <3>2
  <2>4. t % CellValues = t
    <3> HIDE DEF t, n
    <3>1. t \in Nat /\ t < CellValues
      BY <2>3, Widths DEF n
    <3>2. QED
      BY <3>1, Widths, CutNumber
  <2> HIDE DEF k
  <2>5. QED
    BY <1>2, <1>3, <2>1, <2>4
<1>5. g \in Alphabet /\ (f \in Used(sm) => g = f) /\ (f \notin Used(sm) => Fold(sm, g) \notin Used(sm))
  BY SharedColumn
<1>6. f \in Alphabet
  BY FoldIs
<1> HIDE DEF g, f, C, k
<1>7. IsBest(lab, n, Append(lab[row], g), t)
  BY <1>5 DEF Finished, Goes
<1>8. CASE f \in Used(sm)
  BY <1>4, <1>5, <1>7, <1>8 DEF f, k
<1>9. CASE f \notin Used(sm)
  <2>1. g \notin Used(sm)
    <3>1. ASSUME g \in Used(sm) PROVE Fold(sm, g) = g
      BY <3>1, UsedFolded
    <3>2. QED
      BY <1>5, <1>9, <3>1
  <2> DEFINE U == Used(sm)
             v == lab[row]
  <2> HIDE DEF U, v, n, t
  <2>2. v \in Text /\ g \notin U /\ f \notin U /\ Labels(lab, n) /\ (\A s \in 0 .. n - 1 : Elements(lab[s]) \subseteq U)
        /\ IsBest(lab, n, Append(v, g), t)
    BY <1>1, <1>7, <1>9, <2>1 DEF U, v
  <2>3. IsBest(lab, n, Append(v, f), t)
    BY <1>5, <1>6, <2>2, UnknownBest
  <2>4. QED
    BY <1>4, <2>3 DEF f, k, n, v
<1>10. QED
  BY <1>8, <1>9

\* The stages up to the sorting, one after the other.
LEMMA RowedIs ==
  ASSUME NEW sm, Registered(sm)
  PROVE  /\ \E lab : Finished(sm, Rowed(sm).m, lab) /\ lab[0] = Opening(sm)
         /\ Rowed(sm).limit \in Nat
         /\ \A s \in 0 .. Rowed(sm).m.count - 1 : (Rowed(sm).m.match[s] # <<>>) <=> s >= Rowed(sm).limit
<1> DEFINE p == CompilePrefixes(sm)
           f == WithFails(p)
           l == Linked(f)
           a == AnchorFirst(sm, l)
<1>1. Rowed(sm) = Sorted(a)
  BY DEF Rowed
<1> HIDE DEF p, f, l, a
<1>2. PICK lab : Planted(sm, p, lab)
  BY CompilePrefixesPlanted DEF p
<1>3. Failed(sm, f, lab)
  BY <1>2, WithFailsFailed DEF f
<1>4. Finished(sm, l, lab) /\ l.count = f.count /\ lab[0] = <<>> /\ (sm.begin => f.count >= 2 /\ lab[1] = <<AnchorStart>>)
  BY <1>3, LinkedFinished DEF l
<1>5. PICK k : Finished(sm, a, k) /\ k[0] = Opening(sm) /\ a.count = l.count
  <2>1. sm.begin => l.count >= 2 /\ lab[1] = <<AnchorStart>>
    BY <1>4
  <2>2. lab[0] = <<>>
    BY <1>4
  <2>3. QED
    BY <1>4, <2>1, <2>2, AnchorFirstFinished DEF a
<1>6. /\ \E x : Finished(sm, Sorted(a).m, x) /\ x[0] = Opening(sm)
      /\ Sorted(a).m.count = a.count /\ Sorted(a).limit \in Nat
      /\ \A s \in 0 .. a.count - 1 : (Sorted(a).m.match[s] # <<>>) <=> s >= Sorted(a).limit
  BY <1>5, SortedIs
<1>7. QED
  BY <1>1, <1>6

\* The compiled tables of `count` rows, each of `width` cells.
Dfas(max, count, width) ==
  [table : [0 .. count - 1 -> [0 .. width - 1 -> 0 .. count - 1]], match : [0 .. max - 1 -> Seq(Nat)],
   limit : Nat, symbol : [Alphabet -> 0 .. width - 1], count : {count}]

\* All but the cells of the table.
Alike(d, e) == d.match = e.match /\ d.limit = e.limit /\ d.symbol = e.symbol /\ d.count = e.count

\* A '*' changes cells to rows of the table.
LEMMA FixupAtIn ==
  ASSUME NEW max, NEW count \in Nat, NEW width, NEW d \in Dfas(max, count, width), NEW sm, NEW pat, NEW j
  PROVE  FixupAt(d, sm, pat, j) \in Dfas(max, count, width) /\ Alike(FixupAt(d, sm, pat, j), d)
<1>1. CASE pat.text[j] # Star
  BY <1>1 DEF FixupAt, Alike
<1>2. CASE pat.text[j] = Star
  <2> DEFINE row  == Rows(d, 0, pat.text, 0)[j - 1]
             base == IF sm.begin THEN 1 ELSE 0
             next == Step(d, row, Star)
             t == [r \in 0 .. count - 1 |->
                     IF r = row THEN [k \in DOMAIN d.table[row] |-> IF d.table[row][k] = base THEN next ELSE d.table[row][k]]
                     ELSE d.table[r]]
             e == [d EXCEPT !.table = t]
  <2> HIDE DEF row, base, next
  <2>1. /\ d.table \in [0 .. count - 1 -> [0 .. width - 1 -> 0 .. count - 1]] /\ DOMAIN d.table = 0 .. count - 1
        /\ d.symbol \in [Alphabet -> 0 .. width - 1]
    BY DEF Dfas
  <2>2. FixupAt(d, sm, pat, j) = e
    BY <1>2, <2>1 DEF FixupAt, Dfas, row, base, next
  <2>3. ASSUME NEW r \in 0 .. count - 1
        PROVE  (IF r = row THEN [k \in DOMAIN d.table[row] |-> IF d.table[row][k] = base THEN next ELSE d.table[row][k]]
                ELSE d.table[r]) \in [0 .. width - 1 -> 0 .. count - 1]
    <3>1. CASE r = row
      <4>1. d.table[row] \in [0 .. width - 1 -> 0 .. count - 1] /\ DOMAIN d.table[row] = 0 .. width - 1
        BY <2>1, <3>1
      <4>2. d.symbol[Star] \in 0 .. width - 1
        BY <2>1, Characters
      <4>3. next \in 0 .. count - 1
        BY <4>1, <4>2 DEF next, Step
      <4>4. [k \in DOMAIN d.table[row] |-> IF d.table[row][k] = base THEN next ELSE d.table[row][k]]
                \in [0 .. width - 1 -> 0 .. count - 1]
        BY <4>1, <4>3
      <4>5. QED
        BY <3>1, <4>4
    <3>2. CASE r # row
      BY <2>1, <3>2
    <3>3. QED
      BY <3>1, <3>2
  <2>4. t \in [0 .. count - 1 -> [0 .. width - 1 -> 0 .. count - 1]]
    BY <2>3
  <2> HIDE DEF t
  <2>5. e \in Dfas(max, count, width) /\ Alike(e, d)
    BY <2>4 DEF Dfas, Alike
  <2>6. QED
    BY <2>2, <2>5
<1>3. QED
  BY <1>1, <1>2

FixedPatternLoop(n, r, d, sm, pat) == r[0] = d /\ \A i \in 0 .. n - 1 : r[i + 1] = FixupAt(r[i], sm, pat, i + 1)

\* The '*'s of a pattern, one after the other.
LEMMA FixedPatternSteps ==
  ASSUME NEW d, NEW sm, NEW pat, pat.wild, Len(pat.text) \in Nat
  PROVE  \E r : FixedPatternLoop(Len(pat.text), r, d, sm, pat) /\ FixupPattern(d, sm, pat) = r[Len(pat.text)]
<1> DEFINE F(n, r) == r = [i \in 0 .. n |-> IF i = 0 THEN d ELSE FixupAt(r[i - 1], sm, pat, i)]
           T == {n \in Nat : \E r : F(n, r)}
<1>1. 0 \in T
  <2>1. F(0, [i \in 0 .. 0 |-> d])
    OBVIOUS
  <2>2. QED
    BY <2>1
<1>2. ASSUME NEW n \in Nat, n \in T PROVE n + 1 \in T
  <2>1. PICK r : F(n, r)
    BY <1>2
  <2> DEFINE q == [i \in 0 .. n + 1 |-> IF i = n + 1 THEN FixupAt(r[n], sm, pat, (n + 1)) ELSE r[i]]
  <2>2. ASSUME NEW i \in 0 .. n + 1
        PROVE  q[i] = IF i = 0 THEN d ELSE FixupAt(q[i - 1], sm, pat, i)
    BY <2>1
  <2>3. F(n + 1, q)
    BY <2>2
  <2> HIDE DEF F, q
  <2>4. QED
    BY <2>3
<1>3. Len(pat.text) \in T
  BY <1>1, <1>2, Induction
<1> DEFINE N == Len(pat.text)
           w == CHOOSE r : F(N, r)
<1>4. F(N, w)
  BY <1>3
<1>5. FixupPattern(d, sm, pat) = w[Len(pat.text)]
  BY DEF FixupPattern
<1>6. FixedPatternLoop(N, w, d, sm, pat)
  <2> HIDE DEF w, N
  <2>1. w = [i \in 0 .. N |-> IF i = 0 THEN d ELSE FixupAt(w[i - 1], sm, pat, i)] /\ N \in Nat
    BY <1>4 DEF N
  <2>2. w[0] = d
    BY <2>1
  <2>3. ASSUME NEW i \in 0 .. N - 1 PROVE w[i + 1] = FixupAt(w[i], sm, pat, i + 1)
    <3>1. i + 1 \in 0 .. N /\ i + 1 # 0 /\ i + 1 - 1 = i
      BY <2>1
    <3>2. w[i + 1] = FixupAt(w[i + 1 - 1], sm, pat, i + 1)
      BY <2>1, <3>1
    <3>3. QED
      BY <3>1, <3>2
  <2>4. QED
    BY <2>2, <2>3 DEF FixedPatternLoop
<1>7. QED
  <2> HIDE DEF w
  <2>1. QED
    BY <1>5, <1>6

FixupWildcardsLoop(n, r, d, sm) == r[0] = d /\ \A i \in 0 .. n - 1 : r[i + 1] = FixupPattern(r[i], sm, sm.patterns[i + 1])

\* The patterns, one after the other.
LEMMA FixupWildcardsSteps ==
  ASSUME NEW d, NEW sm, Len(sm.patterns) \in Nat
  PROVE  \E r : FixupWildcardsLoop(Len(sm.patterns), r, d, sm) /\ FixupWildcards(d, sm) = r[Len(sm.patterns)]
<1> DEFINE F(n, r) == r = [i \in 0 .. n |-> IF i = 0 THEN d ELSE FixupPattern(r[i - 1], sm, sm.patterns[i])]
           T == {n \in Nat : \E r : F(n, r)}
<1>1. 0 \in T
  <2>1. F(0, [i \in 0 .. 0 |-> d])
    OBVIOUS
  <2>2. QED
    BY <2>1
<1>2. ASSUME NEW n \in Nat, n \in T PROVE n + 1 \in T
  <2>1. PICK r : F(n, r)
    BY <1>2
  <2> DEFINE q == [i \in 0 .. n + 1 |-> IF i = n + 1 THEN FixupPattern(r[n], sm, sm.patterns[(n + 1)]) ELSE r[i]]
  <2>2. ASSUME NEW i \in 0 .. n + 1
        PROVE  q[i] = IF i = 0 THEN d ELSE FixupPattern(q[i - 1], sm, sm.patterns[i])
    BY <2>1
  <2>3. F(n + 1, q)
    BY <2>2
  <2> HIDE DEF F, q
  <2>4. QED
    BY <2>3
<1>3. Len(sm.patterns) \in T
  BY <1>1, <1>2, Induction
<1> DEFINE N == Len(sm.patterns)
           w == CHOOSE r : F(N, r)
<1>4. F(N, w)
  BY <1>3
<1>5. FixupWildcards(d, sm) = w[Len(sm.patterns)]
  BY DEF FixupWildcards
<1>6. FixupWildcardsLoop(N, w, d, sm)
  <2> HIDE DEF w, N
  <2>1. w = [i \in 0 .. N |-> IF i = 0 THEN d ELSE FixupPattern(w[i - 1], sm, sm.patterns[i])] /\ N \in Nat
    BY <1>4 DEF N
  <2>2. w[0] = d
    BY <2>1
  <2>3. ASSUME NEW i \in 0 .. N - 1 PROVE w[i + 1] = FixupPattern(w[i], sm, sm.patterns[i + 1])
    <3>1. i + 1 \in 0 .. N /\ i + 1 # 0 /\ i + 1 - 1 = i
      BY <2>1
    <3>2. w[i + 1] = FixupPattern(w[i + 1 - 1], sm, sm.patterns[i + 1])
      BY <2>1, <3>1
    <3>3. QED
      BY <3>1, <3>2
  <2>4. QED
    BY <2>2, <2>3 DEF FixupWildcardsLoop
<1>7. QED
  <2> HIDE DEF w
  <2>1. QED
    BY <1>5, <1>6

\* A pattern's '*'s keep the table's shape, and a pattern without changes nothing.
LEMMA FixupPatternIn ==
  ASSUME NEW max, NEW count \in Nat, NEW width, NEW d \in Dfas(max, count, width), NEW sm, NEW pat, Len(pat.text) \in Nat
  PROVE  /\ FixupPattern(d, sm, pat) \in Dfas(max, count, width) /\ Alike(FixupPattern(d, sm, pat), d)
         /\ ~pat.wild => FixupPattern(d, sm, pat) = d
<1>1. CASE ~pat.wild
  BY <1>1 DEF FixupPattern, Alike
<1>2. CASE pat.wild
  <2> DEFINE n == Len(pat.text)
             D == Dfas(max, count, width)
  <2>1. PICK r : FixedPatternLoop(n, r, d, sm, pat) /\ FixupPattern(d, sm, pat) = r[n]
    BY <1>2, FixedPatternSteps
  <2>2. r[0] = d /\ \A i \in 0 .. n - 1 : r[i + 1] = FixupAt(r[i], sm, pat, i + 1)
    BY <2>1 DEF FixedPatternLoop
  <2> DEFINE T == {i \in 0 .. n : r[i] \in D /\ Alike(r[i], d)}
  <2>3. n \in Nat
    OBVIOUS
  <2> HIDE DEF n, D
  <2>4. 0 \in T
    BY <2>2, <2>3 DEF Alike, D
  <2>5. ASSUME NEW i \in 0 .. n - 1, i \in T PROVE i + 1 \in T
    <3>1. r[i] \in D /\ Alike(r[i], d) /\ i + 1 \in 0 .. n
      BY <2>3, <2>5
    <3>2. FixupAt(r[i], sm, pat, i + 1) \in D /\ Alike(FixupAt(r[i], sm, pat, i + 1), r[i])
      BY <3>1, FixupAtIn DEF D
    <3>3. Alike(FixupAt(r[i], sm, pat, i + 1), d)
      BY <3>1, <3>2 DEF Alike
    <3>4. QED
      BY <2>2, <3>1, <3>2, <3>3
  <2> HIDE DEF T
  <2>6. 0 .. n \subseteq T
    BY <2>3, <2>4, <2>5, UpTo
  <2>7. n \in T
    BY <2>3, <2>6
  <2>8. QED
    BY <1>2, <2>1, <2>7 DEF T, D
<1>3. QED
  BY <1>1, <1>2

\* So do those of all patterns.
LEMMA FixupWildcardsIn ==
  ASSUME NEW max, NEW count \in Nat, NEW width, NEW d \in Dfas(max, count, width), NEW sm, Registered(sm)
  PROVE  /\ FixupWildcards(d, sm) \in Dfas(max, count, width) /\ Alike(FixupWildcards(d, sm), d)
         /\ (\A i \in DOMAIN sm.patterns : ~sm.patterns[i].wild) => FixupWildcards(d, sm) = d
<1> DEFINE n == Len(sm.patterns)
           D == Dfas(max, count, width)
           plain == \A i \in DOMAIN sm.patterns : ~sm.patterns[i].wild
<1>1. n \in Nat /\ DOMAIN sm.patterns = 1 .. n
  BY DEF Registered
<1>2. \A i \in 1 .. n : Len(sm.patterns[i].text) \in Nat
  <2>1. ASSUME NEW i \in 1 .. n PROVE Len(sm.patterns[i].text) \in Nat
    <3>1. sm.patterns[i] \in PatternSet
      BY <1>1, RegisteredPattern
    <3>2. QED
      BY <3>1, LeadText
  <2>2. QED
    BY <2>1
<1>3. PICK r : FixupWildcardsLoop(n, r, d, sm) /\ FixupWildcards(d, sm) = r[n]
  BY <1>1, FixupWildcardsSteps
<1>4. r[0] = d /\ \A i \in 0 .. n - 1 : r[i + 1] = FixupPattern(r[i], sm, sm.patterns[i + 1])
  BY <1>3 DEF FixupWildcardsLoop
<1>5. plain => \A i \in 1 .. n : ~sm.patterns[i].wild
  BY <1>1
<1> HIDE DEF n, D, plain
<1> DEFINE T == {i \in 0 .. n : r[i] \in D /\ Alike(r[i], d) /\ (plain => r[i] = d)}
<1>6. 0 \in T
  BY <1>1, <1>4 DEF Alike, D
<1>7. ASSUME NEW i \in 0 .. n - 1, i \in T PROVE i + 1 \in T
  <2> DEFINE p == sm.patterns[i + 1]
  <2>1. r[i] \in D /\ Alike(r[i], d) /\ (plain => r[i] = d) /\ i + 1 \in 0 .. n /\ i + 1 \in 1 .. n
    BY <1>1, <1>7
  <2>2. Len(p.text) \in Nat /\ (plain => ~p.wild)
    BY <1>2, <1>5, <2>1
  <2> HIDE DEF p
  <2>3. /\ FixupPattern(r[i], sm, p) \in D /\ Alike(FixupPattern(r[i], sm, p), r[i])
        /\ ~p.wild => FixupPattern(r[i], sm, p) = r[i]
    BY <2>1, <2>2, FixupPatternIn DEF D
  <2>4. Alike(FixupPattern(r[i], sm, p), d)
    BY <2>1, <2>3 DEF Alike
  <2>5. r[i + 1] = FixupPattern(r[i], sm, p)
    BY <1>4 DEF p
  <2>6. QED
    BY <2>1, <2>2, <2>3, <2>4, <2>5
<1> HIDE DEF T
<1>8. 0 .. n \subseteq T
  BY <1>1, <1>6, <1>7, UpTo
<1>9. n \in T
  BY <1>1, <1>8
<1>10. QED
  BY <1>3, <1>9 DEF T, D, plain

\* What the search relies on.
FitsTables(sm, d, w) ==
  /\ w \in Nat /\ d.count \in Nat /\ d.count >= 1 /\ d.count <= StateMax(sm.patterns)
  /\ d \in Dfas(StateMax(sm.patterns), d.count, w)
  /\ \A s \in 0 .. d.count - 1 : (d.match[s] # <<>>) <=> s >= d.limit

\* A row is that of the longest label the text ends in, and has the matches of
\* the words the text ends in.
Follows(sm, d, lab) ==
  /\ Labels(lab, d.count) /\ lab[0] = Opening(sm)
  /\ \A i \in 1 .. Len(sm.patterns) : \E s \in 0 .. d.count - 1 : lab[s] = PatternWord(sm.patterns[i])
  /\ \A s \in 0 .. d.count - 1 : NoTwice(d.match[s]) /\ Elements(d.match[s]) = Hits(sm, lab[s])
  /\ \A s \in 0 .. d.count - 1, c \in Alphabet : IsBest(lab, d.count, Append(lab[s], Fold(sm, c)), Step(d, s, c))

\* The fields of the compiled table.
LEMMA AssembledIs ==
  ASSUME NEW sm, Registered(sm), NEW rows, NEW lab, Finished(sm, rows.m, lab), rows.limit \in Nat
  PROVE  /\ Assembled(rows, sm) \in Dfas(StateMax(sm.patterns), rows.m.count, RowWidth(sm))
         /\ Assembled(rows, sm).match = rows.m.match /\ Assembled(rows, sm).limit = rows.limit
         /\ Assembled(rows, sm).count = rows.m.count /\ Assembled(rows, sm).symbol = Symbols(sm)
         /\ Assembled(rows, sm).table = FinalTable(rows.m, Symbols(sm), RowWidth(sm))
<1> DEFINE t == FinalTable(rows.m, Symbols(sm), RowWidth(sm))
           y == Symbols(sm)
           c == rows.m.count
           w == RowWidth(sm)
           h == rows.m.match
           max == StateMax(sm.patterns)
           e == [table |-> t, match |-> h, limit |-> rows.limit, symbol |-> y, count |-> c]
<1>1. Assembled(rows, sm) = e
  BY DEF Assembled, RowWidth
<1>2. t \in [0 .. c - 1 -> [0 .. w - 1 -> 0 .. c - 1]]
  BY FinalTableIn
<1>3. y \in [Alphabet -> 0 .. w - 1]
  BY RowWidthIs
<1>4. h \in [0 .. max - 1 -> Seq(Nat)]
  BY FinishedIs, TablesAre
<1> HIDE DEF t, y, c, w, h, max
<1>5. e \in Dfas(max, c, w)
  BY <1>2, <1>3, <1>4 DEF Dfas
<1>6. QED
  BY <1>1, <1>5 DEF t, y, c, w, h, max

\* smack_compile(): the table fits, and without wildcards, skipped bytes and cuts it follows the patterns.
LEMMA CompiledFits ==
  ASSUME NEW sm, Registered(sm)
  PROVE  /\ FitsTables(sm, Compiled(sm), RowWidth(sm)) /\ Compiled(sm).symbol = Symbols(sm)
         /\ /\ Folded(sm) /\ NothingCut(sm, Compiled(sm))
            /\ \A i \in DOMAIN sm.patterns : ~sm.patterns[i].wild /\ ~sm.patterns[i].hack
            => \E lab : Follows(sm, Compiled(sm), lab)
<1> DEFINE rows == Rowed(sm)
           a == Assembled(rows, sm)
           d == Compiled(sm)
           c == rows.m.count
           w == RowWidth(sm)
           max == StateMax(sm.patterns)
<1>1. PICK lab : Finished(sm, rows.m, lab) /\ lab[0] = Opening(sm)
  BY RowedIs
<1>2. rows.limit \in Nat /\ \A s \in 0 .. c - 1 : (rows.m.match[s] # <<>>) <=> s >= rows.limit
  BY RowedIs
<1>3. c \in Nat /\ c >= 1 /\ c <= max /\ w \in Nat
  BY <1>1, FinishedIs, RowWidthIs
<1>4. d = FixupWildcards(a, sm)
  BY DEF Compiled
<1> HIDE DEF rows, c, w, max, d, a
<1>5. /\ a \in Dfas(max, c, w) /\ a.match = rows.m.match /\ a.limit = rows.limit /\ a.count = c
      /\ a.symbol = Symbols(sm) /\ a.table = FinalTable(rows.m, Symbols(sm), w)
  BY <1>1, <1>2, AssembledIs DEF a, c, w, max
<1>6. d \in Dfas(max, c, w) /\ Alike(d, a) /\ ((\A i \in DOMAIN sm.patterns : ~sm.patterns[i].wild) => d = a)
  BY <1>3, <1>4, <1>5, FixupWildcardsIn
<1>7. d.count = c /\ d.match = rows.m.match /\ d.limit = rows.limit /\ d.symbol = Symbols(sm)
  BY <1>5, <1>6 DEF Alike
<1>8. FitsTables(sm, d, w)
  BY <1>2, <1>3, <1>6, <1>7 DEF FitsTables, max
<1>9. ASSUME Folded(sm), NothingCut(sm, d), \A i \in DOMAIN sm.patterns : ~sm.patterns[i].wild /\ ~sm.patterns[i].hack
      PROVE  Follows(sm, d, lab)
  <2>1. d = a /\ ~Hacked(sm) /\ FewSymbols(sm) /\ c <= CellValues
    BY <1>6, <1>7, <1>9 DEF Hacked, FewSymbols, NothingCut
  <2>2. ASSUME NEW s \in 0 .. c - 1, NEW x \in Alphabet
        PROVE  IsBest(lab, c, Append(lab[s], Fold(sm, x)), Step(d, s, x))
    <3>1. Step(d, s, x) = FinalTable(rows.m, Symbols(sm), RowWidth(sm))[s][Symbols(sm)[x]]
      BY <1>5, <2>1 DEF Step, w
    <3>2. IsBest(lab, c, Append(lab[s], Fold(sm, x)), FinalTable(rows.m, Symbols(sm), RowWidth(sm))[s][Symbols(sm)[x]])
      BY <1>1, <1>9, <2>1, FinalTableBest DEF c
    <3>3. QED
      BY <3>1, <3>2
  <2>3. Labels(lab, c)
    BY <1>1, FinishedIs DEF c
  <2>4. /\ \A i \in 1 .. Len(sm.patterns) : \E s \in 0 .. c - 1 : lab[s] = PatternWord(sm.patterns[i])
        /\ \A s \in 0 .. c - 1 : NoTwice(rows.m.match[s]) /\ Elements(rows.m.match[s]) = Hits(sm, lab[s])
    BY <1>1 DEF Finished, c
  <2>5. QED
    BY <1>1, <1>7, <2>2, <2>3, <2>4 DEF Follows
<1>10. QED
  BY <1>7, <1>8, <1>9 DEF d, w

(***************************************************************************)
(* What smack_add_pattern() collects.                                      *)
(***************************************************************************)
LEMMA FoldChars ==
  ASSUME NEW sm, NEW c \in 0 .. Chars - 1
  PROVE  Fold(sm, c) \in 0 .. Chars - 1 /\ Fold(sm, Fold(sm, c)) = Fold(sm, c) /\ (c # Hack => Fold(sm, c) # Hack)
BY Characters DEF Fold, ToLower

\* The fields of a pattern.
LEMMA PatternFields ==
  ASSUME NEW p \in PatternSet
  PROVE  /\ p.text \in Seq(0 .. Chars - 1) /\ p.id \in Nat
         /\ p.begin \in BOOLEAN /\ p.end \in BOOLEAN /\ p.wild \in BOOLEAN /\ p.hack \in BOOLEAN
         /\ p = [text |-> p.text, id |-> p.id, begin |-> p.begin, end |-> p.end, wild |-> p.wild, hack |-> p.hack]
BY DEF PatternSet

Lower(sm, t) == [i \in DOMAIN t |-> Fold(sm, t[i])]

\* A text folded is as long as before, and folding it again changes nothing.
LEMMA LowerIs ==
  ASSUME NEW sm, NEW t \in Seq(0 .. Chars - 1)
  PROVE  /\ Lower(sm, t) \in Seq(0 .. Chars - 1) /\ Len(Lower(sm, t)) = Len(t) /\ DOMAIN Lower(sm, t) = DOMAIN t
         /\ \A i \in DOMAIN t : Lower(sm, t)[i] = Fold(sm, t[i])
         /\ Lower(sm, Lower(sm, t)) = Lower(sm, t)
         /\ (\A i \in DOMAIN t : Fold(sm, t[i]) = t[i]) => Lower(sm, t) = t
<1> DEFINE n == Len(t)
           w == Lower(sm, t)
           C == 0 .. Chars - 1
<1>1. n \in Nat /\ DOMAIN t = 1 .. n /\ \A i \in 1 .. n : t[i] \in C
  <2> HIDE DEF C
  <2>1. t \in Seq(C)
    BY DEF C
  <2>2. QED
    BY <2>1
<1>2. w = [i \in 1 .. n |-> Fold(sm, t[i])]
  BY <1>1 DEF Lower
<1>3. \A i \in 1 .. n : Fold(sm, t[i]) \in C /\ Fold(sm, Fold(sm, t[i])) = Fold(sm, t[i])
  BY <1>1, FoldChars
<1> HIDE DEF w, C
<1>4. w \in Seq(C) /\ Len(w) = n /\ DOMAIN w = 1 .. n /\ \A i \in 1 .. n : w[i] = Fold(sm, t[i])
  <2>1. w \in [1 .. n -> C]
    BY <1>2, <1>3
  <2> HIDE DEF n
  <2>2. w \in Seq(C)
    BY <1>1, <2>1
  <2>3. QED
    BY <1>1, <1>2, <2>1, <2>2
<1>5. Lower(sm, w) = w
  <2>1. Lower(sm, w) = [i \in 1 .. n |-> Fold(sm, w[i])]
    BY <1>4 DEF Lower
  <2>2. \A i \in 1 .. n : Fold(sm, w[i]) = w[i]
    BY <1>3, <1>4
  <2>3. \A i \in 1 .. n : Fold(sm, w[i]) = Fold(sm, t[i])
    BY <1>4, <2>2
  <2>4. QED
    BY <1>2, <2>1, <2>3
<1>6. ASSUME \A i \in DOMAIN t : Fold(sm, t[i]) = t[i] PROVE w = t
  <2>1. t = [i \in 1 .. n |-> t[i]]
    BY <1>1
  <2>2. \A i \in 1 .. n : Fold(sm, t[i]) = t[i]
    BY <1>1, <1>6
  <2>3. QED
    BY <1>2, <2>1, <2>2
<1>7. QED
  BY <1>1, <1>4, <1>5, <1>6 DEF w, C

\* What is kept of a pattern.
LEMMA KeptIs ==
  ASSUME NEW sm, NEW p \in PatternSet
  PROVE  /\ Kept(sm, p) \in PatternSet
         /\ Kept(sm, p).text = Lower(sm, p.text) /\ Kept(sm, p).id = p.id
         /\ Kept(sm, p).begin = p.begin /\ Kept(sm, p).end = p.end
         /\ Kept(sm, p).wild = p.wild /\ Kept(sm, p).hack = p.hack
         /\ Lower(sm, p.text) = p.text => Kept(sm, p) = p
<1> DEFINE w == Lower(sm, p.text)
           q == [p EXCEPT !.text = w]
<1>1. Kept(sm, p) = q
  <2>1. p.text \in Seq(0 .. Chars - 1)
    BY PatternFields
  <2>2. [i \in DOMAIN p.text |-> IF sm.nocase THEN ToLower(p.text[i]) ELSE p.text[i]] = w
    BY DEF Lower, Fold
  <2> HIDE DEF w
  <2>3. QED
    BY <2>2 DEF Kept
<1>2. w \in Seq(0 .. Chars - 1)
  BY PatternFields, LowerIs
<1> HIDE DEF w
<1>3. q \in PatternSet /\ q.text = w /\ q.id = p.id /\ q.begin = p.begin /\ q.end = p.end /\ q.wild = p.wild /\ q.hack = p.hack
  BY <1>2 DEF PatternSet
<1>4. w = p.text => q = p
  BY DEF PatternSet
<1> HIDE DEF q
<1>5. QED
  BY <1>1, <1>3, <1>4 DEF w

BarePattern(sm, q) == [Kept(sm, q) EXCEPT !.id = 0]

\* The pattern as the caller tells patterns apart.
LEMMA BareIs ==
  ASSUME NEW sm, NEW p \in PatternSet
  PROVE  BarePattern(sm, p) = [text |-> Lower(sm, p.text), id |-> 0, begin |-> p.begin, end |-> p.end, wild |-> p.wild, hack |-> p.hack]
<1> DEFINE q == Kept(sm, p)
<1>1. /\ q \in PatternSet
      /\ q.text = Lower(sm, p.text) /\ q.begin = p.begin /\ q.end = p.end /\ q.wild = p.wild /\ q.hack = p.hack
  BY KeptIs
<1> HIDE DEF q
<1>2. q = [text |-> q.text, id |-> q.id, begin |-> q.begin, end |-> q.end, wild |-> q.wild, hack |-> q.hack]
  BY <1>1, PatternFields
<1>3. [q EXCEPT !.id = 0] = [text |-> q.text, id |-> 0, begin |-> q.begin, end |-> q.end, wild |-> q.wild, hack |-> q.hack]
  BY <1>1 DEF PatternSet
<1>4. QED
  BY <1>1, <1>3 DEF BarePattern, q

Collected(sm) ==
  /\ sm \in [nocase : BOOLEAN, symbols : Seq(0 .. Chars - 1), begin : BOOLEAN, end : BOOLEAN,
             patterns : Seq(PatternSet), room : Nat]
  /\ \A i \in DOMAIN sm.patterns : PatternFits(sm, i, sm.patterns[i]) /\ Lower(sm, sm.patterns[i].text) = sm.patterns[i].text
  /\ Supported({BarePattern(sm, q) : q \in Elements(sm.patterns)})
  /\ \A i, j \in DOMAIN sm.patterns : BarePattern(sm, sm.patterns[i]) = BarePattern(sm, sm.patterns[j]) => i = j
  /\ sm.begin => \E i \in DOMAIN sm.patterns : sm.patterns[i].begin
  /\ Folded(sm) /\ Len(sm.patterns) <= sm.room

\* A pattern's anchors can be told from its path.
LEMMA FirstOfWord ==
  ASSUME NEW p \in PatternSet, p.text # <<>>
  PROVE  (p.begin <=> PatternWord(p)[1] = AnchorStart) /\ (p.end <=> AnchorEnd \in Elements(PatternWord(p)))
<1> DEFINE k == Len(p.text)
           u == Upto(p, k)
           w == PatternWord(p)
<1>1. k \in Nat /\ k >= 1 /\ Lead(p) \in Text /\ (\A x \in 1 .. k : p.text[x] \in 0 .. Chars - 1)
  <2>1. p.text \in Text /\ Lead(p) \in Text /\ (\A x \in 1 .. k : p.text[x] \in 0 .. Chars - 1)
    BY LeadText
  <2>2. QED
    BY <2>1, LenNonNegative
<1>2. k \in 0 .. k /\ 1 \in 1 .. k
  BY <1>1
<1>3. /\ u \in Text /\ Len(u) = Len(Lead(p)) + k /\ (\A x \in 1 .. k : u[Len(Lead(p)) + x] = p.text[x])
      /\ \A x \in 1 .. Len(Lead(p)) : u[x] = Lead(p)[x]
  BY <1>2, UptoText
<1>4. AnchorEnd \notin Elements(u)
  BY <1>2, UptoElements
<1> HIDE DEF u
<1>5. Len(Lead(p)) \in Nat
  BY <1>1, LenNonNegative
<1>6. 1 \in 1 .. Len(u) /\ Len(u) \in Nat
  <2> DEFINE x == Len(u)
             y == Len(Lead(p))
  <2>1. x = y + k /\ y \in Nat /\ k >= 1 /\ k \in Nat
    BY <1>1, <1>3, <1>5
  <2> HIDE DEF x, y, k
  <2>2. 1 \in 1 .. x /\ x \in Nat
    BY <2>1
  <2>3. QED
    BY <2>2 DEF x
<1>7. w[1] = u[1] /\ (p.end <=> AnchorEnd \in Elements(w))
  <2>1. CASE p.end
    <3> DEFINE e == AnchorEnd
               S == Alphabet
    <3>1. w = Append(u, e)
      BY <2>1 DEF PatternWord, u
    <3>2. u \in Seq(S) /\ e \in S
      BY <1>3, Characters DEF Text
    <3>3. Elements(Append(u, e)) = Elements(u) \cup {e}
      BY <1>3, Characters, ElementsOf
    <3> HIDE DEF e, S, w
    <3>4. Append(u, e)[1] = u[1]
      BY <1>6, <3>2
    <3>5. QED
      BY <2>1, <3>1, <3>3, <3>4 DEF e
  <2>2. CASE ~p.end
    <3>1. w = u
      BY <2>2 DEF PatternWord, u
    <3> HIDE DEF w
    <3>2. QED
      BY <1>4, <2>2, <3>1
  <2>3. QED
    BY <2>1, <2>2
<1> HIDE DEF w
<1>8. p.begin <=> u[1] = AnchorStart
  <2>1. CASE p.begin
    <3>1. Lead(p) = <<AnchorStart>>
      BY <2>1 DEF Lead
    <3>2. Len(<<AnchorStart>>) = 1 /\ <<AnchorStart>>[1] = AnchorStart
      BY OneIs
    <3>3. u[1] = Lead(p)[1]
      <4>1. 1 \in 1 .. Len(Lead(p))
        BY <3>1, <3>2
      <4>2. QED
        BY <1>3, <4>1
    <3>4. QED
      BY <2>1, <3>1, <3>2, <3>3
  <2>2. CASE ~p.begin
    <3>1. Lead(p) = <<>>
      BY <2>2 DEF Lead
    <3>2. Len(<<>>) = 0
      OBVIOUS
    <3>3. u[0 + 1] = p.text[1]
      BY <1>2, <1>3, <3>1, <3>2
    <3>4. u[1] \in 0 .. Chars - 1
      BY <1>1, <1>2, <3>3
    <3>5. QED
      BY <2>2, <3>4, Characters
  <2>3. QED
    BY <2>1, <2>2
<1>9. QED
  BY <1>7, <1>8 DEF w

\* Two patterns with the same path have the same text and anchors.
LEMMA WordTells ==
  ASSUME NEW p \in PatternSet, NEW q \in PatternSet, p.text # <<>>, q.text # <<>>, PatternWord(p) = PatternWord(q)
  PROVE  p.text = q.text /\ p.begin = q.begin /\ p.end = q.end
<1>1. p.begin \in BOOLEAN /\ q.begin \in BOOLEAN /\ p.end \in BOOLEAN /\ q.end \in BOOLEAN
  BY PatternFields
<1>2. p.begin = q.begin /\ p.end = q.end
  <2>1. (p.begin <=> q.begin) /\ (p.end <=> q.end)
    BY FirstOfWord
  <2>2. QED
    BY <1>1, <2>1
<1> DEFINE k == Len(p.text)
           l == Len(q.text)
           u == Upto(p, k)
           v == Upto(q, l)
           n == Len(Lead(p))
<1>3. k \in Nat /\ l \in Nat /\ DOMAIN p.text = 1 .. k /\ DOMAIN q.text = 1 .. l /\ Lead(p) \in Text /\ Lead(q) = Lead(p)
      /\ p.text \in Text /\ q.text \in Text
  BY <1>2, LeadText DEF Lead
<1>4. k \in 0 .. k /\ l \in 0 .. l /\ n \in Nat
  BY <1>3, LenNonNegative
<1>5. /\ u \in Text /\ Len(u) = n + k /\ (\A x \in 1 .. k : u[n + x] = p.text[x])
      /\ v \in Text /\ Len(v) = n + l /\ (\A x \in 1 .. l : v[n + x] = q.text[x])
  <2>1. u \in Text /\ Len(u) = n + k /\ (\A x \in 1 .. k : u[n + x] = p.text[x])
    BY <1>4, UptoText
  <2>2. v \in Text /\ Len(v) = Len(Lead(q)) + l /\ (\A x \in 1 .. l : v[Len(Lead(q)) + x] = q.text[x])
    BY <1>4, UptoText
  <2>3. Len(Lead(q)) = n
    BY <1>3
  <2>4. QED
    BY <2>1, <2>2, <2>3
<1>6. u = v
  <2>1. CASE p.end
    <3>1. PatternWord(p) = Append(u, AnchorEnd) /\ PatternWord(q) = Append(v, AnchorEnd)
      BY <1>2, <2>1 DEF PatternWord
    <3> HIDE DEF u, v
    <3>2. Append(u, AnchorEnd) = Append(v, AnchorEnd)
      BY <3>1
    <3>3. QED
      BY <1>5, <3>2, Characters, SameAppended
  <2>2. CASE ~p.end
    <3>1. PatternWord(p) = u /\ PatternWord(q) = v
      BY <1>2, <2>2 DEF PatternWord
    <3> HIDE DEF u, v
    <3>2. QED
      BY <3>1
  <2>3. QED
    BY <2>1, <2>2
<1> HIDE DEF u, v, k, l, n
<1>7. k = l
  BY <1>3, <1>4, <1>5, <1>6
<1>8. \A x \in 1 .. k : p.text[x] = q.text[x]
  BY <1>5, <1>6, <1>7
<1>9. p.text = q.text
  <2> DEFINE s == p.text
             t == q.text
  <2>1. s \in Seq(Alphabet) /\ t \in Seq(Alphabet) /\ Len(s) = Len(t) /\ DOMAIN s = 1 .. Len(s) /\ \A x \in 1 .. Len(s) : s[x] = t[x]
    BY <1>3, <1>7, <1>8 DEF Text, k, l
  <2> HIDE DEF s, t
  <2>2. s = t
    BY <2>1
  <2>3. QED
    BY <2>2 DEF s, t
<1>10. QED
  BY <1>2, <1>9

\* What the caller has registered can be compiled.
LEMMA CollectedRegistered ==
  ASSUME NEW sm, Collected(sm)
  PROVE  Registered(sm)
<1> DEFINE P == sm.patterns
           B == {BarePattern(sm, q) : q \in Elements(P)}
<1>1. \A i \in DOMAIN P : P[i] \in PatternSet /\ P[i].text # <<>> /\ BarePattern(sm, P[i]) \in B
  <2>1. P \in Seq(PatternSet)
    BY DEF Collected
  <2>2. \A i \in DOMAIN P : P[i] \in Elements(P)
    BY DEF Elements
  <2>3. \A i \in DOMAIN P : P[i].text # <<>>
    BY DEF Collected, PatternFits
  <2>4. QED
    BY <2>1, <2>2, <2>3
<1>2. Supported(B)
  BY DEF Collected
<1> HIDE DEF B
<1>3. ASSUME NEW i \in DOMAIN P
      PROVE  BarePattern(sm, P[i]).text = P[i].text /\ BarePattern(sm, P[i]).hack = P[i].hack /\ BarePattern(sm, P[i]).wild = P[i].wild
  <2>1. Lower(sm, P[i].text) = P[i].text
    BY DEF Collected
  <2>2. BarePattern(sm, P[i]) = [text |-> Lower(sm, P[i].text), id |-> 0, begin |-> P[i].begin, end |-> P[i].end, wild |-> P[i].wild, hack |-> P[i].hack]
    BY <1>1, BareIs
  <2>3. QED
    BY <2>1, <2>2
<1>4. ASSUME NEW i \in DOMAIN P, NEW j \in DOMAIN P PROVE P[i].hack = P[j].hack
  BY <1>1, <1>2, <1>3 DEF Supported
<1>5. ASSUME NEW i \in DOMAIN P, NEW j \in DOMAIN P, PatternWord(P[i]) = PatternWord(P[j]) PROVE i = j
  <2>1. P[i] \in PatternSet /\ P[j] \in PatternSet /\ P[i].text # <<>> /\ P[j].text # <<>>
    BY <1>1
  <2>2. P[i].text = P[j].text /\ P[i].begin = P[j].begin /\ P[i].end = P[j].end
    BY <1>5, <2>1, WordTells
  <2>3. P[i].hack = P[j].hack
    BY <1>4
  <2>4. P[i].wild \in BOOLEAN /\ P[j].wild \in BOOLEAN
    BY <2>1, PatternFields
  <2>5. CASE P[i].wild = P[j].wild
    <3>1. BarePattern(sm, P[i]) = BarePattern(sm, P[j])
      BY <2>1, <2>2, <2>3, <2>5, BareIs
    <3>2. QED
      BY <3>1 DEF Collected
  <2>6. CASE P[i].wild # P[j].wild
    <3> DEFINE x == BarePattern(sm, P[i])
               y == BarePattern(sm, P[j])
    <3>1. x \in B /\ y \in B /\ x.wild # y.wild /\ x.text = y.text /\ x.wild \in BOOLEAN /\ y.wild \in BOOLEAN
      BY <1>1, <1>3, <2>2, <2>4, <2>6
    <3> HIDE DEF x, y
    <3>2. x.wild \/ y.wild
      BY <3>1
    <3>3. x # y
      BY <3>1
    <3>4. x.text[1] # y.text[1]
      BY <1>2, <3>1, <3>2, <3>3 DEF Supported
    <3>5. QED
      BY <3>1, <3>4
  <2>7. QED
    BY <2>5, <2>6
<1>6. QED
  BY <1>4, <1>5 DEF Collected, Registered

\* The pattern p of the pool, as it is registered.
Numbered(sm, p) == [p EXCEPT !.id = Len(sm.patterns) + 1]

\* A pattern of the pool, numbered.
LEMMA PoolPattern ==
  ASSUME NEW p \in Pool, NEW sm, Len(sm.patterns) \in Nat
  PROVE  /\ Numbered(sm, p) \in PatternSet /\ Numbered(sm, p).text # <<>> /\ Numbered(sm, p).id = Len(sm.patterns) + 1
         /\ Numbered(sm, p).hack => \A i \in DOMAIN Numbered(sm, p).text : Numbered(sm, p).text[i] # Hack
         /\ Numbered(sm, p).text = p.text /\ Numbered(sm, p).begin = p.begin /\ Numbered(sm, p).end = p.end
         /\ Numbered(sm, p).wild = p.wild /\ Numbered(sm, p).hack = p.hack
<1> DEFINE n == Len(sm.patterns) + 1
           q == [text |-> p.text, id |-> n, begin |-> p.begin, end |-> p.end, wild |-> p.wild, hack |-> p.hack]
<1>1. /\ p = [text |-> p.text, id |-> p.id, begin |-> p.begin, end |-> p.end, wild |-> p.wild, hack |-> p.hack]
      /\ p.text \in Seq(0 .. Chars - 1) /\ p.text # <<>>
      /\ p.begin \in BOOLEAN /\ p.end \in BOOLEAN /\ p.wild \in BOOLEAN /\ p.hack \in BOOLEAN
      /\ p.hack => \A i \in DOMAIN p.text : p.text[i] # Hack
  BY PoolAssumption
<1>2. n \in Nat
  OBVIOUS
<1>3. Numbered(sm, p) = [p EXCEPT !.id = n]
  BY DEF Numbered
<1> HIDE DEF n
<1> DEFINE T(a, b, c, d, e, f) == [text |-> a, id |-> b, begin |-> c, end |-> d, wild |-> e, hack |-> f]
<1>4. ASSUME NEW a, NEW b, NEW c, NEW d, NEW e, NEW f PROVE [T(a, b, c, d, e, f) EXCEPT !.id = n] = T(a, n, c, d, e, f)
  OBVIOUS
<1>5. [p EXCEPT !.id = n] = q
  <2>1. p = T(p.text, p.id, p.begin, p.end, p.wild, p.hack)
    BY <1>1
  <2>2. [T(p.text, p.id, p.begin, p.end, p.wild, p.hack) EXCEPT !.id = n] = T(p.text, n, p.begin, p.end, p.wild, p.hack)
    BY <1>4
  <2> HIDE DEF T
  <2>3. [p EXCEPT !.id = n] = T(p.text, n, p.begin, p.end, p.wild, p.hack)
    BY <2>1, <2>2, Zenon
  <2>4. QED
    BY <2>3 DEF T
<1> HIDE DEF T
<1>6. q \in PatternSet /\ q.text = p.text /\ q.id = n /\ q.begin = p.begin /\ q.end = p.end /\ q.wild = p.wild /\ q.hack = p.hack
  BY <1>1, <1>2 DEF PatternSet
<1> HIDE DEF q
<1>7. Numbered(sm, p) = q
  BY <1>3, <1>5
<1>8. QED
  BY <1>1, <1>6, <1>7 DEF n

\* A list with one more element.
LEMMA AppendedList ==
  ASSUME NEW S, NEW s \in Seq(S), NEW x \in S
  PROVE  /\ Append(s, x) \in Seq(S) /\ Len(s) \in Nat /\ Len(Append(s, x)) = Len(s) + 1
         /\ DOMAIN s = 1 .. Len(s) /\ DOMAIN Append(s, x) = 1 .. Len(s) + 1
         /\ Append(s, x)[Len(s) + 1] = x
         /\ \A i \in 1 .. Len(s) : Append(s, x)[i] = s[i]
         /\ \A i : i \in 1 .. Len(s) + 1 <=> i \in 1 .. Len(s) \/ i = Len(s) + 1
OBVIOUS

\* What smack_add_pattern() changes.
LEMMA AddPatternIs ==
  ASSUME NEW sm, Collected(sm), NEW pat \in PatternSet, pat.text # <<>>,
         pat.hack => \A i \in DOMAIN pat.text : pat.text[i] # Hack
  PROVE  LET g == AddPattern(sm, pat)
         IN /\ g \in [nocase : BOOLEAN, symbols : Seq(0 .. Chars - 1), begin : BOOLEAN, end : BOOLEAN,
                      patterns : Seq(PatternSet), room : Nat]
            /\ g.nocase = sm.nocase /\ g.begin = (sm.begin \/ pat.begin) /\ g.end = (sm.end \/ pat.end)
            /\ g.patterns = Append(sm.patterns, Kept(sm, pat))
            /\ Elements(g.symbols) = Elements(sm.symbols) \cup Elements(Kept(sm, pat).text) \cup (IF pat.hack THEN {Hack} ELSE {})
            /\ Len(g.patterns) <= g.room
<1> DEFINE C == 0 .. Chars - 1
           kept == Kept(sm, pat)
           known == AddSymbols(sm.symbols, kept.text)
           symbols == IF pat.hack THEN AddSymbol(known, Hack) ELSE known
           begin == sm.begin \/ pat.begin
           end == sm.end \/ pat.end
           P == Append(sm.patterns, kept)
           room == IF Len(sm.patterns) + 1 >= sm.room THEN 2 * sm.room + 1 ELSE sm.room
           S == [nocase : BOOLEAN, symbols : Seq(C), begin : BOOLEAN, end : BOOLEAN, patterns : Seq(PatternSet), room : Nat]
           g == [sm EXCEPT !.begin = begin, !.end = end, !.symbols = symbols, !.patterns = P, !.room = room]
<1>1. sm \in S /\ Len(sm.patterns) <= sm.room
  BY DEF Collected
<1>2. /\ sm.symbols \in Seq(C) /\ sm.patterns \in Seq(PatternSet) /\ sm.room \in Nat
      /\ sm.begin \in BOOLEAN /\ sm.end \in BOOLEAN
  BY <1>1
<1>3. kept \in PatternSet /\ kept.text \in Seq(C) /\ pat.begin \in BOOLEAN /\ pat.end \in BOOLEAN
  BY KeptIs, PatternFields
<1>4. AddPattern(sm, pat) = g
  <2> HIDE DEF S
  <2>1. AddPattern(sm, pat) = [sm EXCEPT !.begin = sm.begin \/ pat.begin, !.end = sm.end \/ pat.end,
           !.symbols = symbols, !.patterns = Append(sm.patterns, kept),
           !.room = IF Len(sm.patterns) + 1 >= sm.room THEN 2 * sm.room + 1 ELSE sm.room]
    <3> HIDE DEF symbols
    <3>1. QED
      <4>1. symbols = IF pat.hack THEN AddSymbol(AddSymbols(sm.symbols, Kept(sm, pat).text), Hack) ELSE AddSymbols(sm.symbols, Kept(sm, pat).text)
        BY DEF symbols
      <4>2. sm \in S
        BY <1>1
      <4>3. QED
        BY <4>1, <4>2 DEF AddPattern, S
  <2>2. QED
    BY <2>1
<1>5. Hack \in C
  BY Characters
<1> HIDE DEF C, kept
<1>6. known \in Seq(C) /\ Elements(known) = Elements(sm.symbols) \cup Elements(kept.text)
  BY <1>2, <1>3, AddSymbolsIs
<1> HIDE DEF known
<1>7. symbols \in Seq(C) /\ Elements(symbols) = Elements(known) \cup (IF pat.hack THEN {Hack} ELSE {})
  <2>1. AddSymbol(known, Hack) \in Seq(C) /\ Elements(AddSymbol(known, Hack)) = Elements(known) \cup {Hack}
    BY <1>5, <1>6, AddSymbolIs
  <2>2. QED
    BY <1>6, <2>1
<1> HIDE DEF symbols
<1>8. P \in Seq(PatternSet) /\ Len(P) = Len(sm.patterns) + 1 /\ Len(sm.patterns) \in Nat
  BY <1>2, <1>3, AppendedList
<1> HIDE DEF P
<1>9. room \in Nat /\ Len(P) <= room
  <2> DEFINE n == Len(sm.patterns)
             k == sm.room
             l == Len(P)
  <2>1. n \in Nat /\ k \in Nat /\ n <= k /\ l = n + 1
    BY <1>1, <1>2, <1>8
  <2> HIDE DEF n, k, l
  <2>2. (IF n + 1 >= k THEN 2 * k + 1 ELSE k) \in Nat /\ l <= (IF n + 1 >= k THEN 2 * k + 1 ELSE k)
    BY <2>1
  <2>3. QED
    BY <2>2 DEF n, k, l
<1>10. begin \in BOOLEAN /\ end \in BOOLEAN
  OBVIOUS
<1> HIDE DEF room, begin, end
<1>11. /\ g \in S /\ g.nocase = sm.nocase /\ g.begin = begin /\ g.end = end /\ g.patterns = P
       /\ g.symbols = symbols /\ g.room = room
  BY <1>1, <1>7, <1>8, <1>9, <1>10
<1> HIDE DEF g
<1>12. QED
  BY <1>4, <1>6, <1>7, <1>9, <1>11 DEF S, C, P, begin, end, kept

\* One pattern more can still be compiled.
LEMMA AddPatternCollected ==
  ASSUME NEW sm, Collected(sm), NEW pat \in PatternSet, pat.text # <<>>, pat.id = Len(sm.patterns) + 1,
         pat.hack => \A i \in DOMAIN pat.text : pat.text[i] # Hack,
         \A q \in Elements(sm.patterns) : BarePattern(sm, q) # BarePattern(sm, pat),
         Supported({BarePattern(sm, q) : q \in Elements(sm.patterns)} \cup {BarePattern(sm, pat)})
  PROVE  Collected(AddPattern(sm, pat))
<1> DEFINE kept == Kept(sm, pat)
           P == sm.patterns
           n == Len(P)
           g == AddPattern(sm, pat)
           Q == Append(P, kept)
<1>1. P \in Seq(PatternSet) /\ n \in Nat /\ DOMAIN P = 1 .. n
  BY DEF Collected
<1>2. pat \in PatternSet /\ pat.text # <<>> /\ pat.id = n + 1 /\ (pat.hack => \A i \in DOMAIN pat.text : pat.text[i] # Hack)
  OBVIOUS
<1>3. /\ kept \in PatternSet /\ kept.text = Lower(sm, pat.text) /\ kept.id = n + 1
      /\ kept.begin = pat.begin /\ kept.end = pat.end /\ kept.wild = pat.wild /\ kept.hack = pat.hack
  BY <1>2, KeptIs
<1>4. /\ g \in [nocase : BOOLEAN, symbols : Seq(0 .. Chars - 1), begin : BOOLEAN, end : BOOLEAN,
                patterns : Seq(PatternSet), room : Nat]
      /\ g.nocase = sm.nocase /\ g.begin = (sm.begin \/ pat.begin) /\ g.end = (sm.end \/ pat.end)
      /\ g.patterns = Q
      /\ Elements(g.symbols) = Elements(sm.symbols) \cup Elements(kept.text) \cup (IF pat.hack THEN {Hack} ELSE {})
      /\ Len(g.patterns) <= g.room
  BY <1>2, AddPatternIs
<1>5. pat.text \in Seq(0 .. Chars - 1)
  BY <1>2, PatternFields
<1>6. /\ DOMAIN kept.text = DOMAIN pat.text /\ Len(kept.text) = Len(pat.text) /\ Lower(sm, kept.text) = kept.text
      /\ kept.text \in Seq(0 .. Chars - 1)
      /\ \A i \in DOMAIN pat.text : kept.text[i] = Fold(sm, pat.text[i])
  BY <1>3, <1>5, LowerIs
<1>7. kept.text # <<>>
  <2> DEFINE s == kept.text
             t == pat.text
             C == 0 .. Chars - 1
  <2>1. s \in Seq(C) /\ t \in Seq(C) /\ Len(s) = Len(t) /\ t # <<>>
    BY <1>2, <1>5, <1>6
  <2> HIDE DEF s, t, C
  <2>2. s # <<>>
    BY <2>1
  <2>3. QED
    BY <2>2 DEF s
<1>8. /\ Q \in Seq(PatternSet) /\ DOMAIN Q = 1 .. n + 1 /\ Q[n + 1] = kept /\ (\A i \in 1 .. n : Q[i] = P[i])
      /\ \A i : i \in 1 .. n + 1 <=> i \in 1 .. n \/ i = n + 1
  BY <1>1, <1>3, AppendedList
<1>9. Elements(Q) = Elements(P) \cup {kept}
  BY <1>1, <1>3, ElementsAppend
<1> HIDE DEF kept, g, P, Q
<1> HIDE DEF n

\* Nothing that is seen of a pattern depends on what has been registered.
<1>10. \A q : BarePattern(g, q) = BarePattern(sm, q)
  BY <1>4 DEF BarePattern, Kept
<1>11. (\A c : Fold(g, c) = Fold(sm, c)) /\ \A t : Lower(g, t) = Lower(sm, t)
  BY <1>4 DEF Fold, Lower
<1>12. BarePattern(sm, kept) = BarePattern(sm, pat)
  <2>1. BarePattern(sm, kept) = [text |-> Lower(sm, kept.text), id |-> 0, begin |-> kept.begin, end |-> kept.end, wild |-> kept.wild, hack |-> kept.hack]
    BY <1>3, BareIs
  <2>2. BarePattern(sm, pat) = [text |-> Lower(sm, pat.text), id |-> 0, begin |-> pat.begin, end |-> pat.end, wild |-> pat.wild, hack |-> pat.hack]
    BY <1>2, BareIs
  <2>3. Lower(sm, kept.text) = Lower(sm, pat.text)
    BY <1>3, <1>6
  <2>4. QED
    BY <1>3, <2>1, <2>2, <2>3
<1>13. Supported({BarePattern(g, q) : q \in Elements(g.patterns)})
  <2>1. {BarePattern(g, q) : q \in Elements(g.patterns)} = {BarePattern(sm, q) : q \in Elements(P)} \cup {BarePattern(sm, pat)}
    BY <1>4, <1>9, <1>10, <1>12
  <2>2. QED
    BY <2>1 DEF P
<1>14. Elements(sm.symbols) \subseteq Elements(g.symbols) /\ Elements(kept.text) \subseteq Elements(g.symbols)
  BY <1>4
<1>15. sm.nocase \in BOOLEAN
  BY DEF Collected
<1>16. ASSUME NEW i \in 1 .. n PROVE PatternFits(g, i, P[i]) /\ Lower(g, P[i].text) = P[i].text
  <2>1. PatternFits(sm, i, P[i]) /\ Lower(sm, P[i].text) = P[i].text
    BY <1>1 DEF Collected, P
  <2>2. QED
    BY <1>4, <1>11, <1>14, <2>1 DEF PatternFits
<1>17. PatternFits(g, n + 1, kept) /\ Lower(g, kept.text) = kept.text
  <2>1. kept.hack => \A k \in DOMAIN kept.text : kept.text[k] # Hack
    <3>1. ASSUME kept.hack, NEW k \in DOMAIN kept.text PROVE kept.text[k] # Hack
      <4>1. pat.text[k] # Hack /\ k \in DOMAIN pat.text
        BY <1>2, <1>3, <1>6, <3>1
      <4>2. pat.text[k] \in 0 .. Chars - 1
        <5> DEFINE C == 0 .. Chars - 1
                   t == pat.text
        <5>1. t \in Seq(C) /\ k \in DOMAIN t
          BY <1>5, <4>1
        <5> HIDE DEF C, t
        <5>2. t[k] \in C
          BY <5>1
        <5>3. QED
          BY <5>2 DEF C, t
      <4>3. QED
        BY <1>6, <4>1, <4>2, FoldChars
    <3>2. QED
      BY <3>1
  <2>2. g.nocase => \A k \in DOMAIN kept.text : ToLower(kept.text[k]) = kept.text[k]
    <3>1. ASSUME g.nocase, NEW k \in DOMAIN kept.text PROVE ToLower(kept.text[k]) = kept.text[k]
      <4>1. Lower(sm, kept.text)[k] = Fold(sm, kept.text[k])
        BY <3>1 DEF Lower
      <4>2. Fold(sm, kept.text[k]) = ToLower(kept.text[k])
        BY <1>4, <3>1 DEF Fold
      <4>3. QED
        BY <1>6, <4>1, <4>2
    <3>2. QED
      BY <3>1
  <2>3. (kept.begin => g.begin) /\ (kept.end => g.end)
    BY <1>3, <1>4
  <2>4. PatternFits(g, n + 1, kept)
    BY <1>3, <1>7, <1>14, <2>1, <2>2, <2>3 DEF PatternFits
  <2>5. QED
    BY <1>6, <1>11, <2>4
<1>18. ASSUME NEW i \in DOMAIN g.patterns
       PROVE  PatternFits(g, i, g.patterns[i]) /\ Lower(g, g.patterns[i].text) = g.patterns[i].text
  <2>1. CASE i \in 1 .. n
    BY <1>4, <1>8, <1>16, <2>1
  <2>2. CASE i = n + 1
    BY <1>4, <1>8, <1>17, <2>2
  <2>3. QED
    BY <1>4, <1>8, <2>1, <2>2
<1>19. ASSUME NEW i \in DOMAIN g.patterns, NEW j \in DOMAIN g.patterns,
              BarePattern(g, g.patterns[i]) = BarePattern(g, g.patterns[j])
       PROVE  i = j
  <2>1. \A x \in 1 .. n : P[x] \in Elements(P) /\ BarePattern(sm, P[x]) # BarePattern(sm, kept)
    <3>1. \A x \in 1 .. n : P[x] \in Elements(P)
      BY <1>1 DEF Elements
    <3>2. \A q \in Elements(P) : BarePattern(sm, q) # BarePattern(sm, pat)
      BY DEF P
    <3>3. QED
      BY <1>12, <3>1, <3>2
  <2>2. BarePattern(sm, Q[i]) = BarePattern(sm, Q[j])
    BY <1>4, <1>10, <1>19
  <2>3. (i \in 1 .. n \/ i = n + 1) /\ (j \in 1 .. n \/ j = n + 1)
    BY <1>4, <1>8
  <2>4. CASE i \in 1 .. n /\ j \in 1 .. n
    <3>1. BarePattern(sm, P[i]) = BarePattern(sm, P[j])
      BY <1>8, <2>2, <2>4
    <3>2. QED
      BY <1>1, <2>4, <3>1 DEF Collected, P
  <2>5. CASE i \in 1 .. n /\ j = n + 1
    BY <1>8, <2>1, <2>2, <2>5
  <2>6. CASE i = n + 1 /\ j \in 1 .. n
    BY <1>8, <2>1, <2>2, <2>6
  <2>7. QED
    BY <2>3, <2>4, <2>5, <2>6
<1>20. g.begin => \E i \in DOMAIN g.patterns : g.patterns[i].begin
  <2>1. CASE pat.begin
    <3>1. n + 1 \in DOMAIN g.patterns /\ g.patterns[n + 1].begin
      BY <1>3, <1>4, <1>8, <2>1
    <3>2. QED
      BY <3>1
  <2>2. CASE sm.begin
    <3>1. PICK i \in DOMAIN P : P[i].begin
      BY <2>2 DEF Collected, P
    <3>2. i \in DOMAIN g.patterns /\ g.patterns[i].begin
      BY <1>1, <1>4, <1>8, <3>1
    <3>3. QED
      BY <3>2
  <2>3. QED
    BY <1>4, <2>1, <2>2
<1>21. Folded(g)
  <2>1. ASSUME g.nocase, NEW x \in Elements(g.symbols) PROVE ToLower(x) = x
    <3>1. CASE x \in Elements(sm.symbols)
      BY <1>4, <2>1, <3>1 DEF Collected, Folded
    <3>2. CASE x \in Elements(kept.text)
      <4>1. PICK k \in DOMAIN kept.text : x = kept.text[k]
        BY <3>2 DEF Elements
      <4>2. ToLower(kept.text[k]) = kept.text[k]
        BY <1>17, <2>1 DEF PatternFits
      <4>3. QED
        BY <4>1, <4>2
    <3>3. CASE x = Hack
      BY <3>3, Characters DEF ToLower
    <3>4. QED
      BY <1>4, <2>1, <3>1, <3>2, <3>3
  <2>2. QED
    BY <2>1 DEF Folded
<1>22. Collected(g)
  BY <1>4, <1>13, <1>18, <1>19, <1>20, <1>21 DEF Collected
<1>23. QED
  BY <1>22 DEF g

\* So can none.
LEMMA CreatedCollected ==
  ASSUME NEW nocase \in BOOLEAN
  PROVE  Collected(Create(nocase))
<1> DEFINE g == Create(nocase)
<1>1. g = [nocase |-> nocase, symbols |-> <<>>, begin |-> FALSE, end |-> FALSE, patterns |-> <<>>, room |-> 0]
  BY DEF Create
<1> HIDE DEF g
<1>2. g \in [nocase : BOOLEAN, symbols : Seq(0 .. Chars - 1), begin : BOOLEAN, end : BOOLEAN,
             patterns : Seq(PatternSet), room : Nat]
  BY <1>1
<1>3. DOMAIN g.patterns = {} /\ Elements(g.patterns) = {} /\ Elements(g.symbols) = {} /\ Len(g.patterns) = 0 /\ g.room = 0 /\ ~g.begin
  BY <1>1 DEF Elements
<1>4. Supported({BarePattern(g, q) : q \in Elements(g.patterns)})
  BY <1>3 DEF Supported
<1>5. QED
  BY <1>2, <1>3, <1>4 DEF Collected, Folded, g

(***************************************************************************)
(* The tables bear the indices used on them.                               *)
(***************************************************************************)
CompiledInv == Collected(smack) /\ (phase # "adding" => dfa = Compiled(smack))

\* What is compiled from such patterns fits.
LEMMA CompiledInvFits ==
  ASSUME CompiledInv
  PROVE  TablesFit
<1>1. Collected(smack) /\ Len(smack.patterns) <= smack.room
  BY DEF CompiledInv, Collected
<1>2. ASSUME phase # "adding"
      PROVE  /\ dfa.count <= StateMax(smack.patterns)
             /\ \A r \in 0 .. dfa.count - 1 :
                  /\ (dfa.match[r] # <<>>) <=> r >= dfa.limit
                  /\ \A c \in Alphabet : dfa.symbol[c] \in DOMAIN dfa.table[r]
                  /\ \A k \in DOMAIN dfa.table[r] : dfa.table[r][k] \in 0 .. dfa.count - 1
             /\ FewSymbols(smack) =>
                  \A a, b \in Elements(AllSymbols(smack)) : dfa.symbol[a] = dfa.symbol[b] => a = b
  <2>1. dfa = Compiled(smack)
    BY <1>2 DEF CompiledInv
  <2>2. FitsTables(smack, dfa, RowWidth(smack)) /\ dfa.symbol = Symbols(smack)
    BY <1>1, <2>1, CollectedRegistered, CompiledFits
  <2> DEFINE w == RowWidth(smack)
  <2>3. /\ dfa.count <= StateMax(smack.patterns)
        /\ \A r \in 0 .. dfa.count - 1 : (dfa.match[r] # <<>>) <=> r >= dfa.limit
        /\ dfa.table \in [0 .. dfa.count - 1 -> [0 .. w - 1 -> 0 .. dfa.count - 1]]
        /\ dfa.symbol \in [Alphabet -> 0 .. w - 1]
    BY <2>2 DEF FitsTables, Dfas
  <2> HIDE DEF w
  <2>4. ASSUME NEW r \in 0 .. dfa.count - 1
        PROVE  /\ \A c \in Alphabet : dfa.symbol[c] \in DOMAIN dfa.table[r]
               /\ \A k \in DOMAIN dfa.table[r] : dfa.table[r][k] \in 0 .. dfa.count - 1
    BY <2>3
  <2>5. ASSUME FewSymbols(smack), NEW a \in Elements(AllSymbols(smack))
        PROVE  a \in Alphabet /\ AllSymbols(smack)[Symbols(smack)[a]] = a
    <3>1. Registered(smack) /\ Folded(smack)
      BY <1>1, CollectedRegistered DEF Collected
    <3>2. AllSymbols(smack) \in Seq(Alphabet) /\ a \in Used(smack)
      BY <2>5, <3>1, AllSymbolsAre
    <3>3. a \in Alphabet
      BY <3>2 DEF Elements
    <3>4. Fold(smack, a) = a
      BY <3>1, <3>2, UsedFolded
    <3>5. QED
      BY <2>5, <3>1, <3>2, <3>3, <3>4, SymbolsAre
  <2>6. ASSUME FewSymbols(smack), NEW a \in Elements(AllSymbols(smack)), NEW b \in Elements(AllSymbols(smack)),
               dfa.symbol[a] = dfa.symbol[b]
        PROVE  a = b
    BY <2>2, <2>5, <2>6
  <2>7. QED
    BY <2>3, <2>4, <2>6
<1>3. QED
  BY <1>1, <1>2 DEF TablesFit, FewSymbols

\* It is so when the engine is created,
LEMMA CompiledInvInit ==
  ASSUME SmackInit
  PROVE  CompiledInv
<1>1. PICK nocase \in BOOLEAN : smack = Create(nocase)
  BY DEF SmackInit
<1>2. Collected(smack)
  BY <1>1, CreatedCollected
<1>3. QED
  BY <1>2 DEF SmackInit, CompiledInv

\* and every call keeps it so.
LEMMA CompiledInvNext ==
  ASSUME CompiledInv, [SmackNext]_smackVars
  PROVE  CompiledInv'
<1>1. CASE Register
  <2>1. PICK p \in Pool :
          /\ \A q \in Elements(smack.patterns) : BarePattern(smack, q) # BarePattern(smack, Numbered(smack, p))
          /\ Supported({BarePattern(smack, q) : q \in Elements(smack.patterns)} \cup {BarePattern(smack, Numbered(smack, p))})
          /\ smack' = AddPattern(smack, Numbered(smack, p))
    BY <1>1 DEF Register, BarePattern, Numbered
  <2>2. Collected(smack)
    BY DEF CompiledInv
  <2> DEFINE pat == Numbered(smack, p)
  <2>3. Collected(smack')
    <3>1. Len(smack.patterns) \in Nat
      BY <2>2 DEF Collected
    <3>2. /\ pat \in PatternSet /\ pat.text # <<>> /\ pat.id = Len(smack.patterns) + 1
          /\ pat.hack => \A i \in DOMAIN pat.text : pat.text[i] # Hack
      BY <3>1, PoolPattern
    <3>3. /\ \A q \in Elements(smack.patterns) : BarePattern(smack, q) # BarePattern(smack, pat)
          /\ Supported({BarePattern(smack, q) : q \in Elements(smack.patterns)} \cup {BarePattern(smack, pat)})
          /\ smack' = AddPattern(smack, pat)
      BY <2>1
    <3> HIDE DEF pat
    <3>4. Collected(AddPattern(smack, pat))
      BY <2>2, <3>2, <3>3, AddPatternCollected
    <3>5. QED
      BY <3>3, <3>4
  <2>4. phase' = "adding"
    BY <1>1 DEF Register
  <2>5. QED
    BY <2>3, <2>4 DEF CompiledInv
<1>2. CASE Compile
  BY <1>2 DEF Compile, CompiledInv
<1>3. CASE Deliver
  BY <1>3 DEF Deliver, CompiledInv
<1>4. CASE CallSearch
  BY <1>4 DEF CallSearch, CompiledInv
<1>5. CASE CallSearchNext
  BY <1>5 DEF CallSearchNext, CompiledInv
<1>6. CASE CallNextMatch
  BY <1>6 DEF CallNextMatch, CompiledInv
<1>7. CASE CallSearchDone
  BY <1>7 DEF CallSearchDone, AtEnd, CompiledInv
<1>8. CASE CallSearchEnd
  BY <1>8 DEF CallSearchEnd, AtEnd, CompiledInv
<1>9. CASE NewText
  BY <1>9 DEF NewText, CompiledInv
<1>10. CASE UNCHANGED smackVars
  BY <1>10 DEF smackVars, CompiledInv
<1>11. QED
  BY <1>1, <1>2, <1>3, <1>4, <1>5, <1>6, <1>7, <1>8, <1>9, <1>10 DEF SmackNext

\* The tables bear the indices used on them, whatever patterns are registered: the
\* list of patterns and the intermediate table are big enough, every cell of the
\* final table is one of its rows, every character's symbol one of its columns, and
\* m_match_limit divides the rows (smack_add_pattern(), smack_compile()).
THEOREM SpecTablesFit == SmackSpec => []TablesFit
<1>1. SmackInit => CompiledInv
  BY CompiledInvInit
<1>2. CompiledInv /\ [SmackNext]_smackVars => CompiledInv'
  BY CompiledInvNext
<1>3. CompiledInv => TablesFit
  BY CompiledInvFits
<1>4. QED
  BY <1>1, <1>2, <1>3, PTL DEF SmackSpec

(***************************************************************************)
(* What has been read, and what it ends in.                                *)
(***************************************************************************)
ByteSet == 0 .. Chars - 1

ReadSoFar(sm, t, e) == Opening(sm) \o Lower(sm, SubSeq(t, 1, e))

\* Two texts are the same when their characters are.
LEMMA SameText ==
  ASSUME NEW u \in Text, NEW v \in Text, Len(u) = Len(v), \A i \in 1 .. Len(u) : u[i] = v[i]
  PROVE  u = v
<1> DEFINE S == Alphabet
<1>1. u \in Seq(S) /\ v \in Seq(S)
  BY DEF Text
<1> HIDE DEF S
<1>2. QED
  BY <1>1

\* What has been read: the anchor, when patterns have one, and the bytes in the engine's case.
LEMMA ReadIs ==
  ASSUME NEW sm, NEW t \in Seq(ByteSet), NEW e \in 0 .. Len(t)
  PROVE  /\ Opening(sm) \in Text /\ Len(Opening(sm)) = (IF sm.begin THEN 1 ELSE 0)
         /\ ReadSoFar(sm, t, e) \in Text /\ ReadSoFar(sm, t, 0) = Opening(sm)
         /\ Len(ReadSoFar(sm, t, e)) = Len(Opening(sm)) + e
         /\ sm.begin => ReadSoFar(sm, t, e)[1] = AnchorStart
         /\ \A x \in 1 .. e : ReadSoFar(sm, t, e)[Len(Opening(sm)) + x] = Fold(sm, t[x]) /\ Fold(sm, t[x]) \in ByteSet
<1> DEFINE B == ByteSet
           s == SubSeq(t, 1, e)
           w == Lower(sm, s)
           o == Opening(sm)
<1>1. t \in Seq(B) /\ Len(t) \in Nat /\ e \in Nat
  OBVIOUS
<1> HIDE DEF B
<1>2. s \in Seq(B) /\ Len(s) = e /\ DOMAIN s = 1 .. e /\ \A x \in 1 .. e : s[x] = t[x] /\ t[x] \in B
  <2>1. \A x \in 1 .. e : t[x] \in B
    BY <1>1
  <2>2. s \in Seq(B) /\ Len(s) = e
    BY <1>1
  <2>3. \A x \in 1 .. e : s[x] = t[x]
    BY <1>1
  <2> HIDE DEF s
  <2>4. DOMAIN s = 1 .. e
    BY <2>2
  <2>5. QED
    BY <2>1, <2>2, <2>3, <2>4
<1>3. B = 0 .. Chars - 1
  BY DEF B, ByteSet
<1> HIDE DEF s
<1>4. w \in Seq(0 .. Chars - 1) /\ Len(w) = Len(s) /\ DOMAIN w = DOMAIN s /\ \A i \in DOMAIN s : w[i] = Fold(sm, s[i])
  BY <1>2, <1>3, LowerIs
<1>5. w \in Text /\ Len(w) = e /\ \A x \in 1 .. e : w[x] = Fold(sm, t[x]) /\ Fold(sm, t[x]) \in B
  <2>1. w \in Text
    <3>1. 0 .. Chars - 1 \subseteq Alphabet
      BY Characters
    <3> DEFINE C == 0 .. Chars - 1
    <3> HIDE DEF C
    <3>2. w \in Seq(C)
      BY <1>4 DEF C
    <3>3. QED
      BY <3>1, <3>2, SeqInto DEF Text, C
  <2>2. \A x \in 1 .. e : w[x] = Fold(sm, t[x])
    BY <1>2, <1>4
  <2>3. \A x \in 1 .. e : Fold(sm, t[x]) \in B
    BY <1>2, <1>3, FoldChars
  <2>4. QED
    BY <1>2, <1>4, <2>1, <2>2, <2>3
<1>6. o \in Text /\ Len(o) = (IF sm.begin THEN 1 ELSE 0) /\ (sm.begin => o[1] = AnchorStart)
  <2>1. CASE sm.begin
    <3>1. o = <<AnchorStart>>
      BY <2>1 DEF Opening
    <3>2. Len(<<AnchorStart>>) = 1 /\ <<AnchorStart>>[1] = AnchorStart
      BY OneIs
    <3>3. o \in Text
      BY OpeningText
    <3> HIDE DEF o
    <3>4. QED
      BY <2>1, <3>1, <3>2, <3>3
  <2>2. CASE ~sm.begin
    BY <2>2 DEF Opening, Text
  <2>3. QED
    BY <2>1, <2>2
<1> HIDE DEF w
<1> HIDE DEF o
<1>7. /\ o \o w \in Text /\ Len(o \o w) = Len(o) + Len(w)
      /\ \A i \in 1 .. Len(o) : (o \o w)[i] = o[i]
      /\ \A i \in 1 .. Len(w) : (o \o w)[Len(o) + i] = w[i]
  <2> DEFINE S == Alphabet
  <2>1. o \in Seq(S) /\ w \in Seq(S)
    BY <1>5, <1>6 DEF Text
  <2> HIDE DEF S
  <2>2. /\ o \o w \in Seq(S) /\ Len(o \o w) = Len(o) + Len(w)
        /\ \A i \in 1 .. Len(o) : (o \o w)[i] = o[i]
        /\ \A i \in 1 .. Len(w) : (o \o w)[Len(o) + i] = w[i]
    BY <2>1, Joined
  <2>3. QED
    BY <2>2 DEF S, Text
<1>8. ReadSoFar(sm, t, e) = o \o w
  BY DEF ReadSoFar, o, w, s
<1>9. ReadSoFar(sm, t, 0) = o
  <2>1. SubSeq(t, 1, 0) = <<>>
    BY <1>1
  <2>2. Lower(sm, <<>>) = <<>>
    BY DEF Lower
  <2>3. o \o <<>> = o
    BY <1>6 DEF Text
  <2>4. QED
    BY <2>1, <2>2, <2>3 DEF ReadSoFar, o
<1>10. sm.begin => (o \o w)[1] = AnchorStart
  <2>1. ASSUME sm.begin PROVE 1 \in 1 .. Len(o)
    BY <1>6, <2>1
  <2>2. QED
    BY <1>6, <1>7, <2>1
<1>11. QED
  BY <1>5, <1>6, <1>7, <1>8, <1>9, <1>10 DEF o, B

\* The next byte comes after it.
LEMMA ReadNext ==
  ASSUME NEW sm, NEW t \in Seq(ByteSet), NEW e \in 0 .. Len(t) - 1
  PROVE  ReadSoFar(sm, t, e + 1) = Append(ReadSoFar(sm, t, e), Fold(sm, t[e + 1])) /\ Fold(sm, t[e + 1]) \in Alphabet
<1> DEFINE v == ReadSoFar(sm, t, e)
           u == ReadSoFar(sm, t, e + 1)
           a == Fold(sm, t[e + 1])
           n == Len(Opening(sm))
<1>1. Len(t) \in Nat
  OBVIOUS
<1>2. e \in 0 .. Len(t) /\ e + 1 \in 0 .. Len(t) /\ e \in Nat /\ e + 1 \in 1 .. e + 1
  BY <1>1
<1>3. /\ v \in Text /\ Len(v) = n + e /\ n = (IF sm.begin THEN 1 ELSE 0) /\ (sm.begin => v[1] = AnchorStart)
      /\ \A x \in 1 .. e : v[n + x] = Fold(sm, t[x])
  BY <1>2, ReadIs
<1>4. /\ u \in Text /\ Len(u) = n + (e + 1) /\ (sm.begin => u[1] = AnchorStart)
      /\ \A x \in 1 .. e + 1 : u[n + x] = Fold(sm, t[x]) /\ Fold(sm, t[x]) \in ByteSet
  BY <1>2, ReadIs
<1>5. a \in ByteSet /\ u[n + (e + 1)] = a
  BY <1>2, <1>4
<1>6. a \in Alphabet
  BY <1>5, Characters DEF ByteSet
<1> HIDE DEF u, v, a
<1> DEFINE S == Alphabet
           w == Append(v, a)
<1>7. v \in Seq(S) /\ a \in S
  BY <1>3, <1>6 DEF Text
<1> HIDE DEF S
<1>8. w \in Seq(S) /\ Len(w) = Len(v) + 1 /\ w[Len(v) + 1] = a /\ \A i \in 1 .. Len(v) : w[i] = v[i]
  BY <1>7
<1> HIDE DEF w
<1> HIDE DEF n
<1>9. n \in Nat /\ n <= 1 /\ (n = 1 => sm.begin)
  BY <1>3
<1>10. ASSUME NEW i \in 1 .. Len(u) PROVE u[i] = w[i]
  <2>1. i \in 1 .. n + (e + 1) /\ Len(v) = n + e
    BY <1>3, <1>4
  <2>2. CASE i = n + (e + 1)
    <3>1. Len(v) + 1 = i
      BY <1>2, <1>9, <2>1, <2>2
    <3>2. QED
      BY <1>5, <1>8, <2>2, <3>1
  <2>3. CASE i <= n
    <3>1. i = 1 /\ n = 1
      BY <1>9, <2>1, <2>3
    <3>2. 1 \in 1 .. Len(v)
      BY <1>2, <2>1, <3>1
    <3>3. QED
      BY <1>3, <1>4, <1>8, <1>9, <3>1, <3>2
  <2>4. CASE i > n /\ i # n + (e + 1)
    <3> DEFINE x == i - n
    <3>1. x \in 1 .. e /\ x \in 1 .. e + 1 /\ i = n + x /\ i \in 1 .. Len(v)
      BY <1>2, <1>9, <2>1, <2>4
    <3> HIDE DEF x
    <3>2. u[n + x] = Fold(sm, t[x]) /\ v[n + x] = Fold(sm, t[x])
      BY <1>3, <1>4, <3>1
    <3>3. w[i] = v[i]
      BY <1>8, <3>1
    <3>4. QED
      BY <3>1, <3>2, <3>3
  <2>5. QED
    BY <1>2, <1>9, <2>1, <2>2, <2>3, <2>4
<1>11. Len(u) = Len(w)
  BY <1>2, <1>3, <1>4, <1>8, <1>9
<1>12. u = w
  BY <1>4, <1>8, <1>10, <1>11, SameText DEF Text, S
<1>13. QED
  BY <1>6, <1>12 DEF u, w, v, a

\* The words that the text ends in are those that the label of its row ends in.
LEMMA BestHits ==
  ASSUME NEW sm, Registered(sm), NEW d, NEW lab, Follows(sm, d, lab), NEW v \in Text, NEW s,
         IsBest(lab, d.count, v, s)
  PROVE  Hits(sm, lab[s]) = Hits(sm, v)
<1> DEFINE c == d.count
           u == lab[s]
<1>1. s \in 0 .. c - 1 /\ Sfx(u, v) /\ Labels(lab, c)
  BY DEF IsBest, Follows
<1>2. u \in Text
  BY <1>1 DEF Labels
<1>3. ASSUME NEW i \in 1 .. Len(sm.patterns) PROVE Sfx(PatternWord(sm.patterns[i]), u) <=> Sfx(PatternWord(sm.patterns[i]), v)
  <2> DEFINE w == PatternWord(sm.patterns[i])
  <2>1. w \in Text
    BY WordLong
  <2>2. PICK t \in 0 .. c - 1 : lab[t] = w
    BY DEF Follows
  <2> HIDE DEF w, u
  <2>3. ASSUME Sfx(w, u) PROVE Sfx(w, v)
    BY <1>1, <1>2, <2>1, <2>3, SfxThrough DEF Text
  <2>4. ASSUME Sfx(w, v) PROVE Sfx(w, u)
    <3>1. Len(w) <= Len(u)
      BY <2>2, <2>4 DEF IsBest, u
    <3>2. QED
      BY <1>1, <1>2, <2>1, <2>4, <3>1, SfxNested DEF Text
  <2>5. QED
    BY <2>3, <2>4 DEF w
<1>4. QED
  BY <1>3 DEF Hits

\* What EndsIn() says of a pattern with neither wildcards nor skipped bytes.
LEMMA PlainEndsIn ==
  ASSUME NEW sm, NEW p, ~p.wild, ~p.hack, NEW t
  PROVE  EndsIn(sm, p, t) <=>
           /\ Len(t) - Len(p.text) >= 0 /\ (p.begin => Len(t) - Len(p.text) = 0)
           /\ \A i \in DOMAIN p.text : p.text[i] = Fold(sm, t[Len(t) - Len(p.text) + i])
BY DEF EndsIn, Fold

\* An occurrence at the end of the text is one at the end of what was read.
LEMMA EndsInRead ==
  ASSUME NEW sm, NEW p \in PatternSet, p.text # <<>>, ~p.wild, ~p.hack, p.begin => sm.begin, NEW t \in Seq(ByteSet)
  PROVE  Sfx(Upto(p, Len(p.text)), ReadSoFar(sm, t, Len(t))) <=> EndsIn(sm, p, t)
<1> DEFINE n == Len(p.text)
           l == Len(t)
           u == Upto(p, n)
           v == ReadSoFar(sm, t, l)
           a == Len(Lead(p))
           b == Len(Opening(sm))
           k == l - n
<1>1. /\ n \in Nat /\ n >= 1 /\ DOMAIN p.text = 1 .. n /\ Lead(p) \in Text
      /\ \A i \in 1 .. n : p.text[i] \in ByteSet
  <2>1. /\ n \in Nat /\ DOMAIN p.text = 1 .. n /\ Lead(p) \in Text /\ p.text \in Text
        /\ \A i \in 1 .. n : p.text[i] \in ByteSet
    BY LeadText DEF ByteSet
  <2>2. QED
    BY <2>1, LenNonNegative
<1>2. l \in Nat /\ n \in 0 .. n /\ l \in 0 .. l
  BY <1>1
<1>3. /\ u \in Text /\ Len(u) = a + n /\ (\A i \in 1 .. a : u[i] = Lead(p)[i])
      /\ \A i \in 1 .. n : u[a + i] = p.text[i]
  BY <1>2, UptoText
<1>4. /\ v \in Text /\ Len(v) = b + l /\ b = (IF sm.begin THEN 1 ELSE 0) /\ (sm.begin => v[1] = AnchorStart)
      /\ \A i \in 1 .. l : v[b + i] = Fold(sm, t[i]) /\ Fold(sm, t[i]) \in ByteSet
  BY <1>2, ReadIs
<1>5. /\ a = (IF p.begin THEN 1 ELSE 0)
      /\ p.begin => u[1] = AnchorStart
  <2>1. CASE p.begin
    <3>1. Lead(p) = <<AnchorStart>>
      BY <2>1 DEF Lead
    <3>2. Len(<<AnchorStart>>) = 1 /\ <<AnchorStart>>[1] = AnchorStart
      BY OneIs
    <3>3. a = 1
      BY <3>1, <3>2
    <3>4. 1 \in 1 .. a
      BY <3>3
    <3> HIDE DEF u
    <3>5. u[1] = Lead(p)[1]
      BY <1>3, <3>4
    <3>6. QED
      BY <2>1, <3>1, <3>2, <3>3, <3>5
  <2>2. CASE ~p.begin
    <3>1. Lead(p) = <<>>
      BY <2>2 DEF Lead
    <3>2. Len(<<>>) = 0
      OBVIOUS
    <3>3. QED
      BY <2>2, <3>1, <3>2
  <2>3. QED
    BY <2>1, <2>2
<1>6. AnchorStart \notin ByteSet
  BY Characters DEF ByteSet
<1>7. EndsIn(sm, p, t) <=> /\ l - n >= 0 /\ (p.begin => l - n = 0)
                       /\ \A i \in 1 .. n : p.text[i] = Fold(sm, t[l - n + i])
  <2>1. EndsIn(sm, p, t) <=>
          /\ Len(t) - Len(p.text) >= 0 /\ (p.begin => Len(t) - Len(p.text) = 0)
          /\ \A i \in DOMAIN p.text : p.text[i] = Fold(sm, t[Len(t) - Len(p.text) + i])
    BY PlainEndsIn, Zenon
  <2>2. DOMAIN p.text = 1 .. n
    BY <1>1
  <2>3. QED
    BY <2>1, <2>2
<1> HIDE DEF u, v, a, b, l, n
<1>8. a \in Nat /\ b \in Nat /\ a <= b /\ b <= 1 /\ (a = 1 <=> p.begin) /\ (b = 1 => sm.begin)
  BY <1>4, <1>5
<1>9. ASSUME Sfx(u, v) PROVE EndsIn(sm, p, t)
  <2>1. a + n <= b + l /\ \A i \in 1 .. a + n : u[i] = v[(b + l) - (a + n) + i]
    BY <1>3, <1>4, <1>9 DEF Sfx
  <2>2. k >= 0
    <3>1. ASSUME k < 0 PROVE FALSE
      <4>1. a = 0 /\ b = 1 /\ l = n - 1
        BY <1>1, <1>2, <1>8, <2>1, <3>1
      <4>2. 1 \in 1 .. a + n /\ (b + l) - (a + n) + 1 = 1 /\ 1 \in 1 .. n /\ a + 1 = 1
        BY <1>1, <1>2, <4>1
      <4>3. u[1] = v[1]
        BY <2>1, <4>2
      <4>4. u[1] = p.text[1]
        BY <1>3, <4>2
      <4>5. QED
        BY <1>1, <1>4, <1>6, <1>8, <4>1, <4>2, <4>3, <4>4
    <3>2. QED
      BY <1>1, <1>2, <3>1
  <2>3. ASSUME p.begin PROVE k = 0
    <3>1. a = 1 /\ b = 1
      BY <1>8, <2>3
    <3>2. 1 \in 1 .. a + n /\ (b + l) - (a + n) + 1 = b + k
      BY <1>1, <1>2, <3>1
    <3>3. u[1] = v[b + k]
      BY <2>1, <3>2
    <3>4. ASSUME k # 0 PROVE FALSE
      <4>1. k \in 1 .. l
        BY <1>1, <1>2, <2>2, <3>4
      <4>2. v[b + k] \in ByteSet
        BY <1>4, <4>1
      <4>3. QED
        BY <1>5, <1>6, <2>3, <3>3, <4>2
    <3>5. QED
      BY <3>4
  <2>4. ASSUME NEW i \in 1 .. n PROVE p.text[i] = Fold(sm, t[l - n + i])
    <3>1. a + i \in 1 .. a + n /\ (b + l) - (a + n) + (a + i) = b + (k + i) /\ k + i \in 1 .. l
      BY <1>1, <1>2, <1>8, <2>2
    <3>2. u[a + i] = v[b + (k + i)]
      BY <2>1, <3>1
    <3>3. u[a + i] = p.text[i]
      BY <1>3
    <3>4. v[b + (k + i)] = Fold(sm, t[k + i])
      BY <1>4, <3>1
    <3>5. QED
      BY <3>2, <3>3, <3>4
  <2>5. QED
    BY <1>7, <2>2, <2>3, <2>4
<1>10. ASSUME EndsIn(sm, p, t) PROVE Sfx(u, v)
  <2>1. k >= 0 /\ (p.begin => k = 0) /\ \A i \in 1 .. n : p.text[i] = Fold(sm, t[k + i])
    BY <1>7, <1>10
  <2>2. a + n <= b + l
    BY <1>1, <1>2, <1>8, <2>1
  <2>3. ASSUME NEW i \in 1 .. a + n PROVE u[i] = v[(b + l) - (a + n) + i]
    <3>1. CASE i <= a
      <4>1. i = 1 /\ a = 1 /\ b = 1 /\ k = 0
        BY <1>1, <1>8, <2>1, <3>1
      <4>2. (b + l) - (a + n) + i = 1
        BY <1>1, <1>2, <4>1
      <4>3. QED
        BY <1>4, <1>5, <1>8, <4>1, <4>2
    <3>2. CASE ~(i <= a)
      <4> DEFINE j == i - a
      <4>1. j \in 1 .. n /\ i = a + j /\ (b + l) - (a + n) + i = b + (k + j) /\ k + j \in 1 .. l
        BY <1>1, <1>2, <1>8, <2>1, <3>2
      <4> HIDE DEF j, k
      <4>2. u[a + j] = p.text[j] /\ v[b + (k + j)] = Fold(sm, t[k + j])
        BY <1>3, <1>4, <4>1
      <4>3. p.text[j] = Fold(sm, t[k + j])
        BY <2>1, <4>1
      <4>4. QED
        BY <4>1, <4>2, <4>3
    <3>3. QED
      BY <3>1, <3>2
  <2>4. QED
    BY <1>3, <1>4, <2>2, <2>3 DEF Sfx
<1>11. QED
  BY <1>9, <1>10 DEF u, v, l, n

\* A text and what it ends in have the same last character.
LEMMA LastOfSfx ==
  ASSUME NEW u \in Text, NEW v \in Text, Sfx(u, v), u # <<>>
  PROVE  u[Len(u)] = v[Len(v)]
<1>1. Len(u) \in Nat /\ Len(v) \in Nat /\ Len(u) # 0
  BY LenNonNegative
<1> DEFINE m == Len(u)
           n == Len(v)
<1>2. m \in 1 .. m /\ n - m + m = n
  BY <1>1
<1>3. \A i \in 1 .. m : u[i] = v[n - m + i]
  BY DEF Sfx
<1> HIDE DEF m, n
<1>4. u[m] = v[n - m + m]
  BY <1>2, <1>3
<1>5. QED
  BY <1>2, <1>4 DEF m, n

\* The last character of a word tells whether it is anchored at the end.
LEMMA LastOfWord ==
  ASSUME NEW p \in PatternSet, p.text # <<>>
  PROVE  /\ PatternWord(p) # <<>> /\ PatternWord(p) \in Text
         /\ p.end => PatternWord(p)[Len(PatternWord(p))] = AnchorEnd
         /\ ~p.end => PatternWord(p)[Len(PatternWord(p))] \in ByteSet
<1> DEFINE n == Len(p.text)
           u == Upto(p, n)
           a == Len(Lead(p))
           w == PatternWord(p)
<1>1. /\ n \in Nat /\ n >= 1 /\ Lead(p) \in Text /\ \A i \in 1 .. n : p.text[i] \in ByteSet
  <2>1. n \in Nat /\ Lead(p) \in Text /\ p.text \in Text /\ \A i \in 1 .. n : p.text[i] \in ByteSet
    BY LeadText DEF ByteSet
  <2>2. QED
    BY <2>1, LenNonNegative
<1>2. n \in 0 .. n /\ n \in 1 .. n /\ a \in Nat
  BY <1>1, LenNonNegative
<1>3. u \in Text /\ Len(u) = a + n /\ \A i \in 1 .. n : u[a + i] = p.text[i]
  BY <1>2, UptoText
<1>4. w \in Text
  BY WordText
<1> HIDE DEF u, a
<1>5. CASE p.end
  <2>1. w = Append(u, AnchorEnd)
    BY <1>5 DEF PatternWord, u
  <2> DEFINE e == AnchorEnd
             S == Alphabet
             x == Append(u, e)
  <2>2. u \in Seq(S) /\ e \in S
    BY <1>3, Characters DEF Text
  <2> HIDE DEF e, S, w
  <2>3. Len(x) = Len(u) + 1 /\ x[Len(u) + 1] = e /\ Len(u) \in Nat
    BY <2>2
  <2>4. w = x
    BY <2>1 DEF e
  <2> HIDE DEF x
  <2>5. w # <<>> /\ w[Len(w)] = e
    <3>1. Len(w) # 0
      BY <2>3, <2>4
    <3>2. QED
      BY <1>4, <2>3, <2>4, <3>1, LenNonNegative
  <2>6. QED
    BY <1>4, <1>5, <2>5 DEF e, w
<1>6. CASE ~p.end
  <2>1. w = u
    BY <1>6 DEF PatternWord, u
  <2> HIDE DEF w, n
  <2>2. u[a + n] = p.text[n] /\ a + n # 0
    BY <1>1, <1>2, <1>3
  <2>3. u[Len(u)] \in ByteSet /\ Len(u) # 0
    BY <1>1, <1>2, <1>3, <2>2
  <2>4. QED
    BY <1>3, <1>4, <1>6, <2>1, <2>3, LenNonNegative DEF w
<1>7. QED
  BY <1>5, <1>6

\* The anchor at the end is not in the text.
LEMMA LastOfRead ==
  ASSUME NEW sm, NEW t \in Seq(ByteSet)
  PROVE  /\ ReadSoFar(sm, t, Len(t)) \in Text /\ AnchorEnd \notin Elements(ReadSoFar(sm, t, Len(t)))
         /\ Append(ReadSoFar(sm, t, Len(t)), AnchorEnd) \in Text
         /\ Append(ReadSoFar(sm, t, Len(t)), AnchorEnd)[Len(Append(ReadSoFar(sm, t, Len(t)), AnchorEnd))] = AnchorEnd
<1> DEFINE l == Len(t)
           v == ReadSoFar(sm, t, l)
           b == Len(Opening(sm))
<1>1. l \in Nat /\ l \in 0 .. l
  OBVIOUS
<1>2. /\ v \in Text /\ Len(v) = b + l /\ b = (IF sm.begin THEN 1 ELSE 0) /\ (sm.begin => v[1] = AnchorStart)
      /\ \A i \in 1 .. l : v[b + i] = Fold(sm, t[i]) /\ Fold(sm, t[i]) \in ByteSet
  BY <1>1, ReadIs
<1> HIDE DEF v, b, l
<1>3. ASSUME NEW i \in DOMAIN v PROVE v[i] # AnchorEnd
  <2>1. i \in 1 .. b + l
    BY <1>2 DEF Text
  <2>2. CASE i <= b
    <3>1. i = 1 /\ sm.begin
      BY <1>2, <2>1, <2>2
    <3>2. QED
      BY <1>2, <3>1, Characters
  <2>3. CASE ~(i <= b)
    <3> DEFINE j == i - b
    <3>1. j \in 1 .. l /\ i = b + j
      BY <1>1, <1>2, <2>1, <2>3
    <3> HIDE DEF j
    <3>2. v[i] \in ByteSet
      BY <1>2, <3>1
    <3>3. QED
      BY <3>2, Characters DEF ByteSet
  <2>4. QED
    BY <2>2, <2>3
<1>4. AnchorEnd \notin Elements(v)
  BY <1>3 DEF Elements
<1> DEFINE e == AnchorEnd
           S == Alphabet
           x == Append(v, e)
<1>5. v \in Seq(S) /\ e \in S
  BY <1>2, Characters DEF Text
<1> HIDE DEF e, S
<1>6. x \in Seq(S) /\ x[Len(x)] = e
  BY <1>5
<1>7. QED
  BY <1>2, <1>4, <1>6 DEF x, e, S, Text, v, l

Plainly(sm) == \A i \in DOMAIN sm.patterns : ~sm.patterns[i].wild /\ ~sm.patterns[i].hack

\* Ids are the numbers of the patterns.
LEMMA MatchesFrom ==
  ASSUME NEW sm, Registered(sm), NEW end \in BOOLEAN, NEW t, NEW H, H \subseteq 1 .. Len(sm.patterns),
         \A i \in 1 .. Len(sm.patterns) : i \in H <=> sm.patterns[i].end = end /\ EndsIn(sm, sm.patterns[i], t)
  PROVE  Matches(sm, end, t) = H
<1> DEFINE P == sm.patterns
           n == Len(P)
           G == {q \in Elements(P) : q.end = end /\ EndsIn(sm, q, t)}
<1>1. DOMAIN P = 1 .. n
  BY DEF Registered
<1>2. \A i \in 1 .. n : P[i].id = i
  BY <1>1 DEF Registered, PatternFits
<1>3. ASSUME NEW q \in G PROVE q.id \in H
  <2>1. PICK i \in 1 .. n : q = P[i]
    BY <1>1 DEF Elements
  <2>2. i \in H
    BY <2>1
  <2>3. QED
    BY <1>2, <2>1, <2>2
<1>4. ASSUME NEW i \in H PROVE i \in {q.id : q \in G}
  <2>1. i \in 1 .. n
    OBVIOUS
  <2>2. P[i] \in Elements(P)
    BY <1>1, <2>1 DEF Elements
  <2>3. P[i] \in G
    BY <2>1, <2>2
  <2> HIDE DEF G
  <2>4. P[i].id = i
    BY <1>2, <2>1
  <2>5. QED
    BY <2>3, <2>4
<1>5. Matches(sm, end, t) = {q.id : q \in G}
  BY DEF Matches
<1> HIDE DEF G
<1>6. QED
  BY <1>3, <1>4, <1>5

\* What has been read ends in the patterns that the text ends in.
LEMMA MatchesAre ==
  ASSUME NEW sm, Registered(sm), Plainly(sm), NEW t \in Seq(ByteSet)
  PROVE  /\ Hits(sm, ReadSoFar(sm, t, Len(t))) = Matches(sm, FALSE, t)
         /\ Hits(sm, Append(ReadSoFar(sm, t, Len(t)), AnchorEnd)) = Matches(sm, TRUE, t)
<1> DEFINE P == sm.patterns
           n == Len(P)
           v == ReadSoFar(sm, t, Len(t))
           x == Append(v, AnchorEnd)
<1>1. /\ v \in Text /\ AnchorEnd \notin Elements(v) /\ x \in Text /\ x[Len(x)] = AnchorEnd
  BY LastOfRead
<1> HIDE DEF x
<1>2. ASSUME NEW i \in 1 .. n
      PROVE  /\ Sfx(PatternWord(P[i]), v) <=> P[i].end = FALSE /\ EndsIn(sm, P[i], t)
             /\ Sfx(PatternWord(P[i]), x) <=> P[i].end = TRUE /\ EndsIn(sm, P[i], t)
  <2> DEFINE p == P[i]
             w == PatternWord(p)
             u == Upto(p, Len(p.text))
  <2>1. i \in DOMAIN P
    BY DEF Registered
  <2>2. p \in PatternSet /\ p.text # <<>> /\ (p.begin => sm.begin) /\ ~p.wild /\ ~p.hack
    BY <2>1, RegisteredPattern DEF PatternFits, Plainly
  <2>3. Sfx(u, v) <=> EndsIn(sm, p, t)
    <3> HIDE DEF p
    <3>1. QED
      BY <2>2, EndsInRead
  <2>4. p.end \in BOOLEAN
    BY <2>2, PatternFields
  <2>5. w # <<>> /\ w \in Text /\ (p.end => w[Len(w)] = AnchorEnd) /\ (~p.end => w[Len(w)] \in ByteSet)
    BY <2>2, LastOfWord
  <2>6. u \in Text
    <3>1. Len(p.text) \in 0 .. Len(p.text)
      <4>1. Len(p.text) \in Nat
        BY <2>2, LeadText
      <4>2. QED
        BY <4>1
    <3>2. QED
      BY <2>2, <3>1, UptoText
  <2>7. CASE p.end
    <3>1. w = Append(u, AnchorEnd)
      BY <2>7 DEF PatternWord
    <3> HIDE DEF w, u, v, p
    <3>2. ASSUME Sfx(w, v) PROVE FALSE
      <4>1. w[Len(w)] = v[Len(v)]
        BY <1>1, <2>5, <3>2, LastOfSfx
      <4>2. Len(v) \in Nat /\ Len(w) \in Nat /\ Len(w) # 0 /\ DOMAIN v = 1 .. Len(v)
        BY <1>1, <2>5, LenNonNegative DEF Text
      <4>3. Len(v) \in DOMAIN v
        BY <3>2, <4>2 DEF Sfx
      <4>4. AnchorEnd \in Elements(v)
        BY <2>5, <2>7, <4>1, <4>3 DEF Elements
      <4>5. QED
        BY <1>1, <4>4
    <3>3. Sfx(w, x) <=> Sfx(u, v)
      <4> DEFINE e == AnchorEnd
      <4>1. e \in Alphabet /\ w = Append(u, e) /\ x = Append(v, e)
        BY <3>1, Characters DEF x
      <4> HIDE DEF e
      <4>2. ASSUME Sfx(u, v) PROVE Sfx(Append(u, e), Append(v, e))
        BY <1>1, <2>6, <4>1, <4>2, SfxLonger DEF Text
      <4>3. ASSUME Sfx(Append(u, e), Append(v, e)) PROVE Sfx(u, v)
        BY <1>1, <2>6, <4>1, <4>3, SfxShorter DEF Text
      <4>4. QED
        BY <4>1, <4>2, <4>3
    <3>4. QED
      BY <2>3, <2>4, <2>7, <3>2, <3>3 DEF w, p
  <2>8. CASE ~p.end
    <3>1. w = u
      BY <2>8 DEF PatternWord
    <3> HIDE DEF w, u, v, p
    <3>2. ASSUME Sfx(w, x) PROVE FALSE
      <4>1. w[Len(w)] = x[Len(x)]
        BY <1>1, <2>5, <3>2, LastOfSfx
      <4>2. QED
        BY <1>1, <2>5, <2>8, <4>1, Characters DEF ByteSet
    <3>3. QED
      BY <2>3, <2>4, <2>8, <3>1, <3>2 DEF w, p
  <2>9. QED
    BY <2>7, <2>8
<1>3. Matches(sm, FALSE, t) = Hits(sm, v)
  <2> DEFINE H == Hits(sm, v)
  <2>1. H \subseteq 1 .. n /\ \A i \in 1 .. n : i \in H <=> P[i].end = FALSE /\ EndsIn(sm, P[i], t)
    BY <1>2 DEF Hits
  <2> HIDE DEF H
  <2>2. QED
    BY <2>1, MatchesFrom DEF H
<1>4. Matches(sm, TRUE, t) = Hits(sm, x)
  <2> DEFINE H == Hits(sm, x)
  <2>1. H \subseteq 1 .. n /\ \A i \in 1 .. n : i \in H <=> P[i].end = TRUE /\ EndsIn(sm, P[i], t)
    BY <1>2 DEF Hits
  <2> HIDE DEF H
  <2>2. QED
    BY <2>1, MatchesFrom DEF H
<1>5. QED
  BY <1>3, <1>4 DEF x

Found(sm, t, e) == Hits(sm, ReadSoFar(sm, t, e))

Told(sm, t, n) == UNION {Found(sm, t, e) \X {e} : e \in 1 .. n}

\* Nothing is found before the first byte.
LEMMA FoundNone ==
  ASSUME NEW sm, Registered(sm), NEW t \in Seq(ByteSet)
  PROVE  Found(sm, t, 0) = {}
<1>1. 0 \in 0 .. Len(t)
  <2>1. Len(t) \in Nat
    OBVIOUS
  <2>2. QED
    BY <2>1
<1>2. ReadSoFar(sm, t, 0) = Opening(sm)
  BY <1>1, ReadIs
<1>3. Hits(sm, Opening(sm)) = Own(sm, Opening(sm))
  BY OpeningText, HitsShort
<1>4. Own(sm, Opening(sm)) = {}
  BY WordNotOpening DEF Own
<1>5. QED
  BY <1>2, <1>3, <1>4 DEF Found

\* Texts that begin the same are read the same.
LEMMA ReadPrefix ==
  ASSUME NEW sm, NEW t \in Seq(ByteSet), NEW u \in Seq(ByteSet), NEW e \in 0 .. Len(t), e <= Len(u),
         \A i \in 1 .. e : u[i] = t[i]
  PROVE  ReadSoFar(sm, u, e) = ReadSoFar(sm, t, e)
<1> DEFINE B == ByteSet
           x == SubSeq(t, 1, e)
           y == SubSeq(u, 1, e)
<1>1. t \in Seq(B) /\ u \in Seq(B) /\ Len(t) \in Nat /\ Len(u) \in Nat
  OBVIOUS
<1> HIDE DEF B
<1>2. x \in Seq(B) /\ Len(x) = e /\ \A i \in 1 .. e : x[i] = t[i]
  BY <1>1
<1>3. y \in Seq(B) /\ Len(y) = e /\ \A i \in 1 .. e : y[i] = u[i]
  BY <1>1
<1> HIDE DEF x, y
<1>4. x = y
  BY <1>2, <1>3
<1>5. QED
  BY <1>4 DEF ReadSoFar, x, y

\* One byte more.
LEMMA ToldNext ==
  ASSUME NEW sm, NEW t, NEW n \in Nat
  PROVE  Told(sm, t, n + 1) = Told(sm, t, n) \cup (Found(sm, t, n + 1) \X {n + 1})
<1>1. \A e : e \in 1 .. n + 1 <=> e \in 1 .. n \/ e = n + 1
  OBVIOUS
<1>2. QED
  BY <1>1 DEF Told

\* The patterns found at the first n bytes, as the property says it.
LEMMA ToldIs ==
  ASSUME Registered(smack), Plainly(smack), NEW t \in Seq(ByteSet), NEW n \in 0 .. Len(t)
  PROVE  Told(smack, t, n) = UNION {Matches(smack, FALSE, SubSeq(t, 1, e)) \X {e} : e \in 1 .. n}
<1>1. ASSUME NEW e \in 1 .. n PROVE Found(smack, t, e) = Matches(smack, FALSE, SubSeq(t, 1, e))
  <2> DEFINE B == ByteSet
             u == SubSeq(t, 1, e)
  <2>1. t \in Seq(B) /\ Len(t) \in Nat /\ e \in 0 .. Len(t)
    OBVIOUS
  <2> HIDE DEF B
  <2>2. u \in Seq(B) /\ Len(u) = e /\ \A i \in 1 .. e : u[i] = t[i]
    BY <2>1
  <2> HIDE DEF u
  <2>3. u \in Seq(ByteSet) /\ e <= Len(u)
    BY <2>1, <2>2 DEF B
  <2>4. ReadSoFar(smack, u, e) = ReadSoFar(smack, t, e)
    BY <2>1, <2>2, <2>3, ReadPrefix
  <2>5. Hits(smack, ReadSoFar(smack, u, Len(u))) = Matches(smack, FALSE, u)
    BY <2>3, MatchesAre
  <2>6. QED
    BY <2>2, <2>4, <2>5 DEF Found, u
<1>2. QED
  BY <1>1 DEF Told

(***************************************************************************)
(* Lists of reports: what was reported, once each, in the text's order.    *)
(***************************************************************************)
Reports == Nat \X Nat

Rising(s) == \A i, j \in DOMAIN s : i < j => s[i][2] <= s[j][2]

Log(s, M) == s \in Seq(Reports) /\ NoTwice(s) /\ Rising(s) /\ Elements(s) = M

\* The reports of `ids` after e bytes.
Listed(ids, e) == [k \in DOMAIN ids |-> <<ids[k], e>>]

\* The matches of one row, in a list.
LEMMA ListedLog ==
  ASSUME NEW ids \in Seq(Nat), NoTwice(ids), NEW e \in Nat
  PROVE  /\ Log(Listed(ids, e), Elements(ids) \X {e}) /\ Len(Listed(ids, e)) = Len(ids)
         /\ DOMAIN Listed(ids, e) = DOMAIN ids /\ \A k \in DOMAIN ids : Listed(ids, e)[k] = <<ids[k], e>>
<1> DEFINE n == Len(ids)
           w == Listed(ids, e)
<1>1. n \in Nat /\ DOMAIN ids = 1 .. n /\ \A k \in 1 .. n : ids[k] \in Nat
  OBVIOUS
<1>2. DOMAIN w = 1 .. n /\ \A k \in 1 .. n : w[k] = <<ids[k], e>>
  BY <1>1 DEF Listed
<1>3. w \in [1 .. n -> Reports]
  BY <1>1 DEF Listed, Reports
<1> HIDE DEF w, n
<1>4. w \in Seq(Reports) /\ Len(w) = n
  BY <1>1, <1>3, SeqDef, LenProperties
<1>5. NoTwice(w)
  BY <1>1, <1>2 DEF NoTwice
<1>6. Rising(w)
  BY <1>1, <1>2 DEF Rising
<1>7. Elements(w) = Elements(ids) \X {e}
  <2>1. Elements(w) = {<<ids[k], e>> : k \in 1 .. n}
    BY <1>2 DEF Elements
  <2>2. Elements(ids) = {ids[k] : k \in 1 .. n}
    BY <1>1 DEF Elements
  <2>3. QED
    BY <2>1, <2>2
<1>8. QED
  BY <1>1, <1>2, <1>4, <1>5, <1>6, <1>7 DEF Log, w, n

\* A list followed by the reports of the next byte, or of the same.
LEMMA LogJoined ==
  ASSUME NEW s, NEW M, Log(s, M), NEW t, NEW K, Log(t, K), NEW e,
         \A x \in M : x[2] <= e, \A x \in K : x[2] = e, M \cap K = {}
  PROVE  Log(s \o t, M \cup K)
<1> DEFINE w == s \o t
           n == Len(s)
           k == Len(t)
<1>1. s \in Seq(Reports) /\ t \in Seq(Reports) /\ Elements(s) = M /\ Elements(t) = K
  BY DEF Log
<1>2. w \in Seq(Reports) /\ Elements(w) = M \cup K /\ NoTwice(w)
  BY <1>1, ElementsJoined, Joined DEF Log
<1>3. /\ Len(w) = n + k /\ n \in Nat /\ k \in Nat
      /\ \A i \in 1 .. n : w[i] = s[i]
      /\ \A i \in 1 .. k : w[n + i] = t[i]
      /\ \A i \in 1 .. n + k : i \in 1 .. n \/ \E j \in 1 .. k : i = n + j
  BY <1>1, Joined
<1>4. DOMAIN s = 1 .. n /\ DOMAIN t = 1 .. k /\ DOMAIN w = 1 .. n + k
  BY <1>1, <1>2, <1>3
<1>5. \A i \in 1 .. n : s[i] \in M
  BY <1>1, <1>4 DEF Elements
<1>6. \A i \in 1 .. k : t[i] \in K
  BY <1>1, <1>4 DEF Elements
<1> HIDE DEF w, n, k
<1>7. Rising(w)
  <2> SUFFICES ASSUME NEW i \in 1 .. n + k, NEW j \in 1 .. n + k, i < j PROVE w[i][2] <= w[j][2]
    BY <1>4 DEF Rising
  <2>1. CASE i \in 1 .. n /\ j \in 1 .. n
    <3>1. s[i][2] <= s[j][2]
      BY <1>4, <2>1 DEF Log, Rising
    <3>2. QED
      BY <1>3, <2>1, <3>1
  <2>2. ASSUME i \in 1 .. n, NEW y \in 1 .. k, j = n + y PROVE w[i][2] <= w[j][2]
    <3>1. w[i] = s[i] /\ s[i] \in M
      BY <1>3, <1>5, <2>2
    <3>2. w[j] = t[y] /\ t[y] \in K
      BY <1>3, <1>6, <2>2
    <3>3. s[i][2] <= e /\ t[y][2] = e
      BY <3>1, <3>2
    <3>4. QED
      BY <3>1, <3>2, <3>3
  <2>3. ASSUME NEW x \in 1 .. k, i = n + x PROVE \E y \in 1 .. k : j = n + y
    <3>1. j - n \in 1 .. k /\ j = n + (j - n)
      BY <1>3, <2>3
    <3>2. QED
      BY <3>1
  <2>4. ASSUME NEW x \in 1 .. k, i = n + x, NEW y \in 1 .. k, j = n + y PROVE w[i][2] <= w[j][2]
    <3>1. w[i] = t[x] /\ w[j] = t[y] /\ (x < y \/ x = y)
      BY <1>3, <2>4
    <3>2. x < y => t[x][2] <= t[y][2]
      BY <1>4 DEF Log, Rising
    <3>3. t[x][2] = e /\ t[y][2] = e
      BY <1>6
    <3>5. t[y] \in Reports
      BY <1>1, <1>3, <1>4, ElementOfSeq DEF k
    <3>6. t[y][2] \in Nat
      BY <3>5 DEF Reports
    <3>7. QED
      BY <3>1, <3>3, <3>6
  <2>5. QED
    BY <1>3, <2>1, <2>2, <2>3, <2>4
<1>8. QED
  BY <1>2, <1>7 DEF Log, w

\* The matches of a row that are no longer pending are reported.
Popped(ids, pend, e) == {<<ids[k], e>> : k \in pend + 1 .. Len(ids)}

Firsts(ids, pend) == [k \in 1 .. pend |-> ids[k]]

\* One match fewer is pending.
LEMMA PoppedNext ==
  ASSUME NEW ids \in Seq(Nat), NEW pend \in 0 .. Len(ids), pend # 0, NEW e
  PROVE  Popped(ids, pend - 1, e) = Popped(ids, pend, e) \cup {<<ids[pend], e>>}
<1> DEFINE n == Len(ids)
<1>1. n \in Nat /\ pend \in 0 .. n /\ pend # 0
  OBVIOUS
<1> HIDE DEF n
<1>2. \A k : k \in pend - 1 + 1 .. n <=> k \in pend + 1 .. n \/ k = pend
  BY <1>1
<1>3. QED
  BY <1>2 DEF Popped, n

\* None is, or all are.
LEMMA PoppedAll ==
  ASSUME NEW ids \in Seq(Nat), NEW e
  PROVE  Popped(ids, 0, e) = Elements(ids) \X {e} /\ Popped(ids, Len(ids), e) = {}
<1> DEFINE n == Len(ids)
<1>1. n \in Nat /\ DOMAIN ids = 1 .. n
  OBVIOUS
<1> HIDE DEF n
<1>2. 0 + 1 .. n = 1 .. n /\ n + 1 .. n = {}
  BY <1>1
<1>3. Popped(ids, 0, e) = {<<ids[k], e>> : k \in 1 .. n} /\ Popped(ids, n, e) = {<<ids[k], e>> : k \in {}}
  BY <1>2, Zenon DEF Popped, n
<1>4. Elements(ids) = {ids[k] : k \in 1 .. n}
  BY <1>1, Zenon DEF Elements
<1> DEFINE E == Elements(ids)
<1>5. {<<ids[k], e>> : k \in 1 .. n} = E \X {e}
  BY <1>4
<1>6. QED
  BY <1>3, <1>5 DEF n

\* The pending and the reported matches are all of the row's, and no match is both.
LEMMA FirstsAre ==
  ASSUME NEW ids \in Seq(Nat), NoTwice(ids), NEW pend \in 0 .. Len(ids), NEW e
  PROVE  /\ Firsts(ids, pend) \in Seq(Nat) /\ NoTwice(Firsts(ids, pend)) /\ Len(Firsts(ids, pend)) = pend
         /\ (Elements(Firsts(ids, pend)) \X {e}) \cap Popped(ids, pend, e) = {}
         /\ (Elements(Firsts(ids, pend)) \X {e}) \cup Popped(ids, pend, e) = Elements(ids) \X {e}
<1> DEFINE n == Len(ids)
           w == Firsts(ids, pend)
<1>1. n \in Nat /\ DOMAIN ids = 1 .. n /\ (\A k \in 1 .. n : ids[k] \in Nat) /\ pend \in 0 .. n /\ pend \in Nat
  OBVIOUS
<1>2. DOMAIN w = 1 .. pend /\ \A k \in 1 .. pend : w[k] = ids[k]
  BY DEF Firsts
<1>3. w \in [1 .. pend -> Nat]
  BY <1>1 DEF Firsts
<1> HIDE DEF w, n
<1>4. w \in Seq(Nat) /\ Len(w) = pend
  BY <1>1, <1>3, SeqDef, LenProperties
<1>5. \A k \in 1 .. pend : k \in 1 .. n
  BY <1>1
<1>6. NoTwice(w)
  BY <1>1, <1>2, <1>5 DEF NoTwice
<1>7. \A k : k \in 1 .. n <=> k \in 1 .. pend \/ k \in pend + 1 .. n
  BY <1>1
<1>8. \A j \in 1 .. pend, k \in pend + 1 .. n : j # k /\ j \in 1 .. n /\ k \in 1 .. n
  BY <1>1
<1>9. Popped(ids, pend, e) = {<<ids[k], e>> : k \in pend + 1 .. n}
  BY DEF Popped, n
<1>10. Elements(w) = {ids[k] : k \in 1 .. pend}
  BY <1>2 DEF Elements
<1>11. (Elements(w) \X {e}) \cap Popped(ids, pend, e) = {}
  <2> SUFFICES ASSUME NEW j \in 1 .. pend, NEW k \in pend + 1 .. n, ids[j] = ids[k] PROVE FALSE
    BY <1>9, <1>10
  <2>1. QED
    BY <1>1, <1>8 DEF NoTwice
<1>12. (Elements(w) \X {e}) \cup Popped(ids, pend, e) = Elements(ids) \X {e}
  <2>1. Elements(ids) = {ids[k] : k \in 1 .. n}
    BY <1>1 DEF Elements
  <2>2. QED
    BY <1>7, <1>9, <1>10, <2>1
<1>13. QED
  BY <1>4, <1>6, <1>11, <1>12 DEF w

(***************************************************************************)
(* A search is sound: it is in the row of what it has read, and has        *)
(* reported all that was found, but what is pending.                       *)
(***************************************************************************)
Ready(sm, d, lab) == Registered(sm) /\ NothingCut(sm, d) /\ Follows(sm, d, lab) /\ \E w : FitsTables(sm, d, w)

SoundSearch(sm, d, lab, t, at, row, pend, rep) ==
  /\ t \in Seq(ByteSet) /\ at \in 0 .. Len(t) /\ IsBest(lab, d.count, ReadSoFar(sm, t, at), row)
  /\ pend \in 0 .. Len(d.match[row])
  /\ Log(rep, Told(sm, t, at - 1) \cup Popped(d.match[row], pend, at))

\* The matches of a row are those of the text it is the best row for.
LEMMA RowIs ==
  ASSUME NEW sm, NEW d, NEW lab, Ready(sm, d, lab), NEW v \in Text, NEW row, IsBest(lab, d.count, v, row)
  PROVE  /\ row \in 0 .. d.count - 1 /\ d.match[row] \in Seq(Nat) /\ NoTwice(d.match[row])
         /\ Elements(d.match[row]) = Hits(sm, v) /\ (d.match[row] # <<>> <=> row >= d.limit)
<1>1. row \in 0 .. d.count - 1
  BY DEF IsBest
<1>2. PICK w : FitsTables(sm, d, w)
  BY DEF Ready
<1>3. (d.match[row] # <<>> <=> row >= d.limit)
  BY <1>1, <1>2 DEF FitsTables
<1>4. d.match \in [0 .. StateMax(sm.patterns) - 1 -> Seq(Nat)]
  BY <1>2 DEF FitsTables, Dfas
<1>5. d.count \in Nat /\ d.count <= StateMax(sm.patterns) /\ StateMax(sm.patterns) \in Nat
  <2>1. StateMax(sm.patterns) \in Nat
    BY CompilePrefixesPlanted DEF Ready, Planted, Rooted
  <2>2. QED
    BY <1>2, <2>1 DEF FitsTables
<1>6. row \in 0 .. StateMax(sm.patterns) - 1
  BY <1>1, <1>5
<1>7. d.match[row] \in Seq(Nat)
  BY <1>4, <1>6
<1>8. Hits(sm, lab[row]) = Hits(sm, v)
  BY BestHits DEF Ready
<1>9. QED
  BY <1>1, <1>3, <1>7, <1>8 DEF Ready, Follows

\* What is known of the row of a search.
LEMMA SoundRow ==
  ASSUME NEW sm, NEW d, NEW lab, Ready(sm, d, lab), NEW t, NEW at, NEW row, NEW pend, NEW rep,
         SoundSearch(sm, d, lab, t, at, row, pend, rep)
  PROVE  /\ t \in Seq(ByteSet) /\ at \in 0 .. Len(t) /\ at \in Nat /\ Len(t) \in Nat /\ ReadSoFar(sm, t, at) \in Text
         /\ IsBest(lab, d.count, ReadSoFar(sm, t, at), row)
         /\ row \in 0 .. d.count - 1 /\ d.match[row] \in Seq(Nat) /\ NoTwice(d.match[row])
         /\ Elements(d.match[row]) = Found(sm, t, at) /\ (d.match[row] # <<>> <=> row >= d.limit)
<1>1. t \in Seq(ByteSet) /\ at \in 0 .. Len(t) /\ IsBest(lab, d.count, ReadSoFar(sm, t, at), row)
  BY DEF SoundSearch
<1>2. ReadSoFar(sm, t, at) \in Text
  BY <1>1, ReadIs
<1>3. /\ row \in 0 .. d.count - 1 /\ d.match[row] \in Seq(Nat) /\ NoTwice(d.match[row])
      /\ Elements(d.match[row]) = Hits(sm, ReadSoFar(sm, t, at)) /\ (d.match[row] # <<>> <=> row >= d.limit)
  BY <1>1, <1>2, RowIs
<1>4. Len(t) \in Nat
  BY <1>1, LenProperties
<1>5. QED
  BY <1>1, <1>2, <1>3, <1>4 DEF Found

\* What is told of a text and of all but its last byte.
LEMMA ToldBefore ==
  ASSUME NEW sm, Registered(sm), NEW t \in Seq(ByteSet), NEW at \in 0 .. Len(t)
  PROVE  /\ Told(sm, t, at) = Told(sm, t, at - 1) \cup (Found(sm, t, at) \X {at})
         /\ \A x \in Told(sm, t, at - 1) : x[2] <= at - 1
<1>1. at \in Nat
  BY LenProperties
<1>2. \A x \in Told(sm, t, at - 1) : x[2] <= at - 1
  BY <1>1 DEF Told
<1>3. CASE at = 0
  <2>1. Told(sm, t, at) = {} /\ Told(sm, t, at - 1) = {}
    BY <1>3 DEF Told
  <2>2. Found(sm, t, at) = {}
    BY <1>3, FoundNone
  <2>3. QED
    BY <1>2, <2>1, <2>2
<1>4. CASE at # 0
  <2>1. at - 1 \in Nat /\ at - 1 + 1 = at
    BY <1>1, <1>4
  <2>2. Told(sm, t, at - 1 + 1) = Told(sm, t, at - 1) \cup (Found(sm, t, at - 1 + 1) \X {at - 1 + 1})
    BY <2>1, ToldNext
  <2>3. QED
    BY <1>2, <2>1, <2>2
<1>5. QED
  BY <1>3, <1>4

\* With nothing pending, all is told.
LEMMA SoundTold ==
  ASSUME NEW sm, NEW d, NEW lab, Ready(sm, d, lab), NEW t, NEW at, NEW row, NEW rep,
         SoundSearch(sm, d, lab, t, at, row, 0, rep)
  PROVE  Log(rep, Told(sm, t, at))
<1> DEFINE ids == d.match[row]
<1>1. /\ t \in Seq(ByteSet) /\ at \in 0 .. Len(t) /\ ids \in Seq(Nat) /\ NoTwice(ids)
      /\ Elements(ids) = Found(sm, t, at)
  BY SoundRow
<1>2. Log(rep, Told(sm, t, at - 1) \cup Popped(ids, 0, at))
  BY DEF SoundSearch
<1> HIDE DEF ids
<1>3. Popped(ids, 0, at) = Elements(ids) \X {at}
  BY <1>1, PoppedAll
<1>4. Told(sm, t, at) = Told(sm, t, at - 1) \cup (Found(sm, t, at) \X {at})
  BY <1>1, ToldBefore DEF Ready
<1>5. QED
  BY <1>1, <1>2, <1>3, <1>4

\* With the pending ones after them, too.
LEMMA SoundSeen ==
  ASSUME NEW sm, NEW d, NEW lab, Ready(sm, d, lab), NEW t, NEW at, NEW row, NEW pend, NEW rep,
         SoundSearch(sm, d, lab, t, at, row, pend, rep)
  PROVE  Log(rep \o Listed(Firsts(d.match[row], pend), at), Told(sm, t, at))
<1> DEFINE ids == d.match[row]
           new == Firsts(ids, pend)
           old == Told(sm, t, at - 1)
<1>1. /\ t \in Seq(ByteSet) /\ at \in 0 .. Len(t) /\ ids \in Seq(Nat) /\ NoTwice(ids)
      /\ Elements(ids) = Found(sm, t, at) /\ at \in Nat
  BY SoundRow
<1>2. Log(rep, old \cup Popped(ids, pend, at)) /\ pend \in 0 .. Len(ids)
  BY DEF SoundSearch
<1> HIDE DEF ids
<1>3. /\ new \in Seq(Nat) /\ NoTwice(new)
      /\ (Elements(new) \X {at}) \cap Popped(ids, pend, at) = {}
      /\ (Elements(new) \X {at}) \cup Popped(ids, pend, at) = Elements(ids) \X {at}
  BY <1>1, <1>2, FirstsAre
<1>4. Told(sm, t, at) = old \cup (Found(sm, t, at) \X {at}) /\ \A x \in old : x[2] <= at - 1
  BY <1>1, ToldBefore DEF Ready
<1> HIDE DEF new, old
<1>5. Log(Listed(new, at), Elements(new) \X {at})
  BY <1>1, <1>3, ListedLog
<1>6. \A x \in Popped(ids, pend, at) : x[2] = at
  BY DEF Popped
<1>7. \A x \in old : x[2] <= at /\ x[2] # at
  <2>1. \A x \in Elements(new) \X {at} : x[2] = at
    OBVIOUS
  <2>2. ASSUME NEW x \in old PROVE x[2] \in Nat
    <3>1. x \in Elements(rep)
      BY <1>2 DEF Log
    <3>2. rep \in Seq(Reports)
      BY <1>2 DEF Log
    <3>3. Elements(rep) \subseteq Reports
      BY <3>2 DEF Elements
    <3>4. QED
      BY <3>1, <3>3 DEF Reports
  <2>3. QED
    BY <1>1, <1>4, <2>2
<1>8. (old \cup Popped(ids, pend, at)) \cap (Elements(new) \X {at}) = {}
  BY <1>3, <1>7
<1>9. \A x \in old \cup Popped(ids, pend, at) : x[2] <= at
  BY <1>1, <1>6, <1>7
<1>10. \A x \in Elements(new) \X {at} : x[2] = at
  OBVIOUS
<1>11. Log(rep \o Listed(new, at), (old \cup Popped(ids, pend, at)) \cup (Elements(new) \X {at}))
  BY <1>2, <1>5, <1>8, <1>9, <1>10, LogJoined
<1>12. (old \cup Popped(ids, pend, at)) \cup (Elements(new) \X {at}) = Told(sm, t, at)
  BY <1>1, <1>3, <1>4
<1>13. QED
  BY <1>11, <1>12 DEF ids, new

\* A step to the next row: its matches become pending.
LEMMA SoundStep ==
  ASSUME NEW sm, NEW d, NEW lab, Ready(sm, d, lab), NEW t, NEW at, NEW row, NEW rep,
         SoundSearch(sm, d, lab, t, at, row, 0, rep), at < Len(t), NEW s, s = Step(d, row, t[at + 1])
  PROVE  /\ SoundSearch(sm, d, lab, t, at + 1, s, Len(d.match[s]), rep)
         /\ d.match[s] = <<>> => Len(d.match[s]) = 0
<1>1. /\ t \in Seq(ByteSet) /\ at \in 0 .. Len(t) /\ at \in Nat /\ Len(t) \in Nat /\ ReadSoFar(sm, t, at) \in Text
      /\ IsBest(lab, d.count, ReadSoFar(sm, t, at), row) /\ row \in 0 .. d.count - 1
  BY SoundRow
<1>2. at + 1 \in 0 .. Len(t) /\ at \in 0 .. Len(t) - 1 /\ at + 1 \in 1 .. Len(t) /\ at + 1 - 1 = at
  BY <1>1
<1> DEFINE c == t[at + 1]
           v == ReadSoFar(sm, t, at)
           u == ReadSoFar(sm, t, at + 1)
<1>3. u = Append(v, Fold(sm, c)) /\ Fold(sm, c) \in Alphabet
  BY <1>1, <1>2, ReadNext
<1>4. c \in Alphabet
  <2>1. c \in ByteSet
    BY <1>1, <1>2, ElementOfSeq
  <2>2. QED
    BY <2>1, Characters DEF ByteSet
<1>5. Labels(lab, d.count) /\ IsBest(lab, d.count, Append(lab[row], Fold(sm, c)), s)
  BY <1>1, <1>4 DEF Ready, Follows
<1>6. IsBest(lab, d.count, Append(v, Fold(sm, c)), s)
  BY <1>1, <1>3, <1>5, BestStep
<1>7. u \in Text
  BY <1>1, <1>2, ReadIs
<1> HIDE DEF u, v, c
<1>8. d.match[s] \in Seq(Nat)
  BY <1>3, <1>6, <1>7, RowIs
<1>9. Len(d.match[s]) \in 0 .. Len(d.match[s]) /\ Popped(d.match[s], Len(d.match[s]), at + 1) = {}
  BY <1>8, PoppedAll, LenProperties
<1>10. Log(rep, Told(sm, t, at))
  BY SoundTold
<1>11. Told(sm, t, at) = Told(sm, t, at + 1 - 1) \cup Popped(d.match[s], Len(d.match[s]), at + 1)
  BY <1>2, <1>9
<1>12. IsBest(lab, d.count, ReadSoFar(sm, t, at + 1), s)
  BY <1>3, <1>6 DEF u
<1>13. SoundSearch(sm, d, lab, t, at + 1, s, Len(d.match[s]), rep)
  BY <1>1, <1>2, <1>9, <1>10, <1>11, <1>12 DEF SoundSearch
<1>14. QED
  BY <1>13

\* The last of the pending matches is reported.
LEMMA SoundPop ==
  ASSUME NEW sm, NEW d, NEW lab, Ready(sm, d, lab), NEW t, NEW at, NEW row, NEW pend, NEW rep,
         SoundSearch(sm, d, lab, t, at, row, pend, rep), pend # 0
  PROVE  SoundSearch(sm, d, lab, t, at, row, pend - 1, rep \o Listed(<<d.match[row][pend]>>, at))
<1> DEFINE ids == d.match[row]
           one == <<ids[pend]>>
           old == Told(sm, t, at - 1)
<1>1. /\ t \in Seq(ByteSet) /\ at \in 0 .. Len(t) /\ ids \in Seq(Nat) /\ NoTwice(ids)
      /\ Elements(ids) = Found(sm, t, at) /\ at \in Nat /\ IsBest(lab, d.count, ReadSoFar(sm, t, at), row)
  BY SoundRow
<1>2. Log(rep, old \cup Popped(ids, pend, at)) /\ pend \in 0 .. Len(ids) /\ Len(ids) \in Nat
  BY <1>1 DEF SoundSearch
<1> HIDE DEF ids, old
<1>3. pend \in 1 .. Len(ids) /\ pend - 1 \in 0 .. Len(ids) /\ DOMAIN ids = 1 .. Len(ids)
  BY <1>1, <1>2
<1>4. ids[pend] \in Nat
  BY <1>1, <1>3, ElementOfSeq
<1>5. one \in Seq(Nat) /\ NoTwice(one) /\ Elements(one) = {ids[pend]}
  BY <1>4 DEF NoTwice, Elements
<1> HIDE DEF one
<1>6. Log(Listed(one, at), Elements(one) \X {at})
  BY <1>1, <1>5, ListedLog
<1>7. \A x \in Popped(ids, pend, at) : x[2] = at
  BY DEF Popped
<1>8. \A x \in old : x[2] <= at - 1
  BY <1>1, ToldBefore DEF Ready, old
<1>9. \A x \in old : x[2] <= at /\ x[2] # at
  <2>2. ASSUME NEW x \in old PROVE x[2] \in Nat
    <3>1. x \in Elements(rep) /\ rep \in Seq(Reports)
      BY <1>2 DEF Log
    <3>3. Elements(rep) \subseteq Reports
      BY <3>1 DEF Elements
    <3>4. QED
      BY <3>1, <3>3 DEF Reports
  <2>3. QED
    BY <1>1, <1>8, <2>2
<1>10. <<ids[pend], at>> \notin Popped(ids, pend, at)
  <2> SUFFICES ASSUME NEW k \in pend + 1 .. Len(ids), ids[k] = ids[pend] PROVE FALSE
    BY DEF Popped
  <2>1. k \in DOMAIN ids /\ pend \in DOMAIN ids /\ k # pend
    BY <1>2, <1>3
  <2>2. QED
    BY <1>1, <2>1 DEF NoTwice
<1>11. Elements(one) \X {at} = {<<ids[pend], at>>}
  BY <1>5
<1>12. (old \cup Popped(ids, pend, at)) \cap (Elements(one) \X {at}) = {}
  BY <1>9, <1>10, <1>11
<1>13. \A x \in old \cup Popped(ids, pend, at) : x[2] <= at
  BY <1>1, <1>7, <1>9
<1>14. \A x \in Elements(one) \X {at} : x[2] = at
  OBVIOUS
<1>15. Log(rep \o Listed(one, at), (old \cup Popped(ids, pend, at)) \cup (Elements(one) \X {at}))
  BY <1>2, <1>6, <1>12, <1>13, <1>14, LogJoined
<1>16. Popped(ids, pend - 1, at) = Popped(ids, pend, at) \cup {<<ids[pend], at>>}
  <2>1. pend \in 0 .. Len(ids) /\ pend # 0
    BY <1>2
  <2>2. QED
    BY <1>1, <2>1, PoppedNext
<1>17. (old \cup Popped(ids, pend, at)) \cup (Elements(one) \X {at}) = old \cup Popped(ids, pend - 1, at)
  BY <1>11, <1>16
<1>18. Log(rep \o Listed(one, at), old \cup Popped(ids, pend - 1, at))
  BY <1>15, <1>17
<1>19. QED
  BY <1>1, <1>3, <1>18 DEF SoundSearch, ids, one, old

\* All the matches of the row in one go.
LEMMA SoundAll ==
  ASSUME NEW sm, NEW d, NEW lab, Ready(sm, d, lab), NEW t, NEW at, NEW row, NEW rep,
         SoundSearch(sm, d, lab, t, at, row, Len(d.match[row]), rep)
  PROVE  SoundSearch(sm, d, lab, t, at, row, 0, rep \o Listed(d.match[row], at))
<1> DEFINE ids == d.match[row]
           n == Len(ids)
<1>1. /\ t \in Seq(ByteSet) /\ at \in 0 .. Len(t) /\ ids \in Seq(Nat) /\ n \in Nat
      /\ Elements(ids) = Found(sm, t, at) /\ IsBest(lab, d.count, ReadSoFar(sm, t, at), row)
  BY SoundRow
<1>2. Log(rep \o Listed(Firsts(ids, n), at), Told(sm, t, at))
  BY SoundSeen
<1> HIDE DEF ids
<1>3. Firsts(ids, n) = ids
  BY <1>1 DEF Firsts
<1>4. Told(sm, t, at) = Told(sm, t, at - 1) \cup (Elements(ids) \X {at})
  BY <1>1, ToldBefore DEF Ready
<1>5. Popped(ids, 0, at) = Elements(ids) \X {at} /\ 0 \in 0 .. n
  BY <1>1, PoppedAll
<1>6. Log(rep \o Listed(ids, at), Told(sm, t, at - 1) \cup Popped(ids, 0, at))
  BY <1>2, <1>3, <1>4, <1>5
<1>7. QED
  BY <1>1, <1>5, <1>6 DEF SoundSearch, ids, n

\* A text that begins the same.
LEMMA SoundLonger ==
  ASSUME NEW sm, NEW d, NEW lab, NEW t, NEW at, NEW row, NEW pend, NEW rep,
         SoundSearch(sm, d, lab, t, at, row, pend, rep), NEW x \in Seq(ByteSet)
  PROVE  SoundSearch(sm, d, lab, t \o x, at, row, pend, rep)
<1> DEFINE u == t \o x
<1>1. t \in Seq(ByteSet) /\ at \in 0 .. Len(t) /\ Len(t) \in Nat
  BY DEF SoundSearch
<1>2. u \in Seq(ByteSet) /\ Len(u) = Len(t) + Len(x) /\ Len(x) \in Nat /\ \A i \in 1 .. Len(t) : u[i] = t[i]
  BY <1>1, Joined
<1> HIDE DEF u
<1>3. ASSUME NEW e \in 0 .. Len(t) PROVE ReadSoFar(sm, u, e) = ReadSoFar(sm, t, e)
  <2>1. e <= Len(u) /\ \A i \in 1 .. e : u[i] = t[i]
    BY <1>1, <1>2
  <2>2. QED
    BY <1>1, <1>2, <2>1, ReadPrefix
<1>4. \A e \in 1 .. at - 1 : e \in 0 .. Len(t)
  BY <1>1
<1>5. Told(sm, u, at - 1) = Told(sm, t, at - 1)
  BY <1>3, <1>4 DEF Told, Found
<1>6. at \in 0 .. Len(u)
  BY <1>1, <1>2
<1>7. QED
  BY <1>1, <1>2, <1>3, <1>5, <1>6 DEF SoundSearch, u

\* It is so at the beginning of a text.
LEMMA SoundStart ==
  ASSUME NEW sm, NEW d, NEW lab, Ready(sm, d, lab)
  PROVE  SoundSearch(sm, d, lab, <<>>, 0, 0, 0, <<>>)
<1> DEFINE t == <<>>
           z == 0
<1>1. t \in Seq(ByteSet) /\ Len(t) = 0 /\ z \in 0 .. Len(t)
  OBVIOUS
<1>2. Labels(lab, d.count) /\ lab[0] = Opening(sm)
  BY DEF Ready, Follows
<1>3. d.count \in Nat /\ d.count >= 1
  BY DEF Ready, FitsTables
<1>4. z \in 0 .. d.count - 1
  BY <1>3
<1>5. IsBest(lab, d.count, Opening(sm), z)
  BY <1>2, <1>4, BestSelf
<1>6. ReadSoFar(sm, t, z) = Opening(sm) /\ ReadSoFar(sm, t, z) \in Text
  BY <1>1, ReadIs
<1>7. d.match[z] \in Seq(Nat) /\ Elements(d.match[z]) = Hits(sm, ReadSoFar(sm, t, z))
  BY <1>5, <1>6, RowIs
<1>8. Hits(sm, ReadSoFar(sm, t, z)) = {}
  BY <1>1, FoundNone DEF Found, Ready
<1>9. Popped(d.match[z], z, z) = {} /\ z \in 0 .. Len(d.match[z])
  BY <1>7, <1>8, PoppedAll, LenProperties
<1>10. Told(sm, t, z - 1) = {}
  BY DEF Told
<1>11. Log(<<>>, {})
  BY DEF Log, NoTwice, Rising, Elements
<1>12. QED
  BY <1>1, <1>5, <1>6, <1>9, <1>10, <1>11 DEF SoundSearch

(***************************************************************************)
(* The calls keep a search sound.                                          *)
(***************************************************************************)
RowsLoop(n, r, d, row, px, from) == r[from] = row /\ \A i \in from .. n - 1 : r[i + 1] = Step(d, r[i], px[i + 1])

\* The rows of inner_match(), one after the other.
LEMMA RowsSteps ==
  ASSUME NEW d, NEW row, NEW px, Len(px) \in Nat, NEW from \in 0 .. Len(px)
  PROVE  RowsLoop(Len(px), Rows(d, row, px, from), d, row, px, from)
<1> DEFINE F(n, r) == r = [i \in from .. from + n |-> IF i = from THEN row ELSE Step(d, r[i - 1], px[i])]
           T == {n \in Nat : \E r : F(n, r)}
           L == Len(px)
           N == L - from
           w == CHOOSE r : F(N, r)
<1>0. from \in Nat /\ N \in Nat /\ from + N = L /\ L \in Nat
  OBVIOUS
<1> HIDE DEF N, L
<1>1. 0 \in T
  <2>1. F(0, [i \in from .. from + 0 |-> row])
    BY <1>0
  <2>2. QED
    BY <2>1
<1>2. ASSUME NEW n \in Nat, n \in T PROVE n + 1 \in T
  <2>1. PICK r : F(n, r)
    BY <1>2
  <2> DEFINE q == [i \in from .. from + (n + 1) |-> IF i = from + (n + 1) THEN Step(d, r[from + n], px[from + (n + 1)]) ELSE r[i]]
  <2>2. ASSUME NEW i \in from .. from + (n + 1)
        PROVE  q[i] = IF i = from THEN row ELSE Step(d, q[i - 1], px[i])
    <3>1. CASE i = from + (n + 1)
      <4>1. i - 1 = from + n /\ i - 1 \in from .. from + (n + 1) /\ i # from /\ i - 1 # from + (n + 1)
        BY <1>0, <3>1
      <4>2. q[i] = Step(d, r[from + n], px[i]) /\ q[i - 1] = r[i - 1]
        BY <3>1, <4>1
      <4>3. QED
        BY <4>1, <4>2
    <3>2. CASE i # from + (n + 1)
      <4>1. i \in from .. from + n /\ q[i] = r[i]
        BY <1>0, <3>2
      <4>2. r[i] = IF i = from THEN row ELSE Step(d, r[i - 1], px[i])
        BY <2>1, <4>1
      <4>3. CASE i # from
        <5>1. i - 1 \in from .. from + (n + 1) /\ i - 1 # from + (n + 1)
          BY <1>0, <4>1, <4>3
        <5>2. q[i - 1] = r[i - 1]
          BY <5>1
        <5>3. QED
          BY <4>1, <4>2, <5>2
      <4>4. QED
        BY <4>1, <4>2, <4>3
    <3>3. QED
      BY <3>1, <3>2
  <2>3. F(n + 1, q)
    BY <2>2
  <2> HIDE DEF F, q
  <2>4. QED
    BY <2>3
<1>3. N \in T
  BY <1>0, <1>1, <1>2, Induction
<1>4. F(N, w)
  BY <1>3
<1>5. Rows(d, row, px, from) = w
  BY <1>0 DEF Rows, L
<1>6. RowsLoop(L, w, d, row, px, from)
  <2> HIDE DEF w
  <2>1. w = [i \in from .. L |-> IF i = from THEN row ELSE Step(d, w[i - 1], px[i])]
    BY <1>0, <1>4
  <2>2. w[from] = row
    BY <1>0, <2>1
  <2>3. ASSUME NEW i \in from .. L - 1 PROVE w[i + 1] = Step(d, w[i], px[i + 1])
    <3>1. i + 1 \in from .. L /\ i + 1 # from /\ i + 1 - 1 = i
      BY <1>0
    <3> DEFINE j == i + 1
    <3>2. j \in from .. L /\ j # from
      BY <3>1
    <3> HIDE DEF j
    <3>3. w[j] = Step(d, w[j - 1], px[j])
      BY <2>1, <3>2
    <3>4. w[i + 1] = Step(d, w[i + 1 - 1], px[i + 1])
      BY <3>3 DEF j
    <3>5. QED
      BY <3>1, <3>4
  <2>4. QED
    BY <2>2, <2>3 DEF RowsLoop
<1>7. QED
  BY <1>5, <1>6 DEF L

\* px is the end of t, from byte B on.
Fragment(t, px, B) ==
  /\ px \in Seq(ByteSet) /\ B \in Nat /\ B + Len(px) = Len(t) /\ Len(px) \in Nat
  /\ \A i \in 1 .. Len(px) : px[i] = t[B + i]

\* As long as the rows have no matches, nothing is left unreported.
LEMMA RowsSound ==
  ASSUME NEW sm, NEW d, NEW lab, Ready(sm, d, lab), NEW t, NEW px, NEW B, Fragment(t, px, B),
         NEW from \in 0 .. Len(px), NEW row, NEW rep, SoundSearch(sm, d, lab, t, B + from, row, 0, rep),
         NEW r, RowsLoop(Len(px), r, d, row, px, from),
         NEW N \in from .. Len(px), \A i \in from + 1 .. N : ~(r[i] >= d.limit)
  PROVE  SoundSearch(sm, d, lab, t, B + N, r[N], 0, rep)
<1> DEFINE L == Len(px)
           T == {n \in 0 .. N - from : SoundSearch(sm, d, lab, t, B + from + n, r[from + n], 0, rep)}
<1>1. L \in Nat /\ from \in Nat /\ N \in Nat /\ from <= N /\ N <= L /\ B \in Nat /\ B + L = Len(t)
  BY DEF Fragment
<1>2. r[from] = row /\ \A i \in from .. L - 1 : r[i + 1] = Step(d, r[i], px[i + 1])
  BY DEF RowsLoop
<1> HIDE DEF L
<1>3. 0 \in T
  <2>1. B + from + 0 = B + from /\ from + 0 = from /\ 0 \in 0 .. N - from
    BY <1>1
  <2>2. QED
    BY <1>2, <2>1
<1>4. ASSUME NEW n \in 0 .. N - from - 1, n \in T PROVE n + 1 \in T
  <2> DEFINE at == B + from + n
             i == from + n
             s == r[i + 1]
  <2>1. /\ i \in from .. L - 1 /\ i + 1 \in from + 1 .. N /\ at + 1 = B + (i + 1) /\ i + 1 \in 1 .. L /\ at < Len(t)
        /\ at + 1 = B + from + (n + 1) /\ i + 1 = from + (n + 1) /\ n + 1 \in 0 .. N - from
    BY <1>1
  <2>2. SoundSearch(sm, d, lab, t, at, r[i], 0, rep)
    BY <1>4
  <2>3. s = Step(d, r[i], px[i + 1]) /\ px[i + 1] = t[B + (i + 1)]
    BY <1>2, <2>1 DEF Fragment, L
  <2> HIDE DEF at, i, s
  <2>4. s = Step(d, r[i], t[at + 1])
    BY <2>1, <2>3
  <2>5. SoundSearch(sm, d, lab, t, at + 1, s, Len(d.match[s]), rep) /\ (d.match[s] = <<>> => Len(d.match[s]) = 0)
    BY <2>1, <2>2, <2>4, SoundStep
  <2>6. ~(s >= d.limit)
    BY <2>1 DEF s
  <2>7. d.match[s] = <<>>
    BY <2>5, <2>6, SoundRow
  <2>8. SoundSearch(sm, d, lab, t, at + 1, s, 0, rep)
    BY <2>5, <2>7
  <2>9. QED
    BY <2>1, <2>8 DEF s
<1> HIDE DEF T
<1>5. N - from \in Nat
  BY <1>1
<1>6. 0 .. N - from \subseteq T
  BY <1>3, <1>4, <1>5, UpTo
<1>7. N - from \in T /\ B + from + (N - from) = B + N /\ from + (N - from) = N
  BY <1>1, <1>6
<1>8. QED
  BY <1>7 DEF T

\* inner_match() stops at the first row with matches.
LEMMA InnerMatchSound ==
  ASSUME NEW sm, NEW d, NEW lab, Ready(sm, d, lab), NEW t, NEW px, NEW B, Fragment(t, px, B),
         NEW from \in 0 .. Len(px), NEW row, NEW rep, SoundSearch(sm, d, lab, t, B + from, row, 0, rep),
         from < Len(px) \/ d.match[row] = <<>>
  PROVE  LET at == InnerMatch(d, row, px, from)
         IN \/ at.i = Len(px) /\ d.match[at.row] = <<>> /\ SoundSearch(sm, d, lab, t, B + Len(px), at.row, 0, rep)
            \/ /\ at.i \in 0 .. Len(px) - 1 /\ d.match[at.row] # <<>>
               /\ SoundSearch(sm, d, lab, t, B + (at.i + 1), at.row, Len(d.match[at.row]), rep)
<1> DEFINE L == Len(px)
           r == Rows(d, row, px, from)
           stops == {i \in from + 1 .. L : r[i] >= d.limit}
           x == Least(stops)
           at == InnerMatch(d, row, px, from)
<1>1. L \in Nat /\ from \in Nat /\ from \in 0 .. L /\ B \in Nat /\ B + L = Len(t)
  BY DEF Fragment
<1>2. RowsLoop(L, r, d, row, px, from)
  BY <1>1, RowsSteps
<1>3. at = IF stops = {} THEN [row |-> r[L], i |-> L] ELSE [row |-> r[x], i |-> x - 1]
  BY DEF InnerMatch
<1>4. stops \subseteq from + 1 .. L /\ \A i \in from + 1 .. L : r[i] >= d.limit => i \in stops
  OBVIOUS
<1>5. \A i \in stops : r[i] >= d.limit
  OBVIOUS
<1> HIDE DEF L, r, stops, x, at
<1>6. CASE stops = {}
  <2>1. L \in from .. L /\ (from < L => L \in from + 1 .. L) /\ \A i \in from + 1 .. L : ~(r[i] >= d.limit)
    BY <1>1, <1>4, <1>6
  <2>2. SoundSearch(sm, d, lab, t, B + L, r[L], 0, rep)
    BY <1>1, <1>2, <2>1, RowsSound DEF L
  <2>3. d.match[r[L]] = <<>>
    <3>1. CASE from < L
      BY <2>1, <2>2, <3>1, SoundRow
    <3>2. CASE ~(from < L)
      <4>1. from = L /\ r[L] = row
        BY <1>1, <1>2, <3>2 DEF RowsLoop
      <4>2. d.match[row] = <<>>
        BY <3>2 DEF L
      <4>3. QED
        BY <4>1, <4>2
    <3>3. QED
      BY <3>1, <3>2
  <2>4. at.i = L /\ at.row = r[L]
    BY <1>3, <1>6
  <2>5. QED
    BY <2>2, <2>3, <2>4 DEF at, L
<1>7. CASE stops # {}
  <2>1. stops \subseteq Nat
    BY <1>1, <1>4
  <2>2. x \in stops /\ \A y \in stops : x <= y
    BY <1>7, <2>1, LeastIs DEF x
  <2>3. x \in from + 1 .. L /\ r[x] >= d.limit
    BY <1>4, <1>5, <2>2
  <2> DEFINE n == x - 1
  <2>4. n \in from .. L /\ n \in 0 .. L - 1 /\ n + 1 = x /\ n \in from .. L - 1
    BY <1>1, <2>3
  <2>5. ASSUME NEW i \in from + 1 .. n PROVE ~(r[i] >= d.limit)
    <3>1. i \in from + 1 .. L /\ ~(x <= i)
      BY <1>1, <2>3
    <3>2. QED
      BY <1>4, <2>2, <3>1
  <2> HIDE DEF n
  <2>6. SoundSearch(sm, d, lab, t, B + n, r[n], 0, rep)
    BY <1>1, <1>2, <2>4, <2>5, RowsSound DEF L
  <2>7. r[x] = Step(d, r[n], px[x])
    BY <1>2, <2>4 DEF RowsLoop
  <2>8. px[x] = t[B + x] /\ B + n + 1 = B + x /\ B + n < Len(t)
    <3>1. x \in 1 .. L
      BY <1>1, <2>3
    <3>2. px[x] = t[B + x]
      BY <3>1 DEF Fragment, L
    <3>3. QED
      BY <1>1, <2>4, <3>2
  <2>9. r[x] = Step(d, r[n], t[B + n + 1])
    BY <2>7, <2>8
  <2> DEFINE s == r[x]
             a == B + n
  <2>10. SoundSearch(sm, d, lab, t, a, r[n], 0, rep) /\ a < Len(t) /\ s = Step(d, r[n], t[a + 1]) /\ a + 1 = B + x
    BY <2>6, <2>8, <2>9
  <2> HIDE DEF s, a
  <2>11. SoundSearch(sm, d, lab, t, a + 1, s, Len(d.match[s]), rep)
    BY <2>10, SoundStep
  <2>12. d.match[s] # <<>>
    BY <2>3, <2>11, SoundRow DEF s
  <2>13. at.i = n /\ at.row = s
    BY <1>3, <1>7 DEF n, s
  <2>14. SoundSearch(sm, d, lab, t, B + (n + 1), s, Len(d.match[s]), rep)
    BY <2>4, <2>10, <2>11
  <2>15. QED
    BY <2>4, <2>12, <2>13, <2>14 DEF at, L
<1>8. QED
  BY <1>6, <1>7

\* smack_search_next().
LEMMA SearchNextSound ==
  ASSUME NEW sm, NEW d, NEW lab, Ready(sm, d, lab), NEW t, NEW px, NEW B, Fragment(t, px, B),
         NEW from \in 0 .. Len(px), NEW st, NEW rep,
         SoundSearch(sm, d, lab, t, B + from, st.row, st.pending, rep),
         from < Len(px) \/ st.pending # 0 \/ d.match[st.row] = <<>>
  PROVE  LET result == SearchNext(d, st, px, from)
         IN /\ result.offset \in 0 .. Len(px) /\ result.state = [row |-> result.state.row, pending |-> result.state.pending]
            /\ SoundSearch(sm, d, lab, t, B + result.offset, result.state.row, result.state.pending,
                     rep \o Listed(result.ids, B + result.offset))
<1> DEFINE L == Len(px)
           result == SearchNext(d, st, px, from)
           inner == InnerMatch(d, st.row, px, from)
           at == IF st.pending # 0 THEN [row |-> st.row, i |-> from] ELSE inner
           fresh == st.pending = 0 /\ d.match[at.row] # <<>>
           left == IF fresh THEN Len(d.match[at.row]) ELSE st.pending
<1>1. L \in Nat /\ from \in 0 .. L
  BY DEF Fragment
<1>2. /\ result.ids = IF left = 0 THEN <<>> ELSE <<d.match[at.row][left]>>
      /\ result.offset = IF fresh THEN at.i + 1 ELSE at.i
      /\ result.state = [row |-> at.row, pending |-> IF left = 0 THEN 0 ELSE (left - 1) % PendingValues]
  BY DEF SearchNext
<1>3. rep \o Listed(<<>>, B + L) = rep
  <2>1. rep \in Seq(Reports)
    BY DEF SoundSearch, Log
  <2>2. Listed(<<>>, B + L) = <<>>
    BY DEF Listed
  <2>3. QED
    BY <2>1, <2>2
<1> HIDE DEF result, inner
<1>7. ASSUME NEW e, NEW row, NEW pend, SoundSearch(sm, d, lab, t, e, row, pend, rep), pend # 0
      PROVE  (pend - 1) % PendingValues = pend - 1
  <2>1. row \in 0 .. d.count - 1 /\ d.match[row] \in Seq(Nat)
    BY <1>7, SoundRow
  <2>2. Len(d.match[row]) <= PendingValues /\ Len(d.match[row]) \in Nat
    BY <2>1 DEF Ready, NothingCut
  <2>3. pend \in 0 .. Len(d.match[row])
    BY <1>7 DEF SoundSearch
  <2>4. pend - 1 \in Nat /\ pend - 1 < PendingValues
    BY <1>7, <2>2, <2>3, Widths
  <2>5. QED
    BY <2>4, Widths, CutNumber
<1>4. CASE st.pending # 0
  <2>1. at.row = st.row /\ at.i = from /\ ~fresh /\ left = st.pending
    BY <1>4
  <2>2. /\ SoundSearch(sm, d, lab, t, B + from, st.row, st.pending - 1, rep \o Listed(<<d.match[st.row][st.pending]>>, B + from))
        /\ (st.pending - 1) % PendingValues = st.pending - 1
    BY <1>4, <1>7, SoundPop
  <2> HIDE DEF at, fresh, left
  <2>3. result.ids = <<d.match[st.row][st.pending]>> /\ result.offset = from
    BY <1>2, <1>4, <2>1
  <2>4. result.state = [row |-> st.row, pending |-> st.pending - 1]
    BY <1>2, <1>4, <2>1, <2>2
  <2>5. result.state.row = st.row /\ result.state.pending = st.pending - 1
    BY <2>4
  <2>6. QED
    BY <1>1, <2>2, <2>3, <2>4, <2>5 DEF result, L
<1>5. CASE st.pending = 0
  <2>1. at = inner
    BY <1>5
  <2>2. SoundSearch(sm, d, lab, t, B + from, st.row, 0, rep) /\ (from < Len(px) \/ d.match[st.row] = <<>>)
    BY <1>5
  <2>3. \/ inner.i = L /\ d.match[inner.row] = <<>> /\ SoundSearch(sm, d, lab, t, B + L, inner.row, 0, rep)
        \/ /\ inner.i \in 0 .. L - 1 /\ d.match[inner.row] # <<>>
           /\ SoundSearch(sm, d, lab, t, B + (inner.i + 1), inner.row, Len(d.match[inner.row]), rep)
    BY <1>1, <2>2, InnerMatchSound DEF inner
  <2>4. CASE d.match[inner.row] = <<>>
    <3>1. inner.i = L /\ SoundSearch(sm, d, lab, t, B + L, inner.row, 0, rep)
      BY <2>3, <2>4
    <3>2. ~fresh /\ left = 0
      BY <1>5, <2>1, <2>4
    <3> HIDE DEF at, fresh, left
    <3>3. result.ids = <<>> /\ result.offset = L /\ result.state = [row |-> inner.row, pending |-> 0]
      BY <1>2, <2>1, <3>1, <3>2
    <3>4. result.state.row = inner.row /\ result.state.pending = 0
      BY <3>3
    <3>5. SoundSearch(sm, d, lab, t, B + L, inner.row, 0, rep \o Listed(<<>>, B + L))
      BY <1>3, <3>1
    <3>6. QED
      BY <1>1, <3>3, <3>4, <3>5 DEF result, L
  <2>5. CASE d.match[inner.row] # <<>>
    <3> DEFINE s == inner.row
               k == Len(d.match[s])
               e == B + (inner.i + 1)
    <3>1. inner.i \in 0 .. L - 1 /\ SoundSearch(sm, d, lab, t, e, s, k, rep)
      BY <2>3, <2>5
    <3>2. fresh /\ left = k
      BY <1>5, <2>1, <2>5
    <3>3. k # 0 /\ k \in Nat
      <4>1. d.match[s] \in Seq(Nat)
        BY <3>1, SoundRow
      <4>2. QED
        BY <2>5, <4>1
    <3> HIDE DEF at, fresh, left, s, k
    <3>4. SoundSearch(sm, d, lab, t, e, s, k - 1, rep \o Listed(<<d.match[s][k]>>, e))
      BY <3>1, <3>3, SoundPop
    <3>9. (k - 1) % PendingValues = k - 1
      BY <1>7, <3>1, <3>3
    <3>5. result.ids = <<d.match[s][k]>> /\ result.offset = inner.i + 1 /\ result.state = [row |-> s, pending |-> k - 1]
      BY <1>2, <2>1, <3>2, <3>3, <3>9 DEF s
    <3>6. result.state.row = s /\ result.state.pending = k - 1
      BY <3>5
    <3>7. inner.i + 1 \in 0 .. L
      BY <1>1, <3>1
    <3>8. QED
      BY <3>4, <3>5, <3>6, <3>7 DEF result, L
  <2>6. QED
    BY <2>4, <2>5
<1>6. QED
  BY <1>4, <1>5

SearchLoop(n, r, d, st, px) == r[0] = [row |-> st.row, found |-> <<>>] /\ \A i \in 0 .. n - 1 : r[i + 1] = Report(d, r[i], px[i + 1], i + 1)

\* smack_search(), byte by byte.
LEMMA SearchSteps ==
  ASSUME NEW d, NEW st, NEW px, Len(px) \in Nat
  PROVE  \E r : SearchLoop(Len(px), r, d, st, px) /\ Search(d, st, px) = r[Len(px)]
<1> DEFINE F(n, r) == r = [i \in 0 .. n |-> IF i = 0 THEN [row |-> st.row, found |-> <<>>] ELSE Report(d, r[i - 1], px[i], i)]
           T == {n \in Nat : \E r : F(n, r)}
<1>1. 0 \in T
  <2>1. F(0, [i \in 0 .. 0 |-> [row |-> st.row, found |-> <<>>]])
    OBVIOUS
  <2>2. QED
    BY <2>1
<1>2. ASSUME NEW n \in Nat, n \in T PROVE n + 1 \in T
  <2>1. PICK r : F(n, r)
    BY <1>2
  <2> DEFINE q == [i \in 0 .. n + 1 |-> IF i = n + 1 THEN Report(d, r[n], px[(n + 1)], (n + 1)) ELSE r[i]]
  <2>2. ASSUME NEW i \in 0 .. n + 1
        PROVE  q[i] = IF i = 0 THEN [row |-> st.row, found |-> <<>>] ELSE Report(d, q[i - 1], px[i], i)
    BY <2>1
  <2>3. F(n + 1, q)
    BY <2>2
  <2> HIDE DEF F, q
  <2>4. QED
    BY <2>3
<1>3. Len(px) \in T
  BY <1>1, <1>2, Induction
<1> DEFINE N == Len(px)
           w == CHOOSE r : F(N, r)
<1>4. F(N, w)
  BY <1>3
<1>5. Search(d, st, px) = w[Len(px)]
  BY DEF Search
<1>6. SearchLoop(N, w, d, st, px)
  <2> HIDE DEF w, N
  <2>1. w = [i \in 0 .. N |-> IF i = 0 THEN [row |-> st.row, found |-> <<>>] ELSE Report(d, w[i - 1], px[i], i)] /\ N \in Nat
    BY <1>4 DEF N
  <2>2. w[0] = [row |-> st.row, found |-> <<>>]
    BY <2>1
  <2>3. ASSUME NEW i \in 0 .. N - 1 PROVE w[i + 1] = Report(d, w[i], px[i + 1], i + 1)
    <3>1. i + 1 \in 0 .. N /\ i + 1 # 0 /\ i + 1 - 1 = i
      BY <2>1
    <3>2. w[i + 1] = Report(d, w[i + 1 - 1], px[i + 1], i + 1)
      BY <2>1, <3>1
    <3>3. QED
      BY <3>1, <3>2
  <2>4. QED
    BY <2>2, <2>3 DEF SearchLoop
<1>7. QED
  <2> HIDE DEF w
  <2>1. QED
    BY <1>5, <1>6

\* Reports within a fragment that begins after B bytes.
Shifted(found, B) == [k \in DOMAIN found |-> <<found[k][1], B + found[k][2]>>]

\* The reports of a fragment, counted from the beginning of the text.
LEMMA ShiftedIs ==
  ASSUME NEW s \in Seq(Reports), NEW B \in Nat
  PROVE  Shifted(s, B) \in Seq(Reports) /\ Len(Shifted(s, B)) = Len(s) /\ DOMAIN Shifted(s, B) = 1 .. Len(s)
<1> DEFINE n == Len(s)
           w == Shifted(s, B)
<1>1. n \in Nat /\ DOMAIN s = 1 .. n /\ \A k \in 1 .. n : s[k] \in Reports
  OBVIOUS
<1>2. \A k \in 1 .. n : s[k][1] \in Nat /\ B + s[k][2] \in Nat
  BY <1>1 DEF Reports
<1>3. w \in [1 .. n -> Reports]
  BY <1>1, <1>2 DEF Shifted, Reports
<1> HIDE DEF w, n
<1>4. w \in Seq(Reports) /\ Len(w) = n /\ DOMAIN w = 1 .. n
  BY <1>1, <1>3, SeqDef, LenProperties
<1>5. QED
  BY <1>4 DEF w, n

\* They can be joined before or after.
LEMMA ShiftedJoined ==
  ASSUME NEW s \in Seq(Reports), NEW ids \in Seq(Nat), NoTwice(ids), NEW B \in Nat, NEW e \in Nat
  PROVE  Shifted(s \o Listed(ids, e), B) = Shifted(s, B) \o Listed(ids, B + e)
<1> DEFINE l == Listed(ids, e)
           m == Listed(ids, B + e)
           u == Shifted(s, B)
           v == Shifted(s \o l, B)
           w == u \o m
           n == Len(s)
           k == Len(ids)
           x == s \o l
           R == Reports
<1>1. l \in Seq(Reports) /\ Len(l) = k /\ k \in Nat /\ DOMAIN ids = 1 .. k /\ \A i \in 1 .. k : l[i] = <<ids[i], e>>
  BY ListedLog DEF Log
<1>2. m \in Seq(Reports) /\ Len(m) = k /\ \A i \in 1 .. k : m[i] = <<ids[i], B + e>>
  <2>1. B + e \in Nat
    OBVIOUS
  <2>2. QED
    BY <1>1, <2>1, ListedLog DEF Log
<1> HIDE DEF l, m
<1>3. /\ x \in Seq(R) /\ Len(x) = n + k /\ n \in Nat
      /\ \A i \in 1 .. n : x[i] = s[i]
      /\ \A i \in 1 .. k : x[n + i] = l[i]
      /\ \A i \in 1 .. n + k : i \in 1 .. n \/ \E j \in 1 .. k : i = n + j
  <2>1. s \in Seq(R) /\ l \in Seq(R) /\ n = Len(s) /\ Len(l) = k
    BY <1>1
  <2> HIDE DEF R, n, k
  <2>2. x \in Seq(R) /\ Len(x) = Len(s) + Len(l) /\ Len(s) \in Nat
    BY <2>1, Joined
  <2>3. \A i \in 1 .. Len(s) : x[i] = s[i]
    BY <2>1, Joined
  <2>4. \A i \in 1 .. Len(l) : x[Len(s) + i] = l[i]
    BY <2>1, Joined
  <2>5. \A i \in 1 .. Len(s) + Len(l) : i \in 1 .. Len(s) \/ \E j \in 1 .. Len(l) : i = Len(s) + j
    BY <2>1, Joined
  <2> HIDE DEF x
  <2>6. QED
    BY <2>1, <2>2, <2>3, <2>4, <2>5
<1> HIDE DEF u
<1>4. u \in Seq(R) /\ Len(u) = n
  BY ShiftedIs DEF u
<1>5. /\ w \in Seq(R) /\ Len(w) = n + k
      /\ \A i \in 1 .. n : w[i] = u[i]
      /\ \A i \in 1 .. k : w[n + i] = m[i]
  <2>1. u \in Seq(R) /\ m \in Seq(R) /\ n = Len(u) /\ Len(m) = k
    BY <1>2, <1>4
  <2> HIDE DEF R, n, k
  <2>2. w \in Seq(R) /\ Len(w) = Len(u) + Len(m) /\ Len(u) \in Nat
    BY <2>1, Joined
  <2>3. \A i \in 1 .. Len(u) : w[i] = u[i]
    BY <2>1, Joined
  <2>4. \A i \in 1 .. Len(m) : w[Len(u) + i] = m[i]
    BY <2>1, Joined
  <2> HIDE DEF w
  <2>5. QED
    BY <2>1, <2>2, <2>3, <2>4
<1> HIDE DEF x
<1>6. v \in Seq(R) /\ Len(v) = n + k
  <2>1. Shifted(x, B) \in Seq(Reports) /\ Len(Shifted(x, B)) = Len(x)
    BY <1>3, ShiftedIs
  <2>2. QED
    BY <1>3, <2>1 DEF x
<1>7. DOMAIN s = 1 .. n /\ DOMAIN x = 1 .. n + k
  BY <1>3
<1>8. \A i \in 1 .. n : u[i] = <<s[i][1], B + s[i][2]>>
  BY <1>7 DEF Shifted, u
<1>9. \A i \in 1 .. n + k : v[i] = <<x[i][1], B + x[i][2]>>
  BY <1>7 DEF Shifted, x
<1> HIDE DEF u, v, w, n, k, R
<1>10. ASSUME NEW i \in 1 .. n + k PROVE v[i] = w[i]
  <2>1. CASE i \in 1 .. n
    <3>1. v[i] = <<x[i][1], B + x[i][2]>> /\ w[i] = <<s[i][1], B + s[i][2]>>
      BY <1>5, <1>8, <1>9, <2>1, Zenon
    <3>2. x[i] = s[i]
      BY <1>3, <2>1, Zenon
    <3>3. QED
      BY <3>1, <3>2, Zenon
  <2>2. ASSUME NEW j \in 1 .. k, i = n + j PROVE v[i] = w[i]
    <3>1. x[i] = <<ids[j], e>> /\ w[i] = <<ids[j], B + e>>
      BY <1>1, <1>2, <1>3, <1>5, <2>2
    <3>2. x[i][1] = ids[j] /\ x[i][2] = e
      BY <3>1
    <3>3. v[i] = <<x[i][1], B + x[i][2]>>
      BY <1>9
    <3>4. QED
      BY <3>1, <3>2, <3>3
  <2>3. QED
    BY <1>3, <2>1, <2>2
<1>11. v = w
  <2> DEFINE N == n + k
  <2>1. v \in [1 .. N -> R] /\ w \in [1 .. N -> R]
    BY <1>5, <1>6, LenProperties
  <2>2. \A i \in 1 .. N : v[i] = w[i]
    BY <1>10
  <2> HIDE DEF N
  <2>3. v = [i \in 1 .. N |-> v[i]] /\ w = [i \in 1 .. N |-> w[i]]
    BY <2>1
  <2>4. [i \in 1 .. N |-> v[i]] = [i \in 1 .. N |-> w[i]]
    BY <2>2
  <2>5. QED
    BY <2>3, <2>4
<1>12. QED
  BY <1>11 DEF v, w, u, l, m, x

\* smack_search().
LEMMA SearchSound ==
  ASSUME NEW sm, NEW d, NEW lab, Ready(sm, d, lab), NEW t, NEW px, NEW B, Fragment(t, px, B),
         NEW st, NEW rep, SoundSearch(sm, d, lab, t, B, st.row, 0, rep)
  PROVE  SoundSearch(sm, d, lab, t, B + Len(px), Search(d, st, px).row, 0, rep \o Shifted(Search(d, st, px).found, B))
<1> DEFINE L == Len(px)
<1>1. L \in Nat /\ B \in Nat /\ B + L = Len(t) /\ \A i \in 1 .. L : px[i] = t[B + i]
  BY DEF Fragment
<1>2. PICK r : SearchLoop(L, r, d, st, px) /\ Search(d, st, px) = r[L]
  BY <1>1, SearchSteps
<1> DEFINE T == {n \in 0 .. L : /\ r[n].found \in Seq(Reports)
                                /\ SoundSearch(sm, d, lab, t, B + n, r[n].row, 0, rep \o Shifted(r[n].found, B))}
<1> HIDE DEF L
<1>3. 0 \in T
  <2>1. r[0] = [row |-> st.row, found |-> <<>>]
    BY <1>2 DEF SearchLoop
  <2>2. r[0].row = st.row /\ r[0].found = <<>> /\ B + 0 = B
    BY <1>1, <2>1
  <2>3. Shifted(<<>>, B) = <<>>
    BY DEF Shifted
  <2>4. rep \o <<>> = rep
    BY DEF SoundSearch, Log
  <2>5. Shifted(r[0].found, B) = <<>> /\ r[0].found \in Seq(Reports)
    BY <2>2, <2>3
  <2>6. rep \o Shifted(r[0].found, B) = rep
    BY <2>4, <2>5
  <2>7. SoundSearch(sm, d, lab, t, B + 0, r[0].row, 0, rep \o Shifted(r[0].found, B))
    BY <2>2, <2>6
  <2>8. 0 \in 0 .. L
    BY <1>1
  <2>9. QED
    BY <2>5, <2>7, <2>8
<1>4. ASSUME NEW n \in 0 .. L - 1, n \in T PROVE n + 1 \in T
  <2> DEFINE a == r[n]
             s == Step(d, a.row, px[n + 1])
             ids == d.match[s]
             f == a.found
             at == B + n
             sofar == rep \o Shifted(f, B)
  <2>1. r[n + 1] = Report(d, a, px[n + 1], n + 1)
    BY <1>2 DEF SearchLoop
  <2>2. r[n + 1] = [row |-> s, found |-> f \o Listed(ids, n + 1)]
    BY <2>1 DEF Report, Listed
  <2>3. r[n + 1].row = s /\ r[n + 1].found = f \o Listed(ids, n + 1)
    <3> DEFINE g == f \o Listed(ids, n + 1)
    <3> HIDE DEF s, g
    <3>1. r[n + 1] = [row |-> s, found |-> g]
      BY <2>2 DEF g
    <3>2. r[n + 1].row = s /\ r[n + 1].found = g
      BY <3>1
    <3>3. QED
      BY <3>2 DEF g
  <2>4. /\ n + 1 \in 1 .. L /\ n + 1 \in 0 .. L /\ at + 1 = B + (n + 1) /\ at < Len(t) /\ n + 1 \in Nat
        /\ px[n + 1] = t[B + (n + 1)]
    BY <1>1
  <2>5. f \in Seq(Reports) /\ SoundSearch(sm, d, lab, t, at, a.row, 0, sofar)
    BY <1>4
  <2>6. s = Step(d, a.row, t[at + 1])
    BY <2>4
  <2> HIDE DEF a, s, f, at, sofar
  <2>7. SoundSearch(sm, d, lab, t, at + 1, s, Len(ids), sofar)
    BY <2>4, <2>5, <2>6, SoundStep
  <2>8. SoundSearch(sm, d, lab, t, at + 1, s, 0, sofar \o Listed(ids, at + 1))
    BY <2>7, SoundAll
  <2>9. ids \in Seq(Nat) /\ NoTwice(ids)
    BY <2>7, SoundRow
  <2> HIDE DEF ids
  <2>10. Listed(ids, n + 1) \in Seq(Reports) /\ Listed(ids, at + 1) \in Seq(Reports)
    <3>1. at + 1 \in Nat
      BY <1>1, <2>4
    <3>2. QED
      BY <2>4, <2>9, <3>1, ListedLog DEF Log
  <2>11. f \o Listed(ids, n + 1) \in Seq(Reports)
    BY <2>5, <2>10, Joined
  <2>12. Shifted(f \o Listed(ids, n + 1), B) = Shifted(f, B) \o Listed(ids, at + 1)
    <3>1. Shifted(f \o Listed(ids, n + 1), B) = Shifted(f, B) \o Listed(ids, B + (n + 1))
      BY <1>1, <2>4, <2>5, <2>9, ShiftedJoined
    <3>2. QED
      BY <2>4, <3>1
  <2>13. sofar \o Listed(ids, at + 1) = rep \o (Shifted(f, B) \o Listed(ids, at + 1))
    <3>1. rep \in Seq(Reports)
      BY DEF SoundSearch, Log
    <3>2. Shifted(f, B) \in Seq(Reports)
      BY <1>1, <2>5, ShiftedIs
    <3> DEFINE R == Reports
               x == Shifted(f, B)
               y == Listed(ids, at + 1)
    <3>3. rep \in Seq(R) /\ x \in Seq(R) /\ y \in Seq(R)
      BY <2>10, <3>1, <3>2
    <3> HIDE DEF R, x, y
    <3>4. (rep \o x) \o y = rep \o (x \o y)
      BY <3>3, ConcatAssociative
    <3>5. QED
      BY <3>4 DEF sofar, x, y
  <2>14. SoundSearch(sm, d, lab, t, B + (n + 1), s, 0, rep \o Shifted(f \o Listed(ids, n + 1), B))
    BY <2>4, <2>8, <2>12, <2>13
  <2>15. QED
    BY <2>3, <2>4, <2>11, <2>14
<1> HIDE DEF T
<1>5. L \in T
  <2>1. L \in Nat
    BY <1>1
  <2>2. 0 .. L \subseteq T
    BY <1>3, <1>4, <2>1, UpTo
  <2>3. QED
    BY <2>1, <2>2
<1>6. QED
  BY <1>2, <1>5 DEF T, L

\* The caller's state while it searches.
Searching(sm, d, px, off, t, st, rep) ==
  /\ Fragment(t, px, Len(t) - Len(px)) /\ off \in 0 .. Len(px) /\ st = [row |-> st.row, pending |-> st.pending]
  /\ \E lab : Ready(sm, d, lab) /\ SoundSearch(sm, d, lab, t, Len(t) - Len(px) + off, st.row, st.pending, rep)

\* What the call at the end of the text reports.
Answers(d, row, ph) ==
  LET ids == d.match[Step(d, row, AnchorEnd)]
  IN IF ph = "ended" THEN ids ELSE IF ids = <<>> THEN <<>> ELSE <<ids[1]>>

Answered(sm, d, t, ph, ans) ==
  \E lab, row, rep : /\ Ready(sm, d, lab) /\ SoundSearch(sm, d, lab, t, Len(t), row, 0, rep) /\ ans = Answers(d, row, ph)

\* smack_compile() makes the table that a search needs, when it cuts nothing.
LEMMA CompiledReady ==
  ASSUME NEW sm, Collected(sm), Plainly(sm), NothingCut(sm, Compiled(sm))
  PROVE  \E lab : Ready(sm, Compiled(sm), lab)
<1>1. Registered(sm) /\ Folded(sm)
  BY CollectedRegistered DEF Collected
<1>2. FitsTables(sm, Compiled(sm), RowWidth(sm)) /\ \E lab : Follows(sm, Compiled(sm), lab)
  BY <1>1, CompiledFits DEF Plainly
<1>3. QED
  BY <1>1, <1>2 DEF Ready

\* The caller's state at the beginning of a text,
LEMMA SearchingStart ==
  ASSUME NEW sm, NEW d, NEW lab, Ready(sm, d, lab)
  PROVE  Searching(sm, d, <<>>, 0, <<>>, Start, <<>>)
<1>1. SoundSearch(sm, d, lab, <<>>, 0, 0, 0, <<>>)
  BY SoundStart
<1>2. Start.row = 0 /\ Start.pending = 0 /\ Start = [row |-> Start.row, pending |-> Start.pending]
  BY DEF Start
<1>3. Len(<<>>) = 0 /\ Len(<<>>) - Len(<<>>) = 0 /\ Len(<<>>) - Len(<<>>) + 0 = 0 /\ 0 \in 0 .. Len(<<>>)
  OBVIOUS
<1>4. Fragment(<<>>, <<>>, Len(<<>>) - Len(<<>>))
  BY <1>3 DEF Fragment
<1>5. SoundSearch(sm, d, lab, <<>>, Len(<<>>) - Len(<<>>) + 0, Start.row, Start.pending, <<>>)
  BY <1>1, <1>2, <1>3
<1>6. QED
  BY <1>2, <1>3, <1>4, <1>5 DEF Searching

\* (what is known of it)
LEMMA SearchingFacts ==
  ASSUME NEW sm, NEW d, NEW px, NEW off, NEW t, NEW st, NEW rep, Searching(sm, d, px, off, t, st, rep)
  PROVE  /\ px \in Seq(ByteSet) /\ Len(px) \in Nat /\ t \in Seq(ByteSet) /\ Len(t) \in Nat /\ Len(px) <= Len(t)
         /\ off \in 0 .. Len(px) /\ Len(t) - Len(px) \in Nat /\ rep \in Seq(Reports)
         /\ st = [row |-> st.row, pending |-> st.pending]
<1>1. px \in Seq(ByteSet) /\ Len(px) \in Nat /\ Len(t) - Len(px) \in Nat /\ Len(t) - Len(px) + Len(px) = Len(t)
  BY DEF Searching, Fragment
<1>2. PICK lab : SoundSearch(sm, d, lab, t, Len(t) - Len(px) + off, st.row, st.pending, rep)
  BY DEF Searching
<1>3. t \in Seq(ByteSet) /\ rep \in Seq(Reports)
  BY <1>2 DEF SoundSearch, Log
<1>4. Len(t) \in Nat
  BY <1>3, LenProperties
<1>5. QED
  BY <1>1, <1>3, <1>4 DEF Searching

\* after the next fragment arrived,
LEMMA Delivered ==
  ASSUME NEW sm, NEW d, NEW px, NEW t, NEW st, NEW rep, Searching(sm, d, px, Len(px), t, st, rep), NEW x \in Seq(ByteSet)
  PROVE  Searching(sm, d, x, 0, t \o x, st, rep)
<1> DEFINE u == t \o x
<1>1. /\ px \in Seq(ByteSet) /\ Len(px) \in Nat /\ t \in Seq(ByteSet) /\ Len(t) \in Nat
      /\ st = [row |-> st.row, pending |-> st.pending]
  BY SearchingFacts
<1>2. PICK lab : Ready(sm, d, lab) /\ SoundSearch(sm, d, lab, t, Len(t) - Len(px) + Len(px), st.row, st.pending, rep)
  BY DEF Searching
<1>3. Len(t) - Len(px) + Len(px) = Len(t)
  BY <1>1
<1>4. SoundSearch(sm, d, lab, t, Len(t), st.row, st.pending, rep)
  BY <1>2, <1>3
<1>5. SoundSearch(sm, d, lab, u, Len(t), st.row, st.pending, rep)
  BY <1>4, SoundLonger
<1>6. u \in Seq(ByteSet) /\ Len(u) = Len(t) + Len(x) /\ Len(x) \in Nat
  BY <1>1, Joined
<1>7. \A i \in 1 .. Len(x) : u[Len(t) + i] = x[i]
  BY <1>1, Joined
<1> HIDE DEF u
<1>8. Len(u) - Len(x) = Len(t) /\ Len(u) - Len(x) + 0 = Len(t) /\ 0 \in 0 .. Len(x)
  BY <1>1, <1>6
<1>9. Fragment(u, x, Len(u) - Len(x))
  BY <1>1, <1>6, <1>7, <1>8 DEF Fragment
<1>10. SoundSearch(sm, d, lab, u, Len(u) - Len(x) + 0, st.row, st.pending, rep)
  BY <1>5, <1>8
<1>11. QED
  BY <1>1, <1>2, <1>8, <1>9, <1>10 DEF Searching, u

Rest(px, off) == SubSeq(px, off + 1, Len(px))

\* (what is left of a fragment is a fragment, too)
LEMMA RestOf ==
  ASSUME NEW t, NEW px, NEW B, Fragment(t, px, B), NEW off \in 0 .. Len(px)
  PROVE  Fragment(t, Rest(px, off), B + off) /\ B + off + Len(Rest(px, off)) = B + Len(px)
<1> DEFINE L == Len(px)
           u == SubSeq(px, off + 1, L)
<1>1. L \in Nat /\ B \in Nat /\ B + L = Len(t) /\ off \in Nat /\ off <= L /\ px \in Seq(ByteSet)
  BY DEF Fragment
<1>2. /\ u \in Seq(ByteSet) /\ Len(u) = L - off /\ Len(u) \in Nat
      /\ \A i \in 1 .. L - off : u[i] = px[off + i]
  <2>1. Len(u) = IF off + 1 <= L THEN L - (off + 1) + 1 ELSE 0
    BY <1>1, SubSeqProperties
  <2>2. u \in Seq(ByteSet)
    BY <1>1, SubSeqProperties
  <2>3. \A i \in 1 .. L - (off + 1) + 1 : u[i] = px[off + 1 + i - 1]
    BY <1>1, SubSeqProperties
  <2> HIDE DEF u
  <2>4. QED
    BY <1>1, <2>1, <2>2, <2>3
<1> HIDE DEF u, L
<1>3. ASSUME NEW i \in 1 .. Len(u) PROVE u[i] = t[B + off + i]
  <2>1. off + i \in 1 .. L /\ u[i] = px[off + i] /\ B + (off + i) = B + off + i
    BY <1>1, <1>2
  <2>2. px[off + i] = t[B + (off + i)]
    BY <2>1 DEF Fragment, L
  <2>3. QED
    BY <2>1, <2>2
<1>4. B + off \in Nat /\ B + off + Len(u) = Len(t)
  BY <1>1, <1>2
<1>5. QED
  BY <1>1, <1>2, <1>3, <1>4 DEF Fragment, Rest, u, L

\* after smack_search() read the rest of the fragment,
LEMMA Searched ==
  ASSUME NEW sm, NEW d, NEW px, NEW off, NEW t, NEW st, NEW rep, Searching(sm, d, px, off, t, st, rep), st.pending = 0
  PROVE  LET result == Search(d, st, Rest(px, off))
         IN Searching(sm, d, px, Len(px), t, [row |-> result.row, pending |-> 0],
                      rep \o Shifted(result.found, Len(t) - Len(px) + off))
<1> DEFINE B == Len(t) - Len(px)
           rest == Rest(px, off)
           result == Search(d, st, rest)
           s == result.row
           r == rep \o Shifted(result.found, B + off)
           new == [row |-> s, pending |-> 0]
<1>1. B \in Nat /\ Len(px) \in Nat /\ off \in 0 .. Len(px) /\ Fragment(t, px, B) /\ Len(px) \in 0 .. Len(px)
  <2>1. B \in Nat /\ Len(px) \in Nat /\ off \in 0 .. Len(px)
    BY SearchingFacts
  <2>2. Fragment(t, px, B)
    BY DEF Searching
  <2> HIDE DEF B
  <2>3. QED
    BY <2>1, <2>2
<1>2. PICK lab : Ready(sm, d, lab) /\ SoundSearch(sm, d, lab, t, B + off, st.row, st.pending, rep)
  BY DEF Searching
<1> HIDE DEF B
<1>3. Fragment(t, rest, B + off) /\ B + off + Len(rest) = B + Len(px)
  BY <1>1, RestOf
<1> HIDE DEF rest
<1>4. SoundSearch(sm, d, lab, t, B + off, st.row, 0, rep)
  BY <1>2
<1>5. SoundSearch(sm, d, lab, t, B + off + Len(rest), s, 0, r)
  BY <1>2, <1>3, <1>4, SearchSound
<1> HIDE DEF s, r
<1>6. new.row = s /\ new.pending = 0 /\ new = [row |-> new.row, pending |-> new.pending]
  OBVIOUS
<1> HIDE DEF new
<1>7. SoundSearch(sm, d, lab, t, B + Len(px), new.row, new.pending, r)
  BY <1>3, <1>5, <1>6
<1>8. Searching(sm, d, px, Len(px), t, new, r)
  BY <1>1, <1>2, <1>6, <1>7 DEF Searching, B
<1>9. QED
  BY <1>8 DEF new, r, s, result, rest, B

\* smack_search_next(),
LEMMA SearchedNext ==
  ASSUME NEW sm, NEW d, NEW px, NEW off, NEW t, NEW st, NEW rep, Searching(sm, d, px, off, t, st, rep),
         off < Len(px) \/ st.pending # 0 \/ d.match[st.row] = <<>>
  PROVE  LET result == SearchNext(d, st, px, off)
         IN Searching(sm, d, px, result.offset, t, result.state,
                      rep \o Listed(result.ids, Len(t) - Len(px) + result.offset))
<1> DEFINE B == Len(t) - Len(px)
           result == SearchNext(d, st, px, off)
<1>1. Fragment(t, px, B) /\ off \in 0 .. Len(px)
  BY DEF Searching
<1>2. PICK lab : Ready(sm, d, lab) /\ SoundSearch(sm, d, lab, t, B + off, st.row, st.pending, rep)
  BY DEF Searching
<1> HIDE DEF B
<1>3. /\ result.offset \in 0 .. Len(px) /\ result.state = [row |-> result.state.row, pending |-> result.state.pending]
      /\ SoundSearch(sm, d, lab, t, B + result.offset, result.state.row, result.state.pending,
               rep \o Listed(result.ids, B + result.offset))
  BY <1>1, <1>2, SearchNextSound
<1> HIDE DEF result
<1>4. QED
  BY <1>1, <1>2, <1>3 DEF Searching, B, result

\* smack_next_match(),
LEMMA SearchedMatch ==
  ASSUME NEW sm, NEW d, NEW px, NEW off, NEW t, NEW st, NEW rep, Searching(sm, d, px, off, t, st, rep), st.pending > 0
  PROVE  LET result == NextMatch(d, st)
         IN Searching(sm, d, px, off, t, result.state, rep \o Listed(result.ids, Len(t) - Len(px) + off))
<1> DEFINE B == Len(t) - Len(px)
           result == NextMatch(d, st)
           p == st.pending
           new == [row |-> st.row, pending |-> p - 1]
<1>1. Fragment(t, px, B) /\ off \in 0 .. Len(px) /\ st = [row |-> st.row, pending |-> p]
  BY DEF Searching
<1>2. PICK lab : Ready(sm, d, lab) /\ SoundSearch(sm, d, lab, t, B + off, st.row, p, rep)
  BY DEF Searching
<1>3. p # 0
  OBVIOUS
<1>4. result.ids = <<d.match[st.row][p]>> /\ result.state = [st EXCEPT !.pending = p - 1]
  BY <1>3 DEF NextMatch
<1> HIDE DEF B, result
<1>5. result.state = new
  <2> HIDE DEF p
  <2>1. st = [row |-> st.row, pending |-> p]
    BY <1>1
  <2>2. [st EXCEPT !.pending = p - 1] = new
    BY <2>1
  <2>3. QED
    BY <1>4, <2>2
<1>6. SoundSearch(sm, d, lab, t, B + off, st.row, p - 1, rep \o Listed(<<d.match[st.row][p]>>, B + off))
  BY <1>2, <1>3, SoundPop
<1>7. result.state.row = st.row /\ result.state.pending = p - 1 /\ result.state = [row |-> result.state.row, pending |-> result.state.pending]
  BY <1>5
<1>8. SoundSearch(sm, d, lab, t, B + off, result.state.row, result.state.pending, rep \o Listed(result.ids, B + off))
  BY <1>4, <1>6, <1>7
<1>9. QED
  BY <1>1, <1>2, <1>7, <1>8 DEF Searching, B, result

\* and the calls at the end of the text.
LEMMA EndReached ==
  ASSUME NEW sm, NEW d, NEW px, NEW t, NEW st, NEW rep, Searching(sm, d, px, Len(px), t, st, rep), st.pending = 0
  PROVE  \A ph : Answered(sm, d, t, ph, Answers(d, st.row, ph))
<1>1. Len(px) \in Nat /\ Len(t) \in Nat
  BY SearchingFacts
<1>2. Len(t) - Len(px) + Len(px) = Len(t)
  BY <1>1
<1>3. PICK lab : Ready(sm, d, lab) /\ SoundSearch(sm, d, lab, t, Len(t), st.row, 0, rep)
  BY <1>2 DEF Searching
<1>4. QED
  BY <1>3 DEF Answered

SearchInv ==
  /\ phase = "adding" => text = <<>> /\ fragment = <<>> /\ offset = 0 /\ reported = <<>> /\ state = Start
  /\ phase = "searching" => Searching(smack, dfa, fragment, offset, text, state, reported)
  /\ phase \in {"done", "ended"} => Answered(smack, dfa, text, phase, answer)

\* Then the reports are exact,
LEMMA SearchingExact ==
  ASSUME Registered(smack), Plainly(smack), Searching(smack, dfa, fragment, offset, text, state, reported)
  PROVE  ExactSoFar
<1> DEFINE at == Base + offset
           row == state.row
           pend == state.pending
           ids == dfa.match[row]
           new == [k \in 1 .. pend |-> <<ids[k], at>>]
           all == UNION {Matches(smack, FALSE, SubSeq(text, 1, e)) \X {e} : e \in 1 .. at}
<1>1. PICK lab : Ready(smack, dfa, lab) /\ SoundSearch(smack, dfa, lab, text, at, row, pend, reported)
  BY DEF Searching, Base
<1>2. text \in Seq(ByteSet) /\ at \in 0 .. Len(text)
  BY <1>1 DEF SoundSearch
<1>3. Log(reported \o Listed(Firsts(ids, pend), at), Told(smack, text, at))
  BY <1>1, SoundSeen
<1>4. Told(smack, text, at) = all
  BY <1>2, ToldIs
<1>5. Listed(Firsts(ids, pend), at) = new
  BY DEF Listed, Firsts
<1>6. Seen = reported \o new
  BY DEF Seen
<1> HIDE DEF at, row, pend, ids, new, all
<1>7. Log(Seen, all)
  BY <1>3, <1>4, <1>5, <1>6
<1>8. NoTwice(Seen) /\ (\A i, j \in DOMAIN Seen : i < j => Seen[i][2] <= Seen[j][2]) /\ Elements(Seen) = all
  BY <1>7 DEF Log, Rising
<1>9. QED
  BY <1>8 DEF ExactSoFar, all, at

\* The row that the anchor of the end leads to has the patterns that match the whole text.
LEMMA AnswersAre ==
  ASSUME NEW sm, Plainly(sm), NEW d, NEW lab, Ready(sm, d, lab), NEW t, NEW row, NEW rep,
         SoundSearch(sm, d, lab, t, Len(t), row, 0, rep)
  PROVE  LET ids == d.match[Step(d, row, AnchorEnd)]
         IN ids \in Seq(Nat) /\ NoTwice(ids) /\ Elements(ids) = Matches(sm, TRUE, t)
<1> DEFINE e == AnchorEnd
           s == Step(d, row, e)
           v == ReadSoFar(sm, t, Len(t))
           w == Append(v, e)
           ids == d.match[s]
<1>1. Registered(sm)
  BY DEF Ready
<1>2. /\ t \in Seq(ByteSet) /\ v \in Text /\ IsBest(lab, d.count, v, row) /\ row \in 0 .. d.count - 1
  BY SoundRow
<1>3. e \in Alphabet /\ Fold(sm, e) = e
  BY Characters DEF Fold, ToLower
<1>4. Labels(lab, d.count) /\ IsBest(lab, d.count, Append(lab[row], Fold(sm, e)), s)
  BY <1>2, <1>3 DEF Ready, Follows
<1>5. IsBest(lab, d.count, Append(lab[row], e), s)
  BY <1>3, <1>4
<1>6. w \in Text
  BY <1>2, LastOfRead
<1>7. Hits(sm, w) = Matches(sm, TRUE, t)
  BY <1>1, <1>2, MatchesAre
<1> HIDE DEF e, s, v
<1>8. IsBest(lab, d.count, w, s)
  BY <1>2, <1>3, <1>4, <1>5, BestStep
<1> HIDE DEF w
<1>9. ids \in Seq(Nat) /\ NoTwice(ids) /\ Elements(ids) = Matches(sm, TRUE, t)
  BY <1>6, <1>7, <1>8, RowIs
<1>10. QED
  BY <1>9 DEF ids, s, e

\* also those at the end.
LEMMA AnsweredExact ==
  ASSUME Registered(smack), Plainly(smack), phase \in {"done", "ended"}, Answered(smack, dfa, text, phase, answer)
  PROVE  ExactAtEnd
<1>1. PICK lab, row, rep : /\ Ready(smack, dfa, lab) /\ SoundSearch(smack, dfa, lab, text, Len(text), row, 0, rep)
                           /\ answer = Answers(dfa, row, phase)
  BY DEF Answered
<1> DEFINE ids == dfa.match[Step(dfa, row, AnchorEnd)]
<1>9. ids \in Seq(Nat) /\ NoTwice(ids) /\ Elements(ids) = Matches(smack, TRUE, text)
  BY <1>1, AnswersAre
<1>10. answer = IF phase = "ended" THEN ids ELSE IF ids = <<>> THEN <<>> ELSE <<ids[1]>>
  BY <1>1 DEF Answers
<1> DEFINE M == Matches(smack, TRUE, text)
<1> HIDE DEF ids, M
<1>11. CASE phase = "ended"
  <2>1. answer = ids /\ Elements(ids) = M
    BY <1>9, <1>10, <1>11 DEF M
  <2>2. NoTwice(answer) /\ Elements(answer) \subseteq M /\ M \subseteq Elements(answer)
    BY <1>9, <2>1
  <2>3. QED
    BY <1>11, <2>2 DEF ExactAtEnd, M
<1>12. CASE phase # "ended" /\ ids = <<>>
  <2>1. answer = <<>> /\ Elements(ids) = M
    BY <1>9, <1>10, <1>12 DEF M
  <2>2. M = {} /\ NoTwice(answer) /\ Elements(answer) = {}
    BY <1>12, <2>1 DEF NoTwice, Elements
  <2>3. QED
    BY <1>12, <2>1, <2>2 DEF ExactAtEnd, M
<1>13. CASE phase # "ended" /\ ids # <<>>
  <2>1. answer = <<ids[1]>> /\ Elements(ids) = M
    BY <1>9, <1>10, <1>13 DEF M
  <2>2. 1 \in DOMAIN ids /\ ids[1] \in Nat
    BY <1>9, <1>13
  <2>3. ids[1] \in M
    BY <2>1, <2>2 DEF Elements
  <2>4. NoTwice(answer) /\ Elements(answer) = {ids[1]} /\ answer # <<>>
    BY <2>1, <2>2, OneIs DEF NoTwice
  <2>5. M # {} /\ Elements(answer) \subseteq M
    BY <2>3, <2>4
  <2>6. QED
    BY <1>13, <2>4, <2>5 DEF ExactAtEnd, M
<1>14. QED
  BY <1>11, <1>12, <1>13

\* All this implies the property,
LEMMA SearchInvExact ==
  ASSUME CompiledInv, Plainly(smack), SearchInv
  PROVE  ExactSoFar /\ ExactAtEnd
<1>1. Registered(smack)
  BY CollectedRegistered DEF CompiledInv
<1>2. ExactSoFar
  <2>1. CASE phase = "searching"
    BY <1>1, <2>1, SearchingExact DEF SearchInv
  <2>2. CASE phase # "searching"
    BY <2>2 DEF ExactSoFar
  <2>3. QED
    BY <2>1, <2>2
<1>3. ExactAtEnd
  <2>1. CASE phase \in {"done", "ended"}
    BY <1>1, <2>1, AnsweredExact DEF SearchInv
  <2>2. CASE phase \notin {"done", "ended"}
    BY <2>2 DEF ExactAtEnd
  <2>3. QED
    BY <2>1, <2>2
<1>4. QED
  BY <1>2, <1>3

\* The condition that the calls and the table are as they must be.
Regular == ~strayed /\ (phase # "adding" => NothingCut(smack, dfa))

PlainInv == CompiledInv /\ (Plainly(smack) /\ Regular => SearchInv)

\* holds at first
LEMMA PlainInvInit ==
  ASSUME SmackInit
  PROVE  PlainInv
<1>1. CompiledInv
  BY CompiledInvInit
<1>2. SearchInv
  BY DEF SmackInit, SearchInv
<1>3. QED
  BY <1>1, <1>2 DEF PlainInv

\* Patterns are only added.
LEMMA StillPlain ==
  ASSUME CompiledInv, Register, Plainly(smack')
  PROVE  Plainly(smack)
<1>1. PICK p \in Pool : smack' = AddPattern(smack, Numbered(smack, p))
  BY DEF Register, Numbered
<1>2. Collected(smack)
  BY DEF CompiledInv
<1>3. Len(smack.patterns) \in Nat /\ smack.patterns \in Seq(PatternSet)
  BY <1>2, LenProperties DEF Collected
<1> DEFINE pat == Numbered(smack, p)
           kept == Kept(smack, pat)
           g == AddPattern(smack, pat)
           P == smack.patterns
<1>4. pat \in PatternSet /\ pat.text # <<>> /\ (pat.hack => \A i \in DOMAIN pat.text : pat.text[i] # Hack)
  BY <1>3, PoolPattern
<1>5. kept \in PatternSet
  BY <1>4, KeptIs
<1> HIDE DEF pat, kept
<1>6. g.patterns = Append(P, kept)
  BY <1>2, <1>4, AddPatternIs DEF kept
<1>7. smack'.patterns = Append(P, kept)
  BY <1>1, <1>6 DEF pat
<1>8. \A i \in 1 .. Len(P) : Append(P, kept)[i] = P[i]
  BY <1>3, <1>5, AppendedList
<1>9. DOMAIN P = 1 .. Len(P) /\ DOMAIN Append(P, kept) = 1 .. Len(P) + 1
  BY <1>3, <1>5, AppendedList
<1>10. ASSUME NEW i \in DOMAIN P PROVE ~P[i].wild /\ ~P[i].hack
  <2>1. i \in 1 .. Len(P) /\ i \in DOMAIN Append(P, kept)
    BY <1>3, <1>9
  <2>2. ~Append(P, kept)[i].wild /\ ~Append(P, kept)[i].hack
    BY <1>7, <2>1 DEF Plainly
  <2>3. QED
    BY <1>8, <2>1, <2>2
<1>11. QED
  BY <1>10 DEF Plainly

\* It begins again with every text,
LEMMA SearchInvNew ==
  ASSUME CompiledInv, Plainly(smack), Regular', NewText
  PROVE  SearchInv'
<1>1. /\ phase # "adding" /\ phase' = "searching" /\ state' = Start /\ UNCHANGED <<smack, dfa>>
      /\ text' = <<>> /\ fragment' = <<>> /\ offset' = 0 /\ reported' = <<>>
  BY DEF NewText
<1>2. dfa = Compiled(smack) /\ Collected(smack)
  BY <1>1 DEF CompiledInv
<1>3. NothingCut(smack, dfa)
  BY <1>1 DEF Regular
<1>4. \E lab : Ready(smack, dfa, lab)
  BY <1>2, <1>3, CompiledReady
<1>5. Searching(smack, dfa, <<>>, 0, <<>>, Start, <<>>)
  BY <1>4, SearchingStart
<1>6. Searching(smack', dfa', fragment', offset', text', state', reported')
  BY <1>1, <1>5
<1>7. QED
  BY <1>1, <1>6 DEF SearchInv

\* and is kept by every call that does not stray
LEMMA SearchInvNext ==
  ASSUME CompiledInv, Plainly(smack), SearchInv, Regular', SmackNext
  PROVE  SearchInv'
<1>1. CASE Register
  BY <1>1 DEF Register, caller, SearchInv
<1>2. CASE Compile
  <2>1. phase = "adding" /\ dfa' = Compiled(smack) /\ phase' = "searching" /\ UNCHANGED <<smack, state, text, fragment, offset, reported>>
    BY <1>2 DEF Compile, caller
  <2>7. Collected(smack) /\ NothingCut(smack, Compiled(smack))
    BY <2>1 DEF CompiledInv, Regular
  <2>2. \E lab : Ready(smack, Compiled(smack), lab)
    BY <2>7, CompiledReady
  <2>3. Searching(smack, Compiled(smack), <<>>, 0, <<>>, Start, <<>>)
    BY <2>2, SearchingStart
  <2>4. text = <<>> /\ fragment = <<>> /\ offset = 0 /\ reported = <<>> /\ state = Start
    BY <2>1 DEF SearchInv
  <2>5. Searching(smack', dfa', fragment', offset', text', state', reported')
    BY <2>1, <2>3, <2>4
  <2>6. QED
    BY <2>1, <2>5 DEF SearchInv
<1>3. CASE Deliver
  <2>1. /\ phase = "searching" /\ offset >= Len(fragment) /\ offset' = 0 /\ UNCHANGED <<phase, smack, dfa, state, reported>>
    BY <1>3 DEF Deliver
  <2>2. PICK n \in 1 .. MaxFragment : \E px \in [1 .. n -> Input] : text' = text \o px /\ fragment' = px
    BY <1>3 DEF Deliver
  <2>3. PICK px \in [1 .. n -> Input] : text' = text \o px /\ fragment' = px
    BY <2>2
  <2>4. px \in Seq(ByteSet)
    <3>1. n \in Nat
      BY InputAssumption
    <3>2. px \in [1 .. n -> ByteSet]
      BY InputAssumption DEF ByteSet
    <3>3. QED
      BY <3>1, <3>2, SeqDef
  <2>5. Searching(smack, dfa, fragment, Len(fragment), text, state, reported)
    <3>1. Searching(smack, dfa, fragment, offset, text, state, reported)
      BY <2>1 DEF SearchInv
    <3>2. offset = Len(fragment)
      BY <2>1, <3>1, SearchingFacts
    <3>3. QED
      BY <3>1, <3>2
  <2>6. Searching(smack, dfa, px, 0, text \o px, state, reported)
    BY <2>4, <2>5, Delivered
  <2>7. Searching(smack', dfa', fragment', offset', text', state', reported')
    BY <2>1, <2>3, <2>6
  <2>8. QED
    BY <2>1, <2>7 DEF SearchInv
<1>4. CASE CallSearch
  <2> DEFINE result == Search(dfa, state, Rest(fragment, offset))
  <2>1. /\ phase = "searching" /\ state.pending = 0 /\ offset' = Len(fragment)
        /\ UNCHANGED <<phase, smack, dfa, text, fragment>>
    BY <1>4 DEF CallSearch, Regular
  <2>2. /\ state' = [row |-> result.row, pending |-> 0]
        /\ reported' = reported \o Shifted(result.found, Len(text) - Len(fragment) + offset)
    BY <1>4 DEF CallSearch, Shifted, Base, Rest
  <2>3. Searching(smack, dfa, fragment, offset, text, state, reported)
    BY <2>1 DEF SearchInv
  <2>4. Searching(smack, dfa, fragment, Len(fragment), text, [row |-> result.row, pending |-> 0],
                  reported \o Shifted(result.found, Len(text) - Len(fragment) + offset))
    BY <2>1, <2>3, Searched
  <2> HIDE DEF result
  <2>5. Searching(smack', dfa', fragment', offset', text', state', reported')
    BY <2>1, <2>2, <2>4
  <2>6. QED
    BY <2>1, <2>5 DEF SearchInv
<1>5. CASE CallSearchNext
  <2> DEFINE result == SearchNext(dfa, state, fragment, offset)
  <2>1. /\ phase = "searching" /\ offset <= Len(fragment) /\ UNCHANGED <<phase, smack, dfa, text, fragment>>
        /\ ~(offset = Len(fragment) /\ state.pending = 0 /\ dfa.match[state.row] # <<>>)
    BY <1>5 DEF CallSearchNext, Regular
  <2>2. /\ state' = result.state /\ offset' = result.offset
        /\ reported' = reported \o Listed(result.ids, Len(text) - Len(fragment) + result.offset)
    BY <1>5 DEF CallSearchNext, Listed, Base
  <2>3. Searching(smack, dfa, fragment, offset, text, state, reported)
    BY <2>1 DEF SearchInv
  <2>4. Searching(smack, dfa, fragment, result.offset, text, result.state,
                  reported \o Listed(result.ids, Len(text) - Len(fragment) + result.offset))
    <3>1. offset < Len(fragment) \/ state.pending # 0 \/ dfa.match[state.row] = <<>>
      BY <2>1, <2>3, SearchingFacts
    <3>2. QED
      BY <2>3, <3>1, SearchedNext
  <2> HIDE DEF result
  <2>5. Searching(smack', dfa', fragment', offset', text', state', reported')
    BY <2>1, <2>2, <2>4
  <2>6. QED
    BY <2>1, <2>5 DEF SearchInv
<1>6. CASE CallNextMatch
  <2> DEFINE result == NextMatch(dfa, state)
  <2>1. phase = "searching" /\ state.pending > 0 /\ UNCHANGED <<phase, smack, dfa, text, fragment, offset>>
    BY <1>6 DEF CallNextMatch
  <2>2. /\ state' = result.state
        /\ reported' = reported \o Listed(result.ids, Len(text) - Len(fragment) + offset)
    BY <1>6 DEF CallNextMatch, Listed, Base
  <2>3. Searching(smack, dfa, fragment, offset, text, state, reported)
    BY <2>1 DEF SearchInv
  <2>4. Searching(smack, dfa, fragment, offset, text, result.state,
                  reported \o Listed(result.ids, Len(text) - Len(fragment) + offset))
    BY <2>1, <2>3, SearchedMatch
  <2> HIDE DEF result
  <2>5. Searching(smack', dfa', fragment', offset', text', state', reported')
    BY <2>1, <2>2, <2>4
  <2>6. QED
    BY <2>1, <2>5 DEF SearchInv
<1>7. ASSUME AtEnd PROVE \A ph : Answered(smack, dfa, text, ph, Answers(dfa, state.row, ph))
  <2>1. state.pending = 0 /\ Searching(smack, dfa, fragment, Len(fragment), text, state, reported)
    <3>1. offset >= Len(fragment) /\ Searching(smack, dfa, fragment, offset, text, state, reported) /\ state.pending = 0
      BY <1>7 DEF AtEnd, SearchInv
    <3>2. offset = Len(fragment)
      BY <3>1, SearchingFacts
    <3>3. QED
      BY <3>1, <3>2
  <2>2. QED
    BY <2>1, EndReached
<1>8. CASE CallSearchDone
  <2>1. phase' = "done" /\ answer' = SearchDone(dfa, state) /\ UNCHANGED <<smack, dfa, text>>
    BY <1>8 DEF CallSearchDone, caller
  <2>2. SearchDone(dfa, state) = Answers(dfa, state.row, "done")
    BY DEF SearchDone, Answers
  <2>3. Answered(smack, dfa, text, "done", Answers(dfa, state.row, "done"))
    BY <1>7, <1>8 DEF CallSearchDone
  <2>4. Answered(smack', dfa', text', phase', answer')
    BY <2>1, <2>2, <2>3
  <2>5. QED
    BY <2>1, <2>4 DEF SearchInv
<1>9. CASE CallSearchEnd
  <2>1. phase' = "ended" /\ answer' = SearchEnd(dfa, state).ids /\ UNCHANGED <<smack, dfa, text>>
    BY <1>9 DEF CallSearchEnd, caller
  <2>2. SearchEnd(dfa, state).ids = Answers(dfa, state.row, "ended")
    BY DEF SearchEnd, Answers
  <2>3. Answered(smack, dfa, text, "ended", Answers(dfa, state.row, "ended"))
    BY <1>7, <1>9 DEF CallSearchEnd
  <2>4. Answered(smack', dfa', text', phase', answer')
    BY <2>1, <2>2, <2>3
  <2>5. QED
    BY <2>1, <2>4 DEF SearchInv
<1>10. CASE NewText
  BY <1>10, SearchInvNew
<1>11. QED
  BY <1>1, <1>2, <1>3, <1>4, <1>5, <1>6, <1>8, <1>9, <1>10 DEF SmackNext

\* (also by adding patterns, when wildcards were never among them).
LEMMA PlainInvNext ==
  ASSUME PlainInv, [SmackNext]_smackVars
  PROVE  PlainInv'
<1>1. CompiledInv /\ CompiledInv'
  BY CompiledInvNext DEF PlainInv
<1>2. ASSUME Plainly(smack'), Regular', SmackNext PROVE SearchInv'
  <2>1. Plainly(smack)
    <3>1. CASE Register
      BY <1>1, <1>2, <3>1, StillPlain
    <3>2. CASE ~Register
      <4>1. smack' = smack
        BY <1>2, <3>2 DEF SmackNext, Compile, Deliver, CallSearch, CallSearchNext, CallNextMatch,
                          CallSearchDone, CallSearchEnd, NewText
      <4>2. QED
        BY <1>2, <4>1
    <3>3. QED
      BY <3>1, <3>2
  <2>2. CASE NewText
    BY <1>1, <1>2, <2>1, <2>2, SearchInvNew
  <2>3. CASE ~NewText
    <3>1. Regular
      <4>1. ~strayed
        BY <1>2, <2>3 DEF Regular, SmackNext, Register, Compile, Deliver, CallSearch, CallSearchNext, CallNextMatch,
                          CallSearchDone, CallSearchEnd, caller
      <4>2. phase # "adding" => phase' # "adding" /\ UNCHANGED <<smack, dfa>>
        BY <1>2, <2>3 DEF SmackNext, Register, Compile, Deliver, CallSearch, CallSearchNext, CallNextMatch,
                          CallSearchDone, CallSearchEnd, AtEnd
      <4>3. QED
        BY <1>2, <4>1, <4>2 DEF Regular
    <3>2. QED
      BY <1>1, <1>2, <2>1, <3>1, SearchInvNext DEF PlainInv
  <2>4. QED
    BY <2>2, <2>3
<1>3. ASSUME UNCHANGED smackVars PROVE PlainInv'
  BY <1>1, <1>3 DEF PlainInv, SearchInv, Regular, smackVars
<1>4. QED
  BY <1>1, <1>2, <1>3 DEF PlainInv

\* While no pattern with '*' or a skipped byte is registered, and the patterns are
\* few enough for the widths of symbol, cell and count: every occurrence of a
\* pattern is reported once, where it ends, and nothing else is, however the text
\* is cut into fragments and whatever mixture of calls reads it, until a call
\* strays; and the calls at its end report what is anchored there: the table of
\* stages 0 to 4 is the Aho-Corasick automaton of the patterns.
THEOREM SpecReportsExact == SmackSpec => [](Plainly(smack) => ReportsExact)
<1>1. SmackInit => PlainInv
  BY PlainInvInit
<1>2. PlainInv /\ [SmackNext]_smackVars => PlainInv'
  BY PlainInvNext
<1>3. PlainInv => (Plainly(smack) => ReportsExact)
  BY SearchInvExact DEF PlainInv, Regular, ReportsExact
<1>4. QED
  BY <1>1, <1>2, <1>3, PTL DEF SmackSpec
=============================================================================
