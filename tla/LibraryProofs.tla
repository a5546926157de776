---------------------------- MODULE LibraryProofs ----------------------------
(***************************************************************************)
(* Theorems about the libraries that keep state between calls, each for    *)
(* every value of its own constants: the pool of worker processes and the  *)
(* command line of dns-resolvfile, HostField, Sha512, SecMem, Calendar,    *)
(* Rand and ChaCha20.  (The search has a module of its own, SmackProofs.)  *)
(***************************************************************************)
EXTENDS ResolvFile, Arguments, HostField, HttpParse, Sha512, ChaCha20, Rand, SecMem, Calendar, SmackProofs

(***************************************************************************)
(* Sha512.  Streamed, for every size of a block and of the calls:          *)
(* util_sha512_update() loses nothing of the message, and compresses whole *)
(* blocks only.                                                            *)
(***************************************************************************)
Sizes512 == BlockSize \in Nat /\ BlockSize > 0 /\ KeySize \in Nat

LEMMA SizesKnown == Sizes512
BY Sha512Assumption DEF Sizes512

(* Whole blocks *)

LEMMA WholeBlocks ==
  ASSUME NEW B \in Nat, B > 0, NEW m \in Nat
  PROVE  /\ (m \div B) * B \in 0 .. m
         /\ m - (m \div B) * B < B
         /\ m \div B \in Nat
<1>1. m \div B \in Nat /\ m % B \in 0 .. B - 1 /\ m = B * (m \div B) + (m % B)
  OBVIOUS
<1> DEFINE q == m \div B
           r == m % B
<1> HIDE DEF q, r
<1>2. q \in Nat /\ r \in 0 .. B - 1 /\ m = B * q + r
  BY <1>1 DEF q, r
<1>3. q * B = B * q /\ q * B \in Nat
  BY <1>2
<1>4. q * B \in 0 .. m /\ m - q * B < B
  BY <1>2, <1>3
<1>5. QED
  BY <1>2, <1>4 DEF q

LEMMA MultipleHasNoRest ==
  ASSUME NEW B \in Nat, B > 0, NEW k \in Nat
  PROVE  (k * B) % B = 0
<1> DEFINE d == (k * B) \div B
           r == (k * B) % B
<1>0. k * B \in Nat
  OBVIOUS
<1>1. d \in Nat /\ r \in 0 .. B - 1 /\ k * B = B * d + r
  BY <1>0
<1> HIDE DEF d, r
<1>2. CASE d >= k + 1
  <2>1. B * d >= B * (k + 1)
    BY <1>1, <1>2
  <2>2. B * (k + 1) = k * B + B
    OBVIOUS
  <2>3. QED
    BY <1>0, <1>1, <2>1, <2>2
<1>3. CASE d <= k - 1
  <2>1. B * d <= B * (k - 1)
    BY <1>1, <1>3
  <2>2. B * (k - 1) = k * B - B
    OBVIOUS
  <2>3. QED
    BY <1>0, <1>1, <2>1, <2>2
<1>4. CASE d = k
  <2>1. B * d = k * B
    BY <1>4
  <2>2. r = 0
    BY <1>0, <1>1, <2>1
  <2>3. QED
    BY <2>2 DEF r
<1>5. QED
  BY <1>1, <1>2, <1>3, <1>4

\* The rest of a sum whose first part is a multiple.
LEMMA RestOfSum ==
  ASSUME NEW B \in Nat, B > 0, NEW k \in Nat, NEW x \in 0 .. B - 1
  PROVE  (k * B + x) % B = x
<1> DEFINE d == (k * B + x) \div B
           r == (k * B + x) % B
<1>0. k * B \in Nat /\ k * B + x \in Nat
  OBVIOUS
<1>1. d \in Nat /\ r \in 0 .. B - 1 /\ k * B + x = B * d + r
  BY <1>0
<1> HIDE DEF d, r
<1>2. CASE d >= k + 1
  <2>1. B * d >= B * (k + 1)
    BY <1>1, <1>2
  <2>2. B * (k + 1) = k * B + B
    OBVIOUS
  <2>3. QED
    BY <1>0, <1>1, <2>1, <2>2
<1>3. CASE d <= k - 1
  <2>1. B * d <= B * (k - 1)
    BY <1>1, <1>3
  <2>2. B * (k - 1) = k * B - B
    OBVIOUS
  <2>3. QED
    BY <1>0, <1>1, <2>1, <2>2
<1>4. CASE d = k
  <2>1. B * d = k * B
    BY <1>4
  <2>2. r = x
    BY <1>0, <1>1, <2>1
  <2>3. QED
    BY <2>2 DEF r
<1>5. QED
  BY <1>1, <1>2, <1>3, <1>4

(* A piece of the message *)

\* What an update needs of a context over bytes of E, and leaves.
Sound(E, h, b, len) ==
  /\ h \in Seq(E) /\ b \in Seq(E) /\ Len(b) < BlockSize
  /\ len = Len(h) /\ \E k \in Nat : len = k * BlockSize

\* The piece falls into what completes the left-over, whole blocks and a rest.
LEMMA PieceCut ==
  ASSUME Sizes512, NEW E, NEW px \in Seq(E), NEW n \in 0 .. Len(px), NEW whole \in n .. Len(px)
  PROVE  /\ SubSeq(px, 1, n) \in Seq(E) /\ Len(SubSeq(px, 1, n)) = n
         /\ SubSeq(px, n + 1, whole) \in Seq(E) /\ Len(SubSeq(px, n + 1, whole)) = whole - n
         /\ SubSeq(px, whole + 1, Len(px)) \in Seq(E) /\ Len(SubSeq(px, whole + 1, Len(px))) = Len(px) - whole
         /\ SubSeq(px, 1, n) \o SubSeq(px, n + 1, whole) = SubSeq(px, 1, whole)
         /\ SubSeq(px, 1, whole) \o SubSeq(px, whole + 1, Len(px)) = px
<1>0. Len(px) \in Nat /\ \A i \in 1 .. Len(px) : px[i] \in E
  BY LenProperties, ElementOfSeq
<1>1. SubSeq(px, 1, n) \in Seq(E) /\ Len(SubSeq(px, 1, n)) = n
  BY <1>0, SubSeqProperties
<1>2. SubSeq(px, n + 1, whole) \in Seq(E) /\ Len(SubSeq(px, n + 1, whole)) = whole - n
  BY <1>0, SubSeqProperties
<1>3. SubSeq(px, whole + 1, Len(px)) \in Seq(E) /\ Len(SubSeq(px, whole + 1, Len(px))) = Len(px) - whole
  BY <1>0, SubSeqProperties
<1>4. SubSeq(px, 1, n) \o SubSeq(px, n + 1, whole) = SubSeq(px, 1, whole)
  BY <1>0, ConcatAdjacentSubSeq
<1>5. SubSeq(px, 1, whole) \o SubSeq(px, whole + 1, Len(px)) = px
  <2>1. SubSeq(px, 1, whole) \o SubSeq(px, whole + 1, Len(px)) = SubSeq(px, 1, Len(px))
    <3>1. 1 \in 1 .. Len(px) + 1 /\ whole \in 1 - 1 .. Len(px) /\ Len(px) \in whole .. Len(px)
      BY <1>0
    <3>2. QED
      BY <3>1, ConcatAdjacentSubSeq, Zenon
  <2>2. QED
    BY <2>1, SubSeqFull
<1>6. QED
  BY <1>1, <1>2, <1>3, <1>4, <1>5

\* By way of an operator that the provers do not look into.
Chained(s, t) == s \o t

LEMMA ChainedAssociative ==
  ASSUME NEW E, NEW s \in Seq(E), NEW t \in Seq(E), NEW u \in Seq(E)
  PROVE  Chained(s, t) \in Seq(E) /\ Chained(Chained(s, t), u) = Chained(s, Chained(t, u))
BY ConcatAssociative, ConcatProperties DEF Chained

\* u continues h and b by the piece px.
Continues(E, u, h, b, px) ==
  Sound(E, u.hashed, u.buf, u.length) /\ u.hashed \o u.buf = (h \o b) \o px

\* util_sha512_update(), for any piece.
LEMMA UpdateSound ==
  ASSUME NEW E, NEW h, NEW b, NEW len, Sound(E, h, b, len), NEW px \in Seq(E)
  PROVE  Continues(E, Update([hashed |-> h, buf |-> b, length |-> len], px), h, b, px)
<1> DEFINE N     == Len(px)
           n     == IF b # <<>> THEN Smaller(N, BlockSize - Len(b)) ELSE 0
           q     == (N - n) \div BlockSize
           whole == n + q * BlockSize
           P1    == SubSeq(px, 1, n)
           P2    == SubSeq(px, n + 1, whole)
           P3    == SubSeq(px, whole + 1, N)
           left  == b \o P1
           full  == Len(left) = BlockSize
           u     == Update([hashed |-> h, buf |-> b, length |-> len], px)
<1>0. Sizes512 /\ BlockSize \in Nat /\ BlockSize > 0
  BY SizesKnown DEF Sizes512
<1>1. /\ h \in Seq(E) /\ b \in Seq(E) /\ Len(h) \in Nat /\ Len(b) \in Nat /\ Len(b) < BlockSize
      /\ len = Len(h) /\ \E k \in Nat : len = k * BlockSize
  BY LenProperties DEF Sound
<1>2. N \in Nat /\ n \in 0 .. N /\ (b # <<>> => n <= BlockSize - Len(b)) /\ (b = <<>> => n = 0)
  BY <1>0, <1>1, LenProperties DEF Smaller
<1>3. q \in Nat /\ q * BlockSize \in 0 .. N - n /\ (N - n) - q * BlockSize < BlockSize
  <2>1. N - n \in Nat
    BY <1>2
  <2> HIDE DEF n, N
  <2>2. QED
    BY <1>0, <2>1, WholeBlocks
<1>4. u = [hashed |-> h \o ((IF full THEN left ELSE <<>>) \o P2),
           buf    |-> (IF full THEN <<>> ELSE left) \o P3,
           length |-> len + (IF full THEN BlockSize ELSE 0) + whole - n]
  BY DEF Update, Compress
<1> HIDE DEF n, q, N, u, full
<1>5. whole \in n .. N /\ N - whole < BlockSize /\ whole - n = q * BlockSize
  BY <1>2, <1>3
<1> HIDE DEF whole
<1>6. /\ P1 \in Seq(E) /\ Len(P1) = n /\ P2 \in Seq(E) /\ Len(P2) = whole - n
      /\ P3 \in Seq(E) /\ Len(P3) = N - whole /\ P1 \o P2 = SubSeq(px, 1, whole)
      /\ SubSeq(px, 1, whole) \o P3 = px
  <2>1. n \in 0 .. Len(px) /\ whole \in n .. Len(px)
    BY <1>2, <1>5 DEF N
  <2>2. /\ SubSeq(px, 1, n) \in Seq(E) /\ Len(SubSeq(px, 1, n)) = n
        /\ SubSeq(px, n + 1, whole) \in Seq(E) /\ Len(SubSeq(px, n + 1, whole)) = whole - n
        /\ SubSeq(px, whole + 1, Len(px)) \in Seq(E) /\ Len(SubSeq(px, whole + 1, Len(px))) = Len(px) - whole
        /\ SubSeq(px, 1, n) \o SubSeq(px, n + 1, whole) = SubSeq(px, 1, whole)
        /\ SubSeq(px, 1, whole) \o SubSeq(px, whole + 1, Len(px)) = px
    BY <1>0, <2>1, PieceCut
  <2>3. QED
    BY <2>2 DEF N
<1> HIDE DEF P1, P2, P3
<1>7. (P1 \o P2) \o P3 = px
  BY <1>6
<1>8. left \in Seq(E) /\ Len(left) = Len(b) + n
  BY <1>1, <1>6, ConcatProperties
<1> HIDE DEF left
<1>9. \E k \in Nat : whole - n = k * BlockSize
  BY <1>3, <1>5
<1>10. CASE full
  <2>1. u.hashed = h \o (left \o P2) /\ u.buf = <<>> \o P3 /\ u.length = len + BlockSize + whole - n
    BY <1>4, <1>10
  <2>2. u.buf = P3
    BY <1>6, <2>1, ConcatEmptySeq
  <2>3. left \o P2 \in Seq(E) /\ Len(left \o P2) = BlockSize + (whole - n)
    <3>1. left \in Seq(E) /\ P2 \in Seq(E) /\ Len(left) = BlockSize /\ Len(P2) = whole - n
      BY <1>6, <1>8, <1>10 DEF full
    <3>2. left \o P2 \in Seq(E) /\ Len(left \o P2) = Len(left) + Len(P2)
      BY <3>1, ConcatProperties, Zenon
    <3>3. QED
      BY <3>1, <3>2
  <2>4. u.hashed \in Seq(E) /\ Len(u.hashed) = Len(h) + (BlockSize + (whole - n))
    BY <1>1, <2>1, <2>3, ConcatProperties
  <2>5. \E k \in Nat : u.length = k * BlockSize
    <3>1. PICK j \in Nat : len = j * BlockSize
      BY <1>1
    <3>2. PICK k \in Nat : whole - n = k * BlockSize
      BY <1>9
    <3>3. (j + 1 + k) * BlockSize = j * BlockSize + BlockSize + k * BlockSize /\ j + 1 + k \in Nat
      BY <1>0
    <3>4. u.length = (j + 1 + k) * BlockSize
      BY <1>0, <1>2, <1>5, <2>1, <3>1, <3>2, <3>3
    <3>5. QED
      BY <3>3, <3>4
  <2>6. u.hashed \o u.buf = (h \o b) \o px
    <3> DEFINE p  == P1 \o P2
               hb == h \o b
    <3>1. p \in Seq(E) /\ hb \in Seq(E)
      BY <1>1, <1>6, ConcatProperties
    <3>2. left \o P2 = b \o p
      <4>1. b \in Seq(E) /\ P1 \in Seq(E) /\ P2 \in Seq(E)
        BY <1>1, <1>6
      <4>2. (b \o P1) \o P2 = b \o (P1 \o P2)
        <5>1. Chained(Chained(b, P1), P2) = Chained(b, Chained(P1, P2))
          BY <4>1, ChainedAssociative
        <5>2. Chained(Chained(b, P1), P2) = (b \o P1) \o P2
          BY SMT DEF Chained
        <5>3. Chained(b, Chained(P1, P2)) = b \o (P1 \o P2)
          BY SMT DEF Chained
        <5>4. QED
          BY <5>1, <5>2, <5>3
      <4>3. QED
        BY <4>2 DEF left
    <3> HIDE DEF p
    <3>3. h \o (b \o p) = (h \o b) \o p
      <4>1. Chained(h, Chained(b, p)) = Chained(Chained(h, b), p)
        BY <1>1, <3>1, ChainedAssociative
      <4>2. Chained(h, Chained(b, p)) = h \o (b \o p)
        BY SMT DEF Chained
      <4>3. Chained(Chained(h, b), p) = (h \o b) \o p
        BY SMT DEF Chained
      <4>4. QED
        BY <4>1, <4>2, <4>3
    <3> HIDE DEF hb
    <3>4. (hb \o p) \o P3 = hb \o (p \o P3)
      <4>1. Chained(Chained(hb, p), P3) = Chained(hb, Chained(p, P3))
        BY <1>6, <3>1, ChainedAssociative
      <4>2. Chained(Chained(hb, p), P3) = (hb \o p) \o P3
        BY SMT DEF Chained
      <4>3. Chained(hb, Chained(p, P3)) = hb \o (p \o P3)
        BY SMT DEF Chained
      <4>4. QED
        BY <4>1, <4>2, <4>3
    <3>5. QED
      BY <1>7, <2>1, <2>2, <3>2, <3>3, <3>4 DEF p, hb
  <2>7. u.length = Len(u.hashed)
    BY <1>0, <1>1, <1>2, <1>5, <2>1, <2>4
  <2>8. Sound(E, u.hashed, u.buf, u.length)
    BY <1>0, <1>2, <1>5, <1>6, <2>2, <2>4, <2>5, <2>7 DEF Sound
  <2>9. QED
    BY <2>6, <2>8 DEF u, Continues
<1>11. CASE ~full
  <2>1. u.hashed = h \o (<<>> \o P2) /\ u.buf = left \o P3 /\ u.length = len + whole - n
    <3>1. u.hashed = h \o (<<>> \o P2) /\ u.buf = left \o P3 /\ u.length = len + 0 + whole - n
      BY <1>4, <1>11
    <3>2. len + 0 + whole - n = len + whole - n
      BY <1>1, <1>2, <1>5
    <3>3. QED
      BY <3>1, <3>2
  <2>2. u.hashed = h \o P2
    BY <1>6, <2>1, ConcatEmptySeq
  <2>3. b = <<>> \/ n = N
    BY <1>0, <1>1, <1>2, <1>8, <1>11 DEF n, Smaller, full
  <2>4. u.hashed \in Seq(E) /\ Len(u.hashed) = Len(h) + (whole - n)
    <3>1. h \in Seq(E) /\ P2 \in Seq(E) /\ Len(P2) = whole - n
      BY <1>1, <1>6
    <3>2. h \o P2 \in Seq(E) /\ Len(h \o P2) = Len(h) + Len(P2)
      BY <3>1, ConcatProperties, Zenon
    <3>3. QED
      BY <2>2, <3>1, <3>2
  <2>5. u.buf \in Seq(E) /\ Len(u.buf) = Len(b) + n + (N - whole)
    <3>1. left \o P3 \in Seq(E) /\ Len(left \o P3) = Len(left) + (N - whole)
      <4>1. left \in Seq(E) /\ P3 \in Seq(E) /\ Len(P3) = N - whole
        BY <1>6, <1>8
      <4>2. left \o P3 \in Seq(E) /\ Len(left \o P3) = Len(left) + Len(P3)
        BY <4>1, ConcatProperties, SMTT(30)
      <4>3. QED
        BY <4>1, <4>2
    <3>2. QED
      BY <1>8, <2>1, <3>1
  <2>6. Len(u.buf) < BlockSize
    <3>1. CASE b = <<>>
      <4>1. Len(b) = 0 /\ n = 0
        BY <1>2, <3>1, EmptySeq
      <4>2. QED
        BY <1>0, <1>2, <1>5, <2>5, <4>1
    <3>2. CASE b # <<>>
      <4>1. n = N /\ whole = N
        BY <1>2, <1>5, <2>3, <3>2
      <4>2. Len(b) + n < BlockSize
        <5>1. Len(left) # BlockSize
          BY <1>11 DEF full
        <5>2. Len(b) \in Nat /\ Len(b) < BlockSize /\ n \in Nat /\ n <= BlockSize - Len(b)
          BY <1>1, <1>2, <3>2
        <5>3. Len(b) + n # BlockSize
          BY <1>8, <5>1
        <5>4. QED
          BY <1>0, <5>2, <5>3
      <4>3. QED
        BY <1>0, <1>1, <1>2, <2>5, <4>1, <4>2
    <3>3. QED
      BY <3>1, <3>2
  <2>7. \E k \in Nat : u.length = k * BlockSize
    <3>1. PICK j \in Nat : len = j * BlockSize
      BY <1>1
    <3>2. PICK k \in Nat : whole - n = k * BlockSize
      BY <1>9
    <3>3. (j + k) * BlockSize = j * BlockSize + k * BlockSize /\ j + k \in Nat
      BY <1>0
    <3>4. u.length = (j + k) * BlockSize
      BY <1>0, <1>2, <1>5, <2>1, <3>1, <3>2, <3>3
    <3>5. QED
      BY <3>3, <3>4
  <2>8. u.length = Len(u.hashed)
    BY <1>0, <1>1, <1>2, <1>5, <2>1, <2>4
  <2>9. Sound(E, u.hashed, u.buf, u.length)
    BY <2>4, <2>5, <2>6, <2>7, <2>8 DEF Sound
  <2>10. u.hashed \o u.buf = (h \o b) \o px
    <3>1. CASE b = <<>>
      <4>1. P1 = <<>> /\ left = <<>>
        BY <1>2, <1>6, <3>1, EmptySeq, ConcatEmptySeq DEF left
      <4>2. u.buf = P3 /\ P1 \o P2 = P2 /\ h \o b = h
        BY <1>1, <1>6, <2>1, <3>1, <4>1, ConcatEmptySeq
      <4>3. (h \o P2) \o P3 = h \o (P2 \o P3)
        <5>1. Chained(Chained(h, P2), P3) = Chained(h, Chained(P2, P3))
          BY <1>1, <1>6, ChainedAssociative
        <5>2. Chained(Chained(h, P2), P3) = (h \o P2) \o P3
          BY SMT DEF Chained
        <5>3. Chained(h, Chained(P2, P3)) = h \o (P2 \o P3)
          BY SMT DEF Chained
        <5>4. QED
          BY <5>1, <5>2, <5>3
      <4>4. QED
        BY <1>7, <2>2, <4>2, <4>3
    <3>2. CASE b # <<>>
      <4>1. n = N /\ whole = N
        BY <1>2, <1>5, <2>3, <3>2
      <4>2. P2 = <<>> /\ P3 = <<>>
        BY <1>2, <1>6, <4>1, EmptySeq
      <4>3. P1 = px
        BY <1>6, <1>7, <4>2, ConcatEmptySeq
      <4>4. u.hashed = h /\ u.buf = b \o px
        BY <1>1, <1>8, <2>1, <2>2, <4>2, <4>3, ConcatEmptySeq DEF left
      <4>5. h \o (b \o px) = (h \o b) \o px
        <5>1. Chained(h, Chained(b, px)) = Chained(Chained(h, b), px)
          BY <1>1, ChainedAssociative
        <5>2. Chained(h, Chained(b, px)) = h \o (b \o px)
          BY SMT DEF Chained
        <5>3. Chained(Chained(h, b), px) = (h \o b) \o px
          BY SMT DEF Chained
        <5>4. QED
          BY <5>1, <5>2, <5>3
      <4>6. QED
        BY <4>4, <4>5
    <3>3. QED
      BY <3>1, <3>2
  <2>11. QED
    BY <2>9, <2>10 DEF u, Continues
<1>12. QED
  BY <1>10, <1>11

(* A digest is there after util_sha512_final() *)

LEMMA ZeroesTyped ==
  ASSUME NEW E, <<0, 0>> \in E, NEW n \in Nat
  PROVE  Zeroes(n) \in Seq(E) /\ Len(Zeroes(n)) = n
<1>1. \A i \in 1 .. n : <<0, 0>> \in E
  OBVIOUS
<1>2. QED
  BY <1>1, IsASeq DEF Zeroes

\* A block always receives the length.
LEMMA FinalProduces ==
  ASSUME NEW E, \A i, j \in Nat : <<i, j>> \in E, NEW h, NEW b, NEW len, Sound(E, h, b, len)
  PROVE  Final([hashed |-> h, buf |-> b, length |-> len]) # <<>>
<1> DEFINE ended == Append(b, Mark)
           over  == Len(ended) > BlockSize - 2 * LenSize
           first == IF over THEN ended \o Zeroes(BlockSize - Len(ended)) ELSE <<>>
           rest  == IF over THEN <<>> ELSE ended
           fill  == Zeroes(BlockSize - LenSize - Len(rest))
           last  == LengthOf(len + Len(b))
<1>0. /\ BlockSize \in Nat /\ LenSize \in Nat /\ LenSize > 0 /\ 2 * LenSize < BlockSize
      /\ h \in Seq(E) /\ b \in Seq(E) /\ Len(b) \in Nat /\ Len(b) < BlockSize /\ len \in Nat
  BY Sha512Assumption, LenProperties DEF Sound
<1>1. <<0, 0>> \in E /\ Mark \in E /\ <<256, len + Len(b)>> \in E
  BY <1>0 DEF Mark
<1>2. ended \in Seq(E) /\ Len(ended) = Len(b) + 1
  BY <1>0, <1>1, AppendProperties
<1>3. last \in Seq(E) /\ Len(last) = 1
  BY <1>1 DEF LengthOf
<1>4. Final([hashed |-> h, buf |-> b, length |-> len]) = h \o (((first \o rest) \o fill) \o last)
  BY DEF Final, Compress
<1> HIDE DEF ended, last
<1>5. BlockSize - Len(ended) \in Nat /\ Zeroes(BlockSize - Len(ended)) \in Seq(E)
  <2>1. BlockSize - Len(ended) \in Nat
    BY <1>0, <1>2
  <2>2. QED
    BY <1>1, <2>1, ZeroesTyped
<1>6. ended \o Zeroes(BlockSize - Len(ended)) \in Seq(E)
  BY <1>2, <1>5, ConcatProperties
<1>7. first \in Seq(E) /\ rest \in Seq(E)
  BY <1>2, <1>6, EmptySeq
<1>8. BlockSize - LenSize - Len(rest) \in Nat
  <2>1. CASE over
    <3>1. Len(rest) = 0
      BY <2>1, EmptySeq
    <3>2. QED
      BY <1>0, <3>1
  <2>2. CASE ~over
    <3>1. Len(rest) = Len(ended)
      BY <2>2
    <3>2. QED
      BY <1>0, <1>2, <2>2, <3>1
  <2>3. QED
    BY <2>1, <2>2
<1>9. fill \in Seq(E)
  BY <1>1, <1>8, ZeroesTyped
<1> HIDE DEF first, rest, fill
<1>10. first \o rest \in Seq(E)
  BY <1>7, ConcatProperties
<1> DEFINE a == (first \o rest) \o fill
<1>11. a \in Seq(E)
  BY <1>9, <1>10, ConcatProperties
<1> HIDE DEF a
<1>12. a \o last \in Seq(E) /\ Len(a \o last) = Len(a) + 1 /\ Len(a) \in Nat
  <2>1. Len(a) \in Nat
    BY <1>11, LenProperties
  <2>2. a \o last \in Seq(E) /\ Len(a \o last) = Len(a) + Len(last)
    BY <1>3, <1>11, ConcatProperties, SMTT(30)
  <2>3. QED
    BY <1>3, <2>1, <2>2
<1> DEFINE z == a \o last
<1>13. z \in Seq(E) /\ Len(z) > 0
  BY <1>12
<1> HIDE DEF z
<1>14. Len(h \o z) > 0
  <2>1. Len(h \o z) = Len(h) + Len(z) /\ Len(h) \in Nat
    BY <1>0, <1>13, ConcatProperties, LenProperties
  <2>2. QED
    BY <1>13, <2>1, LenProperties
<1>15. h \o z # <<>>
  BY <1>14, EmptySeq
<1>16. QED
  BY <1>4, <1>15 DEF a, z

\* The same of five.
LEMMA ChainedFive ==
  ASSUME NEW E, NEW a \in Seq(E), NEW b \in Seq(E), NEW c \in Seq(E), NEW d \in Seq(E),
         NEW e \in Seq(E)
  PROVE  Chained(a, Chained(Chained(Chained(b, c), d), e)) = Chained(Chained(Chained(Chained(a, b), c), d), e)
<1> DEFINE m == Chained(b, c)
           n == Chained(m, d)
<1>1. m \in Seq(E) /\ n \in Seq(E)
  BY ChainedAssociative
<1>2. Chained(a, Chained(n, e)) = Chained(Chained(a, n), e)
  BY <1>1, ChainedAssociative
<1>3. Chained(a, Chained(m, d)) = Chained(Chained(a, m), d)
  BY <1>1, ChainedAssociative
<1>4. Chained(a, Chained(b, c)) = Chained(Chained(a, b), c)
  BY ChainedAssociative
<1>5. QED
  BY <1>2, <1>3, <1>4

LEMMA ZeroesJoin ==
  ASSUME NEW m \in Nat, NEW n \in Nat
  PROVE  Zeroes(m) \o Zeroes(n) = Zeroes(m + n)
<1> DEFINE E == {<<0, 0>>}
<1>1. /\ Zeroes(m) \in Seq(E) /\ Len(Zeroes(m)) = m
      /\ Zeroes(n) \in Seq(E) /\ Len(Zeroes(n)) = n
      /\ Zeroes(m + n) \in Seq(E) /\ Len(Zeroes(m + n)) = m + n
  BY ZeroesTyped
<1>2. Zeroes(m) \o Zeroes(n) \in Seq(E) /\ Len(Zeroes(m) \o Zeroes(n)) = m + n
  BY <1>1, ConcatProperties
<1>3. \A i \in 1 .. m + n : (Zeroes(m) \o Zeroes(n))[i] = <<0, 0>> /\ Zeroes(m + n)[i] = <<0, 0>>
  BY <1>1, <1>2, ElementOfSeq
<1>4. QED
  BY <1>1, <1>2, <1>3, SeqEqual

\* How many zeroes FIPS 180-4 asks for, of a message with a left-over of n bytes.
LEMMA ZeroesWanted ==
  ASSUME NEW k \in Nat, NEW n \in Nat, n < BlockSize
  PROVE  LET surplus == (k * BlockSize + n + 1 + 2 * LenSize) % BlockSize
         IN (IF surplus = 0 THEN 0 ELSE BlockSize - surplus) + LenSize
              = IF n + 1 > BlockSize - 2 * LenSize
                THEN (BlockSize - (n + 1)) + (BlockSize - LenSize)
                ELSE BlockSize - LenSize - (n + 1)
<1> DEFINE y    == n + 1 + 2 * LenSize
           surplus == (k * BlockSize + n + 1 + 2 * LenSize) % BlockSize
<1>0. BlockSize \in Nat /\ BlockSize > 0 /\ LenSize \in Nat /\ LenSize > 0 /\ 2 * LenSize < BlockSize
  BY Sha512Assumption
<1>1. k * BlockSize \in Nat /\ y \in 1 .. 2 * BlockSize - 1 /\ (k + 1) * BlockSize = k * BlockSize + BlockSize
  BY <1>0
<1>2. k * BlockSize + n + 1 + 2 * LenSize = k * BlockSize + y
  BY <1>0, <1>1
<1>3. CASE y < BlockSize
  <2>1. y \in 0 .. BlockSize - 1
    BY <1>0, <1>1, <1>3
  <2>2. surplus = y
    BY <1>0, <1>2, <2>1, RestOfSum
  <2>3. QED
    BY <1>0, <1>1, <1>3, <2>2
<1>4. CASE y >= BlockSize
  <2>1. y - BlockSize \in 0 .. BlockSize - 1 /\ k + 1 \in Nat
    BY <1>0, <1>1, <1>4
  <2>2. k * BlockSize + y = (k + 1) * BlockSize + (y - BlockSize)
    BY <1>0, <1>1, <2>1
  <2>3. ((k + 1) * BlockSize + (y - BlockSize)) % BlockSize = y - BlockSize
    BY <1>0, <2>1, RestOfSum
  <2>4. surplus = y - BlockSize
    BY <1>2, <2>2, <2>3
  <2>5. QED
    BY <1>0, <1>1, <1>4, <2>4
<1>5. QED
  BY <1>0, <1>1, <1>3, <1>4

\* What is compressed when a message ends is the message, padded as the standard
\* has it, wherever its end falls in a block.
LEMMA FinalPads ==
  ASSUME NEW E, \A i, j \in Nat : <<i, j>> \in E, NEW h, NEW b, NEW len, Sound(E, h, b, len)
  PROVE  Final([hashed |-> h, buf |-> b, length |-> len]) = Padded(h \o b)
<1> DEFINE ended == Append(b, Mark)
           n     == Len(b) + 1
           over  == n > BlockSize - 2 * LenSize
           first == IF over THEN ended \o Zeroes(BlockSize - n) ELSE <<>>
           rest  == IF over THEN <<>> ELSE ended
           fill  == Zeroes(BlockSize - LenSize - Len(rest))
           last  == LengthOf(len + Len(b))
           count == IF over THEN (BlockSize - n) + (BlockSize - LenSize) ELSE BlockSize - LenSize - n
           z     == Zeroes(count)
<1>0. /\ BlockSize \in Nat /\ LenSize \in Nat /\ LenSize > 0 /\ 2 * LenSize < BlockSize
      /\ h \in Seq(E) /\ b \in Seq(E) /\ Len(b) \in Nat /\ Len(b) < BlockSize
      /\ len \in Nat /\ len = Len(h)
  BY Sha512Assumption, LenProperties DEF Sound
<1>1. <<0, 0>> \in E /\ Mark \in E /\ <<256, len + Len(b)>> \in E
  BY <1>0 DEF Mark
<1>2. ended \in Seq(E) /\ Len(ended) = n /\ ended = b \o <<Mark>> /\ <<Mark>> \in Seq(E)
  BY <1>0, <1>1, AppendProperties, AppendIsConcat
<1>3. last \in Seq(E)
  BY <1>1 DEF LengthOf
<1>4. Final([hashed |-> h, buf |-> b, length |-> len]) = h \o (((first \o rest) \o fill) \o last)
  <2>1. Len(ended) = n
    BY <1>2
  <2>2. QED
    BY <2>1 DEF Final, Compress
<1>5. count \in Nat /\ z \in Seq(E)
  <2>1. count \in Nat
    BY <1>0
  <2> HIDE DEF count
  <2>2. QED
    BY <1>1, <2>1, ZeroesTyped
<1> HIDE DEF ended, last
<1>6. (first \o rest) \o fill = ended \o z
  <2>1. CASE over
    <3> DEFINE y == Zeroes(BlockSize - n)
               x == Zeroes(BlockSize - LenSize)
    <3>1. BlockSize - n \in Nat /\ BlockSize - LenSize \in Nat
      BY <1>0
    <3>2. y \in Seq(E) /\ x \in Seq(E) /\ y \o x = z
      BY <1>1, <2>1, <3>1, ZeroesTyped, ZeroesJoin
    <3>3. first = ended \o y /\ rest = <<>> /\ fill = x
      <4>1. first = ended \o y /\ rest = <<>>
        BY <2>1
      <4>2. Len(rest) = 0
        BY <4>1, EmptySeq
      <4>3. BlockSize - LenSize - Len(rest) = BlockSize - LenSize
        BY <1>0, <4>2
      <4>4. QED
        BY <4>1, <4>3
    <3> HIDE DEF x, y, z, first, rest, fill
    <3>4. ended \o y \in Seq(E)
      BY <1>2, <3>2, ConcatProperties
    <3>5. (ended \o y) \o <<>> = ended \o y
      BY <3>4, ConcatEmptySeq
    <3>6. (ended \o y) \o x = ended \o (y \o x)
      <4>1. ended \in Seq(E) /\ y \in Seq(E) /\ x \in Seq(E)
        BY <1>2, <3>2
      <4>2. Chained(Chained(ended, y), x) = Chained(ended, Chained(y, x))
        BY <4>1, ChainedAssociative
      <4>3. Chained(Chained(ended, y), x) = (ended \o y) \o x
        BY SMT DEF Chained
      <4>4. Chained(ended, Chained(y, x)) = ended \o (y \o x)
        BY SMT DEF Chained
      <4>5. QED
        BY <4>2, <4>3, <4>4
    <3>7. QED
      BY <3>2, <3>3, <3>5, <3>6
  <2>2. CASE ~over
    <3>1. first = <<>> /\ rest = ended
      BY <2>2
    <3>2. Len(rest) = n
      BY <1>2, <3>1
    <3>3. fill = z
      BY <2>2, <3>2
    <3>4. <<>> \o ended = ended
      BY <1>2, ConcatEmptySeq
    <3> HIDE DEF first, rest, fill, z
    <3>5. QED
      BY <3>1, <3>3, <3>4
  <2>3. QED
    BY <2>1, <2>2
<1>7. Padded(h \o b) = (((h \o b) \o <<Mark>>) \o z) \o last
  <2>1. h \o b \in Seq(E) /\ Len(h \o b) = len + Len(b)
    BY <1>0, ConcatProperties
  <2>2. PICK k \in Nat : len = k * BlockSize
    BY DEF Sound
  <2> DEFINE surplus == (Len(h \o b) + 1 + 2 * LenSize) % BlockSize
  <2>3. (IF surplus = 0 THEN 0 ELSE BlockSize - surplus) + LenSize = count
    <3>1. surplus = (k * BlockSize + Len(b) + 1 + 2 * LenSize) % BlockSize
      BY <2>1, <2>2
    <3>2. Len(b) \in Nat /\ Len(b) < BlockSize /\ count = IF n > BlockSize - 2 * LenSize THEN (BlockSize - n) + (BlockSize - LenSize) ELSE BlockSize - LenSize - n
      BY <1>0
    <3>3. QED
      BY <3>1, <3>2, ZeroesWanted
  <2>4. Padded(h \o b)
          = (((h \o b) \o <<Mark>>) \o Zeroes((IF surplus = 0 THEN 0 ELSE BlockSize - surplus) + LenSize))
              \o LengthOf(Len(h \o b))
    BY DEF Padded
  <2> HIDE DEF surplus, count
  <2>5. QED
    BY <2>1, <2>3, <2>4 DEF last
<1> HIDE DEF first, rest, fill, z, count
<1>8. h \o ((ended \o z) \o last) = (((h \o b) \o <<Mark>>) \o z) \o last
  <2>1. h \in Seq(E) /\ b \in Seq(E) /\ <<Mark>> \in Seq(E) /\ z \in Seq(E) /\ last \in Seq(E)
    BY <1>0, <1>2, <1>3, <1>5
  <2>2. h \o (((b \o <<Mark>>) \o z) \o last) = (((h \o b) \o <<Mark>>) \o z) \o last
    <3>1. PICK m : m = <<Mark>>
      OBVIOUS
    <3>2. m \in Seq(E)
      BY <2>1, <3>1
    <3>3. Chained(h, Chained(Chained(Chained(b, m), z), last)) = Chained(Chained(Chained(Chained(h, b), m), z), last)
      BY <2>1, <3>2, ChainedFive
    <3>4. h \o (((b \o m) \o z) \o last) = Chained(h, Chained(Chained(Chained(b, m), z), last))
      BY SMT DEF Chained
    <3>5. (((h \o b) \o m) \o z) \o last = Chained(Chained(Chained(Chained(h, b), m), z), last)
      BY SMT DEF Chained
    <3>6. h \o (((b \o m) \o z) \o last) = (((h \o b) \o m) \o z) \o last
      BY <3>3, <3>4, <3>5
    <3>7. QED
      BY <3>1, <3>6
  <2>3. QED
    BY <1>2, <2>2
<1>9. QED
  BY <1>4, <1>6, <1>7, <1>8

(* The invariant *)

\* The bytes of the keys, each once it has been brought to its size.
KeyByte == UNION {{Brought(k)[i] : i \in 1 .. KeySize} : k \in Keys}
Byte512 == Nat \X (Data \cup Nat \cup KeyByte)

IInv ==
  /\ message \in Seq(Byte512)
  /\ key = <<>> \/ (given \in Keys /\ key = Brought(given))
  /\ digest = <<>> => Sound(Byte512, hashed, buf, length) /\ hashed \o buf = message

LEMMA FreshSound ==
  ASSUME NEW E
  PROVE  Sound(E, <<>>, <<>>, 0) /\ <<>> \o <<>> = <<>>
<1>1. <<>> \in Seq(E) /\ Len(<<>>) = 0
  BY EmptySeq
<1>2. 0 = 0 * BlockSize /\ 0 < BlockSize
  BY SizesKnown DEF Sizes512
<1>3. <<>> \o <<>> = <<>>
  BY <1>1, ConcatEmptySeq
<1>4. QED
  BY <1>1, <1>2, <1>3 DEF Sound

\* A key XORed with 0x36 or 0x5c is bytes of messages.
LEMMA PadTyped ==
  ASSUME NEW k \in Keys, NEW x \in Nat
  PROVE  Pad(Brought(k), x) \in Seq(Byte512)
<1>1. KeySize \in Nat
  BY Sha512Assumption
<1>2. \A i \in 1 .. KeySize : Brought(k)[i] \in KeyByte
  BY DEF KeyByte
<1>3. \A i \in 1 .. KeySize : <<x, Brought(k)[i]>> \in Byte512
  BY <1>2 DEF Byte512
<1>4. QED
  BY <1>1, <1>3, IsASeq DEF Pad

LEMMA Initially == Sha512Init => IInv
<1>1. <<>> \in Seq(Byte512)
  BY EmptySeq
<1>2. QED
  BY <1>1, FreshSound DEF Sha512Init, IInv

LEMMA AddKeeps ==
  ASSUME IInv, Add
  PROVE  IInv'
<1>1. digest = <<>> /\ digest' = <<>> /\ key' = key /\ given' = given
  BY DEF Add
<1>2. PICK n \in 0 .. MaxPiece : \E values \in [1 .. n -> Data] :
        LET px == [i \in 1 .. n |-> <<0, values[i]>>]
        IN Become(Update(Context, px)) /\ message' = message \o px
  BY DEF Add
<1>3. PICK values \in [1 .. n -> Data] :
        LET px == [i \in 1 .. n |-> <<0, values[i]>>]
        IN Become(Update(Context, px)) /\ message' = message \o px
  BY <1>2
<1> DEFINE px == [i \in 1 .. n |-> <<0, values[i]>>]
           u  == Update([hashed |-> hashed, buf |-> buf, length |-> length], px)
<1>4. hashed' = u.hashed /\ buf' = u.buf /\ length' = u.length /\ message' = message \o px
  BY <1>3 DEF Become, Context
<1>5. px \in Seq(Byte512)
  <2>1. \A i \in 1 .. n : <<0, values[i]>> \in Byte512
    BY DEF Byte512
  <2>2. n \in Nat
    OBVIOUS
  <2>3. QED
    BY <2>1, <2>2, IsASeq
<1>6. Sound(Byte512, hashed, buf, length) /\ hashed \o buf = message /\ message \in Seq(Byte512)
  BY <1>1 DEF IInv
<1> HIDE DEF px
<1>7. Sound(Byte512, u.hashed, u.buf, u.length) /\ u.hashed \o u.buf = (hashed \o buf) \o px
  <2>1. Continues(Byte512, Update([hashed |-> hashed, buf |-> buf, length |-> length], px), hashed, buf, px)
    BY <1>5, <1>6, UpdateSound, Zenon
  <2>2. QED
    BY <2>1 DEF Continues
<1> HIDE DEF u
<1>8. Sound(Byte512, hashed', buf', length') /\ hashed' \o buf' = message'
  BY <1>4, <1>6, <1>7
<1>9. message' \in Seq(Byte512)
  BY <1>4, <1>5, <1>6, ConcatProperties
<1>10. QED
  BY <1>1, <1>8, <1>9 DEF IInv, Sound

\* What util_sha512_init() and a piece leave.
LEMMA FirstPiece ==
  ASSUME NEW E, NEW px \in Seq(E)
  PROVE  /\ Sound(E, Update(Fresh, px).hashed, Update(Fresh, px).buf, Update(Fresh, px).length)
         /\ Update(Fresh, px).hashed \o Update(Fresh, px).buf = px
<1>1. Sound(E, <<>>, <<>>, 0) /\ <<>> \o <<>> = <<>>
  BY FreshSound
<1>2. Continues(E, Update([hashed |-> <<>>, buf |-> <<>>, length |-> 0], px), <<>>, <<>>, px)
  BY <1>1, UpdateSound, Zenon
<1>3. Continues(E, Update(Fresh, px), <<>>, <<>>, px)
  BY <1>2 DEF Fresh
<1>4. <<>> \o px = px
  BY ConcatEmptySeq
<1>5. QED
  BY <1>1, <1>3, <1>4 DEF Continues

LEMMA UpdateIsContext ==
  ASSUME NEW ctx, NEW px
  PROVE  Update(ctx, px) = [hashed |-> Update(ctx, px).hashed, buf |-> Update(ctx, px).buf,
                            length |-> Update(ctx, px).length]
BY DEF Update

LEMMA FinishKeeps ==
  ASSUME IInv, Finish
  PROVE  IInv'
<1>1. /\ digest = <<>> /\ digest' = Final([hashed |-> hashed, buf |-> buf, length |-> length])
      /\ message' = message /\ key' = key /\ given' = given
  BY DEF Finish, Context
<1>2. Sound(Byte512, hashed, buf, length)
  BY <1>1 DEF IInv
<1>3. \A i, j \in Nat : <<i, j>> \in Byte512
  BY DEF Byte512
<1>4. Final([hashed |-> hashed, buf |-> buf, length |-> length]) # <<>>
  BY <1>2, <1>3, FinalProduces, Zenon
<1>5. QED
  BY <1>1, <1>4 DEF IInv

LEMMA HmacFinishKeeps ==
  ASSUME IInv, HmacFinish
  PROVE  IInv'
<1> DEFINE inner == Final(Context)
           E     == Nat \X (Data \cup Nat \cup KeyByte \cup {inner})
           pad   == Pad(key, 92)
           bytes == Bytes(inner)
           outer == Update(Fresh, pad)
           both  == Update(outer, bytes)
<1>1. digest' = Final(both) /\ message' = message /\ key' = key /\ given' = given /\ key # <<>>
  BY DEF HmacFinish
<1>2. pad \in Seq(E)
  <2>0. given \in Keys /\ key = Brought(given)
    BY <1>1 DEF IInv
  <2>1. pad \in Seq(Byte512)
    BY <2>0, PadTyped
  <2>2. Byte512 \subseteq E
    BY DEF Byte512
  <2>3. Len(pad) \in Nat /\ pad = [i \in 1 .. Len(pad) |-> pad[i]] /\ \A i \in 1 .. Len(pad) : pad[i] \in Byte512
    BY <2>1, LenProperties, ElementOfSeq
  <2> HIDE DEF pad, E
  <2>4. \A i \in 1 .. Len(pad) : pad[i] \in E
    BY <2>2, <2>3
  <2>5. [i \in 1 .. Len(pad) |-> pad[i]] \in Seq(E)
    BY <2>3, <2>4, IsASeq
  <2>6. QED
    BY <2>3, <2>5
<1>3. bytes \in Seq(E)
  <2>1. KeySize \in Nat
    BY SizesKnown DEF Sizes512
  <2>2. \A i \in 1 .. KeySize : <<512 + i, inner>> \in E
    OBVIOUS
  <2> HIDE DEF inner, E
  <2>3. QED
    BY <2>1, <2>2, IsASeq DEF Bytes
<1>4. \A i, j \in Nat : <<i, j>> \in E
  OBVIOUS
<1> HIDE DEF inner, E, pad, bytes
<1>5. Sound(E, outer.hashed, outer.buf, outer.length)
  BY <1>2, FirstPiece
<1>6. outer = [hashed |-> outer.hashed, buf |-> outer.buf, length |-> outer.length]
  BY UpdateIsContext
<1> HIDE DEF outer
<1>7. Continues(E, Update([hashed |-> outer.hashed, buf |-> outer.buf, length |-> outer.length], bytes),
                outer.hashed, outer.buf, bytes)
  BY <1>3, <1>5, UpdateSound, Zenon
<1>8. Sound(E, both.hashed, both.buf, both.length)
  BY <1>6, <1>7 DEF Continues
<1>9. both = [hashed |-> both.hashed, buf |-> both.buf, length |-> both.length]
  BY UpdateIsContext
<1> HIDE DEF both
<1>10. Final([hashed |-> both.hashed, buf |-> both.buf, length |-> both.length]) # <<>>
  BY <1>4, <1>8, FinalProduces, Zenon
<1>11. digest' # <<>>
  BY <1>1, <1>9, <1>10
<1>12. QED
  BY <1>1, <1>11 DEF IInv

LEMMA BeginKeeps ==
  ASSUME IInv, Begin
  PROVE  IInv'
<1>1. hashed' = <<>> /\ buf' = <<>> /\ length' = 0 /\ message' = <<>> /\ key' = <<>>
  BY DEF Begin, Become, Fresh
<1>2. Sound(Byte512, <<>>, <<>>, 0) /\ <<>> \o <<>> = <<>> /\ <<>> \in Seq(Byte512)
  BY FreshSound, EmptySeq
<1>3. Sound(Byte512, hashed', buf', length')
  BY <1>1, <1>2
<1>4. QED
  BY <1>1, <1>2, <1>3 DEF IInv, Sound

\* The bytes of a key are bytes of messages ...
LEMMA RawTyped ==
  ASSUME NEW k \in Keys
  PROVE  Raw(k) \in Seq(Nat \X (Data \cup Nat))
<1>1. k \in Seq(Data) /\ Len(k) \in Nat
  BY Sha512Assumption, LenProperties
<1>2. \A i \in 1 .. Len(k) : k[i] \in Data
  BY <1>1, ElementOfSeq
<1>3. \A i \in 1 .. Len(k) : <<0, k[i]>> \in Nat \X (Data \cup Nat)
  BY <1>2
<1>4. QED
  BY <1>1, <1>3, IsASeq DEF Raw

\* ... so that util_sha512() of a long one is its digest.
LEMMA KeyIsBrought ==
  ASSUME NEW k \in Keys
  PROVE  KeyOf(k) = Brought(k)
<1> DEFINE E == Nat \X (Data \cup Nat)  raw == Raw(k)  u == Update(Fresh, raw)
<1>1. raw \in Seq(E)
  BY RawTyped
<1>2. \A i, j \in Nat : <<i, j>> \in E
  OBVIOUS
<1> HIDE DEF raw, E
<1>3. Sound(E, u.hashed, u.buf, u.length) /\ u.hashed \o u.buf = raw
  BY <1>1, FirstPiece
<1>4. u = [hashed |-> u.hashed, buf |-> u.buf, length |-> u.length]
  BY UpdateIsContext
<1>5. Hash(raw) = Final(u)
  BY DEF Hash
<1> HIDE DEF u
<1>6. Final([hashed |-> u.hashed, buf |-> u.buf, length |-> u.length]) = Padded(u.hashed \o u.buf)
  BY <1>2, <1>3, FinalPads, Zenon
<1>7. Hash(raw) = Padded(raw)
  BY <1>3, <1>4, <1>5, <1>6
<1>8. Hash(Raw(k)) = Padded(Raw(k))
  BY <1>7 DEF raw
<1>9. QED
  BY <1>8 DEF KeyOf, Brought

LEMMA HmacBeginKeeps ==
  ASSUME IInv, HmacBegin
  PROVE  IInv'
<1>1. PICK k \in Keys : /\ key' = KeyOf(k) /\ given' = k
                        /\ Become(Update(Fresh, Pad(KeyOf(k), 54))) /\ message' = Pad(Brought(k), 54)
  BY DEF HmacBegin
<1> DEFINE pad == Pad(Brought(k), 54)
           u   == Update(Fresh, pad)
<1>2. KeyOf(k) = Brought(k)
  BY KeyIsBrought
<1>3. /\ hashed' = u.hashed /\ buf' = u.buf /\ length' = u.length /\ message' = pad
      /\ key' = Brought(k) /\ given' = k
  BY <1>1, <1>2 DEF Become
<1>4. pad \in Seq(Byte512)
  BY PadTyped
<1> HIDE DEF pad
<1>5. Sound(Byte512, u.hashed, u.buf, u.length) /\ u.hashed \o u.buf = pad
  BY <1>4, FirstPiece
<1> HIDE DEF u
<1>6. Sound(Byte512, hashed', buf', length') /\ hashed' \o buf' = message'
  BY <1>3, <1>5
<1>7. QED
  BY <1>3, <1>4, <1>6 DEF IInv, Sound

LEMMA Inductive == IInv /\ [Sha512Next]_sha512Vars => IInv'
<1> SUFFICES ASSUME IInv, [Sha512Next]_sha512Vars
             PROVE  IInv'
  OBVIOUS
<1>1. CASE Add
  BY <1>1, AddKeeps
<1>2. CASE Finish
  BY <1>2, FinishKeeps
<1>3. CASE HmacFinish
  BY <1>3, HmacFinishKeeps
<1>4. CASE Begin
  BY <1>4, BeginKeeps
<1>5. CASE HmacBegin
  BY <1>5, HmacBeginKeeps
<1>6. CASE UNCHANGED sha512Vars
  BY <1>6 DEF sha512Vars, IInv, Sound
<1>7. QED
  BY <1>1, <1>2, <1>3, <1>4, <1>5, <1>6 DEF Sha512Next

LEMMA Implied == IInv => Streamed
<1> SUFFICES ASSUME IInv, digest = <<>>
             PROVE  /\ hashed \o buf = message
                    /\ length = Len(hashed) /\ Len(hashed) % BlockSize = 0 /\ Len(buf) < BlockSize
  BY DEF Streamed
<1>1. Sound(Byte512, hashed, buf, length) /\ hashed \o buf = message
  BY DEF IInv
<1>2. PICK k \in Nat : length = k * BlockSize
  BY <1>1 DEF Sound
<1>3. length = Len(hashed) /\ Len(buf) < BlockSize
  BY <1>1 DEF Sound
<1>4. (k * BlockSize) % BlockSize = 0
  BY SizesKnown, MultipleHasNoRest DEF Sizes512
<1>5. QED
  BY <1>1, <1>2, <1>3, <1>4

\* Whatever calls of util_sha512_update() a message arrives in, what has been
\* compressed followed by what is left over is the message so far, the length is
\* what has been compressed, and only whole blocks have been.
THEOREM SpecStreamed == Sha512Spec => []Streamed
<1>1. Sha512Init => IInv
  BY Initially
<1>2. IInv /\ [Sha512Next]_sha512Vars => IInv'
  BY Inductive
<1>3. IInv => Streamed
  BY Implied
<1>4. QED
  BY <1>1, <1>2, <1>3, PTL DEF Sha512Spec

(* Digests *)

\* util_sha512_final() and util_sha512hmac_final(), of the context of the invariant.
LEMMA FinishDigests ==
  ASSUME IInv, Finish
  PROVE  DigestOfMessage'
<1>1. /\ digest = <<>> /\ digest' = Final([hashed |-> hashed, buf |-> buf, length |-> length])
      /\ message' = message /\ key' = <<>>
  BY DEF Finish, Context
<1>2. Sound(Byte512, hashed, buf, length) /\ hashed \o buf = message
  BY <1>1 DEF IInv
<1>3. \A i, j \in Nat : <<i, j>> \in Byte512
  BY DEF Byte512
<1>4. Final([hashed |-> hashed, buf |-> buf, length |-> length]) = Padded(hashed \o buf)
  BY <1>2, <1>3, FinalPads, Zenon
<1>5. digest' = Padded(message')
  BY <1>1, <1>2, <1>4
<1>6. QED
  BY <1>1, <1>5 DEF DigestOfMessage

LEMMA HmacFinishDigests ==
  ASSUME IInv, HmacFinish
  PROVE  DigestOfMessage'
<1> DEFINE inner == Final(Context)
           E     == Nat \X (Data \cup Nat \cup KeyByte \cup {inner})
           pad   == Pad(key, 92)
           bytes == Bytes(inner)
           outer == Update(Fresh, pad)
           both  == Update(outer, bytes)
<1>1. /\ digest' = Final(both) /\ message' = message /\ key' = key /\ given' = given
      /\ key # <<>> /\ digest = <<>>
  BY DEF HmacFinish
<1>0. inner = Padded(message)
  <2>1. Sound(Byte512, hashed, buf, length) /\ hashed \o buf = message
    BY <1>1 DEF IInv
  <2>2. \A i, j \in Nat : <<i, j>> \in Byte512
    BY DEF Byte512
  <2>3. Final([hashed |-> hashed, buf |-> buf, length |-> length]) = Padded(hashed \o buf)
    BY <2>1, <2>2, FinalPads, Zenon
  <2>4. QED
    BY <2>1, <2>3 DEF Context
<1>2. pad \in Seq(E)
  <2>0. given \in Keys /\ key = Brought(given)
    BY <1>1 DEF IInv
  <2>1. pad \in Seq(Byte512)
    BY <2>0, PadTyped
  <2>2. Byte512 \subseteq E
    BY DEF Byte512
  <2>3. Len(pad) \in Nat /\ pad = [i \in 1 .. Len(pad) |-> pad[i]] /\ \A i \in 1 .. Len(pad) : pad[i] \in Byte512
    BY <2>1, LenProperties, ElementOfSeq
  <2> HIDE DEF pad, E
  <2>4. \A i \in 1 .. Len(pad) : pad[i] \in E
    BY <2>2, <2>3
  <2>5. [i \in 1 .. Len(pad) |-> pad[i]] \in Seq(E)
    BY <2>3, <2>4, IsASeq
  <2>6. QED
    BY <2>3, <2>5
<1>3. bytes \in Seq(E)
  <2>1. KeySize \in Nat
    BY SizesKnown DEF Sizes512
  <2>2. \A i \in 1 .. KeySize : <<512 + i, inner>> \in E
    OBVIOUS
  <2> HIDE DEF inner, E
  <2>3. QED
    BY <2>1, <2>2, IsASeq DEF Bytes
<1>4. \A i, j \in Nat : <<i, j>> \in E
  OBVIOUS
<1> HIDE DEF inner, E, pad, bytes
<1>5. Sound(E, outer.hashed, outer.buf, outer.length) /\ outer.hashed \o outer.buf = pad
  BY <1>2, FirstPiece
<1>6. outer = [hashed |-> outer.hashed, buf |-> outer.buf, length |-> outer.length]
  BY UpdateIsContext
<1> HIDE DEF outer
<1>7. Continues(E, Update([hashed |-> outer.hashed, buf |-> outer.buf, length |-> outer.length], bytes),
                outer.hashed, outer.buf, bytes)
  BY <1>3, <1>5, UpdateSound, Zenon
<1>8. Sound(E, both.hashed, both.buf, both.length) /\ both.hashed \o both.buf = pad \o bytes
  BY <1>5, <1>6, <1>7 DEF Continues
<1>9. both = [hashed |-> both.hashed, buf |-> both.buf, length |-> both.length]
  BY UpdateIsContext
<1> HIDE DEF both
<1>10. Final([hashed |-> both.hashed, buf |-> both.buf, length |-> both.length])
         = Padded(both.hashed \o both.buf)
  BY <1>4, <1>8, FinalPads, Zenon
<1>11. digest' = Padded(pad \o bytes)
  BY <1>1, <1>8, <1>9, <1>10
<1>12. digest' = Padded(Pad(key', 92) \o Bytes(Padded(message')))
  BY <1>0, <1>1, <1>11 DEF pad, bytes
<1>14. key' = Brought(given')
  BY <1>1 DEF IInv
<1>13. QED
  BY <1>1, <1>12, <1>14 DEF DigestOfMessage

\* For any sizes, any data, keys of any length and any way of cutting a message into
\* calls: a digest is the compression of the message padded as FIPS 180-4 has it, and
\* that of an HMAC the outer hash of the inner one, under the key or the digest of a
\* long key (util_sha512_final(), util_sha512hmac_init(), util_sha512hmac_final()).
THEOREM SpecDigestOfMessage == Sha512Spec => []DigestOfMessage
<1>1. Sha512Init => IInv /\ DigestOfMessage
  BY Initially DEF Sha512Init, DigestOfMessage
<1>2. IInv /\ DigestOfMessage /\ [Sha512Next]_sha512Vars => IInv' /\ DigestOfMessage'
  <2> SUFFICES ASSUME IInv, DigestOfMessage, [Sha512Next]_sha512Vars
               PROVE  IInv' /\ DigestOfMessage'
    OBVIOUS
  <2>1. IInv'
    BY Inductive
  <2>2. CASE Finish
    BY <2>1, <2>2, FinishDigests
  <2>3. CASE HmacFinish
    BY <2>1, <2>3, HmacFinishDigests
  <2>4. CASE Add \/ Begin \/ HmacBegin
    <3>1. digest' = <<>>
      BY <2>4 DEF Add, Begin, HmacBegin
    <3>2. QED
      BY <2>1, <3>1 DEF DigestOfMessage
  <2>5. CASE UNCHANGED sha512Vars
    BY <2>1, <2>5 DEF sha512Vars, DigestOfMessage
  <2>6. QED
    BY <2>2, <2>3, <2>4, <2>5 DEF Sha512Next
<1>3. QED
  BY <1>1, <1>2, PTL DEF Sha512Spec

-----------------------------------------------------------------------------
(***************************************************************************)
(* SecMem.  The invariant counts in whole pages: an allocation is a row of *)
(* pages g .. g + f - 1, the first and the last of them its guards.        *)
(***************************************************************************)

\* Products grow with their factors.
LEMMA TimesMonotone ==
  ASSUME NEW P \in Nat, NEW k \in Nat, NEW m \in Nat, k <= m
  PROVE  k * P \in Nat /\ m * P \in Nat /\ k * P <= m * P
<1> DEFINE d == m - k
<1>1. d \in Nat /\ m = k + d
  OBVIOUS
<1> HIDE DEF d
<1>2. (k + d) * P = k * P + d * P /\ d * P \in Nat /\ k * P \in Nat
  BY <1>1
<1>3. QED
  BY <1>1, <1>2

\* A number below the modulus is its own remainder.
LEMMA SmallRemainder ==
  ASSUME NEW N \in Nat, NEW m \in Nat, m < N
  PROVE  m % N = m
<1>1. N > 0 /\ m \div N \in Nat /\ m % N \in 0 .. N - 1 /\ m = N * (m \div N) + (m % N)
  OBVIOUS
<1> DEFINE q == m \div N
           r == m % N
<1> HIDE DEF q, r
<1>2. q \in Nat /\ r \in Nat /\ m = N * q + r
  BY <1>1 DEF q, r
<1>3. CASE q = 0
  BY <1>2, <1>3 DEF r
<1>4. CASE q >= 1
  <2>1. 1 * N <= q * N /\ q * N = N * q
    BY <1>2, <1>4, TimesMonotone
  <2>2. QED
    BY <1>2, <2>1
<1>5. QED
  BY <1>2, <1>3, <1>4

\* A byte is on page k or later exactly when it does not come before that page.
LEMMA PageFrom ==
  ASSUME NEW a \in Nat, NEW k \in Nat
  PROVE  PageOf(a) \in Nat /\ (k <= PageOf(a) <=> k * Page <= a)
<1>1. Page \in Nat /\ Page > 0
  BY SecMemAssumption
<1>2. a \div Page \in Nat /\ a % Page \in 0 .. Page - 1 /\ a = Page * (a \div Page) + (a % Page)
  BY <1>1
<1> DEFINE q == a \div Page
           r == a % Page
<1> HIDE DEF q, r
<1>3. q \in Nat /\ r \in 0 .. Page - 1 /\ a = Page * q + r /\ q * Page = Page * q /\ Page * q \in Nat
  BY <1>1, <1>2 DEF q, r
<1>4. k <= q => k * Page <= a
  <2> SUFFICES ASSUME k <= q PROVE k * Page <= a
    OBVIOUS
  <2>1. k * Page \in Nat /\ k * Page <= q * Page
    BY <1>1, <1>3, TimesMonotone
  <2>2. QED
    BY <1>3, <2>1
<1>5. ~(k <= q) => ~(k * Page <= a)
  <2>0. k * Page \in Nat /\ (~(k <= q) => q + 1 <= k)
    BY <1>1, <1>3
  <2> SUFFICES ASSUME q + 1 <= k PROVE a < k * Page
    BY <2>0
  <2>1. k * Page \in Nat /\ (q + 1) * Page <= k * Page
    BY <1>1, <1>3, TimesMonotone
  <2>2. (q + 1) * Page = Page * q + Page
    BY <1>1, <1>3
  <2>3. QED
    BY <1>1, <1>3, <2>1, <2>2
<1>6. QED
  BY <1>3, <1>4, <1>5 DEF q, PageOf

\* The pages of n whole pages of memory from page k on.
LEMMA PagesOfRow ==
  ASSUME NEW k \in Nat, NEW n \in Nat
  PROVE  PagesOf(k * Page, n * Page) = k .. k + n - 1
<1>1. Page \in Nat /\ Page > 0
  BY SecMemAssumption
<1>2. k * Page \in Nat /\ n * Page \in Nat /\ (k + n) * Page = k * Page + n * Page
  BY <1>1
<1>3. ASSUME NEW a \in k * Page .. k * Page + n * Page - 1
      PROVE  PageOf(a) \in k .. k + n - 1
  <2>1. a \in Nat /\ k * Page <= a /\ ~((k + n) * Page <= a)
    BY <1>2
  <2>2. PageOf(a) \in Nat /\ k <= PageOf(a) /\ ~(k + n <= PageOf(a))
    BY <2>1, PageFrom
  <2>3. QED
    BY <2>2
<1>4. ASSUME NEW h \in k .. k + n - 1
      PROVE  \E a \in k * Page .. k * Page + n * Page - 1 : PageOf(a) = h
  <2>1. h \in Nat /\ k <= h /\ h + 1 <= k + n /\ h * Page \in Nat
    BY <1>1
  <2>2. k * Page <= h * Page /\ (h + 1) * Page <= (k + n) * Page
    BY <1>1, <2>1, TimesMonotone
  <2>3. (h + 1) * Page = h * Page + Page
    BY <1>1, <2>1
  <2>4. h * Page \in k * Page .. k * Page + n * Page - 1
    BY <1>1, <1>2, <2>1, <2>2, <2>3
  <2>5. PageOf(h * Page) \in Nat /\ h <= PageOf(h * Page) /\ ~(h + 1 <= PageOf(h * Page))
    <3>1. h * Page <= h * Page /\ ~((h + 1) * Page <= h * Page)
      BY <1>1, <2>1, <2>3
    <3>2. QED
      BY <2>1, <3>1, PageFrom
  <2>6. PageOf(h * Page) = h
    BY <2>1, <2>5
  <2>7. QED
    BY <2>4, <2>6
<1>5. QED
  BY <1>3, <1>4 DEF PagesOf

\* Sizes that a size_t can hold together with the header and the guard pages.
Fits == \A size \in Requests : size + Header + 3 * Page <= SizeValues

\* The mapping is whole pages with room for the request, the header and the guards.
LEMMA FullSizeRow ==
  ASSUME Fits, NEW size \in Requests
  PROVE  \E f \in Nat : /\ FullSize(size) = f * Page /\ f >= 3
                        /\ Header + size <= (f - 2) * Page
<1>1. /\ Page \in Nat /\ Page > 0 /\ Header \in Nat /\ Header > 0
      /\ SizeValues \in Nat /\ size \in Nat /\ size > 0
  BY SecMemAssumption
<1> DEFINE sum == size + Header + 2 * Page
<1>2. sum \in Nat /\ sum + Page <= SizeValues /\ sum < SizeValues /\ sum > 2 * Page
  <2>1. size + Header + 3 * Page <= SizeValues
    BY DEF Fits
  <2>2. QED
    BY <1>1, <2>1
<1> HIDE DEF sum
<1>3. sum % SizeValues = sum
  BY <1>1, <1>2, SmallRemainder
<1>4. sum \div Page \in Nat /\ sum % Page \in 0 .. Page - 1 /\ sum = Page * (sum \div Page) + (sum % Page)
  BY <1>1, <1>2
<1> DEFINE q == sum \div Page
           r == sum % Page
           f == IF r = 0 THEN q ELSE q + 1
<1>5. FullSize(size) = IF r = 0 THEN sum ELSE (sum + (Page - r)) % SizeValues
  BY <1>3 DEF FullSize, sum
<1> HIDE DEF q, r
<1>6. q \in Nat /\ r \in 0 .. Page - 1 /\ sum = Page * q + r /\ q * Page = Page * q /\ Page * q \in Nat
  BY <1>1, <1>4 DEF q, r
<1>7. r # 0 => (sum + (Page - r)) % SizeValues = sum + (Page - r)
  <2> SUFFICES ASSUME r # 0 PROVE (sum + (Page - r)) % SizeValues = sum + (Page - r)
    OBVIOUS
  <2>1. sum + (Page - r) \in Nat /\ sum + (Page - r) < SizeValues
    BY <1>1, <1>2, <1>6
  <2>2. QED
    BY <1>1, <2>1, SmallRemainder
<1>8. f \in Nat /\ f * Page = sum + (IF r = 0 THEN 0 ELSE Page - r)
  <2>1. (q + 1) * Page = Page * q + Page
    BY <1>1, <1>6
  <2>2. QED
    BY <1>1, <1>6, <2>1
<1>9. FullSize(size) = f * Page
  BY <1>1, <1>2, <1>5, <1>6, <1>7, <1>8
<1> HIDE DEF f
<1>10. f * Page >= sum
  BY <1>1, <1>2, <1>6, <1>8
<1>11. f >= 3
  <2> SUFFICES ASSUME f <= 2 PROVE FALSE
    BY <1>8
  <2>1. f * Page <= 2 * Page
    BY <1>1, <1>8, TimesMonotone
  <2>2. QED
    BY <1>1, <1>2, <1>8, <1>10, <2>1
<1>12. (f - 2) * Page = f * Page - 2 * Page
  BY <1>1, <1>8, <1>11
<1>13. Header + size <= (f - 2) * Page
  <2>1. f * Page >= size + Header + 2 * Page /\ f * Page \in Nat
    BY <1>8, <1>10, <1>1 DEF sum
  <2>2. QED
    BY <1>1, <1>12, <2>1
<1>14. QED
  BY <1>8, <1>9, <1>11, <1>13

\* The rows of pages of the live allocations.
RowOf(r, g, f) ==
  /\ g \in Nat /\ f \in Nat /\ f >= 3 /\ g + f <= Pages
  /\ r.start = g * Page /\ r.full = f * Page
  /\ r.size \in Nat \ {0} /\ Header + r.size <= (f - 2) * Page

\* Where the parts of an allocation are.
LEMMA RowParts ==
  ASSUME NEW r, NEW g, NEW f, RowOf(r, g, f)
  PROVE  /\ PagesOf(r.start, r.full) = g .. g + f - 1
         /\ Inside(r) = g + 1 .. g + f - 2
         /\ PageOf(r.start) = g /\ PageOf(r.start + r.full - 1) = g + f - 1
         /\ User(r) = (g + 1) * Page + Header
         /\ User(r) + r.size <= r.start + r.full - Page
         /\ User(r) + r.size <= (g + f - 1) * Page
         /\ Wiped(r) = (g + 1) * Page .. (g + f - 1) * Page - 1
<1>1. /\ Page \in Nat /\ Page > 0 /\ Header \in Nat
      /\ g \in Nat /\ f \in Nat /\ f >= 3 /\ r.start = g * Page /\ r.full = f * Page
      /\ r.size \in Nat /\ Header + r.size <= (f - 2) * Page
  BY SecMemAssumption DEF RowOf
<1> DEFINE p == g * Page
           m == f * Page
<1>2. p \in Nat /\ m \in Nat
  BY <1>1
<1>3. /\ (g + 1) * Page = p + Page /\ (f - 2) * Page = m - 2 * Page
      /\ (g + f - 1) * Page = p + m - Page /\ (g + f) * Page = p + m
  BY <1>1
<1>4. m >= 2 * Page
  <2>1. (f - 2) * Page \in Nat
    BY <1>1
  <2>2. QED
    BY <1>1, <1>2, <1>3, <2>1
<1>5. PagesOf(r.start, r.full) = g .. g + f - 1
  BY <1>1, PagesOfRow
<1>6. Inside(r) = g + 1 .. g + f - 2
  <2>1. PagesOf((g + 1) * Page, (f - 2) * Page) = g + 1 .. (g + 1) + (f - 2) - 1
    <3>1. g + 1 \in Nat /\ f - 2 \in Nat
      BY <1>1
    <3>2. QED
      BY <3>1, PagesOfRow
  <2>2. (g + 1) + (f - 2) - 1 = g + f - 2
    BY <1>1
  <2>3. QED
    BY <1>1, <1>3, <2>1, <2>2 DEF Inside
<1>7. PageOf(r.start) = g
  <2>1. g <= PageOf(p) /\ ~(g + 1 <= PageOf(p)) /\ PageOf(p) \in Nat
    <3>1. g * Page <= p /\ ~((g + 1) * Page <= p) /\ g + 1 \in Nat
      BY <1>1, <1>2, <1>3
    <3>2. QED
      BY <1>1, <1>2, <3>1, PageFrom
  <2>2. QED
    BY <1>1, <2>1
<1>8. PageOf(r.start + r.full - 1) = g + f - 1
  <2> DEFINE a == p + m - 1
  <2>1. a \in Nat /\ (g + f - 1) * Page <= a /\ ~((g + f) * Page <= a)
    BY <1>1, <1>2, <1>3, <1>4
  <2>2. g + f - 1 \in Nat /\ g + f \in Nat
    BY <1>1
  <2> HIDE DEF a
  <2>3. g + f - 1 <= PageOf(a) /\ ~(g + f <= PageOf(a)) /\ PageOf(a) \in Nat
    BY <2>1, <2>2, PageFrom
  <2>4. PageOf(a) = g + f - 1
    BY <1>1, <2>3
  <2>5. QED
    BY <1>1, <2>4 DEF a
<1>9. User(r) = (g + 1) * Page + Header
  BY <1>1, <1>2, <1>3 DEF User
<1>10. User(r) + r.size <= r.start + r.full - Page /\ User(r) + r.size <= (g + f - 1) * Page
  BY <1>1, <1>2, <1>3, <1>9
<1>11. Wiped(r) = (g + 1) * Page .. (g + f - 1) * Page - 1
  <2>1. User(r) - Header = (g + 1) * Page /\ User(r) - Header + r.full - 2 * Page - 1 = (g + f - 1) * Page - 1
    BY <1>1, <1>2, <1>3, <1>9
  <2>2. QED
    BY <2>1 DEF Wiped
<1>12. QED
  BY <1>5, <1>6, <1>7, <1>8, <1>9, <1>10, <1>11

\* A byte is on the pages from k to before m exactly when it is between them.
LEMMA PageBetween ==
  ASSUME NEW a \in Nat, NEW k \in Nat, NEW m \in Nat
  PROVE  PageOf(a) \in k .. m - 1 <=> k * Page <= a /\ a <= m * Page - 1
<1>1. Page \in Nat
  BY SecMemAssumption
<1>2. /\ PageOf(a) \in Nat
      /\ k <= PageOf(a) <=> k * Page <= a
      /\ m <= PageOf(a) <=> m * Page <= a
  BY PageFrom
<1>3. k * Page \in Nat /\ m * Page \in Nat
  BY <1>1
<1>4. QED
  BY <1>2, <1>3

(***************************************************************************)
(* The inductive invariant.  Guarded is not enough: that no two rows meet  *)
(* is kept because every page in use belongs to a row, and that freeing    *)
(* leaves nothing behind because what is dirty is on an accessible page,   *)
(* of which util_secmem_free() wipes every byte.                           *)
(***************************************************************************)
SecInv ==
  /\ access \in [AllPages -> {"free", "rw", "none"}]
  /\ dirty \subseteq Nat
  /\ \A r \in regions : \E g, f \in Nat : RowOf(r, g, f)
  /\ \A r \in regions :
       /\ \A h \in PagesOf(r.start, r.full) : access[h] = IF h \in Inside(r) THEN "rw" ELSE "none"
       /\ Inside(r) \subseteq locked
  /\ \A r, q \in regions : r # q => PagesOf(r.start, r.full) \cap PagesOf(q.start, q.full) = {}
  /\ \A h \in AllPages : access[h] # "free" => \E r \in regions : h \in PagesOf(r.start, r.full)
  /\ \A a \in dirty : PageOf(a) \in AllPages /\ access[PageOf(a)] = "rw"

\* The invariant is what Guarded and FreedIsClean say and a little more.
LEMMA SecImplies == SecInv => Guarded /\ FreedIsClean
<1> SUFFICES ASSUME SecInv PROVE Guarded /\ FreedIsClean
  OBVIOUS
<1>0. Pages \in Nat
  BY SecMemAssumption
<1>1. ASSUME NEW r \in regions
      PROVE  /\ User(r) + r.size <= r.start + r.full - Page
             /\ \A h \in Inside(r) : access[h] = "rw" /\ h \in locked
             /\ access[PageOf(r.start)] = "none" /\ access[PageOf(r.start + r.full - 1)] = "none"
             /\ PageOf(r.start) + 1 \in Inside(r) /\ PageOf(r.start + r.full - 1) - 1 \in Inside(r)
             /\ PagesOf(r.start, r.full) \subseteq AllPages
  <2>1. PICK g \in Nat, f \in Nat : RowOf(r, g, f)
    BY DEF SecInv
  <2>2. /\ PagesOf(r.start, r.full) = g .. g + f - 1
        /\ Inside(r) = g + 1 .. g + f - 2
        /\ PageOf(r.start) = g /\ PageOf(r.start + r.full - 1) = g + f - 1
        /\ User(r) + r.size <= r.start + r.full - Page
    BY <2>1, RowParts
  <2>3. f >= 3 /\ g + f <= Pages
    BY <2>1 DEF RowOf
  <2>4. /\ g \in PagesOf(r.start, r.full) \ Inside(r)
        /\ g + f - 1 \in PagesOf(r.start, r.full) \ Inside(r)
        /\ g + 1 \in Inside(r) /\ (g + f - 1) - 1 \in Inside(r)
        /\ Inside(r) \subseteq PagesOf(r.start, r.full)
    BY <2>2, <2>3
  <2>5. PagesOf(r.start, r.full) \subseteq AllPages
    BY <1>0, <2>2, <2>3 DEF AllPages
  <2>6. /\ \A h \in PagesOf(r.start, r.full) : access[h] = IF h \in Inside(r) THEN "rw" ELSE "none"
        /\ Inside(r) \subseteq locked
    BY DEF SecInv
  <2>7. \A h \in Inside(r) : access[h] = "rw" /\ h \in locked
    BY <2>4, <2>6
  <2>8. access[g] = "none" /\ access[g + f - 1] = "none"
    BY <2>4, <2>6
  <2>9. QED
    BY <2>2, <2>4, <2>5, <2>7, <2>8
<1>2. {h \in AllPages : access[h] # "free"} = UNION {PagesOf(r.start, r.full) : r \in regions}
  <2>1. \A r \in regions : \A h \in PagesOf(r.start, r.full) : h \in AllPages /\ access[h] # "free"
    BY <1>1 DEF SecInv
  <2>2. QED
    BY <2>1 DEF SecInv
<1>3. Guarded
  BY <1>1, <1>2 DEF SecInv, Guarded
<1>4. FreedIsClean
  BY DEF SecInv, FreedIsClean
<1>5. QED
  BY <1>3, <1>4

LEMMA InitSecInv == SecMemInit => SecInv
BY DEF SecMemInit, SecInv

\* A new allocation takes pages nobody had.
LEMMA AllocSecInv ==
  ASSUME Fits, SecInv, Alloc
  PROVE  SecInv'
<1>1. PICK size \in Requests, g \in AllPages :
        LET full == FullSize(size)
            r    == [start |-> g * Page, full |-> full, size |-> size]
        IN /\ full > 0 /\ r.start + full <= Pages * Page
           /\ \A h \in PagesOf(r.start, full) : access[h] = "free"
           /\ access' = [h \in AllPages |->
                           IF h \in Inside(r) THEN "rw"
                           ELSE IF h \in PagesOf(r.start, full) THEN "none" ELSE access[h]]
           /\ locked' = locked \cup Inside(r)
           /\ dirty' = dirty \cup (User(r) - 2 .. User(r) - 1)
           /\ regions' = regions \cup {r}
  BY DEF Alloc
<1>2. PICK f \in Nat : FullSize(size) = f * Page /\ f >= 3 /\ Header + size <= (f - 2) * Page
  BY FullSizeRow
<1> DEFINE r == [start |-> g * Page, full |-> FullSize(size), size |-> size]
<1>3. /\ r.start = g * Page /\ r.full = f * Page /\ r.size = size
  BY <1>2
<1>4. /\ r.start + r.full <= Pages * Page
      /\ \A h \in PagesOf(r.start, r.full) : access[h] = "free"
      /\ access' = [h \in AllPages |->
                      IF h \in Inside(r) THEN "rw"
                      ELSE IF h \in PagesOf(r.start, r.full) THEN "none" ELSE access[h]]
      /\ locked' = locked \cup Inside(r)
      /\ dirty' = dirty \cup (User(r) - 2 .. User(r) - 1)
      /\ regions' = regions \cup {r}
  BY <1>1
<1> HIDE DEF r
<1>5. Page \in Nat /\ Page > 0 /\ Pages \in Nat /\ Header \in 2 .. Page /\ size \in Nat \ {0} /\ g \in Nat
  BY SecMemAssumption DEF AllPages
<1>6. g + f <= Pages
  <2> SUFFICES ASSUME Pages + 1 <= g + f PROVE FALSE
    BY <1>5
  <2>1. (Pages + 1) * Page <= (g + f) * Page
    BY <1>5, TimesMonotone
  <2>2. (Pages + 1) * Page = Pages * Page + Page /\ (g + f) * Page = g * Page + f * Page
        /\ Pages * Page \in Nat /\ g * Page \in Nat /\ f * Page \in Nat
    BY <1>5
  <2>3. QED
    BY <1>3, <1>4, <1>5, <2>1, <2>2
<1>7. RowOf(r, g, f)
  BY <1>2, <1>3, <1>5, <1>6 DEF RowOf
<1>8. /\ PagesOf(r.start, r.full) = g .. g + f - 1
      /\ Inside(r) = g + 1 .. g + f - 2
      /\ User(r) = (g + 1) * Page + Header
  BY <1>7, RowParts
<1>9. Inside(r) \subseteq PagesOf(r.start, r.full) /\ PagesOf(r.start, r.full) \subseteq AllPages
  BY <1>5, <1>6, <1>8 DEF AllPages
<1> DEFINE Row(q) == PagesOf(q.start, q.full)
<1>10. \A q \in regions : Row(q) \cap Row(r) = {} /\ Inside(q) \subseteq Row(q) /\ Row(q) \subseteq AllPages
  <2> SUFFICES ASSUME NEW q \in regions
               PROVE  Row(q) \cap Row(r) = {} /\ Inside(q) \subseteq Row(q) /\ Row(q) \subseteq AllPages
    OBVIOUS
  <2>1. PICK k \in Nat, m \in Nat : RowOf(q, k, m)
    BY DEF SecInv
  <2>2. Row(q) = k .. k + m - 1 /\ Inside(q) = k + 1 .. k + m - 2
    BY <2>1, RowParts
  <2>3. k + m <= Pages
    BY <2>1 DEF RowOf
  <2>4. Inside(q) \subseteq Row(q) /\ Row(q) \subseteq AllPages
    BY <1>5, <2>2, <2>3 DEF AllPages
  <2>5. \A h \in Row(q) : access[h] # "free"
    BY DEF SecInv
  <2>6. QED
    BY <1>4, <2>4, <2>5
<1>11. \A h \in AllPages : access'[h] = IF h \in Inside(r) THEN "rw"
                                        ELSE IF h \in Row(r) THEN "none" ELSE access[h]
  BY <1>4
<1>12. access' \in [AllPages -> {"free", "rw", "none"}]
  BY <1>4 DEF SecInv
<1>13. \A a \in User(r) - 2 .. User(r) - 1 : a \in Nat /\ PageOf(a) = g + 1
  <2> SUFFICES ASSUME NEW a \in User(r) - 2 .. User(r) - 1
               PROVE  a \in Nat /\ PageOf(a) = g + 1
    OBVIOUS
  <2>1. (g + 2) * Page = (g + 1) * Page + Page /\ (g + 1) * Page \in Nat
    BY <1>5
  <2>2. a \in Nat /\ (g + 1) * Page <= a /\ a <= (g + 2) * Page - 1
    BY <1>5, <1>8, <2>1
  <2>3. PageOf(a) \in g + 1 .. (g + 2) - 1
    <3>1. g + 1 \in Nat /\ g + 2 \in Nat
      BY <1>5
    <3>2. QED
      BY <2>2, <3>1, PageBetween
  <2>4. QED
    BY <1>5, <2>2, <2>3
<1>14. dirty' \subseteq Nat
  BY <1>4, <1>13 DEF SecInv
<1>15. \A q \in regions' : \E k, m \in Nat : RowOf(q, k, m)
  BY <1>4, <1>5, <1>7 DEF SecInv
<1>16. \A q \in regions' : /\ \A h \in Row(q) : access'[h] = IF h \in Inside(q) THEN "rw" ELSE "none"
                           /\ Inside(q) \subseteq locked'
  <2>1. /\ \A h \in Row(r) : access'[h] = IF h \in Inside(r) THEN "rw" ELSE "none"
        /\ Inside(r) \subseteq locked'
    BY <1>4, <1>9, <1>11
  <2>2. ASSUME NEW q \in regions
        PROVE  /\ \A h \in Row(q) : access'[h] = IF h \in Inside(q) THEN "rw" ELSE "none"
               /\ Inside(q) \subseteq locked'
    <3>1. \A h \in Row(q) : h \in AllPages /\ h \notin Row(r) /\ h \notin Inside(r)
      BY <1>9, <1>10
    <3>2. \A h \in Row(q) : access'[h] = access[h]
      BY <1>11, <3>1
    <3>3. QED
      BY <1>4, <3>2 DEF SecInv
  <2>3. QED
    BY <1>4, <2>1, <2>2
<1>17. \A p, q \in regions' : p # q => Row(p) \cap Row(q) = {}
  BY <1>4, <1>10 DEF SecInv
<1>18. \A h \in AllPages : access'[h] # "free" => \E q \in regions' : h \in Row(q)
  BY <1>4, <1>9, <1>11 DEF SecInv
<1>19. \A a \in dirty' : PageOf(a) \in AllPages /\ access'[PageOf(a)] = "rw"
  <2>1. ASSUME NEW a \in dirty
        PROVE  PageOf(a) \in AllPages /\ access'[PageOf(a)] = "rw"
    <3>1. PageOf(a) \in AllPages /\ access[PageOf(a)] = "rw"
      BY DEF SecInv
    <3>2. PageOf(a) \notin Row(r)
      BY <1>4, <3>1
    <3>3. QED
      BY <1>9, <1>11, <3>1, <3>2
  <2>2. g + 1 \in Inside(r) /\ g + 1 \in AllPages
    BY <1>2, <1>5, <1>8, <1>9
  <2>3. \A a \in User(r) - 2 .. User(r) - 1 : PageOf(a) \in AllPages /\ access'[PageOf(a)] = "rw"
    BY <1>11, <1>13, <2>2
  <2>4. QED
    BY <1>4, <2>1, <2>3
<1>20. QED
  BY <1>12, <1>14, <1>15, <1>16, <1>17, <1>18, <1>19
     DEF SecInv, AllPages, PagesOf, PageOf, Inside, RowOf, User

\* The caller's bytes are on the accessible pages between the guards.
LEMMA FillSecInv ==
  ASSUME SecInv, Fill
  PROVE  SecInv'
<1>1. PICK r \in regions : dirty' = dirty \cup (User(r) .. User(r) + r.size - 1)
  BY DEF Fill
<1>2. UNCHANGED <<access, locked, regions>>
  BY DEF Fill
<1>3. PICK g \in Nat, f \in Nat : RowOf(r, g, f)
  BY DEF SecInv
<1>4. /\ Page \in Nat /\ Header \in Nat /\ Pages \in Nat /\ f >= 3 /\ g + f <= Pages /\ r.size \in Nat
  BY <1>3, SecMemAssumption DEF RowOf
<1>5. /\ PagesOf(r.start, r.full) = g .. g + f - 1
      /\ Inside(r) = g + 1 .. g + f - 2
      /\ User(r) = (g + 1) * Page + Header
      /\ User(r) + r.size <= (g + f - 1) * Page
  BY <1>3, RowParts
<1>6. ASSUME NEW a \in User(r) .. User(r) + r.size - 1
      PROVE  a \in Nat /\ PageOf(a) \in Inside(r)
  <2>1. g + 1 \in Nat /\ g + f - 1 \in Nat /\ (g + 1) * Page \in Nat /\ (g + f - 1) * Page \in Nat
    BY <1>4
  <2>2. a \in Nat /\ (g + 1) * Page <= a /\ a <= (g + f - 1) * Page - 1
    BY <1>4, <1>5, <2>1
  <2>3. PageOf(a) \in g + 1 .. (g + f - 1) - 1
    BY <2>1, <2>2, PageBetween
  <2>4. (g + f - 1) - 1 = g + f - 2
    BY <1>4
  <2>5. QED
    BY <1>5, <2>2, <2>3, <2>4
<1>7. \A h \in Inside(r) : h \in AllPages /\ access[h] = "rw"
  <2>1. Inside(r) \subseteq PagesOf(r.start, r.full) /\ Inside(r) \subseteq AllPages
    BY <1>4, <1>5 DEF AllPages
  <2>2. QED
    BY <2>1 DEF SecInv
<1>8. dirty' \subseteq Nat /\ \A a \in dirty' : PageOf(a) \in AllPages /\ access[PageOf(a)] = "rw"
  BY <1>1, <1>6, <1>7 DEF SecInv
<1>9. QED
  BY <1>2, <1>8 DEF SecInv, AllPages, PagesOf, PageOf, Inside, RowOf

\* What is unmapped was wiped, and was nobody else's.
LEMMA FreeSecInv ==
  ASSUME SecInv, Free
  PROVE  SecInv'
<1> DEFINE Row(q) == PagesOf(q.start, q.full)
<1>1. PICK r \in regions :
        /\ dirty' = dirty \ Wiped(r)
        /\ access' = [h \in AllPages |-> IF h \in Row(r) THEN "free" ELSE access[h]]
        /\ locked' = locked \ Row(r)
        /\ regions' = regions \ {r}
  BY DEF Free
<1>2. PICK g \in Nat, f \in Nat : RowOf(r, g, f)
  BY DEF SecInv
<1>3. /\ Page \in Nat /\ Pages \in Nat /\ f >= 3 /\ g + f <= Pages
  BY <1>2, SecMemAssumption DEF RowOf
<1>4. /\ Row(r) = g .. g + f - 1
      /\ Inside(r) = g + 1 .. g + f - 2
      /\ Wiped(r) = (g + 1) * Page .. (g + f - 1) * Page - 1
  BY <1>2, RowParts
<1>5. \A q \in regions \ {r} : Row(q) \cap Row(r) = {} /\ Inside(q) \subseteq Row(q) /\ Row(q) \subseteq AllPages
  <2> SUFFICES ASSUME NEW q \in regions \ {r}
               PROVE  Row(q) \cap Row(r) = {} /\ Inside(q) \subseteq Row(q) /\ Row(q) \subseteq AllPages
    OBVIOUS
  <2>1. PICK k \in Nat, m \in Nat : RowOf(q, k, m)
    BY DEF SecInv
  <2>2. Row(q) = k .. k + m - 1 /\ Inside(q) = k + 1 .. k + m - 2
    BY <2>1, RowParts
  <2>3. k + m <= Pages
    BY <2>1 DEF RowOf
  <2>4. Inside(q) \subseteq Row(q) /\ Row(q) \subseteq AllPages
    BY <1>3, <2>2, <2>3 DEF AllPages
  <2>5. QED
    BY <2>4 DEF SecInv
<1>6. access' \in [AllPages -> {"free", "rw", "none"}]
  BY <1>1 DEF SecInv
<1>7. \A q \in regions' : /\ \A h \in Row(q) : access'[h] = IF h \in Inside(q) THEN "rw" ELSE "none"
                          /\ Inside(q) \subseteq locked'
  <2> SUFFICES ASSUME NEW q \in regions \ {r}
               PROVE  /\ \A h \in Row(q) : access'[h] = IF h \in Inside(q) THEN "rw" ELSE "none"
                      /\ Inside(q) \subseteq locked'
    BY <1>1
  <2>1. \A h \in Row(q) : h \in AllPages /\ h \notin Row(r)
    BY <1>5
  <2>2. \A h \in Row(q) : access'[h] = access[h]
    BY <1>1, <2>1
  <2>3. Inside(q) \subseteq locked'
    BY <1>1, <1>5, <2>1 DEF SecInv
  <2>4. QED
    BY <2>2, <2>3 DEF SecInv
<1>8. \A h \in AllPages : access'[h] # "free" => \E q \in regions' : h \in Row(q)
  BY <1>1 DEF SecInv
<1>9. \A a \in dirty' : PageOf(a) \in AllPages /\ access'[PageOf(a)] = "rw"
  <2> SUFFICES ASSUME NEW a \in dirty, a \notin Wiped(r)
               PROVE  PageOf(a) \in AllPages /\ access'[PageOf(a)] = "rw"
    BY <1>1
  <2>1. a \in Nat /\ PageOf(a) \in AllPages /\ access[PageOf(a)] = "rw"
    BY DEF SecInv
  <2>2. PageOf(a) \notin Inside(r)
    <3>1. g + 1 \in Nat /\ g + f - 1 \in Nat /\ (g + f - 1) - 1 = g + f - 2
      BY <1>3
    <3>2. ~((g + 1) * Page <= a /\ a <= (g + f - 1) * Page - 1)
      <4>1. (g + 1) * Page \in Nat /\ (g + f - 1) * Page \in Nat
        BY <1>3, <3>1
      <4>2. QED
        BY <1>4, <2>1, <4>1
    <3>3. PageOf(a) \notin g + 1 .. (g + f - 1) - 1
      BY <2>1, <3>1, <3>2, PageBetween
    <3>4. QED
      BY <1>4, <3>1, <3>3
  <2>3. PageOf(a) \notin Row(r)
    BY <2>1, <2>2 DEF SecInv
  <2>4. QED
    BY <1>1, <2>1, <2>3
<1>10. QED
  BY <1>1, <1>6, <1>7, <1>8, <1>9 DEF SecInv, AllPages, PagesOf, PageOf, Inside, RowOf

LEMMA NextSecInv == Fits /\ SecInv /\ [SecMemNext]_secmemVars => SecInv'
<1> SUFFICES ASSUME Fits, SecInv, [SecMemNext]_secmemVars PROVE SecInv'
  OBVIOUS
<1>1. CASE Alloc
  BY <1>1, AllocSecInv
<1>2. CASE Fill
  BY <1>2, FillSecInv
<1>3. CASE Free
  BY <1>3, FreeSecInv
<1>4. CASE AllocFails \/ Reallocarray \/ Malloc \/ Realloc \/ UNCHANGED secmemVars
  <2>1. UNCHANGED <<access, locked, regions, dirty>>
    BY <1>4 DEF AllocFails, Reallocarray, Malloc, Realloc, secmemVars
  <2>2. QED
    BY <2>1 DEF SecInv, AllPages, PagesOf, PageOf, Inside, RowOf
<1>5. QED
  BY <1>1, <1>2, <1>3, <1>4 DEF SecMemNext

\* Where each page belongs and what may be dirty, for every order of calls.
LEMMA SpecSecInv ==
  ASSUME Fits
  PROVE  SecMemSpec => []SecInv
<1>1. SecMemInit => SecInv
  BY InitSecInv
<1>2. SecInv /\ [SecMemNext]_secmemVars => SecInv'
  BY NextSecInv
<1>3. QED
  BY <1>1, <1>2, PTL DEF SecMemSpec

\* Every allocation of util_secmem_alloc() lies on pages of its own between two
\* guard pages, for any page size and header, as long as no request comes within
\* three pages of the largest size_t.
THEOREM SpecGuarded ==
  ASSUME Fits
  PROVE  SecMemSpec => []Guarded
<1>1. SecInv => Guarded
  BY SecImplies
<1>2. QED
  BY <1>1, SpecSecInv, PTL

\* What util_secmem_free() gives back holds nothing of what was written.
THEOREM SpecFreedIsClean ==
  ASSUME Fits
  PROVE  SecMemSpec => []FreedIsClean
<1>1. SecInv => FreedIsClean
  BY SecImplies
<1>2. QED
  BY <1>1, SpecSecInv, PTL

\* The test that precedes count * size lets only products through that fit.
LEMMA ProductFits ==
  ASSUME NEW count \in Counts, NEW size \in Counts, ~TooLarge(count, size)
  PROVE  count * size \in Nat /\ (count * size) % SizeValues = count * size
<1>1. /\ MaxNum \in Nat /\ MaxNum > 0 /\ SizeValues = MaxNum * MaxNum /\ SizeValues \in Nat
      /\ count \in Nat /\ size \in Nat /\ SizeValues > 0
  <2>1. /\ MaxNum \in Nat \ {0} /\ SizeValues = MaxNum * MaxNum
        /\ count \in 0 .. SizeValues - 1 /\ size \in 0 .. SizeValues - 1
    BY SecMemAssumption
  <2>2. SizeValues \in Nat
    BY <2>1
  <2>3. QED
    BY <2>1, <2>2
<1>2. count * size \in Nat
  BY <1>1
<1>3. count * size < SizeValues
  <2>1. CASE count < MaxNum /\ size < MaxNum
    <3> DEFINE m == MaxNum - 1
    <3>1. m \in Nat /\ MaxNum = m + 1 /\ count <= m /\ size <= m
      BY <1>1, <2>1
    <3> HIDE DEF m
    <3>2. count * size <= m * size /\ size * m <= m * m /\ m * size = size * m /\ size * m \in Nat
          /\ m * m \in Nat
      BY <1>1, <3>1, TimesMonotone
    <3>3. (m + 1) * (m + 1) = m * m + m + m + 1
      BY <3>1
    <3>4. QED
      BY <1>1, <1>2, <3>1, <3>2, <3>3
  <2>2. CASE size = 0
    BY <1>1, <2>2
  <2>3. CASE size # 0 /\ ~(count >= (SizeValues - 1) \div size)
    <3> DEFINE n == SizeValues - 1
    <3>1. n \in Nat /\ size > 0
      BY <1>1, <2>3
    <3> HIDE DEF n
    <3>2. n \div size \in Nat /\ n % size \in 0 .. size - 1 /\ n = size * (n \div size) + (n % size)
      BY <1>1, <3>1
    <3> DEFINE q == n \div size
    <3>3. q \in Nat /\ size * q <= n /\ size * q \in Nat
      BY <1>1, <3>2
    <3>4. count <= q
      BY <1>1, <2>3, <3>2 DEF n
    <3> HIDE DEF q
    <3>5. count * size <= q * size /\ q * size = size * q
      BY <1>1, <3>3, <3>4, TimesMonotone
    <3>6. count * size <= n
      BY <1>2, <3>1, <3>3, <3>5
    <3>7. QED
      BY <1>1, <1>2, <3>6 DEF n
  <2>4. QED
    BY <1>1, <2>1, <2>2, <2>3 DEF TooLarge
<1>4. QED
  BY <1>1, <1>2, <1>3, SmallRemainder

\* REALLOCARRAY() and CALLOC() never ask the heap for fewer bytes than count
\* times size, for every width of a size_t and all numbers they are called with.
THEOREM SpecNoWrap == SecMemSpec => []NoWrap
<1>1. SecMemInit => NoWrap
  BY DEF SecMemInit, NoWrap
<1>2. NoWrap /\ [SecMemNext]_secmemVars => NoWrap'
  <2> SUFFICES ASSUME NoWrap, [SecMemNext]_secmemVars PROVE NoWrap'
    OBVIOUS
  <2>1. CASE Reallocarray
    <3>1. PICK count, size \in Counts : /\ ~TooLarge(count, size)
                                        /\ asked' = (count * size) % SizeValues
                                        /\ wanted' = <<count, size>>
      BY <2>1 DEF Reallocarray
    <3>2. asked' = count * size
      BY <3>1, ProductFits
    <3>3. wanted'[1] = count /\ wanted'[2] = size
      BY <3>1
    <3>4. QED
      BY <3>2, <3>3 DEF NoWrap
  <2>2. CASE Malloc \/ Realloc
    <3>1. PICK n \in Nat : asked' = n /\ wanted' = <<1, n>>
      <4>1. Counts \subseteq Nat
        BY SecMemAssumption
      <4>2. QED
        BY <2>2, <4>1 DEF Malloc, Realloc
    <3>2. wanted'[1] = 1 /\ wanted'[2] = n /\ 1 * n = n
      BY <3>1
    <3>3. QED
      BY <3>1, <3>2 DEF NoWrap
  <2>3. CASE Alloc \/ AllocFails \/ Fill \/ Free \/ UNCHANGED secmemVars
    <3>1. UNCHANGED <<asked, wanted>>
      BY <2>3 DEF Alloc, AllocFails, Fill, Free, secmemVars
    <3>2. QED
      BY <3>1 DEF NoWrap
  <2>4. QED
    BY <2>1, <2>2, <2>3 DEF SecMemNext
<1>3. QED
  BY <1>1, <1>2, PTL DEF SecMemSpec

(***************************************************************************)
(* Calendar.  util_mktime64() counts one day more for the day that follows, *)
(* from 1 January of any year of our era on, over as many years as one     *)
(* likes.                                                                  *)
(***************************************************************************)
\* Days before 1 March of the year y, from 1 March of the year 0.
EraDays(y) == (y \div 4) - (y \div 100) + (y \div 400) + y * 365

LeapYear(y) == y % 4 = 0 /\ (y % 100 # 0 \/ y % 400 = 0)

\* One more multiple of k, or none.
LEMMA LeapDays ==
  ASSUME NEW y \in Nat, y > 0
  PROVE  /\ EraDays(y) \in Int /\ EraDays(y - 1) \in Int
         /\ EraDays(y) = EraDays(y - 1) + IF LeapYear(y) THEN 366 ELSE 365
<1>1. y \div 4 = ((y - 1) \div 4) + IF y % 4 = 0 THEN 1 ELSE 0
  OBVIOUS
<1>2. y \div 100 = ((y - 1) \div 100) + IF y % 100 = 0 THEN 1 ELSE 0
  OBVIOUS
<1>3. y \div 400 = ((y - 1) \div 400) + IF y % 400 = 0 THEN 1 ELSE 0
  OBVIOUS
<1>4. /\ y % 400 = 0 => y % 100 = 0
      /\ y % 100 = 0 => y % 4 = 0
  OBVIOUS
<1>5. /\ (y - 1) \div 4 \in Int /\ (y - 1) \div 100 \in Int /\ (y - 1) \div 400 \in Int
      /\ y \div 4 \in Int /\ y \div 100 \in Int /\ y \div 400 \in Int
  OBVIOUS
<1>6. EraDays(y) \in Int /\ EraDays(y - 1) \in Int
  BY <1>5 DEF EraDays
<1>7. CASE LeapYear(y)
  <2>1. y % 4 = 0 /\ (y % 100 = 0 <=> y % 400 = 0)
    BY <1>4, <1>7 DEF LeapYear
  <2>2. QED
    BY <1>1, <1>2, <1>3, <1>5, <1>6, <1>7, <2>1 DEF EraDays
<1>8. CASE ~LeapYear(y)
  <2>1. y % 4 # 0 => y % 100 # 0 /\ y % 400 # 0
    BY <1>4
  <2>2. y % 4 = 0 => y % 100 = 0 /\ y % 400 # 0
    BY <1>8 DEF LeapYear
  <2>3. QED
    BY <1>1, <1>2, <1>3, <1>5, <1>6, <1>8, <2>1, <2>2 DEF EraDays
<1>9. QED
  BY <1>6, <1>7, <1>8

\* 1 January 1970, from the same day on.
Epoch == 719499

\* util_mktime64(), its twelve months written out.
MonthDays(m) ==
  CASE m = 1 -> 336 [] m = 2 -> 367 [] m = 3 -> 30 [] m = 4 -> 61 [] m = 5 -> 91 [] m = 6 -> 122
    [] m = 7 -> 152 [] m = 8 -> 183 [] m = 9 -> 214 [] m = 10 -> 244 [] m = 11 -> 275 [] OTHER -> 305

LEMMA MktimeByMonth ==
  ASSUME NEW y \in Nat, y > 0, NEW m \in 1 .. 12, NEW d \in Nat
  PROVE  Mktime64(y, m, d) = EraDays(IF m <= 2 THEN y - 1 ELSE y) + MonthDays(m) + d - Epoch
<1> DEFINE mm == IF m - 2 <= 0 THEN m + 10 ELSE m - 2
           yy == IF m - 2 <= 0 THEN y - 1 ELSE y
<1>1. mm \in 1 .. 12 /\ yy \in Nat
  OBVIOUS
<1>2. /\ Quot(yy, 4) = yy \div 4 /\ Quot(yy, 100) = yy \div 100 /\ Quot(yy, 400) = yy \div 400
      /\ Quot(367 * mm, 12) = (367 * mm) \div 12
  BY <1>1 DEF Quot
<1>3. (367 * mm) \div 12 = MonthDays(m)
  BY DEF MonthDays
<1>4. Mktime64(y, m, d)
        = Quot(yy, 4) - Quot(yy, 100) + Quot(yy, 400) + Quot(367 * mm, 12) + d + yy * 365 - Epoch
  BY SMTT(30) DEF Mktime64, Epoch
<1>5. yy = IF m <= 2 THEN y - 1 ELSE y
  OBVIOUS
<1>6. Epoch \in Nat
  BY SMTT(30) DEF Epoch
<1>7. yy \div 4 \in Int /\ yy \div 100 \in Int /\ yy \div 400 \in Int /\ MonthDays(m) \in Int
  BY <1>1 DEF MonthDays
<1>8. QED
  <2> HIDE DEF mm, yy
  <2>1. EraDays(yy) = (yy \div 4) - (yy \div 100) + (yy \div 400) + yy * 365
    BY DEF EraDays
  <2>2. QED
    BY <1>1, <1>2, <1>3, <1>4, <1>5, <1>6, <1>7, <2>1

\* A date there is: what NextDay turns never leaves the calendar.
DateInv ==
  /\ year \in Nat \ {0} /\ mon \in 1 .. 12
  /\ day \in 1 .. Length

LEMMA LengthKnown ==
  ASSUME year \in Nat \ {0}, mon \in 1 .. 12
  PROVE  /\ Length \in 28 .. 31
         /\ Length = IF mon = 2 THEN IF LeapYear(year) THEN 29 ELSE 28
                     ELSE IF mon \in {4, 6, 9, 11} THEN 30 ELSE 31
         /\ Length = IF mon = 2 THEN MonthDays(3) + (IF LeapYear(year) THEN 366 ELSE 365) - MonthDays(2)
                     ELSE IF mon = 12 THEN MonthDays(1) - MonthDays(12)
                     ELSE MonthDays(mon + 1) - MonthDays(mon)
<1>1. Leap <=> LeapYear(year)
  BY DEF Leap, LeapYear
<1>2. Length = IF mon = 2 THEN IF LeapYear(year) THEN 29 ELSE 28
               ELSE IF mon \in {4, 6, 9, 11} THEN 30 ELSE 31
  BY <1>1 DEF Length
<1>3. /\ MonthDays(1) = 336 /\ MonthDays(2) = 367 /\ MonthDays(3) = 30 /\ MonthDays(4) = 61
      /\ MonthDays(5) = 91 /\ MonthDays(6) = 122 /\ MonthDays(7) = 152 /\ MonthDays(8) = 183
      /\ MonthDays(9) = 214 /\ MonthDays(10) = 244 /\ MonthDays(11) = 275 /\ MonthDays(12) = 305
  BY DEF MonthDays
<1>4. \/ mon = 1 \/ mon = 2 \/ mon = 3 \/ mon = 4 \/ mon = 5 \/ mon = 6
      \/ mon = 7 \/ mon = 8 \/ mon = 9 \/ mon = 10 \/ mon = 11 \/ mon = 12
  OBVIOUS
<1>5. QED
  BY <1>2, <1>3, <1>4

LEMMA DayTurns ==
  ASSUME DateInv, NextDay
  PROVE  /\ DateInv'
         /\ Mktime64(year', mon', day') = Mktime64(year, mon, day) + 1
<1>1. year \in Nat \ {0} /\ mon \in 1 .. 12 /\ day \in 1 .. Length /\ Length \in 28 .. 31
  BY LengthKnown DEF DateInv
<1>0. Epoch \in Nat
  BY SMTT(30) DEF Epoch
<1>2. Mktime64(year, mon, day)
        = EraDays(IF mon <= 2 THEN year - 1 ELSE year) + MonthDays(mon) + day - Epoch
  BY <1>1, MktimeByMonth
<1>3. /\ EraDays(year) \in Int /\ EraDays(year - 1) \in Int
      /\ EraDays(year) = EraDays(year - 1) + IF LeapYear(year) THEN 366 ELSE 365
  BY <1>1, LeapDays
<1>4. CASE day # Length
  <2>1. year' = year /\ mon' = mon /\ day' = day + 1
    BY <1>4 DEF NextDay
  <2>2. Length' = Length
    BY <2>1 DEF Length, Leap
  <2>3. Mktime64(year', mon', day')
          = EraDays(IF mon <= 2 THEN year - 1 ELSE year) + MonthDays(mon) + (day + 1) - Epoch
    <3>1. year \in Nat /\ year > 0 /\ mon \in 1 .. 12 /\ day + 1 \in Nat
      BY <1>1
    <3>2. Mktime64(year, mon, day + 1)
            = EraDays(IF mon <= 2 THEN year - 1 ELSE year) + MonthDays(mon) + (day + 1) - Epoch
      BY <3>1, MktimeByMonth
    <3>3. QED
      BY <2>1, <3>2
  <2>4. MonthDays(mon) \in Int
    BY <1>1 DEF MonthDays
  <2>5. QED
    BY <1>0, <1>1, <1>2, <1>3, <1>4, <2>1, <2>2, <2>3, <2>4 DEF DateInv
<1>5. CASE day = Length /\ mon # 12
  <2>1. year' = year /\ mon' = mon + 1 /\ day' = 1
    BY <1>5 DEF NextDay
  <2>2. DateInv'
    <3>1. mon' \in 1 .. 12 /\ year' \in Nat \ {0}
      BY <1>1, <1>5, <2>1
    <3>2. Length' \in 28 .. 31
      BY <3>1 DEF Length, Leap
    <3>3. QED
      BY <2>1, <3>1, <3>2 DEF DateInv
  <2>3. Mktime64(year', mon', day')
          = EraDays(IF mon + 1 <= 2 THEN year - 1 ELSE year) + MonthDays(mon + 1) + 1 - Epoch
    BY <1>1, <1>5, <2>1, MktimeByMonth
  <2>4. MonthDays(mon) \in Int /\ MonthDays(mon + 1) \in Int
    BY <1>1, <1>5 DEF MonthDays
  <2>5. CASE mon = 2
    <3>1. Length = MonthDays(3) + (IF LeapYear(year) THEN 366 ELSE 365) - MonthDays(2)
      BY <1>1, <2>5, LengthKnown
    <3>2. MonthDays(2) \in Int /\ MonthDays(3) \in Int
      BY DEF MonthDays
    <3>3. QED
      BY <1>0, <1>1, <1>2, <1>3, <1>5, <2>2, <2>3, <2>5, <3>1, <3>2
  <2>6. CASE mon # 2
    <3>1. Length = MonthDays(mon + 1) - MonthDays(mon)
      BY <1>1, <1>5, <2>6, LengthKnown
    <3>2. mon + 1 <= 2 <=> mon <= 2
      BY <1>1, <2>6
    <3>3. QED
      BY <1>0, <1>1, <1>2, <1>3, <1>5, <2>2, <2>3, <2>4, <3>1, <3>2
  <2>7. QED
    BY <2>5, <2>6
<1>6. CASE day = Length /\ mon = 12
  <2>1. year' = year + 1 /\ mon' = 1 /\ day' = 1
    BY <1>6 DEF NextDay
  <2>2. DateInv'
    <3>1. Length' = 31
      BY <2>1 DEF Length
    <3>2. QED
      BY <1>1, <2>1, <3>1 DEF DateInv
  <2>3. Mktime64(year', mon', day') = EraDays(year + 1 - 1) + MonthDays(1) + 1 - Epoch
    BY <1>1, <2>1, MktimeByMonth
  <2>4. year + 1 - 1 = year
    BY <1>1
  <2>5. Length = MonthDays(1) - MonthDays(12) /\ MonthDays(1) \in Int /\ MonthDays(12) \in Int
    BY <1>1, <1>6, LengthKnown DEF MonthDays
  <2>6. QED
    BY <1>0, <1>1, <1>2, <1>3, <1>6, <2>2, <2>3, <2>4, <2>5
<1>7. QED
  BY <1>4, <1>5, <1>6

\* DaysFollow, for every number of years and every first year of our era: each
\* day counts one more than the day before, over leap days, century years and the
\* turn of the year, and 1 January 1970 is 0 (util_mktime64()).
THEOREM SpecDaysFollow == CalendarSpec => DaysFollow
<1>1. CalendarInit => DateInv
  <2> SUFFICES ASSUME CalendarInit PROVE DateInv
    OBVIOUS
  <2>1. year \in Nat \ {0} /\ mon = 1 /\ day = 1
    BY CalendarAssumption DEF CalendarInit
  <2>2. QED
    BY <2>1 DEF DateInv, Length
<1>2. DateInv /\ [NextDay]_calendarVars => DateInv'
  <2> SUFFICES ASSUME DateInv, [NextDay]_calendarVars PROVE DateInv'
    OBVIOUS
  <2>1. CASE NextDay
    BY <2>1, DayTurns
  <2>2. CASE UNCHANGED calendarVars
    BY <2>2 DEF DateInv, calendarVars, Length, Leap
  <2>3. QED
    BY <2>1, <2>2
<1>3. Mktime64(1970, 1, 1) = 0
  BY SMTT(30) DEF Mktime64, Quot
<1>4. DateInv /\ [NextDay]_calendarVars
        => [/\ Mktime64(year', mon', day') = Mktime64(year, mon, day) + 1
            /\ Mktime64(1970, 1, 1) = 0]_calendarVars
  BY <1>3, DayTurns
<1>5. QED
  BY <1>1, <1>2, <1>4, PTL DEF CalendarSpec, DaysFollow

-----------------------------------------------------------------------------
(* Random numbers *)

\* Place and block of a byte.
LEMMA InBlock ==
  ASSUME NEW B \in Nat, B > 0, NEW k \in Nat, NEW x \in 0 .. B - 1
  PROVE  (k * B + x) % B = x /\ (k * B + x) \div B = k
<1> DEFINE d == (k * B + x) \div B
           r == (k * B + x) % B
<1>0. k * B \in Nat /\ k * B + x \in Nat
  OBVIOUS
<1>1. d \in Nat /\ r \in 0 .. B - 1 /\ k * B + x = B * d + r
  BY <1>0
<1>2. r = x
  BY RestOfSum
<1> HIDE DEF d, r
<1>3. CASE d >= k + 1
  <2>1. B * d >= B * (k + 1)
    BY <1>1, <1>3
  <2>2. B * (k + 1) = k * B + B
    OBVIOUS
  <2>3. QED
    BY <1>0, <1>1, <2>1, <2>2
<1>4. CASE d <= k - 1
  <2>1. B * d <= B * (k - 1)
    BY <1>1, <1>4
  <2>2. B * (k - 1) = k * B - B
    OBVIOUS
  <2>3. QED
    BY <1>0, <1>1, <2>1, <2>2
<1>5. CASE d = k
  BY <1>2, <1>5 DEF d, r
<1>6. QED
  BY <1>1, <1>3, <1>4, <1>5

LEMMA Divided ==
  ASSUME NEW B \in Nat, B > 0, NEW q \in Nat
  PROVE  q \div B \in Nat /\ q % B \in 0 .. B - 1 /\ q = (q \div B) * B + (q % B)
OBVIOUS

LEMMA DivBelow ==
  ASSUME NEW B \in Nat, B > 0, NEW m \in Nat, NEW q \in Nat, q < B * m
  PROVE  q \div B < m
<1> DEFINE d == q \div B
<1>1. d \in Nat /\ d * B <= q
  BY Divided
<1> HIDE DEF d
<1>2. SUFFICES ASSUME d >= m PROVE FALSE
  BY <1>1 DEF d
<1>3. d * B >= m * B
  BY <1>1, <1>2
<1>4. B * m = m * B
  OBVIOUS
<1>5. QED
  BY <1>1, <1>3, <1>4

\* A number is known by what is left of it and by what is above.
LEMMA SameNumber ==
  ASSUME NEW B \in Nat, B > 0, NEW p \in Nat, NEW q \in Nat, p % B = q % B, p \div B = q \div B
  PROVE  p = q
BY Divided

\* A word of a counter and the words above it.
LEMMA NextCount ==
  ASSUME NEW B \in Nat, B > 0, NEW q \in Nat
  PROVE  /\ (q + 1) % B = ((q % B) + 1) % B
         /\ (q + 1) \div B = IF ((q % B) + 1) % B = 0 THEN (q \div B) + 1 ELSE q \div B
<1> DEFINE d == q \div B
           r == q % B
<1>1. d \in Nat /\ r \in 0 .. B - 1 /\ q = d * B + r
  BY Divided
<1> HIDE DEF d, r
<1>2. CASE r + 1 < B
  <2>1. r + 1 \in 0 .. B - 1 /\ q + 1 = d * B + (r + 1) /\ r + 1 = 0 * B + (r + 1)
    BY <1>1, <1>2
  <2>2. (q + 1) % B = r + 1 /\ (q + 1) \div B = d
    BY <1>1, <2>1, InBlock
  <2>3. (r + 1) % B = r + 1
    BY <2>1, InBlock
  <2>4. QED
    BY <1>1, <2>2, <2>3 DEF d, r
<1>3. CASE r + 1 = B
  <2>1. q + 1 = (d + 1) * B + 0 /\ r + 1 = 1 * B + 0
    BY <1>1, <1>3
  <2>2. (q + 1) % B = 0 /\ (q + 1) \div B = d + 1
    BY <1>1, <2>1, InBlock
  <2>3. (r + 1) % B = 0
    BY <2>1, InBlock
  <2>4. QED
    BY <2>2, <2>3 DEF d, r
<1>4. QED
  BY <1>1, <1>2, <1>3

(* The invariant *)

Generators ==
  [key : SUBSET {s.id : s \in Seeds}, n12 : 0 .. Word - 1, n13 : 0 .. Word - 1, n14 : 0 .. Word - 1]

\* The block in use, and the block of the byte handed out as the i-th.
Present    == Len(handed) \div RandBlock
BlockOf(i) == (i - 1) \div RandBlock

\* What the 64 bits of counter are in block q, and what has been carried out of them.
CountsAs(g, q) == g.n12 = q % Word /\ g.n13 = (q \div Word) % Word
Carried(q)   == (q \div Word) \div Word

\* The counter follows the bytes handed out, each byte is of the block it should
\* be of, and while nothing was stirred in the nonce has the rest of the count.
RandTypes ==
  /\ used \in 0 .. RandBlock - 1 /\ Len(handed) = Present * RandBlock + used
  /\ handed \in Seq(Generators \X (0 .. RandBlock - 1))
  /\ owed \in Nat /\ Len(handed) + owed <= MaxBytes
  /\ stirs \in Nat /\ (bound = 0 \/ bound \in 2 .. Values - 1)

Counting(made) ==
  /\ generator \in Generators /\ CountsAs(generator, Present)
  /\ made \in Generators /\ CountsAs(made, Present) /\ block = RandomBlock(made)
  /\ \A i \in DOMAIN handed :
       /\ handed[i][2] = (i - 1) % RandBlock
       /\ CountsAs(handed[i][1], BlockOf(i))
       /\ BlockOf(i) = Present => handed[i][1] = made
  /\ \A i, j \in DOMAIN handed : BlockOf(i) = BlockOf(j) => handed[i][1] = handed[j][1]

CountingOn(made, n0) ==
  stirs = 0 => /\ generator = made /\ made.n14 = (n0 + Carried(Present)) % Word
               /\ \A i \in DOMAIN handed : handed[i][1].n14 = (n0 + Carried(BlockOf(i))) % Word

RandInv ==
  /\ RandTypes
  /\ \E made \in Generators, n0 \in 0 .. Word - 1 : Counting(made) /\ CountingOn(made, n0)

LEMMA RandConstants ==
  /\ RandBlock \in Nat /\ RandBlock > 0 /\ Word \in Nat /\ Word > 0 /\ Values \in Nat
  /\ \A s \in Seeds : s.nonce \in 0 .. Word - 1
  /\ \A a, b \in 0 .. Word - 1 : XorWords(a, b) \in 0 .. Word - 1
  /\ \A n \in Sizes : n \in Nat /\ n > 0
  /\ MaxBytes \in Nat
BY RandAssumption

LEMMA NothingCarried ==
  Carried(0) = 0 /\ \A n \in 0 .. Word - 1 : (n + 0) % Word = n
<1>1. Word \in Nat /\ Word > 0
  BY RandConstants
<1>2. 0 \div Word = 0
  BY <1>1
<1>3. ASSUME NEW n \in 0 .. Word - 1 PROVE (n + 0) % Word = n
  BY <1>1
<1>4. QED
  BY <1>2, <1>3 DEF Carried

LEMMA SeededCounts ==
  ASSUME NEW s \in Seeds
  PROVE  Seeded(s) \in Generators /\ CountsAs(Seeded(s), 0) /\ Seeded(s).n14 = s.nonce
<1>1. 0 % Word = 0 /\ 0 \div Word = 0 /\ 0 \in 0 .. Word - 1
  BY RandConstants
<1>2. s.nonce \in 0 .. Word - 1
  BY RandConstants
<1>3. QED
  BY <1>1, <1>2 DEF Seeded, Generators, CountsAs

\* A seeding, the first or a later one.
LEMMA SeedingCounts ==
  ASSUME NEW s \in Seeds, generator = Seeded(s), block = RandomBlock(Seeded(s)),
         used = 0, handed = <<>>, owed = 0, stirs = 0, bound = 0
  PROVE  RandInv
<1>1. Present = 0 /\ Len(handed) = 0 /\ DOMAIN handed = {}
  BY RandConstants DEF Present
<1>2. Carried(0) = 0 /\ s.nonce \in 0 .. Word - 1 /\ (s.nonce + 0) % Word = s.nonce
  BY RandConstants, NothingCarried
<1>3. RandTypes
  BY <1>1, RandConstants DEF RandTypes
<1>4. Counting(Seeded(s))
  BY <1>1, SeededCounts DEF Counting
<1>5. CountingOn(Seeded(s), s.nonce)
  BY <1>1, <1>2, SeededCounts DEF CountingOn
<1>6. QED
  BY <1>2, <1>3, <1>4, <1>5, SeededCounts DEF RandInv

LEMMA InitRandInv == RandInit => RandInv
<1> SUFFICES ASSUME RandInit PROVE RandInv
  OBVIOUS
<1>1. PICK s \in Seeds : generator = Seeded(s)
  BY DEF RandInit
<1>2. QED
  BY <1>1, SeedingCounts, Zenon DEF RandInit

LEMMA ReseedRandInv == RandInv /\ Reseed => RandInv'
<1> SUFFICES ASSUME RandInv, Reseed PROVE RandInv'
  OBVIOUS
<1>1. PICK s \in Seeds : generator' = Seeded(s) /\ block' = RandomBlock(Seeded(s))
  BY DEF Reseed
<1>0. /\ used' = 0 /\ handed' = <<>> /\ owed' = 0 /\ stirs' = 0 /\ bound' = 0
  BY DEF Reseed, Idle
<1>2. Present' = 0 /\ Len(handed') = 0 /\ DOMAIN handed' = {}
  BY <1>0, RandConstants DEF Present
<1>3. Carried(0) = 0 /\ s.nonce \in 0 .. Word - 1 /\ (s.nonce + 0) % Word = s.nonce
  BY RandConstants, NothingCarried
<1>4. RandTypes'
  BY <1>0, <1>2, RandConstants DEF RandTypes
<1>5. Counting(Seeded(s))'
  BY <1>1, <1>2, SeededCounts DEF Counting
<1>6. CountingOn(Seeded(s), s.nonce)'
  BY <1>0, <1>1, <1>2, <1>3, SeededCounts DEF CountingOn
<1>7. QED
  BY <1>3, <1>4, <1>5, <1>6, SeededCounts DEF RandInv

\* What changes neither the bytes handed out nor the block keeps their counting.
LEMMA StirRandInv == RandInv /\ Stir => RandInv'
<1> SUFFICES ASSUME RandInv, Stir PROVE RandInv'
  OBVIOUS
<1>1. PICK made \in Generators, n0 \in 0 .. Word - 1 : Counting(made)
  BY DEF RandInv
<1>2. PICK s \in Seeds :
        generator' = [generator EXCEPT !.key = (@ \cup {s.id}) \ (@ \cap {s.id}), !.n14 = XorWords(@, s.nonce)]
  BY DEF Stir
<1>3. /\ block' = block /\ used' = used /\ handed' = handed /\ owed' = owed /\ bound' = bound
      /\ stirs' = stirs + 1
  BY DEF Stir
<1>4. RandTypes' /\ stirs' # 0
  BY <1>3 DEF RandInv, RandTypes, Present
<1>5. generator \in Generators /\ CountsAs(generator, Present)
  BY <1>1 DEF Counting
<1>6. generator' \in Generators /\ CountsAs(generator', Present) /\ Present' = Present
  <2>1. XorWords(generator.n14, s.nonce) \in 0 .. Word - 1
    BY <1>5, RandConstants DEF Generators
  <2>2. QED
    BY <1>2, <1>3, <1>5, <2>1 DEF Generators, CountsAs, Present
<1>7. Counting(made)'
  BY <1>1, <1>3, <1>6 DEF Counting
<1>8. CountingOn(made, n0)'
  BY <1>4 DEF CountingOn
<1>9. QED
  BY <1>1, <1>4, <1>7, <1>8 DEF RandInv

LEMMA CallRandInv ==
  ASSUME RandInv, owed' \in Nat, Len(handed) + owed' <= MaxBytes,
         UNCHANGED <<generator, block, used, handed, stirs>>, bound' = 0 \/ bound' \in 2 .. Values - 1
  PROVE  RandInv'
<1>1. PICK made \in Generators, n0 \in 0 .. Word - 1 : Counting(made) /\ CountingOn(made, n0)
  BY DEF RandInv
<1>2. Present' = Present
  BY DEF Present
<1>3. RandTypes'
  BY <1>2 DEF RandInv, RandTypes
<1>4. Counting(made)' /\ CountingOn(made, n0)'
  BY <1>1, <1>2 DEF Counting, CountingOn
<1>5. QED
  BY <1>3, <1>4 DEF RandInv

\* The count of the next block, while the nonce is the seed's.
LEMMA AdvanceCounts ==
  ASSUME NEW g \in Generators, NEW q \in Nat, CountsAs(g, q)
  PROVE  /\ Advance(g) \in Generators /\ CountsAs(Advance(g), q + 1)
         /\ \A n0 \in 0 .. Word - 1 :
              g.n14 = (n0 + Carried(q)) % Word => Advance(g).n14 = (n0 + Carried(q + 1)) % Word
<1> DEFINE n12 == (g.n12 + 1) % Word
           n13 == IF n12 = 0 THEN (g.n13 + 1) % Word ELSE g.n13
           n14 == IF n12 = 0 /\ n13 = 0 THEN (g.n14 + 1) % Word ELSE g.n14
           d   == q \div Word
<1>0. Word \in Nat /\ Word > 0 /\ d \in Nat
  BY RandConstants, Divided
<1>1. g.n12 \in 0 .. Word - 1 /\ g.n13 \in 0 .. Word - 1 /\ g.n14 \in 0 .. Word - 1
  BY DEF Generators
<1>2. n12 \in 0 .. Word - 1 /\ n13 \in 0 .. Word - 1 /\ n14 \in 0 .. Word - 1
  <2>1. \A n \in 0 .. Word - 1 : (n + 1) % Word \in 0 .. Word - 1
    BY <1>0
  <2>2. QED
    BY <1>1, <2>1
<1>3. Advance(g) = [key |-> g.key, n12 |-> n12, n13 |-> n13, n14 |-> n14]
  <2>1. Advance(g) = [g EXCEPT !.n12 = n12, !.n13 = n13, !.n14 = n14]
    BY DEF Advance
  <2> HIDE DEF n12, n13, n14
  <2>2. QED
    BY <2>1 DEF Generators
<1>4. Advance(g) \in Generators
  BY <1>2, <1>3 DEF Generators
<1>5. n12 = (q + 1) % Word /\ (q + 1) \div Word = IF n12 = 0 THEN d + 1 ELSE d
  BY <1>0, NextCount DEF CountsAs
<1>6. (d + 1) % Word = ((d % Word) + 1) % Word
      /\ (d + 1) \div Word = IF ((d % Word) + 1) % Word = 0 THEN (d \div Word) + 1 ELSE d \div Word
  BY <1>0, NextCount
<1>7. g.n13 = d % Word
  BY DEF CountsAs
<1>8. n13 = ((q + 1) \div Word) % Word
  BY <1>5, <1>6, <1>7
<1>9. Carried(q + 1) = IF n12 = 0 /\ n13 = 0 THEN Carried(q) + 1 ELSE Carried(q)
  BY <1>5, <1>6, <1>7 DEF Carried
<1>10. CountsAs(Advance(g), q + 1)
  BY <1>3, <1>5, <1>8 DEF CountsAs
<1>11. ASSUME NEW n0 \in 0 .. Word - 1, g.n14 = (n0 + Carried(q)) % Word
       PROVE  n14 = (n0 + Carried(q + 1)) % Word
  <2>1. Carried(q) \in Nat /\ n0 + Carried(q) \in Nat
    BY <1>0, Divided DEF Carried
  <2>2. ((n0 + Carried(q)) + 1) % Word = (((n0 + Carried(q)) % Word) + 1) % Word
    BY <1>0, <2>1, NextCount
  <2>3. (n0 + Carried(q)) + 1 = n0 + (Carried(q) + 1)
    BY <2>1
  <2> HIDE DEF n12, n13
  <2>4. QED
    BY <1>9, <1>11, <2>2, <2>3
<1>12. QED
  BY <1>3, <1>4, <1>10, <1>11

\* Once round the loop of util_rand_bytes().
LEMMA HandOutRandInv == RandInv /\ HandOut => RandInv'
<1> SUFFICES ASSUME RandInv, HandOut PROVE RandInv'
  OBVIOUS
<1> DEFINE n    == IF used + owed < RandBlock THEN owed ELSE RandBlock - used
           next == Advance(generator)
           q    == Present
           m    == [k \in 1 .. n |-> block[used + k - 1]]
<1>1. PICK made \in Generators, n0 \in 0 .. Word - 1 : Counting(made) /\ CountingOn(made, n0)
  BY DEF RandInv
<1>2. /\ owed # 0 /\ handed' = handed \o m /\ owed' = owed - n /\ stirs' = stirs /\ bound' = bound
      /\ IF used + n >= RandBlock
         THEN generator' = next /\ block' = RandomBlock(next) /\ used' = 0
         ELSE used' = used + n /\ generator' = generator /\ block' = block
  BY DEF HandOut
<1>0. /\ RandBlock \in Nat /\ RandBlock > 0 /\ Word \in Nat /\ Word > 0
      /\ used \in 0 .. RandBlock - 1 /\ owed \in Nat /\ MaxBytes \in Nat
      /\ Len(handed) \in Nat /\ Len(handed) = q * RandBlock + used /\ q \in Nat
      /\ handed \in Seq(Generators \X (0 .. RandBlock - 1))
      /\ Len(handed) + owed <= MaxBytes /\ stirs \in Nat /\ (bound = 0 \/ bound \in 2 .. Values - 1)
  BY RandConstants, LenProperties, Divided DEF RandInv, RandTypes, Present
<1>3. n \in 1 .. RandBlock - used /\ n <= owed
  BY <1>0, <1>2
<1>4. \A k \in 1 .. n : block[used + k - 1] = <<made, used + k - 1>> /\ used + k - 1 \in 0 .. RandBlock - 1
  BY <1>0, <1>1, <1>3 DEF Counting, RandomBlock
<1> HIDE DEF n, q, next
<1>5. m \in Seq(Generators \X (0 .. RandBlock - 1)) /\ Len(m) = n
  <2>1. ASSUME NEW k \in 1 .. n PROVE block[used + k - 1] \in Generators \X (0 .. RandBlock - 1)
    <3>1. block[used + k - 1] = <<made, used + k - 1>> /\ used + k - 1 \in 0 .. RandBlock - 1 /\ made \in Generators
      BY <1>4
    <3> DEFINE x == used + k - 1
               S == 0 .. RandBlock - 1
    <3> HIDE DEF x, S
    <3>2. block[x] = <<made, x>> /\ x \in S /\ made \in Generators
      BY <3>1 DEF x, S
    <3>3. block[x] \in Generators \X S
      BY <3>2
    <3>4. QED
      BY <3>3 DEF x, S
  <2>0. m \in [1 .. n -> Generators \X (0 .. RandBlock - 1)] /\ n \in Nat
    BY <1>3, <2>1
  <2> HIDE DEF m
  <2>2. QED
    BY <2>0, SeqDef, LenProperties
<1>6. /\ handed' \in Seq(Generators \X (0 .. RandBlock - 1)) /\ Len(handed') = Len(handed) + n
      /\ \A i \in 1 .. Len(handed) + n :
           handed'[i] = IF i <= Len(handed) THEN handed[i] ELSE <<made, used + (i - Len(handed)) - 1>>
  <2> PICK S : S = Generators \X (0 .. RandBlock - 1)
    OBVIOUS
  <2>0. handed \in Seq(S) /\ m \in Seq(S)
    BY <1>0, <1>5
  <2>3. \A k \in 1 .. n : m[k] = <<made, used + k - 1>>
    BY <1>4
  <2> HIDE DEF m
  <2>1. Len(handed \o m) = Len(handed) + n /\ handed \o m \in Seq(S)
    BY <1>5, <2>0, ConcatProperties
  <2>2. \A i \in 1 .. Len(handed) + n :
          (handed \o m)[i] = IF i <= Len(handed) THEN handed[i] ELSE m[i - Len(handed)]
    BY <1>5, <2>0, ConcatProperties
  <2>4. ASSUME NEW i \in 1 .. Len(handed) + n, ~ i <= Len(handed)
        PROVE  i - Len(handed) \in 1 .. n
    BY <1>0, <1>3, <2>4
  <2>5. QED
    BY <1>2, <2>1, <2>2, <2>3, <2>4
<1> HIDE DEF m
<1>7. DOMAIN handed = 1 .. Len(handed) /\ DOMAIN handed' = 1 .. Len(handed) + n
  BY <1>0, <1>6, LenProperties
<1>8. \A i \in 1 .. Len(handed) + n : i > Len(handed) =>
        BlockOf(i) = q /\ (i - 1) % RandBlock = used + (i - Len(handed)) - 1
  <2> TAKE i \in 1 .. Len(handed) + n
  <2> HAVE i > Len(handed)
  <2> DEFINE x == used + (i - Len(handed)) - 1
             p == i - 1
  <2>1. x \in 0 .. RandBlock - 1 /\ p = q * RandBlock + x
    BY <1>0, <1>3
  <2> HIDE DEF x, p
  <2>2. p \div RandBlock = q /\ p % RandBlock = x
    BY <1>0, <2>1, InBlock
  <2>3. QED
    BY <2>2 DEF x, p, BlockOf
<1>9. \A i \in DOMAIN handed' : BlockOf(i) <= q /\ BlockOf(i) \in Nat
  <2> TAKE i \in DOMAIN handed'
  <2> DEFINE p == i - 1
             above == q + 1
  <2>1. p \in Nat /\ above \in Nat /\ p < RandBlock * above
    BY <1>0, <1>3, <1>7
  <2> HIDE DEF p, above
  <2>2. p \div RandBlock < above
    BY <1>0, <2>1, DivBelow
  <2>3. p \div RandBlock \in Nat
    BY <1>0, <2>1, Divided
  <2>4. QED
    BY <1>0, <2>2, <2>3 DEF p, above, BlockOf
<1>10. \A i \in DOMAIN handed' :
         /\ handed'[i][2] = (i - 1) % RandBlock
         /\ CountsAs(handed'[i][1], BlockOf(i))
         /\ BlockOf(i) = q => handed'[i][1] = made
         /\ stirs = 0 => handed'[i][1].n14 = (n0 + Carried(BlockOf(i))) % Word
  <2> TAKE i \in DOMAIN handed'
  <2>1. CASE i <= Len(handed)
    <3>1. i \in DOMAIN handed /\ handed'[i] = handed[i]
      BY <1>0, <1>6, <1>7, <2>1
    <3>2. QED
      BY <1>1, <3>1 DEF Counting, CountingOn, q
  <2>2. CASE ~ i <= Len(handed)
    <3>1. i > Len(handed) /\ i \in 1 .. Len(handed) + n
      BY <1>0, <1>3, <1>7, <2>2
    <3>2. handed'[i] = <<made, used + (i - Len(handed)) - 1>>
      BY <1>6, <2>2, <3>1
    <3>3. BlockOf(i) = q /\ (i - 1) % RandBlock = used + (i - Len(handed)) - 1
      BY <1>8, <3>1
    <3>4. CountsAs(made, q) /\ (stirs = 0 => made.n14 = (n0 + Carried(q)) % Word)
      BY <1>1 DEF Counting, CountingOn, q
    <3>5. QED
      BY <3>2, <3>3, <3>4
  <2>3. QED
    BY <2>1, <2>2
<1>11. \A i, j \in DOMAIN handed' : BlockOf(i) = BlockOf(j) => handed'[i][1] = handed'[j][1]
  <2> TAKE i, j \in DOMAIN handed'
  <2> HAVE BlockOf(i) = BlockOf(j)
  <2>1. CASE i \in DOMAIN handed /\ j \in DOMAIN handed
    BY <1>1, <1>6, <1>7, <2>1 DEF Counting
  <2>2. CASE i \notin DOMAIN handed \/ j \notin DOMAIN handed
    <3>1. BlockOf(i) = q
      BY <1>0, <1>3, <1>7, <1>8, <2>2, SMTT(20)
    <3>2. BlockOf(j) = q
      BY <3>1
    <3>3. handed'[i][1] = made /\ handed'[j][1] = made
      BY <1>10, <3>1, <3>2, Zenon
    <3>4. QED
      BY <3>3
  <2>3. QED
    BY <2>1, <2>2
<1>12. CASE used + n >= RandBlock
  <2> DEFINE w == q * RandBlock
  <2>14. w \in Nat /\ Len(handed) = w + used /\ (q + 1) * RandBlock = w + RandBlock
    BY <1>0
  <2> HIDE DEF w
  <2>15. n \in Nat /\ used + n = RandBlock
    BY <1>0, <1>3, <1>12
  <2>16. used' = 0 /\ Len(handed') = Len(handed) + n
    BY <1>2, <1>6, <1>12
  <2>17. Len(handed') = w + RandBlock
    BY <1>0, <2>14, <2>15, <2>16
  <2>1. used' = 0 /\ Len(handed') = (q + 1) * RandBlock + 0
    BY <1>0, <2>14, <2>16, <2>17
  <2>2. Present' = q + 1
    BY <1>0, <2>1, InBlock DEF Present
  <2>3. RandTypes'
    BY <1>0, <1>2, <1>3, <1>6, <2>1, <2>2 DEF RandTypes
  <2> PICK g : g = next
    OBVIOUS
  <2>4. /\ generator' = g /\ block' = RandomBlock(g)
        /\ g \in Generators /\ CountsAs(g, q + 1)
        /\ \A b0 \in 0 .. Word - 1 :
              generator.n14 = (b0 + Carried(q)) % Word => g.n14 = (b0 + Carried(q + 1)) % Word
    BY <1>0, <1>1, <1>2, <1>12, AdvanceCounts DEF Counting, next, q
  <2>5. \A i \in DOMAIN handed' : BlockOf(i) # q + 1
    BY <1>0, <1>9
  <2>6. Counting(g)'
    BY <1>10, <1>11, <2>2, <2>4, <2>5 DEF Counting
  <2>7. CountingOn(g, n0)'
    BY <1>1, <1>2, <1>10, <2>2, <2>4 DEF CountingOn, q
  <2>8. QED
    BY <2>3, <2>4, <2>6, <2>7 DEF RandInv
<1>13. CASE used + n < RandBlock
  <2>1. used' = used + n /\ generator' = generator /\ block' = block
    BY <1>0, <1>2, <1>3, <1>13
  <2>2. used' \in 0 .. RandBlock - 1 /\ Len(handed') = q * RandBlock + used'
    BY <1>0, <1>3, <1>6, <1>13, <2>1
  <2>3. Present' = q
    BY <1>0, <2>2, InBlock DEF Present
  <2>4. RandTypes'
    <3>1. owed' \in Nat /\ Len(handed') + owed' = Len(handed) + owed
      BY <1>0, <1>2, <1>3, <1>6
    <3>2. Len(handed') = Present' * RandBlock + used'
      BY <2>2, <2>3
    <3>3. Len(handed') + owed' <= MaxBytes
      BY <1>0, <3>1
    <3>4. QED
      BY <1>0, <1>2, <1>6, <2>2, <3>1, <3>2, <3>3, Zenon DEF RandTypes
  <2>5. Counting(made)'
    BY <1>1, <1>10, <1>11, <2>1, <2>3 DEF Counting, q
  <2>6. CountingOn(made, n0)'
    BY <1>1, <1>2, <1>10, <2>1, <2>3 DEF CountingOn, q
  <2>7. QED
    BY <1>1, <2>4, <2>5, <2>6 DEF RandInv
<1>14. QED
  BY <1>0, <1>3, <1>12, <1>13

LEMMA NextRandInv == RandInv /\ [RandNext]_randVars => RandInv'
<1> SUFFICES ASSUME RandInv, [RandNext]_randVars PROVE RandInv'
  OBVIOUS
<1>0. \A n \in Sizes : n \in Nat
  BY RandConstants
<1>1. CASE Reseed
  BY <1>1, ReseedRandInv
<1>2. CASE Stir
  BY <1>2, StirRandInv
<1>3. CASE GetBytes
  BY <1>0, <1>3, CallRandInv DEF GetBytes, Idle, Call
<1>4. CASE HandOut
  BY <1>4, HandOutRandInv
<1>5. CASE UniformBegins
  BY <1>0, <1>5, CallRandInv DEF UniformBegins, Call
<1>6. CASE UniformDraws
  <2>1. owed' \in Nat /\ Len(handed) + owed' <= MaxBytes
    BY <1>0, <1>6 DEF UniformDraws, Call, RandInv, RandTypes
  <2>2. bound' = 0 \/ bound' \in 2 .. Values - 1
    BY <1>6 DEF UniformDraws, RandInv, RandTypes
  <2>3. UNCHANGED <<generator, block, used, handed, stirs>>
    BY <1>6 DEF UniformDraws
  <2>4. QED
    BY <2>1, <2>2, <2>3, CallRandInv
<1>7. CASE UniformPromoted
  BY <1>0, <1>7, CallRandInv DEF UniformPromoted, Idle, Call
<1>8. CASE UNCHANGED randVars
  <2>1. owed' \in Nat /\ Len(handed) + owed' <= MaxBytes /\ (bound' = 0 \/ bound' \in 2 .. Values - 1)
    BY <1>8 DEF randVars, RandInv, RandTypes
  <2>2. QED
    BY <1>8, <2>1, CallRandInv DEF randVars
<1>9. QED
  BY <1>1, <1>2, <1>3, <1>4, <1>5, <1>6, <1>7, <1>8 DEF RandNext

LEMMA SpecRandInv == RandSpec => []RandInv
BY InitRandInv, NextRandInv, PTL DEF RandSpec

\* Counters that agree in 64 bits, and in what is carried out of them, are the same.
LEMMA SameCount ==
  ASSUME NEW p \in Nat, NEW q \in Nat, NEW g, CountsAs(g, p), CountsAs(g, q), Carried(p) = Carried(q)
  PROVE  p = q
<1>0. Word \in Nat /\ Word > 0
  BY RandConstants
<1>1. p \div Word \in Nat /\ q \div Word \in Nat
  BY <1>0, Divided
<1>2. p \div Word = q \div Word
  BY <1>0, <1>1, SameNumber DEF CountsAs, Carried
<1>3. QED
  BY <1>0, <1>2, SameNumber DEF CountsAs

\* Two sums that agree in a word differ by less than one or not at all.
LEMMA SameOffset ==
  ASSUME NEW B \in Nat, B > 0, NEW n \in Nat, NEW x \in 0 .. B - 1, NEW y \in 0 .. B - 1,
         (n + x) % B = (n + y) % B
  PROVE  x = y
<1> DEFINE d == (n + x) \div B
           e == (n + y) \div B
           r == (n + x) % B
<1>1. /\ d \in Nat /\ e \in Nat /\ r \in 0 .. B - 1
      /\ n + x = d * B + r /\ n + y = e * B + r
  BY Divided
<1> HIDE DEF d, e, r
<1>2. CASE d = e
  BY <1>1, <1>2
<1>3. CASE d >= e + 1
  <2>1. d * B >= (e + 1) * B /\ (e + 1) * B = e * B + B
    BY <1>1, <1>3
  <2>2. d * B \in Nat /\ e * B \in Nat
    BY <1>1
  <2>3. QED
    BY <1>1, <2>1, <2>2
<1>4. CASE e >= d + 1
  <2>1. e * B >= (d + 1) * B /\ (d + 1) * B = d * B + B
    BY <1>1, <1>4
  <2>2. d * B \in Nat /\ e * B \in Nat
    BY <1>1
  <2>3. QED
    BY <1>1, <2>1, <2>2
<1>5. QED
  BY <1>1, <1>2, <1>3, <1>4

LEMMA NoRepeat == RandInv => NeverRepeats
<1> SUFFICES ASSUME RandInv PROVE NeverRepeats
  OBVIOUS
<1>1. PICK made \in Generators, n0 \in 0 .. Word - 1 : Counting(made) /\ CountingOn(made, n0)
  BY DEF RandInv
<1>0. /\ RandBlock \in Nat /\ RandBlock > 0 /\ Word \in Nat /\ Word > 0
      /\ MaxBytes \in Nat /\ MaxBytes <= Word * Word * Word * RandBlock
      /\ Len(handed) \in Nat /\ Len(handed) <= MaxBytes /\ DOMAIN handed = 1 .. Len(handed)
      /\ stirs \in Nat
  BY RandConstants, RandAssumption, LenProperties DEF RandInv, RandTypes
<1>2. \A i \in DOMAIN handed : handed[i][2] = (i - 1) % RandBlock
  BY <1>1 DEF Counting
<1>3. ASSUME NEW i \in DOMAIN handed, NEW j \in DOMAIN handed,
             handed[i][1] = handed[j][1], BlockOf(i) # BlockOf(j)
      PROVE  stirs > 0 /\ Len(handed) > Word * Word * RandBlock
  <2> PICK p : p = BlockOf(i)
    OBVIOUS
  <2> PICK q : q = BlockOf(j)
    OBVIOUS
  <2> PICK g : g = handed[i][1]
    OBVIOUS
  <2>1. CountsAs(g, p) /\ CountsAs(g, q)
    BY <1>1, <1>3 DEF Counting
  <2>2. ASSUME NEW k \in DOMAIN handed
        PROVE  BlockOf(k) \in Nat /\ \A m \in Nat : Len(handed) <= m * RandBlock => BlockOf(k) < m
    <3> DEFINE x == k - 1
    <3>1. x \in Nat /\ x < Len(handed)
      BY <1>0
    <3> HIDE DEF x
    <3>2. x \div RandBlock \in Nat
      BY <1>0, <3>1, Divided
    <3>3. ASSUME NEW m \in Nat, Len(handed) <= m * RandBlock PROVE x \div RandBlock < m
      <4>1. m * RandBlock = RandBlock * m /\ x < RandBlock * m
        BY <1>0, <3>1, <3>3
      <4>2. QED
        BY <1>0, <3>1, <4>1, DivBelow
    <3>4. QED
      BY <3>2, <3>3 DEF x, BlockOf
  <2>3. p \in Nat /\ q \in Nat /\ p # q
    BY <1>3, <2>2
  <2>4. Carried(p) \in Nat /\ Carried(q) \in Nat /\ Carried(p) # Carried(q)
    <3>1. p \div Word \in Nat /\ q \div Word \in Nat
      BY <1>0, <2>3, Divided
    <3>2. Carried(p) \in Nat /\ Carried(q) \in Nat
      BY <1>0, <3>1, Divided DEF Carried
    <3>3. QED
      BY <2>1, <2>3, <3>2, SameCount
  <2>5. ASSUME NEW c \in {p, q}, NEW m \in Nat, c < Word * (Word * m)
        PROVE  Carried(c) < m
    <3>1. c \in Nat /\ Word * m \in Nat
      BY <1>0, <2>3
    <3>2. c \div Word < Word * m /\ c \div Word \in Nat
      BY <1>0, <2>5, <3>1, DivBelow, Divided
    <3>3. QED
      BY <1>0, <3>2, DivBelow DEF Carried
  <2>6. CASE stirs = 0
    <3> DEFINE www == Word * (Word * Word)
    <3>1. www \in Nat /\ Len(handed) <= www * RandBlock
      <4>1. Word * Word \in Nat /\ Word * Word * Word = www
        BY <1>0
      <4>2. www \in Nat
        BY <1>0, <4>1
      <4>3. QED
        BY <1>0, <4>1, <4>2
    <3> HIDE DEF www
    <3>2. p < www /\ q < www
      BY <2>2, <3>1
    <3>3. Carried(p) < Word /\ Carried(q) < Word
      BY <1>0, <2>5, <3>2 DEF www
    <3>4. (n0 + Carried(p)) % Word = (n0 + Carried(q)) % Word
      BY <1>1, <1>3, <2>6 DEF CountingOn
    <3>5. Carried(p) \in 0 .. Word - 1 /\ Carried(q) \in 0 .. Word - 1
      BY <1>0, <2>4, <3>3
    <3>6. n0 \in Nat
      BY <1>0
    <3> PICK x : x = Carried(p)
      OBVIOUS
    <3> PICK y : y = Carried(q)
      OBVIOUS
    <3>7. x = y
      BY <1>0, <3>4, <3>5, <3>6, SameOffset
    <3>8. QED
      BY <2>4, <3>7
  <2>7. CASE Len(handed) <= Word * Word * RandBlock
    <3> DEFINE ww == Word * (Word * 1)
    <3>1. ww \in Nat /\ Len(handed) <= ww * RandBlock
      BY <1>0, <2>7
    <3> HIDE DEF ww
    <3>2. p < ww /\ q < ww
      BY <2>2, <3>1
    <3>3. Carried(p) < 1 /\ Carried(q) < 1
      BY <2>5, <3>2 DEF ww
    <3>4. QED
      BY <2>4, <3>3
  <2>8. Word * Word * RandBlock \in Nat
    BY <1>0
  <2>9. QED
    BY <1>0, <2>6, <2>7, <2>8
<1>4. \A i, j \in DOMAIN handed : BlockOf(i) = BlockOf(j) => handed[i][1] = handed[j][1]
  BY <1>1 DEF Counting
<1>5. QED
  BY <1>2, <1>3, <1>4 DEF NeverRepeats, BlockOf

\* For any sizes of block and word and any calls, seeds and stirring, no byte of
\* keystream is handed out twice within the bounds NeverRepeats names
\* (util_rand_bytes(), util_rand_stir()).
THEOREM SpecNeverRepeats == RandSpec => []NeverRepeats
BY SpecRandInv, NoRepeat, PTL

(* Numbers below a bound *)

\* The numbers accepted are as many whole rounds of n as there are words, each
\* with every rest once.
LEMMA EachRestAsOften ==
  ASSUME NEW n \in 2 .. Values - 1
  PROVE  \E rounds \in Nat \ {0} : \A r \in 0 .. n - 1 :
           Cardinality({v \in Accepted(n) : v % n = r}) = rounds
<1> DEFINE t == (Values - n) % n
           w == Values - n
           K == (w \div n) + 1
<1>0. Values \in Nat /\ n \in Nat /\ n > 0 /\ w \in Nat
  BY RandConstants
<1>1. t \in 0 .. n - 1 /\ K \in Nat \ {0} /\ Values = n * K + t
  <2>1. w \div n \in Nat /\ w % n \in 0 .. n - 1 /\ w = (w \div n) * n + (w % n)
    BY <1>0, Divided
  <2>2. t = w % n
    OBVIOUS
  <2> DEFINE k == w \div n
  <2> HIDE DEF w, t, k
  <2>3. n * (k + 1) = k * n + n
    BY <1>0, <2>1 DEF k
  <2>4. QED
    BY <1>0, <2>1, <2>2, <2>3 DEF k, w
<1>2. Accepted(n) = {v \in 0 .. Values - 1 : v >= t}
  BY DEF Accepted
<1> HIDE DEF t, K, w
<1>3. ASSUME NEW r \in 0 .. n - 1
      PROVE  Cardinality({v \in Accepted(n) : v % n = r}) = K
  <2> DEFINE s == IF r >= t THEN r - t ELSE (r - t) + n
             G == {v \in Accepted(n) : v % n = r}
             f == [k \in 0 .. K - 1 |-> (t + k * n) + s]
  <2>1. s \in 0 .. n - 1 /\ (t + s = r \/ t + s = r + n)
    BY <1>0, <1>1
  <2> HIDE DEF s
  <2>2. ASSUME NEW k \in 0 .. K - 1
        PROVE  /\ t + k * n \in Nat /\ ((t + k * n) + s) % n = r
               /\ (t + k * n) + s \in t .. Values - 1
    <3>1. k \in Nat /\ k * n \in Nat /\ k + 1 \in Nat /\ (k + 1) * n = k * n + n
      BY <1>0, <1>1
    <3>2. (k * n + r) % n = r /\ ((k + 1) * n + r) % n = r
      BY <1>0, <3>1, InBlock
    <3>3. (t + k * n) + s = k * n + r \/ (t + k * n) + s = (k + 1) * n + r
      BY <1>0, <1>1, <2>1, <3>1
    <3>4. (k + 1) * n <= K * n /\ K * n = n * K
      BY <1>0, <1>1, <3>1
    <3>5. (t + k * n) + s < t + n * K
      BY <1>0, <1>1, <2>1, <3>1, <3>4
    <3>6. QED
      BY <1>0, <1>1, <2>1, <3>1, <3>2, <3>3, <3>5
  <2>3. f \in [0 .. K - 1 -> G]
    <3>1. ASSUME NEW k \in 0 .. K - 1 PROVE (t + k * n) + s \in G
      <4> PICK v : v = (t + k * n) + s
        OBVIOUS
      <4>1. v \in 0 .. Values - 1 /\ v >= t /\ v % n = r
        BY <1>0, <1>1, <2>2
      <4>2. v \in G
        BY <1>2, <4>1
      <4>3. QED
        BY <4>2
    <3> HIDE DEF G
    <3>2. QED
      BY <3>1
  <2>4. ASSUME NEW k \in 0 .. K - 1, NEW l \in 0 .. K - 1, f[k] = f[l] PROVE k = l
    <3>1. k \in Nat /\ l \in Nat /\ k * n = l * n
      BY <1>0, <1>1, <2>1, <2>2, <2>4
    <3>2. k * n + 0 = l * n + 0 /\ 0 \in 0 .. n - 1
      BY <1>0, <3>1
    <3>3. (k * n + 0) \div n = k /\ (l * n + 0) \div n = l
      BY <1>0, <3>1, <3>2, InBlock
    <3>4. QED
      BY <3>2, <3>3
  <2>5. ASSUME NEW v \in G PROVE \E k \in 0 .. K - 1 : f[k] = v
    <3> DEFINE p == v - t
               k == p \div n
               x == p % n
    <3>1. v \in Nat /\ v >= t /\ v < n * K + t /\ v % n = r
      BY <1>0, <1>1, <1>2
    <3>2. p \in Nat /\ p < n * K /\ v = t + p
      BY <1>0, <1>1, <3>1
    <3> HIDE DEF p
    <3>3. k \in Nat /\ x \in 0 .. n - 1 /\ p = k * n + x /\ k < K
      BY <1>0, <1>1, <3>2, Divided, DivBelow
    <3> HIDE DEF k, x
    <3>4. k \in 0 .. K - 1
      BY <1>1, <3>3
    <3>5. t + k * n \in Nat /\ ((t + k * n) + s) % n = r
      BY <2>2, <3>4
    <3>6. v = (t + k * n) + x
      BY <1>0, <1>1, <3>2, <3>3
    <3> DEFINE b == t + k * n
    <3> HIDE DEF b
    <3>7. b \in Nat /\ (b + s) % n = (b + x) % n
      BY <3>1, <3>5, <3>6 DEF b
    <3>8. s = x
      BY <1>0, <2>1, <3>3, <3>7, SameOffset
    <3>9. f[k] = v
      BY <3>4, <3>6, <3>8
    <3>10. QED
      BY <3>4, <3>9
  <2> HIDE DEF f, G
  <2>6. f \in Bijection(0 .. K - 1, G)
    BY <2>3, <2>4, <2>5 DEF Bijection, Injection, Surjection, IsInjective
  <2>7. IsFiniteSet(0 .. K - 1) /\ Cardinality(0 .. K - 1) = K
    BY <1>1, FS_Interval
  <2>8. Cardinality(G) = Cardinality(0 .. K - 1)
    BY <2>6, <2>7, FS_Bijection DEF ExistsBijection
  <2>9. QED
    BY <2>7, <2>8 DEF G
<1>4. QED
  BY <1>1, <1>3

\* For any size of a word and any bound: of the numbers util_rand_uniform() accepts,
\* equally many give each result, and there are some.
THEOREM SpecUnbiased == RandSpec => []Unbiased
<1>1. RandInv => Unbiased
  <2> SUFFICES ASSUME RandInv, bound # 0
               PROVE  LET Giving(r) == Cardinality({v \in Accepted(bound) : v % bound = r})
                      IN Giving(0) > 0 /\ \A r \in 0 .. bound - 1 : Giving(r) = Giving(0)
    BY DEF Unbiased
  <2> PICK n : n = bound
    OBVIOUS
  <2>1. n \in 2 .. Values - 1
    BY DEF RandInv, RandTypes
  <2>2. PICK rounds \in Nat \ {0} : \A r \in 0 .. n - 1 :
          Cardinality({v \in Accepted(n) : v % n = r}) = rounds
    BY <2>1, EachRestAsOften, Zenon
  <2>3. 0 \in 0 .. n - 1 /\ rounds > 0
    BY <2>1, RandConstants
  <2> DEFINE Giving(r) == Cardinality({v \in Accepted(bound) : v % bound = r})
  <2>4. \A r \in 0 .. n - 1 : Giving(r) = rounds
    BY <2>2
  <2> HIDE DEF Giving
  <2>5. Giving(0) > 0 /\ \A r \in 0 .. bound - 1 : Giving(r) = Giving(0)
    BY <2>3, <2>4
  <2>6. QED
    BY <2>5 DEF Giving
<1>2. QED
  BY <1>1, SpecRandInv, PTL

-----------------------------------------------------------------------------
(* The cipher *)

\* The byte of keystream of place p of the message, and what a user reads and
\* writes there: plain text has no mask, ciphertext that byte of keystream.
StreamByte(p) == <<((p \div Block) \div Limb) % Limb, (p \div Block) % Limb, p % Block>>
ReadAt(u, p)  == <<p + 1, IF u = "encrypt" THEN {} ELSE {StreamByte(p)}>>
WrittenAt(u, p) == <<p + 1, IF u = "encrypt" THEN {StreamByte(p)} ELSE {}>>

StartOf(u) == IF u = "crypt" THEN start ELSE 0
PlaceOf(u) == StartOf(u) + Len(texts[u])

\* A context is where its user is in the message, and what was read and written is
\* what belongs there; with a rejected key every context stays marked.
ChaChaInv ==
  /\ keyed \in BOOLEAN /\ user \in Users /\ start \in Nat
  /\ unread \in Seq(Nat \X SUBSET (Nat \X Nat \X Nat))
  /\ texts \in [Users -> Seq(Nat \X SUBSET (Nat \X Nat \X Nat))]
  /\ IF keyed
     THEN /\ context = [u \in Users |-> ContextAt(PlaceOf(u))]
          /\ \A u \in Users : \A k \in 1 .. Len(texts[u]) : texts[u][k] = WrittenAt(u, StartOf(u) + k - 1)
          /\ \A k \in 1 .. Len(unread) : unread[k] = ReadAt(user, PlaceOf(user) + k - 1)
          /\ PlaceOf("encrypt") <= MaxPlain
          /\ user = "encrypt" => PlaceOf("encrypt") + Len(unread) <= MaxPlain
     ELSE /\ context = [u \in Users |-> ContextFor(FALSE)]
          /\ \A u \in Users : \A k \in 1 .. Len(texts[u]) : texts[u][k] = <<0, {}>>

LEMMA ChaChaConstants ==
  Block \in Nat /\ Block > 0 /\ Limb \in Nat /\ Limb > 0 /\ MaxPlain \in Nat
BY ChaChaAssumption

LEMMA StreamByteTyped ==
  ASSUME NEW p \in Nat
  PROVE  StreamByte(p) \in Nat \X Nat \X Nat
<1>1. p \div Block \in Nat /\ p % Block \in Nat
  BY ChaChaConstants, Divided
<1>2. (p \div Block) \div Limb \in Nat /\ (p \div Block) % Limb \in Nat
  BY <1>1, ChaChaConstants, Divided
<1>3. ((p \div Block) \div Limb) % Limb \in Nat
  BY <1>2, ChaChaConstants, Divided
<1>4. QED
  BY <1>1, <1>2, <1>3 DEF StreamByte

LEMMA MaskedOnce ==
  ASSUME NEW u, NEW p
  PROVE  Masked(ReadAt(u, p), StreamByte(p)) = WrittenAt(u, p)
<1> DEFINE ks == StreamByte(p)
<1> HIDE DEF ks
<1>1. ({} \cup {ks}) \ ({} \cap {ks}) = {ks} /\ ({ks} \cup {ks}) \ ({ks} \cap {ks}) = {}
  OBVIOUS
<1>2. Masked(<<p + 1, IF u = "encrypt" THEN {} ELSE {ks}>>, ks)
        = <<p + 1, IF u = "encrypt" THEN {ks} ELSE {}>>
  BY <1>1 DEF Masked
<1>3. QED
  BY <1>2 DEF ks, ReadAt, WrittenAt

\* Once round the loop: the bytes of keystream are those of the places, and the
\* context is left where the last of them was.
LEMMA Onward ==
  ASSUME NEW p \in Nat, NEW n \in Nat, n > 0, ContextAt(p).partial + n <= Block
  PROVE  LET c == ContextAt(p)
         IN /\ \A i \in 1 .. n : Keystream(c)[c.partial + i - 1] = StreamByte(p + i - 1)
            /\ c.partial \in 0 .. Block - 1
            /\ (IF c.partial + n # Block THEN [c EXCEPT !.partial = c.partial + n] ELSE NextBlock(c))
                 = ContextAt(p + n)
<1> DEFINE q == p \div Block
           r == p % Block
           h == q \div Limb
           c == ContextAt(p)
<1>0. /\ Block \in Nat /\ Block > 0 /\ Limb \in Nat /\ Limb > 0
      /\ q \in Nat /\ r \in 0 .. Block - 1 /\ p = q * Block + r
  BY ChaChaConstants, Divided
<1>1. c = [hi |-> h % Limb, lo |-> q % Limb, partial |-> r]
  BY DEF ContextAt
<1>2. r + n <= Block
  BY <1>1
<1>3. ASSUME NEW i \in 1 .. n
      PROVE  Keystream(c)[r + i - 1] = StreamByte(p + i - 1)
  <2> DEFINE x == r + i - 1
  <2>1. x \in 0 .. Block - 1 /\ p + i - 1 = q * Block + x
    BY <1>0, <1>2
  <2> HIDE DEF x, q, r
  <2>2. (p + i - 1) \div Block = q /\ (p + i - 1) % Block = x
    BY <1>0, <2>1, InBlock
  <2>3. Keystream(c)[x] = <<h % Limb, q % Limb, x>>
    BY <1>1, <2>1 DEF Keystream
  <2>4. StreamByte(p + i - 1) = <<h % Limb, q % Limb, x>>
    BY <2>2 DEF StreamByte
  <2>5. QED
    BY <2>3, <2>4 DEF x
<1>4. CASE r + n # Block
  <2> DEFINE x == r + n
             s == p + n
  <2>1. x \in 0 .. Block - 1 /\ s = q * Block + x
    BY <1>0, <1>2, <1>4
  <2> HIDE DEF x, q, r, s
  <2>2. s \div Block = q /\ s % Block = x
    BY <1>0, <2>1, InBlock
  <2>3. ContextAt(s) = [hi |-> h % Limb, lo |-> q % Limb, partial |-> x]
    BY <2>2 DEF ContextAt
  <2>4. [c EXCEPT !.partial = x] = [hi |-> h % Limb, lo |-> q % Limb, partial |-> x]
    BY <1>1
  <2>5. QED
    BY <1>0, <1>1, <1>3, <1>4, <2>3, <2>4 DEF s, x
<1>5. CASE r + n = Block
  <2> DEFINE s    == p + n
             low  == (q + 1) % Limb
             high == (q + 1) \div Limb
  <2>1. s = (q + 1) * Block + 0 /\ 0 \in 0 .. Block - 1
    BY <1>0, <1>5
  <2> HIDE DEF q, r, s
  <2>2. s \div Block = q + 1 /\ s % Block = 0
    BY <1>0, <2>1, InBlock
  <2>3. low = ((q % Limb) + 1) % Limb /\ high = IF ((q % Limb) + 1) % Limb = 0 THEN h + 1 ELSE h
    BY <1>0, NextCount
  <2>4. h \in Nat /\ h % Limb \in 0 .. Limb - 1
    BY <1>0, Divided
  <2>5. (h + 1) % Limb = ((h % Limb) + 1) % Limb /\ (h % Limb) % Limb = h % Limb
    <3>1. (h + 1) % Limb = ((h % Limb) + 1) % Limb
      BY <1>0, <2>4, NextCount
    <3> PICK y : y = h % Limb
      OBVIOUS
    <3>2. y \in 0 .. Limb - 1 /\ 0 * Limb + y = y
      BY <1>0, <2>4
    <3>3. y % Limb = y
      BY <1>0, <3>2, InBlock
    <3>4. QED
      BY <3>1, <3>3
  <2> HIDE DEF low, high, h
  <2>6. ContextAt(s) = [hi |-> high % Limb, lo |-> low, partial |-> 0]
    BY <2>2 DEF ContextAt, low, high
  <2>7. NextBlock(c) = [hi |-> ((h % Limb) + (IF low = 0 THEN 1 ELSE 0)) % Limb, lo |-> low, partial |-> 0]
    BY <1>1, <2>3 DEF NextBlock
  <2>8. ((h % Limb) + (IF low = 0 THEN 1 ELSE 0)) % Limb = high % Limb
    <3>1. CASE low = 0
      BY <2>3, <2>5, <3>1
    <3>2. CASE low # 0
      <4>1. (h % Limb) + 0 = h % Limb
        BY <2>4
      <4>2. QED
        BY <2>3, <2>5, <3>2, <4>1
    <3>3. QED
      BY <3>1, <3>2
  <2>9. NextBlock(c) = ContextAt(s)
    BY <2>6, <2>7, <2>8
  <2>10. QED
    BY <1>0, <1>1, <1>3, <1>5, <2>9 DEF s
<1>6. QED
  BY <1>4, <1>5

Cells == Nat \X SUBSET (Nat \X Nat \X Nat)

LEMMA MadeSeq ==
  ASSUME NEW S, NEW n \in Nat, NEW s \in [1 .. n -> S]
  PROVE  s \in Seq(S) /\ Len(s) = n
BY SeqDef, LenProperties

LEMMA PartOfSeq ==
  ASSUME NEW S, NEW s \in Seq(S), NEW d \in Nat, NEW e \in Nat, d <= e, e <= Len(s)
  PROVE  LET part == SubSeq(s, d + 1, e)
         IN part \in Seq(S) /\ Len(part) = e - d /\ \A k \in 1 .. e - d : part[k] = s[d + k]
<1> DEFINE part == SubSeq(s, d + 1, e)
<1>0. Len(s) \in Nat
  BY LenProperties
<1>1. part = [k \in 1 .. e - d |-> s[d + k]]
  <2>1. CASE d < e
    <3>1. d + 1 \in 1 .. Len(s) /\ e \in 1 .. Len(s)
      BY <1>0, <2>1
    <3>2. QED
      BY <3>1, SubSeqProperties
  <2>2. CASE d = e
    <3>1. part = <<>> /\ e - d = 0
      BY <2>2, SubSeqProperties
    <3>2. QED
      BY <3>1
  <2>3. QED
    BY <2>1, <2>2
<1>2. \A k \in 1 .. e - d : s[d + k] \in S
  <2> TAKE k \in 1 .. e - d
  <2>1. d + k \in 1 .. Len(s)
    BY <1>0
  <2>2. QED
    BY <2>1, ElementOfSeq
<1> HIDE DEF part
<1>3. e - d \in Nat /\ part \in [1 .. e - d -> S]
  BY <1>1, <1>2
<1>4. QED
  BY <1>1, <1>3, MadeSeq DEF part

LEMMA ChaChaInitInv == ChaChaInit => ChaChaInv
<1> SUFFICES ASSUME ChaChaInit PROVE ChaChaInv
  OBVIOUS
<1>1. /\ keyed \in BOOLEAN /\ user = "encrypt" /\ start = 0 /\ unread = <<>>
      /\ context = [u \in Users |-> ContextFor(keyed)] /\ texts = [u \in Users |-> <<>>]
  BY DEF ChaChaInit
<1>2. \A u \in Users : texts[u] = <<>> /\ Len(texts[u]) = 0
  BY <1>1
<1>3. \A u \in Users : PlaceOf(u) = 0 /\ StartOf(u) = 0
  BY <1>1, <1>2 DEF PlaceOf, StartOf
<1>4. ContextAt(0) = ContextFor(TRUE)
  <2>1. 0 \div Block = 0 /\ 0 % Block = 0 /\ 0 \div Limb = 0 /\ 0 % Limb = 0
    BY ChaChaConstants
  <2>2. QED
    BY <2>1 DEF ContextAt, ContextFor
<1>5. keyed => context = [u \in Users |-> ContextAt(PlaceOf(u))]
  BY <1>1, <1>3, <1>4
<1>6. user \in Users /\ "encrypt" \in Users
  BY <1>1 DEF Users
<1>7. texts \in [Users -> Seq(Cells)] /\ unread \in Seq(Cells) /\ Len(unread) = 0
  BY <1>1
<1>8. ~keyed => context = [u \in Users |-> ContextFor(FALSE)]
  BY <1>1
<1>9. (\A u \in Users : 1 .. Len(texts[u]) = {}) /\ 1 .. Len(unread) = {}
  BY <1>2, <1>7
<1>10. PlaceOf("encrypt") <= MaxPlain /\ PlaceOf("encrypt") + Len(unread) <= MaxPlain
  BY <1>3, <1>6, <1>7, ChaChaConstants
<1>11. QED
  BY <1>1, <1>5, <1>6, <1>7, <1>8, <1>9, <1>10, Zenon DEF ChaChaInv, Cells

LEMMA PlacesTyped ==
  ASSUME ChaChaInv, NEW u \in Users
  PROVE  /\ texts[u] \in Seq(Cells) /\ Len(texts[u]) \in Nat /\ StartOf(u) \in Nat
         /\ PlaceOf(u) \in Nat
<1>1. texts[u] \in Seq(Cells) /\ StartOf(u) \in Nat
  BY DEF ChaChaInv, StartOf, Cells
<1>2. Len(texts[u]) \in Nat
  BY <1>1, LenProperties
<1>3. QED
  BY <1>1, <1>2 DEF PlaceOf

LEMMA EncryptStarts == ChaChaInv /\ CallEncrypt => ChaChaInv'
<1> SUFFICES ASSUME ChaChaInv, CallEncrypt PROVE ChaChaInv'
  OBVIOUS
<1> DEFINE p == Len(texts["encrypt"])
<1>1. PICK n \in 1 .. MaxCall : p + n <= MaxPlain /\ unread' = Plain(p, n)
  BY DEF CallEncrypt
<1>2. user' = "encrypt" /\ UNCHANGED <<keyed, context, texts, start>> /\ user' \in Users
  BY DEF CallEncrypt, Users
<1>3. p \in Nat /\ n \in Nat /\ PlaceOf("encrypt") = p /\ StartOf("encrypt") = 0
  BY <1>1, <1>2, PlacesTyped DEF PlaceOf, StartOf
<1>4. /\ unread' \in Seq(Cells) /\ Len(unread') = n
      /\ \A k \in 1 .. n : unread'[k] = <<p + k, {}>>
  <2>1. Plain(p, n) \in [1 .. n -> Cells] /\ \A k \in 1 .. n : Plain(p, n)[k] = <<p + k, {}>>
    BY <1>3 DEF Plain, Cells
  <2> PICK s : s = Plain(p, n)
    OBVIOUS
  <2>2. s \in Seq(Cells) /\ Len(s) = n
    BY <1>3, <2>1, MadeSeq
  <2>3. QED
    BY <1>1, <2>1, <2>2
<1>5. \A k \in 1 .. n : unread'[k] = ReadAt("encrypt", p + k - 1)
  BY <1>3, <1>4 DEF ReadAt
<1>6. \A u : PlaceOf(u)' = PlaceOf(u) /\ StartOf(u)' = StartOf(u)
  BY <1>2 DEF PlaceOf, StartOf
<1>7. PlaceOf(user)' = p
  BY <1>2, <1>3, <1>6 DEF PlaceOf, StartOf
<1> HIDE DEF p
<1>8. CASE keyed
  BY <1>1, <1>2, <1>3, <1>4, <1>5, <1>6, <1>7, <1>8 DEF ChaChaInv, Cells
<1>9. CASE ~keyed
  BY <1>2, <1>4, <1>9 DEF ChaChaInv, Cells
<1>10. QED
  BY <1>8, <1>9

\* The ciphertext that decrypt() or crypt() is called with
LEMMA CipherRead ==
  ASSUME ChaChaInv, NEW d \in Nat, NEW e \in Nat, d < e, e <= Len(texts["encrypt"])
  PROVE  LET s == SubSeq(texts["encrypt"], d + 1, e)
         IN /\ s \in Seq(Cells) /\ Len(s) = e - d
            /\ keyed => \A u \in Users \ {"encrypt"} : \A k \in 1 .. Len(s) : s[k] = ReadAt(u, d + k - 1)
<1> DEFINE t == texts["encrypt"]
           s == SubSeq(t, d + 1, e)
<1>1. t \in Seq(Cells) /\ Len(t) \in Nat
  BY PlacesTyped DEF Users
<1>2. s \in Seq(Cells) /\ Len(s) = e - d /\ \A k \in 1 .. e - d : s[k] = t[d + k]
  BY <1>1, PartOfSeq
<1>3. keyed => \A k \in 1 .. Len(t) : t[k] = WrittenAt("encrypt", 0 + k - 1)
  BY DEF ChaChaInv, StartOf, Users
<1> HIDE DEF t, s
<1>4. ASSUME keyed, NEW u \in Users \ {"encrypt"}, NEW k \in 1 .. Len(s)
      PROVE  s[k] = ReadAt(u, d + k - 1)
  <2>1. d + k \in 1 .. Len(t) /\ s[k] = t[d + k]
    BY <1>1, <1>2 DEF t
  <2>2. t[d + k] = WrittenAt("encrypt", d + k - 1)
    BY <1>3, <1>4, <2>1
  <2>3. QED
    BY <2>1, <2>2 DEF ReadAt, WrittenAt
<1>5. QED
  BY <1>2, <1>4 DEF s, t

LEMMA DecryptStarts == ChaChaInv /\ CallDecrypt => ChaChaInv'
<1> SUFFICES ASSUME ChaChaInv, CallDecrypt PROVE ChaChaInv'
  OBVIOUS
<1> DEFINE p == Len(texts["decrypt"])
<1>0. p \in Nat /\ Len(texts["encrypt"]) \in Nat /\ PlaceOf("decrypt") = p
  BY PlacesTyped DEF PlaceOf, StartOf, Users
<1>1. PICK n \in 1 .. Len(texts["encrypt"]) - p : unread' = SubSeq(texts["encrypt"], p + 1, p + n)
  BY DEF CallDecrypt
<1>2. user' = "decrypt" /\ UNCHANGED <<keyed, context, texts, start>> /\ user' \in Users /\ user' # "encrypt"
  BY DEF CallDecrypt, Users
<1> DEFINE e == p + n
<1>3. e \in Nat /\ p < e /\ e <= Len(texts["encrypt"])
  BY <1>0, <1>1
<1> DEFINE s == SubSeq(texts["encrypt"], p + 1, e)
<1>10. unread' = s
  BY <1>1
<1> HIDE DEF p, e
<1>4. /\ unread' \in Seq(Cells)
      /\ keyed => \A k \in 1 .. Len(unread') : unread'[k] = ReadAt("decrypt", p + k - 1)
  <2>1. "decrypt" \in Users \ {"encrypt"}
    BY DEF Users
  <2>2. /\ s \in Seq(Cells)
        /\ keyed => \A u \in Users \ {"encrypt"} : \A k \in 1 .. Len(s) : s[k] = ReadAt(u, p + k - 1)
    BY <1>0, <1>3, CipherRead
  <2> HIDE DEF s
  <2>3. QED
    BY <1>10, <2>1, <2>2
<1> HIDE DEF s
<1>5. \A u : PlaceOf(u)' = PlaceOf(u) /\ StartOf(u)' = StartOf(u)
  BY <1>2 DEF PlaceOf, StartOf
<1>6. PlaceOf(user)' = p
  BY <1>0, <1>2 DEF PlaceOf, StartOf
<1>7. CASE keyed
  BY <1>2, <1>4, <1>5, <1>6, <1>7 DEF ChaChaInv, Cells
<1>8. CASE ~keyed
  BY <1>2, <1>4, <1>8 DEF ChaChaInv, Cells
<1>9. QED
  BY <1>7, <1>8

LEMMA CryptStarts == ChaChaInv /\ CallCrypt => ChaChaInv'
<1> SUFFICES ASSUME ChaChaInv, CallCrypt PROVE ChaChaInv'
  OBVIOUS
<1>0. Len(texts["encrypt"]) \in Nat
  BY PlacesTyped DEF Users
<1>1. PICK last \in 1 .. Len(texts["encrypt"]) :
        start' \in 0 .. last - 1 /\ unread' = SubSeq(texts["encrypt"], start' + 1, last)
  BY DEF CallCrypt
<1>2. /\ keyed /\ keyed' = keyed /\ user' = "crypt" /\ user' \in Users /\ user' # "encrypt"
      /\ context' = [context EXCEPT !["crypt"] = ContextAt(start')]
      /\ texts' = [texts EXCEPT !["crypt"] = <<>>]
  BY DEF CallCrypt, Users
<1> PICK d : d = start'
  OBVIOUS
<1>3. d \in Nat /\ last \in Nat /\ d < last /\ last <= Len(texts["encrypt"])
  BY <1>0, <1>1
<1> DEFINE s == SubSeq(texts["encrypt"], d + 1, last)
<1>12. unread' = s
  BY <1>1
<1>4. /\ unread' \in Seq(Cells)
      /\ \A k \in 1 .. Len(unread') : unread'[k] = ReadAt("crypt", d + k - 1)
  <2>1. "crypt" \in Users \ {"encrypt"}
    BY DEF Users
  <2>2. /\ s \in Seq(Cells)
        /\ \A u \in Users \ {"encrypt"} : \A k \in 1 .. Len(s) : s[k] = ReadAt(u, d + k - 1)
    BY <1>2, <1>3, CipherRead
  <2> HIDE DEF s
  <2>3. QED
    BY <1>12, <2>1, <2>2
<1> HIDE DEF s
<1>5. texts \in [Users -> Seq(Cells)] /\ context = [u \in Users |-> ContextAt(PlaceOf(u))]
  BY <1>2 DEF ChaChaInv, Cells
<1>6. /\ texts' \in [Users -> Seq(Cells)] /\ texts'["crypt"] = <<>> /\ Len(texts'["crypt"]) = 0
      /\ \A u \in Users \ {"crypt"} : texts'[u] = texts[u]
  BY <1>2, <1>5 DEF Users
<1>7. /\ PlaceOf("crypt")' = d /\ PlaceOf(user)' = d /\ StartOf("crypt")' = d
      /\ \A u \in Users \ {"crypt"} : PlaceOf(u)' = PlaceOf(u) /\ StartOf(u)' = StartOf(u)
  <2>0. d + 0 = d
    <3>1. \A x \in Nat : x + 0 = x
      OBVIOUS
    <3>2. QED
      BY <1>3, <3>1, Zenon
  <2>1. StartOf("crypt")' = d
    BY Zenon DEF StartOf
  <2>2. PlaceOf("crypt")' = StartOf("crypt")' + Len(texts'["crypt"])
    BY DEF PlaceOf
  <2>3. PlaceOf("crypt")' = d
    BY <1>6, <2>0, <2>1, <2>2
  <2>4. PlaceOf(user)' = PlaceOf("crypt")'
    BY <1>2 DEF PlaceOf, StartOf
  <2>5. \A u \in Users \ {"crypt"} : PlaceOf(u)' = PlaceOf(u) /\ StartOf(u)' = StartOf(u)
    BY <1>6 DEF PlaceOf, StartOf
  <2>6. QED
    BY <2>1, <2>3, <2>4, <2>5
<1>8. context' = [u \in Users |-> ContextAt(PlaceOf(u)')]
  BY <1>2, <1>5, <1>7
<1>9. \A u \in Users : \A k \in 1 .. Len(texts'[u]) : texts'[u][k] = WrittenAt(u, StartOf(u)' + k - 1)
  <2> TAKE u \in Users
  <2>1. CASE u = "crypt"
    BY <1>6, <2>1
  <2>2. CASE u # "crypt"
    BY <1>2, <1>6, <1>7, <2>2 DEF ChaChaInv
  <2>3. QED
    BY <2>1, <2>2
<1>10. PlaceOf("encrypt")' <= MaxPlain
  BY <1>2, <1>7 DEF ChaChaInv, Users
<1>11. QED
  BY <1>2, <1>3, <1>4, <1>6, <1>7, <1>8, <1>9, <1>10 DEF ChaChaInv, Cells

LEMMA DiscardKeeps == ChaChaInv /\ Discard => ChaChaInv'
<1> SUFFICES ASSUME ChaChaInv, Discard PROVE ChaChaInv'
  OBVIOUS
<1>1. /\ unread' = <<>> /\ UNCHANGED <<keyed, context, user, start>>
      /\ texts' = [texts EXCEPT ![user] = @ \o [i \in DOMAIN unread |-> <<0, {}>>]]
      /\ context[user].partial >= Block
  BY DEF Discard
<1>2. user \in Users /\ texts \in [Users -> Seq(Cells)] /\ unread \in Seq(Cells) /\ Len(unread) \in Nat
  BY LenProperties DEF ChaChaInv, Cells
<1>3. ~keyed
  <2> SUFFICES ASSUME keyed PROVE FALSE
    OBVIOUS
  <2>1. context[user].partial = PlaceOf(user) % Block /\ PlaceOf(user) \in Nat
    <3>1. context[user] = ContextAt(PlaceOf(user))
      BY <1>2 DEF ChaChaInv
    <3>2. ContextAt(PlaceOf(user)).partial = PlaceOf(user) % Block
      BY DEF ContextAt
    <3>3. QED
      BY <1>2, <3>1, <3>2, PlacesTyped
  <2>2. PlaceOf(user) % Block \in 0 .. Block - 1
    BY <2>1, ChaChaConstants, Divided
  <2>3. QED
    BY <1>1, <2>1, <2>2, ChaChaConstants
<1> DEFINE z == [i \in DOMAIN unread |-> <<0, {}>>]
           t == texts[user]
<1>4. z \in Seq(Cells) /\ Len(z) = Len(unread) /\ \A i \in 1 .. Len(unread) : z[i] = <<0, {}>>
  <2>1. z \in [1 .. Len(unread) -> Cells]
    BY <1>2, LenProperties DEF Cells
  <2>2. \A i \in 1 .. Len(unread) : z[i] = <<0, {}>>
    BY <1>2, LenProperties
  <2> HIDE DEF z
  <2>3. z \in Seq(Cells) /\ Len(z) = Len(unread)
    BY <1>2, <2>1, MadeSeq
  <2>4. QED
    BY <2>2, <2>3
<1>5. t \in Seq(Cells) /\ Len(t) \in Nat /\ \A k \in 1 .. Len(t) : t[k] = <<0, {}>>
  BY <1>2, <1>3, LenProperties DEF ChaChaInv
<1> HIDE DEF z
<1>6. /\ t \o z \in Seq(Cells)
      /\ \A k \in 1 .. Len(t \o z) : (t \o z)[k] = <<0, {}>>
  <2> HIDE DEF t
  <2>1. t \o z \in Seq(Cells) /\ Len(t \o z) = Len(t) + Len(z)
    BY <1>4, <1>5, ConcatProperties
  <2>2. \A k \in 1 .. Len(t) + Len(z) : (t \o z)[k] = IF k <= Len(t) THEN t[k] ELSE z[k - Len(t)]
    BY <1>4, <1>5, ConcatProperties
  <2>3. ASSUME NEW k \in 1 .. Len(t) + Len(z) PROVE (t \o z)[k] = <<0, {}>>
    <3>1. CASE k <= Len(t)
      BY <1>5, <2>2, <3>1
    <3>2. CASE ~ k <= Len(t)
      <4>1. k - Len(t) \in 1 .. Len(unread)
        BY <1>2, <1>4, <1>5, <3>2
      <4>2. QED
        BY <1>4, <2>2, <3>2, <4>1
    <3>3. QED
      BY <3>1, <3>2
  <2>4. QED
    BY <2>1, <2>3
<1>7. texts' = [texts EXCEPT ![user] = t \o z]
  BY <1>1 DEF z
<1> HIDE DEF t
<1>8. texts' \in [Users -> Seq(Cells)]
  BY <1>2, <1>6, <1>7
<1>9. \A u \in Users : \A k \in 1 .. Len(texts'[u]) : texts'[u][k] = <<0, {}>>
  <2> TAKE u \in Users
  <2>1. CASE u = user
    BY <1>2, <1>6, <1>7, <2>1
  <2>2. CASE u # user
    <3>1. texts'[u] = texts[u]
      BY <1>2, <1>7, <2>2
    <3>2. QED
      BY <1>3, <3>1 DEF ChaChaInv
  <2>3. QED
    BY <2>1, <2>2
<1>10. unread' \in Seq(Cells)
  BY <1>1
<1>11. QED
  BY <1>1, <1>3, <1>8, <1>9, <1>10 DEF ChaChaInv, Cells

\* Once round the loop of util_chacha20_encrypt().
LEMMA EncryptKeeps == ChaChaInv /\ EncryptBlock => ChaChaInv'
<1> SUFFICES ASSUME ChaChaInv, EncryptBlock PROVE ChaChaInv'
  OBVIOUS
<1> DEFINE P    == PlaceOf(user)
           c    == ContextAt(P)
           jlen == IF c.partial + Len(unread) < Block THEN c.partial + Len(unread) ELSE Block
           n    == jlen - c.partial
           m    == [i \in 1 .. n |-> Masked(unread[i], Keystream(c)[c.partial + i - 1])]
           t    == texts[user]
<1>1. /\ user \in Users /\ texts \in [Users -> Seq(Cells)] /\ unread \in Seq(Cells) /\ Len(unread) \in Nat
      /\ start \in Nat /\ t \in Seq(Cells) /\ Len(t) \in Nat /\ StartOf(user) \in Nat /\ P \in Nat
      /\ P = StartOf(user) + Len(t)
      /\ Block \in Nat /\ Block > 0 /\ MaxPlain \in Nat
  <2>1. user \in Users /\ texts \in [Users -> Seq(Cells)] /\ unread \in Seq(Cells) /\ start \in Nat
    BY DEF ChaChaInv, Cells
  <2>2. QED
    BY <2>1, PlacesTyped, LenProperties, ChaChaConstants DEF PlaceOf
<1>2. unread # <<>> /\ context[user].partial < Block /\ UNCHANGED <<keyed, user, start>>
  BY DEF EncryptBlock
<1>3. keyed
  <2> SUFFICES ASSUME ~keyed PROVE FALSE
    OBVIOUS
  <2>1. context[user].partial = Block
    BY <1>1 DEF ChaChaInv, ContextFor
  <2>2. QED
    BY <1>1, <1>2, <2>1
<1>4. context = [u \in Users |-> ContextAt(PlaceOf(u))] /\ context[user] = c
  BY <1>1, <1>3 DEF ChaChaInv
<1>5. /\ texts' = [texts EXCEPT ![user] = t \o m]
      /\ unread' = SubSeq(unread, n + 1, Len(unread))
      /\ context' = [context EXCEPT ![user] = IF jlen # Block THEN [c EXCEPT !.partial = jlen] ELSE NextBlock(c)]
  <2> PICK x : x = c
    OBVIOUS
  <2>1. context[user] = x
    BY <1>4
  <2> HIDE DEF c
  <2>2. QED
    BY <2>1 DEF EncryptBlock
<1>6. c.partial \in 0 .. Block - 1 /\ Len(unread) > 0
  <2>1. P % Block \in 0 .. Block - 1
    BY <1>1, Divided
  <2>2. Len(unread) > 0
    BY <1>1, <1>2, EmptySeq
  <2>3. QED
    BY <2>1, <2>2 DEF ContextAt
<1> HIDE DEF P, c, t
<1>7. n \in Nat /\ n > 0 /\ n <= Len(unread) /\ c.partial + n <= Block /\ jlen = c.partial + n
  BY <1>1, <1>6
<1> HIDE DEF n, jlen
<1>8. /\ \A i \in 1 .. n : Keystream(c)[c.partial + i - 1] = StreamByte(P + i - 1)
      /\ (IF jlen # Block THEN [c EXCEPT !.partial = jlen] ELSE NextBlock(c)) = ContextAt(P + n)
  BY <1>1, <1>7, Onward DEF c
<1>9. m \in Seq(Cells) /\ Len(m) = n /\ \A i \in 1 .. n : m[i] = WrittenAt(user, P + i - 1)
  <2>1. ASSUME NEW i \in 1 .. n
        PROVE  /\ Masked(unread[i], Keystream(c)[c.partial + i - 1]) = WrittenAt(user, P + i - 1)
               /\ WrittenAt(user, P + i - 1) \in Cells
    <3>1. i \in 1 .. Len(unread) /\ P + i - 1 \in Nat
      BY <1>1, <1>7
    <3>2. unread[i] = ReadAt(user, P + i - 1)
      BY <1>3, <3>1 DEF ChaChaInv, P
    <3>3. Keystream(c)[c.partial + i - 1] = StreamByte(P + i - 1)
      BY <1>8
    <3>4. Masked(unread[i], Keystream(c)[c.partial + i - 1]) = WrittenAt(user, P + i - 1)
      BY <3>2, <3>3, MaskedOnce
    <3> PICK p : p = P + i - 1
      OBVIOUS
    <3>5. p \in Nat /\ p + 1 \in Nat
      BY <3>1
    <3>8. StreamByte(p) \in Nat \X Nat \X Nat
      BY <3>5, StreamByteTyped, Zenon
    <3>6. WrittenAt(user, P + i - 1) \in Cells
      BY <3>5, <3>8 DEF WrittenAt, Cells
    <3>7. QED
      BY <3>4, <3>6
  <2>2. m \in [1 .. n -> Cells] /\ \A i \in 1 .. n : m[i] = WrittenAt(user, P + i - 1)
    BY <2>1
  <2> HIDE DEF m
  <2>3. m \in Seq(Cells) /\ Len(m) = n
    BY <1>7, <2>2, MadeSeq
  <2>4. QED
    BY <2>2, <2>3
<1> HIDE DEF m
<1>10. /\ t \o m \in Seq(Cells) /\ Len(t \o m) = Len(t) + n
       /\ \A k \in 1 .. Len(t) + n : (t \o m)[k] = IF k <= Len(t) THEN t[k] ELSE m[k - Len(t)]
  BY <1>1, <1>9, ConcatProperties
<1>11. /\ texts' \in [Users -> Seq(Cells)] /\ texts'[user] = t \o m
       /\ \A u \in Users : u # user => texts'[u] = texts[u]
  BY <1>1, <1>5, <1>10
<1>12. /\ \A u : StartOf(u)' = StartOf(u)
       /\ PlaceOf(user)' = P + n
       /\ \A u \in Users : u # user => PlaceOf(u)' = PlaceOf(u)
  <2>1. \A u : StartOf(u)' = StartOf(u)
    BY <1>2 DEF StartOf
  <2>2. PlaceOf(user)' = StartOf(user) + Len(texts'[user])
    BY <1>2, <2>1 DEF PlaceOf, StartOf
  <2>3. \A u \in Users : u # user => PlaceOf(u)' = PlaceOf(u)
    BY <1>2, <1>11 DEF PlaceOf, StartOf
  <2>4. PlaceOf(user)' = P + n
    BY <1>1, <1>7, <1>10, <1>11, <2>2
  <2>5. QED
    BY <2>1, <2>3, <2>4
<1>13. context' = [u \in Users |-> ContextAt(PlaceOf(u)')]
  <2>1. context' = [context EXCEPT ![user] = ContextAt(P + n)]
    BY <1>5, <1>8
  <2>2. \A u \in Users : PlaceOf(u)' = IF u = user THEN P + n ELSE PlaceOf(u)
    <3>1. ASSUME NEW u \in Users, u = user PROVE PlaceOf(u)' = P + n
      <4>1. PlaceOf(u)' = PlaceOf(user)'
        BY <1>2, <3>1 DEF PlaceOf, StartOf
      <4>2. QED
        BY <1>12, <4>1
    <3>2. QED
      BY <1>12, <3>1
  <2>3. QED
    BY <1>1, <1>4, <2>1, <2>2
<1>14. \A u \in Users : \A k \in 1 .. Len(texts'[u]) : texts'[u][k] = WrittenAt(u, StartOf(u)' + k - 1)
  <2> TAKE u \in Users
  <2>1. CASE u = user
    <3> TAKE k \in 1 .. Len(texts'[u])
    <3>1. k \in 1 .. Len(t) + n /\ texts'[u][k] = IF k <= Len(t) THEN t[k] ELSE m[k - Len(t)]
      BY <1>10, <1>11, <2>1
    <3>2. CASE k <= Len(t)
      <4>1. k \in 1 .. Len(t)
        BY <1>1, <1>7, <3>1, <3>2
      <4>2. t[k] = WrittenAt(user, StartOf(user) + k - 1)
        BY <1>1, <1>3, <4>1 DEF ChaChaInv, t
      <4>3. QED
        BY <1>12, <2>1, <3>1, <3>2, <4>2
    <3>3. CASE ~ k <= Len(t)
      <4> DEFINE j == k - Len(t)
      <4>1. j \in 1 .. n /\ P + j - 1 = StartOf(user) + k - 1
        BY <1>1, <1>7, <3>1, <3>3
      <4>2. m[j] = WrittenAt(user, P + j - 1)
        BY <1>9, <4>1
      <4>3. QED
        BY <1>12, <2>1, <3>1, <3>3, <4>1, <4>2
    <3>4. QED
      BY <3>2, <3>3
  <2>2. CASE u # user
    BY <1>3, <1>11, <1>12, <2>2 DEF ChaChaInv
  <2>3. QED
    BY <2>1, <2>2
<1>15. /\ unread' \in Seq(Cells) /\ Len(unread') = Len(unread) - n
       /\ \A k \in 1 .. Len(unread') : unread'[k] = ReadAt(user, (P + n) + k - 1)
  <2> DEFINE L == Len(unread)
             s == SubSeq(unread, n + 1, L)
  <2>1. s \in Seq(Cells) /\ Len(s) = L - n /\ \A k \in 1 .. L - n : s[k] = unread[n + k]
    BY <1>1, <1>7, PartOfSeq
  <2>2. \A k \in 1 .. L - n : unread[n + k] = ReadAt(user, (P + n) + k - 1)
    <3> TAKE k \in 1 .. L - n
    <3>1. n + k \in 1 .. L /\ (P + n) + k - 1 = P + (n + k) - 1
      BY <1>1, <1>7
    <3>2. unread[n + k] = ReadAt(user, P + (n + k) - 1)
      BY <1>3, <3>1 DEF ChaChaInv, P
    <3>3. QED
      BY <3>1, <3>2
  <2>3. unread' = s
    BY <1>5
  <2> HIDE DEF s
  <2>4. QED
    BY <2>1, <2>2, <2>3
<1>16. /\ PlaceOf("encrypt")' <= MaxPlain
       /\ user' = "encrypt" => PlaceOf("encrypt")' + Len(unread') <= MaxPlain
  <2>1. PlaceOf("encrypt") <= MaxPlain /\ (user = "encrypt" => PlaceOf("encrypt") + Len(unread) <= MaxPlain)
    BY <1>3 DEF ChaChaInv
  <2>2. CASE user = "encrypt"
    <3>1. PlaceOf("encrypt")' = P + n /\ PlaceOf("encrypt") = P
      <4>1. PlaceOf("encrypt")' = PlaceOf(user)'
        BY <1>2, <2>2 DEF PlaceOf, StartOf
      <4>2. QED
        BY <1>12, <2>2, <4>1 DEF P
    <3>2. P + Len(unread) <= MaxPlain
      <4>1. PlaceOf("encrypt") + Len(unread) <= MaxPlain
        BY <2>1, <2>2, Zenon
      <4>2. QED
        BY <3>1, <4>1, Zenon
    <3>3. QED
      BY <1>1, <1>7, <1>15, <3>1, <3>2
  <2>3. CASE user # "encrypt"
    BY <1>2, <1>12, <2>1, <2>3 DEF Users
  <2>4. QED
    BY <2>2, <2>3
<1>17. \A k \in 1 .. Len(unread') : unread'[k] = ReadAt(user', PlaceOf(user)' + k - 1)
  BY <1>2, <1>12, <1>15
<1>18. keyed' /\ keyed' \in BOOLEAN /\ user' \in Users /\ start' \in Nat
  BY <1>1, <1>2, <1>3 DEF ChaChaInv
<1>19. QED
  BY <1>11, <1>13, <1>14, <1>15, <1>16, <1>17, <1>18 DEF ChaChaInv, Cells

LEMMA ChaChaNextInv == ChaChaInv /\ [ChaChaNext]_chachaVars => ChaChaInv'
<1> SUFFICES ASSUME ChaChaInv, [ChaChaNext]_chachaVars PROVE ChaChaInv'
  OBVIOUS
<1>1. CASE UNCHANGED chachaVars
  <2>1. UNCHANGED <<keyed, context, user, unread, texts, start>>
    BY <1>1 DEF chachaVars
  <2>2. \A u : StartOf(u)' = StartOf(u) /\ PlaceOf(u)' = PlaceOf(u)
    BY <2>1 DEF StartOf, PlaceOf
  <2>3. PlaceOf(user)' = PlaceOf(user)
    BY <2>1 DEF StartOf, PlaceOf
  <2>4. QED
    BY <2>1, <2>2, <2>3 DEF ChaChaInv
<1>2. QED
  BY <1>1, EncryptStarts, DecryptStarts, CryptStarts, DiscardKeeps, EncryptKeeps DEF ChaChaNext

LEMMA IsPlain ==
  ASSUME NEW s \in Seq(Cells), NEW b \in Nat, \A k \in 1 .. Len(s) : s[k] = <<(b + k - 1) + 1, {}>>
  PROVE  s = Plain(b, Len(s))
<1>1. s = [k \in 1 .. Len(s) |-> s[k]]
  BY LenProperties
<1>2. \A k \in 1 .. Len(s) : s[k] = <<b + k, {}>>
  <2>1. \A k \in 1 .. Len(s) : (b + k - 1) + 1 = b + k
    OBVIOUS
  <2>2. QED
    BY <2>1
<1>3. QED
  BY <1>1, <1>2 DEF Plain

\* Two places of a message have different bytes of keystream.
LEMMA StreamDiffers ==
  ASSUME NEW p \in Nat, NEW q \in Nat, p < MaxPlain, q < MaxPlain, StreamByte(p) = StreamByte(q)
  PROVE  p = q
<1>0. Block \in Nat /\ Block > 0 /\ Limb \in Nat /\ Limb > 0 /\ MaxPlain \in Nat
      /\ MaxPlain <= Limb * Limb * Block
  BY ChaChaConstants, ChaChaAssumption
<1>1. ASSUME NEW x \in Nat, x < MaxPlain
      PROVE  x \div Block \in Nat /\ (x \div Block) \div Limb \in 0 .. Limb - 1
  <2> DEFINE ll == Limb * Limb
  <2>1. ll \in Nat /\ MaxPlain <= ll * Block
    BY <1>0
  <2> HIDE DEF ll
  <2>2. x < Block * ll
    <3>1. ll * Block = Block * ll /\ ll * Block \in Nat
      BY <1>0, <2>1
    <3>2. QED
      BY <1>0, <1>1, <2>1, <3>1
  <2>3. x \div Block \in Nat /\ x \div Block < Limb * Limb
    BY <1>0, <1>1, <2>1, <2>2, Divided, DivBelow DEF ll
  <2>4. (x \div Block) \div Limb \in Nat /\ (x \div Block) \div Limb < Limb
    BY <1>0, <2>3, Divided, DivBelow
  <2>5. QED
    BY <1>0, <2>3, <2>4
<1>2. \A y \in 0 .. Limb - 1 : y % Limb = y
  <2> TAKE y \in 0 .. Limb - 1
  <2>1. 0 * Limb + y = y /\ y \in Nat
    BY <1>0
  <2>2. QED
    BY <1>0, <2>1, InBlock
<1> DEFINE P == p \div Block
           Q == q \div Block
<1>3. P \in Nat /\ Q \in Nat /\ P \div Limb \in 0 .. Limb - 1 /\ Q \div Limb \in 0 .. Limb - 1
  BY <1>1
<1>4. (P \div Limb) % Limb = (Q \div Limb) % Limb /\ P % Limb = Q % Limb /\ p % Block = q % Block
  BY DEF StreamByte
<1> HIDE DEF P, Q
<1>5. P \div Limb = Q \div Limb
  BY <1>2, <1>3, <1>4
<1>6. P = Q
  BY <1>0, <1>3, <1>4, <1>5, SameNumber
<1>7. QED
  BY <1>0, <1>4, <1>6, SameNumber DEF P, Q

LEMMA RoundTripImplied == ChaChaInv => RoundTrip
<1> SUFFICES ASSUME ChaChaInv PROVE RoundTrip
  OBVIOUS
<1>1. CASE keyed
  <2>1. \A u \in Users : /\ texts[u] \in Seq(Cells) /\ Len(texts[u]) \in Nat /\ StartOf(u) \in Nat
                         /\ DOMAIN texts[u] = 1 .. Len(texts[u])
                         /\ \A k \in 1 .. Len(texts[u]) : texts[u][k] = WrittenAt(u, StartOf(u) + k - 1)
    BY <1>1, PlacesTyped, LenProperties DEF ChaChaInv
  <2>2. "encrypt" \in Users /\ "decrypt" \in Users /\ "crypt" \in Users
    BY DEF Users
  <2>3. texts["decrypt"] = Plain(0, Len(texts["decrypt"]))
    <3>1. \A k \in 1 .. Len(texts["decrypt"]) : texts["decrypt"][k] = <<(0 + k - 1) + 1, {}>>
      BY <2>1, <2>2 DEF WrittenAt, StartOf
    <3>2. QED
      BY <2>1, <2>2, <3>1, IsPlain
  <2>4. texts["crypt"] = Plain(start, Len(texts["crypt"]))
    <3>1. \A k \in 1 .. Len(texts["crypt"]) : texts["crypt"][k] = <<(start + k - 1) + 1, {}>>
      BY <2>1, <2>2 DEF WrittenAt, StartOf
    <3>2. start \in Nat
      BY DEF ChaChaInv
    <3>3. QED
      BY <2>1, <2>2, <3>1, <3>2, IsPlain
  <2> DEFINE t == texts["encrypt"]
  <2>5. t \in Seq(Cells) /\ Len(t) \in Nat /\ DOMAIN t = 1 .. Len(t) /\ Len(t) <= MaxPlain
    <3>1. PlaceOf("encrypt") = 0 + Len(t) /\ PlaceOf("encrypt") <= MaxPlain
      BY <1>1 DEF ChaChaInv, PlaceOf, StartOf
    <3>2. QED
      BY <2>1, <2>2, <3>1
  <2>6. \A i \in 1 .. Len(t) : t[i][2] = {StreamByte(i - 1)} /\ i - 1 \in Nat /\ i - 1 < MaxPlain
    <3> TAKE i \in 1 .. Len(t)
    <3>1. t[i] = WrittenAt("encrypt", 0 + i - 1) /\ 0 + i - 1 = i - 1
      BY <2>1, <2>2, <2>5 DEF StartOf
    <3>2. t[i][2] = {StreamByte(i - 1)}
      BY <3>1 DEF WrittenAt
    <3>3. QED
      BY <2>5, <3>2, ChaChaConstants
  <2>7. ASSUME NEW i \in DOMAIN t, NEW j \in DOMAIN t, i # j PROVE t[i][2] # t[j][2]
    <3> DEFINE p == i - 1
               q == j - 1
    <3>1. /\ p \in Nat /\ q \in Nat /\ p < MaxPlain /\ q < MaxPlain /\ p # q
          /\ t[i][2] = {StreamByte(p)} /\ t[j][2] = {StreamByte(q)}
      BY <2>5, <2>6, <2>7
    <3> HIDE DEF p, q
    <3>2. StreamByte(p) # StreamByte(q)
      BY <3>1, StreamDiffers
    <3>3. QED
      BY <3>1, <3>2
  <2>8. \A i \in DOMAIN t : t[i][2] # {}
    BY <2>5, <2>6
  <2>9. QED
    BY <1>1, <2>3, <2>4, <2>7, <2>8 DEF RoundTrip
<1>2. CASE ~keyed
  <2>1. \A u \in Users : DOMAIN texts[u] = 1 .. Len(texts[u])
    BY PlacesTyped, LenProperties
  <2>2. QED
    BY <1>2, <2>1 DEF ChaChaInv, RoundTrip
<1>3. QED
  BY <1>1, <1>2

\* For any sizes of block, counter and calls and in any order of the calls: what was
\* decrypted, or read at an offset, is the message, no byte of keystream was used
\* twice, and a context with a rejected key gives nothing of it
\* (util_chacha20_encrypt(), util_chacha20_crypt()).
THEOREM SpecRoundTrip == ChaChaSpec => []RoundTrip
BY ChaChaInitInv, ChaChaNextInv, RoundTripImplied, PTL DEF ChaChaSpec

(* The command line *)

Reads(n, r, args) == r = [k \in 0 .. n |-> IF k = 0 THEN Unread ELSE ReadArgument(r[k - 1], args[k])]

LEMMA ReadAllSteps ==
  ASSUME NEW args, Len(args) \in Nat
  PROVE  \E r : Reads(Len(args), r, args) /\ ReadAll(args) = r[Len(args)]
<1> DEFINE T == {n \in Nat : \E r : Reads(n, r, args)}
<1>1. 0 \in T
  <2>1. Reads(0, [k \in 0 .. 0 |-> Unread], args)
    BY DEF Reads
  <2>2. QED
    BY <2>1
<1>2. ASSUME NEW n \in Nat, n \in T PROVE n + 1 \in T
  <2>1. PICK r : Reads(n, r, args)
    BY <1>2
  <2> DEFINE s == [k \in 0 .. n + 1 |-> IF k = n + 1 THEN ReadArgument(r[n], args[n + 1]) ELSE r[k]]
  <2>2. ASSUME NEW k \in 0 .. n + 1
        PROVE  s[k] = IF k = 0 THEN Unread ELSE ReadArgument(s[k - 1], args[k])
    BY <2>1 DEF Reads
  <2>3. Reads(n + 1, s, args)
    BY <2>2 DEF Reads
  <2>4. QED
    BY <2>3
<1>3. Len(args) \in T
  BY <1>1, <1>2, Induction
<1>4. QED
  BY <1>3 DEF ReadAll, Reads

LEMMA ReadAppended ==
  ASSUME NEW S, NEW args \in Seq(S), NEW a \in S
  PROVE  ReadAll(Append(args, a)) = ReadArgument(ReadAll(args), a)
<1> DEFINE more == Append(args, a)
           N == Len(args)
<1>1. N \in Nat /\ Len(more) = N + 1 /\ more[N + 1] = a /\ \A i \in 1 .. N : more[i] = args[i]
  OBVIOUS
<1>2. PICK r : Reads(N, r, args) /\ ReadAll(args) = r[N]
  BY <1>1, ReadAllSteps
<1> HIDE DEF more, N
<1>3. PICK s : Reads(Len(more), s, more) /\ ReadAll(more) = s[Len(more)]
  BY <1>1, ReadAllSteps
<1>4. s[N + 1] = ReadArgument(s[N], a)
  BY <1>1, <1>3 DEF Reads
<1> DEFINE T == {n \in Nat : n <= N => s[n] = r[n]}
<1>5. 0 \in T
  BY <1>1, <1>2, <1>3 DEF Reads
<1>6. ASSUME NEW n \in Nat, n \in T PROVE n + 1 \in T
  <2>1. SUFFICES ASSUME n + 1 <= N PROVE s[n + 1] = r[n + 1]
    OBVIOUS
  <2>2. s[n + 1] = ReadArgument(s[n], more[n + 1]) /\ r[n + 1] = ReadArgument(r[n], args[n + 1])
    BY <1>1, <1>2, <1>3, <2>1 DEF Reads
  <2>3. s[n] = r[n] /\ more[n + 1] = args[n + 1]
    BY <1>1, <1>6, <2>1
  <2>4. QED
    BY <2>2, <2>3
<1>7. N \in T
  BY <1>1, <1>5, <1>6, Induction
<1>8. QED
  BY <1>1, <1>2, <1>3, <1>4, <1>7 DEF more

LEMMA ReadNothing == ReadAll(<<>>) = Unread
BY ReadAllSteps DEF Reads

Strips(n, r, args) ==
  r = [k \in 0 .. n |-> IF k = 0 THEN Uncut ELSE StripOne(r[k - 1], args[k])]

LEMMA StripAllSteps ==
  ASSUME NEW args, Len(args) \in Nat
  PROVE  \E r : Strips(Len(args), r, args) /\ StripAll(args) = r[Len(args)]
<1> DEFINE T == {n \in Nat : \E r : Strips(n, r, args)}
<1>1. 0 \in T
  <2>1. Strips(0, [k \in 0 .. 0 |-> Uncut], args)
    BY DEF Strips
  <2>2. QED
    BY <2>1
<1>2. ASSUME NEW n \in Nat, n \in T PROVE n + 1 \in T
  <2>1. PICK r : Strips(n, r, args)
    BY <1>2
  <2> DEFINE s == [k \in 0 .. n + 1 |-> IF k = n + 1 THEN StripOne(r[n], args[n + 1]) ELSE r[k]]
  <2>2. ASSUME NEW k \in 0 .. n + 1
        PROVE  s[k] = IF k = 0 THEN Uncut ELSE StripOne(s[k - 1], args[k])
    BY <2>1 DEF Strips
  <2>3. Strips(n + 1, s, args)
    BY <2>2 DEF Strips
  <2>4. QED
    BY <2>3
<1>3. Len(args) \in T
  BY <1>1, <1>2, Induction
<1>4. QED
  BY <1>3 DEF StripAll, Strips

LEMMA StripAppended ==
  ASSUME NEW S, NEW args \in Seq(S), NEW a \in S
  PROVE  StripAll(Append(args, a)) = StripOne(StripAll(args), a)
<1> DEFINE more == Append(args, a)
           N == Len(args)
<1>1. N \in Nat /\ Len(more) = N + 1 /\ more[N + 1] = a /\ \A i \in 1 .. N : more[i] = args[i]
  OBVIOUS
<1>2. PICK r : Strips(N, r, args) /\ StripAll(args) = r[N]
  BY <1>1, StripAllSteps
<1> HIDE DEF more, N
<1>3. PICK s : Strips(Len(more), s, more) /\ StripAll(more) = s[Len(more)]
  BY <1>1, StripAllSteps
<1>4. s[N + 1] = StripOne(s[N], a)
  BY <1>1, <1>3 DEF Strips
<1> DEFINE T == {n \in Nat : n <= N => s[n] = r[n]}
<1>5. 0 \in T
  BY <1>1, <1>2, <1>3 DEF Strips
<1>6. ASSUME NEW n \in Nat, n \in T PROVE n + 1 \in T
  <2>1. SUFFICES ASSUME n + 1 <= N PROVE s[n + 1] = r[n + 1]
    OBVIOUS
  <2>2. s[n + 1] = StripOne(s[n], more[n + 1]) /\ r[n + 1] = StripOne(r[n], args[n + 1])
    BY <1>1, <1>2, <1>3, <2>1 DEF Strips
  <2>3. s[n] = r[n] /\ more[n + 1] = args[n + 1]
    BY <1>1, <1>6, <2>1
  <2>4. QED
    BY <2>2, <2>3
<1>7. N \in T
  BY <1>1, <1>5, <1>6, Induction
<1>8. QED
  BY <1>1, <1>2, <1>3, <1>4, <1>7 DEF more

LEMMA StripNothing == StripAll(<<>>) = Uncut
BY StripAllSteps DEF Strips

\* What a child knows when its parent knows p: its own host, and of a file nothing.
ChildOf(p, h) ==
  [p EXCEPT !.hostname = h, !.filename = Bare(Empty), !.expects = IF p.expects = "f" THEN Empty ELSE p.expects]

SameButHost(h, args) ==
  ReadAll(args).outcome = "ok" /\ ReadAll(args).hostname = Empty =>
    /\ ReadAll(ChildArguments(h, args)) = ChildOf(ReadAll(args), h)
    /\ StripAll(args).drop <=> ReadAll(args).expects = "f"

Flags == {a.flag : a \in Args} \cup {Empty}
Rests == {a.rest : a \in Args} \cup Hosts \cup {Empty, "10", "A"}

Known == [type : Rests, hostname : Rests, filename : [flag : Flags, rest : Rests],
          workers : [flag : Flags, rest : Rests], verbose : Nat, debug : Nat, quiet : BOOLEAN,
          expects : {Empty, "f", "w"}, outcome : {"ok", "refused", "crashed"}]

LEMMA EmptyDiffers == Empty \notin {"f", "w", "v", "d", "q", "ok", "refused", "crashed"}
BY Zenon DEF Empty

LEMMA ArgsKnown == \A a \in Args : a \in [flag : Flags, rest : Rests] /\ (a.flag = Empty => a.rest # Empty)
<1>1. ASSUME NEW a \in Args PROVE a \in [flag : Flags, rest : Rests]
  <2>1. a \in [flag : STRING, rest : STRING] /\ a.flag \in Flags /\ a.rest \in Rests
    BY ArgumentsAssumption DEF Flags, Rests
  <2>2. QED
    BY <2>1
<1>2. QED
  BY <1>1, ArgumentsAssumption

ArgumentsInv ==
  /\ command \in Seq(Args)
  /\ ReadAll(command) \in Known
  /\ StripAll(command) \in [kept : Seq(Args), drop : BOOLEAN]
  /\ \A h \in Hosts \ Types : SameButHost(h, command)

LEMMA ReadKnown ==
  ASSUME NEW p \in Known, NEW a \in [flag : Flags, rest : Rests]
  PROVE  ReadArgument(p, a) \in Known
<1>1. ASSUME NEW o \in {"refused", "crashed"} PROVE Ends(p, o) \in Known
  BY DEF Known, Ends
<1>2. ASSUME NEW b \in [flag : Flags, rest : Rests]
      PROVE  SetFilename(p, b) \in Known /\ SetWorkers(p, b) \in Known
  BY <1>1 DEF Known, SetFilename, SetWorkers
<1>3. Bare(a.rest) \in [flag : Flags, rest : Rests]
  BY DEF Bare, Flags
<1>4. ASSUME NEW e \in {"f", "w"} PROVE [p EXCEPT !.expects = e] \in Known
  BY DEF Known
<1>5. [p EXCEPT !.verbose = @ + 1] \in Known /\ [p EXCEPT !.debug = @ + 1] \in Known
  BY DEF Known
<1>6. /\ [p EXCEPT !.quiet = TRUE] \in Known /\ [p EXCEPT !.type = a.rest] \in Known
      /\ [p EXCEPT !.hostname = a.rest] \in Known
  BY DEF Known
<1>7. QED
  BY <1>1, <1>2, <1>3, <1>4, <1>5, <1>6, EmptyDiffers DEF ReadArgument, ReadOption, ReadWord

LEMMA StripKeeps ==
  ASSUME NEW s \in [kept : Seq(Args), drop : BOOLEAN], NEW a \in Args
  PROVE  StripOne(s, a) \in [kept : Seq(Args), drop : BOOLEAN]
<1>1. Append(s.kept, a) \in Seq(Args)
  OBVIOUS
<1>2. [s EXCEPT !.kept = Append(@, a)] \in [kept : Seq(Args), drop : BOOLEAN]
  BY <1>1
<1>3. ASSUME NEW d \in BOOLEAN PROVE [s EXCEPT !.drop = d] \in [kept : Seq(Args), drop : BOOLEAN]
  OBVIOUS
<1>4. (a.rest = Empty) \in BOOLEAN
  OBVIOUS
<1>5. QED
  BY <1>2, <1>3, <1>4 DEF StripOne

LEMMA SameKnown ==
  ASSUME NEW p \in Known, NEW q \in Known,
         p.type = q.type, p.hostname = q.hostname, p.filename = q.filename, p.workers = q.workers,
         p.verbose = q.verbose, p.debug = q.debug, p.quiet = q.quiet, p.expects = q.expects, p.outcome = q.outcome
  PROVE  p = q
BY DEF Known

LEMMA ChildOfKnown ==
  ASSUME NEW p \in Known, NEW h \in Hosts
  PROVE  /\ ChildOf(p, h) \in Known
         /\ ChildOf(p, h).type = p.type /\ ChildOf(p, h).hostname = h /\ ChildOf(p, h).filename = Bare(Empty)
         /\ ChildOf(p, h).workers = p.workers /\ ChildOf(p, h).verbose = p.verbose
         /\ ChildOf(p, h).debug = p.debug /\ ChildOf(p, h).quiet = p.quiet
         /\ ChildOf(p, h).expects = (IF p.expects = "f" THEN Empty ELSE p.expects)
         /\ ChildOf(p, h).outcome = p.outcome
<1>1. h \in Rests /\ Bare(Empty) \in [flag : Flags, rest : Rests]
  BY DEF Rests, Flags, Bare
<1> DEFINE e == IF p.expects = "f" THEN Empty ELSE p.expects
<1>2. e \in {Empty, "f", "w"}
  BY DEF Known
<1> HIDE DEF e
<1>3. [p EXCEPT !.hostname = h] \in Known /\ \A r \in Known : [r EXCEPT !.filename = Bare(Empty)] \in Known
  BY <1>1 DEF Known
<1>4. \A r \in Known : [r EXCEPT !.expects = e] \in Known
  BY <1>2 DEF Known
<1>5. ChildOf(p, h) = [[[p EXCEPT !.hostname = h] EXCEPT !.filename = Bare(Empty)] EXCEPT !.expects = e]
  BY DEF Known, ChildOf, e
<1> DEFINE one == [p EXCEPT !.hostname = h]
           two == [one EXCEPT !.filename = Bare(Empty)]
<1>6. /\ one \in Known /\ one.type = p.type /\ one.hostname = h /\ one.workers = p.workers /\ one.verbose = p.verbose
      /\ one.debug = p.debug /\ one.quiet = p.quiet /\ one.outcome = p.outcome
  BY <1>3 DEF Known
<1> HIDE DEF one
<1>7. /\ two \in Known /\ two.type = p.type /\ two.hostname = h /\ two.workers = p.workers /\ two.verbose = p.verbose
      /\ two.debug = p.debug /\ two.quiet = p.quiet /\ two.outcome = p.outcome /\ two.filename = Bare(Empty)
  BY <1>3, <1>6 DEF Known
<1>8. ChildOf(p, h) = [two EXCEPT !.expects = e]
  BY <1>5 DEF one
<1> HIDE DEF two
<1>9. QED
  BY <1>4, <1>7, <1>8 DEF Known, e

LEMMA ReadHost ==
  ASSUME NEW h \in Hosts \ Types
  PROVE  ReadArgument(Unread, Bare(h)) = [Unread EXCEPT !.hostname = h]
<1>1. Unread.outcome = "ok" /\ Unread.expects = Empty /\ Bare(h).flag = Empty /\ Bare(h).rest = h
  BY DEF Unread, Bare
<1> HIDE DEF Unread, Bare
<1>2. QED
  BY <1>1, EmptyDiffers DEF ReadArgument, ReadOption, ReadWord

LEMMA InitArgumentsInv == ArgumentsInit => ArgumentsInv
<1> SUFFICES ASSUME ArgumentsInit PROVE ArgumentsInv
  OBVIOUS
<1>1. command = <<>> /\ command \in Seq(Args)
  BY DEF ArgumentsInit
<1>2. Unread \in Known
  BY DEF Unread, Known, Bare, Flags, Rests
<1>3. ASSUME NEW h \in Hosts \ Types PROVE SameButHost(h, <<>>)
  <2>1. ChildArguments(h, <<>>) = Append(<<>>, Bare(h))
    <3>1. StripParameter(<<>>) = <<>>
      BY StripNothing DEF StripParameter, Uncut
    <3>2. <<Bare(h)>> \o <<>> = Append(<<>>, Bare(h))
      OBVIOUS
    <3>3. QED
      BY <3>1, <3>2 DEF ChildArguments
  <2>2. ReadAll(Append(<<>>, Bare(h))) = ReadArgument(ReadAll(<<>>), Bare(h))
    <3>1. <<>> \in Seq({Bare(h)}) /\ Bare(h) \in {Bare(h)}
      OBVIOUS
    <3>2. QED
      BY <3>1, ReadAppended
  <2>3. Unread.expects # "f" /\ [Unread EXCEPT !.hostname = h] = ChildOf(Unread, h)
    <3>1. Unread \in Known /\ Unread.expects = Empty
      BY <1>2 DEF Unread
    <3>2. ReadArgument(Unread, Bare(h)) = [Unread EXCEPT !.hostname = h] /\ h \in Rests
      BY ReadHost DEF Rests
    <3>3. [Unread EXCEPT !.hostname = h] \in Known
      BY <3>1, <3>2 DEF Known
    <3>4. Unread.filename = Bare(Empty)
      BY DEF Unread
    <3> DEFINE u == [Unread EXCEPT !.hostname = h]
    <3> HIDE DEF Unread
    <3>5. /\ u.type = Unread.type /\ u.hostname = h /\ u.filename = Bare(Empty) /\ u.workers = Unread.workers
          /\ u.verbose = Unread.verbose /\ u.debug = Unread.debug /\ u.quiet = Unread.quiet
          /\ u.expects = Unread.expects /\ u.outcome = Unread.outcome
      BY <3>1, <3>4 DEF Known
    <3> HIDE DEF u
    <3>6. u = ChildOf(Unread, h)
      <4>1. u \in Known
        BY <3>3 DEF u
      <4>2. QED
        BY <3>1, <3>5, <4>1, ChildOfKnown, SameKnown, EmptyDiffers
    <3>7. QED
      BY <3>1, <3>6, EmptyDiffers DEF u
  <2>4. ~StripAll(<<>>).drop
    BY StripNothing DEF Uncut
  <2>5. QED
    BY <2>1, <2>2, <2>3, <2>4, ReadHost, ReadNothing, EmptyDiffers DEF SameButHost
<1>4. Uncut \in [kept : Seq(Args), drop : BOOLEAN]
  BY DEF Uncut
<1>5. QED
  BY <1>1, <1>2, <1>3, <1>4, ReadNothing, StripNothing DEF ArgumentsInv

\* One more argument: the parent reads it, the copy keeps it or drops it, and the
\* child reads it if it was kept.
LEMMA OneMoreArgument ==
  ASSUME NEW p \in Known, NEW a \in Args, NEW h \in Hosts \ Types,
         ReadArgument(p, a).outcome = "ok", ReadArgument(p, a).hostname = Empty
  PROVE  /\ p.outcome = "ok" /\ p.hostname = Empty
         /\ p.expects = "f" => ChildOf(p, h) = ChildOf(ReadArgument(p, a), h) /\ ReadArgument(p, a).expects # "f"
         /\ p.expects # "f" /\ a.flag = "f" =>
              ChildOf(p, h) = ChildOf(ReadArgument(p, a), h) /\ (ReadArgument(p, a).expects = "f" <=> a.rest = Empty)
         /\ p.expects # "f" /\ a.flag # "f" =>
              ReadArgument(ChildOf(p, h), a) = ChildOf(ReadArgument(p, a), h) /\ ReadArgument(p, a).expects # "f"
<1>1. a \in [flag : Flags, rest : Rests] /\ (a.flag = Empty => a.rest # Empty)
  BY ArgsKnown
<1>2. p.outcome = "ok" /\ p.hostname = Empty
  BY <1>1, EmptyDiffers DEF Known, ReadArgument, ReadOption, ReadWord, SetFilename, SetWorkers, Ends
<1>3. ReadArgument(p, a) \in Known /\ ChildOf(p, h) \in Known /\ ChildOf(ReadArgument(p, a), h) \in Known /\ ReadArgument(ChildOf(p, h), a) \in Known
  BY <1>1, ReadKnown, ChildOfKnown
<1> DEFINE q == ReadArgument(p, a)
           c == ChildOf(p, h)
           d == ChildOf(q, h)
           r == ReadArgument(c, a)
<1>4. /\ c.type = p.type /\ c.hostname = h /\ c.filename = Bare(Empty) /\ c.workers = p.workers /\ c.verbose = p.verbose
      /\ c.debug = p.debug /\ c.quiet = p.quiet /\ c.expects = (IF p.expects = "f" THEN Empty ELSE p.expects)
      /\ c.outcome = p.outcome
  BY ChildOfKnown
<1>5. /\ d.type = q.type /\ d.hostname = h /\ d.filename = Bare(Empty) /\ d.workers = q.workers /\ d.verbose = q.verbose
      /\ d.debug = q.debug /\ d.quiet = q.quiet /\ d.expects = (IF q.expects = "f" THEN Empty ELSE q.expects)
      /\ d.outcome = q.outcome
  BY <1>3, ChildOfKnown
<1>6. c \in Known /\ d \in Known /\ r \in Known /\ q \in Known /\ q.outcome = "ok" /\ q.hostname = Empty /\ q = ReadArgument(p, a) /\ r = ReadArgument(c, a)
  BY <1>3
<1> HIDE DEF c, d, q, r
<1>7. CASE p.expects = "f"
  <2>1. /\ q.type = p.type /\ q.workers = p.workers /\ q.verbose = p.verbose /\ q.debug = p.debug /\ q.quiet = p.quiet
        /\ q.expects = Empty
    <3>1. a # Bare(Empty)
      BY <1>1 DEF Bare
    <3>2. q = [p EXCEPT !.filename = a, !.expects = Empty]
      BY <1>2, <1>6, <1>7, <3>1, EmptyDiffers DEF ReadArgument, ReadOption, ReadWord, SetFilename
    <3>3. QED
      BY <3>2 DEF Known
  <2>2. c = d
    BY <1>2, <1>4, <1>5, <1>6, <1>7, <2>1, EmptyDiffers, SameKnown
  <2>3. QED
    BY <1>2, <1>7, <2>1, <2>2, EmptyDiffers DEF c, d, q
<1>8. CASE p.expects = "w" \/ (p.expects = Empty /\ a.flag = "w" /\ a.rest # Empty)
  <2> DEFINE b == IF p.expects = "w" THEN a ELSE Bare(a.rest)
  <2>1. b \in [flag : Flags, rest : Rests] /\ ReadArgument(p, a) = SetWorkers(p, b) /\ ReadArgument(c, a) = SetWorkers(c, b)
    <3>1. CASE p.expects = "w"
      BY <1>1, <1>2, <1>4, <3>1, EmptyDiffers DEF ReadArgument, ReadOption, ReadWord
    <3>2. CASE p.expects = Empty /\ a.flag = "w" /\ a.rest # Empty
      <4>1. b = Bare(a.rest) /\ b \in [flag : Flags, rest : Rests]
        BY <1>1, <3>2, EmptyDiffers DEF Bare, Flags
      <4> HIDE DEF b
      <4>2. QED
        BY <1>1, <1>2, <1>4, <3>2, <4>1, EmptyDiffers DEF ReadArgument, ReadOption, ReadWord
    <3>3. QED
      BY <1>8, <3>1, <3>2
  <2> HIDE DEF b
  <2>2. b.flag = Empty /\ b.rest \in Numbers
    BY <1>6, <2>1 DEF SetWorkers, Ends, Known
  <2>3. q = [p EXCEPT !.workers = b, !.expects = Empty] /\ r = [c EXCEPT !.workers = b, !.expects = Empty]
    BY <1>6, <2>1, <2>2 DEF SetWorkers
  <2>4. r = d
    <3>1. /\ q.type = p.type /\ q.workers = b /\ q.verbose = p.verbose /\ q.debug = p.debug /\ q.quiet = p.quiet
          /\ q.expects = Empty
      BY <2>3 DEF Known
    <3>2. /\ r.type = c.type /\ r.hostname = c.hostname /\ r.filename = c.filename /\ r.workers = b
          /\ r.verbose = c.verbose /\ r.debug = c.debug /\ r.quiet = c.quiet /\ r.expects = Empty /\ r.outcome = c.outcome
      BY <1>6, <2>3 DEF Known
    <3>3. QED
      BY <1>2, <1>4, <1>5, <1>6, <3>1, <3>2, EmptyDiffers, SameKnown
  <2>5. q.expects = Empty /\ a.flag # "f"
    BY <1>8, <2>2, <2>3, EmptyDiffers DEF Known, b
  <2>6. QED
    BY <1>2, <1>8, <2>4, <2>5, EmptyDiffers DEF c, d, q, r
<1>9. CASE p.expects = Empty /\ a.flag = "f"
  <2>1. /\ q.type = p.type /\ q.workers = p.workers /\ q.verbose = p.verbose /\ q.debug = p.debug /\ q.quiet = p.quiet
        /\ q.expects = (IF a.rest = Empty THEN "f" ELSE Empty)
    BY <1>1, <1>2, <1>6, <1>9, EmptyDiffers DEF Known, ReadArgument, ReadOption, ReadWord, SetFilename, Ends
  <2>2. c = d
    BY <1>2, <1>4, <1>5, <1>6, <1>9, <2>1, EmptyDiffers, SameKnown
  <2>3. QED
    BY <1>2, <1>9, <2>1, <2>2, EmptyDiffers DEF c, d, q
<1>10. CASE p.expects = Empty /\ a.flag # "f" /\ ~(a.flag = "w" /\ a.rest # Empty)
  <2>1. \/ q = [p EXCEPT !.expects = "w"] /\ r = [c EXCEPT !.expects = "w"]
        \/ q = [p EXCEPT !.verbose = @ + 1] /\ r = [c EXCEPT !.verbose = @ + 1]
        \/ q = [p EXCEPT !.debug = @ + 1] /\ r = [c EXCEPT !.debug = @ + 1]
        \/ q = [p EXCEPT !.quiet = TRUE] /\ r = [c EXCEPT !.quiet = TRUE]
        \/ q = [p EXCEPT !.type = a.rest] /\ r = [c EXCEPT !.type = a.rest]
    <3>1. c.expects = Empty /\ c.outcome = "ok" /\ p.expects = Empty /\ p.outcome = "ok" /\ c.quiet = p.quiet
      BY <1>2, <1>4, <1>10, EmptyDiffers
    <3>2. CASE a.flag = "w"
      BY <1>6, <1>10, <3>1, <3>2, EmptyDiffers DEF ReadArgument, ReadOption, ReadWord
    <3>3. CASE a.flag = "v"
      <4>1. ~p.quiet
        BY <1>6, <3>1, <3>3, EmptyDiffers DEF ReadArgument, ReadOption, ReadWord, Ends, Known
      <4>2. QED
        BY <1>6, <3>1, <3>3, <4>1, EmptyDiffers DEF ReadArgument, ReadOption, ReadWord
    <3>4. CASE a.flag = "d"
      BY <1>6, <3>1, <3>4, EmptyDiffers DEF ReadArgument, ReadOption, ReadWord
    <3>5. CASE a.flag = "q"
      BY <1>6, <3>1, <3>5, EmptyDiffers DEF ReadArgument, ReadOption, ReadWord
    <3>6. CASE a.flag = Empty
      <4>1. a.rest \in Types
        BY <1>1, <1>6, <3>1, <3>6, EmptyDiffers DEF ReadArgument, ReadOption, ReadWord, Known
      <4>2. QED
        BY <1>6, <3>1, <3>6, <4>1, EmptyDiffers DEF ReadArgument, ReadOption, ReadWord
    <3>7. a.flag \in {"w", "v", "d", "q", Empty}
      BY <1>6, <1>10, <3>1, EmptyDiffers DEF ReadArgument, ReadOption, ReadWord, Ends, Known
    <3>8. QED
      BY <3>2, <3>3, <3>4, <3>5, <3>6, <3>7
  <2>2. r = d /\ q.expects # "f"
    BY <1>2, <1>4, <1>5, <1>6, <1>10, <2>1, EmptyDiffers, SameKnown DEF Known
  <2>3. QED
    BY <1>2, <1>10, <2>2, EmptyDiffers DEF c, d, q, r
<1>11. QED
  BY <1>7, <1>8, <1>9, <1>10 DEF Known

LEMMA NextArgumentsInv == ArgumentsInv /\ [ArgumentsNext]_command => ArgumentsInv'
<1> SUFFICES ASSUME ArgumentsInv, [ArgumentsNext]_command PROVE ArgumentsInv'
  OBVIOUS
<1>1. CASE UNCHANGED command
  BY <1>1 DEF ArgumentsInv, SameButHost, ChildArguments, StripParameter
<1>2. CASE ArgumentsNext
  <2>1. PICK a \in Args : command' = Append(command, a)
    BY <1>2 DEF ArgumentsNext
  <2> DEFINE p == ReadAll(command)
             s == StripAll(command)
  <2>2. command \in Seq(Args) /\ command' \in Seq(Args) /\ p \in Known /\ s \in [kept : Seq(Args), drop : BOOLEAN]
    BY <2>1 DEF ArgumentsInv
  <2>3. ReadAll(command') = ReadArgument(p, a) /\ StripAll(command') = StripOne(s, a)
    BY <2>1, <2>2, ReadAppended, StripAppended
  <2>4. ReadAll(command') \in Known /\ StripAll(command') \in [kept : Seq(Args), drop : BOOLEAN]
    BY <2>2, <2>3, ArgsKnown, ReadKnown, StripKeeps
  <2>5. ASSUME NEW h \in Hosts \ Types PROVE SameButHost(h, command')
    <3>1. SUFFICES ASSUME ReadArgument(p, a).outcome = "ok", ReadArgument(p, a).hostname = Empty
          PROVE  /\ ReadAll(ChildArguments(h, command')) = ChildOf(ReadArgument(p, a), h)
                 /\ StripOne(s, a).drop <=> ReadArgument(p, a).expects = "f"
      BY <2>3 DEF SameButHost
    <3>2. p.outcome = "ok" /\ p.hostname = Empty
      BY <2>2, <3>1, OneMoreArgument
    <3>3. ReadAll(ChildArguments(h, command)) = ChildOf(p, h) /\ (s.drop <=> p.expects = "f")
      BY <3>2 DEF ArgumentsInv, SameButHost
    <3>4. ChildArguments(h, command') = <<Bare(h)>> \o StripOne(s, a).kept /\ ChildArguments(h, command) = <<Bare(h)>> \o s.kept
      BY <2>3 DEF ChildArguments, StripParameter
    <3> HIDE DEF p, s
    <3>5. CASE p.expects = "f" \/ a.flag = "f"
      <4>1. StripOne(s, a).kept = s.kept /\ (StripOne(s, a).drop <=> ~s.drop /\ a.rest = Empty)
        BY <2>2, <3>3, <3>5 DEF StripOne
      <4>2. QED
        BY <2>2, <3>1, <3>3, <3>4, <3>5, <4>1, OneMoreArgument
    <3>6. CASE p.expects # "f" /\ a.flag # "f"
      <4>1. StripOne(s, a).kept = Append(s.kept, a) /\ ~StripOne(s, a).drop
        BY <2>2, <3>3, <3>6 DEF StripOne
      <4> DEFINE c == <<Bare(h)>> \o s.kept
      <4>2. c \in Seq(Args \cup {Bare(h)}) /\ <<Bare(h)>> \o Append(s.kept, a) = Append(c, a)
        <5>1. s.kept \in Seq(Args \cup {Bare(h)}) /\ <<Bare(h)>> \in Seq(Args \cup {Bare(h)})
          BY <2>2
        <5>2. QED
          BY <5>1
      <4>3. ReadAll(Append(c, a)) = ReadArgument(ReadAll(c), a)
        <5>1. a \in Args \cup {Bare(h)} /\ c \in Seq(Args \cup {Bare(h)})
          BY <4>2
        <5> HIDE DEF c
        <5>2. QED
          BY <5>1, ReadAppended
      <4>4. ReadAll(ChildArguments(h, command')) = ReadArgument(ChildOf(p, h), a)
        BY <3>3, <3>4, <4>1, <4>2, <4>3
      <4>5. QED
        BY <2>2, <3>1, <3>6, <4>1, <4>4, OneMoreArgument
    <3>7. QED
      BY <3>5, <3>6
  <2>6. QED
    BY <2>2, <2>4, <2>5 DEF ArgumentsInv
<1>3. QED
  BY <1>1, <1>2

\* The children resolve their host; see Arguments.
THEOREM SpecChildrenResolve == ArgumentsSpec => []ChildrenResolveTheirHost
<1>1. ArgumentsInv => ChildrenResolveTheirHost
  <2> SUFFICES ASSUME ArgumentsInv, NEW h \in Hosts \ Types, IsParent(ParseCommandLine(command))
      PROVE  ParseCommandLine(ChildArguments(h, command)) =
               [ParseCommandLine(command) EXCEPT !.hostname = h, !.filename = Bare(Empty)]
    BY DEF ChildrenResolveTheirHost
  <2> DEFINE p == ReadAll(command)
             c == ReadAll(ChildArguments(h, command))
  <2>1. p \in Known
    BY DEF ArgumentsInv
  <2>2. ParseCommandLine(command) = p /\ p.outcome = "ok" /\ p.hostname = Empty /\ p.expects = Empty
    BY <2>1 DEF ParseCommandLine, Lacking, IsParent, Known, Ends
  <2>3. c = ChildOf(p, h)
    BY <2>2 DEF ArgumentsInv, SameButHost
  <2>4. c = [p EXCEPT !.hostname = h, !.filename = Bare(Empty)] /\ c.outcome = "ok" /\ c.expects = Empty /\ c.hostname = h
    BY <2>1, <2>2, <2>3, EmptyDiffers DEF ChildOf, Known
  <2>5. ChildArguments(h, command) # <<>> /\ h # Empty
    BY ArgumentsAssumption DEF ChildArguments, StripParameter, ArgumentsInv
  <2>6. ParseCommandLine(ChildArguments(h, command)) = c
    <3> HIDE DEF c
    <3>1. QED
      BY <2>4, <2>5, EmptyDiffers DEF ParseCommandLine, Lacking, c
  <2>7. QED
    BY <2>2, <2>4, <2>6
<1>2. QED
  BY <1>1, InitArgumentsInv, NextArgumentsInv, PTL DEF ArgumentsSpec
(***************************************************************************)
(* HostField.  HostFieldRead, for every set of bytes and every length:     *)
(* what http_parse_host() has stored is the text and the port of the field *)
(* as a reader of the whole field would find them.                         *)
(***************************************************************************)
(* The first place of a code *)

IsFirst(k, s, i, codes) ==
  /\ k \in 1 .. Len(s) + 1
  /\ k <= Len(s) => k >= i /\ s[k] \in codes
  /\ \A j \in i .. k - 1 : s[j] \notin codes

LEMMA FirstExists ==
  ASSUME NEW S, NEW s \in Seq(S), NEW i \in Nat \ {0}, NEW codes
  PROVE  \E k : IsFirst(k, s, i, codes)
<1> DEFINE N == Len(s)
           P == {j \in Nat : i <= j /\ j <= N /\ s[j] \in codes}
<1>1. N \in Nat
  OBVIOUS
<1>2. CASE P = {}
  <2>1. IsFirst(N + 1, s, i, codes)
    BY <1>1, <1>2 DEF IsFirst
  <2>2. QED
    BY <2>1
<1>3. CASE P # {}
  <2>1. PICK k \in P : \A y \in P : k <= y
    BY <1>3, Smallest
  <2>2. \A j \in i .. k - 1 : j \notin P
    BY <2>1
  <2>3. IsFirst(k, s, i, codes)
    BY <1>1, <2>1, <2>2 DEF IsFirst
  <2>4. QED
    BY <2>3
<1>4. QED
  BY <1>2, <1>3

LEMMA FirstIs ==
  ASSUME NEW S, NEW s \in Seq(S), NEW i \in Nat \ {0}, NEW codes
  PROVE  /\ IsFirst(FirstFrom(s, i, codes), s, i, codes)
         /\ FirstFrom(s, i, codes) \in 1 .. Len(s) + 1
         /\ \A k : IsFirst(k, s, i, codes) => k = FirstFrom(s, i, codes)
<1> DEFINE f == FirstFrom(s, i, codes)
<1>1. Len(s) \in Nat
  OBVIOUS
<1>2. IsFirst(f, s, i, codes)
  <2>1. \E k \in 1 .. Len(s) + 1 : IsFirst(k, s, i, codes)
    BY FirstExists DEF IsFirst
  <2>2. f = CHOOSE k \in 1 .. Len(s) + 1 : IsFirst(k, s, i, codes)
    BY DEF FirstFrom, IsFirst
  <2>3. QED
    BY <2>1, <2>2
<1> HIDE DEF f
<1>3. ASSUME NEW k, IsFirst(k, s, i, codes) PROVE k = f
  BY <1>1, <1>2, <1>3 DEF IsFirst
<1>4. f \in 1 .. Len(s) + 1
  BY <1>2 DEF IsFirst
<1>5. QED
  BY <1>2, <1>3, <1>4 DEF f

LEMMA FirstAppended ==
  ASSUME NEW S, NEW s \in Seq(S), NEW c \in S, NEW i \in 1 .. Len(s) + 2, NEW codes
  PROVE  FirstFrom(Append(s, c), i, codes) =
           IF FirstFrom(s, i, codes) <= Len(s) THEN FirstFrom(s, i, codes)
           ELSE IF i <= Len(s) + 1 /\ c \in codes THEN Len(s) + 1 ELSE Len(s) + 2
<1> DEFINE t == Append(s, c)
           N == Len(s)
           f == FirstFrom(s, i, codes)
           g == IF f <= N THEN f ELSE IF i <= N + 1 /\ c \in codes THEN N + 1 ELSE N + 2
<1>1. N \in Nat /\ i \in Nat \ {0} /\ t \in Seq(S) /\ Len(t) = N + 1 /\ t[N + 1] = c /\ \A j \in 1 .. N : t[j] = s[j]
  OBVIOUS
<1>2. IsFirst(f, s, i, codes)
  BY <1>1, FirstIs
<1> HIDE DEF f, t, N
<1>3. IsFirst(g, t, i, codes)
  <2>1. f \in 1 .. N + 1 /\ (f <= N => f >= i /\ s[f] \in codes) /\ \A j \in i .. f - 1 : s[j] \notin codes
    BY <1>2 DEF IsFirst, N
  <2>2. g \in 1 .. N + 2
    BY <1>1, <2>1
  <2>3. g <= N + 1 => g >= i /\ t[g] \in codes
    BY <1>1, <2>1
  <2>4. ASSUME NEW j \in i .. g - 1 PROVE t[j] \notin codes
    BY <1>1, <2>1
  <2>5. QED
    BY <1>1, <2>2, <2>3, <2>4 DEF IsFirst
<1>4. QED
  <2>1. g = FirstFrom(t, i, codes)
    <3> HIDE DEF g
    <3>1. QED
      BY <1>1, <1>3, FirstIs
  <2>2. QED
    BY <2>1 DEF f, t, N

(* The number and the rest *)

NumberOf(n, r, s) ==
  r = [i \in 0 .. n |-> IF i = 0 THEN 0 ELSE Counted(r[i - 1], s[i])]

LEMMA DecimalSteps ==
  ASSUME NEW s, Len(s) \in Nat
  PROVE  \E r : NumberOf(Len(s), r, s) /\ Decimal(s) = r[Len(s)]
<1> DEFINE T == {n \in Nat : \E r : NumberOf(n, r, s)}
<1>1. 0 \in T
  <2>1. NumberOf(0, [i \in 0 .. 0 |-> 0], s)
    BY DEF NumberOf
  <2>2. QED
    BY <2>1
<1>2. ASSUME NEW n \in Nat, n \in T PROVE n + 1 \in T
  <2>1. PICK r : NumberOf(n, r, s)
    BY <1>2
  <2> DEFINE q == [i \in 0 .. n + 1 |->
                     IF i = n + 1 THEN Counted(r[n], s[n + 1]) ELSE r[i]]
  <2>2. ASSUME NEW i \in 0 .. n + 1
        PROVE  q[i] = IF i = 0 THEN 0 ELSE Counted(q[i - 1], s[i])
    BY <2>1 DEF NumberOf
  <2>3. NumberOf(n + 1, q, s)
    BY <2>2 DEF NumberOf
  <2>4. QED
    BY <2>3
<1>3. Len(s) \in T
  BY <1>1, <1>2, Induction
<1>4. QED
  BY <1>3 DEF Decimal, NumberOf

LEMMA DecimalAppended ==
  ASSUME NEW S, NEW s \in Seq(S), NEW c \in S
  PROVE  Decimal(Append(s, c)) = Counted(Decimal(s), c)
<1> DEFINE more == Append(s, c)
           N == Len(s)
<1>1. N \in Nat /\ Len(more) = N + 1 /\ more[N + 1] = c /\ \A i \in 1 .. N : more[i] = s[i]
  OBVIOUS
<1>2. PICK r : NumberOf(N, r, s) /\ Decimal(s) = r[N]
  BY <1>1, DecimalSteps
<1> HIDE DEF more, N
<1>3. PICK q : NumberOf(Len(more), q, more) /\ Decimal(more) = q[Len(more)]
  BY <1>1, DecimalSteps
<1>4. q[N + 1] = Counted(q[N], c)
  <2>1. N + 1 \in 0 .. Len(more) /\ N + 1 # 0 /\ (N + 1) - 1 = N
    BY <1>1
  <2>2. q[N + 1] = Counted(q[(N + 1) - 1], more[N + 1])
    BY <1>3, <2>1 DEF NumberOf
  <2>3. QED
    BY <1>1, <2>1, <2>2
<1> DEFINE T == {n \in Nat : n <= N => q[n] = r[n]}
<1>5. 0 \in T
  BY <1>1, <1>2, <1>3 DEF NumberOf
<1>6. ASSUME NEW n \in Nat, n \in T PROVE n + 1 \in T
  <2>1. SUFFICES ASSUME n + 1 <= N PROVE q[n + 1] = r[n + 1]
    OBVIOUS
  <2>2. /\ q[n + 1] = Counted(q[n], more[n + 1])
        /\ r[n + 1] = Counted(r[n], s[n + 1])
    BY <1>1, <1>2, <1>3, <2>1 DEF NumberOf
  <2>3. q[n] = r[n] /\ more[n + 1] = s[n + 1]
    BY <1>1, <1>6, <2>1
  <2>4. QED
    BY <2>2, <2>3
<1>7. N \in T
  BY <1>1, <1>5, <1>6, Induction
<1>8. QED
  BY <1>1, <1>2, <1>3, <1>4, <1>7 DEF more

LEMMA DecimalNothing == Decimal(<<>>) = 0
BY DecimalSteps DEF NumberOf

LeftOf(n, r, s) ==
  r = [i \in 0 .. n |-> IF i = 0 THEN <<>> ELSE WithoutDigit(r[i - 1], s[i])]

LEMMA NoDigitsSteps ==
  ASSUME NEW s, Len(s) \in Nat
  PROVE  \E r : LeftOf(Len(s), r, s) /\ NoDigits(s) = r[Len(s)]
<1> DEFINE T == {n \in Nat : \E r : LeftOf(n, r, s)}
<1>1. 0 \in T
  <2>1. LeftOf(0, [i \in 0 .. 0 |-> <<>>], s)
    BY DEF LeftOf
  <2>2. QED
    BY <2>1
<1>2. ASSUME NEW n \in Nat, n \in T PROVE n + 1 \in T
  <2>1. PICK r : LeftOf(n, r, s)
    BY <1>2
  <2> DEFINE q == [i \in 0 .. n + 1 |->
                     IF i = n + 1 THEN WithoutDigit(r[n], s[n + 1]) ELSE r[i]]
  <2>2. ASSUME NEW i \in 0 .. n + 1
        PROVE  q[i] = IF i = 0 THEN <<>> ELSE WithoutDigit(q[i - 1], s[i])
    BY <2>1 DEF LeftOf
  <2>3. LeftOf(n + 1, q, s)
    BY <2>2 DEF LeftOf
  <2>4. QED
    BY <2>3
<1>3. Len(s) \in T
  BY <1>1, <1>2, Induction
<1>4. QED
  BY <1>3 DEF NoDigits, LeftOf

LEMMA NoDigitsAppended ==
  ASSUME NEW S, NEW s \in Seq(S), NEW c \in S
  PROVE  NoDigits(Append(s, c)) = WithoutDigit(NoDigits(s), c)
<1> DEFINE more == Append(s, c)
           N == Len(s)
<1>1. N \in Nat /\ Len(more) = N + 1 /\ more[N + 1] = c /\ \A i \in 1 .. N : more[i] = s[i]
  OBVIOUS
<1>2. PICK r : LeftOf(N, r, s) /\ NoDigits(s) = r[N]
  BY <1>1, NoDigitsSteps
<1> HIDE DEF more, N
<1>3. PICK q : LeftOf(Len(more), q, more) /\ NoDigits(more) = q[Len(more)]
  BY <1>1, NoDigitsSteps
<1>4. q[N + 1] = WithoutDigit(q[N], c)
  BY <1>1, <1>3 DEF LeftOf
<1> DEFINE T == {n \in Nat : n <= N => q[n] = r[n]}
<1>5. 0 \in T
  BY <1>1, <1>2, <1>3 DEF LeftOf
<1>6. ASSUME NEW n \in Nat, n \in T PROVE n + 1 \in T
  <2>1. SUFFICES ASSUME n + 1 <= N PROVE q[n + 1] = r[n + 1]
    OBVIOUS
  <2>2. /\ q[n + 1] = WithoutDigit(q[n], more[n + 1])
        /\ r[n + 1] = WithoutDigit(r[n], s[n + 1])
    BY <1>1, <1>2, <1>3, <2>1 DEF LeftOf
  <2>3. q[n] = r[n] /\ more[n + 1] = s[n + 1]
    BY <1>1, <1>6, <2>1
  <2>4. QED
    BY <2>2, <2>3
<1>7. N \in T
  BY <1>1, <1>5, <1>6, Induction
<1>8. QED
  BY <1>1, <1>2, <1>3, <1>4, <1>7 DEF more

LEMMA NoDigitsNothing == NoDigits(<<>>) = <<>>
BY NoDigitsSteps DEF LeftOf

LEMMA NoDigitsSeq ==
  ASSUME NEW S, NEW s \in Seq(S)
  PROVE  NoDigits(s) \in Seq(S)
<1>1. PICK r : LeftOf(Len(s), r, s) /\ NoDigits(s) = r[Len(s)]
  BY NoDigitsSteps
<1> DEFINE T == {n \in Nat : n <= Len(s) => r[n] \in Seq(S)}
<1>2. 0 \in T
  BY <1>1 DEF LeftOf
<1>3. ASSUME NEW n \in Nat, n \in T PROVE n + 1 \in T
  <2>1. SUFFICES ASSUME n + 1 <= Len(s) PROVE r[n + 1] \in Seq(S)
    OBVIOUS
  <2>2. r[n + 1] = (WithoutDigit(r[n], s[n + 1])) /\ s[n + 1] \in S /\ r[n] \in Seq(S)
    BY <1>1, <1>3, <2>1 DEF LeftOf
  <2>3. QED
    BY <2>2 DEF WithoutDigit
<1>4. Len(s) \in Nat /\ Len(s) \in T
  <2>1. Len(s) \in Nat
    OBVIOUS
  <2>2. Nat \subseteq T
    <3> HIDE DEF T
    <3>1. QED
      BY <1>2, <1>3, Induction
  <2>3. QED
    BY <2>1, <2>2
<1>5. QED
  BY <1>1, <1>4

(* Parts of a value that grows *)

LEMMA PartSeq ==
  ASSUME NEW S, NEW s \in Seq(S), NEW m \in Nat \ {0}, NEW n \in 0 .. Len(s)
  PROVE  SubSeq(s, m, n) \in Seq(S)
BY SubSeqProperties

LEMMA PartKept ==
  ASSUME NEW S, NEW s \in Seq(S), NEW c \in S, NEW m \in Nat \ {0}, NEW n \in 0 .. Len(s)
  PROVE  SubSeq(Append(s, c), m, n) = SubSeq(s, m, n)
<1> DEFINE t == Append(s, c)
           a == SubSeq(t, m, n)
           b == SubSeq(s, m, n)
<1>1. t \in Seq(S) /\ Len(t) = Len(s) + 1 /\ Len(s) \in Nat /\ \A i \in 1 .. Len(s) : t[i] = s[i]
  OBVIOUS
<1> HIDE DEF t
<1>2. \A i \in m .. n : t[i] \in S /\ s[i] \in S /\ t[i] = s[i]
  BY <1>1
<1>3. /\ a \in Seq(S) /\ Len(a) = (IF m <= n THEN n - m + 1 ELSE 0) /\ \A i \in 1 .. n - m + 1 : a[i] = t[m + i - 1]
      /\ b \in Seq(S) /\ Len(b) = (IF m <= n THEN n - m + 1 ELSE 0) /\ \A i \in 1 .. n - m + 1 : b[i] = s[m + i - 1]
  BY <1>2, SubSeqProperties
<1> HIDE DEF a, b
<1>4. ASSUME NEW i \in 1 .. Len(a) PROVE a[i] = b[i]
  <2>1. i \in 1 .. n - m + 1 /\ m + i - 1 \in m .. n
    BY <1>1, <1>3
  <2>2. a[i] = t[m + i - 1] /\ b[i] = s[m + i - 1]
    BY <1>3, <2>1
  <2>3. QED
    BY <1>2, <2>1, <2>2
<1>5. a = b
  BY <1>3, <1>4, SeqEqual
<1>6. QED
  BY <1>5 DEF a, b, t

LEMMA PartGrows ==
  ASSUME NEW S, NEW s \in Seq(S), NEW c \in S, NEW m \in 1 .. Len(s) + 1
  PROVE  SubSeq(Append(s, c), m, Len(s) + 1) = Append(SubSeq(s, m, Len(s)), c)
<1> DEFINE t == Append(s, c)
           N == Len(s)
<1>1. t \in Seq(S) /\ Len(t) = N + 1 /\ N \in Nat /\ t[N + 1] = c
  OBVIOUS
<1>2. SubSeq(t, m, N + 1) = SubSeq(t, m, N) \o <<t[N + 1]>>
  <2>1. m \in 1 .. Len(t) /\ N + 1 \in m .. Len(t) /\ (N + 1) - 1 = N
    BY <1>1
  <2> HIDE DEF t, N
  <2>2. QED
    BY <1>1, <2>1, SubSeqRecursiveSecond
<1>3. SubSeq(t, m, N) = SubSeq(s, m, N)
  BY PartKept
<1>4. SubSeq(s, m, N) \in Seq(S)
  BY PartSeq
<1>5. SubSeq(s, m, N) \o <<c>> = Append(SubSeq(s, m, N), c)
  <2> HIDE DEF N
  <2>1. QED
    BY <1>4, AppendIsConcat
<1>6. QED
  BY <1>1, <1>2, <1>3, <1>5

LEMMA NoPart ==
  ASSUME NEW s, NEW m \in Int, NEW n \in Int, n < m
  PROVE  SubSeq(s, m, n) = <<>>
BY SubSeqEmpty

(* The invariant *)

States == {"START", "TEXT", "TEXT_SPACE", "IPV6", "PORT", "PORT_SPACE", "ERROR"}

HostTyped ==
  /\ host \in [state2 : States, offset : Nat, length : Nat, port : Nat, error : BOOLEAN,
               buf : Seq(HostBytes), room : Nat]
  /\ value \in Seq(HostBytes) /\ fields \in Nat /\ fields > 0
  /\ Len(host.buf) <= host.room

\* What the state says of the value's parts.
Placed ==
  LET N == Len(value) IN
  /\ host.state2 \in {"TEXT", "IPV6"} => Colon = N + 1 /\ (TextEnd = N + 1 \/ FieldEnded)
  /\ host.state2 = "TEXT_SPACE" => Colon = N + 1 /\ TextEnd <= N
  /\ host.state2 = "PORT" => Colon <= N /\ (PortEnd = N + 1 \/ FieldEnded)
  /\ host.state2 = "PORT_SPACE" => Colon <= N /\ PortEnd <= N
  /\ host.state2 \notin {"START", "ERROR"}

HostInv ==
  /\ HostTyped
  /\ fields = 1 /\ value = <<>> =>
       /\ host.state2 = "START" /\ host.offset = 0 /\ host.length = 0 /\ host.port = 0
       /\ host.buf = <<>> /\ ~host.error
  /\ fields = 1 /\ value # <<>> /\ ~host.error => Placed
  /\ HostFieldRead

LEMMA InitHostInv == HostInit => HostInv
BY HostAssumption DEF HostInit, HostInv, HostTyped, States, HostFieldRead

LEMMA ParseHostTyped ==
  ASSUME HostTyped, NEW c \in HostBytes
  PROVE  /\ ParseHost(host, c) \in [state2 : States, offset : Nat, length : Nat, port : Nat, error : BOOLEAN,
                                    buf : Seq(HostBytes), room : Nat]
         /\ Len(ParseHost(host, c).buf) <= ParseHost(host, c).room
<1> DEFINE Typed == [state2 : States, offset : Nat, length : Nat, port : Nat, error : BOOLEAN,
                     buf : Seq(HostBytes), room : Nat]
           h == Grown(host)
           Good(g) == g \in Typed /\ Len(g.buf) <= g.room
<1>1. h \in Typed /\ Len(h.buf) < h.room /\ Len(h.buf) \in Nat /\ h.room \in Nat
  <2>1. [host EXCEPT !.room = 2 * @ + 1] \in Typed
    BY DEF HostTyped
  <2>2. QED
    BY <2>1 DEF HostTyped, Grown
<1>2. ASSUME NEW s \in States, NEW g, Good(g) PROVE Good(HostState(g, s))
  <2>1. HostState(g, s) \in Typed /\ HostState(g, s).buf = g.buf /\ HostState(g, s).room = g.room
    BY <1>2 DEF HostState
  <2>2. QED
    BY <1>2, <2>1
<1>3. ASSUME NEW g, Good(g) PROVE Good(HostError(g))
  <2>1. HostError(g) \in Typed /\ HostError(g).buf = g.buf /\ HostError(g).room = g.room
    BY <1>3 DEF HostError
  <2>2. QED
    BY <1>3, <2>1
<1>4. ASSUME NEW g, g \in Typed, Len(g.buf) < g.room PROVE Good(Stored(g, c))
  <2>1. Append(g.buf, c) \in Seq(HostBytes) /\ Len(Append(g.buf, c)) = Len(g.buf) + 1 /\ Len(g.buf) \in Nat /\ g.room \in Nat
    BY <1>4
  <2>2. Stored(g, c) \in Typed /\ Stored(g, c).buf = Append(g.buf, c) /\ Stored(g, c).room = g.room
    BY <1>4, <2>1 DEF Stored
  <2>3. QED
    BY <1>4, <2>1, <2>2
<1>5. Good([h EXCEPT !.length = FieldLength(h)])
  <2>1. FieldLength(h) \in Nat
    BY <1>1 DEF FieldLength
  <2>2. [h EXCEPT !.length = FieldLength(h)] \in Typed /\ [h EXCEPT !.length = FieldLength(h)].buf = h.buf
        /\ [h EXCEPT !.length = FieldLength(h)].room = h.room
    BY <1>1, <2>1
  <2>3. QED
    BY <1>1, <2>2
<1>6. Good(HostStart(h, c))
  <2> DEFINE g == [h EXCEPT !.offset = Len(h.buf)]
  <2>1. g \in Typed /\ g.buf = h.buf /\ g.room = h.room
    BY <1>1
  <2>2. Good(Stored(g, c))
    <3> HIDE DEF g, h, Typed, Good
    <3>1. QED
      BY <1>1, <1>4, <2>1
  <2>3. Good(h)
    BY <1>1
  <2>4. HostStart(h, c) \in {HostState(HostError(h), "ERROR"), HostError(h), HostState(Stored(g, c), "IPV6"), HostState(Stored(g, c), "TEXT")}
    BY DEF HostStart
  <2>5. "ERROR" \in States /\ "IPV6" \in States /\ "TEXT" \in States
    BY DEF States
  <2> HIDE DEF g, h, Typed, Good
  <2>6. QED
    BY <1>2, <1>3, <2>2, <2>3, <2>4, <2>5
<1>7. \A s \in States : Good(HostState(h, s)) /\ Good(HostState([h EXCEPT !.length = FieldLength(h)], s))
  <2>1. Good(h)
    BY <1>1
  <2> HIDE DEF h, Typed, Good
  <2>2. QED
    BY <1>2, <1>5, <2>1
<1>8. Good(h) /\ Good(HostError(h)) /\ Good(Stored(h, c)) /\ Good(HostState(HostError(h), "ERROR"))
  <2>1. Good(h)
    BY <1>1
  <2>2. "ERROR" \in States
    BY DEF States
  <2> HIDE DEF h, Typed, Good
  <2>3. QED
    BY <1>1, <1>2, <1>3, <1>4, <2>1, <2>2
<1>9. c \in DigitBytes => Good(HostPort(h, c))
  <2> SUFFICES ASSUME c \in DigitBytes PROVE Good(HostPort(h, c))
    OBVIOUS
  <2> DEFINE p == (10 * h.port + c - 48) % PortValues
             g == [h EXCEPT !.port = p, !.error = @ \/ p > MaxPort]
  <2>1. p \in Nat
    <3>1. 10 * h.port + c - 48 \in Nat /\ PortValues \in Nat /\ PortValues > 0
      BY <1>1, HostAssumption DEF DigitBytes
    <3>2. QED
      BY <3>1
  <2>2. HostPort(h, c) = g
    <3>1. c # 10 /\ c \notin {32, 13, 9}
      BY DEF DigitBytes
    <3> HIDE DEF h
    <3>2. QED
      BY <3>1 DEF HostPort
  <2>3. (h.error \/ p > MaxPort) \in BOOLEAN
    OBVIOUS
  <2> HIDE DEF p
  <2>4. g \in Typed /\ g.buf = h.buf /\ g.room = h.room
    BY <1>1, <2>1, <2>3
  <2>5. QED
    BY <1>1, <2>2, <2>4
<1>10. {"TEXT", "TEXT_SPACE", "PORT", "PORT_SPACE"} \subseteq States
  BY DEF States
<1> HIDE DEF h, Typed, Good
<1>11. Good(HostText(h, c)) /\ Good(HostTextSpace(h, c)) /\ Good(HostPort(h, c))
  <2>1. Good(HostText(h, c))
    BY <1>5, <1>7, <1>8, <1>10 DEF HostText
  <2>2. Good(HostTextSpace(h, c))
    BY <1>7, <1>8, <1>10 DEF HostTextSpace
  <2>3. c \notin DigitBytes => Good(HostPort(h, c))
    BY <1>7, <1>8, <1>10 DEF HostPort
  <2>4. QED
    BY <1>9, <2>1, <2>2, <2>3
<1>12. Good(ParseHost(host, c))
  BY <1>6, <1>8, <1>11 DEF ParseHost, h
<1>13. QED
  BY <1>12 DEF Good, Typed

\* What a byte does, by the state it finds.
LEMMA GrownSame ==
  ASSUME HostTyped
  PROVE  LET g == Grown(host) IN
         /\ g.state2 = host.state2 /\ g.offset = host.offset /\ g.length = host.length /\ g.port = host.port
         /\ g.error = host.error /\ g.buf = host.buf
         /\ g \in [state2 : States, offset : Nat, length : Nat, port : Nat, error : BOOLEAN,
                   buf : Seq(HostBytes), room : Nat]
BY DEF HostTyped, Grown

LEMMA ErrorKept ==
  ASSUME HostTyped, NEW c \in HostBytes, host.error
  PROVE  ParseHost(host, c).error
<1> DEFINE h == Grown(host)
           Typed == [state2 : States, offset : Nat, length : Nat, port : Nat, error : BOOLEAN,
                     buf : Seq(HostBytes), room : Nat]
<1>1. h \in Typed /\ h.error
  BY GrownSame
<1> HIDE DEF h
<1>2. \A s : HostState(h, s).error
  BY <1>1 DEF HostState
<1>3. Stored(h, c).error /\ HostError(h).error /\ HostState(HostError(h), "ERROR").error
      /\ [h EXCEPT !.length = FieldLength(h)].error /\ HostState([h EXCEPT !.length = FieldLength(h)], "TEXT_SPACE").error
  BY <1>1 DEF HostState, HostError, Stored
<1>4. HostStart(h, c).error
  BY <1>1 DEF HostState, HostError, Stored, HostStart
<1>5. HostText(h, c).error
  BY <1>2, <1>3 DEF HostText
<1>6. HostTextSpace(h, c).error
  BY <1>1, <1>2, <1>3 DEF HostTextSpace
<1>7. HostPort(h, c).error
  <2>1. CASE c \in DigitBytes
    <3>1. c # 10 /\ c \notin {32, 13, 9}
      BY <2>1 DEF DigitBytes
    <3>2. QED
      BY <1>1, <2>1, <3>1 DEF HostPort
  <2>2. CASE c \notin DigitBytes
    BY <1>1, <1>2, <1>3, <2>2 DEF HostPort
  <2>3. QED
    BY <2>1, <2>2
<1>8. QED
  BY <1>1, <1>3, <1>4, <1>5, <1>6, <1>7 DEF ParseHost, h

LEMMA StartRead ==
  ASSUME HostTyped, NEW c \in HostBytes, host.state2 = "START", host.offset = 0, host.length = 0,
         ~ParseHost(host, c).error
  PROVE  LET g == ParseHost(host, c) IN
         g.buf = Append(host.buf, c) /\ g.port = host.port /\ g.state2 \in {"TEXT", "IPV6"}
<1> DEFINE h == Grown(host)
           o == [h EXCEPT !.offset = Len(h.buf)]
<1>1. /\ h \in [state2 : States, offset : Nat, length : Nat, port : Nat, error : BOOLEAN,
                buf : Seq(HostBytes), room : Nat]
      /\ h.state2 = "START" /\ h.offset = 0 /\ h.length = 0 /\ h.buf = host.buf /\ h.port = host.port
  BY GrownSame
<1>2. ParseHost(host, c) = HostStart(h, c)
  BY <1>1 DEF ParseHost
<1> HIDE DEF h
<1>3. c # 10
  BY <1>1, <1>2 DEF HostStart, HostError
<1>4. ParseHost(host, c) = HostState(Stored(o, c), IF c = 91 THEN "IPV6" ELSE "TEXT")
  BY <1>1, <1>2, <1>3 DEF HostStart
<1>5. QED
  BY <1>1, <1>4 DEF HostState, Stored

LEMMA TextRead ==
  ASSUME HostTyped, NEW c \in HostBytes, host.state2 = "TEXT"
  PROVE  LET g == ParseHost(host, c) IN
         /\ g.port = host.port
         /\ g.state2 = IF c = 58 THEN "PORT" ELSE IF c \in {32, 13, 9} THEN "TEXT_SPACE" ELSE "TEXT"
         /\ g.buf = IF c \in White \cup {58} THEN host.buf ELSE Append(host.buf, c)
<1> DEFINE h == Grown(host)
<1>1. /\ h \in [state2 : States, offset : Nat, length : Nat, port : Nat, error : BOOLEAN,
                buf : Seq(HostBytes), room : Nat]
      /\ h.state2 = "TEXT" /\ h.buf = host.buf /\ h.port = host.port
  BY GrownSame
<1>2. ParseHost(host, c) = HostText(h, c)
  BY <1>1 DEF ParseHost
<1> HIDE DEF h
<1>3. QED
  BY <1>1, <1>2 DEF HostText, HostState, Stored, White

LEMMA TextSpaceRead ==
  ASSUME HostTyped, NEW c \in HostBytes, host.state2 = "TEXT_SPACE", ~ParseHost(host, c).error
  PROVE  LET g == ParseHost(host, c) IN
         /\ g.port = host.port /\ g.buf = host.buf /\ c \in White \cup {58}
         /\ g.state2 = IF c = 58 THEN "PORT" ELSE "TEXT_SPACE"
<1> DEFINE h == Grown(host)
<1>1. /\ h \in [state2 : States, offset : Nat, length : Nat, port : Nat, error : BOOLEAN,
                buf : Seq(HostBytes), room : Nat]
      /\ h.state2 = "TEXT_SPACE" /\ h.buf = host.buf /\ h.port = host.port
  BY GrownSame
<1>2. ParseHost(host, c) = HostTextSpace(h, c)
  BY <1>1 DEF ParseHost
<1> HIDE DEF h
<1>3. QED
  BY <1>1, <1>2 DEF HostTextSpace, HostState, HostError, White

LEMMA PortRead ==
  ASSUME HostTyped, NEW c \in HostBytes, host.state2 = "PORT", host.port <= MaxPort, ~ParseHost(host, c).error
  PROVE  LET g == ParseHost(host, c) IN
         /\ g.port <= MaxPort /\ g.port = IF c \in White THEN host.port ELSE Counted(host.port, c)
         /\ g.buf = IF c \in White THEN host.buf ELSE WithoutDigit(host.buf, c)
         /\ g.state2 = IF c \in {32, 13, 9} THEN "PORT_SPACE" ELSE "PORT"
<1> DEFINE h == Grown(host)
<1>1. /\ h \in [state2 : States, offset : Nat, length : Nat, port : Nat, error : BOOLEAN,
                buf : Seq(HostBytes), room : Nat]
      /\ h.state2 = "PORT" /\ h.buf = host.buf /\ h.port = host.port
  BY GrownSame
<1>2. ParseHost(host, c) = HostPort(h, c)
  BY <1>1 DEF ParseHost
<1> HIDE DEF h
<1>3. CASE c \in DigitBytes
  <2> DEFINE p == (10 * h.port + c - 48) % PortValues
             g == [h EXCEPT !.port = p, !.error = @ \/ p > MaxPort]
  <2>1. c # 10 /\ c \notin {32, 13, 9} /\ c \notin White
    BY <1>3 DEF DigitBytes, White
  <2>2. ParseHost(host, c) = g
    BY <1>2, <1>3, <2>1 DEF HostPort
  <2>3. p = 10 * host.port + c - 48
    <3> DEFINE n == 10 * h.port + c - 48
    <3>1. n \in Nat /\ n < PortValues /\ PortValues \in Nat
      BY <1>1, <1>3, HostAssumption DEF DigitBytes
    <3> HIDE DEF n
    <3>2. n % PortValues = n
      BY <3>1
    <3>3. QED
      BY <1>1, <3>2 DEF n
  <2> HIDE DEF p
  <2>4. g.port = p /\ g.buf = h.buf /\ g.state2 = "PORT" /\ (g.error <=> h.error \/ p > MaxPort)
    BY <1>1
  <2>5. p \in Int /\ ~(p > MaxPort) /\ MaxPort \in Nat
    <3>1. p \in Int /\ MaxPort \in Nat
      BY <1>1, <2>3, <1>3, HostAssumption DEF DigitBytes
    <3>2. ~g.error
      BY <2>2
    <3> HIDE DEF g
    <3>3. ~(p > MaxPort)
      BY <2>4, <3>2, Zenon
    <3>4. QED
      BY <3>1, <3>3
  <2>6. QED
    BY <1>1, <1>3, <2>1, <2>2, <2>3, <2>4, <2>5 DEF Counted, WithoutDigit
<1>4. CASE c \notin DigitBytes
  BY <1>1, <1>2, <1>4 DEF HostPort, HostState, Stored, White, Counted, WithoutDigit
<1>5. QED
  BY <1>3, <1>4

LEMMA PortSpaceRead ==
  ASSUME HostTyped, NEW c \in HostBytes, host.state2 = "PORT_SPACE", ~ParseHost(host, c).error
  PROVE  LET g == ParseHost(host, c) IN
         g.port = host.port /\ g.buf = host.buf /\ ISSPACE(c) /\ g.state2 = "PORT_SPACE"
<1> DEFINE h == Grown(host)
<1>1. /\ h \in [state2 : States, offset : Nat, length : Nat, port : Nat, error : BOOLEAN,
                buf : Seq(HostBytes), room : Nat]
      /\ h.state2 = "PORT_SPACE" /\ h.buf = host.buf /\ h.port = host.port
  BY GrownSame
<1>2. ParseHost(host, c) = IF ISSPACE(c) THEN h ELSE HostError(h)
  BY <1>1 DEF ParseHost
<1> HIDE DEF h
<1>3. QED
  BY <1>1, <1>2 DEF HostError

LEMMA Ipv6Read ==
  ASSUME HostTyped, NEW c \in HostBytes, host.state2 = "IPV6"
  PROVE  ParseHost(host, c).error
<1> DEFINE h == Grown(host)
<1>1. /\ h \in [state2 : States, offset : Nat, length : Nat, port : Nat, error : BOOLEAN,
                buf : Seq(HostBytes), room : Nat]
      /\ h.state2 = "IPV6"
  BY GrownSame
<1>2. ParseHost(host, c) = HostState(HostError(h), "ERROR")
  BY <1>1 DEF ParseHost
<1> HIDE DEF h
<1>3. QED
  BY <1>1, <1>2 DEF HostError, HostState

LEMMA WhiteIsSpace == \A c \in White : ISSPACE(c)
<1>1. CtypeData(9) = {"cntrl", "space"} /\ CtypeData(10) = {"cntrl", "space"} /\ CtypeData(13) = {"cntrl", "space"}
      /\ CtypeData(32) = {"print", "space"}
  BY DEF CtypeData
<1>2. QED
  BY <1>1 DEF White, ISSPACE, HasAny

\* The parts of a value that has one byte more.
LEMMA FirstBehind ==
  ASSUME NEW S, NEW s \in Seq(S), NEW i \in Nat, i > Len(s), NEW codes
  PROVE  FirstFrom(s, i, codes) = Len(s) + 1
<1>1. Len(s) \in Nat /\ i \in Nat \ {0}
  OBVIOUS
<1>2. IsFirst(Len(s) + 1, s, i, codes)
  BY <1>1 DEF IsFirst
<1>3. QED
  BY <1>1, <1>2, FirstIs

LEMMA NextParts ==
  ASSUME value \in Seq(HostBytes), NEW c \in HostBytes, value' = Append(value, c)
  PROVE  LET N == Len(value) IN
         /\ N \in Nat /\ Len(value') = N + 1 /\ value'[N + 1] = c /\ \A i \in 1 .. N : value'[i] = value[i]
         /\ TextEnd \in 1 .. N + 1 /\ Colon \in 1 .. N + 1 /\ PortEnd \in 1 .. N + 1 /\ TextEnd <= Colon
         /\ (Colon <= N => PortEnd > Colon)
         /\ TextEnd' = IF TextEnd <= N THEN TextEnd
                       ELSE IF N > 0 /\ c \in White \cup {58} THEN N + 1 ELSE N + 2
         /\ Colon' = IF Colon <= N THEN Colon ELSE IF N > 0 /\ c = 58 THEN N + 1 ELSE N + 2
         /\ PortEnd' = IF Colon <= N /\ PortEnd <= N THEN PortEnd
                       ELSE IF Colon <= N /\ c \in White THEN N + 1 ELSE N + 2
<1> DEFINE N == Len(value)
           w == Append(value, c)
<1>1. N \in Nat /\ w \in Seq(HostBytes) /\ Len(w) = N + 1 /\ w[N + 1] = c /\ \A i \in 1 .. N : w[i] = value[i]
  OBVIOUS
<1>2. /\ TextEnd \in 1 .. N + 1 /\ IsFirst(TextEnd, value, 2, White \cup {58})
      /\ Colon \in 1 .. N + 1 /\ IsFirst(Colon, value, 2, {58})
  BY FirstIs DEF TextEnd, Colon
<1>3. PortEnd \in 1 .. N + 1 /\ IsFirst(PortEnd, value, Colon + 1, White)
  <2>1. Colon + 1 \in Nat \ {0}
    BY <1>1, <1>2
  <2>2. QED
    BY <2>1, FirstIs DEF PortEnd
<1>4. TextEnd <= Colon
  <2>1. CASE Colon > N
    BY <1>1, <1>2, <2>1
  <2>2. CASE Colon <= N
    <3>1. Colon >= 2 /\ value[Colon] \in White \cup {58}
      BY <1>2, <2>2 DEF IsFirst
    <3>2. Colon \notin 2 .. TextEnd - 1
      BY <1>2, <3>1 DEF IsFirst
    <3>3. QED
      BY <1>1, <1>2, <3>1, <3>2
  <2>3. QED
    BY <1>1, <1>2, <2>1, <2>2
<1>5. Colon <= N => PortEnd > Colon
  BY <1>1, <1>2, <1>3 DEF IsFirst
<1> HIDE DEF w, N
<1>6. TextEnd' = FirstFrom(w, 2, White \cup {58}) /\ Colon' = FirstFrom(w, 2, {58}) /\ PortEnd' = FirstFrom(w, Colon' + 1, White)
  <2>1. value' = w
    BY DEF w
  <2>2. QED
    BY <2>1 DEF TextEnd, Colon, PortEnd
<1>7. /\ TextEnd' = IF TextEnd <= N THEN TextEnd ELSE IF N > 0 /\ c \in White \cup {58} THEN N + 1 ELSE N + 2
      /\ Colon' = IF Colon <= N THEN Colon ELSE IF N > 0 /\ c = 58 THEN N + 1 ELSE N + 2
  <2>1. 2 \in 1 .. N + 2 /\ (2 <= N + 1 <=> N > 0)
    BY <1>1
  <2>2. c \in {58} <=> c = 58
    OBVIOUS
  <2>3. /\ FirstFrom(w, 2, White \cup {58}) = IF TextEnd <= N THEN TextEnd ELSE IF 2 <= N + 1 /\ c \in White \cup {58} THEN N + 1 ELSE N + 2
        /\ FirstFrom(w, 2, {58}) = IF Colon <= N THEN Colon ELSE IF 2 <= N + 1 /\ c \in {58} THEN N + 1 ELSE N + 2
    BY <2>1, FirstAppended DEF TextEnd, Colon, w, N
  <2>4. QED
    BY <1>6, <2>1, <2>2, <2>3
<1>8. PortEnd' = IF Colon <= N /\ PortEnd <= N THEN PortEnd ELSE IF Colon <= N /\ c \in White THEN N + 1 ELSE N + 2
  <2>1. CASE Colon <= N
    <3>1. Colon + 1 \in 1 .. N + 2 /\ Colon + 1 <= N + 1 /\ Colon' = Colon
      BY <1>1, <1>2, <1>7, <2>1
    <3>2. FirstFrom(w, Colon + 1, White) =
            IF PortEnd <= N THEN PortEnd ELSE IF Colon + 1 <= N + 1 /\ c \in White THEN N + 1 ELSE N + 2
      BY <3>1, FirstAppended DEF PortEnd, w, N
    <3>3. QED
      BY <1>6, <2>1, <3>1, <3>2
  <2>2. CASE Colon > N
    <3>1. Colon' \in {N + 1, N + 2} /\ Colon' + 1 \in Nat /\ Colon' + 1 > Len(w)
      BY <1>1, <1>2, <1>7, <2>2
    <3>2. FirstFrom(w, Colon' + 1, White) = Len(w) + 1
      BY <1>1, <3>1, FirstBehind
    <3>3. QED
      BY <1>1, <1>2, <1>6, <2>2, <3>2
  <2>3. QED
    BY <1>1, <1>2, <2>1, <2>2
<1>9. QED
  BY <1>1, <1>2, <1>3, <1>4, <1>5, <1>7, <1>8 DEF w, N

\* What HostFieldRead and Placed say of the first field.
FieldRead ==
  /\ host.buf = HostPart \o NoDigits(PortPart)
  /\ host.port = Decimal(PortPart) /\ host.port <= MaxPort
  /\ \A i \in TextEnd .. Colon - 1 : value[i] \in White
  /\ \A i \in PortEnd .. Len(value) : ISSPACE(value[i])
  /\ Placed

\* While there is no ':' there is no port.
LEMMA NoPort ==
  ASSUME value \in Seq(HostBytes), Colon = Len(value) + 1
  PROVE  PortPart = <<>> /\ NoDigits(PortPart) = <<>> /\ Decimal(PortPart) = 0 /\ PortEnd = Len(value) + 1
<1>1. Len(value) \in Nat
  OBVIOUS
<1>2. PortEnd = Len(value) + 1
  BY <1>1, FirstBehind DEF PortEnd
<1>3. PortPart = <<>>
  BY <1>1, <1>2, NoPart DEF PortPart
<1>4. QED
  BY <1>2, <1>3, NoDigitsNothing, DecimalNothing

LEMMA NoPortNext ==
  ASSUME NEW N \in Nat, Colon' \in {N + 1, N + 2}, PortEnd' = N + 2
  PROVE  NoDigits(PortPart') = <<>> /\ Decimal(PortPart') = 0
<1>1. PICK k \in {N + 1, N + 2} : Colon' = k
  OBVIOUS
<1> DEFINE m == k + 1
<1>2. m \in Int /\ N + 1 \in Int /\ N + 1 < m /\ (N + 2) - 1 = N + 1
  OBVIOUS
<1>3. PortPart' = SubSeq(value', m, N + 1)
  BY <1>1, <1>2 DEF PortPart
<1> HIDE DEF m
<1>4. PortPart' = <<>>
  BY <1>2, <1>3, NoPart
<1>5. QED
  BY <1>4, NoDigitsNothing, DecimalNothing

LEMMA HostPartStays ==
  ASSUME value \in Seq(HostBytes), NEW c \in HostBytes, value' = Append(value, c),
         TextEnd' = TextEnd, TextEnd \in 1 .. Len(value) + 1
  PROVE  HostPart' = HostPart /\ HostPart \in Seq(HostBytes)
<1> DEFINE e == TextEnd - 1
<1>1. e \in 0 .. Len(value) /\ 1 \in Nat \ {0}
  OBVIOUS
<1>2. HostPart' = SubSeq(Append(value, c), 1, e) /\ HostPart = SubSeq(value, 1, e)
  BY DEF HostPart
<1> HIDE DEF e
<1>3. QED
  BY <1>1, <1>2, PartKept, PartSeq

LEMMA PortPartStays ==
  ASSUME value \in Seq(HostBytes), NEW c \in HostBytes, value' = Append(value, c),
         Colon' = Colon, PortEnd' = PortEnd, Colon \in 1 .. Len(value), PortEnd \in 1 .. Len(value) + 1
  PROVE  PortPart' = PortPart /\ PortPart \in Seq(HostBytes)
<1> DEFINE e == PortEnd - 1
           m == Colon + 1
<1>1. e \in 0 .. Len(value) /\ m \in Nat \ {0}
  OBVIOUS
<1>2. PortPart' = SubSeq(Append(value, c), m, e) /\ PortPart = SubSeq(value, m, e)
  BY DEF PortPart
<1> HIDE DEF e, m
<1>3. QED
  BY <1>1, <1>2, PartKept, PartSeq

LEMMA PortPartGrows ==
  ASSUME value \in Seq(HostBytes), NEW c \in HostBytes, value' = Append(value, c),
         Colon' = Colon, Colon \in 1 .. Len(value), PortEnd = Len(value) + 1, PortEnd' = Len(value) + 2
  PROVE  PortPart' = Append(PortPart, c) /\ PortPart \in Seq(HostBytes)
<1> DEFINE m == Colon + 1
           N == Len(value)
<1>1. m \in 1 .. N + 1 /\ m \in Nat \ {0} /\ N \in Nat /\ N \in 0 .. N
  OBVIOUS
<1>2. PortPart' = SubSeq(Append(value, c), m, N + 1) /\ PortPart = SubSeq(value, m, N)
  <2>1. (N + 2) - 1 = N + 1 /\ (N + 1) - 1 = N
    BY <1>1
  <2>2. QED
    BY <2>1 DEF PortPart
<1> HIDE DEF m
<1>3. SubSeq(Append(value, c), m, N + 1) = Append(SubSeq(value, m, N), c)
  BY <1>1, PartGrows
<1>4. SubSeq(value, m, N) \in Seq(HostBytes)
  BY <1>1, PartSeq
<1>5. QED
  BY <1>2, <1>3, <1>4

LEMMA FeedFirst ==
  ASSUME HostInv, NEW c \in HostBytes, host' = ParseHost(host, c), value' = Append(value, c),
         fields = 1, value = <<>>, ~host'.error
  PROVE  FieldRead'
<1>1. HostTyped /\ host.state2 = "START" /\ host.offset = 0 /\ host.length = 0 /\ host.port = 0 /\ host.buf = <<>>
  BY DEF HostInv
<1>2. host'.buf = Append(host.buf, c) /\ host'.port = 0 /\ host'.state2 \in {"TEXT", "IPV6"}
  BY <1>1, StartRead
<1>3. Len(value) = 0 /\ value \in Seq(HostBytes) /\ Len(value') = 1
  OBVIOUS
<1>4. TextEnd' = 2 /\ Colon' = 2 /\ PortEnd' = 2
  <2>1. TextEnd = 1 /\ Colon = 1
    BY <1>3, NextParts
  <2>2. QED
    BY <1>3, <2>1, NextParts
<1>5. HostPart' = Append(<<>>, c)
  <2>1. HostPart' = SubSeq(Append(<<>>, c), 1, 1)
    BY <1>4 DEF HostPart
  <2>2. SubSeq(<<>>, 1, 0) = <<>>
    BY NoPart
  <2>3. SubSeq(Append(<<>>, c), 1, Len(<<>>) + 1) = Append(SubSeq(<<>>, 1, Len(<<>>)), c)
    <3>1. <<>> \in Seq(HostBytes) /\ 1 \in 1 .. Len(<<>>) + 1
      OBVIOUS
    <3>2. QED
      BY <3>1, PartGrows
  <2>4. Len(<<>>) = 0 /\ 0 + 1 = 1
    OBVIOUS
  <2>5. SubSeq(Append(<<>>, c), 1, 1) = Append(SubSeq(<<>>, 1, 0), c)
    BY <2>3, <2>4, Zenon
  <2>6. QED
    BY <2>1, <2>2, <2>5
<1>6. PortPart' = <<>>
  BY <1>4, NoPart DEF PortPart
<1>7. HostPart' \o <<>> = HostPart'
  BY <1>5
<1>8. MaxPort \in Nat
  BY HostAssumption
<1>9. Placed'
  BY <1>2, <1>3, <1>4 DEF Placed
<1>10. host'.buf = HostPart' \o NoDigits(PortPart') /\ host'.port = Decimal(PortPart') /\ host'.port <= MaxPort
  BY <1>1, <1>2, <1>5, <1>6, <1>7, <1>8, NoDigitsNothing, DecimalNothing
<1>11. (\A i \in TextEnd' .. Colon' - 1 : value'[i] \in White) /\ (\A i \in PortEnd' .. Len(value') : ISSPACE(value'[i]))
  BY <1>3, <1>4
<1>12. QED
  BY <1>9, <1>10, <1>11 DEF FieldRead

LEMMA FeedText ==
  ASSUME HostTyped, FieldRead, NEW c \in HostBytes, host' = ParseHost(host, c), value' = Append(value, c),
         value # <<>>, ~FieldEnded, host.state2 = "TEXT"
  PROVE  FieldRead'
<1> DEFINE N == Len(value)
<1>1. value \in Seq(HostBytes) /\ N \in Nat /\ N > 0
  BY DEF HostTyped
<1>2. TextEnd = N + 1 /\ Colon = N + 1
  BY DEF FieldRead, Placed
<1>3. /\ host'.port = host.port
      /\ host'.state2 = IF c = 58 THEN "PORT" ELSE IF c \in {32, 13, 9} THEN "TEXT_SPACE" ELSE "TEXT"
      /\ host'.buf = IF c \in White \cup {58} THEN host.buf ELSE Append(host.buf, c)
  BY TextRead
<1>4. /\ Len(value') = N + 1 /\ value'[N + 1] = c
      /\ TextEnd' = IF c \in White \cup {58} THEN N + 1 ELSE N + 2
      /\ Colon' = IF c = 58 THEN N + 1 ELSE N + 2
      /\ PortEnd' = N + 2
  BY <1>1, <1>2, NextParts
<1>5. host.buf = value /\ host.port = 0
  <2>1. HostPart = value
    BY <1>1, <1>2, SubSeqFull DEF HostPart
  <2>2. value \o <<>> = value
    BY <1>1
  <2>3. QED
    BY <1>1, <1>2, <2>1, <2>2, NoPort DEF FieldRead
<1>6. NoDigits(PortPart') = <<>> /\ Decimal(PortPart') = 0
  BY <1>1, <1>4, NoPortNext
<1>7. host'.buf = HostPart' /\ HostPart' \in Seq(HostBytes)
  <2>1. CASE c \in White \cup {58}
    <3>1. HostPart' = SubSeq(Append(value, c), 1, N)
      BY <1>1, <1>4, <2>1 DEF HostPart
    <3>2. HostPart' = value
      BY <1>1, <3>1, PartKept, SubSeqFull
    <3>3. QED
      BY <1>1, <1>3, <1>5, <2>1, <3>2
  <2>2. CASE c \notin White \cup {58}
    <3>1. HostPart' = SubSeq(value', 1, N + 1)
      BY <1>1, <1>4, <2>2 DEF HostPart
    <3>2. value' \in Seq(HostBytes) /\ Len(value') = N + 1
      BY <1>1
    <3>3. HostPart' = value'
      BY <3>1, <3>2, SubSeqFull
    <3>4. QED
      BY <1>3, <1>5, <2>2, <3>2, <3>3
  <2>3. QED
    BY <2>1, <2>2
<1>8. host'.buf = HostPart' \o NoDigits(PortPart')
  BY <1>6, <1>7
<1>9. \A i \in TextEnd' .. Colon' - 1 : value'[i] \in White
  BY <1>1, <1>4 DEF White
<1>10. Placed'
  BY <1>1, <1>3, <1>4 DEF Placed, FieldEnded, White
<1>11. MaxPort \in Nat
  BY HostAssumption
<1>12. \A i \in PortEnd' .. Len(value') : ISSPACE(value'[i])
  BY <1>1, <1>4
<1>13. host'.port = Decimal(PortPart') /\ host'.port <= MaxPort
  BY <1>3, <1>5, <1>6, <1>11
<1>14. QED
  BY <1>8, <1>9, <1>10, <1>12, <1>13 DEF FieldRead

LEMMA FeedTextSpace ==
  ASSUME HostTyped, FieldRead, NEW c \in HostBytes, host' = ParseHost(host, c), value' = Append(value, c),
         value # <<>>, ~host'.error, host.state2 = "TEXT_SPACE"
  PROVE  FieldRead'
<1> DEFINE N == Len(value)
<1>1. value \in Seq(HostBytes) /\ N \in Nat /\ N > 0
  BY DEF HostTyped
<1>2. TextEnd \in 1 .. N /\ Colon = N + 1
  BY <1>1, FirstIs DEF FieldRead, Placed, TextEnd
<1>3. /\ host'.port = host.port /\ host'.buf = host.buf /\ c \in White \cup {58}
      /\ host'.state2 = IF c = 58 THEN "PORT" ELSE "TEXT_SPACE"
  BY TextSpaceRead
<1>4. /\ Len(value') = N + 1 /\ value'[N + 1] = c /\ \A i \in 1 .. N : value'[i] = value[i]
      /\ TextEnd' = TextEnd /\ Colon' = IF c = 58 THEN N + 1 ELSE N + 2
      /\ PortEnd' = N + 2
  BY <1>1, <1>2, NextParts
<1>5. NoDigits(PortPart') = <<>> /\ Decimal(PortPart') = 0
  BY <1>1, <1>4, NoPortNext
<1>6. HostPart' = HostPart
  BY <1>1, <1>2, <1>4, HostPartStays
<1>7. host'.buf = HostPart' \o NoDigits(PortPart') /\ host'.port = Decimal(PortPart') /\ host'.port <= MaxPort
  BY <1>1, <1>2, <1>3, <1>5, <1>6, NoPort DEF FieldRead
<1>8. \A i \in TextEnd' .. Colon' - 1 : value'[i] \in White
  BY <1>1, <1>2, <1>3, <1>4 DEF White, FieldRead
<1>9. Placed'
  BY <1>1, <1>2, <1>3, <1>4 DEF Placed
<1>10. \A i \in PortEnd' .. Len(value') : ISSPACE(value'[i])
  BY <1>1, <1>4
<1>11. QED
  BY <1>7, <1>8, <1>9, <1>10 DEF FieldRead

LEMMA FeedPort ==
  ASSUME HostTyped, FieldRead, NEW c \in HostBytes, host' = ParseHost(host, c), value' = Append(value, c),
         value # <<>>, ~FieldEnded, ~host'.error, host.state2 = "PORT"
  PROVE  FieldRead'
<1> DEFINE N == Len(value)
<1>1. value \in Seq(HostBytes) /\ N \in Nat /\ N > 0
  BY DEF HostTyped
<1>2. Colon \in 1 .. N /\ PortEnd = N + 1 /\ TextEnd \in 1 .. Colon
  BY <1>1, NextParts DEF FieldRead, Placed
<1>3. /\ host'.port <= MaxPort /\ host'.port = IF c \in White THEN host.port ELSE Counted(host.port, c)
      /\ host'.buf = IF c \in White THEN host.buf ELSE WithoutDigit(host.buf, c)
      /\ host'.state2 = IF c \in {32, 13, 9} THEN "PORT_SPACE" ELSE "PORT"
  BY PortRead DEF FieldRead
<1>4. /\ Len(value') = N + 1 /\ value'[N + 1] = c /\ \A i \in 1 .. N : value'[i] = value[i]
      /\ TextEnd' = TextEnd /\ Colon' = Colon
      /\ PortEnd' = IF c \in White THEN N + 1 ELSE N + 2
  BY <1>1, <1>2, NextParts
<1>5. HostPart' = HostPart /\ HostPart \in Seq(HostBytes)
  BY <1>1, <1>2, <1>4, HostPartStays
<1>6. PortPart \in Seq(HostBytes) /\ PortPart' = IF c \in White THEN PortPart ELSE Append(PortPart, c)
  <2>1. CASE c \in White
    <3>1. PortEnd' = PortEnd
      BY <1>2, <1>4, <2>1
    <3>2. QED
      BY <1>1, <1>2, <1>4, <2>1, <3>1, PortPartStays
  <2>2. CASE c \notin White
    BY <1>1, <1>2, <1>4, <2>2, PortPartGrows
  <2>3. QED
    BY <2>1, <2>2
<1>7. NoDigits(PortPart) \in Seq(HostBytes)
  BY <1>6, NoDigitsSeq
<1>8. host.buf = HostPart \o NoDigits(PortPart) /\ host.port = Decimal(PortPart)
  BY DEF FieldRead
<1> DEFINE D == NoDigits(PortPart)
<1>9. host'.buf = HostPart' \o NoDigits(PortPart')
  <2>1. CASE c \in White
    BY <1>3, <1>5, <1>6, <1>8, <2>1
  <2>2. CASE c \notin White
    <3>1. NoDigits(PortPart') = WithoutDigit(D, c)
      BY <1>6, <2>2, NoDigitsAppended
    <3>2. host'.buf = WithoutDigit(HostPart \o D, c)
      BY <1>3, <1>8, <2>2
    <3> HIDE DEF D
    <3>3. HostPart \o Append(D, c) = Append(HostPart \o D, c)
      BY <1>5, <1>7 DEF D
    <3>4. QED
      BY <1>5, <3>1, <3>2, <3>3 DEF WithoutDigit
  <2>3. QED
    BY <2>1, <2>2
<1>10. host'.port = Decimal(PortPart') /\ host'.port <= MaxPort
  BY <1>3, <1>6, <1>8, DecimalAppended
<1>11. \A i \in TextEnd' .. Colon' - 1 : value'[i] \in White
  BY <1>1, <1>2, <1>4 DEF FieldRead
<1>12. \A i \in PortEnd' .. N + 1 : ISSPACE(value'[i])
  BY <1>1, <1>4, WhiteIsSpace
<1>13. Placed'
  BY <1>1, <1>2, <1>3, <1>4 DEF Placed, FieldEnded, White
<1>14. QED
  BY <1>4, <1>9, <1>10, <1>11, <1>12, <1>13 DEF FieldRead

LEMMA FeedPortSpace ==
  ASSUME HostTyped, FieldRead, NEW c \in HostBytes, host' = ParseHost(host, c), value' = Append(value, c),
         value # <<>>, ~host'.error, host.state2 = "PORT_SPACE"
  PROVE  FieldRead'
<1> DEFINE N == Len(value)
<1>1. value \in Seq(HostBytes) /\ N \in Nat /\ N > 0
  BY DEF HostTyped
<1>2. Colon \in 1 .. N /\ PortEnd \in 1 .. N /\ TextEnd \in 1 .. Colon
  BY <1>1, NextParts DEF FieldRead, Placed
<1>3. host'.port = host.port /\ host'.buf = host.buf /\ ISSPACE(c) /\ host'.state2 = "PORT_SPACE"
  BY PortSpaceRead
<1>4. /\ Len(value') = N + 1 /\ value'[N + 1] = c /\ \A i \in 1 .. N : value'[i] = value[i]
      /\ TextEnd' = TextEnd /\ Colon' = Colon /\ PortEnd' = PortEnd
  BY <1>1, <1>2, NextParts
<1>5. HostPart' = HostPart /\ PortPart' = PortPart
  <2>1. PortEnd \in 1 .. N + 1
    BY <1>1, <1>2
  <2>2. QED
    BY <1>1, <1>2, <1>4, <2>1, HostPartStays, PortPartStays
<1>6. host'.buf = HostPart' \o NoDigits(PortPart') /\ host'.port = Decimal(PortPart') /\ host'.port <= MaxPort
  BY <1>3, <1>5 DEF FieldRead
<1>7. \A i \in TextEnd' .. Colon' - 1 : value'[i] \in White
  BY <1>1, <1>2, <1>4 DEF FieldRead
<1>8. \A i \in PortEnd' .. N + 1 : ISSPACE(value'[i])
  BY <1>1, <1>2, <1>3, <1>4 DEF FieldRead
<1>9. Placed'
  BY <1>1, <1>2, <1>3, <1>4 DEF Placed
<1>10. QED
  BY <1>4, <1>6, <1>7, <1>8, <1>9 DEF FieldRead

LEMMA NextHostInv == HostInv /\ [HostNext]_hostVars => HostInv'
<1> SUFFICES ASSUME HostInv, [HostNext]_hostVars PROVE HostInv'
  OBVIOUS
<1>1. HostTyped
  BY DEF HostInv
<1>2. CASE UNCHANGED hostVars
  <2>1. host' = host /\ value' = value /\ fields' = fields
    BY <1>2 DEF hostVars
  <2>2. TextEnd' = TextEnd /\ Colon' = Colon
    BY <2>1 DEF TextEnd, Colon
  <2>3. PortEnd' = PortEnd
    BY <2>1, <2>2 DEF PortEnd
  <2>4. HostPart' = HostPart /\ PortPart' = PortPart
    BY <2>1, <2>2, <2>3 DEF HostPart, PortPart
  <2>5. HostTyped' /\ (Placed' <=> Placed)
    BY <1>1, <2>1, <2>2, <2>3 DEF HostTyped, Placed, FieldEnded
  <2>6. HostFieldRead'
    BY <2>1, <2>2, <2>3, <2>4 DEF HostInv, HostFieldRead
  <2>7. QED
    BY <2>1, <2>5, <2>6 DEF HostInv
<1>3. CASE NextField
  <2>1. host' = HostState(host, "START") /\ value' = <<>> /\ fields' = fields + 1
    BY <1>3 DEF NextField
  <2>2. "START" \in States
    BY DEF States
  <2>3. HostTyped'
    <3>1. /\ host' \in [state2 : States, offset : Nat, length : Nat, port : Nat, error : BOOLEAN,
                        buf : Seq(HostBytes), room : Nat]
          /\ host'.buf = host.buf /\ host'.room = host.room
      BY <1>1, <2>1, <2>2 DEF HostTyped, HostState
    <3>2. QED
      BY <1>1, <2>1, <3>1 DEF HostTyped
  <2>4. fields' # 1
    BY <1>1, <2>1 DEF HostTyped
  <2>5. QED
    BY <2>3, <2>4 DEF HostInv, HostFieldRead, HostTyped
<1>4. CASE FeedHost
  <2>1. PICK c \in HostBytes : host' = ParseHost(host, c) /\ value' = Append(value, c) /\ fields' = fields /\ ~FieldEnded
    BY <1>4 DEF FeedHost
  <2>2. HostTyped'
    BY <1>1, <2>1, ParseHostTyped DEF HostTyped
  <2>3. value' # <<>>
    BY <1>1, <2>1 DEF HostTyped
  <2>4. ASSUME fields = 1, ~host'.error PROVE FieldRead'
    <3>1. CASE value = <<>>
      BY <2>1, <2>4, <3>1, FeedFirst
    <3>2. CASE value # <<>>
      <4>1. ~host.error
        BY <1>1, <2>1, <2>4, ErrorKept
      <4>2. FieldRead
        BY <2>4, <3>2, <4>1 DEF HostInv, HostFieldRead, FieldRead
      <4>3. host.state2 \in {"TEXT", "TEXT_SPACE", "IPV6", "PORT", "PORT_SPACE"}
        BY <1>1, <4>2 DEF FieldRead, Placed, HostTyped, States
      <4>4. host.state2 # "IPV6"
        BY <1>1, <2>1, <2>4, Ipv6Read
      <4>5. QED
        BY <1>1, <2>1, <2>4, <3>2, <4>2, <4>3, <4>4, FeedText, FeedTextSpace, FeedPort, FeedPortSpace
    <3>3. QED
      BY <3>1, <3>2
  <2>5. QED
    BY <2>1, <2>2, <2>3, <2>4 DEF HostInv, HostFieldRead, FieldRead, HostTyped
<1>5. QED
  BY <1>2, <1>3, <1>4 DEF HostNext

\* The stored text and the port are the field's; see HostField.
THEOREM SpecHostFieldRead == HostSpec => []HostFieldRead
<1>1. HostInv => HostFieldRead
  BY DEF HostInv
<1>2. QED
  BY <1>1, InitHostInv, NextHostInv, PTL DEF HostSpec

(***************************************************************************)
(* ResolvFile.  For any number of hosts and any limits: the pool's count   *)
(* is the number of processes, and the limit holds although the code tests *)
(* it for equality only.                                                   *)
(***************************************************************************)

(* A host is in the file, being forked, or has its process: never two of   *)
(* these, so fork() always adds a process.                                 *)
PoolTypes ==
  /\ DOMAIN children = 0..Want
  /\ children_count \in Int
  /\ proc \in [Host -> {"none", "run", "exit", "zombie", "gone"}]
  /\ todo \subseteq Host
  /\ draining \in BOOLEAN
  /\ pc \in {"next", "fork", "read", "reap", "last", "done", "failed"}

HostsOnce ==
  /\ \A h \in todo : proc[h] = "none"
  /\ pc \in {"fork", "failed"} => hostname \in Host \ todo /\ proc[hostname] = "none"

PoolInv == PoolTypes /\ HostsOnce /\ CountMatches

(* The count is below the limit when the loop at line 101 goes on, so that *)
(* no spawn can jump over it.                                              *)
BelowLimit ==
  /\ Cardinality(Unreaped) <= MaxChildren
  /\ pc \in {"next", "fork"} => ~draining /\ Cardinality(Unreaped) < MaxChildren

-----------------------------------------------------------------------------
\* The processes not waited for are finitely many.
LEMMA UnreapedFinite == IsFiniteSet(Unreaped) /\ Cardinality(Unreaped) \in Nat
<1>1. IsFiniteSet(Host)
  BY WorkersAssumption
<1>2. Unreaped \subseteq Host
  BY DEF Unreaped
<1>3. QED
  BY <1>1, <1>2, FS_Subset, FS_CardinalityType

\* fork() adds one process to those not waited for (workers_spawn()).
LEMMA ForkAdds ==
  ASSUME PoolTypes, hostname \in Host, proc[hostname] = "none", SpawnFork(hostname)
  PROVE  Cardinality(Unreaped') = Cardinality(Unreaped) + 1
<1>1. Unreaped' = Unreaped \cup {hostname}
  BY DEF PoolTypes, SpawnFork, Unreaped
<1>2. hostname \notin Unreaped
  BY DEF Unreaped
<1>3. QED
  BY <1>1, <1>2, UnreapedFinite, FS_AddElement

\* waitpid() takes one away (workers_reap()).
LEMMA ReapRemoves ==
  ASSUME PoolTypes, NEW h \in Host, ReapChild(h)
  PROVE  Cardinality(Unreaped') = Cardinality(Unreaped) - 1
<1>1. Unreaped' = Unreaped \ {h}
  BY DEF PoolTypes, ReapChild, Unreaped
<1>2. h \in Unreaped
  BY DEF ReapChild, Unreaped
<1>3. QED
  BY <1>1, <1>2, UnreapedFinite, FS_RemoveElement

\* A child that prints or ends stays a process until it is waited for.
LEMMA ChildStays ==
  ASSUME PoolTypes, NEW h \in Host, Child(h)
  PROVE  /\ Unreaped' = Unreaped
         /\ proc' \in [Host -> {"none", "run", "exit", "zombie", "gone"}]
         /\ \A g \in Host : proc[g] = "none" => proc'[g] = "none"
         /\ UNCHANGED <<children, children_count>>
<1>1. CASE ChildPrints(h)
  BY <1>1 DEF PoolTypes, ChildPrints, Unreaped
<1>2. CASE ChildComplains(h)
  BY <1>2 DEF PoolTypes, ChildComplains, Unreaped
<1>3. CASE ChildExits(h)
  BY <1>3 DEF PoolTypes, ChildExits, Unreaped
<1>4. QED
  BY <1>1, <1>2, <1>3 DEF Child

-----------------------------------------------------------------------------
\* spawn_workers() starts with an empty pool.
LEMMA InitPoolInv == Init => PoolInv
<1> SUFFICES ASSUME Init PROVE PoolInv
  OBVIOUS
<1> USE DEF Init, PoolInit
<1>1. PoolTypes
  <2>1. DOMAIN children = 0..Want /\ children_count \in Int
    OBVIOUS
  <2>2. proc \in [Host -> {"none", "run", "exit", "zombie", "gone"}]
    OBVIOUS
  <2>3. QED
    BY <2>1, <2>2 DEF PoolTypes
<1>2. HostsOnce
  BY DEF HostsOnce
<1>3. Unreaped = {}
  BY DEF Unreaped
<1>4. CountMatches
  BY <1>3, FS_EmptySet DEF CountMatches
<1>5. QED
  BY <1>1, <1>2, <1>4 DEF PoolInv

\* No step of the parent or of a child lets the count and the processes drift
\* apart (spawn_workers(), workers_spawn(), workers_reap()).
LEMMA NextPoolInv == PoolInv /\ [Next]_vars => PoolInv'
<1> SUFFICES ASSUME PoolInv, [Next]_vars PROVE PoolInv'
  OBVIOUS
<1> USE DEF PoolInv
<1>n. Cardinality(Unreaped) \in Nat
  BY UnreapedFinite
<1>1. CASE NextLine
  <2>1. Unreaped' = Unreaped
    BY <1>1 DEF NextLine, SpawnEntry, Unreaped
  <2>2. PoolTypes'
    BY <1>1 DEF NextLine, SpawnEntry, PoolTypes
  <2>3. HostsOnce'
    BY <1>1 DEF NextLine, SpawnEntry, HostsOnce, PoolTypes
  <2>4. CountMatches'
    BY <1>1, <1>n, <2>1 DEF NextLine, SpawnEntry, CountMatches, PoolTypes
  <2>5. QED
    BY <2>2, <2>3, <2>4
<1>2. CASE Fork
  <2>1. Cardinality(Unreaped') = Cardinality(Unreaped) + 1
    BY <1>2, ForkAdds DEF Fork, HostsOnce
  <2>2. PoolTypes'
    BY <1>2 DEF Fork, SpawnFork, PoolTypes, HostsOnce
  <2>3. HostsOnce'
    BY <1>2 DEF Fork, SpawnFork, PoolTypes, HostsOnce
  <2>4. CountMatches'
    BY <1>2, <1>n, <2>1 DEF Fork, SpawnFork, CountMatches, PoolTypes
  <2>5. QED
    BY <2>2, <2>3, <2>4
<1>3. CASE Reap
  <2>1. PICK h \in Host : ReapChild(h)
    BY <1>3 DEF Reap
  <2>2. Cardinality(Unreaped') = Cardinality(Unreaped) - 1
    BY <2>1, ReapRemoves
  <2>3. PoolTypes'
    BY <1>3, <2>1 DEF Reap, ReapChild, PoolTypes
  <2>4. HostsOnce'
    BY <1>3, <2>1 DEF Reap, ReapChild, PoolTypes, HostsOnce
  <2>5. CountMatches'
    BY <1>3, <1>n, <2>1, <2>2 DEF Reap, ReapChild, CountMatches, PoolTypes
  <2>6. QED
    BY <2>3, <2>4, <2>5
<1>4. CASE Children
  <2>1. PICK h \in Host : Child(h)
    BY <1>4 DEF Children
  <2>2. /\ Unreaped' = Unreaped
        /\ proc' \in [Host -> {"none", "run", "exit", "zombie", "gone"}]
        /\ \A g \in Host : proc[g] = "none" => proc'[g] = "none"
        /\ UNCHANGED <<children, children_count>>
    BY <2>1, ChildStays
  <2>3. PoolTypes'
    BY <1>4, <2>2 DEF Children, PoolTypes
  <2>4. HostsOnce'
    BY <1>4, <2>2 DEF Children, PoolTypes, HostsOnce
  <2>5. CountMatches'
    BY <1>4, <2>2 DEF Children, CountMatches
  <2>6. QED
    BY <2>3, <2>4, <2>5
<1>5. ASSUME UNCHANGED <<children, children_count, proc, todo, hostname>>,
             draining' \in BOOLEAN,
             \/ /\ pc' \in {"next", "read", "reap", "last", "done"}
                /\ pc \notin {"fork", "failed"}
             \/ pc' = pc
             \/ pc = "fork" /\ pc' = "failed"
      PROVE  PoolInv'
  <2>1. Unreaped' = Unreaped
    BY <1>5 DEF Unreaped
  <2>2. PoolTypes' /\ HostsOnce'
    BY <1>5 DEF PoolTypes, HostsOnce
  <2>3. CountMatches'
    BY <1>5, <2>1 DEF CountMatches
  <2>4. QED
    BY <2>2, <2>3
<1>6. CASE ForkFails
  BY <1>5, <1>6 DEF ForkFails, poolVars, PoolTypes
<1>7. CASE EndOfFile
  BY <1>5, <1>7 DEF EndOfFile, poolVars
<1>8. CASE ReadOutput
  BY <1>5, <1>8 DEF ReadOutput, Read, PoolTypes
<1>9. CASE ReapEnds
  <2>1. pc' \in {"next", "read", "last"}
    BY <1>9 DEF ReapEnds, PoolTypes
  <2>2. QED
    BY <1>5, <1>9, <2>1 DEF ReapEnds, poolVars, PoolTypes
<1>10. CASE LastRead
  BY <1>5, <1>10 DEF LastRead, Read, PoolTypes
<1>11. CASE UNCHANGED vars
  BY <1>5, <1>11 DEF vars, poolVars, PoolTypes
<1>12. QED
  BY <1>1, <1>2, <1>3, <1>4, <1>6, <1>7, <1>8, <1>9, <1>10, <1>11 DEF Next, Parent

\* The inductive invariant of the pool holds always.
LEMMA SpecPoolInv == Spec => []PoolInv
  BY InitPoolInv, NextPoolInv, PTL DEF Spec

\* children_count is the number of child processes not yet waited for, and one
\* more while an entry is being forked, whenever the children end: the loops
\* at dns-resolvfile.c:131 and 140 do not end early and do not run on.
THEOREM SpecCountMatches == Spec => []CountMatches
<1>1. PoolInv => CountMatches
  BY DEF PoolInv
<1>2. QED
  BY <1>1, SpecPoolInv, PTL

-----------------------------------------------------------------------------
\* workers_init() only lowers max_children.
LEMMA LimitLowered == MaxChildren \in Int /\ MaxChildren <= Want
  BY WorkersAssumption DEF MaxChildren, Lowered

\* The pool grows by one at a time, from a count below the limit.
LEMMA NextBelowLimit == BelowLimit /\ PoolInv /\ [Next]_vars => BelowLimit'
<1> SUFFICES ASSUME BelowLimit, PoolInv, [Next]_vars PROVE BelowLimit'
  OBVIOUS
<1> USE DEF PoolInv
<1>n. Cardinality(Unreaped) \in Nat /\ MaxChildren \in Int
  BY UnreapedFinite, LimitLowered
<1>1. CASE Fork
  <2>1. Cardinality(Unreaped') = Cardinality(Unreaped) + 1
    BY <1>1, ForkAdds DEF Fork, HostsOnce
  <2>2. QED
    BY <1>1, <1>n, <2>1 DEF Fork, BelowLimit
<1>2. CASE Reap
  <2>1. PICK h \in Host : ReapChild(h)
    BY <1>2 DEF Reap
  <2>2. Cardinality(Unreaped') = Cardinality(Unreaped) - 1
    BY <2>1, ReapRemoves
  <2>3. QED
    BY <1>2, <1>n, <2>2 DEF Reap, BelowLimit
<1>3. CASE ReapEnds
  <2>1. Unreaped' = Unreaped
    BY <1>3 DEF ReapEnds, poolVars, Unreaped
  <2>2. children_count = Cardinality(Unreaped)
    BY <1>3, <1>n DEF ReapEnds, CountMatches
  <2>3. /\ ~draining /\ children_count = MaxChildren => pc' = "read"
        /\ draining => pc' # "next"
    BY <1>3 DEF ReapEnds, PoolTypes
  <2>4. pc' \in {"next", "read", "last"} /\ draining' = draining
    BY <1>3 DEF ReapEnds, PoolTypes
  <2>5. QED
    BY <1>n, <2>1, <2>2, <2>3, <2>4 DEF BelowLimit
<1>4. CASE Children
  <2>1. PICK h \in Host : Child(h)
    BY <1>4 DEF Children
  <2>2. Unreaped' = Unreaped
    BY <2>1, ChildStays
  <2>3. QED
    BY <1>4, <2>2 DEF Children, BelowLimit
<1>5. ASSUME UNCHANGED <<proc, draining>>,
             pc' = pc \/ (pc = "next" /\ pc' = "fork") \/ pc' \notin {"next", "fork"}
      PROVE  BelowLimit'
  <2>1. Unreaped' = Unreaped
    BY <1>5 DEF Unreaped
  <2>2. QED
    BY <1>5, <2>1 DEF BelowLimit
<1>6. CASE NextLine
  BY <1>5, <1>6 DEF NextLine, SpawnEntry
<1>7. CASE ForkFails
  BY <1>5, <1>7 DEF ForkFails, poolVars
<1>8. CASE EndOfFile
  <2>1. Unreaped' = Unreaped /\ pc' \in {"read", "last"}
    BY <1>8 DEF EndOfFile, poolVars, Unreaped
  <2>2. QED
    BY <2>1 DEF BelowLimit
<1>9. CASE ReadOutput
  BY <1>5, <1>9 DEF ReadOutput, Read
<1>10. CASE LastRead
  BY <1>5, <1>10 DEF LastRead, Read
<1>11. CASE UNCHANGED vars
  BY <1>5, <1>11 DEF vars, poolVars
<1>12. QED
  BY <1>1, <1>2, <1>3, <1>4, <1>6, <1>7, <1>8, <1>9, <1>10, <1>11 DEF Next, Parent

\* If the limits leave room for one process, there are never more than
\* max_children, and workers_spawn() takes an entry children[] has (487), although
\* spawn_workers() compares the count with the limit for equality, after the spawn.
THEOREM SpecWithinLimit ==
  ASSUME MaxChildren > 0
  PROVE  Spec => []WithinLimit
<1>1. Init => BelowLimit
  <2>1. Init => Unreaped = {}
    BY DEF Init, PoolInit, Unreaped
  <2>2. QED
    BY <2>1, FS_EmptySet, LimitLowered DEF Init, BelowLimit
<1>2. BelowLimit /\ PoolInv /\ [Next]_vars => BelowLimit'
  BY NextBelowLimit
<1>3. BelowLimit /\ PoolInv => WithinLimit
  BY UnreapedFinite, LimitLowered, WorkersAssumption
     DEF BelowLimit, PoolInv, PoolTypes, CountMatches, WithinLimit
<1>4. QED
  BY <1>1, <1>2, <1>3, SpecPoolInv, PTL DEF Spec

-----------------------------------------------------------------------------
(* The two pipes.  What has been printed and what waits in the pipe only   *)
(* grows at its end: a read moves the border between the two.  A child     *)
(* whose execve() failed has nothing to print that is not there already.   *)
OutputTypes ==
  /\ pipe \in [Std -> Seq(Chunk)]
  /\ output \in [Std -> Seq(Chunk)]
  /\ unflushed \in 0..Len(output["stdout"])
  /\ written \in [Host -> Nat]
  /\ chunks \in [Host -> Seq(Chunk)]
  /\ executed \in [Host -> BOOLEAN]

IsPrinted(c) == \E j \in 1..Len(Printed) : Printed[j] = c

Texts ==
  \A h \in Host :
    /\ proc[h] = "none" => executed[h] /\ written[h] = 0
    /\ executed[h] => \E n \in 0..MaxChunks : chunks[h] = Result(h, n)
    /\ ~executed[h] => \A k \in 1..Len(chunks[h]) : IsPrinted(chunks[h][k])

OutputInv == OutputTypes /\ Texts /\ OutputInOrder

LEMMA StdoutTypes ==
  ASSUME OutputTypes
  PROVE  /\ "stdout" \in Std /\ "stderr" \in Std
         /\ pipe["stdout"] \in Seq(Chunk) /\ Len(pipe["stdout"]) \in Nat
         /\ output["stdout"] \in Seq(Chunk) /\ Len(output["stdout"]) \in Nat
BY LenProperties DEF OutputTypes, Std

LEMMA PrintedIsSequence ==
  ASSUME OutputTypes
  PROVE  /\ Printed \in Seq(Chunk) /\ Len(Printed) \in Nat
         /\ Len(Printed) = Len(output["stdout"]) + Len(pipe["stdout"])
         /\ \A k \in 1..Len(output["stdout"]) :
              k \in 1..Len(Printed) /\ Printed[k] = output["stdout"][k]
<1> DEFINE o == output["stdout"]
           p == pipe["stdout"]
<1>1. o \in Seq(Chunk) /\ p \in Seq(Chunk) /\ Len(o) \in Nat /\ Len(p) \in Nat
  BY StdoutTypes
<1> HIDE DEF o, p
<1>2. /\ o \o p \in Seq(Chunk) /\ Len(o \o p) = Len(o) + Len(p)
      /\ \A k \in 1..(Len(o) + Len(p)) : (o \o p)[k] = IF k <= Len(o) THEN o[k] ELSE p[k - Len(o)]
  BY <1>1, ConcatProperties
<1>3. \A k \in 1..Len(o) : k \in 1..Len(o \o p) /\ (o \o p)[k] = o[k]
  BY <1>1, <1>2
<1>4. Printed = o \o p
  BY DEF Printed, o, p
<1>5. /\ Printed \in Seq(Chunk) /\ Len(Printed) \in Nat /\ Len(Printed) = Len(o) + Len(p)
      /\ \A k \in 1..Len(o) : k \in 1..Len(Printed) /\ Printed[k] = o[k]
  BY <1>1, <1>2, <1>3, <1>4
<1> HIDE <1>1, <1>2, <1>3, <1>4
<1>6. QED
  BY <1>5 DEF o, p

\* The end of a sequence, from behind its first n elements.
LEMMA EndOf ==
  ASSUME NEW p \in Seq(Chunk), NEW n \in 0..Len(p)
  PROVE  /\ SubSeq(p, n + 1, Len(p)) \in Seq(Chunk)
         /\ Len(SubSeq(p, n + 1, Len(p))) = Len(p) - n
         /\ \A k \in 1..(Len(p) - n) : SubSeq(p, n + 1, Len(p))[k] = p[n + k]
<1>1. Len(p) \in Nat /\ \A k \in 1..Len(p) : p[k] \in Chunk
  BY ElementOfSeq, LenProperties
<1>2. QED
  BY <1>1, SubSeqProperties

\* What a read() takes from the front of a pipe and what it leaves are the pipe.
LEMMA ReadSplits ==
  ASSUME NEW p \in Seq(Chunk), NEW n \in 0..Len(p)
  PROVE  /\ SubSeq(p, 1, n) \in Seq(Chunk) /\ Len(SubSeq(p, 1, n)) = n
         /\ SubSeq(p, n + 1, Len(p)) \in Seq(Chunk)
         /\ SubSeq(p, 1, n) \o SubSeq(p, n + 1, Len(p)) = p
<1>1. Len(p) \in Nat /\ \A k \in 1..Len(p) : p[k] \in Chunk
  BY ElementOfSeq, LenProperties
<1> DEFINE a == SubSeq(p, 1, n)
           b == SubSeq(p, n + 1, Len(p))
<1>2. a \in Seq(Chunk) /\ Len(a) = n /\ \A k \in 1..n : a[k] = p[k]
  BY <1>1, SubSeqProperties
<1>3. b \in Seq(Chunk) /\ Len(b) = Len(p) - n /\ \A k \in 1..(Len(p) - n) : b[k] = p[n + k]
  BY <1>1, SubSeqProperties
<1> HIDE DEF a, b
<1>4. /\ a \o b \in Seq(Chunk) /\ Len(a \o b) = Len(a) + Len(b)
      /\ \A k \in 1..(Len(a) + Len(b)) :
           (a \o b)[k] = IF k <= Len(a) THEN a[k] ELSE b[k - Len(a)]
  BY <1>2, <1>3, ConcatProperties
<1>5. Len(a \o b) = Len(p) /\ \A k \in 1..Len(a \o b) : (a \o b)[k] = p[k]
  <2>1. Len(a) + Len(b) = Len(p) /\ Len(a \o b) = Len(p)
    BY <1>1, <1>2, <1>3, <1>4
  <2>2. ASSUME NEW k \in 1..Len(p) PROVE (a \o b)[k] = p[k]
    <3>1. CASE k <= n
      BY <1>1, <1>2, <1>4, <2>1, <3>1
    <3>2. CASE k > n
      <4>1. k - n \in 1..(Len(p) - n) /\ n + (k - n) = k /\ Len(a) = n
        BY <1>1, <1>2, <3>2
      <4>2. (a \o b)[k] = b[k - n]
        BY <1>1, <1>4, <2>1, <3>2, <4>1
      <4>3. b[k - n] = p[n + (k - n)]
        BY <1>3, <4>1
      <4>4. QED
        BY <4>1, <4>2, <4>3
    <3>3. k <= n \/ k > n
      BY <1>1
    <3>4. QED
      BY <3>1, <3>2, <3>3
  <2>3. QED
    BY <2>1, <2>2
<1>6. a \o b = p
  BY <1>4, <1>5, SeqEqual
<1>7. QED
  BY <1>2, <1>3, <1>6 DEF a, b

LEMMA Regrouped ==
  ASSUME NEW a \in Seq(Chunk), NEW b \in Seq(Chunk), NEW c \in Seq(Chunk)
  PROVE  (a \o b) \o c = a \o (b \o c)
BY ConcatAssociative

\* workers_read() moves chunks from the pipes to the output, and loses none.
LEMMA ReadKeepsPrinted ==
  ASSUME OutputTypes, Read
  PROVE  OutputTypes' /\ Printed' = Printed
<1> DEFINE n(s) == IF Len(pipe[s]) < ReadSize THEN Len(pipe[s]) ELSE ReadSize
<1>1. /\ output' = [s \in Std |-> output[s] \o SubSeq(pipe[s], 1, n(s))]
      /\ pipe' = [s \in Std |-> SubSeq(pipe[s], n(s) + 1, Len(pipe[s]))]
      /\ Fwrite(n("stdout"))
      /\ UNCHANGED <<written, chunks, executed>>
  BY DEF Read
<1>2. ASSUME NEW s \in Std
      PROVE  /\ SubSeq(pipe[s], 1, n(s)) \in Seq(Chunk)
             /\ Len(SubSeq(pipe[s], 1, n(s))) = n(s) /\ n(s) \in Nat
             /\ SubSeq(pipe[s], n(s) + 1, Len(pipe[s])) \in Seq(Chunk)
             /\ SubSeq(pipe[s], 1, n(s)) \o SubSeq(pipe[s], n(s) + 1, Len(pipe[s])) = pipe[s]
             /\ output[s] \in Seq(Chunk)
  <2>1. pipe[s] \in Seq(Chunk) /\ output[s] \in Seq(Chunk)
    BY DEF OutputTypes
  <2>2. n(s) \in 0..Len(pipe[s]) /\ n(s) \in Nat
    BY <2>1, LenProperties, WorkersAssumption
  <2> HIDE DEF n
  <2>3. QED
    BY <2>1, <2>2, ReadSplits
<1> HIDE DEF n
<1>3. OutputTypes'
  <2>1. \A s \in Std : output[s] \o SubSeq(pipe[s], 1, n(s)) \in Seq(Chunk)
    BY <1>2, ConcatProperties
  <2>2. Len(output'["stdout"]) = Len(output["stdout"]) + n("stdout")
    <3>1. "stdout" \in Std
      BY StdoutTypes
    <3>2. output'["stdout"] = output["stdout"] \o SubSeq(pipe["stdout"], 1, n("stdout"))
      BY <1>1, <3>1
    <3> DEFINE a == SubSeq(pipe["stdout"], 1, n("stdout"))
    <3>3. a \in Seq(Chunk) /\ Len(a) = n("stdout") /\ output["stdout"] \in Seq(Chunk)
      BY <1>2, <3>1
    <3> HIDE DEF a
    <3>4. Len(output["stdout"] \o a) = Len(output["stdout"]) + Len(a)
      BY <3>3, ConcatProperties
    <3>5. QED
      BY <3>2, <3>3, <3>4 DEF a
  <2>3. unflushed' \in 0..Len(output'["stdout"])
    <3>1. /\ unflushed \in 0..Len(output["stdout"]) /\ Len(output["stdout"]) \in Nat
          /\ n("stdout") \in Nat
      BY <1>2, StdoutTypes DEF OutputTypes
    <3>2. CASE n("stdout") = 0
      BY <1>1, <2>2, <3>1, <3>2 DEF Fwrite
    <3>3. CASE n("stdout") # 0
      BY <1>1, <2>2, <3>1, <3>3 DEF Fwrite
    <3>4. QED
      BY <3>2, <3>3
  <2>4. QED
    BY <1>1, <1>2, <2>1, <2>3 DEF OutputTypes
<1>4. Printed' = Printed
  <2>1. "stdout" \in Std
    BY DEF Std
  <2> DEFINE o == output["stdout"]
             a == SubSeq(pipe["stdout"], 1, n("stdout"))
             b == SubSeq(pipe["stdout"], n("stdout") + 1, Len(pipe["stdout"]))
  <2>2. Printed' = (o \o a) \o b
    BY <1>1, <2>1 DEF Printed
  <2>3. o \in Seq(Chunk) /\ a \in Seq(Chunk) /\ b \in Seq(Chunk) /\ a \o b = pipe["stdout"]
    BY <1>2, <2>1
  <2> HIDE DEF o, a, b
  <2>4. (o \o a) \o b = o \o (a \o b)
    BY <2>3, Regrouped
  <2>5. QED
    BY <2>2, <2>3, <2>4 DEF Printed, o
<1>5. QED
  BY <1>3, <1>4

\* The order speaks of what is printed and written, and of nothing else.
LEMMA OrderKeeps ==
  ASSUME OutputInv, OutputTypes', Printed' = Printed, UNCHANGED <<written, chunks, executed>>,
         \A h \in Host : proc'[h] = "none" => proc[h] = "none"
  PROVE  OutputInv'
<1>1. OutputTypes'
  OBVIOUS
<1>2. Texts'
  <2> SUFFICES ASSUME NEW h \in Host
               PROVE  /\ proc'[h] = "none" => executed'[h] /\ written'[h] = 0
                      /\ executed'[h] => \E n \in 0..MaxChunks : chunks'[h] = Result(h, n)
                      /\ ~executed'[h] => \A k \in 1..Len(chunks'[h]) :
                           \E j \in 1..Len(Printed') : Printed'[j] = chunks'[h][k]
    BY DEF Texts, IsPrinted
  <2>1. QED
    BY DEF OutputInv, Texts, IsPrinted
<1>3. OutputInOrder'
  BY DEF OutputInv, OutputInOrder
<1>4. QED
  BY <1>1, <1>2, <1>3 DEF OutputInv

\* fork() gives the child a result to print, or what the parent had not flushed.
LEMMA ForkKeeps ==
  ASSUME OutputInv, hostname \in Host, proc[hostname] = "none", SpawnFork(hostname),
         proc \in [Host -> {"none", "run", "exit", "zombie", "gone"}]
  PROVE  OutputInv'
<1>1. OutputTypes /\ UNCHANGED <<written, pipe, output, unflushed>>
  BY DEF OutputInv, SpawnFork
<1>2. Printed' = Printed /\ (\A c : (\E j \in 1..Len(Printed') : Printed'[j] = c) <=> IsPrinted(c))
  BY <1>1 DEF Printed, IsPrinted
<1>3. written[hostname] = 0 /\ executed[hostname]
  BY DEF OutputInv, Texts
<1>4. /\ proc' = [proc EXCEPT ![hostname] = "run"]
      /\ executed' \in [Host -> BOOLEAN]
      /\ \A h \in Host : h # hostname => executed'[h] = executed[h] /\ chunks'[h] = chunks[h]
  BY <1>1 DEF SpawnFork, OutputTypes
<1>5. /\ chunks'[hostname] \in Seq(Chunk) /\ chunks' \in [Host -> Seq(Chunk)]
      /\ executed'[hostname] => \E n \in 0..MaxChunks : chunks'[hostname] = Result(hostname, n)
      /\ ~executed'[hostname] => \A k \in 1..Len(chunks'[hostname]) : IsPrinted(chunks'[hostname][k])
  <2>1. CASE \E n \in 0..MaxChunks :
               chunks' = [chunks EXCEPT ![hostname] = Result(hostname, n)] /\ UNCHANGED executed
    <3>1. PICK n \in 0..MaxChunks :
                 chunks' = [chunks EXCEPT ![hostname] = Result(hostname, n)] /\ UNCHANGED executed
      BY <2>1
    <3>2. Result(hostname, n) \in Seq(Chunk)
      <4>1. n \in Nat /\ \A k \in 1..n : <<hostname, k>> \in Chunk
        BY WorkersAssumption DEF Chunk
      <4>2. QED
        BY <4>1, IsASeq DEF Result
    <3>3. chunks'[hostname] = Result(hostname, n) /\ executed'[hostname]
      BY <1>1, <1>3, <3>1 DEF OutputTypes
    <3>4. QED
      BY <1>1, <3>1, <3>2, <3>3 DEF OutputTypes
  <2>2. CASE /\ chunks' = [chunks EXCEPT ![hostname] = Buffered]
             /\ executed' = [executed EXCEPT ![hostname] = FALSE]
    <3> DEFINE o == output["stdout"]
    <3>1. o \in Seq(Chunk) /\ Len(o) \in Nat /\ unflushed \in 0..Len(o)
      BY <1>1, StdoutTypes DEF OutputTypes
    <3> HIDE DEF o
    <3>2. /\ Buffered = SubSeq(o, Len(o) - unflushed + 1, Len(o))
          /\ SubSeq(o, Len(o) - unflushed + 1, Len(o)) \in Seq(Chunk)
          /\ Len(SubSeq(o, Len(o) - unflushed + 1, Len(o))) = unflushed
          /\ \A k \in 1..unflushed :
               SubSeq(o, Len(o) - unflushed + 1, Len(o))[k] = o[Len(o) - unflushed + k]
      <4>1. Len(o) - unflushed \in 0..Len(o) /\ Len(o) - (Len(o) - unflushed) = unflushed
        BY <3>1
      <4>2. Buffered = SubSeq(o, Len(o) - unflushed + 1, Len(o))
        BY DEF Buffered, o
      <4>3. QED
        BY <3>1, <4>1, <4>2, EndOf
    <3>3. ASSUME NEW k \in 1..Len(Buffered)
          PROVE  IsPrinted(Buffered[k])
      <4>0. k \in 1..unflushed
        BY <3>2
      <4>1. Len(o) - unflushed + k \in 1..Len(o) /\ Buffered[k] = o[Len(o) - unflushed + k]
        BY <3>1, <3>2, <4>0
      <4>2. \A i \in 1..Len(o) : IsPrinted(o[i])
        BY <1>1, PrintedIsSequence DEF IsPrinted, o
      <4>3. QED
        BY <4>1, <4>2
    <3>4. chunks'[hostname] = Buffered /\ executed'[hostname] = FALSE /\ Buffered \in Seq(Chunk)
      BY <1>1, <2>2, <3>2 DEF OutputTypes
    <3>5. QED
      BY <1>1, <2>2, <3>3, <3>4 DEF OutputTypes
  <2>3. QED
    BY <2>1, <2>2 DEF SpawnFork
<1>6. OutputTypes'
  BY <1>1, <1>4, <1>5 DEF OutputTypes
<1>7. Texts'
  <2> SUFFICES ASSUME NEW h \in Host
               PROVE  /\ proc'[h] = "none" => executed'[h] /\ written'[h] = 0
                      /\ executed'[h] => \E n \in 0..MaxChunks : chunks'[h] = Result(h, n)
                      /\ ~executed'[h] => \A k \in 1..Len(chunks'[h]) : IsPrinted(chunks'[h][k])
    BY <1>2 DEF Texts, IsPrinted
  <2>1. CASE h = hostname
    <3>1. proc'[h] # "none"
      BY <1>4, <2>1
    <3>2. QED
      BY <1>5, <2>1, <3>1
  <2>2. CASE h # hostname
    <3>1. executed'[h] = executed[h] /\ chunks'[h] = chunks[h] /\ written'[h] = written[h]
          /\ proc'[h] = proc[h]
      BY <1>1, <1>4, <2>2
    <3>2. QED
      BY <3>1 DEF OutputInv, Texts
  <2>3. QED
    BY <2>1, <2>2
<1>8. OutputInOrder'
  <2>1. \A h \in Host, k \in 1..MaxChunks :
          executed'[h] /\ k <= written'[h] <=> executed[h] /\ k <= written[h]
    <3> SUFFICES ASSUME NEW h \in Host, NEW k \in 1..MaxChunks
                 PROVE  executed'[h] /\ k <= written'[h] <=> executed[h] /\ k <= written[h]
      OBVIOUS
    <3>1. CASE h = hostname
      BY <1>1, <1>3, <3>1
    <3>2. CASE h # hostname
      BY <1>1, <1>4, <3>2
    <3>3. QED
      BY <3>1, <3>2
  <2>2. (\A h \in Host : executed'[h]) => \A h \in Host : executed[h]
    BY <1>3, <1>4
  <2>3. /\ \A j \in 1..Len(Printed) : Printed[j] \in Chunk
        /\ \A h \in Host, k \in 1..MaxChunks :
             executed'[h] /\ k <= written'[h] <=> \E j \in 1..Len(Printed) : Printed[j] = <<h, k>>
        /\ \A m \in 1..Len(Printed) :
             Printed[m][2] > 1 => \E j \in 1..(m - 1) : Printed[j] = <<Printed[m][1], Printed[m][2] - 1>>
        /\ (\A h \in Host : executed'[h]) =>
             \A j, m \in 1..Len(Printed) : j # m => Printed[j] # Printed[m]
    BY <2>1, <2>2 DEF OutputInv, OutputInOrder
  <2>4. Printed' = Printed
    BY <1>2
  <2> HIDE <2>1, <2>2
  <2>5. QED
    BY <2>3, <2>4 DEF OutputInOrder
<1>9. QED
  BY <1>6, <1>7, <1>8 DEF OutputInv

\* A child's write() puts a chunk at the end of the pipe.
LEMMA Printing ==
  ASSUME OutputTypes, NEW x \in Chunk, output' = output,
         pipe' = [pipe EXCEPT !["stdout"] = Append(@, x)]
  PROVE  /\ pipe' \in [Std -> Seq(Chunk)]
         /\ Printed \in Seq(Chunk) /\ Len(Printed) \in Nat /\ Len(Printed') = Len(Printed) + 1
         /\ \A j \in 1..Len(Printed) : Printed'[j] = Printed[j]
         /\ Printed'[Len(Printed) + 1] = x
<1>1. /\ "stdout" \in Std /\ pipe \in [Std -> Seq(Chunk)]
      /\ pipe["stdout"] \in Seq(Chunk) /\ output["stdout"] \in Seq(Chunk)
  BY StdoutTypes DEF OutputTypes
<1> DEFINE o == output["stdout"]
           p == pipe["stdout"]
           q == Append(p, x)
<1>2. Printed = o \o p /\ Printed' = o \o q
  BY <1>1 DEF Printed
<1>3. o \in Seq(Chunk) /\ p \in Seq(Chunk)
  BY <1>1
<1>4. q \in Seq(Chunk) /\ Len(q) = Len(p) + 1 /\ q[Len(p) + 1] = x
      /\ \A j \in 1..Len(p) : q[j] = p[j]
  BY <1>3, AppendProperties
<1>5. pipe' \in [Std -> Seq(Chunk)]
  BY <1>1, <1>4
<1> HIDE DEF o, p, q
<1>6. /\ o \o p \in Seq(Chunk) /\ Len(o \o p) = Len(o) + Len(p)
      /\ \A k \in 1..(Len(o) + Len(p)) :
           (o \o p)[k] = IF k <= Len(o) THEN o[k] ELSE p[k - Len(o)]
  BY <1>3, ConcatProperties
<1>7. /\ o \o q \in Seq(Chunk) /\ Len(o \o q) = Len(o) + Len(q)
      /\ \A k \in 1..(Len(o) + Len(q)) :
           (o \o q)[k] = IF k <= Len(o) THEN o[k] ELSE q[k - Len(o)]
  BY <1>3, <1>4, ConcatProperties
<1>8. Len(o) \in Nat /\ Len(p) \in Nat
  BY <1>3, LenProperties
<1>9. \A j \in 1..(Len(o) + Len(p)) : (o \o q)[j] = (o \o p)[j]
  BY <1>4, <1>6, <1>7, <1>8
<1>10. (o \o q)[Len(o) + Len(p) + 1] = x
  BY <1>4, <1>7, <1>8
<1>11. QED
  BY <1>2, <1>4, <1>5, <1>6, <1>7, <1>8, <1>9, <1>10

\* What a child prints is the next chunk of its own result, or, when its execve() has
\* failed, a chunk that has been printed before.
LEMMA PrintKeeps ==
  ASSUME OutputInv, NEW h \in Host, ChildPrints(h)
  PROVE  OutputInv'
<1> DEFINE x == chunks[h][written[h] + 1]
<1>1. /\ pipe' = [pipe EXCEPT !["stdout"] = Append(@, x)]
      /\ written' = [written EXCEPT ![h] = @ + 1]
      /\ UNCHANGED <<output, chunks, executed, unflushed, proc>>
  BY DEF ChildPrints
<1>2. /\ written[h] \in Nat /\ written \in [Host -> Nat] /\ MaxChunks \in Nat
      /\ chunks[h] \in Seq(Chunk) /\ written[h] + 1 \in 1..Len(chunks[h]) /\ OutputTypes
  <2>1. written[h] < Len(chunks[h]) /\ written[h] \in Nat /\ chunks[h] \in Seq(Chunk)
    BY DEF ChildPrints, OutputInv, OutputTypes
  <2>2. QED
    BY <2>1, LenProperties, WorkersAssumption DEF OutputInv, OutputTypes
<1>3. x \in Chunk
  BY <1>2, ElementOfSeq
<1>4. /\ executed[h] => x = <<h, written[h] + 1>> /\ written[h] + 1 \in 1..MaxChunks
      /\ ~executed[h] => IsPrinted(x)
  <2>1. CASE executed[h]
    <3>1. PICK n \in 0..MaxChunks : chunks[h] = Result(h, n)
      BY <2>1 DEF OutputInv, Texts
    <3>2. Len(chunks[h]) = n
      BY <3>1, <1>2 DEF Result
    <3>3. QED
      BY <1>2, <2>1, <3>1, <3>2 DEF Result
  <2>2. CASE ~executed[h]
    BY <1>2, <2>2 DEF OutputInv, Texts
  <2>3. QED
    BY <2>1, <2>2
<1> HIDE DEF x
<1>5. /\ pipe' \in [Std -> Seq(Chunk)]
      /\ Printed \in Seq(Chunk) /\ Len(Printed) \in Nat /\ Len(Printed') = Len(Printed) + 1
      /\ \A j \in 1..Len(Printed) : Printed'[j] = Printed[j]
      /\ Printed'[Len(Printed) + 1] = x
  BY <1>1, <1>2, <1>3, Printing
<1>6. OutputTypes'
  <2>1. written' \in [Host -> Nat]
    BY <1>1, <1>2
  <2>2. QED
    BY <1>1, <1>2, <1>5, <2>1 DEF OutputTypes
<1>7. ASSUME NEW c
      PROVE  IsPrinted(c)' <=> IsPrinted(c) \/ x = c
  <2>1. ASSUME NEW j \in 1..Len(Printed'), Printed'[j] = c
        PROVE  IsPrinted(c) \/ x = c
    <3>1. j = Len(Printed) + 1 \/ j \in 1..Len(Printed)
      BY <1>5
    <3>2. QED
      BY <1>5, <2>1, <3>1 DEF IsPrinted
  <2>2. ASSUME NEW j \in 1..Len(Printed), Printed[j] = c
        PROVE  IsPrinted(c)'
    <3>1. j \in 1..Len(Printed') /\ Printed'[j] = c
      BY <1>5, <2>2
    <3>2. QED
      BY <3>1 DEF IsPrinted
  <2>3. ASSUME x = c
        PROVE  IsPrinted(c)'
    <3>1. Len(Printed) + 1 \in 1..Len(Printed') /\ Printed'[Len(Printed) + 1] = c
      BY <1>5, <2>3
    <3>2. QED
      BY <3>1 DEF IsPrinted
  <2>4. QED
    BY <2>1, <2>2, <2>3 DEF IsPrinted
<1>8. Texts'
  <2> SUFFICES ASSUME NEW g \in Host
               PROVE  /\ proc'[g] = "none" => executed'[g] /\ written'[g] = 0
                      /\ executed'[g] => \E n \in 0..MaxChunks : chunks'[g] = Result(g, n)
                      /\ ~executed'[g] => \A k \in 1..Len(chunks'[g]) : IsPrinted(chunks[g][k])'
    BY DEF Texts
  <2>1. proc[h] # "none"
    BY DEF ChildPrints
  <2>2. proc[g] = "none" => executed[g] /\ written'[g] = 0
    BY <1>1, <1>2, <2>1 DEF OutputInv, Texts
  <2>3. QED
    BY <1>1, <1>7, <2>2 DEF OutputInv, Texts
<1>9. ASSUME NEW j \in 1..Len(Printed')
      PROVE  j = Len(Printed) + 1 \/ j \in 1..Len(Printed)
  BY <1>5
<1>10. \A j \in 1..Len(Printed') : Printed'[j] \in Chunk
  BY <1>3, <1>5, <1>9 DEF OutputInv, OutputInOrder
<1>11. ASSUME NEW g \in Host, NEW k \in 1..MaxChunks
       PROVE  executed'[g] /\ k <= written'[g] <=> IsPrinted(<<g, k>>)'
  <2>1. executed[g] /\ k <= written[g] <=> IsPrinted(<<g, k>>)
    BY DEF OutputInv, OutputInOrder, IsPrinted
  <2>2. IsPrinted(<<g, k>>)' <=> IsPrinted(<<g, k>>) \/ x = <<g, k>>
    BY <1>7
  <2>3. written'[g] = (IF g = h THEN written[h] + 1 ELSE written[g]) /\ executed'[g] = executed[g]
    BY <1>1, <1>2
  <2>4. CASE executed[h]
    <3>1. x = <<g, k>> <=> g = h /\ k = written[h] + 1
      BY <1>4, <2>4
    <3>2. QED
      BY <1>2, <2>1, <2>2, <2>3, <2>4, <3>1
  <2>5. CASE ~executed[h]
    <3>1. x = <<g, k>> => IsPrinted(<<g, k>>)
      BY <1>4, <2>5
    <3>2. QED
      BY <2>1, <2>2, <2>3, <2>5, <3>1
  <2>6. QED
    BY <2>4, <2>5
<1>12. ASSUME NEW m \in 1..Len(Printed'), Printed'[m][2] > 1
       PROVE  \E j \in 1..(m - 1) : Printed'[j] = <<Printed'[m][1], Printed'[m][2] - 1>>
  <2>1. ASSUME NEW i \in 1..Len(Printed), Printed[i] = Printed'[m]
        PROVE  \E j \in 1..(i - 1) : Printed'[j] = <<Printed'[m][1], Printed'[m][2] - 1>>
    <3>1. PICK j \in 1..(i - 1) : Printed[j] = <<Printed[i][1], Printed[i][2] - 1>>
      BY <1>12, <2>1 DEF OutputInv, OutputInOrder
    <3>2. Printed'[j] = Printed[j]
      BY <1>5, <3>1
    <3>3. QED
      BY <2>1, <3>1, <3>2
  <2>2. CASE m \in 1..Len(Printed)
    BY <1>5, <2>1, <2>2
  <2>3. CASE m = Len(Printed) + 1 /\ IsPrinted(x)
    <3>1. PICK i \in 1..Len(Printed) : Printed[i] = Printed'[m]
      BY <1>5, <2>3 DEF IsPrinted
    <3>2. PICK j \in 1..(i - 1) : Printed'[j] = <<Printed'[m][1], Printed'[m][2] - 1>>
      BY <2>1, <3>1
    <3>3. j \in 1..(m - 1)
      BY <1>5, <2>3
    <3>4. QED
      BY <3>2, <3>3
  <2>4. CASE m = Len(Printed) + 1 /\ executed[h]
    <3>1. Printed'[m] = <<h, written[h] + 1>>
      BY <1>4, <1>5, <2>4
    <3>2. written[h] \in 1..MaxChunks
      <4>1. written[h] + 1 > 1 /\ written[h] + 1 \in 1..MaxChunks
        BY <1>4, <1>12, <2>4, <3>1
      <4>2. QED
        BY <1>2, <4>1
    <3>3. IsPrinted(<<h, written[h]>>)
      <4>1. executed[h] /\ written[h] <= written[h]
        BY <1>2, <2>4
      <4>2. \A k \in 1..MaxChunks : executed[h] /\ k <= written[h] => IsPrinted(<<h, k>>)
        BY DEF OutputInv, OutputInOrder, IsPrinted
      <4>3. QED
        BY <3>2, <4>1, <4>2
    <3>4. PICK j \in 1..Len(Printed) : Printed[j] = <<h, written[h]>>
      BY <3>3 DEF IsPrinted
    <3>5. j \in 1..(m - 1) /\ Printed'[j] = <<h, written[h]>>
      BY <1>5, <2>4, <3>4
    <3>6. Printed'[m][1] = h /\ Printed'[m][2] - 1 = written[h]
      <4>1. Printed'[m][1] = h /\ Printed'[m][2] = written[h] + 1
        BY <3>1
      <4>2. (written[h] + 1) - 1 = written[h]
        BY <1>2
      <4>3. QED
        BY <4>1, <4>2, Zenon
    <3>7. QED
      BY <3>5, <3>6
  <2>5. QED
    BY <1>4, <1>9, <2>2, <2>3, <2>4
<1>13. ASSUME \A g \in Host : executed'[g],
              NEW j \in 1..Len(Printed'), NEW m \in 1..Len(Printed'), j < m
       PROVE  Printed'[j] # Printed'[m]
  <2>1. j \in 1..Len(Printed) /\ Printed'[j] = Printed[j]
    BY <1>5, <1>9, <1>13
  <2>2. executed[h] /\ \A g \in Host : executed[g]
    BY <1>1, <1>13
  <2>3. CASE m \in 1..Len(Printed)
    BY <1>5, <1>13, <2>1, <2>2, <2>3 DEF OutputInv, OutputInOrder
  <2>4. CASE m = Len(Printed) + 1
    <3>1. Printed'[m] = <<h, written[h] + 1>> /\ written[h] + 1 \in 1..MaxChunks
      BY <1>4, <1>5, <2>2, <2>4
    <3>2. ~IsPrinted(<<h, written[h] + 1>>)
      <4>1. ~(written[h] + 1 <= written[h])
        BY <1>2
      <4>2. QED
        BY <3>1, <4>1 DEF OutputInv, OutputInOrder, IsPrinted
    <3>3. QED
      BY <2>1, <3>1, <3>2 DEF IsPrinted
  <2>5. QED
    BY <1>9, <2>3, <2>4
<1>14. OutputInOrder'
  <2>1. \A g \in Host, k \in 1..MaxChunks :
          executed'[g] /\ k <= written'[g] <=> \E j \in 1..Len(Printed') : Printed'[j] = <<g, k>>
    BY <1>11 DEF IsPrinted
  <2>2. ASSUME \A g \in Host : executed'[g],
               NEW j \in 1..Len(Printed'), NEW m \in 1..Len(Printed'), j # m
        PROVE  Printed'[j] # Printed'[m]
    <3>1. j < m \/ m < j
      BY <1>5, <2>2
    <3>2. QED
      BY <1>13, <2>2, <3>1
  <2>3. QED
    BY <1>10, <1>12, <2>1, <2>2 DEF OutputInOrder
<1>15. QED
  BY <1>6, <1>8, <1>14 DEF OutputInv

LEMMA InitOutputInv == Init => OutputInv
<1> SUFFICES ASSUME Init PROVE OutputInv
  OBVIOUS
<1> USE DEF Init, PoolInit
<1>1. <<>> \in Seq(Chunk) /\ Len(<<>>) = 0 /\ 0 \in 0..MaxChunks
  BY WorkersAssumption
<1>2. OutputTypes
  BY <1>1 DEF OutputTypes, Std
<1>3. Printed = <<>>
  BY DEF Printed, Std
<1>4. Len(Printed) = 0 /\ \A h \in Host : written[h] = 0
  BY <1>3
<1>5. OutputInOrder
  BY <1>4 DEF OutputInOrder
<1>6. Texts
  <2>1. \A h \in Host : Result(h, 0) = <<>>
    BY DEF Result
  <2>2. QED
    BY <1>1, <2>1 DEF Texts
<1>7. QED
  BY <1>2, <1>5, <1>6 DEF OutputInv

LEMMA NextOutputInv == OutputInv /\ PoolInv /\ [Next]_vars => OutputInv'
<1> SUFFICES ASSUME OutputInv, PoolInv, [Next]_vars PROVE OutputInv'
  OBVIOUS
<1>0. OutputTypes
  BY DEF OutputInv
<1>1. CASE Read
  BY <1>0, <1>1, ReadKeepsPrinted, OrderKeeps DEF Read
<1>2. CASE /\ UNCHANGED <<pipe, output, written, chunks, executed, unflushed>>
           /\ \A h \in Host : proc'[h] = "none" => proc[h] = "none"
  <2>1. OutputTypes' /\ Printed' = Printed
    BY <1>0, <1>2 DEF OutputTypes, Printed
  <2>2. QED
    BY <1>2, <2>1, OrderKeeps
<1>t. proc \in [Host -> {"none", "run", "exit", "zombie", "gone"}]
  BY DEF PoolInv, PoolTypes
<1>3. CASE Children
  <2>1. PICK h \in Host : Child(h)
    BY <1>3 DEF Children
  <2>2. CASE ChildPrints(h)
    BY <2>2, PrintKeeps
  <2>3. CASE ChildComplains(h)
    <3>1. /\ pipe' = [pipe EXCEPT !["stderr"] = Append(@, <<h, 1>>)]
          /\ UNCHANGED <<output, written, chunks, executed, unflushed>>
          /\ \A g \in Host : proc'[g] = "none" => proc[g] = "none"
      BY <1>t, <2>3 DEF ChildComplains
    <3>2. Append(pipe["stderr"], <<h, 1>>) \in Seq(Chunk)
      <4>1. <<h, 1>> \in Chunk /\ pipe["stderr"] \in Seq(Chunk)
        BY <1>0, WorkersAssumption DEF Chunk, OutputTypes, Std
      <4>2. QED
        BY <4>1, AppendProperties
    <3>3. OutputTypes'
      BY <1>0, <3>1, <3>2 DEF OutputTypes
    <3>4. Printed' = Printed
      BY <1>0, <3>1 DEF Printed, OutputTypes, Std
    <3>5. QED
      BY <3>1, <3>3, <3>4, OrderKeeps
  <2>4. CASE ChildExits(h)
    BY <1>2, <1>t, <2>4 DEF ChildExits
  <2>5. QED
    BY <2>1, <2>2, <2>3, <2>4 DEF Child
<1>4. CASE Fork
  <2>1. hostname \in Host /\ proc[hostname] = "none"
    BY <1>4 DEF Fork, PoolInv, HostsOnce
  <2>2. QED
    BY <1>4, <1>t, <2>1, ForkKeeps DEF Fork
<1>5. CASE ReadOutput \/ LastRead
  BY <1>1, <1>5 DEF ReadOutput, LastRead
<1>6. CASE Reap
  <2>1. PICK h \in Host : ReapChild(h)
    BY <1>6 DEF Reap
  <2>2. QED
    BY <1>2, <1>t, <2>1 DEF ReapChild
<1>7. CASE NextLine \/ ForkFails \/ EndOfFile \/ ReapEnds \/ UNCHANGED vars
  BY <1>2, <1>7 DEF NextLine, SpawnEntry, ForkFails, EndOfFile, ReapEnds, vars, poolVars
<1>8. QED
  BY <1>3, <1>4, <1>5, <1>6, <1>7 DEF Next, Parent

\* However the writes of the children and the reads of the parent interleave, for
\* pipes and reads of any size: what has been printed or waits in the pipe is what the
\* hosts' processes have written, each chunk after the one before it, and each once,
\* unless an execve() has failed: its exit(1) prints again what stdio had not flushed
\* (workers_read(), workers_spawn(), mywrite_stdout()).
THEOREM SpecOutputInOrder == Spec => []OutputInOrder
<1>1. Spec => []OutputInv
  BY InitOutputInv, NextOutputInv, SpecPoolInv, PTL DEF Spec
<1>2. OutputInv => OutputInOrder
  BY DEF OutputInv
<1>3. QED
  BY <1>1, <1>2, PTL

(***************************************************************************)
(* HttpParse.  The table of the methods is one that a search is sound      *)
(* with: their patterns are anchored at both ends and have neither         *)
(* wildcards nor skipped bytes.                                            *)
(***************************************************************************)
\* The methods are words in lower case, and no two are the same.
LEMMA TextsAre ==
  /\ Len(MethodTexts) \in Nat /\ DOMAIN MethodTexts = 1 .. Len(MethodTexts)
  /\ \A i \in 1 .. Len(MethodTexts) :
       /\ MethodTexts[i] \in Seq(0 .. Chars - 1) /\ MethodTexts[i] # <<>>
       /\ \A k \in DOMAIN MethodTexts[i] : MethodTexts[i][k] \in Letters .. 2 * Letters - 1
  /\ \A i, j \in 1 .. Len(MethodTexts) : MethodTexts[i] = MethodTexts[j] => i = j
<1> DEFINE L == Letters .. 2 * Letters - 1
           C == 0 .. Chars - 1
           W == Seq(L)
<1>1. MethodTexts \in Seq(W) /\ \A i, j \in DOMAIN MethodTexts : MethodTexts[i] # <<>> /\ (MethodTexts[i] = MethodTexts[j] => i = j)
  BY HttpAssumption
<1>2. L \subseteq C
  BY Characters
<1> HIDE DEF W
<1>3. Len(MethodTexts) \in Nat /\ DOMAIN MethodTexts = 1 .. Len(MethodTexts) /\ \A i \in 1 .. Len(MethodTexts) : MethodTexts[i] \in W
  BY <1>1
<1> HIDE DEF L, C
<1>4. ASSUME NEW w \in W PROVE w \in Seq(C) /\ \A k \in DOMAIN w : w[k] \in L
  <2>1. w \in Seq(L)
    BY DEF W
  <2>2. w \in Seq(C)
    BY <1>2, <2>1, SeqInto
  <2>3. \A k \in DOMAIN w : w[k] \in L
    BY <2>1
  <2>4. QED
    BY <2>2, <2>3
<1>5. QED
  BY <1>1, <1>3, <1>4 DEF L, C

\* The pattern of a method, and what is kept of it.
LEMMA AnchoredIs ==
  ASSUME NEW i \in 1 .. Len(MethodTexts), NEW sm, sm.nocase
  PROVE  /\ Anchored(i) \in PatternSet /\ Anchored(i).text = MethodTexts[i] /\ Anchored(i).id = i
         /\ Anchored(i).begin /\ Anchored(i).end /\ ~Anchored(i).wild /\ ~Anchored(i).hack
         /\ Kept(sm, Anchored(i)) = Anchored(i)
         /\ BarePattern(sm, Anchored(i)) = [text |-> MethodTexts[i], id |-> 0, begin |-> TRUE, end |-> TRUE, wild |-> FALSE, hack |-> FALSE]
<1> DEFINE p == Anchored(i)
           t == MethodTexts[i]
<1>1. t \in Seq(0 .. Chars - 1) /\ \A k \in DOMAIN t : t[k] \in Letters .. 2 * Letters - 1
  BY TextsAre
<1>2. i \in Nat
  OBVIOUS
<1> HIDE DEF t
<1>3. p = [text |-> t, id |-> i, begin |-> TRUE, end |-> TRUE, wild |-> FALSE, hack |-> FALSE]
  BY DEF Anchored, t
<1> HIDE DEF p
<1>4. p \in PatternSet /\ p.text = t /\ p.id = i /\ p.begin = TRUE /\ p.end = TRUE /\ p.wild = FALSE /\ p.hack = FALSE
  BY <1>1, <1>2, <1>3 DEF PatternSet
<1>5. \A k \in DOMAIN t : Fold(sm, t[k]) = t[k]
  BY <1>1, Characters DEF Fold, ToLower
<1>6. Lower(sm, p.text) = p.text
  BY <1>1, <1>4, <1>5, LowerIs
<1>7. Kept(sm, p) = p
  BY <1>4, <1>6, KeptIs
<1>8. BarePattern(sm, p) = [text |-> t, id |-> 0, begin |-> TRUE, end |-> TRUE, wild |-> FALSE, hack |-> FALSE]
  <2>1. BarePattern(sm, p) = [text |-> Lower(sm, p.text), id |-> 0, begin |-> p.begin, end |-> p.end, wild |-> p.wild, hack |-> p.hack]
    BY <1>4, BareIs
  <2>2. QED
    BY <1>4, <1>6, <2>1
<1>9. QED
  BY <1>4, <1>7, <1>8 DEF p, t

\* What has been registered when the first n methods have.
HasMethods(sm, n) ==
  /\ Collected(sm) /\ sm.nocase /\ Len(sm.patterns) = n
  /\ \A i \in 1 .. n : sm.patterns[i] = Anchored(i)

\* One method more.
LEMMA KnownNext ==
  ASSUME NEW n \in 0 .. Len(MethodTexts) - 1, NEW sm, HasMethods(sm, n)
  PROVE  HasMethods(AddPattern(sm, Anchored(n + 1)), n + 1)
<1> DEFINE m == n + 1
           pat == Anchored(m)
           g == AddPattern(sm, pat)
           P == sm.patterns
<1>1. n \in Nat /\ m \in 1 .. Len(MethodTexts) /\ (\A i \in 1 .. n : i \in 1 .. Len(MethodTexts) /\ i # m)
  BY TextsAre
<1>2. Collected(sm) /\ sm.nocase /\ Len(P) = n /\ P \in Seq(PatternSet) /\ \A i \in 1 .. n : P[i] = Anchored(i)
  BY DEF HasMethods, Collected
<1>3. DOMAIN P = 1 .. n
  BY <1>2
<1> HIDE DEF m
<1>4. /\ pat \in PatternSet /\ pat.text = MethodTexts[m] /\ pat.id = m /\ ~pat.hack /\ Kept(sm, pat) = pat
      /\ BarePattern(sm, pat) = [text |-> MethodTexts[m], id |-> 0, begin |-> TRUE, end |-> TRUE, wild |-> FALSE, hack |-> FALSE]
  BY <1>1, <1>2, AnchoredIs
<1>5. pat.text # <<>>
  BY <1>1, <1>4, TextsAre
<1> HIDE DEF pat
<1>6. ASSUME NEW q \in Elements(P)
      PROVE  \E i \in 1 .. n : BarePattern(sm, q) = [text |-> MethodTexts[i], id |-> 0, begin |-> TRUE, end |-> TRUE, wild |-> FALSE, hack |-> FALSE]
  <2>1. PICK i \in 1 .. n : q = P[i]
    BY <1>3 DEF Elements
  <2>2. q = Anchored(i) /\ i \in 1 .. Len(MethodTexts)
    BY <1>1, <1>2, <2>1
  <2>3. QED
    BY <1>2, <2>2, AnchoredIs
<1>7. ASSUME NEW q \in Elements(P) PROVE BarePattern(sm, q) # BarePattern(sm, pat)
  <2>1. PICK i \in 1 .. n : BarePattern(sm, q) = [text |-> MethodTexts[i], id |-> 0, begin |-> TRUE, end |-> TRUE, wild |-> FALSE, hack |-> FALSE]
    BY <1>6
  <2>2. MethodTexts[i] # MethodTexts[m]
    BY <1>1, TextsAre
  <2>3. BarePattern(sm, q).text = MethodTexts[i] /\ BarePattern(sm, pat).text = MethodTexts[m]
    BY <1>4, <2>1
  <2>4. QED
    BY <2>2, <2>3
<1>8. Supported({BarePattern(sm, q) : q \in Elements(P)} \cup {BarePattern(sm, pat)})
  <2> DEFINE S == {BarePattern(sm, q) : q \in Elements(P)} \cup {BarePattern(sm, pat)}
  <2>1. \A x \in S : x.hack = FALSE /\ x.wild = FALSE
    BY <1>4, <1>6
  <2> HIDE DEF S
  <2>2. Supported(S)
    BY <2>1 DEF Supported
  <2>3. QED
    BY <2>2 DEF S
<1>9. Collected(g)
  BY <1>2, <1>4, <1>5, <1>7, <1>8, AddPatternCollected DEF m
<1>10. g.nocase = sm.nocase /\ g.patterns = Append(P, pat)
  <2>1. pat.hack => \A i \in DOMAIN pat.text : pat.text[i] # Hack
    BY <1>4
  <2>2. g.nocase = sm.nocase /\ g.patterns = Append(P, Kept(sm, pat))
    <3>1. Collected(sm) /\ pat \in PatternSet /\ pat.text # <<>>
      BY <1>2, <1>4, <1>5
    <3> HIDE DEF pat
    <3>2. QED
      BY <2>1, <3>1, AddPatternIs
  <2>3. QED
    BY <1>4, <2>2
<1>11. /\ Len(Append(P, pat)) = n + 1 /\ Append(P, pat)[n + 1] = pat /\ \A i \in 1 .. n : Append(P, pat)[i] = P[i]
       /\ \A i : i \in 1 .. n + 1 <=> i \in 1 .. n \/ i = n + 1
  BY <1>2, <1>4, AppendedList
<1> HIDE DEF g, P
<1>12. HasMethods(g, n + 1)
  <2>1. \A i \in 1 .. n + 1 : g.patterns[i] = Anchored(i)
    BY <1>2, <1>10, <1>11 DEF pat, m
  <2>2. QED
    BY <1>2, <1>9, <1>10, <1>11, <2>1 DEF HasMethods
<1>13. QED
  BY <1>12 DEF g, pat, m

MethodsLoop(n, r) == r[0] = Create(TRUE) /\ \A i \in 0 .. n - 1 : r[i + 1] = AddPattern(r[i], Anchored(i + 1))

\* The methods are registered one after the other.
LEMMA MethodsSteps == \E r : MethodsLoop(Len(MethodTexts), r) /\ Methods = r[Len(MethodTexts)]
<1> DEFINE F(n, r) == r = [i \in 0 .. n |-> IF i = 0 THEN Create(TRUE) ELSE AddPattern(r[i - 1], Anchored(i))]
           T == {n \in Nat : \E r : F(n, r)}
<1>1. 0 \in T
  <2>1. F(0, [i \in 0 .. 0 |-> Create(TRUE)])
    OBVIOUS
  <2>2. QED
    BY <2>1
<1>2. ASSUME NEW n \in Nat, n \in T PROVE n + 1 \in T
  <2>1. PICK r : F(n, r)
    BY <1>2
  <2> DEFINE q == [i \in 0 .. n + 1 |-> IF i = n + 1 THEN AddPattern(r[n], Anchored(n + 1)) ELSE r[i]]
  <2>2. ASSUME NEW i \in 0 .. n + 1
        PROVE  q[i] = IF i = 0 THEN Create(TRUE) ELSE AddPattern(q[i - 1], Anchored(i))
    <3>1. CASE i = n + 1
      <4>1. q[i] = AddPattern(r[n], Anchored(n + 1)) /\ i # 0 /\ i - 1 = n /\ n \in 0 .. n + 1 /\ n # n + 1
        BY <3>1
      <4>2. q[n] = r[n]
        BY <4>1
      <4> HIDE DEF q
      <4>3. QED
        BY <3>1, <4>1, <4>2
    <3>2. CASE i \in 0 .. n
      <4>1. i # n + 1 /\ i \in 0 .. n + 1 /\ (i # 0 => i - 1 \in 0 .. n + 1 /\ i - 1 # n + 1)
        BY <3>2
      <4>2. q[i] = r[i] /\ (i # 0 => q[i - 1] = r[i - 1])
        BY <4>1
      <4>3. r[i] = IF i = 0 THEN Create(TRUE) ELSE AddPattern(r[i - 1], Anchored(i))
        BY <2>1, <3>2
      <4> HIDE DEF q
      <4>4. QED
        BY <4>2, <4>3
    <3>3. i = n + 1 \/ i \in 0 .. n
      OBVIOUS
    <3> HIDE DEF q
    <3>4. QED
      BY <3>1, <3>2, <3>3
  <2>3. F(n + 1, q)
    BY <2>2
  <2> HIDE DEF F, q
  <2>4. QED
    BY <2>3
<1> DEFINE N == Len(MethodTexts)
           w == CHOOSE r : F(N, r)
<1>3. N \in T
  BY <1>1, <1>2, TextsAre, Induction
<1>4. F(N, w)
  BY <1>3
<1>5. Methods = w[N]
  BY DEF Methods
<1>6. MethodsLoop(N, w)
  <2>1. N \in Nat
    BY TextsAre
  <2> HIDE DEF w, N
  <2>2. w = [i \in 0 .. N |-> IF i = 0 THEN Create(TRUE) ELSE AddPattern(w[i - 1], Anchored(i))]
    BY <1>4
  <2>3. w[0] = Create(TRUE)
    BY <2>1, <2>2
  <2>4. ASSUME NEW i \in 0 .. N - 1 PROVE w[i + 1] = AddPattern(w[i], Anchored(i + 1))
    <3>1. i + 1 \in 0 .. N /\ i + 1 # 0 /\ i + 1 - 1 = i
      BY <2>1
    <3> DEFINE j == i + 1
    <3> HIDE DEF j
    <3>2. w[j] = AddPattern(w[j - 1], Anchored(j))
      BY <2>2, <3>1 DEF j
    <3>3. QED
      BY <3>1, <3>2 DEF j
  <2>5. QED
    BY <2>3, <2>4 DEF MethodsLoop
<1>7. QED
  <2> HIDE DEF w
  <2>1. QED
    BY <1>5, <1>6

\* They are all registered, and plain.
LEMMA MethodsKnown ==
  /\ HasMethods(Methods, Len(MethodTexts)) /\ Plainly(Methods) /\ DOMAIN Methods.patterns = 1 .. Len(MethodTexts)
<1> DEFINE N == Len(MethodTexts)
<1>1. PICK r : MethodsLoop(N, r) /\ Methods = r[N]
  BY MethodsSteps
<1>2. N \in Nat
  BY TextsAre
<1> DEFINE T == {n \in 0 .. N : HasMethods(r[n], n)}
<1>3. 0 \in T
  <2>1. r[0] = Create(TRUE)
    BY <1>1 DEF MethodsLoop
  <2>2. Collected(Create(TRUE))
    BY CreatedCollected
  <2>3. Create(TRUE).nocase /\ Len(Create(TRUE).patterns) = 0
    BY DEF Create
  <2>4. HasMethods(Create(TRUE), 0)
    <3> DEFINE g == Create(TRUE)
    <3> HIDE DEF g
    <3>1. Collected(g) /\ g.nocase /\ Len(g.patterns) = 0
      BY <2>2, <2>3 DEF g
    <3>2. \A i \in 1 .. 0 : g.patterns[i] = Anchored(i)
      OBVIOUS
    <3>3. QED
      BY <3>1, <3>2 DEF HasMethods, g
  <2>5. HasMethods(r[0], 0)
    BY <2>1, <2>4
  <2>6. QED
    BY <1>2, <2>5
<1>4. ASSUME NEW n \in 0 .. N - 1, n \in T PROVE n + 1 \in T
  <2>1. r[n + 1] = AddPattern(r[n], Anchored(n + 1)) /\ n + 1 \in 0 .. N
    BY <1>1, <1>2 DEF MethodsLoop
  <2>2. HasMethods(r[n], n)
    BY <1>4
  <2>3. HasMethods(AddPattern(r[n], Anchored(n + 1)), n + 1)
    BY <2>2, KnownNext
  <2>4. QED
    BY <2>1, <2>3
<1> HIDE DEF N
<1>5. N \in T
  <2> HIDE DEF T
  <2>1. 0 .. N \subseteq T
    BY <1>2, <1>3, <1>4, UpTo
  <2>2. QED
    BY <1>2, <2>1
<1>6. HasMethods(Methods, N)
  BY <1>1, <1>5
<1>7. Methods.patterns \in Seq(PatternSet) /\ Len(Methods.patterns) = N
  BY <1>6 DEF HasMethods, Collected
<1>8. DOMAIN Methods.patterns = 1 .. N
  BY <1>7
<1>9. Plainly(Methods)
  <2>1. ASSUME NEW i \in 1 .. N PROVE ~Methods.patterns[i].wild /\ ~Methods.patterns[i].hack
    <3>1. Methods.patterns[i] = Anchored(i) /\ i \in 1 .. Len(MethodTexts) /\ Methods.nocase
      BY <1>6, <2>1 DEF HasMethods, N
    <3>2. QED
      BY <3>1, AnchoredIs
  <2>2. QED
    BY <1>8, <2>1 DEF Plainly
<1>10. QED
  BY <1>6, <1>8, <1>9 DEF N

(***************************************************************************)
(* Reading a method: the search stays sound, nothing is reported on the    *)
(* way, and smack_search_done() has the method that was read.              *)
(***************************************************************************)
\* A row on the way to a method has no matches: every pattern has an anchor at its end.
LEMMA NoMatch ==
  ASSUME NEW d, NEW lab, Ready(Methods, d, lab), NEW t, NEW at, NEW row, NEW pend, NEW rep,
         SoundSearch(Methods, d, lab, t, at, row, pend, rep)
  PROVE  d.match[row] = <<>>
<1> DEFINE P == Methods.patterns
           v == ReadSoFar(Methods, t, at)
           ids == d.match[row]
<1>1. /\ t \in Seq(ByteSet) /\ at \in 0 .. Len(t) /\ at \in Nat /\ Len(t) \in Nat /\ v \in Text
      /\ ids \in Seq(Nat) /\ Elements(ids) = Found(Methods, t, at)
  BY SoundRow
<1>2. AnchorEnd \notin Elements(v)
  <2> DEFINE B == ByteSet
             s == SubSeq(t, 1, at)
  <2>1. t \in Seq(B) /\ at \in 0 .. Len(t) /\ at \in Nat
    BY <1>1
  <2> HIDE DEF B
  <2>2. s \in Seq(B) /\ Len(s) = at /\ \A i \in 1 .. at : s[i] = t[i]
    BY <2>1
  <2> HIDE DEF s
  <2>3. ReadSoFar(Methods, s, at) = v
    BY <2>1, <2>2, ReadPrefix DEF B
  <2>4. AnchorEnd \notin Elements(ReadSoFar(Methods, s, Len(s)))
    BY <2>2, LastOfRead DEF B
  <2>5. QED
    BY <2>2, <2>3, <2>4
<1> HIDE DEF v
<1>3. ASSUME NEW i \in 1 .. Len(P), Sfx(PatternWord(P[i]), v) PROVE FALSE
  <2>1. i \in 1 .. Len(MethodTexts) /\ P[i] = Anchored(i) /\ Methods.nocase
    BY MethodsKnown DEF HasMethods
  <2>2. P[i] \in PatternSet /\ P[i].text # <<>> /\ P[i].end
    BY <2>1, AnchoredIs, TextsAre
  <2> DEFINE w == PatternWord(P[i])
  <2>3. w # <<>> /\ w \in Text /\ w[Len(w)] = AnchorEnd
    BY <2>2, LastOfWord
  <2> HIDE DEF w
  <2>4. Len(w) \in Nat /\ Len(w) >= 1 /\ Len(v) \in Nat /\ DOMAIN v = 1 .. Len(v)
    BY <1>1, <2>3, LenNonNegative
  <2>5. Len(w) <= Len(v) /\ w[Len(w)] = v[Len(v) - Len(w) + Len(w)]
    BY <1>3, <2>4 DEF Sfx, w
  <2>6. Len(v) - Len(w) + Len(w) = Len(v) /\ Len(v) \in DOMAIN v
    BY <2>4, <2>5
  <2>7. QED
    BY <1>2, <2>3, <2>5, <2>6 DEF Elements
<1>4. Elements(ids) = {}
  BY <1>1, <1>3 DEF Found, Hits, v
<1> HIDE DEF ids
<1>5. ids = <<>>
  <2>1. Len(ids) \in Nat /\ DOMAIN ids = 1 .. Len(ids)
    BY <1>1
  <2>2. Len(ids) = 0
    <3>1. CASE Len(ids) # 0
      <4>1. 1 \in DOMAIN ids
        BY <2>1, <3>1
      <4>2. QED
        BY <1>4, <4>1 DEF Elements
    <3>2. QED
      BY <3>1
  <2>3. QED
    BY <1>1, <2>2
<1>6. QED
  BY <1>5 DEF ids

\* One byte of the method.
LEMMA MethodByte ==
  ASSUME NEW d, NEW lab, Ready(Methods, d, lab), NEW t, NEW st, st.pending = 0, NEW rep,
         SoundSearch(Methods, d, lab, t, Len(t), st.row, 0, rep), NEW c \in ByteSet
  PROVE  LET s == SearchNext(d, st, <<c>>, 0).state
         IN /\ s.pending = 0
            /\ SoundSearch(Methods, d, lab, t \o <<c>>, Len(t \o <<c>>), s.row, 0, rep)
<1> DEFINE px == <<c>>
           u == t \o px
           at == InnerMatch(d, st.row, px, 0)
           s == SearchNext(d, st, px, 0).state
<1>1. px \in Seq(ByteSet) /\ Len(px) = 1 /\ px[1] = c /\ 0 \in 0 .. Len(px) /\ 0 < Len(px)
  BY OneIs
<1>2. t \in Seq(ByteSet) /\ Len(t) \in Nat
  BY SoundRow
<1> HIDE DEF px
<1>3. u \in Seq(ByteSet) /\ Len(u) = Len(t) + 1 /\ u[Len(t) + 1] = px[1]
  <2>1. /\ u \in Seq(ByteSet) /\ Len(u) = Len(t) + Len(px)
        /\ \A i \in 1 .. Len(px) : u[Len(t) + i] = px[i]
    <3> DEFINE B == ByteSet
    <3>1. px \in Seq(B) /\ t \in Seq(B)
      BY <1>1, <1>2
    <3> HIDE DEF B
    <3>2. /\ t \o px \in Seq(B) /\ Len(t \o px) = Len(t) + Len(px)
          /\ \A i \in 1 .. Len(px) : (t \o px)[Len(t) + i] = px[i]
      BY <3>1, Joined
    <3>3. QED
      BY <3>2 DEF B
  <2>2. 1 \in 1 .. Len(px)
    BY <1>1
  <2> HIDE DEF u
  <2>3. QED
    BY <1>1, <2>1, <2>2
<1>4. SoundSearch(Methods, d, lab, u, Len(t), st.row, 0, rep)
  BY <1>1, SoundLonger
<1> HIDE DEF u
<1>5. Fragment(u, px, Len(t))
  <2>1. \A i \in 1 .. Len(px) : i = 1
    BY <1>1
  <2>2. QED
    BY <1>1, <1>2, <1>3, <2>1 DEF Fragment
<1>6. Len(t) + 0 = Len(t) /\ Len(t) + Len(px) = Len(u)
  BY <1>1, <1>2, <1>3
<1>7. \/ at.i = Len(px) /\ d.match[at.row] = <<>> /\ SoundSearch(Methods, d, lab, u, Len(t) + Len(px), at.row, 0, rep)
      \/ /\ at.i \in 0 .. Len(px) - 1 /\ d.match[at.row] # <<>>
         /\ SoundSearch(Methods, d, lab, u, Len(t) + (at.i + 1), at.row, Len(d.match[at.row]), rep)
  <2> DEFINE z == 0
             B == Len(t)
             row == st.row
  <2>1. SoundSearch(Methods, d, lab, u, B + z, row, 0, rep) /\ Fragment(u, px, B) /\ z \in 0 .. Len(px) /\ z < Len(px)
    BY <1>1, <1>4, <1>5, <1>6
  <2>2. at = InnerMatch(d, row, px, z)
    OBVIOUS
  <2> HIDE DEF z, B, row, at
  <2>3. LET x == InnerMatch(d, row, px, z)
        IN \/ x.i = Len(px) /\ d.match[x.row] = <<>> /\ SoundSearch(Methods, d, lab, u, B + Len(px), x.row, 0, rep)
           \/ /\ x.i \in 0 .. Len(px) - 1 /\ d.match[x.row] # <<>>
              /\ SoundSearch(Methods, d, lab, u, B + (x.i + 1), x.row, Len(d.match[x.row]), rep)
    BY <2>1, InnerMatchSound
  <2>4. QED
    BY <2>2, <2>3 DEF B
<1> HIDE DEF at
<1>8. d.match[at.row] = <<>> /\ SoundSearch(Methods, d, lab, u, Len(u), at.row, 0, rep)
  BY <1>6, <1>7, NoMatch
<1>9. s = [row |-> at.row, pending |-> 0]
  <2> DEFINE x == IF st.pending # 0 THEN [row |-> st.row, i |-> 0] ELSE at
             fresh == st.pending = 0 /\ d.match[x.row] # <<>>
             left == IF fresh THEN Len(d.match[x.row]) ELSE st.pending
  <2>1. s = [row |-> x.row, pending |-> IF left = 0 THEN 0 ELSE (left - 1) % PendingValues]
    BY DEF SearchNext, at
  <2>2. x = at
    OBVIOUS
  <2> HIDE DEF x
  <2>3. ~fresh /\ left = 0
    BY <1>8, <2>2
  <2> HIDE DEF left
  <2>4. QED
    BY <2>1, <2>2, <2>3
<1> HIDE DEF s
<1>10. QED
  BY <1>8, <1>9 DEF s, u, px

\* The code of a letter in lower case tells which letter it is.
LEMMA SameLetter ==
  ASSUME NEW a \in ByteSet, NEW b \in ByteSet
  PROVE  LowerCode(a) = LowerCode(b) <=> ToLower(a) = ToLower(b)
<1>1. ToLower(a) \in 0 .. Chars - 1 /\ ToLower(b) \in 0 .. Chars - 1
  BY Characters DEF ByteSet, ToLower
<1>2. Code[ToLower(a)] = LowerCode(a) /\ Code[ToLower(b)] = LowerCode(b)
  BY HttpAssumption DEF ByteSet, LowerCode
<1>3. Code[ToLower(a)] = Code[ToLower(b)] => ToLower(a) = ToLower(b)
  BY <1>1, HttpAssumption
<1>4. QED
  BY <1>2, <1>3

\* The elements of a sequence.
LEMMA SeqIs ==
  ASSUME NEW S, NEW w \in Seq(S)
  PROVE  Len(w) \in Nat /\ DOMAIN w = 1 .. Len(w) /\ \A k \in 1 .. Len(w) : w[k] \in S
OBVIOUS

\* The codes of two words tell whether they are the same but for case.
LEMMA CodesTell ==
  ASSUME NEW t \in Seq(ByteSet), NEW w \in Seq(ByteSet)
  PROVE  Codes(t) = Codes(w) <=> Len(t) = Len(w) /\ \A k \in 1 .. Len(t) : ToLower(t[k]) = ToLower(w[k])
<1> DEFINE n == Len(t)
           l == Len(w)
           F == [k \in 1 .. n |-> LowerCode(t[k])]
           G == [k \in 1 .. l |-> LowerCode(w[k])]
<1>1. /\ n \in Nat /\ DOMAIN t = 1 .. n /\ \A k \in 1 .. n : t[k] \in ByteSet
      /\ l \in Nat /\ DOMAIN w = 1 .. l /\ \A k \in 1 .. l : w[k] \in ByteSet
  BY SeqIs
<1>2. Codes(t) = F /\ Codes(w) = G
  BY <1>1 DEF Codes
<1> HIDE DEF n, l
<1>3. ASSUME F = G PROVE n = l
  <2>1. DOMAIN F = 1 .. n /\ DOMAIN G = 1 .. l
    OBVIOUS
  <2> HIDE DEF F, G
  <2>2. 1 .. n = 1 .. l
    BY <1>3, <2>1
  <2>3. QED
    BY <1>1, <2>2
<1>4. ASSUME n = l, F = G, NEW k \in 1 .. n PROVE ToLower(t[k]) = ToLower(w[k])
  <2>1. F[k] = LowerCode(t[k]) /\ G[k] = LowerCode(w[k])
    BY <1>4
  <2> HIDE DEF F, G
  <2>2. LowerCode(t[k]) = LowerCode(w[k])
    BY <1>4, <2>1
  <2>3. QED
    BY <1>1, <1>4, <2>2, SameLetter
<1>5. ASSUME n = l, \A k \in 1 .. n : ToLower(t[k]) = ToLower(w[k]) PROVE F = G
  <2>1. \A k \in 1 .. n : LowerCode(t[k]) = LowerCode(w[k])
    BY <1>1, <1>5, SameLetter
  <2>2. QED
    BY <1>5, <2>1
<1> HIDE DEF F, G
<1>6. QED
  BY <1>2, <1>3, <1>4, <1>5 DEF n, l

\* A method's name in lower case stays as it is.
LEMMA LowerName ==
  ASSUME NEW i \in 1 .. Len(MethodTexts)
  PROVE  /\ MethodTexts[i] \in Seq(ByteSet)
         /\ \A k \in 1 .. Len(MethodTexts[i]) : ToLower(MethodTexts[i][k]) = MethodTexts[i][k]
<1> DEFINE t == MethodTexts[i]
<1>1. t \in Seq(0 .. Chars - 1) /\ \A k \in DOMAIN t : t[k] \in Letters .. 2 * Letters - 1
  BY TextsAre
<1> HIDE DEF t
<1>2. t \in Seq(ByteSet)
  BY <1>1 DEF ByteSet
<1>3. DOMAIN t = 1 .. Len(t)
  BY <1>1, SeqIs
<1>4. \A k \in 1 .. Len(t) : ToLower(t[k]) = t[k]
  <2>1. \A k \in 1 .. Len(t) : t[k] \in Letters .. 2 * Letters - 1
    BY <1>1, <1>3, Zenon
  <2>2. Letters \in Nat
    BY Characters
  <2>3. ASSUME NEW x \in Letters .. 2 * Letters - 1 PROVE ToLower(x) = x
    BY <2>2 DEF ToLower
  <2>4. QED
    BY <2>1, <2>3, Zenon
<1>5. QED
  BY <1>2, <1>4 DEF t

\* A method's pattern matches a word when the two are the same but for case.
LEMMA MethodMatches ==
  ASSUME NEW w \in Seq(ByteSet)
  PROVE  Matches(Methods, TRUE, w) = {id \in DOMAIN MethodTexts : Codes(MethodTexts[id]) = Codes(w)}
<1> DEFINE P == Methods.patterns
           N == Len(MethodTexts)
           S == {id \in DOMAIN MethodTexts : Codes(MethodTexts[id]) = Codes(w)}
<1>1. DOMAIN MethodTexts = 1 .. N /\ DOMAIN P = 1 .. N /\ Len(P) = N /\ Methods.nocase /\ N \in Nat
  BY MethodsKnown, TextsAre DEF HasMethods
<1>2. ASSUME NEW i \in 1 .. N
      PROVE  P[i].end = TRUE /\ (EndsIn(Methods, P[i], w) <=> Codes(MethodTexts[i]) = Codes(w))
  <2> DEFINE t == MethodTexts[i]
             p == P[i]
             n == Len(t)
             l == Len(w)
  <2>1. p = Anchored(i)
    BY <1>1, MethodsKnown DEF HasMethods
  <2>2. p.text = t /\ p.begin /\ ~p.wild /\ ~p.hack
    BY <1>1, <2>1, AnchoredIs
  <2>3. p.end = TRUE
    BY <2>1 DEF Anchored
  <2>4. t \in Seq(ByteSet) /\ \A k \in 1 .. n : ToLower(t[k]) = t[k]
    BY LowerName
  <2>5. EndsIn(Methods, p, w) <=>
          /\ Len(w) - Len(p.text) >= 0 /\ (p.begin => Len(w) - Len(p.text) = 0)
          /\ \A k \in DOMAIN p.text : p.text[k] = Fold(Methods, w[Len(w) - Len(p.text) + k])
    <3> HIDE DEF p
    <3>1. QED
      BY <2>2, PlainEndsIn
  <2>6. \A k : Fold(Methods, w[k]) = ToLower(w[k])
    BY <1>1 DEF Fold
  <2> HIDE DEF p, t
  <2>7. n \in Nat /\ DOMAIN t = 1 .. n /\ l \in Nat
    BY <2>4, SeqIs
  <2>8. EndsIn(Methods, p, w) <=> l - n >= 0 /\ l - n = 0 /\ \A k \in 1 .. n : t[k] = ToLower(w[l - n + k])
    BY <2>2, <2>5, <2>6, <2>7
  <2>9. Codes(t) = Codes(w) <=> n = l /\ \A k \in 1 .. n : ToLower(t[k]) = ToLower(w[k])
    BY <2>4, CodesTell
  <2> HIDE DEF n, l
  <2>10. (l - n >= 0 /\ l - n = 0 <=> n = l) /\ (n = l => \A k \in 1 .. n : l - n + k = k)
    BY <2>7
  <2>11. QED
    BY <2>3, <2>4, <2>8, <2>9, <2>10 DEF p, t
<1>3. S \subseteq 1 .. Len(P) /\ \A i \in 1 .. Len(P) : i \in S <=> P[i].end = TRUE /\ EndsIn(Methods, P[i], w)
  BY <1>1, <1>2
<1>4. Registered(Methods)
  BY MethodsKnown, CollectedRegistered DEF HasMethods
<1>5. TRUE \in BOOLEAN
  OBVIOUS
<1> HIDE DEF S
<1>6. Matches(Methods, TRUE, w) = S
  BY <1>3, <1>4, <1>5, MatchesFrom
<1>7. QED
  BY <1>6 DEF S

\* What smack_search_done() says of the word that was read.
LEMMA MethodFound ==
  ASSUME NEW d, NEW lab, Ready(Methods, d, lab), NEW t, NEW st, NEW rep,
         SoundSearch(Methods, d, lab, t, Len(t), st.row, 0, rep)
  PROVE  LET ids == SearchDone(d, st) IN (IF ids = <<>> THEN -1 ELSE ids[1]) = MethodOf(t)
<1> DEFINE all == d.match[Step(d, st.row, AnchorEnd)]
           ids == SearchDone(d, st)
           S == {id \in DOMAIN MethodTexts : Codes(MethodTexts[id]) = Codes(t)}
<1>1. all \in Seq(Nat) /\ Elements(all) = Matches(Methods, TRUE, t)
  BY AnswersAre, MethodsKnown
<1>2. t \in Seq(ByteSet)
  BY SoundRow
<1>3. Elements(all) = S
  BY <1>1, <1>2, MethodMatches
<1>4. ids = IF all = <<>> THEN <<>> ELSE <<all[1]>>
  BY DEF SearchDone
<1>5. MethodOf(t) = IF S = {} THEN -1 ELSE CHOOSE id \in S : TRUE
  BY DEF MethodOf
<1>6. ASSUME NEW i \in S, NEW j \in S PROVE i = j
  <2> DEFINE u == MethodTexts[i]
             v == MethodTexts[j]
  <2>1. i \in 1 .. Len(MethodTexts) /\ j \in 1 .. Len(MethodTexts) /\ Codes(u) = Codes(v)
    BY TextsAre
  <2>2. /\ u \in Seq(ByteSet) /\ \A k \in 1 .. Len(u) : ToLower(u[k]) = u[k]
        /\ v \in Seq(ByteSet) /\ \A k \in 1 .. Len(v) : ToLower(v[k]) = v[k]
    BY <2>1, LowerName
  <2> HIDE DEF u, v
  <2>3. Len(u) = Len(v) /\ \A k \in 1 .. Len(u) : ToLower(u[k]) = ToLower(v[k])
    BY <2>1, <2>2, CodesTell
  <2>4. \A k \in 1 .. Len(u) : u[k] = v[k]
    BY <2>2, <2>3
  <2>5. u = v
    <3> DEFINE B == ByteSet
    <3>1. u \in Seq(B) /\ v \in Seq(B)
      BY <2>2
    <3> HIDE DEF B
    <3>2. QED
      BY <2>3, <2>4, <3>1
  <2>6. QED
    BY <2>1, <2>5, TextsAre DEF u, v
<1> HIDE DEF all, S, ids
<1>7. CASE all = <<>>
  <2>1. S = {}
    BY <1>3, <1>7 DEF Elements
  <2>2. QED
    BY <1>4, <1>5, <1>7, <2>1 DEF ids
<1>8. CASE all # <<>>
  <2>1. 1 \in DOMAIN all /\ all[1] \in S
    BY <1>1, <1>3, <1>8 DEF Elements
  <2>2. (CHOOSE id \in S : TRUE) \in S
    BY <2>1
  <2>3. all[1] = CHOOSE id \in S : TRUE
    BY <1>6, <2>1, <2>2
  <2>4. ids # <<>> /\ ids[1] = all[1] /\ S # {}
    BY <1>4, <1>8, <2>1
  <2>5. QED
    BY <1>5, <2>3, <2>4 DEF ids
<1>9. QED
  BY <1>7, <1>8

(***************************************************************************)
(* httpparse_next(), state by state.                                       *)
(***************************************************************************)
\* A struct httpheader.
HttpHeader(h) ==
  h = [state1 |-> h.state1, state2 |-> h.state2, method |-> h.method, major |-> h.major, minor |-> h.minor, error |-> h.error]

\* What a byte leaves alone, but for the method and the version.
Moved(h, g) == HttpHeader(g) /\ g.method = h.method /\ g.major = h.major /\ g.minor = h.minor

PathStates ==
  {"METHOD", "SPACE1", "URI", "URL_PERCENT1", "URL_PERCENT2", "SPACE2", "VERSION_H", "VERSION_HT", "VERSION_HTT",
   "VERSION_HTTP", "VERSION_HTTPMAJ", "VERSION_HTTPMIN", "VERSION_ERR"}

\* The state,
LEMMA StateSet ==
  ASSUME NEW h, HttpHeader(h), NEW x, NEW g, g = [h EXCEPT !.state1 = x]
  PROVE  Moved(h, g) /\ g.state1 = x /\ g.state2 = h.state2 /\ g.error = h.error
BY DEF HttpHeader, Moved

\* the state of the search,
LEMMA SearchSet ==
  ASSUME NEW h, HttpHeader(h), NEW x, NEW g, g = [h EXCEPT !.state2 = x]
  PROVE  Moved(h, g) /\ g.state2 = x /\ g.state1 = h.state1
BY DEF HttpHeader, Moved

\* the error,
LEMMA ErrorSet ==
  ASSUME NEW h, HttpHeader(h), NEW x, NEW g, g = [h EXCEPT !.error = x]
  PROVE  Moved(h, g) /\ g.state1 = h.state1
BY DEF HttpHeader, Moved

\* the method
LEMMA MethodSet ==
  ASSUME NEW h, HttpHeader(h), NEW x, NEW g, g = [h EXCEPT !.method = x]
  PROVE  HttpHeader(g) /\ g.method = x /\ g.state1 = h.state1 /\ g.major = h.major /\ g.minor = h.minor
BY DEF HttpHeader

\* and each of the two numbers are set.
LEMMA MajorSet ==
  ASSUME NEW h, HttpHeader(h), NEW x, NEW g, g = [h EXCEPT !.major = x]
  PROVE  HttpHeader(g) /\ g.major = x /\ g.state1 = h.state1 /\ g.method = h.method /\ g.minor = h.minor
BY DEF HttpHeader

LEMMA MinorSet ==
  ASSUME NEW h, HttpHeader(h), NEW x, NEW g, g = [h EXCEPT !.minor = x]
  PROVE  HttpHeader(g) /\ g.minor = x /\ g.state1 = h.state1 /\ g.method = h.method /\ g.major = h.major
BY DEF HttpHeader

\* The state is set.
LEMMA ToIs ==
  ASSUME NEW h, HttpHeader(h), NEW x
  PROVE  Moved(h, To(h, x)) /\ To(h, x).state1 = x /\ To(h, x).state2 = h.state2
<1> DEFINE g == To(h, x)
<1>1. g = [h EXCEPT !.state1 = x]
  BY DEF To
<1> HIDE DEF g
<1>2. Moved(h, g) /\ g.state1 = x /\ g.state2 = h.state2
  BY <1>1, StateSet
<1>3. QED
  BY <1>2 DEF g

\* The classes of the bytes that matter here.
LEMMA Classes ==
  ASSUME NEW c \in ByteSet
  PROVE  /\ Code[c] \in 0 .. 255 /\ ISSPACE(10) /\ ISSPACE(13) /\ ISSPACE(9) /\ ISSPACE(32)
         /\ ~ISXDIGIT(10) /\ ~ISSPACE(37) /\ ~ISXDIGIT(37)
         /\ Code[c] \in {10, 13, 9, 32} => LowerCode(c) = Code[c]
         /\ Code[c] \in 48 .. 57 => ISDIGIT(Code[c])
<1>1. Code[c] \in 0 .. 255
  BY HttpAssumption DEF ByteSet
<1>2. CtypeData(10) = {"cntrl", "space"} /\ CtypeData(13) = {"cntrl", "space"} /\ CtypeData(9) = {"cntrl", "space"} /\ CtypeData(32) = {"print", "space"}
  BY DEF CtypeData
<1>3. CtypeData(37) = {"print", "punct"}
  BY DEF CtypeData
<1>4. ISSPACE(10) /\ ISSPACE(13) /\ ISSPACE(9) /\ ISSPACE(32) /\ ~ISXDIGIT(10) /\ ~ISSPACE(37) /\ ~ISXDIGIT(37)
  BY <1>2, <1>3 DEF ISSPACE, ISXDIGIT, HasAny
<1>5. Code[c] \in {10, 13, 9, 32} => ~ISUPPER(Code[c])
  BY <1>2 DEF ISUPPER, HasAny
<1>6. Code[c] \in {10, 13, 9, 32} => LowerCode(c) = Code[c]
  BY <1>5 DEF LowerCode, TOLOWER
<1>7. Code[c] \in 48 .. 57 => ISDIGIT(Code[c])
  <2>1. ASSUME NEW x \in 48 .. 57 PROVE CtypeData(x) = {"print", "xdigit", "digit"} /\ x \in 0 .. 127
    BY DEF CtypeData
  <2>2. QED
    BY <2>1 DEF ISDIGIT, HasAny
<1>8. QED
  BY <1>1, <1>4, <1>6, <1>7

\* The bytes of a method.
LEMMA MethodIs ==
  ASSUME NEW h, HttpHeader(h), NEW c \in ByteSet
  PROVE  LET g    == Method(h, c)
             done == SearchDone(methods, h.state2)
         IN /\ HttpHeader(g) /\ g.major = h.major /\ g.minor = h.minor
            /\ Code[c] = LF => g.state1 = "EOL" /\ g.method = h.method
            /\ Code[c] # LF /\ Space(c) => g.state1 = "SPACE1" /\ g.method = (IF done = <<>> THEN -1 ELSE done[1])
            /\ ~Space(c) => /\ g.state1 = "METHOD" /\ g.method = h.method
                            /\ g.state2 = SearchNext(methods, h.state2, <<c>>, 0).state
<1> DEFINE g == Method(h, c)
           done == SearchDone(methods, h.state2)
           id == IF done = <<>> THEN -1 ELSE done[1]
           st == SearchNext(methods, h.state2, <<c>>, 0).state
<1>1. Code[c] = LF => Space(c)
  BY Classes DEF LF, Space
<1>2. CASE Code[c] = LF
  <2>1. g = To(h, "EOL")
    BY <1>2 DEF Method
  <2>2. QED
    BY <1>1, <1>2, <2>1, ToIs DEF Moved
<1>3. CASE Code[c] # LF /\ Space(c)
  <2> DEFINE k == [h EXCEPT !.method = id]
  <2>1. g = To(k, "SPACE1")
    BY <1>3 DEF Method, Space
  <2> HIDE DEF id
  <2>2. HttpHeader(k) /\ k.method = id /\ k.major = h.major /\ k.minor = h.minor
    <3>1. k = [h EXCEPT !.method = id]
      OBVIOUS
    <3> HIDE DEF k
    <3>2. QED
      BY <3>1, MethodSet
  <2> HIDE DEF k, g
  <2>3. g.state1 = "SPACE1" /\ Moved(k, g)
    BY <2>1, <2>2, ToIs
  <2>4. QED
    BY <1>3, <2>2, <2>3 DEF Moved, g, id
<1>4. CASE Code[c] # LF /\ ~Space(c)
  <2> DEFINE k == [h EXCEPT !.state2 = st]
  <2>1. g = To(k, "METHOD")
    BY <1>4 DEF Method, Space
  <2> HIDE DEF st
  <2>2. Moved(h, k) /\ k.state2 = st
    <3>1. k = [h EXCEPT !.state2 = st]
      OBVIOUS
    <3> HIDE DEF k
    <3>2. QED
      BY <3>1, SearchSet
  <2> HIDE DEF k, g
  <2>3. g.state1 = "METHOD" /\ Moved(k, g) /\ g.state2 = k.state2
    BY <2>1, <2>2, ToIs DEF Moved
  <2>4. QED
    BY <1>4, <2>2, <2>3 DEF Moved, g, st
<1>5. QED
  BY <1>1, <1>2, <1>3, <1>4

\* The bytes of the URI.
LEMMA UriIs ==
  ASSUME NEW h, HttpHeader(h), NEW c \in ByteSet
  PROVE  LET g == Uri(h, c)
         IN /\ Moved(h, g)
            /\ Code[c] = Percent => g.state1 = "URL_PERCENT1"
            /\ LineSpace(c) => g.state1 = "SPACE2"
            /\ Code[c] = LF => g.state1 = "EOL"
            /\ Code[c] # Percent /\ ~LineSpace(c) /\ Code[c] # LF => g.state1 = "URI"
<1> DEFINE x == CASE Code[c] = Percent         -> "URL_PERCENT1"
                  [] Code[c] \in {SP, TAB, CR} -> "SPACE2"
                  [] Code[c] = LF              -> "EOL"
                  [] OTHER                     -> "URI"
<1>1. Uri(h, c) = To(h, x)
  BY DEF Uri
<1>2. /\ Code[c] = Percent => x = "URL_PERCENT1"
      /\ LineSpace(c) => x = "SPACE2"
      /\ Code[c] = LF => x = "EOL"
      /\ Code[c] # Percent /\ ~LineSpace(c) /\ Code[c] # LF => x = "URI"
  BY DEF LineSpace, Percent, SP, TAB, CR, LF
<1> HIDE DEF x
<1>3. QED
  BY <1>1, <1>2, ToIs

\* The byte after a '%'.
LEMMA Percent1Is ==
  ASSUME NEW h, HttpHeader(h), NEW c \in ByteSet
  PROVE  LET g == Percent1(h, c)
         IN /\ Moved(h, g)
            /\ ISXDIGIT(Code[c]) => g.state1 = "URL_PERCENT2" /\ Code[c] # LF
            /\ ~ISXDIGIT(Code[c]) => g.state1 = IF Code[c] = LF THEN "EOL" ELSE "URI"
<1>1. ISXDIGIT(Code[c]) => Code[c] # LF
  BY Classes DEF LF
<1>2. CASE ISXDIGIT(Code[c])
  BY <1>1, <1>2, ToIs DEF Percent1
<1>3. CASE ~ISXDIGIT(Code[c])
  <2> DEFINE k == [h EXCEPT !.error = TRUE]
             x == IF Code[c] = LF THEN "EOL" ELSE "URI"
  <2>1. Percent1(h, c) = To(k, x)
    BY <1>3 DEF Percent1
  <2>2. Moved(h, k)
    <3>1. k = [h EXCEPT !.error = TRUE]
      OBVIOUS
    <3> HIDE DEF k
    <3>2. QED
      BY <3>1, ErrorSet
  <2> HIDE DEF k, x
  <2>3. Moved(k, To(k, x)) /\ To(k, x).state1 = x
    BY <2>2, ToIs DEF Moved
  <2>4. QED
    BY <1>3, <2>1, <2>2, <2>3 DEF Moved, x
<1>4. QED
  BY <1>2, <1>3

VersionStates == {"SPACE2", "VERSION_H", "VERSION_HT", "VERSION_HTT", "VERSION_HTTP"}

\* What the states of "HTTP/" wait for.
LEMMA WantedIs ==
  /\ DOMAIN Wanted = VersionStates
  /\ Wanted["SPACE2"] = <<104, "VERSION_H">> /\ Wanted["VERSION_H"] = <<116, "VERSION_HT">>
  /\ Wanted["VERSION_HT"] = <<116, "VERSION_HTT">> /\ Wanted["VERSION_HTT"] = <<112, "VERSION_HTTP">>
  /\ Wanted["VERSION_HTTP"] = <<47, "VERSION_HTTPMAJ">>
BY DEF Wanted, VersionStates

LEMMA WantedNext ==
  ASSUME NEW s \in VersionStates
  PROVE  Wanted[s][1] \in {104, 116, 112, 47} /\ Wanted[s][2] \in PathStates /\ Wanted[s][2] # "METHOD"
<1>1. Wanted[s] \in {<<104, "VERSION_H">>, <<116, "VERSION_HT">>, <<116, "VERSION_HTT">>, <<112, "VERSION_HTTP">>, <<47, "VERSION_HTTPMAJ">>}
  BY WantedIs DEF VersionStates
<1>2. QED
  BY <1>1 DEF PathStates

\* The bytes of "HTTP/".
LEMMA VersionIs ==
  ASSUME NEW h, HttpHeader(h), NEW c \in ByteSet, h.state1 \in VersionStates
  PROVE  LET g == Version(h, c)
         IN /\ Moved(h, g) /\ g.state1 \in (PathStates \ {"METHOD"}) \cup {"EOL"}
            /\ g.state1 = "EOL" <=> Code[c] = LF
            /\ LowerCode(c) = Wanted[h.state1][1] => g.state1 = Wanted[h.state1][2]
<1> DEFINE x == CASE Code[c] = LF                                     -> "EOL"
                  [] h.state1 = "SPACE2" /\ Code[c] \in {SP, TAB, CR} -> "SPACE2"
                  [] LowerCode(c) = Wanted[h.state1][1]               -> Wanted[h.state1][2]
                  [] OTHER                                            -> "VERSION_ERR"
<1>1. Version(h, c) = To(h, x)
  BY DEF Version
<1>2. /\ Wanted[h.state1][1] \in {104, 116, 112, 47} /\ Wanted[h.state1][2] \in PathStates
      /\ Wanted[h.state1][2] \notin {"EOL", "METHOD"}
  BY WantedNext DEF PathStates
<1>3. Code[c] \in {LF, SP, TAB, CR} => LowerCode(c) \notin {104, 116, 112, 47}
  BY Classes DEF LF, SP, TAB, CR
<1>4. /\ Code[c] = LF => x = "EOL"
      /\ Code[c] # LF => x \in {"SPACE2", Wanted[h.state1][2], "VERSION_ERR"}
      /\ Code[c] # LF /\ Code[c] \notin {SP, TAB, CR} /\ LowerCode(c) = Wanted[h.state1][1] => x = Wanted[h.state1][2]
  <2> DEFINE w == Wanted[h.state1][1]
             y == Wanted[h.state1][2]
             z == Code[c]
             l == LowerCode(c)
             s == h.state1
  <2>0. z \in {LF, SP, TAB, CR} => l # w
    BY <1>2, <1>3
  <2> HIDE DEF w, y, z, l, s
  <2> DEFINE v == CASE z = LF -> "EOL" [] s = "SPACE2" /\ z \in {SP, TAB, CR} -> "SPACE2" [] l = w -> y [] OTHER -> "VERSION_ERR"
  <2>1. x = v
    BY DEF w, y, z, l, s
  <2>2. /\ z = LF => v = "EOL"
        /\ z # LF => v \in {"SPACE2", y, "VERSION_ERR"}
        /\ z # LF /\ z \notin {SP, TAB, CR} /\ l = w => v = y
    <3>1. CASE z = LF
      BY <2>0, <3>1 DEF LF, SP, TAB, CR
    <3>2. CASE z # LF
      BY <2>0, <3>2
    <3>3. QED
      BY <3>1, <3>2
  <2> HIDE DEF v
  <2>3. QED
    BY <2>1, <2>2 DEF w, y, z, l
<1> HIDE DEF x
<1>5. QED
  BY <1>1, <1>2, <1>3, <1>4, ToIs DEF PathStates

\* The version is set.
LEMMA NumberSet ==
  ASSUME NEW h, HttpHeader(h), NEW x, NEW g
  PROVE  /\ g = [h EXCEPT !.major = x] => HttpHeader(g) /\ g.major = x /\ g.state1 = h.state1 /\ g.minor = h.minor
         /\ g = [h EXCEPT !.minor = x] => HttpHeader(g) /\ g.minor = x /\ g.state1 = h.state1 /\ g.major = h.major
<1>1. ASSUME g = [h EXCEPT !.major = x]
      PROVE  HttpHeader(g) /\ g.major = x /\ g.state1 = h.state1 /\ g.minor = h.minor
  BY <1>1, MajorSet
<1>2. ASSUME g = [h EXCEPT !.minor = x]
      PROVE  HttpHeader(g) /\ g.minor = x /\ g.state1 = h.state1 /\ g.major = h.major
  BY <1>2, MinorSet
<1>3. QED
  BY <1>1, <1>2

\* A digit of the version.
LEMMA DigitIs ==
  ASSUME NEW h, HttpHeader(h), NEW c \in ByteSet, Code[c] \in 48 .. 57
  PROVE  /\ h.major \in 0 .. 99 => LET g == Number(h, "major", c)
                                   IN /\ HttpHeader(g) /\ g.state1 = h.state1 /\ g.minor = h.minor
                                      /\ g.major = (10 * h.major + Digit(c)) % 256
         /\ h.minor \in 0 .. 99 => LET g == Number(h, "minor", c)
                                   IN /\ HttpHeader(g) /\ g.state1 = h.state1 /\ g.major = h.major
                                      /\ g.minor = (10 * h.minor + Digit(c)) % 256
<1>1. Code[c] # LF /\ Code[c] # CR /\ ISDIGIT(Code[c]) /\ Code[c] # 46
  BY Classes DEF LF, CR
<1>2. ASSUME h.major \in 0 .. 99
      PROVE  LET g == Number(h, "major", c)
             IN /\ HttpHeader(g) /\ g.state1 = h.state1 /\ g.minor = h.minor
                /\ g.major = (10 * h.major + Digit(c)) % 256
  <2> DEFINE x == (10 * h.major + Code[c] - 48) % 256
             y == (10 * h.major + Digit(c)) % 256
  <2>1. Number(h, "major", c) = [h EXCEPT !.major = x]
    BY <1>1, <1>2 DEF Number
  <2>2. x = y
    BY <1>2, Classes DEF Digit
  <2> HIDE DEF x, y
  <2> DEFINE k == Number(h, "major", c)
  <2>3. k = [h EXCEPT !.major = y]
    BY <2>1, <2>2
  <2> HIDE DEF k
  <2>4. HttpHeader(k) /\ k.major = y /\ k.state1 = h.state1 /\ k.minor = h.minor
    BY <2>3, NumberSet
  <2>5. QED
    BY <2>4 DEF k, y
<1>3. ASSUME h.minor \in 0 .. 99
      PROVE  LET g == Number(h, "minor", c)
             IN /\ HttpHeader(g) /\ g.state1 = h.state1 /\ g.major = h.major
                /\ g.minor = (10 * h.minor + Digit(c)) % 256
  <2> DEFINE x == (10 * h.minor + Code[c] - 48) % 256
             y == (10 * h.minor + Digit(c)) % 256
  <2>1. Number(h, "minor", c) = [h EXCEPT !.minor = x]
    BY <1>1, <1>3 DEF Number
  <2>2. x = y
    BY <1>3, Classes DEF Digit
  <2> HIDE DEF x, y
  <2> DEFINE k == Number(h, "minor", c)
  <2>3. k = [h EXCEPT !.minor = y]
    BY <2>1, <2>2
  <2> HIDE DEF k
  <2>4. HttpHeader(k) /\ k.minor = y /\ k.state1 = h.state1 /\ k.major = h.major
    BY <2>3, NumberSet
  <2>5. QED
    BY <2>4 DEF k, y
<1>4. QED
  BY <1>2, <1>3

\* The other bytes of the version.
LEMMA NumberIs ==
  ASSUME NEW h, HttpHeader(h), NEW c \in ByteSet, h.state1 \in {"VERSION_HTTPMAJ", "VERSION_HTTPMIN"},
         NEW field \in {"major", "minor"}
  PROVE  LET g == Number(h, field, c)
         IN /\ HttpHeader(g) /\ g.method = h.method /\ g.state1 \in (PathStates \ {"METHOD"}) \cup {"EOL"}
            /\ g.state1 = "EOL" <=> Code[c] = LF
            /\ Code[c] = LF => Moved(h, g)
            /\ Code[c] = CR => g = h
            /\ field = "major" /\ Code[c] = 46 => g.state1 = "VERSION_HTTPMIN" /\ Moved(h, g)
<1> DEFINE g == Number(h, field, c)
           x == (10 * h[field] + Code[c] - 48) % 256
<1>2. CASE Code[c] = LF
  <2>1. g = To(h, "EOL")
    BY <1>2, Classes DEF Number, LF, CR, ISDIGIT, HasAny, CtypeData
  <2>2. QED
    BY <1>2, <2>1, ToIs DEF Moved, LF, CR
<1>3. CASE Code[c] = CR
  <2>1. g = h
    BY <1>3 DEF Number, LF, CR, ISDIGIT, HasAny, CtypeData
  <2>2. QED
    BY <1>3, <2>1 DEF Moved, LF, CR, PathStates
<1>4. CASE Code[c] = 46
  <2>1. ~ISDIGIT(46)
    BY DEF ISDIGIT, HasAny, CtypeData
  <2>2. g = IF field = "major" THEN To(h, "VERSION_HTTPMIN") ELSE To(h, "VERSION_ERR")
    BY <1>4, <2>1 DEF Number, LF, CR
  <2>3. QED
    BY <1>4, <2>2, ToIs DEF Moved, LF, CR, PathStates
<1>5. CASE Code[c] \notin {LF, CR, 46}
  <2>1. g = [h EXCEPT ![field] = x] \/ g = To([h EXCEPT ![field] = 0], "VERSION_ERR") \/ g = To(h, "VERSION_ERR")
    BY <1>5 DEF Number
  <2>2. ASSUME NEW v
        PROVE  LET k == [h EXCEPT ![field] = v] IN HttpHeader(k) /\ k.method = h.method /\ k.state1 = h.state1
    <3>1. CASE field = "major"
      <4> DEFINE k == [h EXCEPT !.major = v]
      <4>4. k = [h EXCEPT !.major = v]
        OBVIOUS
      <4> HIDE DEF k
      <4>1. HttpHeader(k) /\ k.method = h.method /\ k.state1 = h.state1
        BY <4>4, MajorSet
      <4>2. [h EXCEPT ![field] = v] = k
        BY <3>1 DEF k
      <4>3. QED
        BY <4>1, <4>2
    <3>2. CASE field = "minor"
      <4> DEFINE k == [h EXCEPT !.minor = v]
      <4>4. k = [h EXCEPT !.minor = v]
        OBVIOUS
      <4> HIDE DEF k
      <4>1. HttpHeader(k) /\ k.method = h.method /\ k.state1 = h.state1
        BY <4>4, MinorSet
      <4>2. [h EXCEPT ![field] = v] = k
        BY <3>2 DEF k
      <4>3. QED
        BY <4>1, <4>2
    <3>3. QED
      BY <3>1, <3>2
  <2> HIDE DEF x, g
  <2>3. HttpHeader(g) /\ g.method = h.method /\ g.state1 \in {h.state1, "VERSION_ERR"}
    <3>1. CASE g = [h EXCEPT ![field] = x]
      BY <2>2, <3>1
    <3>2. CASE g = To([h EXCEPT ![field] = 0], "VERSION_ERR")
      <4> DEFINE k == [h EXCEPT ![field] = 0]
      <4>1. HttpHeader(k) /\ k.method = h.method /\ g = To(k, "VERSION_ERR")
        BY <2>2, <3>2
      <4> HIDE DEF k
      <4>2. QED
        BY <4>1, ToIs DEF Moved
    <3>3. CASE g = To(h, "VERSION_ERR")
      BY <3>3, ToIs DEF Moved
    <3>4. QED
      BY <2>1, <3>1, <3>2, <3>3
  <2>4. QED
    BY <1>5, <2>3 DEF PathStates, g
<1>6. QED
  BY <1>2, <1>3, <1>4, <1>5

\* One byte, in any state: the line ends with a '\n', once it has begun, and with
\* nothing else; the method is set only in its own state, the version only in its two.
LEMMA ByteRead ==
  ASSUME NEW h, HttpHeader(h), NEW c \in ByteSet, h.state1 \in PathStates
  PROVE  LET g == NextByte(h, c)
         IN /\ HttpHeader(g) /\ g.state1 \in PathStates \cup {"EOL"}
            /\ g.state1 = "EOL" <=> Code[c] = LF
            /\ h.state1 # "METHOD" => g.state1 # "METHOD" /\ g.method = h.method
            /\ h.state1 \notin {"VERSION_HTTPMAJ", "VERSION_HTTPMIN"} \/ Code[c] = LF => g.major = h.major /\ g.minor = h.minor
<1> DEFINE g == NextByte(h, c)
<1>0. (Code[c] = LF => Space(c)) /\ (LineSpace(c) => Code[c] # LF) /\ Percent # LF
  BY Classes DEF LF, Space, LineSpace, SP, TAB, CR, Percent
<1>1. CASE h.state1 = "METHOD"
  <2>1. g = Method(h, c)
    BY <1>1, WantedIs DEF NextByte, VersionStates
  <2> HIDE DEF g
  <2>2. HttpHeader(g) /\ g.major = h.major /\ g.minor = h.minor
    BY <2>1, MethodIs
  <2>3. /\ Code[c] = LF => g.state1 = "EOL"
        /\ Code[c] # LF /\ Space(c) => g.state1 = "SPACE1"
        /\ ~Space(c) => g.state1 = "METHOD"
    BY <2>1, MethodIs
  <2>4. QED
    BY <1>0, <1>1, <2>2, <2>3 DEF PathStates, g
<1>2. CASE h.state1 = "SPACE1"
  <2>1. g = IF Code[c] = LF THEN To(h, "EOL") ELSE IF ISSPACE(Code[c]) THEN h ELSE Uri(h, c)
    BY <1>2, WantedIs DEF NextByte, VersionStates
  <2> HIDE DEF g
  <2>2. Moved(h, h)
    BY DEF Moved
  <2>3. QED
    BY <1>0, <1>2, <2>1, <2>2, UriIs, ToIs DEF PathStates, g, Moved
<1>3. CASE h.state1 = "URI"
  <2>1. g = Uri(h, c)
    BY <1>3, WantedIs DEF NextByte, VersionStates
  <2> HIDE DEF g
  <2>2. QED
    BY <1>0, <1>3, <2>1, UriIs DEF PathStates, g, Moved
<1>4. CASE h.state1 = "URL_PERCENT1"
  <2>1. g = Percent1(h, c)
    BY <1>4, WantedIs DEF NextByte, VersionStates
  <2> HIDE DEF g
  <2>2. QED
    BY <1>4, <2>1, Percent1Is DEF PathStates, g, Moved
<1>5. CASE h.state1 = "URL_PERCENT2"
  <2>1. g = To(h, IF Code[c] = LF THEN "EOL" ELSE "URI")
    BY <1>5, WantedIs DEF NextByte, VersionStates
  <2> HIDE DEF g
  <2>2. QED
    BY <1>5, <2>1, ToIs DEF PathStates, g, Moved
<1>6. CASE h.state1 \in VersionStates
  <2>1. g = Version(h, c)
    BY <1>6, WantedIs DEF NextByte, VersionStates
  <2> HIDE DEF g
  <2>2. QED
    BY <1>6, <2>1, VersionIs DEF PathStates, VersionStates, g, Moved
<1>7. CASE h.state1 \in {"VERSION_HTTPMAJ", "VERSION_HTTPMIN"}
  <2> DEFINE field == IF h.state1 = "VERSION_HTTPMAJ" THEN "major" ELSE "minor"
  <2>1. g = Number(h, field, c)
    BY <1>7, WantedIs DEF NextByte, VersionStates
  <2>2. field \in {"major", "minor"}
    OBVIOUS
  <2> HIDE DEF g, field
  <2>3. QED
    BY <1>7, <2>1, <2>2, NumberIs DEF g, Moved
<1>8. CASE h.state1 = "VERSION_ERR"
  <2>1. g = IF Code[c] = LF THEN To(h, "EOL") ELSE h
    BY <1>8, WantedIs DEF NextByte, VersionStates
  <2> HIDE DEF g
  <2>2. QED
    BY <1>8, <2>1, ToIs DEF PathStates, g, Moved
<1>9. QED
  BY <1>1, <1>2, <1>3, <1>4, <1>5, <1>6, <1>7, <1>8 DEF PathStates, VersionStates

\* The bytes before the line begins, and the one with which it does.
LEMMA FirstByte ==
  ASSUME NEW c \in ByteSet
  PROVE  LET g == NextByte(Zeroed, c)
         IN /\ Space(c) => g = Zeroed
            /\ ~Space(c) => /\ HttpHeader(g) /\ g.state1 = "METHOD" /\ g.state2 = SearchNext(methods, Start, <<c>>, 0).state
                            /\ g.major = 0 /\ g.minor = 0
<1> DEFINE h == Zeroed
           k == [h EXCEPT !.state2 = Start]
<1>1. /\ h = [state1 |-> "SPACE0", state2 |-> Start, method |-> 0, major |-> 0, minor |-> 0, error |-> FALSE]
      /\ h.state1 = "SPACE0" /\ h.state2 = Start /\ h.major = 0 /\ h.minor = 0 /\ HttpHeader(h)
  BY DEF Zeroed, HttpHeader
<1>2. k = h
  BY <1>1
<1> HIDE DEF h, k
<1>3. NextByte(h, c) = IF ISSPACE(Code[c]) THEN h ELSE Method(h, c)
  BY <1>1, <1>2, WantedIs DEF NextByte, VersionStates, k
<1>4. Space(c) => NextByte(h, c) = h
  BY <1>3 DEF Space
<1>5. ~Space(c) => NextByte(h, c) = Method(h, c)
  BY <1>3 DEF Space
<1>6. QED
  BY <1>1, <1>4, <1>5, MethodIs DEF h

(***************************************************************************)
(* A line.  r[n] is the header after n bytes of it.                        *)
(***************************************************************************)
RunOf(r, t) == r[0] = Zeroed /\ \A n \in 0 .. Len(t) - 1 : r[n + 1] = NextByte(r[n], t[n + 1])

\* A set that has a and with each number up to N the next has those from a to N.
LEMMA UpFrom ==
  ASSUME NEW a \in Nat, NEW N \in Nat, NEW T, a \in T, \A n \in a .. N - 1 : n \in T => n + 1 \in T
  PROVE  a .. N \subseteq T
<1>1. CASE N < a
  BY <1>1
<1>2. CASE a <= N
  <2> DEFINE M == N - a
             U == {n \in 0 .. M : a + n \in T}
  <2>1. M \in Nat /\ 0 \in U
    BY <1>2
  <2>2. ASSUME NEW n \in 0 .. M - 1, n \in U PROVE n + 1 \in U
    <3>1. a + n \in a .. N - 1 /\ a + n \in T /\ n + 1 \in 0 .. M /\ a + (n + 1) = (a + n) + 1
      BY <2>2
    <3>2. (a + n) + 1 \in T
      BY <3>1
    <3>3. QED
      BY <3>1, <3>2
  <2> HIDE DEF U, M
  <2>3. 0 .. M \subseteq U
    BY <2>1, <2>2, UpTo
  <2>4. ASSUME NEW k \in a .. N PROVE k \in T
    <3>1. k - a \in 0 .. M /\ a + (k - a) = k
      BY <1>2 DEF M
    <3>2. k - a \in U
      BY <2>3, <3>1
    <3>3. QED
      BY <3>1, <3>2 DEF U
  <2>5. QED
    BY <2>4
<1>3. QED
  BY <1>1, <1>2

\* Where the line begins and ends.
LEMMA LineIs ==
  ASSUME line \in Seq(ByteSet)
  PROVE  /\ Len(line) \in Nat /\ \A n \in 1 .. Len(line) : line[n] \in ByteSet
         /\ First \in 1 .. Len(line) + 1 /\ \A n \in 1 .. First - 1 : Space(line[n])
         /\ First <= Len(line) => ~Space(line[First]) /\ First < Ending
         /\ Ending \in First .. Len(line) + 1 /\ \A n \in First .. Ending - 1 : Code[line[n]] # LF
         /\ Ending <= Len(line) => Code[line[Ending]] = LF
<1> DEFINE L == Len(line)
           S == {n \in 1 .. L : ~Space(line[n])} \cup {L + 1}
           E == {n \in First .. L : Code[line[n]] = LF} \cup {L + 1}
<1>1. L \in Nat /\ \A n \in 1 .. L : line[n] \in ByteSet
  BY SeqIs
<1>2. S \subseteq Nat /\ S # {} /\ \A n \in S : n \in 1 .. L + 1
  BY <1>1
<1>3. First \in S /\ \A y \in S : First <= y
  BY <1>2, LeastIs DEF First
<1>4. First \in 1 .. L + 1 /\ (First <= L => ~Space(line[First]))
  BY <1>1, <1>2, <1>3
<1>5. ASSUME NEW n \in 1 .. First - 1 PROVE Space(line[n])
  <2>1. n \in 1 .. L /\ n < First
    BY <1>1, <1>4
  <2>2. QED
    BY <1>3, <2>1
<1>6. E \subseteq Nat /\ E # {} /\ \A n \in E : n \in First .. L + 1
  BY <1>1, <1>4
<1>7. Ending \in E /\ \A y \in E : Ending <= y
  BY <1>6, LeastIs DEF Ending
<1>8. Ending \in First .. L + 1 /\ (Ending <= L => Code[line[Ending]] = LF)
  BY <1>1, <1>6, <1>7
<1>9. ASSUME NEW n \in First .. Ending - 1 PROVE Code[line[n]] # LF
  <2>1. n \in First .. L /\ n < Ending
    BY <1>1, <1>4, <1>8
  <2>2. QED
    BY <1>4, <1>7, <2>1
<1>10. ASSUME First <= L PROVE First < Ending
  <2>1. Code[line[First]] # LF
    BY <1>4, <1>10, Classes DEF Space, LF
  <2>2. Ending # First
    BY <1>8, <1>10, <2>1
  <2>3. QED
    BY <1>4, <1>8, <2>2
<1>11. QED
  BY <1>1, <1>4, <1>5, <1>8, <1>9, <1>10

\* Nothing happens before it begins,
LEMMA Before ==
  ASSUME line \in Seq(ByteSet), NEW r, RunOf(r, line)
  PROVE  \A n \in 0 .. First - 1 : r[n] = Zeroed
<1> DEFINE N == First - 1
           T == {n \in 0 .. N : r[n] = Zeroed}
<1>1. /\ Len(line) \in Nat /\ (\A n \in 1 .. Len(line) : line[n] \in ByteSet)
      /\ First \in 1 .. Len(line) + 1 /\ \A n \in 1 .. First - 1 : Space(line[n])
  BY LineIs
<1>2. N \in Nat /\ 0 \in T
  BY <1>1 DEF RunOf
<1>3. ASSUME NEW n \in 0 .. N - 1, n \in T PROVE n + 1 \in T
  <2>1. n \in 0 .. Len(line) - 1 /\ n + 1 \in 1 .. Len(line) /\ n + 1 \in 1 .. First - 1 /\ n + 1 \in 0 .. N
    BY <1>1
  <2>2. r[n + 1] = NextByte(r[n], line[n + 1]) /\ line[n + 1] \in ByteSet /\ Space(line[n + 1])
    BY <1>1, <2>1 DEF RunOf
  <2>3. r[n + 1] = Zeroed
    BY <1>3, <2>2, FirstByte
  <2>4. QED
    BY <2>1, <2>3
<1> HIDE DEF T, N
<1>4. 0 .. N \subseteq T
  BY <1>2, <1>3, UpTo
<1>5. QED
  BY <1>4 DEF T, N

\* its '\n' ends it, and no other byte does,
LEMMA Within ==
  ASSUME line \in Seq(ByteSet), NEW r, RunOf(r, line), First <= Len(line)
  PROVE  \A n \in First .. Len(line) :
           HttpHeader(r[n]) /\ IF n < Ending THEN r[n].state1 \in PathStates ELSE r[n].state1 = "EOL"
<1> DEFINE N == Len(line)
           Fine(n) == HttpHeader(r[n]) /\ IF n < Ending THEN r[n].state1 \in PathStates ELSE r[n].state1 = "EOL"
           T == {n \in First .. N : Fine(n)}
<1>1. /\ N \in Nat /\ (\A n \in 1 .. N : line[n] \in ByteSet)
      /\ First \in 1 .. N /\ ~Space(line[First]) /\ First < Ending
      /\ Ending \in First .. N + 1 /\ (\A n \in First .. Ending - 1 : Code[line[n]] # LF)
      /\ Ending <= N => Code[line[Ending]] = LF
  BY LineIs
<1>2. First \in T
  <2>1. First - 1 \in 0 .. N - 1 /\ (First - 1) + 1 = First /\ First - 1 \in 0 .. First - 1
    BY <1>1
  <2>2. r[First] = NextByte(Zeroed, line[First])
    BY <2>1, Before DEF RunOf
  <2>3. HttpHeader(r[First]) /\ r[First].state1 = "METHOD"
    BY <1>1, <2>2, FirstByte
  <2>4. QED
    BY <1>1, <2>3 DEF PathStates
<1>3. ASSUME NEW n \in First .. N - 1, n \in T PROVE n + 1 \in T
  <2> DEFINE h == r[n]
             g == r[n + 1]
             c == line[n + 1]
  <2>1. n \in 0 .. N - 1 /\ n + 1 \in 1 .. N /\ n + 1 \in First .. N /\ n \in Nat
    BY <1>1
  <2>2. g = NextByte(h, c) /\ c \in ByteSet /\ HttpHeader(h)
    BY <1>1, <1>3, <2>1 DEF RunOf
  <2>3. Fine(n)
    BY <1>3
  <2>4. CASE n < Ending
    <3>1. h.state1 \in PathStates
      BY <2>3, <2>4
    <3> HIDE DEF h, g, c
    <3>2. HttpHeader(g) /\ g.state1 \in PathStates \cup {"EOL"} /\ (g.state1 = "EOL" <=> Code[c] = LF)
      BY <2>2, <3>1, ByteRead
    <3>3. n + 1 < Ending \/ n + 1 = Ending
      BY <1>1, <2>1, <2>4
    <3>4. Code[c] = LF <=> n + 1 = Ending
      BY <1>1, <2>1, <3>3 DEF c
    <3>5. Fine(n + 1)
      BY <1>1, <2>1, <3>2, <3>3, <3>4 DEF g, PathStates
    <3>6. QED
      BY <2>1, <3>5
  <2>5. CASE ~(n < Ending)
    <3>1. h.state1 = "EOL"
      BY <2>3, <2>5
    <3> HIDE DEF h, g, c
    <3>2. g = h
      BY <2>2, <3>1, WantedIs DEF NextByte, VersionStates
    <3>3. ~(n + 1 < Ending)
      BY <1>1, <2>1, <2>5
    <3>4. Fine(n + 1)
      BY <2>2, <3>1, <3>2, <3>3 DEF g
    <3>5. QED
      BY <2>1, <3>4
  <2>6. QED
    BY <2>4, <2>5
<1> HIDE DEF T
<1>4. First .. N \subseteq T
  <2> DEFINE a == First
             b == N
  <2>1. a \in Nat /\ b \in Nat /\ a \in T /\ \A n \in a .. b - 1 : n \in T => n + 1 \in T
    BY <1>1, <1>2, <1>3
  <2> HIDE DEF a, b
  <2>2. a .. b \subseteq T
    BY <2>1, UpFrom
  <2>3. QED
    BY <2>2 DEF a, b
<1>5. QED
  BY <1>4 DEF T

\* and what is behind it changes nothing.
LEMMA Behind ==
  ASSUME line \in Seq(ByteSet), NEW r, RunOf(r, line), First <= Len(line)
  PROVE  \A n \in Ending .. Len(line) : r[n] = r[Ending]
<1> DEFINE N == Len(line)
           a == Ending
           T == {n \in a .. N : r[n] = r[a]}
<1>1. N \in Nat /\ First \in 1 .. N /\ a \in First .. N + 1 /\ a \in Nat
  BY LineIs
<1>2. CASE a > N
  BY <1>1, <1>2
<1>3. CASE a <= N
  <2>1. a \in T
    BY <1>1, <1>3
  <2>2. ASSUME NEW n \in a .. N - 1, n \in T PROVE n + 1 \in T
    <3>1. n \in 0 .. N - 1 /\ n \in First .. N /\ ~(n < a) /\ n + 1 \in a .. N
      BY <1>1
    <3>2. r[n + 1] = NextByte(r[n], line[n + 1])
      BY <3>1 DEF RunOf
    <3>3. r[n].state1 = "EOL"
      BY <3>1, Within
    <3>4. r[n + 1] = r[n]
      BY <3>2, <3>3, WantedIs DEF NextByte, VersionStates
    <3>5. QED
      BY <2>2, <3>1, <3>4
  <2> HIDE DEF T, a, N
  <2>3. a .. N \subseteq T
    BY <1>1, <2>1, <2>2, UpFrom
  <2>4. QED
    BY <2>3 DEF T, a, N
<1>4. QED
  BY <1>1, <1>2, <1>3

\* A part of a line and the next byte.
LEMMA NextPart ==
  ASSUME NEW S, NEW t \in Seq(S), NEW a \in 1 .. Len(t), NEW n \in a .. Len(t) - 1
  PROVE  SubSeq(t, a, n) \o <<t[n + 1]>> = SubSeq(t, a, n + 1)
<1> DEFINE L == Len(t)
           u == SubSeq(t, a, n)
           v == SubSeq(t, a, n + 1)
           o == <<t[n + 1]>>
<1>1. L \in Nat /\ DOMAIN t = 1 .. L /\ a \in Nat /\ n \in Nat /\ n + 1 \in 1 .. L /\ t[n + 1] \in S
  BY SeqIs
<1>2. /\ u \in Seq(S) /\ Len(u) = n - a + 1 /\ \A k \in 1 .. n - a + 1 : u[k] = t[a + k - 1]
      /\ v \in Seq(S) /\ Len(v) = n + 1 - a + 1 /\ \A k \in 1 .. n + 1 - a + 1 : v[k] = t[a + k - 1]
  BY <1>1
<1>3. o \in Seq(S) /\ Len(o) = 1 /\ o[1] = t[n + 1]
  BY <1>1
<1> DEFINE m == n - a + 1
<1>4. m \in Nat /\ Len(u) = m /\ Len(v) = m + 1 /\ n + 1 - a + 1 = m + 1
  BY <1>1, <1>2
<1>5. \A k \in 1 .. m + 1 : v[k] = IF k \in 1 .. m THEN u[k] ELSE o[1]
  BY <1>1, <1>2, <1>3
<1> HIDE DEF u, v, o, m
<1>6. /\ u \o o \in Seq(S) /\ Len(u \o o) = m + 1
      /\ \A k \in 1 .. m : (u \o o)[k] = u[k]
      /\ \A k \in 1 .. 1 : (u \o o)[m + k] = o[k]
  <2>1. /\ u \o o \in Seq(S) /\ Len(u \o o) = Len(u) + Len(o)
        /\ \A k \in 1 .. Len(u) : (u \o o)[k] = u[k]
        /\ \A k \in 1 .. Len(o) : (u \o o)[Len(u) + k] = o[k]
    <3>1. u \in Seq(S) /\ o \in Seq(S)
      BY <1>2, <1>3
    <3>2. u \o o \in Seq(S) /\ Len(u \o o) = Len(u) + Len(o)
      BY <3>1, Joined
    <3>3. \A k \in 1 .. Len(u) : (u \o o)[k] = u[k]
      BY <3>1, Joined
    <3>4. \A k \in 1 .. Len(o) : (u \o o)[Len(u) + k] = o[k]
      BY <3>1, Joined
    <3>5. QED
      BY <3>2, <3>3, <3>4
  <2> DEFINE w == u \o o
  <2> HIDE DEF w
  <2>2. QED
    BY <1>3, <1>4, <2>1 DEF w
<1>7. \A k \in 1 .. m + 1 : (u \o o)[k] = v[k]
  BY <1>4, <1>5, <1>6
<1> DEFINE w == u \o o
<1>8. w \in Seq(S) /\ v \in Seq(S) /\ Len(w) = Len(v) /\ Len(w) = m + 1 /\ \A k \in 1 .. m + 1 : w[k] = v[k]
  BY <1>2, <1>4, <1>6, <1>7
<1> HIDE DEF w
<1>9. w = v
  BY <1>8, SeqEqual
<1>10. QED
  BY <1>9 DEF w, u, v, o

\* A part of one byte.
LEMMA OnePart ==
  ASSUME NEW S, NEW t \in Seq(S), NEW a \in 1 .. Len(t)
  PROVE  SubSeq(t, a, a) = <<t[a]>> /\ <<>> \o <<t[a]>> = <<t[a]>>
<1>1. SubSeq(t, a, a) = <<t[a]>>
  <2> DEFINE u == SubSeq(t, a, a)
             v == <<t[a]>>
  <2>1. Len(u) = 1 /\ u[1] = t[a] /\ u \in Seq(S) /\ v \in Seq(S) /\ Len(v) = 1 /\ v[1] = t[a]
    OBVIOUS
  <2> HIDE DEF u, v
  <2>2. u = v
    BY <2>1, SeqEqual
  <2>3. QED
    BY <2>2 DEF u, v
<1>2. <<>> \o <<t[a]>> = <<t[a]>>
  OBVIOUS
<1>3. QED
  BY <1>1, <1>2

\* While the first word is read, the search is sound for what has come of it.
InWord(r, lab, n) ==
  /\ r[n].state1 = "METHOD" /\ r[n].major = 0 /\ r[n].minor = 0 /\ r[n].state2.pending = 0
  /\ SoundSearch(Methods, methods, lab, Between(First, n), Len(Between(First, n)), r[n].state2.row, 0, <<>>)

LEMMA WordRead ==
  ASSUME line \in Seq(ByteSet), NEW r, RunOf(r, line), NEW lab, Ready(Methods, methods, lab),
         NEW e \in First .. Len(line), \A k \in First .. e : ~Space(line[k])
  PROVE  \A n \in First .. e : InWord(r, lab, n)
<1> DEFINE N == Len(line)
           f == First
           T == {n \in f .. e : InWord(r, lab, n)}
<1>1. /\ N \in Nat /\ (\A n \in 1 .. N : line[n] \in ByteSet) /\ f \in 1 .. N /\ f \in Nat /\ e \in Nat
      /\ f <= N /\ e <= N /\ f <= e /\ ~Space(line[f])
  BY LineIs
<1>2. f \in T
  <2> DEFINE h == r[f]
             c == line[f]
             t == <<>>
  <2>1. f - 1 \in 0 .. N - 1 /\ (f - 1) + 1 = f /\ f - 1 \in 0 .. First - 1
    BY <1>1
  <2>2. h = NextByte(Zeroed, c) /\ c \in ByteSet /\ ~Space(c)
    BY <1>1, <2>1, Before DEF RunOf
  <2>3. h.state1 = "METHOD" /\ h.state2 = SearchNext(methods, Start, <<c>>, 0).state /\ h.major = 0 /\ h.minor = 0
    BY <2>2, FirstByte
  <2>4. Start.pending = 0 /\ Start.row = 0 /\ Len(t) = 0
    BY DEF Start
  <2>5. SoundSearch(Methods, methods, lab, t, Len(t), Start.row, 0, <<>>)
    BY <2>4, SoundStart
  <2>6. t \o <<c>> = Between(f, f)
    <3> DEFINE B == ByteSet
    <3>1. line \in Seq(B) /\ f \in 1 .. Len(line)
      BY <1>1
    <3> HIDE DEF B, f
    <3>2. SubSeq(line, f, f) = <<line[f]>> /\ <<>> \o <<line[f]>> = <<line[f]>>
      BY <3>1, OnePart
    <3>3. QED
      BY <3>2 DEF Between
  <2> HIDE DEF t
  <2>7. h.state2.pending = 0 /\ SoundSearch(Methods, methods, lab, t \o <<c>>, Len(t \o <<c>>), h.state2.row, 0, <<>>)
    <3> DEFINE st == Start
               s == SearchNext(methods, st, <<c>>, 0).state
               p == <<>>
    <3>1. st.pending = 0 /\ SoundSearch(Methods, methods, lab, t, Len(t), st.row, 0, p) /\ c \in ByteSet
      BY <2>2, <2>4, <2>5
    <3>2. h.state2 = s
      BY <2>3
    <3> HIDE DEF st, p
    <3>3. s.pending = 0 /\ SoundSearch(Methods, methods, lab, t \o <<c>>, Len(t \o <<c>>), s.row, 0, p)
      BY <3>1, MethodByte
    <3>4. QED
      BY <3>2, <3>3 DEF p
  <2>8. InWord(r, lab, f)
    BY <2>3, <2>6, <2>7 DEF InWord
  <2>9. QED
    BY <1>1, <2>8
<1>3. ASSUME NEW n \in f .. e - 1, n \in T PROVE n + 1 \in T
  <2> DEFINE h == r[n]
             g == r[n + 1]
             c == line[n + 1]
             t == Between(First, n)
  <2>1. n \in 0 .. N - 1 /\ n + 1 \in 1 .. N /\ n + 1 \in f .. e /\ n \in f .. N - 1 /\ n \in First .. N
    BY <1>1
  <2>2. g = NextByte(h, c) /\ c \in ByteSet /\ ~Space(c) /\ HttpHeader(h)
    BY <1>1, <2>1, Within DEF RunOf
  <2>3. /\ h.state1 = "METHOD" /\ h.major = 0 /\ h.minor = 0 /\ h.state2.pending = 0
        /\ SoundSearch(Methods, methods, lab, t, Len(t), h.state2.row, 0, <<>>)
    BY <1>3 DEF InWord
  <2>4. t \o <<c>> = Between(First, n + 1)
    <3> DEFINE B == ByteSet
    <3>1. line \in Seq(B) /\ f \in 1 .. Len(line) /\ n \in f .. Len(line) - 1
      BY <1>1, <2>1
    <3> HIDE DEF B, f
    <3>2. SubSeq(line, f, n) \o <<line[n + 1]>> = SubSeq(line, f, n + 1)
      BY <3>1, NextPart
    <3>3. QED
      BY <3>2 DEF Between, f
  <2> HIDE DEF h, g, c, t
  <2>5. g = Method(h, c)
    BY <2>2, <2>3, WantedIs DEF NextByte, VersionStates
  <2>6. g.state1 = "METHOD" /\ g.state2 = SearchNext(methods, h.state2, <<c>>, 0).state /\ g.major = 0 /\ g.minor = 0
    BY <2>2, <2>3, <2>5, MethodIs
  <2>7. g.state2.pending = 0 /\ SoundSearch(Methods, methods, lab, t \o <<c>>, Len(t \o <<c>>), g.state2.row, 0, <<>>)
    <3> DEFINE st == h.state2
               s == SearchNext(methods, st, <<c>>, 0).state
               p == <<>>
    <3>1. st.pending = 0 /\ SoundSearch(Methods, methods, lab, t, Len(t), st.row, 0, p) /\ c \in ByteSet
      BY <2>2, <2>3
    <3>2. g.state2 = s
      BY <2>6
    <3> HIDE DEF st, p
    <3>3. s.pending = 0 /\ SoundSearch(Methods, methods, lab, t \o <<c>>, Len(t \o <<c>>), s.row, 0, p)
      BY <3>1, MethodByte
    <3>4. QED
      BY <3>2, <3>3 DEF p
  <2>8. InWord(r, lab, n + 1)
    BY <2>4, <2>6, <2>7 DEF InWord, g
  <2>9. QED
    BY <2>1, <2>8
<1> HIDE DEF T, f
<1>4. f .. e \subseteq T
  BY <1>1, <1>2, <1>3, UpFrom
<1>5. QED
  BY <1>4 DEF T, f

\* The space behind the first word.
LEMMA WordEnds ==
  ASSUME NEW h, HttpHeader(h), NEW c \in ByteSet, Space(c), Code[c] # LF
  PROVE  LET k    == Method(h, c)
             done == SearchDone(methods, h.state2)
         IN k.major = h.major /\ k.minor = h.minor /\ k.state1 = "SPACE1" /\ k.method = (IF done = <<>> THEN -1 ELSE done[1])
BY MethodIs

\* At the space behind it the method is known.
LEMMA WordDone ==
  ASSUME line \in Seq(ByteSet), NEW r, RunOf(r, line), NEW lab, Ready(Methods, methods, lab), First <= Len(line),
         NEW i \in First + 1 .. Len(line), i < Ending, Space(line[i]), \A k \in First .. i - 1 : ~Space(line[k])
  PROVE  /\ r[i].state1 = "SPACE1" /\ r[i].method = MethodOf(Between(First, i - 1))
         /\ r[i].major = 0 /\ r[i].minor = 0
<1> DEFINE e == i - 1
           h == r[e]
           g == r[i]
           c == line[i]
           t == Between(First, e)
<1>1. /\ Len(line) \in Nat /\ (\A n \in 1 .. Len(line) : line[n] \in ByteSet) /\ First \in 1 .. Len(line)
      /\ Ending \in First .. Len(line) + 1 /\ (\A n \in First .. Ending - 1 : Code[line[n]] # LF)
  BY LineIs
<1>2. e \in First .. Len(line) /\ e \in 0 .. Len(line) - 1 /\ e + 1 = i /\ i \in 1 .. Len(line) /\ i \in First .. Ending - 1 /\ e \in First .. e
  BY <1>1
<1>3. g = NextByte(h, c) /\ c \in ByteSet /\ Space(c) /\ Code[c] # LF /\ HttpHeader(h)
  <2>1. r[e + 1] = NextByte(r[e], line[e + 1])
    BY <1>2 DEF RunOf
  <2>2. g = NextByte(h, c)
    BY <1>2, <2>1
  <2>3. HttpHeader(h)
    BY <1>2, Within
  <2>4. QED
    BY <1>1, <1>2, <2>2, <2>3
<1>4. InWord(r, lab, e)
  <2> HIDE DEF e
  <2>1. \A n \in First .. e : InWord(r, lab, n)
    <3>1. e \in First .. Len(line) /\ \A k \in First .. e : ~Space(line[k])
      BY <1>2 DEF e
    <3>2. QED
      BY <3>1, WordRead
  <2>2. QED
    BY <1>2, <2>1
<1>5. /\ h.state1 = "METHOD" /\ h.major = 0 /\ h.minor = 0
      /\ SoundSearch(Methods, methods, lab, t, Len(t), h.state2.row, 0, <<>>)
  BY <1>4 DEF InWord
<1> HIDE DEF h, g, c, t
<1>6. g = Method(h, c)
  BY <1>3, <1>5, WantedIs DEF NextByte, VersionStates
<1> DEFINE ids == SearchDone(methods, h.state2)
           id == IF ids = <<>> THEN -1 ELSE ids[1]
<1>7. g.state1 = "SPACE1" /\ g.method = id /\ g.major = 0 /\ g.minor = 0
  <2>1. LET k    == Method(h, c)
            done == SearchDone(methods, h.state2)
        IN k.major = h.major /\ k.minor = h.minor /\ k.state1 = "SPACE1" /\ k.method = (IF done = <<>> THEN -1 ELSE done[1])
    BY <1>3, WordEnds
  <2> HIDE DEF id
  <2>2. QED
    BY <1>5, <1>6, <2>1 DEF id
<1>8. id = MethodOf(t)
  <2> DEFINE st == h.state2
             p == <<>>
  <2>1. SoundSearch(Methods, methods, lab, t, Len(t), st.row, 0, p)
    BY <1>5
  <2> HIDE DEF st, p
  <2>2. LET x == SearchDone(methods, st) IN (IF x = <<>> THEN -1 ELSE x[1]) = MethodOf(t)
    BY <2>1, MethodFound
  <2>3. QED
    BY <2>2 DEF st
<1>9. QED
  BY <1>7, <1>8 DEF g, t

\* and nothing changes it any more.
LEMMA MethodStays ==
  ASSUME line \in Seq(ByteSet), NEW r, RunOf(r, line), First <= Len(line),
         NEW i \in First .. Len(line), r[i].state1 # "METHOD"
  PROVE  \A n \in i .. Len(line) : r[n].method = r[i].method
<1> DEFINE N == Len(line)
           T == {n \in i .. N : r[n].method = r[i].method /\ r[n].state1 # "METHOD"}
<1>1. /\ N \in Nat /\ (\A n \in 1 .. N : line[n] \in ByteSet) /\ First \in 1 .. N /\ i \in Nat /\ Ending \in Nat
  BY LineIs
<1>2. i \in T
  BY <1>1
<1>3. ASSUME NEW n \in i .. N - 1, n \in T PROVE n + 1 \in T
  <2> DEFINE h == r[n]
             g == r[n + 1]
             c == line[n + 1]
  <2>1. n \in 0 .. N - 1 /\ n \in First .. N /\ n + 1 \in 1 .. N /\ n + 1 \in i .. N
    BY <1>1
  <2>2. g = NextByte(h, c) /\ c \in ByteSet
    BY <1>1, <2>1 DEF RunOf
  <2>3. HttpHeader(h) /\ h.state1 \in PathStates \cup {"EOL"}
    BY <1>1, <2>1, Within
  <2>4. h.method = r[i].method /\ h.state1 # "METHOD"
    BY <1>3
  <2>5. CASE h.state1 = "EOL"
    <3> HIDE DEF h, g, c
    <3>1. g = h
      BY <2>2, <2>5, WantedIs DEF NextByte, VersionStates
    <3>2. QED
      BY <2>1, <2>4, <3>1 DEF g
  <2>6. CASE h.state1 \in PathStates
    <3> HIDE DEF h, g, c
    <3>1. g.state1 # "METHOD" /\ g.method = h.method
      BY <2>2, <2>3, <2>4, <2>6, ByteRead
    <3>2. QED
      BY <2>1, <2>4, <3>1 DEF g
  <2>7. QED
    BY <2>3, <2>5, <2>6
<1> HIDE DEF T, N
<1>4. i .. N \subseteq T
  BY <1>1, <1>2, <1>3, UpFrom
<1>5. QED
  BY <1>4 DEF T, N

\* A byte of the line that is not its end.
LEMMA StepIs ==
  ASSUME line \in Seq(ByteSet), NEW r, RunOf(r, line), First <= Len(line), NEW n \in First .. Len(line) - 1, n + 1 < Ending
  PROVE  /\ r[n + 1] = NextByte(r[n], line[n + 1]) /\ line[n + 1] \in ByteSet /\ Code[line[n + 1]] # LF
         /\ HttpHeader(r[n]) /\ r[n].state1 \in PathStates /\ n \in Nat
         /\ r[n].state1 \notin {"VERSION_HTTPMAJ", "VERSION_HTTPMIN"} => r[n + 1].major = r[n].major /\ r[n + 1].minor = r[n].minor
<1>1. /\ Len(line) \in Nat /\ (\A k \in 1 .. Len(line) : line[k] \in ByteSet) /\ First \in 1 .. Len(line)
      /\ Ending \in First .. Len(line) + 1 /\ (\A k \in First .. Ending - 1 : Code[line[k]] # LF)
  BY LineIs
<1>2. n \in 0 .. Len(line) - 1 /\ n + 1 \in 1 .. Len(line) /\ n + 1 \in First .. Ending - 1 /\ n < Ending /\ n \in First .. Len(line) /\ n \in Nat
  BY <1>1
<1> DEFINE h == r[n]
           g == r[n + 1]
           c == line[n + 1]
<1>3. g = NextByte(h, c) /\ c \in ByteSet /\ Code[c] # LF
  BY <1>1, <1>2 DEF RunOf
<1>4. HttpHeader(h) /\ h.state1 \in PathStates
  BY <1>2, Within
<1> HIDE DEF h, g, c
<1>5. h.state1 \notin {"VERSION_HTTPMAJ", "VERSION_HTTPMIN"} => g.major = h.major /\ g.minor = h.minor
  BY <1>3, <1>4, ByteRead
<1>6. QED
  BY <1>2, <1>3, <1>4, <1>5 DEF h, g, c

\* The version is not set yet.
Unset(r, n) == r[n].major = 0 /\ r[n].minor = 0

\* White space before the URI is skipped.
LEMMA GapRead ==
  ASSUME line \in Seq(ByteSet), NEW r, RunOf(r, line), First <= Len(line),
         NEW s \in First .. Len(line), NEW i \in s .. Len(line), i < Ending,
         r[s].state1 = "SPACE1", Unset(r, s), \A k \in s + 1 .. i : Space(line[k])
  PROVE  r[i].state1 = "SPACE1" /\ Unset(r, i)
<1> DEFINE N == i
           T == {n \in s .. N : r[n].state1 = "SPACE1" /\ Unset(r, n)}
<1>1. Len(line) \in Nat /\ First \in 1 .. Len(line) /\ Ending \in Nat /\ s \in Nat /\ N \in Nat /\ s <= N /\ N <= Len(line)
  BY LineIs
<1>2. s \in T
  BY <1>1
<1>3. ASSUME NEW n \in s .. N - 1, n \in T PROVE n + 1 \in T
  <2> DEFINE h == r[n]
             g == r[n + 1]
             c == line[n + 1]
  <2>1. n \in First .. Len(line) - 1 /\ n + 1 < Ending /\ n + 1 \in s + 1 .. i /\ n + 1 \in s .. N
    BY <1>1
  <2>2. g = NextByte(h, c) /\ Code[c] # LF /\ (h.state1 \notin {"VERSION_HTTPMAJ", "VERSION_HTTPMIN"} => g.major = h.major /\ g.minor = h.minor)
    BY <2>1, StepIs
  <2>3. Space(c)
    BY <2>1
  <2>4. h.state1 = "SPACE1" /\ h.major = 0 /\ h.minor = 0
    BY <1>3 DEF Unset
  <2> HIDE DEF h, g, c
  <2>5. g = h
    BY <2>2, <2>3, <2>4, WantedIs DEF NextByte, VersionStates, Space
  <2>6. QED
    BY <2>1, <2>4, <2>5 DEF g, Unset
<1> HIDE DEF T
<1>4. s .. N \subseteq T
  <2> HIDE DEF N
  <2>1. QED
    BY <1>1, <1>2, <1>3, UpFrom
<1>5. N \in T
  BY <1>1, <1>4
<1>6. QED
  BY <1>5 DEF T

\* A request line, from its first word to the URI.
LEMMA ToUri ==
  ASSUME line \in Seq(ByteSet), NEW r, RunOf(r, line), NEW lab, Ready(Methods, methods, lab), First <= Len(line),
         NEW i \in First + 1 .. Len(line), i < Ending, Space(line[i]),
         \A n \in First .. i - 1 : Space(line[n]) => \A k \in n .. i : Space(line[k])
  PROVE  r[i].state1 = "SPACE1" /\ Unset(r, i)
<1> DEFINE S == {n \in First .. i : Space(line[n])}
           s == Least(S)
<1>1. Len(line) \in Nat /\ First \in 1 .. Len(line) /\ Ending \in Nat /\ ~Space(line[First])
  BY LineIs
<1>2. S \subseteq Nat /\ S # {}
  BY <1>1
<1> HIDE DEF S
<1>3. s \in S /\ \A y \in S : s <= y
  BY <1>2, LeastIs
<1> HIDE DEF s
<1>4. s \in First + 1 .. i /\ Space(line[s]) /\ s \in First + 1 .. Len(line) /\ s < Ending
  <2>1. s \in First .. i /\ Space(line[s])
    BY <1>3 DEF S
  <2>2. s # First
    BY <1>1, <2>1
  <2>3. QED
    BY <1>1, <2>1, <2>2
<1>5. ASSUME NEW k \in First .. s - 1 PROVE ~Space(line[k])
  <2>1. k \in First .. i /\ k < s
    BY <1>1, <1>4
  <2>2. QED
    BY <1>1, <1>3, <1>4, <2>1 DEF S
<1>6. ASSUME NEW k \in s + 1 .. i PROVE Space(line[k])
  <2>1. s \in First .. i - 1 /\ k \in s .. i
    BY <1>1, <1>4
  <2>2. QED
    BY <1>4, <2>1
<1>7. r[s].state1 = "SPACE1" /\ Unset(r, s)
  BY <1>4, <1>5, WordDone DEF Unset
<1>8. s \in First .. Len(line) /\ i \in s .. Len(line)
  BY <1>1, <1>4
<1>9. QED
  BY <1>6, <1>7, <1>8, GapRead

\* A URI whose '%'s are complete.
InUri(r, i, n) ==
  /\ Unset(r, n)
  /\ \/ r[n].state1 = "URI"
     \/ r[n].state1 = "URL_PERCENT1" /\ Code[line[n]] = Percent
     \/ r[n].state1 = "URL_PERCENT2" /\ n > i + 1 /\ Code[line[n - 1]] = Percent

\* It leads to the state that waits for "HTTP/".
LEMMA UriRead ==
  ASSUME line \in Seq(ByteSet), NEW r, RunOf(r, line), First <= Len(line),
         NEW i \in First + 1 .. Len(line), NEW j \in i + 1 .. Len(line), j < Ending,
         UriBetween(i, j), r[i].state1 = "SPACE1", Unset(r, i)
  PROVE  r[j].state1 = "SPACE2" /\ Unset(r, j)
<1> DEFINE a == i + 1
           e == j - 1
           T == {n \in a .. e : InUri(r, i, n)}
<1>1. Len(line) \in Nat /\ First \in 1 .. Len(line) /\ Ending \in Nat /\ i \in Nat /\ j \in Nat
  BY LineIs
<1>2. /\ ~Space(line[i + 1]) /\ LineSpace(line[j])
      /\ \A n \in i + 1 .. j - 1 :
           /\ ~LineSpace(line[n])
           /\ Code[line[n]] = Percent => n + 2 < j /\ ISXDIGIT(Code[line[n + 1]]) /\ ISXDIGIT(Code[line[n + 2]])
  BY DEF UriBetween
<1>3. j # i + 1
  <2>1. LineSpace(line[j]) => Space(line[j])
    <3>1. line[j] \in ByteSet
      BY <1>1, LineIs
    <3>2. QED
      BY <3>1, Classes DEF LineSpace, Space, SP, TAB, CR
  <2>2. QED
    BY <1>2, <2>1
<1>4. a \in Nat /\ e \in Nat /\ a <= e /\ a \in a .. e /\ e \in a .. e
  BY <1>1, <1>3
<1>5. a \in T
  <2> DEFINE h == r[i]
             g == r[i + 1]
             c == line[i + 1]
  <2>1. i \in First .. Len(line) - 1 /\ i + 1 < Ending /\ i + 1 \in i + 1 .. j - 1
    BY <1>1, <1>3
  <2>2. /\ g = NextByte(h, c) /\ c \in ByteSet /\ Code[c] # LF /\ HttpHeader(h)
        /\ h.state1 \notin {"VERSION_HTTPMAJ", "VERSION_HTTPMIN"} => g.major = h.major /\ g.minor = h.minor
    BY <2>1, StepIs
  <2>3. ~Space(c) /\ ~LineSpace(c) /\ h.state1 = "SPACE1" /\ h.major = 0 /\ h.minor = 0
    BY <1>2, <2>1 DEF Unset
  <2> HIDE DEF h, g, c
  <2>4. g = Uri(h, c)
    BY <2>2, <2>3, WantedIs DEF NextByte, VersionStates, Space
  <2>5. g.state1 = "URI" \/ (g.state1 = "URL_PERCENT1" /\ Code[c] = Percent)
    BY <2>2, <2>3, <2>4, UriIs
  <2>6. g.major = 0 /\ g.minor = 0
    BY <2>2, <2>3
  <2>7. InUri(r, i, i + 1)
    BY <2>5, <2>6 DEF InUri, Unset, g, c
  <2>8. QED
    BY <1>4, <2>7
<1>6. ASSUME NEW n \in a .. e - 1, n \in T PROVE n + 1 \in T
  <2> DEFINE h == r[n]
             g == r[n + 1]
             c == line[n + 1]
  <2>1. /\ n \in First .. Len(line) - 1 /\ n + 1 < Ending /\ n + 1 \in i + 1 .. j - 1 /\ n \in i + 1 .. j - 1 /\ n + 1 \in a .. e
        /\ n + 1 > i + 1 /\ (n + 1) - 1 = n /\ n \in Nat
    BY <1>1
  <2>2. /\ g = NextByte(h, c) /\ c \in ByteSet /\ Code[c] # LF /\ HttpHeader(h)
        /\ h.state1 \notin {"VERSION_HTTPMAJ", "VERSION_HTTPMIN"} => g.major = h.major /\ g.minor = h.minor
    BY <2>1, StepIs
  <2>3. ~LineSpace(c) /\ (Code[line[n]] = Percent => ISXDIGIT(Code[c]))
    BY <1>2, <2>1
  <2>4. InUri(r, i, n)
    BY <1>6
  <2>5. h.major = 0 /\ h.minor = 0
    BY <2>4 DEF InUri, Unset
  <2>6. CASE h.state1 = "URI"
    <3> HIDE DEF h, g, c
    <3>1. g = Uri(h, c)
      BY <2>2, <2>6, WantedIs DEF NextByte, VersionStates
    <3>2. g.state1 = "URI" \/ (g.state1 = "URL_PERCENT1" /\ Code[c] = Percent)
      BY <2>2, <2>3, <3>1, UriIs
    <3>3. InUri(r, i, n + 1)
      BY <2>2, <2>5, <2>6, <3>2 DEF InUri, Unset, g, c
    <3>4. QED
      BY <2>1, <3>3
  <2>7. CASE h.state1 = "URL_PERCENT1" /\ Code[line[n]] = Percent
    <3> HIDE DEF h, g, c
    <3>1. g = Percent1(h, c)
      BY <2>2, <2>7, WantedIs DEF NextByte, VersionStates
    <3>2. g.state1 = "URL_PERCENT2"
      BY <2>2, <2>3, <2>7, <3>1, Percent1Is
    <3>3. g.major = 0 /\ g.minor = 0
      BY <2>2, <2>5, <2>7
    <3>4. InUri(r, i, n + 1)
      BY <2>1, <2>7, <3>2, <3>3 DEF InUri, Unset, g
    <3>5. QED
      BY <2>1, <3>4
  <2>8. CASE h.state1 = "URL_PERCENT2"
    <3> HIDE DEF h, g, c
    <3>1. g = To(h, IF Code[c] = LF THEN "EOL" ELSE "URI")
      BY <2>2, <2>8, WantedIs DEF NextByte, VersionStates
    <3>2. g.state1 = "URI"
      BY <2>2, <3>1, ToIs
    <3>3. g.major = 0 /\ g.minor = 0
      BY <2>2, <2>5, <2>8
    <3>4. InUri(r, i, n + 1)
      BY <3>2, <3>3 DEF InUri, Unset, g
    <3>5. QED
      BY <2>1, <3>4
  <2>9. QED
    BY <2>4, <2>6, <2>7, <2>8 DEF InUri
<1> HIDE DEF T
<1>7. a .. e \subseteq T
  <2> HIDE DEF a, e
  <2>1. QED
    BY <1>4, <1>5, <1>6, UpFrom
<1>8. InUri(r, i, e)
  BY <1>4, <1>7 DEF T
<1>9. r[e].state1 = "URI"
  <2>1. CASE r[e].state1 = "URL_PERCENT1" /\ Code[line[e]] = Percent
    <3>1. e \in i + 1 .. j - 1
      BY <1>4
    <3>2. e + 2 < j
      BY <1>2, <2>1, <3>1
    <3>3. QED
      BY <1>1, <3>2
  <2>2. CASE e > i + 1 /\ Code[line[e - 1]] = Percent
    <3> DEFINE m == e - 1
    <3>1. m \in i + 1 .. j - 1 /\ Code[line[m]] = Percent
      BY <1>1, <1>4, <2>2
    <3> HIDE DEF m
    <3>2. m + 2 < j
      BY <1>2, <3>1
    <3>3. QED
      BY <1>1, <3>2 DEF m
  <2>3. QED
    BY <1>8, <2>1, <2>2 DEF InUri
<1>10. QED
  <2> DEFINE h == r[e]
             g == r[e + 1]
             c == line[e + 1]
  <2>1. e \in First .. Len(line) - 1 /\ e + 1 < Ending /\ e + 1 = j
    BY <1>1, <1>4
  <2>2. /\ g = NextByte(h, c) /\ c \in ByteSet /\ Code[c] # LF /\ HttpHeader(h)
        /\ h.state1 \notin {"VERSION_HTTPMAJ", "VERSION_HTTPMIN"} => g.major = h.major /\ g.minor = h.minor
    <3> HIDE DEF e
    <3>1. QED
      BY <2>1, StepIs
  <2>3. LineSpace(c) /\ h.state1 = "URI" /\ h.major = 0 /\ h.minor = 0
    BY <1>2, <1>8, <1>9, <2>1 DEF InUri, Unset
  <2>4. g = r[j]
    BY <2>1
  <2> HIDE DEF h, g, c
  <2>5. g = Uri(h, c)
    BY <2>2, <2>3, WantedIs DEF NextByte, VersionStates
  <2>6. g.state1 = "SPACE2" /\ g.major = 0 /\ g.minor = 0
    BY <2>2, <2>3, <2>5, UriIs
  <2>7. QED
    BY <2>4, <2>6 DEF Unset

\* A letter of "HTTP/".
LEMMA LetterRead ==
  ASSUME line \in Seq(ByteSet), NEW r, RunOf(r, line), First <= Len(line), NEW n \in First .. Len(line) - 1, n + 1 < Ending,
         NEW s \in VersionStates, r[n].state1 = s, Unset(r, n), LowerCode(line[n + 1]) = Wanted[s][1]
  PROVE  r[n + 1].state1 = Wanted[s][2] /\ Unset(r, n + 1)
<1> DEFINE h == r[n]
           g == r[n + 1]
           c == line[n + 1]
<1>1. g = NextByte(h, c) /\ c \in ByteSet /\ HttpHeader(h)
  BY StepIs
<1>2. h.state1 \in VersionStates /\ h.state1 = s /\ h.major = 0 /\ h.minor = 0 /\ LowerCode(c) = Wanted[h.state1][1]
  BY DEF Unset
<1> HIDE DEF h, g, c
<1>3. g = Version(h, c)
  BY <1>1, <1>2, WantedIs DEF NextByte, VersionStates
<1>4. g.state1 = Wanted[h.state1][2] /\ Moved(h, g)
  BY <1>1, <1>2, <1>3, VersionIs
<1>5. QED
  BY <1>2, <1>4 DEF Moved, Unset, g

\* "HTTP/" leads to the first number.
LEMMA HttpRead ==
  ASSUME line \in Seq(ByteSet), NEW r, RunOf(r, line), First <= Len(line),
         NEW j \in First .. Len(line), j + 5 <= Len(line), j + 5 < Ending,
         r[j].state1 = "SPACE2", Unset(r, j), Codes(Between(j + 1, j + 5)) = Http
  PROVE  r[j + 5].state1 = "VERSION_HTTPMAJ" /\ Unset(r, j + 5)
<1>1. Len(line) \in Nat /\ First \in 1 .. Len(line) /\ Ending \in Nat /\ j \in Nat
  BY LineIs
<1>2. \A k \in 1 .. 5 : LowerCode(line[j + k]) = Http[k]
  <2> DEFINE w == SubSeq(line, j + 1, j + 5)
             v == [k \in DOMAIN w |-> LowerCode(w[k])]
  <2>1. DOMAIN w = 1 .. 5 /\ \A k \in 1 .. 5 : w[k] = line[j + k]
    <3> DEFINE a == j + 1
               B == ByteSet
    <3>1. line \in Seq(B) /\ a \in 1 .. Len(line) /\ j + 5 = a + 4 /\ a + 4 \in 1 .. Len(line) /\ \A k \in 1 .. 5 : j + k = a + k - 1
      BY <1>1
    <3> HIDE DEF a, B
    <3>2. DOMAIN SubSeq(line, a, a + 4) = 1 .. 5 /\ \A k \in 1 .. 5 : SubSeq(line, a, a + 4)[k] = line[a + k - 1]
      BY <3>1
    <3>3. QED
      BY <3>1, <3>2 DEF a
  <2> HIDE DEF w
  <2>2. v = Http
    BY DEF Codes, Between, w
  <2>3. \A k \in 1 .. 5 : v[k] = LowerCode(line[j + k])
    BY <2>1
  <2> HIDE DEF v
  <2>4. QED
    BY <2>2, <2>3
<1>3. Http[1] = 104 /\ Http[2] = 116 /\ Http[3] = 116 /\ Http[4] = 112 /\ Http[5] = 47
  BY DEF Http
<1>4. ASSUME NEW k \in 0 .. 4 PROVE j + k \in First .. Len(line) - 1 /\ (j + k) + 1 < Ending /\ j + (k + 1) = (j + k) + 1
  BY <1>1
<1>5. LowerCode(line[j + 1]) = 104 /\ LowerCode(line[j + 2]) = 116 /\ LowerCode(line[j + 3]) = 116
      /\ LowerCode(line[j + 4]) = 112 /\ LowerCode(line[j + 5]) = 47
  BY <1>2, <1>3
<1>6. ASSUME NEW k \in 0 .. 4, NEW s \in VersionStates, r[j + k].state1 = s, Unset(r, j + k),
             LowerCode(line[j + (k + 1)]) = Wanted[s][1]
      PROVE  r[j + (k + 1)].state1 = Wanted[s][2] /\ Unset(r, j + (k + 1))
  <2> DEFINE n == j + k
  <2>1. n \in First .. Len(line) - 1 /\ n + 1 < Ending /\ j + (k + 1) = n + 1
    BY <1>4
  <2>2. r[n].state1 = s /\ Unset(r, n) /\ LowerCode(line[n + 1]) = Wanted[s][1]
    BY <1>6, <2>1
  <2> HIDE DEF n
  <2>3. r[n + 1].state1 = Wanted[s][2] /\ Unset(r, n + 1)
    BY <2>1, <2>2, LetterRead
  <2>4. QED
    BY <2>1, <2>3
<1>7. /\ Wanted["SPACE2"][1] = 104 /\ Wanted["SPACE2"][2] = "VERSION_H"
      /\ Wanted["VERSION_H"][1] = 116 /\ Wanted["VERSION_H"][2] = "VERSION_HT"
      /\ Wanted["VERSION_HT"][1] = 116 /\ Wanted["VERSION_HT"][2] = "VERSION_HTT"
      /\ Wanted["VERSION_HTT"][1] = 112 /\ Wanted["VERSION_HTT"][2] = "VERSION_HTTP"
      /\ Wanted["VERSION_HTTP"][1] = 47 /\ Wanted["VERSION_HTTP"][2] = "VERSION_HTTPMAJ"
  BY WantedIs
<1>8. j + 0 = j /\ 0 + 1 = 1 /\ 1 + 1 = 2 /\ 2 + 1 = 3 /\ 3 + 1 = 4 /\ 4 + 1 = 5
  BY <1>1
<1>9. r[j + 1].state1 = "VERSION_H" /\ Unset(r, j + 1)
  <2>1. 0 \in 0 .. 4 /\ "SPACE2" \in VersionStates
    BY DEF VersionStates
  <2>2. r[j + (0 + 1)].state1 = Wanted["SPACE2"][2] /\ Unset(r, j + (0 + 1))
    BY <1>5, <1>6, <1>7, <1>8, <2>1
  <2>3. QED
    BY <1>7, <1>8, <2>2
<1>10. r[j + 2].state1 = "VERSION_HT" /\ Unset(r, j + 2)
  <2>1. 1 \in 0 .. 4 /\ "VERSION_H" \in VersionStates
    BY DEF VersionStates
  <2>2. r[j + (1 + 1)].state1 = Wanted["VERSION_H"][2] /\ Unset(r, j + (1 + 1))
    BY <1>5, <1>6, <1>7, <1>8, <1>9, <2>1
  <2>3. QED
    BY <1>7, <1>8, <2>2
<1>11. r[j + 3].state1 = "VERSION_HTT" /\ Unset(r, j + 3)
  <2>1. 2 \in 0 .. 4 /\ "VERSION_HT" \in VersionStates
    <3>1. "VERSION_HT" \in VersionStates
      BY Zenon DEF VersionStates
    <3>2. QED
      BY <3>1
  <2>2. r[j + (2 + 1)].state1 = Wanted["VERSION_HT"][2] /\ Unset(r, j + (2 + 1))
    BY <1>5, <1>6, <1>7, <1>8, <1>10, <2>1, SMTT(60)
  <2>3. QED
    BY <1>7, <1>8, <2>2
<1>12. r[j + 4].state1 = "VERSION_HTTP" /\ Unset(r, j + 4)
  <2>1. 3 \in 0 .. 4 /\ "VERSION_HTT" \in VersionStates
    BY DEF VersionStates
  <2>2. r[j + (3 + 1)].state1 = Wanted["VERSION_HTT"][2] /\ Unset(r, j + (3 + 1))
    BY <1>5, <1>6, <1>7, <1>8, <1>11, <2>1
  <2>3. QED
    BY <1>7, <1>8, <2>2
<1>13. QED
  <2>1. 4 \in 0 .. 4 /\ "VERSION_HTTP" \in VersionStates
    BY DEF VersionStates
  <2>2. r[j + (4 + 1)].state1 = Wanted["VERSION_HTTP"][2] /\ Unset(r, j + (4 + 1))
    BY <1>5, <1>6, <1>7, <1>8, <1>12, <2>1
  <2>3. QED
    BY <1>7, <1>8, <2>2

\* The state in which a number is read, and the other number.
InNumber(field) == IF field = "major" THEN "VERSION_HTTPMAJ" ELSE "VERSION_HTTPMIN"
OtherNumber(field) == IF field = "major" THEN "minor" ELSE "major"

\* A digit of it.
LEMMA DigitRead ==
  ASSUME line \in Seq(ByteSet), NEW r, RunOf(r, line), First <= Len(line), NEW n \in First .. Len(line) - 1, n + 1 < Ending,
         NEW field \in {"major", "minor"}, r[n].state1 = InNumber(field), r[n][field] \in 0 .. 9, Code[line[n + 1]] \in 48 .. 57
  PROVE  /\ r[n + 1].state1 = InNumber(field) /\ r[n + 1][field] = 10 * r[n][field] + Digit(line[n + 1])
         /\ r[n + 1][OtherNumber(field)] = r[n][OtherNumber(field)]
<1> DEFINE h == r[n]
           g == r[n + 1]
           c == line[n + 1]
<1>1. g = NextByte(h, c) /\ c \in ByteSet /\ HttpHeader(h) /\ Code[c] \in 48 .. 57
  BY StepIs
<1>2. Digit(c) \in 0 .. 9
  BY <1>1 DEF Digit
<1>3. ASSUME NEW x \in 0 .. 9 PROVE x \in 0 .. 99 /\ (10 * x + Digit(c)) % 256 = 10 * x + Digit(c)
  <2> DEFINE d == Digit(c)
             y == 10 * x + d
  <2>1. d \in 0 .. 9
    BY <1>2
  <2> HIDE DEF d
  <2>2. y \in 0 .. 99
    BY <2>1
  <2> HIDE DEF y
  <2>3. y % 256 = y
    BY <2>2
  <2>4. QED
    BY <2>3 DEF y, d
<1>4. h.state1 = InNumber(field) /\ h[field] \in 0 .. 9
  OBVIOUS
<1> HIDE DEF h, g, c
<1>5. CASE field = "major"
  <2>1. h.state1 = "VERSION_HTTPMAJ" /\ h.major \in 0 .. 9
    BY <1>4, <1>5 DEF InNumber
  <2>2. g = Number(h, "major", c)
    BY <1>1, <2>1, WantedIs DEF NextByte, VersionStates
  <2>3. g.state1 = h.state1 /\ g.minor = h.minor /\ g.major = (10 * h.major + Digit(c)) % 256
    BY <1>1, <1>3, <2>1, <2>2, DigitIs
  <2>4. g.major = 10 * h.major + Digit(c)
    BY <1>3, <2>1, <2>3
  <2>5. QED
    BY <1>4, <1>5, <2>3, <2>4 DEF OtherNumber, g, h, c
<1>6. CASE field = "minor"
  <2>1. h.state1 = "VERSION_HTTPMIN" /\ h.minor \in 0 .. 9
    BY <1>4, <1>6 DEF InNumber
  <2>2. g = Number(h, "minor", c)
    BY <1>1, <2>1, WantedIs DEF NextByte, VersionStates
  <2>3. g.state1 = h.state1 /\ g.major = h.major /\ g.minor = (10 * h.minor + Digit(c)) % 256
    BY <1>1, <1>3, <2>1, <2>2, DigitIs
  <2>4. g.minor = 10 * h.minor + Digit(c)
    BY <1>3, <2>1, <2>3
  <2>5. QED
    BY <1>4, <1>6, <2>3, <2>4 DEF OtherNumber, g, h, c
<1>7. QED
  BY <1>5, <1>6

\* A number of one digit or two.
LEMMA NumberRead ==
  ASSUME line \in Seq(ByteSet), NEW r, RunOf(r, line), First <= Len(line),
         NEW a \in First .. Len(line), NEW b \in Nat, a <= b, b <= Len(line), b < Ending,
         NEW field \in {"major", "minor"}, r[a].state1 = InNumber(field), r[a][field] = 0, Digits(Between(a + 1, b))
  PROVE  /\ r[b].state1 = InNumber(field) /\ r[b][field] = Value(Between(a + 1, b))
         /\ r[b][OtherNumber(field)] = r[a][OtherNumber(field)]
<1> DEFINE w == Between(a + 1, b)
<1>1. Len(line) \in Nat /\ First \in 1 .. Len(line) /\ Ending \in Nat /\ a \in Nat
  BY LineIs
<1>2. Len(w) = b - a /\ \A k \in 1 .. b - a : w[k] = line[a + k]
  <2> DEFINE B == ByteSet
             l == line
             A == a + 1
  <2>1. l \in Seq(B) /\ A \in 1 .. Len(l) + 1 /\ b \in A - 1 .. Len(l) /\ A \in Nat /\ b - a = b - A + 1 /\ \A k \in 1 .. b - a : a + k = A + k - 1
    BY <1>1
  <2> HIDE DEF B, l, A
  <2>2. Len(SubSeq(l, A, b)) = b - A + 1 /\ \A k \in 1 .. b - A + 1 : SubSeq(l, A, b)[k] = l[A + k - 1]
    BY <2>1
  <2>3. QED
    BY <2>1, <2>2 DEF Between, l, A
<1>3. Digits(w)
  OBVIOUS
<1> HIDE DEF w
<1>4. b - a \in 1 .. 2 /\ DOMAIN w = 1 .. b - a
  <2>1. Len(w) \in 1 .. 2 /\ w = Between(a + 1, b)
    BY <1>3 DEF Digits, w
  <2>2. DOMAIN w = 1 .. Len(w)
    <3> DEFINE B == ByteSet
    <3>1. line \in Seq(B) /\ a + 1 \in 1 .. Len(line) + 1 /\ b \in 0 .. Len(line)
      BY <1>1
    <3> HIDE DEF B
    <3>2. SubSeq(line, a + 1, b) \in Seq(B)
      BY <1>1, <3>1
    <3>3. w \in Seq(B)
      BY <2>1, <3>2 DEF Between
    <3>4. QED
      BY <3>3, SeqIs
  <2>3. QED
    BY <1>2, <2>1, <2>2
<1>5. \A k \in 1 .. b - a : Code[line[a + k]] \in 48 .. 57
  BY <1>2, <1>3, <1>4 DEF Digits
<1>6. /\ a \in First .. Len(line) - 1 /\ a + 1 < Ending /\ 1 \in 1 .. b - a
      /\ Code[line[a + 1]] \in 48 .. 57 /\ r[a][field] \in 0 .. 9 /\ 10 * r[a][field] = 0
  BY <1>1, <1>4, <1>5
<1>7. /\ r[a + 1].state1 = InNumber(field) /\ r[a + 1][field] = 10 * r[a][field] + Digit(line[a + 1])
      /\ r[a + 1][OtherNumber(field)] = r[a][OtherNumber(field)]
  BY <1>6, DigitRead
<1>8. r[a + 1][field] = Digit(line[a + 1]) /\ Digit(line[a + 1]) \in 0 .. 9
  BY <1>6, <1>7, SMTT(60) DEF Digit
<1>9. CASE b - a = 1
  <2>1. b = a + 1 /\ Value(w) = Digit(line[a + 1])
    BY <1>1, <1>2, <1>9 DEF Value
  <2>2. QED
    BY <1>7, <1>8, <2>1 DEF w
<1>10. CASE b - a = 2
  <2> DEFINE n == a + 1
  <2>1. b = n + 1 /\ n \in First .. Len(line) - 1 /\ n + 1 < Ending /\ 2 \in 1 .. b - a /\ a + 2 = n + 1
    BY <1>1, <1>10
  <2>2. Code[line[n + 1]] \in 48 .. 57
    BY <1>5, <2>1
  <2>3. r[n].state1 = InNumber(field) /\ r[n][field] \in 0 .. 9 /\ r[n][field] = Digit(line[n]) /\ r[n][OtherNumber(field)] = r[a][OtherNumber(field)]
    BY <1>7, <1>8
  <2>4. Value(w) = 10 * Digit(line[n]) + Digit(line[n + 1])
    <3>1. Len(w) = 2 /\ w[1] = line[n] /\ w[2] = line[n + 1]
      BY <1>2, <1>10, <2>1
    <3> HIDE DEF n
    <3>2. QED
      BY <3>1 DEF Value
  <2> HIDE DEF n
  <2>5. /\ r[n + 1].state1 = InNumber(field) /\ r[n + 1][field] = 10 * r[n][field] + Digit(line[n + 1])
        /\ r[n + 1][OtherNumber(field)] = r[n][OtherNumber(field)]
    BY <2>1, <2>2, <2>3, DigitRead
  <2>6. QED
    BY <2>1, <2>3, <2>4, <2>5 DEF w
<1>11. QED
  BY <1>4, <1>9, <1>10

\* The version is read, and it is not lost at the end of the line.
LEMMA VersionRead ==
  ASSUME line \in Seq(ByteSet), NEW r, RunOf(r, line), NEW lab, Ready(Methods, methods, lab),
         First <= Len(line), Ending <= Len(line),
         NEW i \in First + 1 .. Stop, NEW j \in i + 1 .. Stop - 6, NEW d \in j + 6 .. Stop,
         UriBetween(i, j), Codes(Between(j + 1, j + 5)) = Http, Code[line[d]] = 46,
         Digits(Between(j + 6, d - 1)), Digits(Between(d + 1, Stop))
  PROVE  r[Ending].major = Value(Between(j + 6, d - 1)) /\ r[Ending].minor = Value(Between(d + 1, Stop))
<1> DEFINE e == Stop
           L == Len(line)
           a == j + 5
           b == d - 1
<1>1. /\ L \in Nat /\ First \in 1 .. L /\ Ending \in Nat /\ First < Ending /\ (\A n \in 1 .. L : line[n] \in ByteSet)
      /\ Code[line[Ending]] = LF
  BY LineIs
<1>2. e \in Int /\ e = (IF Code[line[Ending - 1]] = CR THEN Ending - 2 ELSE Ending - 1)
  BY <1>1 DEF Stop
<1> HIDE DEF e
<1>3. i \in First + 1 .. e /\ j \in i + 1 .. e - 6 /\ d \in j + 6 .. e
  BY DEF e
<1>4. /\ i \in First + 1 .. L /\ i < Ending /\ j \in i + 1 .. L /\ j < Ending /\ d \in First .. L /\ d < Ending
      /\ e \in First .. L /\ e < Ending /\ i \in Nat /\ j \in Nat /\ d \in Nat /\ e \in Nat
      /\ j \in First .. L /\ j + 5 <= L /\ j + 5 < Ending
  <2> DEFINE f == First
             n == Ending
             l == L
  <2>1. e \in Int /\ e < n
    BY <1>1, <1>2
  <2>2. f \in Nat /\ 1 <= f /\ n \in Nat /\ l \in Nat /\ n <= l
    <3>1. n \in Nat /\ l \in Nat /\ f \in 1 .. l /\ n <= l
      BY <1>1, Zenon
    <3> HIDE DEF f, n, l
    <3>2. QED
      BY <3>1
  <2>3. i \in f + 1 .. e /\ j \in i + 1 .. e - 6 /\ d \in j + 6 .. e
    BY <1>3
  <2> HIDE DEF f, n, l
  <2>4. i \in Int /\ j \in Int /\ d \in Int /\ f < i /\ i <= e /\ i < j /\ j <= e - 6 /\ j + 6 <= d /\ d <= e
    BY <2>1, <2>2, <2>3
  <2>5. /\ i \in f + 1 .. l /\ i < n /\ j \in i + 1 .. l /\ j < n /\ d \in f .. l /\ d < n
        /\ e \in f .. l /\ e < n /\ i \in Nat /\ j \in Nat /\ d \in Nat /\ e \in Nat
        /\ j \in f .. l /\ j + 5 <= l /\ j + 5 < n
    BY <2>1, <2>2, <2>4
  <2>6. QED
    BY <2>5 DEF f, n, l
<1>5. Space(line[i]) /\ \A n \in First .. i - 1 : Space(line[n]) => \A k \in n .. i : Space(line[k])
  BY DEF UriBetween
<1>6. r[i].state1 = "SPACE1" /\ Unset(r, i)
  BY <1>4, <1>5, ToUri
<1>7. r[j].state1 = "SPACE2" /\ Unset(r, j)
  BY <1>4, <1>6, UriRead
<1>8. r[j + 5].state1 = "VERSION_HTTPMAJ" /\ Unset(r, j + 5)
  BY <1>4, <1>7, HttpRead
<1>9. r[b].state1 = "VERSION_HTTPMAJ" /\ r[b].major = Value(Between(j + 6, d - 1)) /\ r[b].minor = 0
  <2>1. a + 1 = j + 6 /\ a \in First .. L /\ b \in Nat /\ a <= b /\ b <= L /\ b < Ending
    BY <1>1, <1>3, <1>4
  <2>2. r[a].state1 = InNumber("major") /\ r[a]["major"] = 0 /\ r[a]["minor"] = 0 /\ Digits(Between(a + 1, b))
    BY <1>8, <2>1 DEF InNumber, Unset
  <2> HIDE DEF a, b, L
  <2>3. r[b].state1 = InNumber("major") /\ r[b]["major"] = Value(Between(a + 1, b)) /\ r[b][OtherNumber("major")] = r[a][OtherNumber("major")]
    <3> DEFINE field == "major"
    <3>1. field \in {"major", "minor"} /\ r[a].state1 = InNumber(field) /\ r[a][field] = 0
      BY <2>2
    <3> HIDE DEF field
    <3>2. r[b].state1 = InNumber(field) /\ r[b][field] = Value(Between(a + 1, b)) /\ r[b][OtherNumber(field)] = r[a][OtherNumber(field)]
      BY <2>1, <2>2, <3>1, NumberRead DEF L
    <3>3. QED
      BY <3>2 DEF field
  <2>4. Value(Between(a + 1, b)) = Value(Between(j + 6, d - 1))
    BY <2>1 DEF b
  <2>5. QED
    BY <2>2, <2>3, <2>4 DEF InNumber, OtherNumber
<1>10. r[d].state1 = "VERSION_HTTPMIN" /\ r[d].major = Value(Between(j + 6, d - 1)) /\ r[d].minor = 0
  <2> DEFINE h == r[b]
             g == r[b + 1]
             c == line[b + 1]
  <2>1. b \in First .. L - 1 /\ b + 1 < Ending /\ b + 1 = d
    BY <1>1, <1>3, <1>4
  <2>2. g = NextByte(h, c) /\ c \in ByteSet /\ HttpHeader(h)
    <3> HIDE DEF b
    <3>1. QED
      BY <2>1, StepIs
  <2>3. Code[c] = 46
    BY <2>1
  <2>4. g = r[d]
    BY <2>1
  <2>5. h.state1 = "VERSION_HTTPMAJ" /\ h.major = Value(Between(j + 6, d - 1)) /\ h.minor = 0
    BY <1>9
  <2> HIDE DEF h, g, c
  <2>6. g = Number(h, "major", c)
    BY <2>2, <2>5, WantedIs DEF NextByte, VersionStates
  <2>7. g.state1 = "VERSION_HTTPMIN" /\ Moved(h, g)
    BY <2>2, <2>3, <2>5, <2>6, NumberIs
  <2>8. QED
    BY <2>4, <2>5, <2>7 DEF Moved
<1>11. r[e].state1 = "VERSION_HTTPMIN" /\ r[e].major = Value(Between(j + 6, d - 1)) /\ r[e].minor = Value(Between(d + 1, Stop))
  <2> DEFINE field == "minor"
  <2>1. d \in First .. L /\ e \in Nat /\ d <= e /\ e <= L /\ e < Ending
    BY <1>1, <1>3, <1>4
  <2>2. field \in {"major", "minor"} /\ r[d].state1 = InNumber(field) /\ r[d][field] = 0 /\ Digits(Between(d + 1, e))
    BY <1>10 DEF InNumber, e
  <2> HIDE DEF field
  <2>3. r[e].state1 = InNumber(field) /\ r[e][field] = Value(Between(d + 1, e)) /\ r[e][OtherNumber(field)] = r[d][OtherNumber(field)]
    BY <2>1, <2>2, NumberRead
  <2>4. QED
    BY <1>10, <2>3 DEF InNumber, OtherNumber, field, e
<1> DEFINE z == Ending - 1
<1>12. z \in First .. L - 1 /\ z + 1 = Ending /\ z \in Nat
  BY <1>1
<1>13. r[z].state1 = "VERSION_HTTPMIN" /\ r[z].major = r[e].major /\ r[z].minor = r[e].minor
  <2>1. CASE Code[line[z]] = CR
    <3> DEFINE h == r[e]
               g == r[e + 1]
               c == line[e + 1]
    <3>1. e + 1 = z /\ e \in First .. L - 1 /\ e + 1 < Ending
      BY <1>1, <1>2, <1>4, <2>1
    <3>2. g = NextByte(h, c) /\ c \in ByteSet /\ HttpHeader(h)
      BY <3>1, StepIs
    <3>3. Code[c] = CR /\ g = r[z] /\ h.state1 = "VERSION_HTTPMIN"
      BY <1>11, <2>1, <3>1
    <3> HIDE DEF h, g, c
    <3>4. g = Number(h, "minor", c)
      BY <3>2, <3>3, WantedIs DEF NextByte, VersionStates
    <3>5. g = h
      BY <3>2, <3>3, <3>4, NumberIs
    <3>6. QED
      BY <3>3, <3>5 DEF h
  <2>2. CASE Code[line[z]] # CR
    <3>1. e = z
      BY <1>2, <2>2
    <3>2. QED
      BY <1>11, <3>1
  <2>3. QED
    BY <2>1, <2>2
<1>14. r[Ending].major = r[z].major /\ r[Ending].minor = r[z].minor
  <2> DEFINE h == r[z]
             g == r[z + 1]
             c == line[z + 1]
  <2>1. z \in 0 .. L - 1 /\ z + 1 \in 1 .. L /\ z \in First .. L /\ z < Ending
    BY <1>1, <1>12
  <2>2. g = NextByte(h, c) /\ c \in ByteSet
    <3> HIDE DEF z
    <3>1. QED
      BY <1>1, <2>1 DEF RunOf
  <2>3. HttpHeader(h) /\ h.state1 \in PathStates
    <3> HIDE DEF z
    <3>1. QED
      BY <2>1, Within
  <2>4. Code[c] = LF /\ g = r[Ending]
    BY <1>1, <1>12
  <2> HIDE DEF h, g, c
  <2>5. g.major = h.major /\ g.minor = h.minor
    <3>1. NextByte(h, c).major = h.major /\ NextByte(h, c).minor = h.minor
      BY <2>2, <2>3, <2>4, ByteRead
    <3>2. QED
      BY <2>2, <3>1, Zenon
  <2>6. QED
    BY <2>4, <2>5 DEF h
<1>15. QED
  BY <1>11, <1>13, <1>14

\* What the parser says of a line that was given to it.
LEMMA RunParsed ==
  ASSUME line \in Seq(ByteSet), methods = Compiled(Methods), NEW r, RunOf(r, line), hdr = r[Len(line)]
  PROVE  LineParsed
<1> DEFINE L == Len(line)
<1>1. PICK lab : Ready(Methods, methods, lab)
  BY CompiledReady, MethodsKnown, MethodsAssumption DEF HasMethods
<1> SUFFICES ASSUME First <= L
             PROVE  /\ hdr.state1 = "EOL" <=> Ending <= L
                    /\ hdr.state1 = "EOL" =>
                         /\ \A i \in First + 1 .. Ending - 1 :
                              Space(line[i]) /\ (\A k \in First .. i - 1 : ~Space(line[k])) =>
                                hdr.method = MethodOf(Between(First, i - 1))
                         /\ \A i \in First + 1 .. Stop : \A j \in i + 1 .. Stop - 6 : \A d \in j + 6 .. Stop :
                              /\ UriBetween(i, j) /\ Codes(Between(j + 1, j + 5)) = Http /\ Code[line[d]] = 46
                              /\ Digits(Between(j + 6, d - 1)) /\ Digits(Between(d + 1, Stop))
                              => hdr.major = Value(Between(j + 6, d - 1)) /\ hdr.minor = Value(Between(d + 1, Stop))
  BY DEF LineParsed
<1>2. L \in Nat /\ First \in 1 .. L /\ Ending \in First .. L + 1 /\ L \in First .. L
  BY LineIs
<1>3. hdr.state1 = "EOL" <=> Ending <= L
  <2>1. IF L < Ending THEN r[L].state1 \in PathStates ELSE r[L].state1 = "EOL"
    <3> HIDE DEF L
    <3>1. QED
      BY <1>2, Within DEF L
  <2>2. QED
    BY <1>2, <2>1 DEF PathStates
<1>4. SUFFICES ASSUME Ending <= L
      PROVE  /\ \A i \in First + 1 .. Ending - 1 :
                  Space(line[i]) /\ (\A k \in First .. i - 1 : ~Space(line[k])) =>
                    hdr.method = MethodOf(Between(First, i - 1))
             /\ \A i \in First + 1 .. Stop : \A j \in i + 1 .. Stop - 6 : \A d \in j + 6 .. Stop :
                  /\ UriBetween(i, j) /\ Codes(Between(j + 1, j + 5)) = Http /\ Code[line[d]] = 46
                  /\ Digits(Between(j + 6, d - 1)) /\ Digits(Between(d + 1, Stop))
                  => hdr.major = Value(Between(j + 6, d - 1)) /\ hdr.minor = Value(Between(d + 1, Stop))
  BY <1>3
<1>5. hdr = r[Ending]
  <2>1. L \in Ending .. L
    BY <1>2, <1>4
  <2>2. QED
    BY <2>1, Behind
<1>6. ASSUME NEW i \in First + 1 .. Ending - 1, Space(line[i]), \A k \in First .. i - 1 : ~Space(line[k])
      PROVE  hdr.method = MethodOf(Between(First, i - 1))
  <2>1. i \in First + 1 .. L /\ i < Ending /\ i \in First .. L /\ L \in i .. L
    BY <1>2, <1>4
  <2>2. r[i].state1 = "SPACE1" /\ r[i].method = MethodOf(Between(First, i - 1))
    BY <1>1, <1>6, <2>1, WordDone
  <2>3. r[L].method = r[i].method
    BY <2>1, <2>2, MethodStays
  <2>4. QED
    BY <2>2, <2>3
<1>7. ASSUME NEW i \in First + 1 .. Stop, NEW j \in i + 1 .. Stop - 6, NEW d \in j + 6 .. Stop,
             UriBetween(i, j), Codes(Between(j + 1, j + 5)) = Http, Code[line[d]] = 46,
             Digits(Between(j + 6, d - 1)), Digits(Between(d + 1, Stop))
      PROVE  hdr.major = Value(Between(j + 6, d - 1)) /\ hdr.minor = Value(Between(d + 1, Stop))
  <2>1. r[Ending].major = Value(Between(j + 6, d - 1)) /\ r[Ending].minor = Value(Between(d + 1, Stop))
    BY <1>1, <1>4, <1>7, VersionRead
  <2>2. QED
    BY <1>5, <2>1
<1>8. QED
  BY <1>6, <1>7

(***************************************************************************)
(* The parser.                                                             *)
(***************************************************************************)
BytesLoop(n, q, h, px) == q[0] = h /\ \A i \in 0 .. n - 1 : q[i + 1] = NextByte(q[i], px[i + 1])

\* The bytes of a piece are read one after the other.
LEMMA BytesSteps ==
  ASSUME NEW h, NEW px, Len(px) \in Nat
  PROVE  \E q : BytesLoop(Len(px), q, h, px) /\ NextBytes(h, px) = q[Len(px)]
<1> DEFINE F(n, r) == r = [i \in 0 .. n |-> IF i = 0 THEN h ELSE NextByte(r[i - 1], px[i])]
           T == {n \in Nat : \E r : F(n, r)}
<1>1. 0 \in T
  <2>1. F(0, [i \in 0 .. 0 |-> h])
    OBVIOUS
  <2>2. QED
    BY <2>1
<1>2. ASSUME NEW n \in Nat, n \in T PROVE n + 1 \in T
  <2>1. PICK r : F(n, r)
    BY <1>2
  <2> DEFINE q == [i \in 0 .. n + 1 |-> IF i = n + 1 THEN NextByte(r[n], px[n + 1]) ELSE r[i]]
  <2>2. ASSUME NEW i \in 0 .. n + 1
        PROVE  q[i] = IF i = 0 THEN h ELSE NextByte(q[i - 1], px[i])
    <3>1. CASE i = n + 1
      <4>1. q[i] = NextByte(r[n], px[n + 1]) /\ i # 0 /\ i - 1 = n /\ n \in 0 .. n + 1 /\ n # n + 1
        BY <3>1
      <4>2. q[n] = r[n]
        BY <4>1
      <4> HIDE DEF q
      <4>3. QED
        BY <3>1, <4>1, <4>2
    <3>2. CASE i \in 0 .. n
      <4>1. i # n + 1 /\ i \in 0 .. n + 1 /\ (i # 0 => i - 1 \in 0 .. n + 1 /\ i - 1 # n + 1)
        BY <3>2
      <4>2. q[i] = r[i] /\ (i # 0 => q[i - 1] = r[i - 1])
        BY <4>1
      <4>3. r[i] = IF i = 0 THEN h ELSE NextByte(r[i - 1], px[i])
        BY <2>1, <3>2
      <4> HIDE DEF q
      <4>4. QED
        BY <4>2, <4>3
    <3>3. i = n + 1 \/ i \in 0 .. n
      OBVIOUS
    <3> HIDE DEF q
    <3>4. QED
      BY <3>1, <3>2, <3>3
  <2>3. F(n + 1, q)
    BY <2>2
  <2> HIDE DEF F, q
  <2>4. QED
    BY <2>3
<1> DEFINE N == Len(px)
           w == CHOOSE r : F(N, r)
<1>3. N \in T
  BY <1>1, <1>2, Induction
<1>4. F(N, w)
  BY <1>3
<1>5. NextBytes(h, px) = w[N]
  BY DEF NextBytes
<1>6. BytesLoop(N, w, h, px)
  <2> HIDE DEF w, N
  <2>1. N \in Nat
    BY DEF N
  <2>2. w = [i \in 0 .. N |-> IF i = 0 THEN h ELSE NextByte(w[i - 1], px[i])]
    BY <1>4
  <2>3. w[0] = h
    BY <2>1, <2>2
  <2>4. ASSUME NEW i \in 0 .. N - 1 PROVE w[i + 1] = NextByte(w[i], px[i + 1])
    <3>1. i + 1 \in 0 .. N /\ i + 1 # 0 /\ i + 1 - 1 = i
      BY <2>1
    <3> DEFINE j == i + 1
    <3> HIDE DEF j
    <3>2. w[j] = NextByte(w[j - 1], px[j])
      BY <2>2, <3>1 DEF j
    <3>3. QED
      BY <3>1, <3>2 DEF j
  <2>5. QED
    BY <2>3, <2>4 DEF BytesLoop
<1>7. QED
  <2> HIDE DEF w
  <2>1. QED
    BY <1>5, <1>6

\* A piece behind a line is read as if it belonged to it.
LEMMA RunLonger ==
  ASSUME NEW t \in Seq(ByteSet), NEW px \in Seq(ByteSet), NEW r, RunOf(r, t)
  PROVE  \E q : RunOf(q, t \o px) /\ q[Len(t \o px)] = NextBytes(r[Len(t)], px)
<1> DEFINE m == Len(t)
           n == Len(px)
           u == t \o px
           B == ByteSet
<1>1. m \in Nat /\ n \in Nat
  BY SeqIs
<1>2. PICK p : BytesLoop(n, p, r[m], px) /\ NextBytes(r[m], px) = p[n]
  BY <1>1, BytesSteps
<1>3. t \in Seq(B) /\ px \in Seq(B)
  OBVIOUS
<1> HIDE DEF B
<1>4. Len(u) = m + n /\ (\A i \in 1 .. m : u[i] = t[i])
  BY <1>3, Joined
<1>5. \A i \in 1 .. n : u[m + i] = px[i]
  BY <1>3, Joined
<1> HIDE DEF u, m, n
<1> DEFINE q == [i \in 0 .. m + n |-> IF i <= m THEN r[i] ELSE p[i - m]]
<1>6. p[0] = r[m] /\ \A i \in 0 .. n - 1 : p[i + 1] = NextByte(p[i], px[i + 1])
  BY <1>2 DEF BytesLoop
<1>7. (\A i \in 0 .. m : q[i] = r[i]) /\ \A i \in 0 .. n : q[m + i] = p[i]
  <2>1. ASSUME NEW i \in 0 .. m PROVE q[i] = r[i]
    BY <1>1
  <2>2. ASSUME NEW i \in 0 .. n PROVE q[m + i] = p[i]
    <3>1. CASE i = 0
      BY <1>1, <1>6, <3>1
    <3>2. CASE i # 0
      <4>1. m + i \in 0 .. m + n /\ ~(m + i <= m) /\ (m + i) - m = i
        BY <1>1, <3>2
      <4>2. QED
        BY <4>1
    <3>3. QED
      BY <3>1, <3>2
  <2>3. QED
    BY <2>1, <2>2
<1> HIDE DEF q
<1>8. r[0] = Zeroed /\ \A i \in 0 .. m - 1 : r[i + 1] = NextByte(r[i], t[i + 1])
  BY DEF RunOf, m
<1>9. q[0] = Zeroed
  BY <1>1, <1>7, <1>8
<1>10. ASSUME NEW k \in 0 .. m + n - 1 PROVE q[k + 1] = NextByte(q[k], u[k + 1])
  <2>1. CASE k < m
    <3>1. k \in 0 .. m - 1 /\ k \in 0 .. m /\ k + 1 \in 0 .. m /\ k + 1 \in 1 .. m
      BY <1>1, <2>1
    <3>2. QED
      BY <1>4, <1>7, <1>8, <3>1
  <2>2. CASE m <= k
    <3> DEFINE i == k - m
    <3>1. i \in 0 .. n - 1 /\ i \in 0 .. n /\ i + 1 \in 0 .. n /\ i + 1 \in 1 .. n /\ m + i = k /\ m + (i + 1) = k + 1
      BY <1>1, <2>2
    <3> HIDE DEF i
    <3>2. q[m + i] = p[i] /\ q[m + (i + 1)] = p[i + 1] /\ u[m + (i + 1)] = px[i + 1] /\ p[i + 1] = NextByte(p[i], px[i + 1])
      BY <1>5, <1>6, <1>7, <3>1
    <3>3. QED
      BY <3>1, <3>2
  <2>3. QED
    BY <1>1, <2>1, <2>2
<1>11. RunOf(q, u)
  <2>1. ASSUME NEW k \in 0 .. Len(u) - 1 PROVE q[k + 1] = NextByte(q[k], u[k + 1])
    <3>1. k \in 0 .. m + n - 1
      BY <1>1, <1>4
    <3>2. QED
      BY <1>10, <3>1
  <2>2. QED
    BY <1>9, <2>1 DEF RunOf
<1>12. q[Len(u)] = NextBytes(r[m], px)
  BY <1>1, <1>2, <1>4, <1>7
<1>13. QED
  BY <1>11, <1>12 DEF u, m

\* The header is that of the line read so far.
HttpInv ==
  /\ line \in Seq(ByteSet)
  /\ parser = "created" => hdr = Zeroed /\ line = <<>>
  /\ parser = "compiled" => methods = Compiled(Methods) /\ \E r : RunOf(r, line) /\ hdr = r[Len(line)]

\* What a byte does depends on nothing but the table.
LEMMA SameTable ==
  ASSUME methods' = methods, NEW CONSTANT h, NEW CONSTANT c
  PROVE  NextByte(h, c)' = NextByte(h, c)
BY DEF NextByte, Method

LEMMA SameRun ==
  ASSUME methods' = methods, NEW CONSTANT r, NEW CONSTANT t
  PROVE  RunOf(r, t)' <=> RunOf(r, t)
BY SameTable DEF RunOf

\* The run over nothing.
LEMMA NoRun == \E r : RunOf(r, <<>>) /\ Zeroed = r[Len(<<>>)]
<1> DEFINE r == [i \in {0} |-> Zeroed]
<1>1. r[0] = Zeroed /\ Len(<<>>) = 0
  OBVIOUS
<1> HIDE DEF r
<1>2. RunOf(r, <<>>)
  BY <1>1 DEF RunOf
<1>3. QED
  BY <1>1, <1>2

LEMMA HttpInvInit == HttpInit => HttpInv
<1> SUFFICES ASSUME HttpInit PROVE HttpInv
  OBVIOUS
<1>1. <<>> \in Seq(ByteSet)
  OBVIOUS
<1>2. QED
  BY <1>1 DEF HttpInit, HttpInv

LEMMA HttpInvNext == HttpInv /\ [HttpNext]_httpVars => HttpInv'
<1> SUFFICES ASSUME HttpInv, [HttpNext]_httpVars PROVE HttpInv'
  OBVIOUS
<1>1. line \in Seq(ByteSet) /\ <<>> \in Seq(ByteSet)
  BY DEF HttpInv
<1>2. CASE HttpCompile
  <2>1. parser = "created" /\ hdr = Zeroed /\ line = <<>> /\ methods' = Compiled(Methods) /\ hdr' = hdr /\ line' = line
        /\ parser' # "created"
    BY <1>2 DEF HttpCompile, HttpInv
  <2>2. (\E r : RunOf(r, line) /\ hdr = r[Len(line)])'
    <3>1. PICK r : r = [i \in {0} |-> Zeroed]
      OBVIOUS
    <3>2. r[0] = Zeroed /\ Len(<<>>) = 0
      BY <3>1
    <3>3. RunOf(r, <<>>)'
      BY <3>2 DEF RunOf
    <3>4. (RunOf(r, line) /\ hdr = r[Len(line)])'
      BY <2>1, <3>2, <3>3
    <3>5. QED
      BY <3>4
  <2>3. QED
    BY <1>1, <2>1, <2>2 DEF HttpInv
<1>3. CASE Feed
  <2>1. parser = "compiled" /\ parser' = parser /\ methods' = methods
    BY <1>3 DEF Feed
  <2>2. PICK p \in Pieces : hdr' = NextBytes(hdr, p) /\ line' = line \o p
    BY <1>3 DEF Feed
  <2>3. p \in Seq(ByteSet)
    BY HttpAssumption DEF ByteSet
  <2>4. methods = Compiled(Methods)
    BY <2>1 DEF HttpInv
  <2>5. PICK r : RunOf(r, line) /\ hdr = r[Len(line)]
    BY <2>1 DEF HttpInv
  <2>6. PICK t : t = line \o p
    OBVIOUS
  <2>7. PICK q : RunOf(q, t) /\ q[Len(t)] = NextBytes(r[Len(line)], p)
    BY <1>1, <2>3, <2>5, <2>6, RunLonger
  <2>8. RunOf(q, t)'
    BY <2>1, <2>7, SameRun
  <2>9. line' = t /\ hdr' = q[Len(t)]
    BY <2>2, <2>5, <2>6, <2>7
  <2>10. t \in Seq(ByteSet)
    BY <1>1, <2>3, <2>6
  <2>11. QED
    BY <2>1, <2>4, <2>8, <2>9, <2>10 DEF HttpInv
<1>4. CASE HttpStart
  <2>1. parser = "compiled" /\ parser' = parser /\ methods' = methods /\ hdr' = Zeroed /\ line' = <<>>
    BY <1>4 DEF HttpStart
  <2>2. methods = Compiled(Methods)
    BY <2>1 DEF HttpInv
  <2>3. PICK r : RunOf(r, <<>>) /\ Zeroed = r[Len(<<>>)]
    BY NoRun
  <2>4. RunOf(r, <<>>)'
    BY <2>1, <2>3, SameRun
  <2>5. QED
    BY <1>1, <2>1, <2>2, <2>3, <2>4 DEF HttpInv
<1>5. CASE UNCHANGED httpVars
  <2>1. parser' = parser /\ methods' = methods /\ hdr' = hdr /\ line' = line
    BY <1>5 DEF httpVars
  <2>2. CASE parser = "compiled"
    <3>1. PICK r : RunOf(r, line) /\ hdr = r[Len(line)]
      BY <2>2 DEF HttpInv
    <3>2. RunOf(r, line)'
      BY <2>1, <3>1, SameRun
    <3>3. QED
      BY <1>1, <2>1, <2>2, <3>1, <3>2 DEF HttpInv
  <2>3. CASE parser # "compiled"
    BY <2>1, <2>3 DEF HttpInv
  <2>4. QED
    BY <2>2, <2>3
<1>6. QED
  BY <1>2, <1>3, <1>4, <1>5 DEF HttpNext

LEMMA HttpInvParsed == HttpInv => LineParsed
<1> SUFFICES ASSUME HttpInv, parser = "compiled" PROVE LineParsed
  BY DEF LineParsed
<1>1. line \in Seq(ByteSet) /\ methods = Compiled(Methods)
  BY DEF HttpInv
<1>2. PICK r : RunOf(r, line) /\ hdr = r[Len(line)]
  BY DEF HttpInv
<1>3. QED
  BY <1>1, <1>2, RunParsed

\* LineParsed, for every table of methods and every line, however it is cut into
\* pieces (httpparse_next()).
THEOREM SpecLineParsed == HttpSpec => []LineParsed
<1>1. HttpInit /\ [][HttpNext]_httpVars => []HttpInv
  BY HttpInvInit, HttpInvNext, PTL
<1>2. QED
  BY <1>1, HttpInvParsed, PTL DEF HttpSpec
=============================================================================
