-------------------------------- MODULE Rand --------------------------------
(* util-rand.c: the random numbers.  A block of ChaCha20's keystream is made in
   advance and handed out byte by byte; stirring XORs the hash of more seed into
   key and nonce.  A byte of keystream is named by the state its block is made
   from and its place in it, so two blocks are the same exactly when their
   states are. *)
EXTENDS Integers, Sequences, FiniteSets

CONSTANTS
  RandBlock,     \* bytes of a block: 64
  Word,          \* values of a word of the counter, a power of two: 2^32
  Seeds,         \* seeds: [id, nonce], the first word of the nonce their hash gives
  Sizes,         \* bytes of one call
  MaxBytes,      \* bound: bytes handed out between two seedings
  MaxStirs,      \* bound: calls of util_rand_stir() between two seedings
  Values,        \* values of a number util_rand_uniform() draws: 2^64
  XorWords(_, _) \* exclusive or of two words

\* No more bytes than 96 bits of counter can name; 2^96 blocks are never drawn.
ASSUME RandAssumption ==
  /\ RandBlock \in Nat \ {0} /\ Word \in Nat \ {0} /\ Values \in Nat
  /\ \A s \in Seeds : s.nonce \in 0 .. Word - 1
  /\ \A a, b \in 0 .. Word - 1 : XorWords(a, b) \in 0 .. Word - 1
  /\ Sizes \subseteq Nat \ {0}
  /\ MaxBytes \in Nat /\ MaxBytes <= Word * Word * Word * RandBlock

VARIABLES
  generator,     \* state: [key, n12, n13, n14], the key as the seeds XORed into it
  block,         \* buf[], the block made from an earlier or the present state
  used,          \* partial
  handed,        \* bytes handed out since the seeding: <<block, index>>
  owed,          \* length - i: what the call of util_rand_bytes() has yet to hand out
  stirs,         \* times stirred since the seeding
  bound          \* upper bound of the draw in progress, or 0

randVars == <<generator, block, used, handed, owed, stirs, bound>>

\* chacha20_cryptomagic()
RandomBlock(g) == [j \in 0 .. RandBlock - 1 |-> <<g, j>>]

\* util_rand_seed(): the digest of the seed becomes key and nonce.
Seeded(seed) == [key |-> {seed.id}, n12 |-> 0, n13 |-> 0, n14 |-> seed.nonce]

RandInit ==
  /\ generator \in {Seeded(s) : s \in Seeds} /\ block = RandomBlock(generator)
  /\ used = 0 /\ handed = <<>> /\ owed = 0 /\ stirs = 0 /\ bound = 0

Idle == owed = 0 /\ bound = 0

Reseed ==
  /\ Idle /\ handed # <<>>
  /\ \E s \in Seeds : generator' = Seeded(s) /\ block' = RandomBlock(Seeded(s))
  /\ used' = 0 /\ handed' = <<>> /\ stirs' = 0 /\ UNCHANGED <<owed, bound>>

\* The block already made stays in use until it is handed out.
Stir ==
  /\ Idle /\ stirs < MaxStirs
  /\ \E s \in Seeds :
       generator' = [generator EXCEPT !.key = (@ \cup {s.id}) \ (@ \cap {s.id}), !.n14 = XorWords(@, s.nonce)]
  /\ stirs' = stirs + 1
  /\ UNCHANGED <<block, used, handed, owed, bound>>

AdvanceShort(g) ==   \* Mutation: a 64-bit counter, as in util-chacha20.c.
  LET n12 == (g.n12 + 1) % Word
  IN [g EXCEPT !.n12 = n12, !.n13 = IF n12 = 0 THEN (@ + 1) % Word ELSE @]

\* The counter runs on into the nonce: 96 bits.
Advance(g) ==
  LET n12 == (g.n12 + 1) % Word
      n13 == IF n12 = 0 THEN (g.n13 + 1) % Word ELSE g.n13
      n14 == IF n12 = 0 /\ n13 = 0 THEN (g.n14 + 1) % Word ELSE g.n14
  IN [g EXCEPT !.n12 = n12, !.n13 = n13, !.n14 = n14]

Call(n) == Len(handed) + n <= MaxBytes /\ owed' = n

\* util_rand_bytes(), once round its loop: to the end of the block at most; then
\* the next block, at once.
HandOut ==
  /\ owed # 0
  /\ LET n    == IF used + owed < RandBlock THEN owed ELSE RandBlock - used
         next == Advance(generator)
     IN /\ handed' = handed \o [k \in 1 .. n |-> block[used + k - 1]]
        /\ owed' = owed - n
        /\ IF used + n >= RandBlock
           THEN generator' = next /\ block' = RandomBlock(next) /\ used' = 0
           ELSE used' = used + n /\ UNCHANGED <<generator, block>>
  /\ UNCHANGED <<stirs, bound>>

\* util_rand_bytes() and util_rand() to util_rand8()
GetBytes ==
  /\ Idle /\ \E n \in Sizes : Call(n)
  /\ UNCHANGED <<generator, block, used, handed, stirs, bound>>

\* What util_rand16_uniform() and util_rand8_uniform() do not reject: -n is an int
\* here, not a word.
AcceptedPromoted(n) == {v \in 0 .. Values - 1 : v >= (-n) % n}

\* The numbers that util_rand_uniform() and util_rand32_uniform() do not reject.
Accepted(n) == {v \in 0 .. Values - 1 : v >= (Values - n) % n}

UniformBegins ==
  /\ Idle
  /\ bound' \in 2 .. Values - 1
  /\ \E n \in Sizes : Call(n)
  /\ UNCHANGED <<generator, block, used, handed, stirs>>

\* A number has been drawn: it is accepted, or another is drawn.
UniformDraws ==
  /\ bound # 0 /\ owed = 0
  /\ \/ Accepted(bound) # {} /\ bound' = 0 /\ UNCHANGED owed
     \/ Accepted(bound) # 0 .. Values - 1 /\ UNCHANGED bound /\ \E n \in Sizes : Call(n)
  /\ UNCHANGED <<generator, block, used, handed, stirs>>

\* util_rand16_uniform(), util_rand8_uniform(): the first number is always accepted.
UniformPromoted ==
  /\ Idle
  /\ \E n \in 2 .. Values - 1 : AcceptedPromoted(n) = 0 .. Values - 1
  /\ \E n \in Sizes : Call(n)
  /\ UNCHANGED <<generator, block, used, handed, stirs, bound>>

RandNext == Reseed \/ Stir \/ GetBytes \/ HandOut \/ UniformBegins \/ UniformDraws \/ UniformPromoted
RandSpec == RandInit /\ [][RandNext]_randVars

-----------------------------------------------------------------------------
\* Whatever the sizes of the calls, the bytes of a block are handed out in order
\* and none is left out; and no byte of keystream is handed out twice: not in
\* the 96 bits of counter of one seeding ("giving us a 96-bit length"), nor
\* when the same seed is stirred in twice, which restores the old key, before
\* the 64-bit part of the counter has come round.
NeverRepeats ==
  /\ \A i \in DOMAIN handed : handed[i][2] = (i - 1) % RandBlock
  /\ \A i, j \in DOMAIN handed :
       \/ (i - 1) \div RandBlock = (j - 1) \div RandBlock <=> handed[i][1] = handed[j][1]
       \/ stirs > 0 /\ Len(handed) > Word * Word * RandBlock

\* Of the numbers that are not rejected, equally many give each result below the
\* bound, and every bound has some: "un-biased, uniform" (util-rand.h:34).  The
\* 16- and 8-bit variants compute the threshold in int, where it is 0.
Unbiased ==
  bound # 0 =>
    LET Giving(r) == Cardinality({v \in Accepted(bound) : v % bound = r})
    IN Giving(0) > 0 /\ \A r \in 0 .. bound - 1 : Giving(r) = Giving(0)
=============================================================================
