------------------------------- MODULE Sha512 -------------------------------
(* util-sha512.c and util-sha512hmac.c: a message arrives in pieces and is
   hashed in blocks.  The compression function is abstracted to the bytes it was
   given: `hashed` is everything compressed so far, so two hashes are equal
   exactly when the same blocks were compressed in the same order.
   A byte is any value; the length field, LenSize bytes in the code, is the
   single element <<n>> at the end of the last block. *)
EXTENDS Naturals, Sequences

CONSTANTS
  BlockSize,     \* bytes of a block: 128
  LenSize,       \* bytes of the length: 8; the code leaves 2 * LenSize for it
  KeySize,       \* bytes an HMAC key is brought to, and those of a digest: 64
  Keys,          \* HMAC keys: sequences of any length
  Data,          \* values of the bytes of a message
  MaxPiece,      \* bound: bytes of one call
  MaxMessage     \* bound: bytes of one message

ASSUME Sha512Assumption ==
  /\ BlockSize \in Nat /\ LenSize \in Nat \ {0} /\ 2 * LenSize < BlockSize
  /\ KeySize \in Nat \ {0} /\ KeySize <= BlockSize
  /\ \A k \in Keys : k \in Seq(Data)

VARIABLES
  hashed,     \* the bytes compressed so far
  buf,        \* buf[0 .. partial-1]
  length,     \* bytes compressed, times 8 in the code
  message,    \* the bytes to be hashed since init(), a padded key among them
  key,        \* ctx->key, or <<>>: no HMAC
  given,      \* the key given to util_sha512hmac_init(), or <<>>
  digest      \* <<>>, or the result of the last final()

sha512Vars == <<hashed, buf, length, message, key, given, digest>>

Smaller(a, b) == IF a <= b THEN a ELSE b
Mark          == <<0, 128>>
Zeroes(n)     == [i \in 1 .. n |-> <<0, 0>>]
LengthOf(n)   == <<<<256, n>>>>

\* sha512_cryptomagic() for each block of `blocks`: the state becomes a function,
\* taken to be injective, of the state it was and the block.
Compress(state, blocks) == state \o blocks

\* util_sha512_update() on the context [hashed, buf, length]: complete what is
\* left over, then take whole blocks from the input, then keep the rest.
UpdateForgetsRest(ctx, px) ==   \* Mutation: the left-over is compressed before it is full.
  LET n == IF ctx.buf # <<>> THEN Smaller(Len(px), BlockSize - Len(ctx.buf)) ELSE 0
      left  == ctx.buf \o SubSeq(px, 1, n)
      whole == n + ((Len(px) - n) \div BlockSize) * BlockSize
  IN [hashed |-> Compress(ctx.hashed, left \o SubSeq(px, n + 1, whole)),
      buf    |-> SubSeq(px, whole + 1, Len(px)),
      length |-> ctx.length + Len(left) + whole - n]

Update(ctx, px) ==
  LET n     == IF ctx.buf # <<>> THEN Smaller(Len(px), BlockSize - Len(ctx.buf)) ELSE 0
      left  == ctx.buf \o SubSeq(px, 1, n)
      full  == Len(left) = BlockSize
      whole == n + ((Len(px) - n) \div BlockSize) * BlockSize
  IN [hashed |-> Compress(ctx.hashed, (IF full THEN left ELSE <<>>) \o SubSeq(px, n + 1, whole)),
      buf    |-> (IF full THEN <<>> ELSE left) \o SubSeq(px, whole + 1, Len(px)),
      length |-> ctx.length + (IF full THEN BlockSize ELSE 0) + whole - n]

\* util_sha512_final(): the bit 1, zeroes, and the length at the end of a block,
\* of an additional block when there is no room for it.
FinalRoomForOne(ctx) ==   \* Mutation: only the length's own bytes are reserved.
  LET total == ctx.length + Len(ctx.buf)
      ended == Append(ctx.buf, Mark)
      over  == Len(ended) > BlockSize - LenSize + 1
      first == IF over THEN ended \o Zeroes(BlockSize - Len(ended)) ELSE <<>>
      rest  == IF over THEN <<>> ELSE ended
  IN Compress(ctx.hashed, first \o rest \o Zeroes(BlockSize - LenSize - Len(rest)) \o LengthOf(total))

Final(ctx) ==
  LET total == ctx.length + Len(ctx.buf)
      ended == Append(ctx.buf, Mark)
      over  == Len(ended) > BlockSize - 2 * LenSize
      first == IF over THEN ended \o Zeroes(BlockSize - Len(ended)) ELSE <<>>
      rest  == IF over THEN <<>> ELSE ended
  IN Compress(ctx.hashed, first \o rest \o Zeroes(BlockSize - LenSize - Len(rest)) \o LengthOf(total))

\* FIPS 180-4, 5.1.2: the message, a bit 1, the fewest zeroes that leave room
\* for a length of 2 * LenSize bytes, and that length.
Padded(m) ==
  LET used == (Len(m) + 1 + 2 * LenSize) % BlockSize
  IN m \o <<Mark>> \o Zeroes((IF used = 0 THEN 0 ELSE BlockSize - used) + LenSize) \o LengthOf(Len(m))

Fresh == [hashed |-> <<>>, buf |-> <<>>, length |-> 0]

\* The 64 bytes of a digest.
Bytes(d) == [i \in 1 .. KeySize |-> <<512 + i, d>>]

\* util_sha512(): the digest of one buffer.
Hash(px) == Final(Update(Fresh, px))

Raw(values) == [i \in 1 .. Len(values) |-> <<0, values[i]>>]

\* What util_sha512hmac_init() leaves in ctx->key.
KeyOf(k) ==
  IF Len(k) <= KeySize THEN Raw(k) \o Zeroes(KeySize - Len(k)) ELSE Bytes(Hash(Raw(k)))

\* The bytes of ctx->key XORed with 0x36 or 0x5c.
Pad(block, x) == [i \in 1 .. KeySize |-> <<x, block[i]>>]

\* The key that is meant: a long one is replaced by its digest.
Brought(k) ==
  IF Len(k) <= KeySize THEN Raw(k) \o Zeroes(KeySize - Len(k)) ELSE Bytes(Padded(Raw(k)))

Context == [hashed |-> hashed, buf |-> buf, length |-> length]

Become(ctx) == hashed' = ctx.hashed /\ buf' = ctx.buf /\ length' = ctx.length

Sha512Init ==
  /\ hashed = <<>> /\ buf = <<>> /\ length = 0 /\ message = <<>>
  /\ key = <<>> /\ given = <<>> /\ digest = <<>>

\* util_sha512_update(), util_sha512hmac_update()
Add ==
  /\ digest = <<>>
  /\ \E n \in 0 .. MaxPiece : \E values \in [1 .. n -> Data] :
       LET px == [i \in 1 .. n |-> <<0, values[i]>>] IN
       /\ Len(message) + n <= MaxMessage
       /\ Become(Update(Context, px)) /\ message' = message \o px
  /\ UNCHANGED <<key, given, digest>>

Finish ==
  /\ digest = <<>> /\ key = <<>>
  /\ digest' = Final(Context)
  /\ Become(Fresh)
  /\ UNCHANGED <<message, key, given>>

\* util_sha512hmac_final(): the outer hash of the padded key and the inner digest.
HmacFinish ==
  /\ digest = <<>> /\ key # <<>>
  /\ digest' = Final(Update(Update(Fresh, Pad(key, 92)), Bytes(Final(Context))))
  /\ Become(Fresh)
  /\ UNCHANGED <<message, key, given>>

Begin ==
  /\ digest # <<>>
  /\ Become(Fresh) /\ message' = <<>> /\ key' = <<>> /\ given' = <<>> /\ digest' = <<>>

\* util_sha512hmac_init(): the inner hash starts with the padded key.
HmacBegin ==
  /\ digest # <<>>
  /\ \E k \in Keys :
       /\ given' = k
       /\ key' = KeyOf(k)
       /\ Become(Update(Fresh, Pad(KeyOf(k), 54))) /\ message' = Pad(Brought(k), 54)
  /\ digest' = <<>>

Sha512Next == Add \/ Finish \/ HmacFinish \/ Begin \/ HmacBegin

Sha512Spec == Sha512Init /\ [][Sha512Next]_sha512Vars

-----------------------------------------------------------------------------
\* Into whatever pieces a message is cut, and wherever its end falls in a
\* block, the compressed blocks are the padded message (util_sha512_update(),
\* util_sha512_final()); an HMAC is the hash of the outer key and the hash of
\* the inner key and the message (util_sha512hmac_*), each key KeySize bytes and
\* made of the key given, or of its digest when it is longer than that.
DigestOfMessage ==
  digest # <<>> =>
    digest = IF key = <<>> THEN Padded(message)
             ELSE Padded(Pad(Brought(given), 92) \o Bytes(Padded(message)))

\* The key as util-sha512hmac.c:21-23 says it: "If it's shorter than our
\* blocksize, it must be padded with zeroes.  If it's longer than our blocksize,
\* we'll just hash it down to our size".
Filled(k) ==
  LET block == IF Len(k) <= BlockSize THEN Raw(k) ELSE Bytes(Padded(Raw(k)))
  IN block \o Zeroes(BlockSize - Len(block))

\* An HMAC is the one of a key filled up to a block of the hash (lines 21-39 and
\* 64-72).  The code fills it up to the 64 bytes of a digest instead, and hashes
\* the keys of 65 to 128 bytes too.
HmacOfBlockKey ==
  digest # <<>> /\ key # <<>> =>
    LET masked(x) == [i \in 1 .. BlockSize |-> <<x, Filled(given)[i]>>]
        rest      == SubSeq(message, KeySize + 1, Len(message))
    IN digest = Padded(masked(92) \o Bytes(Padded(masked(54) \o rest)))

\* What is compressed and what is left over are the message so far: nothing is
\* lost, repeated or compressed before a block is full (util_sha512_update()).
Streamed ==
  digest = <<>> =>
    /\ hashed \o buf = message
    /\ length = Len(hashed) /\ Len(hashed) % BlockSize = 0 /\ Len(buf) < BlockSize
=============================================================================
