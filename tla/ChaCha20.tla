------------------------------ MODULE ChaCha20 ------------------------------
(* util-chacha20.c: a message is encrypted in pieces, decrypted in other pieces
   and read at any offset.  The keystream is abstract: a byte of it is named by
   the block counter it comes from and its place in the block, and a byte of
   text is <<value, masks>>, the keystream bytes it is XORed with. *)
EXTENDS Naturals, Sequences

CONSTANTS
  Block,     \* bytes of a block of keystream: 64
  Limb,      \* values of a word of the counter: 2^32
  MaxPlain,   \* bound: bytes of the message, at most what the counter can name
  MaxCall    \* bound: bytes of one call

ASSUME ChaChaAssumption ==
  /\ Block \in Nat \ {0} /\ Limb \in Nat \ {0} /\ MaxPlain \in Nat /\ MaxPlain <= Limb * Limb * Block

VARIABLES
  keyed,     \* the key and nonce had the lengths 32 and 8
  context,   \* of each user: [hi, lo, partial], state[13], state[12] and partial
  user,      \* the user of the last call, of encrypt(), decrypt() or crypt()
  unread,    \* what that call has yet to read; byte i of the message is i
  texts,     \* all that each user was given, of crypt() in its last call
  start      \* where crypt() was told to begin

chachaVars == <<keyed, context, user, unread, texts, start>>

Users == {"encrypt", "decrypt", "crypt"}

Masked(byte, ks) == <<byte[1], (byte[2] \cup {ks}) \ (byte[2] \cap {ks})>>

\* With a wrong length the context is marked so that nothing is encrypted.
ContextFor(ok) == [hi |-> 0, lo |-> 0, partial |-> IF ok THEN 0 ELSE Block]

NextBlockLow(ctx) == [ctx EXCEPT !.lo = (@ + 1) % Limb, !.partial = 0]   \* Mutation: no carry.

NextBlock(ctx) ==
  LET lo == (ctx.lo + 1) % Limb
  IN [hi |-> (ctx.hi + (IF lo = 0 THEN 1 ELSE 0)) % Limb, lo |-> lo, partial |-> 0]

\* chacha20_cryptomagic(): the block that key, nonce and counter give.
Keystream(ctx) == [j \in 0 .. Block - 1 |-> <<ctx.hi, ctx.lo, j>>]

\* util_chacha20_crypt(): the context for any offset.
ContextAt(place) ==
  LET counter == place \div Block
  IN [hi |-> (counter \div Limb) % Limb, lo |-> counter % Limb, partial |-> place % Block]

Plain(i, n) == [k \in 1 .. n |-> <<i + k, {}>>]

ChaChaInit ==
  /\ keyed \in BOOLEAN
  /\ context = [u \in Users |-> ContextFor(keyed)] /\ texts = [u \in Users |-> <<>>]
  /\ user = "encrypt" /\ unread = <<>> /\ start = 0

CallEncrypt ==
  /\ unread = <<>> /\ user' = "encrypt"
  /\ \E n \in 1 .. MaxCall :
       /\ Len(texts["encrypt"]) + n <= MaxPlain
       /\ unread' = Plain(Len(texts["encrypt"]), n)
  /\ UNCHANGED <<keyed, context, texts, start>>

CallDecrypt ==
  /\ unread = <<>> /\ user' = "decrypt"
  /\ LET done == Len(texts["decrypt"])
     IN \E n \in 1 .. Len(texts["encrypt"]) - done :
          unread' = SubSeq(texts["encrypt"], done + 1, done + n)
  /\ UNCHANGED <<keyed, context, texts, start>>

\* A context of its own for each call; key and nonce have their lengths.
CallCrypt ==
  /\ keyed /\ unread = <<>> /\ user' = "crypt"
  /\ \E last \in 1 .. Len(texts["encrypt"]) :
       /\ start' \in 0 .. last - 1
       /\ unread' = SubSeq(texts["encrypt"], start' + 1, last)
  /\ context' = [context EXCEPT !["crypt"] = ContextAt(start')]
  /\ texts' = [texts EXCEPT !["crypt"] = <<>>]
  /\ UNCHANGED keyed

\* util_chacha20_encrypt() of a context that was not initialized
Discard ==
  /\ unread # <<>> /\ context[user].partial >= Block
  /\ texts' = [texts EXCEPT ![user] = @ \o [i \in DOMAIN unread |-> <<0, {}>>]]
  /\ unread' = <<>>
  /\ UNCHANGED <<keyed, context, user, start>>

\* Once round the loop of util_chacha20_encrypt(): the rest of the current block, a
\* whole one, or the beginning of the last; partial remembers how much is used.
EncryptBlock ==
  /\ unread # <<>> /\ context[user].partial < Block
  /\ LET ctx  == context[user]
         jlen == IF ctx.partial + Len(unread) < Block THEN ctx.partial + Len(unread) ELSE Block
         n    == jlen - ctx.partial
     IN /\ texts' = [texts EXCEPT ![user] =
                        @ \o [i \in 1 .. n |-> Masked(unread[i], Keystream(ctx)[ctx.partial + i - 1])]]
        /\ unread' = SubSeq(unread, n + 1, Len(unread))
        /\ context' = [context EXCEPT ![user] =
                         IF jlen # Block THEN [ctx EXCEPT !.partial = jlen] ELSE NextBlock(ctx)]
  /\ UNCHANGED <<keyed, user, start>>

ChaChaNext == CallEncrypt \/ CallDecrypt \/ CallCrypt \/ Discard \/ EncryptBlock
ChaChaSpec == ChaChaInit /\ [][ChaChaNext]_chachaVars

-----------------------------------------------------------------------------
\* However the calls cut the text, and wherever they begin in a block: what was
\* decrypted is the message, any slice of the ciphertext is decrypted by
\* util_chacha20_crypt() at its offset, and no two bytes were encrypted with the
\* same byte of keystream, over the whole range of the two-word counter.  With
\* a rejected key nothing of the message comes out.
RoundTrip ==
  LET ciphertext == texts["encrypt"]
  IN IF keyed
     THEN /\ texts["decrypt"] = Plain(0, Len(texts["decrypt"]))
          /\ texts["crypt"] = Plain(start, Len(texts["crypt"]))
          /\ \A i, j \in DOMAIN ciphertext : i # j => ciphertext[i][2] # ciphertext[j][2]
          /\ \A i \in DOMAIN ciphertext : ciphertext[i][2] # {}
     ELSE \A u \in Users : \A i \in DOMAIN texts[u] : texts[u][i] = <<0, {}>>
=============================================================================
