----------------------------- MODULE KeyManager -----------------------------
(***************************************************************************)
(* key_manager and crypto_lib: which key is used for what, and what a      *)
(* ciphertext is good for.                                                 *)
(*                                                                         *)
(* Cryptography is ideal.  HKDF is injective in its salt and its info, and *)
(* a derived key is written as that pair.  HMACs, random nonces and AEAD   *)
(* outputs are fresh values the first time they are asked for: the log     *)
(* that the operators take as a parameter is the sequence of all sealings, *)
(* and nothing but a sealing in it makes a ciphertext that opens.          *)
(***************************************************************************)
EXTENDS FrameCodec

CONSTANTS PtLen,        \* length of each plaintext
          MaxPtLen      \* bound: the longest one

\* Fresh bytes of the i-th sealing; they are no bytes of a field.
Fresh(i, k) == Base + (MaxPtLen + TagSize + NonceSize) * i + k
-----------------------------------------------------------------------------
(* Keys: the master key is fixed                                           *)

Hkdf(salt, info) == [salt |-> salt, info |-> info]

masterAsAeadKey == [salt |-> << >>, info |-> "master"]

deriveAeadKey(r, v) == Hkdf(put_le(r, U32) \o put_le(v, U32), "access-aead-v1")

deriveNonceKey(r, v) == Hkdf(put_le(r, U32) \o put_le(v, U32), "nonce-derivation-v1")

\* Refuses version 0.
deriveCardPepper(v) == Hkdf(put_le(v, U32), "card-pepper-v1")

\* CardIdHasher: the HMAC of a card is named by the card and by the version
\* in its pepper's salt, as the store writes it.
hmacHex(pepper, card) == <<card, get_le(pepper.salt, 0, U32)>>
-----------------------------------------------------------------------------
(* Nonces                                                                  *)

\* 12 of the 24 bytes for ChaCha20, all of them for XChaCha20.
nonceLenFor(cipher) == IF cipher = "chacha20" THEN NonceSize \div 2 ELSE NonceSize

\* The bytes a cipher uses; the generators leave the others zero.
NonceUsed(cipher, n) == [k \in 1..NonceSize |-> IF k <= nonceLenFor(cipher) THEN n[k] ELSE 0]

FreshNonce(i) == [k \in 1..NonceSize |-> Fresh(i, MaxPtLen + TagSize + k - 1)]

\* HmacNonceGenerator: the same key and context give the same nonce.
HmacNonce(log, key, context) ==
    LET Same == {i \in DOMAIN log : log[i].nonceOf = <<key, context>>}
    IN  IF Same = {} THEN FreshNonce(Len(log) + 1)
                     ELSE FreshNonce(CHOOSE i \in Same : \A j \in Same : i <= j)

\* ProtocolAnomalyDetector::nonceEqual, over the bytes the cipher uses.
nonceEqual(cipher, n, m) == NonceUsed(cipher, n) = NonceUsed(cipher, m)
-----------------------------------------------------------------------------
(* SecureAead                                                              *)

\* The same inputs give the same ciphertext and tag.
SameSealing(e, key, cipher, nonce, aad) ==
    /\ e.key = key /\ e.cipher = cipher /\ e.aad = aad
    /\ nonceEqual(cipher, e.nonce, nonce)

sealWithNonce(log, key, cipher, nonce, aad, pt) ==
    LET Same  == {i \in DOMAIN log : SameSealing(log[i], key, cipher, nonce, aad) /\ log[i].pt = pt}
        fresh == Len(log) + 1
        at    == IF Same = {} THEN fresh ELSE CHOOSE i \in Same : \A j \in Same : i <= j
    IN  [key |-> key, cipher |-> cipher, nonce |-> nonce, aad |-> aad, pt |-> pt,
         ct  |-> [k \in 1..PtLen[pt] |-> Fresh(at, k - 1)],
         tag |-> [k \in 1..TagSize |-> Fresh(at, MaxPtLen + k - 1)]]

\* The plaintexts that a ciphertext opens to: at most one, or none when the
\* tag does not verify.
openWithNonce(log, key, cipher, nonce, aad, ct, tag) ==
    {log[i].pt : i \in {i \in DOMAIN log :
        SameSealing(log[i], key, cipher, nonce, aad) /\ log[i].ct = ct /\ log[i].tag = tag}}
=============================================================================
