------------------------------ MODULE SealedBox -------------------------------
(***************************************************************************)
(* The formats of include/crypto.hpp: secretbox (nonce, tag, ciphertext),  *)
(* box (the same under a key that two parties derive) and sign (signature, *)
(* message).                                                               *)
(*                                                                         *)
(* What OpenSSL computes is a term: a byte of a ciphertext, a tag or a     *)
(* signature names everything it was made from, and equals another one     *)
(* only if that is the same.  A key pair is its owner.  An optional is a   *)
(* sequence of at most one element.                                        *)
(***************************************************************************)
EXTENDS Naturals, Sequences

CONSTANTS NONCE_BYTES, MAC_BYTES, SIGNATURE_BYTES

ASSUME SizesAssumption == {NONCE_BYTES, MAC_BYTES, SIGNATURE_BYTES} \subseteq Nat \ {0}

Drop(s, n) == SubSeq(s, n + 1, Len(s))

\* AES-256-GCM: a stream cipher and a tag over its output.
Cipher(key, iv, text) == [i \in 1..Len(text) |-> <<"ct", key, iv, i, text[i]>>]

Decipher(ct) == [i \in 1..Len(ct) |-> ct[i][5]]

Tag(key, iv, ct) == [i \in 1..MAC_BYTES |-> <<"tag", i, key, iv, ct>>]

secretbox_encrypt(plaintext, key, iv) ==
  LET ct == Cipher(key, iv, plaintext) IN iv \o Tag(key, iv, ct) \o ct

\* A bug SealedOpens must catch: an empty plaintext counts as too short.
TooShortOrEmpty(c) == Len(c) <= NONCE_BYTES + MAC_BYTES

\* What is too short to hold a nonce and a tag is refused at once.
TooShort(c) == Len(c) < NONCE_BYTES + MAC_BYTES

secretbox_decrypt(c, key) ==
  LET iv  == SubSeq(c, 1, NONCE_BYTES)
      tag == SubSeq(c, NONCE_BYTES + 1, NONCE_BYTES + MAC_BYTES)
      ct  == Drop(c, NONCE_BYTES + MAC_BYTES)
  IN  IF TooShort(c) \/ tag # Tag(key, iv, ct) THEN <<>> ELSE <<Decipher(ct)>>

\* X25519: the secret of one and the public key of the other give the same.
derive_key(pk, sk) == {pk, sk}

box_encrypt(plaintext, recipient, sender, iv) ==
  secretbox_encrypt(plaintext, derive_key(recipient, sender), iv)

box_decrypt(c, sender, recipient) == secretbox_decrypt(c, derive_key(sender, recipient))

\* Ed25519.
sign_detached(message, sk) == [i \in 1..SIGNATURE_BYTES |-> <<"sig", i, sk, message>>]

verify_detached(message, sig, pk) == sig = sign_detached(message, pk)

sign_combined(message, sk) == sign_detached(message, sk) \o message

verify_combined(m, pk) ==
  LET sig == SubSeq(m, 1, SIGNATURE_BYTES)
      msg == Drop(m, SIGNATURE_BYTES)
  IN  IF Len(m) < SIGNATURE_BYTES \/ ~ verify_detached(msg, sig, pk) THEN <<>> ELSE <<msg>>
===============================================================================
