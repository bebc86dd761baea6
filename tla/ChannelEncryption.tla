--------------------------- MODULE ChannelEncryption ---------------------------
(***************************************************************************)
(* onionreq/channel_encryption.cpp with the primitives of libsodium and    *)
(* OpenSSL taken as ideal.  A key pair goes by the name of its public key, *)
(* and a ciphertext is the record of its scheme, its key and what is       *)
(* inside.  An operation that may throw yields the set of its results,     *)
(* empty when it throws.                                                   *)
(***************************************************************************)
EXTENDS Sequences

CONSTANT NullKey  \* the all-zero key, which crypto_scalarmult rejects

EncryptType == {"aes_cbc", "aes_gcm", "xchacha20"}

to_string(type) ==
  CASE type = "xchacha20" -> "xchacha20"
    [] type = "aes_gcm"   -> "aes-gcm"
    [] type = "aes_cbc"   -> "aes-cbc"

parse_enc_type(name) ==
  IF name \in {"xchacha20", "xchacha20-poly1305"} THEN {"xchacha20"}
  ELSE IF name \in {"aes-gcm", "gcm"} THEN {"aes_gcm"}
  ELSE IF name \in {"aes-cbc", "cbc"} THEN {"aes_cbc"}
  ELSE {}

(* The x25519 secret of one's own key pair and the other's public key is   *)
(* the same for both parties.                                              *)
calculate_shared_secret(own, other) == {own, other}

(* HMAC of the secret, under a salt that is the same for everyone.         *)
derive_symmetric_key(own, other) ==
  [kdf |-> "hmac", dh |-> calculate_shared_secret(own, other), order |-> << >>]

(* Wrong variant, for mutation only: everyone puts their own key first.    *)
xchacha20_own_first(own, other, local_first) ==
  [kdf   |-> "blake2b",
   dh    |-> calculate_shared_secret(own, other),
   order |-> <<own, other>>]

(* Hash of the secret and of both public keys, the client's first.         *)
xchacha20_shared_key(own, other, local_first) ==
  [kdf   |-> "blake2b",
   dh    |-> calculate_shared_secret(own, other),
   order |-> IF local_first THEN <<own, other>> ELSE <<other, own>>]

(* The key that ChannelEncryption{own, server} uses with a peer.           *)
channel_key(type, own, server, peer) ==
  CASE type = "xchacha20" -> xchacha20_shared_key(own, peer, ~server)
    [] type = "aes_gcm"   -> derive_symmetric_key(own, peer)
    [] type = "aes_cbc"   -> [kdf   |-> "none",
                              dh    |-> calculate_shared_secret(own, peer),
                              order |-> << >>]

(* nonce or iv, encrypted data and tag, in one string.                     *)
encrypt(type, own, server, peer, plaintext) ==
  [type |-> type, key |-> channel_key(type, own, server, peer),
   inside |-> plaintext]

(* Wrong variant, for mutation only: the tag is not checked.               *)
decrypt_unchecked(type, own, server, peer, c) == {c.inside}

(* Authenticated schemes: only the same scheme and key open a ciphertext.  *)
(* (Without a tag, which only aes_cbc lacks, anything might come out;      *)
(* nothing here encrypts with it.)                                         *)
decrypt(type, own, server, peer, c) ==
  {x \in {c.inside} : /\ peer # NullKey
                      /\ c.type = type
                      /\ c.key = channel_key(type, own, server, peer)}
===============================================================================
