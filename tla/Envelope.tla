------------------------------ MODULE Envelope ------------------------------
(***************************************************************************)
(* The keystore blob: envelope.py over kdf.derive_key and aead.py.         *)
(*                                                                         *)
(* A blob is a sequence of cells: one for each scalar of the header, and   *)
(* one for each byte of the salt, the nonce and the ciphertext, whose      *)
(* lengths are what the offsets of unpack() depend on.  A multi-byte       *)
(* scalar, and the reserved bytes after the KDF parameters, are one cell.  *)
(*                                                                         *)
(* The primitives are ideal: an Argon2id output is a record of everything  *)
(* that was hashed (so equal only for equal inputs), and a sealed message  *)
(* opens only as exactly the cells, key, nonce and associated data it was  *)
(* sealed with.                                                            *)
(***************************************************************************)
EXTENDS Integers, Sequences

CONSTANTS SaltLen,     \* bytes the header reserves for the salt (16)
          NonceLen,    \* aead.NONCE_LEN (12)
          TagLen,      \* bytes AES-GCM appends (16)
          KeyLen,      \* aead.KEY_LEN (32)
          MaxSeedLen,  \* largest value of the seed length byte (255)
          MaxMemory    \* KiB the machine lets argon2 allocate

ASSUME EnvelopeAssumption ==
    /\ SaltLen \in Nat \ {0}
    /\ NonceLen \in Nat \ {0}
    /\ TagLen \in Nat \ {0}
    /\ KeyLen \in Nat \ {0}
    /\ MaxSeedLen \in Nat \ {0}
    /\ MaxMemory \in Nat

MAGIC   == "KST1"
VERSION == 1

\* Cells before the salt: magic, version, kdf_id, five KDF parameters and
\* the reserved bytes.
OffKdf    == 4
OffSalt   == 10
OffNonce  == OffSalt + SaltLen
HeaderLen == OffNonce + NonceLen - 1

Raise(error) == [status |-> error]

-----------------------------------------------------------------------------
(* kdf.derive_key and aead.encrypt / decrypt.                              *)

\* What constructing an Argon2Params accepts, but for its salt_len.
ValidParams(p) ==
    /\ p.time_cost \in 1..10
    /\ p.memory_cost \in 19456..(2^21) /\ p.memory_cost % 8 = 0
    /\ p.parallelism \in 1..16
    /\ p.hash_len \in 16..64
    /\ p.version = 19

\* What argon2's hash_secret_raw accepts; otherwise it raises HashingError.
\* (A salt has at least 8 bytes: Argon2Params.salt_len, or the header's slot.)
Argon2Accepts(params) ==
    /\ params.time_cost >= 1
    /\ params.parallelism \in 1..(2^24 - 1)
    /\ params.memory_cost \in (8 * params.parallelism)..MaxMemory
    /\ params.hash_len >= 4

\* Faulty variant: the stored parameters are not the ones hashed with.
DeriveKeyFixedParams(pw, params, salt) == [password |-> pw, salt |-> salt]

DeriveKey(pw, params, salt) == [password |-> pw, params |-> params, salt |-> salt]

\* AES-GCM's ciphertext and tag, as long as the plaintext plus the tag.
Encrypt(key, nonce, aad, plain) ==
    [j \in 1..(Len(plain) + TagLen) |-> <<"ct", key, nonce, aad, plain, j>>]

\* The plaintext a ciphertext would have to be of.
Sealed(ct) == ct[1][5]

\* Faulty variant: the plaintext is released before the tag is verified.
DecryptsUnverified(key, nonce, aad, ct) ==
    ct[1][1] = "ct" /\ ct[1] = Encrypt(key, nonce, aad, Sealed(ct))[1]

Decrypts(key, nonce, aad, ct) ==
    /\ ct[1][1] = "ct"
    /\ ct = Encrypt(key, nonce, aad, Sealed(ct))

-----------------------------------------------------------------------------
(* Envelope.pack.  `params` are the fields the header stores; params'      *)
(* salt_len, which it does not store, is the length of `salt`.             *)

PackPlaintext(seed, created_at, flags) ==
    <<Len(seed)>> \o seed \o <<created_at, flags, 0>>

PackHeader(kdf_id, p) ==
    <<MAGIC, VERSION, kdf_id,
      p.time_cost, p.memory_cost, p.parallelism, p.hash_len, p.version, 0>>

Pack(seed, pw, params, kdf_id, flags, created_at, salt, nonce) ==
    IF kdf_id # 1 \/ Len(seed) > MaxSeedLen \/ params.hash_len # KeyLen
      THEN Raise("ValueError")
    ELSE IF ~Argon2Accepts(params)
      THEN Raise("HashingError")
    ELSE [status |-> "ok",
          blob   |-> PackHeader(kdf_id, params) \o salt \o nonce
                       \o Encrypt(DeriveKey(pw, params, salt), nonce,
                                  <<VERSION, kdf_id>>,
                                  PackPlaintext(seed, created_at, flags))]

-----------------------------------------------------------------------------
(* Envelope.unpack.                                                        *)

UnpackParams(blob) ==
    [time_cost   |-> blob[OffKdf],     memory_cost |-> blob[OffKdf + 1],
     parallelism |-> blob[OffKdf + 2], hash_len    |-> blob[OffKdf + 3],
     version     |-> blob[OffKdf + 4]]

\* Faulty variant: the slice takes one byte more than the slot.
SaltTooLong(blob) == SubSeq(blob, OffSalt, OffNonce)

Salt(blob) == SubSeq(blob, OffSalt, OffNonce - 1)
Nonce(blob) == SubSeq(blob, OffNonce, HeaderLen)
Ciphertext(blob) == SubSeq(blob, HeaderLen + 1, Len(blob))

\* Envelope._unpack_plaintext: seed length, seed, created_at, flags, reserved.
UnpackPlaintext(plain) ==
    IF Len(plain) < 4 \/ Len(plain) < 4 + plain[1]
      THEN Raise("KeystoreDecryptionError")
    ELSE IF plain[1] = 0
      THEN Raise("ValueError")    \* SecretBytes cannot be empty
    ELSE [status     |-> "ok",
          seed       |-> SubSeq(plain, 2, 1 + plain[1]),
          created_at |-> plain[2 + plain[1]],
          flags      |-> plain[3 + plain[1]]]

Unpack(blob, pw) ==
    IF Len(blob) < HeaderLen + TagLen
      THEN Raise("KeystoreDecryptionError")
    ELSE IF blob[1] # MAGIC \/ blob[2] # VERSION
      THEN Raise("KeystoreVersionError")
    ELSE IF ~Argon2Accepts(UnpackParams(blob))
      THEN Raise("HashingError")
    ELSE IF UnpackParams(blob).hash_len # KeyLen
      THEN Raise("ValueError")
    ELSE IF ~Decrypts(DeriveKey(pw, UnpackParams(blob), Salt(blob)),
                      Nonce(blob), <<blob[2], blob[3]>>, Ciphertext(blob))
      THEN Raise("KeystoreDecryptionError")
    ELSE IF blob[3] # 1
      THEN Raise("KeystoreVersionError")
    ELSE UnpackPlaintext(Sealed(Ciphertext(blob)))
=============================================================================
