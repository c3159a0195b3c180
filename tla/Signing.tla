------------------------------ MODULE Signing ------------------------------
(***************************************************************************)
(* Signers and Signature.verify (signing.py), and the Account a Wallet     *)
(* hands out to sign with (keystore.py).                                   *)
(*                                                                         *)
(* libsecp256k1 produces and checks ECDSA signatures in DER, while a       *)
(* Signature carries the fixed-width r || s; the two conversions between   *)
(* them are the code's own, byte by byte, here over bytes 0..Base-1 and    *)
(* components of Width bytes.  The libraries are ideal: they accept what   *)
(* they signed for that key and message, and nothing else.                 *)
(***************************************************************************)
EXTENDS Integers, Sequences, SequencesExt

CONSTANTS Base,        \* values of a byte (256)
          Width,       \* bytes of r and of s (32)
          Components,  \* values r and s take
          Keys, Messages,
          OtherScheme  \* a scheme string the library does not know

\* Base to the k, as a function the provers can be told about.
Power[k \in Nat] == IF k = 0 THEN 1 ELSE Base * Power[k - 1]

ASSUME SigningAssumption ==
    /\ Base \in {2 * b : b \in 1..128}
    /\ Width \in Nat \ {0}
    /\ Components \subseteq 1..(Power[Width] - 1)
    /\ OtherScheme \notin {"ecdsa-secp256k1", "schnorr-secp256k1", "ed25519"}

VARIABLES account,  \* the Account in hand
          sig,      \* the Signature in hand
          issued,   \* history: the one its signer returned, and for what
          signed,   \* history: what the libraries have signed
          asked,    \* the message and public key of the last verify()
          verdict   \* its answer

vars == <<account, sig, issued, signed, asked, verdict>>

Schemes == {"ecdsa-secp256k1", "schnorr-secp256k1", "ed25519"}

\* public_key_bytes(): the three encodings have no value in common.
PublicKey(scheme, key) == <<scheme, key>>

PublicKeys == {PublicKey(scheme, key) : scheme \in Schemes, key \in Keys}

-----------------------------------------------------------------------------
(* libsecp256k1's DER: the shortest big-endian body with the sign bit 0.   *)

Digits(n, k) == [i \in 1..k |-> (n \div Power[k - i]) % Base]

DerLen(n) ==
    CHOOSE k \in 1..(Width + 1) :
        /\ 2 * n < Power[k]
        /\ \A j \in 1..(k - 1) : 2 * n >= Power[j]

DerInteger(n) == <<2, DerLen(n)>> \o Digits(n, DerLen(n))

Der(r, s) ==
    LET body == DerInteger(r) \o DerInteger(s) IN <<48, Len(body)>> \o body

-----------------------------------------------------------------------------
(* The code's conversions.  "error" is any exception they raise.           *)

\* Faulty variant: the component is not padded to its width.
ComponentUnpadded(c) ==
    IF Len(c) = Width + 1 /\ c[1] = 0 THEN Tail(c) ELSE c

\* r[1:] if len(r) == 33 and r[0] == 0; then rjust(32, b"\x00").
Component(c) ==
    LET body == IF Len(c) = Width + 1 /\ c[1] = 0 THEN Tail(c) ELSE c
    IN  [i \in 1..(Width - Len(body)) |-> 0] \o body

\* _der_to_rs, on what libsecp256k1 returns.
DerToRs(der) ==
    LET rlen == der[4]
        soff == 4 + rlen
        slen == der[soff + 2]
        r    == Component(SubSeq(der, 5, 4 + rlen))
        s    == Component(SubSeq(der, soff + 3, soff + 2 + slen))
    IN  IF \/ der[1] # 48 \/ der[2] + 2 # Len(der) \/ der[3] # 2 \/ der[soff + 1] # 2
           \/ Len(r) > Width \/ Len(s) > Width
          THEN <<"error">>
          ELSE r \o s

\* Where encode_int stops stripping zeros: all but the last byte can go.
FirstByte(x) ==
    CHOOSE i \in DOMAIN x :
        /\ \A j \in 1..(i - 1) : x[j] = 0
        /\ x[i] # 0 \/ i = Len(x)

\* Faulty variant: no zero in front of a byte with its high bit set.
EncodeIntUnsigned(x) ==
    LET body == SubSeq(x, FirstByte(x), Len(x)) IN <<2, Len(body)>> \o body

\* encode_int puts a zero back in front of a byte with its high bit set.
EncodeInt(x) ==
    LET body == SubSeq(x, FirstByte(x), Len(x))
        full == IF 2 * body[1] >= Base THEN <<0>> \o body ELSE body
    IN  <<2, Len(full)>> \o full

\* _rs_to_der(raw[:32], raw[32:])
RsToDer(raw) ==
    IF Len(raw) # 2 * Width
      THEN <<"error">>
      ELSE LET body == EncodeInt(SubSeq(raw, 1, Width))
                         \o EncodeInt(SubSeq(raw, Width + 1, 2 * Width))
           IN  <<48, Len(body)>> \o body

-----------------------------------------------------------------------------
\* The library's check, for the bytes it takes: DER for ECDSA.
LibraryAccepts(scheme, pk, msg, bytes) ==
    [scheme |-> scheme, public_key |-> pk, message |-> msg, bytes |-> bytes] \in signed

\* Signature.verify: an exception of the conversion or library means False;
\* for Schnorr only the shape is looked at.
Answer(holds) == IF holds THEN "True" ELSE "False"

Verify(s, msg, pk) ==
    CASE s.scheme = "ecdsa-secp256k1" ->
           Answer(LibraryAccepts(s.scheme, pk, msg, RsToDer(s.raw)))
      [] s.scheme = "schnorr-secp256k1" ->
           Answer(Len(s.raw) = 2 * Width /\ \E i \in DOMAIN s.raw : s.raw[i] # 0)
      [] s.scheme = "ed25519" ->
           Answer(LibraryAccepts(s.scheme, pk, msg, s.raw))
      [] OTHER -> "SignatureError"

-----------------------------------------------------------------------------
None == <<>>

Init ==
    /\ account = None
    /\ sig = None /\ issued = None
    /\ signed = {}
    /\ asked = None /\ verdict = "none"

\* Wallet.derive_account(path, scheme) chooses the signer; a scheme it does
\* not know is a ValueError, and no Account.
DeriveAccount(scheme, key) ==
    /\ account = None
    /\ scheme \in Schemes
    /\ account' = [scheme |-> scheme, key |-> key, public_key |-> PublicKey(scheme, key)]
    /\ UNCHANGED <<sig, issued, signed, asked, verdict>>

\* Secp256kSigner, Secp256kSchnorrSigner and Ed25519Signer .sign(message):
\* the library's bytes, for ECDSA converted from DER.
Sign(msg, r, s) ==
    LET scheme == account.scheme
        bytes  == IF scheme = "ecdsa-secp256k1" THEN Der(r, s)
                  ELSE Digits(r, Width) \o Digits(s, Width)
        pk     == PublicKey(scheme, account.key)
    IN  /\ account # None /\ sig = None
        /\ signed' = {[scheme |-> scheme, public_key |-> pk, message |-> msg,
                       bytes |-> bytes]}
        /\ sig' = [scheme |-> scheme, public_key |-> pk,
                   raw |-> IF scheme = "ecdsa-secp256k1" THEN DerToRs(bytes) ELSE bytes]
        /\ issued' = [sig |-> sig', message |-> msg]
        /\ UNCHANGED <<account, asked, verdict>>

\* Account.sign(message) returns serialize(), the raw bytes alone.
AccountSign(raw) == raw

Receive(s) ==
    /\ sig # None /\ sig = issued.sig
    /\ sig' = s
    /\ asked' = None /\ verdict' = "none"
    /\ UNCHANGED <<account, issued, signed>>

\* Whoever has those bytes only makes a Signature of them again, with the
\* scheme and the public key it takes to be theirs.
Rebuild(scheme, pk) ==
    Receive([scheme |-> scheme, public_key |-> pk, raw |-> AccountSign(sig.raw)])

\* The bytes travel, and arrive cut short or with one changed.
Garble ==
    \/ Receive([sig EXCEPT !.raw = Front(@)])
    \/ \E i \in DOMAIN sig.raw : Receive([sig EXCEPT !.raw[i] = (@ + 1) % Base])

\* Faulty variant: the key the signature carries wins.
VerifyKeyCarried(public_key) == sig.public_key

VerifyKey(public_key) == IF public_key = None THEN sig.public_key ELSE public_key

\* sig.verify(message, public_key), by default with its own public key.
VerifySig(msg, public_key) ==
    /\ sig # None
    /\ asked' = [message |-> msg, public_key |-> public_key]
    /\ verdict' = Verify(sig, msg, VerifyKey(public_key))
    /\ UNCHANGED <<account, sig, issued, signed>>

Next ==
    \/ \E scheme \in Schemes \cup {OtherScheme}, key \in Keys : DeriveAccount(scheme, key)
    \/ \E msg \in Messages, r \in Components, s \in Components : Sign(msg, r, s)
    \/ sig # None /\ Garble
    \/ sig # None /\ \E scheme \in Schemes \cup {OtherScheme}, pk \in PublicKeys :
          Rebuild(scheme, pk)
    \/ \E msg \in Messages, pk \in PublicKeys \cup {None} : VerifySig(msg, pk)

Spec == Init /\ [][Next]_vars

-----------------------------------------------------------------------------
(* Properties.                                                             *)

\* raw has 64 bytes for all schemes, whatever leading zeros or sign byte the
\* components of the DER signature have (signing.py, class Signature).
TypeOK ==
    /\ account # None => account.scheme \in Schemes /\ account.public_key \in PublicKeys
    /\ issued # None => issued.sig.raw \in [1..(2 * Width) -> 0..(Base - 1)]
    /\ sig # None => sig.public_key \in PublicKeys
    /\ verdict \in {"none", "True", "False", "SignatureError"}

\* The last verify() was about this account's signature of this message.
AskedFor(acct, msg) ==
    /\ asked # None /\ asked.message = msg
    /\ IF asked.public_key = None THEN sig.public_key = acct.public_key
       ELSE asked.public_key = acct.public_key

\* What an account signs verifies for its message and public key, in every
\* scheme, as the Signature its signer returned and as one made again from
\* the raw bytes that Account.sign() returns: the two conversions are inverse
\* on all that is ever signed.
OwnSignatureVerifies ==
    /\ sig # None /\ sig.scheme = account.scheme
    /\ sig.raw = AccountSign(issued.sig.raw)
    /\ AskedFor(account, issued.message)
    => verdict = "True"

\* ECDSA and Ed25519 verify() answers True only for the very bytes, scheme,
\* message and key that were signed, whatever the Signature carries beside the
\* bytes.  (Schnorr verification is left to the chain adapters: a comment in
\* the code says so.)
VerifiedMeansSigned ==
    verdict = "True" /\ sig.scheme # "schnorr-secp256k1" =>
        /\ sig.scheme = account.scheme
        /\ sig.raw = issued.sig.raw
        /\ AskedFor(account, issued.message)
=============================================================================
