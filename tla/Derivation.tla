----------------------------- MODULE Derivation -----------------------------
(***************************************************************************)
(* BIP-32 derivation (derivation.py): parsing a path, the master key,      *)
(* derive(), derive_from_seed() and the export of a key.                   *)
(*                                                                         *)
(* HMAC-SHA512 is a random oracle: a query is answered by any pair IL, IR, *)
(* and always by the same one.  A private key is the number its 32 bytes   *)
(* spell, 0..MaxScalar, of which libsecp256k1 takes 1..Order-1.  The owner *)
(* of a key may zeroize it at any time, for `private_key` returns the very *)
(* SecretBytes that derive() reads, and another thread may derive between  *)
(* two levels of a derive_from_seed().                                     *)
(***************************************************************************)
EXTENDS Base58

CONSTANTS Order,            \* SECP256K1_N
          MaxScalar,        \* the largest number in the bytes of a key
          HARDENED_OFFSET,
          ChainCodes,       \* values of IR
          Zeros,            \* a zeroized chain code
          MaxDepth,         \* the largest depth an export has room for
          Versions,         \* the prefixes of mainnet and testnet exports
          Seeds,
          Texts,            \* path strings: [prefix, parts]
          DirectPaths,      \* indices of a DerivationPath built directly
          MaxKeys, MaxQueries

ASSUME DerivationAssumption ==
    /\ Order \in Nat \ {0, 1}
    /\ MaxScalar \in Nat /\ MaxScalar >= Order
    /\ HARDENED_OFFSET \in Nat \ {0}
    /\ Zeros \notin ChainCodes
    /\ MaxDepth \in 0..(ByteBase - 1)
    /\ Versions \subseteq 1..(ByteBase - 1)
    /\ MaxScalar < ByteBase /\ 2 * HARDENED_OFFSET <= ByteBase
    /\ ChainCodes \cup {Zeros} \subseteq 0..(ByteBase - 1)
    /\ \A text \in Texts :
          /\ text.parts \in Seq([digits : Int, marks : STRING])
          /\ text.prefix # "m/" => text.parts = <<>>
    /\ DirectPaths \subseteq Seq(Int \X BOOLEAN)

VARIABLES keys,    \* the ExtendedPrivateKeys handed to callers
          walk,    \* the derive_from_seed() in progress, if any
          oracle   \* the HMAC queries answered so far

vars == <<keys, walk, oracle>>

Scalars      == 0..MaxScalar
ValidScalars == 1..(Order - 1)
Answers      == [IL : Scalars, IR : ChainCodes]

-----------------------------------------------------------------------------
(* DerivationPath.parse                                                    *)

\* Faulty variant: only the apostrophe marks a hardened component.
HardenedApostrophe(part) == part.marks \in {"'", "h'"}

\* part.endswith("'") or part.endswith("h")
Hardened(part) == part.marks # ""

\* Faulty variant: the bound is 2^31.
ParsesLate(text) ==
    \/ text.prefix \in {"", "m"}
    \/ /\ text.prefix = "m/"
       /\ \A i \in DOMAIN text.parts : text.parts[i].digits \in 0..HARDENED_OFFSET

\* parse() returns.  It raises InvalidDerivationPathError, or the ValueError
\* of int() where isdigit() is true of more than int() takes; a component
\* that is no number has the digits -1.
Parses(text) ==
    \/ text.prefix \in {"", "m"}
    \/ /\ text.prefix = "m/"
       /\ \A i \in DOMAIN text.parts : text.parts[i].digits \in 0..(HARDENED_OFFSET - 1)

\* The (index, hardened) pairs of an accepted path; rstrip("'h") takes every
\* trailing mark off.
Indices(text) ==
    [i \in DOMAIN text.parts |-> <<text.parts[i].digits, Hardened(text.parts[i])>>]

\* What the path syntax of the module's docstring means by the text.
Meaning(text) ==
    [i \in DOMAIN text.parts |-> <<text.parts[i].digits, text.parts[i].marks # "">>]

-----------------------------------------------------------------------------
(* One derivation step.                                                    *)

MasterQuery(seed) == <<"Bitcoin seed", seed, 0, 0>>

MasterKey(seed, ans) ==
    [sk |-> ans.IL, cc |-> ans.IR, depth |-> 0, pfp |-> 0, child |-> 0,
     seed |-> seed, path |-> <<>>, via |-> "seed", intact |-> TRUE]

\* PrivateKey(bytes(sk)) raises unless the scalar is a secp256k1 key, and so
\* do public_key and fingerprint().
Usable(sk) == sk \in ValidScalars

\* Faulty variant: a fingerprint of the private bytes, which cannot fail.
FingerprintNever(k) == FALSE

FingerprintError(k) == ~Usable(k.sk)

\* Faulty variant: the index stays as it was given.
ChildNumberPlain(index, hardened) == index

ChildNumber(index, hardened) ==
    IF hardened THEN index + HARDENED_OFFSET ELSE index

\* Hardened children come from the private key, normal ones from the public.
Via(number) == IF number >= HARDENED_OFFSET THEN "private" ELSE "public"

\* What stops derive() before it asks HMAC.
EarlyError(k, index, hardened) ==
    IF index \notin 0..(HARDENED_OFFSET - 1) THEN "index out of range"
    ELSE IF Via(ChildNumber(index, hardened)) = "public" /\ ~Usable(k.sk)
      THEN "invalid private key" ELSE "ok"

\* (cc, 0x00 || sk || index) or (cc, pub(sk) || index)
Query(k, number) == <<Via(number), k.cc, k.sk, number>>

\* Faulty variant: no look at the sum.
LateErrorZero(k, ans) ==
    IF ans.IL >= Order THEN "IL >= n"
    ELSE IF FingerprintError(k) THEN "invalid private key" ELSE "ok"

\* What stops it afterwards, self.fingerprint() last of all.
LateError(k, ans) ==
    IF ans.IL >= Order THEN "IL >= n"
    ELSE IF (ans.IL + k.sk) % Order = 0 THEN "zero child key"
    ELSE IF FingerprintError(k) THEN "invalid private key" ELSE "ok"

\* Faulty variant: every child is a child of the master key.
ChildOfMaster(k, index, hardened, ans) ==
    LET number == ChildNumber(index, hardened)
    IN  [sk |-> (ans.IL + k.sk) % Order, cc |-> ans.IR, depth |-> 1,
         pfp |-> k.sk, child |-> number, seed |-> k.seed,
         path |-> Append(k.path, <<index, hardened>>), via |-> Via(number),
         intact |-> k.intact]

Child(k, index, hardened, ans) ==
    LET number == ChildNumber(index, hardened)
    IN  [sk |-> (ans.IL + k.sk) % Order, cc |-> ans.IR, depth |-> k.depth + 1,
         pfp |-> k.sk, child |-> number, seed |-> k.seed,
         path |-> Append(k.path, <<index, hardened>>), via |-> Via(number),
         intact |-> k.intact]

\* The first bytes of a double SHA-256: some fixed function.
Checksum(raw) == (1 + Value(raw, 3)) % ByteBase

\* The fields of an export, each of whose bytes is one here.
Raw(k, version) ==
    <<version, k.depth, k.pfp, k.child, k.cc, 0, k.sk>>

Encoded(raw) == B58Encode(Append(raw, Checksum(raw)))

\* bytes([depth]) raises ValueError for a key too deep, which derive() makes
\* without complaint.
Exportable(k) == k.depth <= MaxDepth

NoText == <<>>

\* Faulty variant: the depth wraps, as bytes([depth & 0xff]).
ToBase58Wrapping(k, version) ==
    Encoded(Raw([k EXCEPT !.depth = @ % (MaxDepth + 1)], version))

\* k.to_base58(network)
ToBase58(k, version) == IF Exportable(k) THEN Encoded(Raw(k, version)) ELSE NoText

\* hmac.new(...).digest() answers the query q by ans.
Hmac(q, ans) ==
    /\ q \in DOMAIN oracle => ans = oracle[q]
    /\ oracle' = [p \in DOMAIN oracle \cup {q} |->
                    IF p \in DOMAIN oracle THEN oracle[p] ELSE ans]
    /\ Cardinality(DOMAIN oracle') <= MaxQueries

\* k.derive(index, hardened) returns a child, or raises.
DeriveChild(k, index, hardened, Returns(_), Raises(_)) ==
    LET early == EarlyError(k, index, hardened) IN
    IF early # "ok"
      THEN Raises(early) /\ UNCHANGED oracle
      ELSE \E ans \in Answers :
             LET late == LateError(k, ans) IN
             /\ Hmac(Query(k, ChildNumber(index, hardened)), ans)
             /\ IF late = "ok" THEN Returns(Child(k, index, hardened, ans))
                ELSE Raises(late)

-----------------------------------------------------------------------------
NoWalk == [busy |-> FALSE]

Init ==
    /\ keys = <<>>
    /\ walk = NoWalk
    /\ oracle = [q \in {} |-> 0]

HandOver(k) ==
    /\ Len(keys) < MaxKeys
    /\ keys' = Append(keys, k)

\* ExtendedPrivateKey.master(seed)
Master(seed) ==
    \E ans \in Answers :
        /\ Hmac(MasterQuery(seed), ans)
        /\ HandOver(MasterKey(seed, ans))
        /\ UNCHANGED walk

\* keys[i].derive(index, hardened)
Derive(i, index, hardened) ==
    LET Raises(error) == UNCHANGED keys
    IN  DeriveChild(keys[i], index, hardened, HandOver, Raises) /\ UNCHANGED walk

\* keys[i].private_key.zeroize() or keys[i].chain_code.zeroize()
Zeroize(i) ==
    /\ \/ keys' = [keys EXCEPT ![i].sk = 0, ![i].intact = FALSE]
       \/ keys' = [keys EXCEPT ![i].cc = Zeros, ![i].intact = FALSE]
    /\ UNCHANGED <<walk, oracle>>

\* derive_from_seed(seed, path) with a path built directly or parsed.
StartWalk(seed, indices, meaning, parsed) ==
    /\ ~walk.busy
    /\ \E ans \in Answers :
         /\ Hmac(MasterQuery(seed), ans)
         /\ walk' = [busy |-> TRUE, key |-> MasterKey(seed, ans), todo |-> indices,
                     meaning |-> meaning, parsed |-> parsed]
    /\ UNCHANGED keys

StartDirect(seed, indices) == StartWalk(seed, indices, indices, FALSE)

StartParsed(seed, text) ==
    /\ Parses(text)
    /\ StartWalk(seed, Indices(text), Meaning(text), TRUE)

\* One turn of the loop over path.indices; an exception ends the call.
WalkStep ==
    LET Descend(child) ==
            /\ walk' = [walk EXCEPT !.key = child, !.todo = Tail(@)]
            /\ UNCHANGED keys
        Stop(error) == walk' = NoWalk /\ UNCHANGED keys
    IN  /\ walk.busy /\ walk.todo # <<>>
        /\ DeriveChild(walk.key, Head(walk.todo)[1], Head(walk.todo)[2], Descend, Stop)

\* The loop is over; the history path becomes what the caller asked for.
WalkReturn ==
    /\ walk.busy /\ walk.todo = <<>>
    /\ HandOver([walk.key EXCEPT !.path = walk.meaning])
    /\ walk' = NoWalk
    /\ UNCHANGED oracle

Next ==
    \/ \E seed \in Seeds : Master(seed)
    \/ \E i \in DOMAIN keys, index \in -1..HARDENED_OFFSET, hardened \in BOOLEAN :
          Derive(i, index, hardened)
    \/ \E i \in DOMAIN keys : Zeroize(i)
    \/ \E seed \in Seeds, indices \in DirectPaths : StartDirect(seed, indices)
    \/ \E seed \in Seeds, text \in Texts : StartParsed(seed, text)
    \/ WalkStep
    \/ WalkReturn

Spec == Init /\ [][Next]_vars

-----------------------------------------------------------------------------
(* Properties.                                                             *)

\* The fields of an ExtendedPrivateKey, with depth and child number those of
\* the path it was asked for.
TypeOK ==
    /\ \A i \in DOMAIN keys :
          LET k == keys[i] IN
          /\ k.sk \in Scalars
          /\ k.cc \in ChainCodes \cup {Zeros}
          /\ k.depth = Len(k.path)
          /\ k.path # <<>> =>
                k.child = ChildNumber(Last(k.path)[1], Last(k.path)[2])
    /\ walk.busy \in BOOLEAN

\* From one seed, a path leads to one key, whether a caller derives level by
\* level or passes a parsed path, in either notation of hardened components,
\* and whatever other calls run in between (derive, derive_from_seed, parse).
SamePathSameKey ==
    \A i, j \in DOMAIN keys :
        /\ keys[i].intact /\ keys[j].intact
        /\ keys[i].seed = keys[j].seed /\ keys[i].path = keys[j].path
        => keys[i] = keys[j]

\* A hardened component is derived from the private key and a normal one from
\* the public key: whoever holds a parent's public key and chain code can
\* compute the keys of its normal children and of no hardened one.
HardenedStaysPrivate ==
    \A i \in DOMAIN keys :
        keys[i].path # <<>> =>
            (keys[i].via = "private" <=> Last(keys[i].path)[2])

\* A zeroized key, and a master key outside 1..n-1 (master() does not look),
\* never has a child.  For a hardened child only the fingerprint() computed
\* while the child is built stands in the way.
NoChildOfBadKey ==
    \A i \in DOMAIN keys : keys[i].path # <<>> => Usable(keys[i].pfp)

\* Every key derive() returns is one libsecp256k1 accepts, until it is
\* zeroized.
ChildIsUsable ==
    \A i \in DOMAIN keys :
        keys[i].intact /\ keys[i].path # <<>> => Usable(keys[i].sk)

\* A path that parse() accepts never runs into the index check of derive():
\* the two checks, written apart, agree at the boundary.
ParsedPathDerives ==
    walk.busy /\ walk.parsed /\ walk.todo # <<>> =>
        EarlyError(walk.key, Head(walk.todo)[1], Head(walk.todo)[2])
            # "index out of range"

\* The key handed over last, wiped or not, has an export unless it is too
\* deep for one, and what is exported is read by any other wallet as this very
\* key: version, depth, parent, child number, chain code and key come back
\* with a right checksum, whatever zeros they have.
ExportDecodes ==
    \A version \in Versions :
        keys # <<>> =>
            LET k    == Last(keys)
                text == ToBase58(k, version)
            IN  /\ k.depth <= MaxDepth => text # NoText
                /\ text # NoText =>
                     LET read == B58Decode(text)
                     IN  /\ Front(read) = Raw(k, version)
                         /\ Last(read) = Checksum(Front(read))
=============================================================================
