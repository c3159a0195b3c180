------------------------- MODULE KeystoreFileProofs -------------------------
(***************************************************************************)
(* Proofs about KeystoreFile, for any processes, lengths and parameters.   *)
(*                                                                         *)
(* The argument follows the bytes.  A blob is laid out so that every cell  *)
(* after the header says which draw of salt and nonce it is from (Cells),  *)
(* and whatever a file or a reader holds consists of such cells, each at   *)
(* its place, and of damaged ones (Origins, with TypeOK the heart of the   *)
(* inductive invariant IInv): truncating, writing a prefix over something  *)
(* else, writing back, losing power and damaging cells all keep it.  The   *)
(* first cell of a ciphertext that opens then names the keystore it was    *)
(* sealed for, with the key, hence the password, the parameters and the    *)
(* salt, and the tag covers the rest (SealedOnlyWhole).  So an answer is   *)
(* some create()'s seed or an error.                                       *)
(***************************************************************************)
EXTENDS KeystoreFile, Rows, FiniteSetTheorems, TLAPS

Plain(k)   == PackPlaintext(k.seed, 0, k.flags)
SealKey(k) == DeriveKey(k.password, k.params, k.salt)
Body(k)    == Encrypt(SealKey(k), k.nonce, <<VERSION, 1>>, Plain(k))

\* Cells in front of the ciphertext.
Front(k)   == 9 + Len(k.salt) + NonceLen
Size(k)    == Front(k) + Len(Plain(k)) + TagLen

\* The draw its salt and nonce are from.
Id(k) == k.nonce[1][2]

\* What create() makes.
Sound(k) ==
    /\ k.password \in Passwords /\ k.seed \in Seeds /\ k.flags \in {0, 1}
    /\ Len(k.seed) <= MaxSeedLen
    /\ k.params \in ParamSets /\ k.params.hash_len = KeyLen /\ Argon2Accepts(k.params)
    /\ Len(k.salt) \in Nat \ {0}
    /\ Id(k) \in Nat
    /\ k.salt = Random("salt", Id(k), Len(k.salt))
    /\ k.nonce = Random("nonce", Id(k), NonceLen)
    /\ k.blob = PackHeader(1, k.params) \o k.salt \o k.nonce \o Body(k)

-----------------------------------------------------------------------------
\* _pack_plaintext puts the length, the seed, then created_at, flags, reserved.
LEMMA PlainCells ==
    ASSUME NEW k, Sound(k)
    PROVE  /\ Len(k.seed) \in Nat \ {0}
           /\ Len(Plain(k)) = Len(k.seed) + 4
           /\ Row(Plain(k), Len(k.seed) + 4)
           /\ Plain(k)[1] = Len(k.seed)
           /\ \A i \in 1..Len(k.seed) : Plain(k)[1 + i] = k.seed[i]
           /\ Plain(k)[Len(k.seed) + 3] = k.flags
<1>1. k.seed \in Seq(0..255) /\ k.seed # <<>>
  BY KeystoreAssumption DEF KeystoreAssumption, Sound
<1> DEFINE n     == Len(k.seed)
           size  == <<n>>
           tail  == <<0, k.flags, 0>>
           start == size \o k.seed
<1>2. n \in Nat \ {0} /\ Row(k.seed, n)
  BY <1>1 DEF Row
<1>3. Row(size, 1) /\ size[1] = n
  BY DEF Row
<1>4. Row(tail, 3) /\ tail[2] = k.flags
  BY DEF Row
<1>5. Plain(k) = start \o tail
  BY DEF Plain, PackPlaintext
<1> HIDE DEF n, size, tail
<1>6. Joins(start, size, 1, k.seed, n)
  BY <1>2, <1>3, Concatenation
<1> HIDE DEF start
<1>7. Joins(Plain(k), start, 1 + n, tail, 3)
  <2>1. Row(start, 1 + n)
    BY <1>6 DEF Joins
  <2> QED
    BY <1>4, <1>5, <2>1, Concatenation, Zenon
<1>8. 1 \in 1..(1 + n) /\ \A i \in 1..n : 1 + i \in 1..(1 + n)
  BY <1>2
<1>9. Plain(k)[1] = n /\ Plain(k)[(1 + n) + 2] = k.flags
  BY <1>3, <1>4, <1>6, <1>7, <1>8 DEF Joins
<1>10. \A i \in 1..n : Plain(k)[1 + i] = k.seed[i]
  BY <1>6, <1>7, <1>8 DEF Joins
<1>11. (1 + n) + 3 = n + 4 /\ (1 + n) + 2 = n + 3
  BY <1>2
<1> QED
  BY <1>2, <1>7, <1>9, <1>10, <1>11 DEF Joins, n

LEMMA Sizes ==
    ASSUME NEW k, Sound(k)
    PROVE  /\ Len(k.salt) \in Nat \ {0} /\ Len(Plain(k)) \in Nat
           /\ NonceLen \in Nat \ {0} /\ TagLen \in Nat \ {0}
           /\ Front(k) \in Nat /\ Front(k) = 9 + Len(k.salt) + NonceLen
           /\ Size(k) \in Nat /\ Size(k) = Front(k) + (Len(Plain(k)) + TagLen)
           /\ 10 < Front(k) /\ Front(k) < Size(k)
<1>1. /\ Len(k.salt) \in Nat \ {0} /\ NonceLen \in Nat \ {0} /\ TagLen \in Nat \ {0}
      /\ Len(Plain(k)) \in Nat
  BY PlainCells, EnvelopeAssumption DEF EnvelopeAssumption, Sound
<1>2. Front(k) = 9 + Len(k.salt) + NonceLen /\ Front(k) \in Nat /\ 10 < Front(k)
  BY <1>1 DEF Front
<1> DEFINE f == Front(k)
           n == Len(Plain(k))
<1>3. f \in Nat /\ n \in Nat /\ TagLen \in Nat \ {0} /\ Size(k) = (f + n) + TagLen
  BY <1>1, <1>2, Zenon DEF Size
<1> HIDE DEF f, n
<1>4. (f + n) + TagLen = f + (n + TagLen) /\ (f + n) + TagLen \in Nat /\ f < (f + n) + TagLen
  BY <1>3
<1> QED
  BY <1>1, <1>2, <1>3, <1>4 DEF f, n

\* Where the parts of a blob are.
Parts(k) ==
    /\ Row(k.blob, Size(k)) /\ Len(k.blob) = Size(k) /\ DOMAIN k.blob = 1..Size(k)
    /\ \A i \in 1..9 : k.blob[i] = PackHeader(1, k.params)[i]
    /\ \A i \in 1..Len(k.salt) : k.blob[9 + i] = k.salt[i]
    /\ \A i \in 1..NonceLen : k.blob[9 + Len(k.salt) + i] = k.nonce[i]
    /\ \A i \in 1..(Len(Plain(k)) + TagLen) : k.blob[Front(k) + i] = Body(k)[i]

\* Envelope.pack() lays the parts out one after the other.
LEMMA BlobParts ==
    ASSUME NEW k, Sound(k)
    PROVE  Parts(k)
<1> DEFINE header == PackHeader(1, k.params)
           m      == Len(k.salt)
           n      == Len(Plain(k)) + TagLen
           two    == header \o k.salt
           three  == two \o k.nonce
<1>1. Row(header, 9)
  BY DEF Row, PackHeader
<1>2. m \in Nat /\ n \in Nat /\ NonceLen \in Nat
  BY PlainCells, EnvelopeAssumption DEF EnvelopeAssumption, Sound
<1>3. Row(k.salt, m)
  BY <1>2 DEF Sound, Random, Row
<1>4. Row(k.nonce, NonceLen)
  BY <1>2 DEF Sound, Random, Row
<1>5. Row(Body(k), n)
  BY <1>2 DEF Body, Encrypt, Row
<1>6. k.blob = three \o Body(k)
  BY DEF Sound
<1> HIDE DEF header, m, n
<1>7. Joins(two, header, 9, k.salt, m)
  BY <1>1, <1>3, Concatenation
<1> HIDE DEF two
<1>a. Row(two, 9 + m)
  BY <1>7 DEF Joins
<1>8. Joins(three, two, 9 + m, k.nonce, NonceLen)
  BY <1>4, <1>a, Concatenation
<1> HIDE DEF three
<1>b. Row(three, (9 + m) + NonceLen)
  BY <1>8 DEF Joins
<1>9. Joins(k.blob, three, (9 + m) + NonceLen, Body(k), n)
  BY <1>5, <1>6, <1>b, Concatenation, Zenon
<1>10. Front(k) = (9 + m) + NonceLen /\ Size(k) = ((9 + m) + NonceLen) + n
  <2>1. Front(k) = (9 + m) + NonceLen
    BY DEF Front, m
  <2>2. Size(k) = Front(k) + n
    BY Sizes DEF n
  <2> QED
    BY <2>1, <2>2
<1>11. ASSUME NEW i \in 1..9 PROVE k.blob[i] = header[i]
  <2>1. i \in 1..(9 + m) /\ i \in 1..((9 + m) + NonceLen)
    BY <1>2
  <2>2. two[i] = header[i]
    BY <1>7 DEF Joins
  <2>3. three[i] = two[i] /\ k.blob[i] = three[i]
    BY <1>8, <1>9, <2>1 DEF Joins
  <2> QED
    BY <2>2, <2>3
<1>12. ASSUME NEW i \in 1..m PROVE k.blob[9 + i] = k.salt[i]
  <2>1. 9 + i \in 1..(9 + m) /\ 9 + i \in 1..((9 + m) + NonceLen)
    BY <1>2
  <2>2. two[9 + i] = k.salt[i]
    BY <1>7 DEF Joins
  <2>3. three[9 + i] = two[9 + i] /\ k.blob[9 + i] = three[9 + i]
    BY <1>8, <1>9, <2>1 DEF Joins
  <2> QED
    BY <2>2, <2>3
<1>13. ASSUME NEW i \in 1..NonceLen PROVE k.blob[(9 + m) + i] = k.nonce[i]
  <2>1. (9 + m) + i \in 1..((9 + m) + NonceLen)
    BY <1>2
  <2>2. three[(9 + m) + i] = k.nonce[i]
    BY <1>8 DEF Joins
  <2>3. k.blob[(9 + m) + i] = three[(9 + m) + i]
    BY <1>9, <2>1 DEF Joins
  <2> QED
    BY <2>2, <2>3
<1>14. \A i \in 1..n : k.blob[Front(k) + i] = Body(k)[i]
  BY <1>9, <1>10 DEF Joins
<1>15. Row(k.blob, Size(k)) /\ Len(k.blob) = Size(k)
  BY <1>9, <1>10 DEF Joins
<1>16. DOMAIN k.blob = 1..Size(k)
  BY <1>15, RowIsSeq
<1> QED
  BY <1>11, <1>12, <1>13, <1>14, <1>15, <1>16 DEF Parts, header, m, n

\* b is the blob of k, but for the reserved cell.
Copies(b, k) ==
    /\ Row(b, Size(k)) /\ Len(b) = Size(k)
    /\ \A i \in 1..Size(k) : i # 9 => b[i] = k.blob[i]

LEMMA OwnCopy ==
    ASSUME NEW k, Sound(k)
    PROVE  Copies(k.blob, k)
BY BlobParts DEF Parts, Copies

LEMMA CopyIsSame ==
    ASSUME NEW k, Sound(k), NEW b, Row(b, Len(b)), SameExcept(b, k.blob, Reserved)
    PROVE  Copies(b, k)
<1>1. Len(b) = Size(k) /\ DOMAIN b = 1..Size(k)
  <2>1. Len(k.blob) = Size(k)
    BY BlobParts DEF Parts
  <2> QED
    BY <2>1, RowIsSeq DEF SameExcept
<1> QED
  BY <1>1 DEF Copies, SameExcept, Reserved

\* The header of a blob holds the parameters.
LEMMA HeaderRead ==
    ASSUME NEW k, Sound(k), NEW b, Copies(b, k)
    PROVE  /\ b[1] = MAGIC /\ b[2] = VERSION /\ b[3] = 1
           /\ UnpackParams(b) = k.params
<1>1. \A i \in 1..8 : b[i] = PackHeader(1, k.params)[i]
  <2>1. \A i \in 1..8 : i \in 1..9 /\ i \in 1..Size(k) /\ i # 9
    BY Sizes
  <2> QED
    BY <2>1, BlobParts DEF Parts, Copies
<1>2. /\ b[1] = MAGIC /\ b[2] = VERSION /\ b[3] = 1
      /\ b[4] = k.params.time_cost /\ b[5] = k.params.memory_cost
      /\ b[6] = k.params.parallelism /\ b[7] = k.params.hash_len
      /\ b[8] = k.params.version
  BY <1>1 DEF PackHeader
<1>3. k.params \in [time_cost : Nat, memory_cost : Nat, parallelism : Nat,
                    hash_len : Nat, version : Nat]
  BY KeystoreAssumption DEF KeystoreAssumption, Sound
<1> QED
  BY <1>2, <1>3 DEF UnpackParams, OffKdf

\* So does the plaintext the seed.
LEMMA PlaintextRead ==
    ASSUME NEW k, Sound(k)
    PROVE  /\ UnpackPlaintext(Plain(k)).status = "ok"
           /\ UnpackPlaintext(Plain(k)).seed = k.seed
           /\ UnpackPlaintext(Plain(k)).flags = k.flags
<1> DEFINE n == Len(k.seed)
<1>1. /\ n \in Nat \ {0} /\ Len(Plain(k)) = n + 4 /\ Row(Plain(k), n + 4)
      /\ Plain(k)[1] = n /\ Plain(k)[n + 3] = k.flags
      /\ \A i \in 1..n : Plain(k)[1 + i] = k.seed[i]
  BY PlainCells
<1>2. Row(k.seed, n)
  <2>1. k.seed \in Seq(0..255)
    BY KeystoreAssumption DEF KeystoreAssumption, Sound
  <2> QED
    BY <2>1 DEF Row
<1> HIDE DEF n
<1>3. n = (1 + n) - 2 + 1 /\ \A i \in 1..n : k.seed[i] = Plain(k)[2 - 1 + i]
  BY <1>1
<1>4. SubSeq(Plain(k), 2, 1 + n) = k.seed
  <2>1. PartOf(k.seed, n, Plain(k), n + 4, 2, 1 + n)
    BY <1>1, <1>2, <1>3 DEF PartOf
  <2> QED
    BY <2>1, Slice
<1>5. 3 + n = n + 3 /\ ~(n + 4 < 4) /\ ~(n + 4 < 4 + n)
  BY <1>1
<1> QED
  BY <1>1, <1>4, <1>5 DEF UnpackPlaintext

\* The offsets unpack() reads at are those pack() wrote at, if the salt has the
\* length the header reserves.
LEMMA BodyRead ==
    ASSUME NEW k, Sound(k), Len(k.salt) = SaltLen, NEW b, Copies(b, k)
    PROVE  /\ Len(b) >= HeaderLen + TagLen
           /\ Salt(b) = k.salt /\ Nonce(b) = k.nonce
           /\ Ciphertext(b) = Body(k)
<1> DEFINE n == Len(Plain(k)) + TagLen
<1>1. /\ SaltLen \in Nat \ {0} /\ NonceLen \in Nat \ {0} /\ TagLen \in Nat \ {0}
      /\ Len(Plain(k)) \in Nat
  BY Sizes
<1>2. Front(k) = HeaderLen /\ HeaderLen = 9 + SaltLen + NonceLen /\ Size(k) = HeaderLen + n
  BY <1>1, Sizes DEF HeaderLen, OffNonce, OffSalt
<1>3. /\ Row(b, Size(k)) /\ Len(b) = Size(k)
      /\ \A i \in 1..SaltLen : b[9 + i] = k.salt[i]
      /\ \A i \in 1..NonceLen : b[9 + SaltLen + i] = k.nonce[i]
      /\ \A i \in 1..n : b[HeaderLen + i] = Body(k)[i]
  <2>1. \A i \in 10..Size(k) : b[i] = k.blob[i]
    BY DEF Copies
  <2>2. n \in Nat
    BY <1>1
  <2>3. /\ \A i \in 1..SaltLen : k.blob[9 + i] = k.salt[i]
        /\ \A i \in 1..NonceLen : k.blob[9 + SaltLen + i] = k.nonce[i]
        /\ \A i \in 1..n : k.blob[HeaderLen + i] = Body(k)[i]
    BY <1>2, BlobParts DEF Parts
  <2> HIDE DEF n
  <2>4. /\ \A i \in 1..SaltLen : 9 + i \in 10..Size(k)
        /\ \A i \in 1..NonceLen : 9 + SaltLen + i \in 10..Size(k)
        /\ \A i \in 1..n : HeaderLen + i \in 10..Size(k)
    BY <1>1, <1>2, <2>2
  <2> QED
    BY <2>1, <2>3, <2>4 DEF Copies
<1>4. Row(k.salt, SaltLen) /\ Row(k.nonce, NonceLen) /\ Row(Body(k), n)
  <2>1. Row(k.salt, SaltLen)
    BY <1>1 DEF Sound, Random, Row
  <2>2. Row(k.nonce, NonceLen)
    BY <1>1 DEF Sound, Random, Row
  <2>3. Row(Body(k), n)
    BY <1>1 DEF Body, Encrypt, Row
  <2> QED
    BY <2>1, <2>2, <2>3
<1> HIDE DEF n
<1>5. SubSeq(b, OffSalt, OffNonce - 1) = k.salt
  <2>1. /\ OffSalt = 10 /\ OffNonce - 1 = 9 + SaltLen /\ 9 + SaltLen <= Size(k)
        /\ SaltLen = (9 + SaltLen) - 10 + 1
    BY <1>1, <1>2 DEF OffNonce, OffSalt, n
  <2>2. \A i \in 1..SaltLen : k.salt[i] = b[10 - 1 + i]
    BY <1>1, <1>3
  <2>3. PartOf(k.salt, SaltLen, b, Size(k), OffSalt, OffNonce - 1)
    BY <1>1, <1>3, <1>4, <2>1, <2>2 DEF PartOf
  <2> QED
    BY <2>3, Slice
<1>6. SubSeq(b, OffNonce, HeaderLen) = k.nonce
  <2>1. /\ OffNonce = 10 + SaltLen /\ HeaderLen <= Size(k)
        /\ NonceLen = HeaderLen - (10 + SaltLen) + 1
    BY <1>1, <1>2 DEF OffNonce, OffSalt, n
  <2>2. \A i \in 1..NonceLen : k.nonce[i] = b[(10 + SaltLen) - 1 + i]
    BY <1>1, <1>3
  <2>3. PartOf(k.nonce, NonceLen, b, Size(k), OffNonce, HeaderLen)
    BY <1>1, <1>2, <1>3, <1>4, <2>1, <2>2 DEF PartOf
  <2> QED
    BY <2>3, Slice
<1>7. SubSeq(b, HeaderLen + 1, Len(b)) = Body(k)
  <2>1. n \in Nat /\ n = Len(b) - (HeaderLen + 1) + 1 /\ HeaderLen \in Nat /\ Len(b) \in Nat
    BY <1>1, <1>2, <1>3 DEF n
  <2>2. \A i \in 1..n : Body(k)[i] = b[(HeaderLen + 1) - 1 + i]
    BY <1>3, <2>1
  <2>4. Row(b, Len(b)) /\ Row(Body(k), n)
    BY <1>3, <1>4
  <2>5. HeaderLen + 1 \in Nat \ {0} /\ HeaderLen + 1 <= Len(b) + 1 /\ Len(b) <= Len(b)
    <3> DEFINE l == Len(b)
    <3>1. n \in Nat /\ HeaderLen \in Nat /\ l \in Nat /\ l = HeaderLen + n
      BY <1>2, <1>3, <2>1
    <3> HIDE DEF l
    <3>2. HeaderLen + 1 \in Nat \ {0} /\ HeaderLen + 1 <= l + 1 /\ l <= l
      BY <3>1
    <3> QED
      BY <3>2 DEF l
  <2>3. PartOf(Body(k), n, b, Len(b), HeaderLen + 1, Len(b))
    BY <2>1, <2>2, <2>4, <2>5, Zenon DEF PartOf
  <2> QED
    BY <2>3, Slice
<1>8. Len(b) >= HeaderLen + TagLen
  BY <1>1, <1>2, <1>3 DEF n
<1> QED
  BY <1>5, <1>6, <1>7, <1>8 DEF Salt, Nonce, Ciphertext

\* Hence unpack() opens, with its password, what pack() made.
LEMMA Unpacks ==
    ASSUME NEW k, Sound(k), Len(k.salt) = SaltLen, NEW b, Copies(b, k)
    PROVE  /\ Unpack(b, k.password).status = "ok"
           /\ Unpack(b, k.password).seed = k.seed
           /\ Unpack(b, k.password).flags = k.flags
<1>1. /\ Body(k)[1] = <<"ct", SealKey(k), k.nonce, <<VERSION, 1>>, Plain(k), 1>>
  BY PlainCells, EnvelopeAssumption DEF EnvelopeAssumption, Body, Encrypt
<1>2. Sealed(Body(k)) = Plain(k) /\ Body(k)[1][1] = "ct"
  BY <1>1 DEF Sealed
<1>3. Decrypts(SealKey(k), k.nonce, <<VERSION, 1>>, Body(k))
  BY <1>2 DEF Decrypts, Body
<1>4. DeriveKey(k.password, UnpackParams(b), Salt(b)) = SealKey(k)
  BY HeaderRead, BodyRead DEF SealKey
<1>5. Unpack(b, k.password) = UnpackPlaintext(Plain(k))
  <2>1. ~(Len(b) < HeaderLen + TagLen)
    <3>1. Len(b) \in Nat /\ HeaderLen + TagLen \in Nat
      BY Sizes, EnvelopeAssumption
         DEF EnvelopeAssumption, Copies, HeaderLen, OffNonce, OffSalt
    <3> QED
      BY <3>1, BodyRead
  <2>2. Argon2Accepts(UnpackParams(b)) /\ UnpackParams(b).hash_len = KeyLen
    BY HeaderRead DEF Sound
  <2>3. Ciphertext(b) = Body(k) /\ Nonce(b) = k.nonce
    BY BodyRead
  <2>4. b[1] = MAGIC /\ b[2] = VERSION /\ b[3] = 1
    BY HeaderRead
  <2> QED
    BY <1>2, <1>3, <1>4, <2>1, <2>2, <2>3, <2>4, Zenon DEF Unpack
<1> QED
  BY <1>5, PlaintextRead

-----------------------------------------------------------------------------
\* What the cells after the header look like.
LEMMA Cells ==
    ASSUME NEW k, Sound(k), NEW i \in 10..Size(k)
    PROVE  /\ i <= 9 + Len(k.salt) => k.blob[i] = <<"salt", Id(k), i - 9>>
           /\ i > 9 + Len(k.salt) /\ i <= Front(k) =>
                k.blob[i] = <<"nonce", Id(k), i - (9 + Len(k.salt))>>
           /\ i > Front(k) =>
                k.blob[i] = <<"ct", SealKey(k), k.nonce, <<VERSION, 1>>, Plain(k),
                              i - Front(k)>>
<1>1. /\ Len(k.salt) \in Nat \ {0} /\ NonceLen \in Nat \ {0} /\ TagLen \in Nat \ {0}
      /\ Len(Plain(k)) \in Nat
  BY Sizes
<1>2. /\ Front(k) = 9 + Len(k.salt) + NonceLen /\ Front(k) \in Nat
      /\ Size(k) = Front(k) + (Len(Plain(k)) + TagLen)
  BY Sizes
<1>3. ASSUME i <= 9 + Len(k.salt) PROVE k.blob[i] = <<"salt", Id(k), i - 9>>
  <2> DEFINE j == i - 9
  <2>1. j \in 1..Len(k.salt) /\ i = 9 + j
    BY <1>1, <1>2, <1>3
  <2> HIDE DEF j
  <2>2. k.blob[9 + j] = k.salt[j]
    BY <2>1, BlobParts DEF Parts
  <2>3. k.salt[j] = <<"salt", Id(k), j>>
    BY <2>1 DEF Sound, Random
  <2> QED
    BY <2>1, <2>2, <2>3 DEF j
<1>4. ASSUME i > 9 + Len(k.salt), i <= Front(k)
      PROVE  k.blob[i] = <<"nonce", Id(k), i - (9 + Len(k.salt))>>
  <2> DEFINE j == i - (9 + Len(k.salt))
  <2>1. j \in 1..NonceLen /\ i = 9 + Len(k.salt) + j
    BY <1>1, <1>2, <1>4
  <2> HIDE DEF j
  <2>2. k.blob[9 + Len(k.salt) + j] = k.nonce[j]
    BY <2>1, BlobParts DEF Parts
  <2>3. k.nonce[j] = <<"nonce", Id(k), j>>
    BY <2>1 DEF Sound, Random
  <2> QED
    BY <2>1, <2>2, <2>3 DEF j
<1>5. ASSUME i > Front(k)
      PROVE  k.blob[i] = <<"ct", SealKey(k), k.nonce, <<VERSION, 1>>, Plain(k), i - Front(k)>>
  <2> DEFINE j == i - Front(k)
  <2>1. j \in 1..(Len(Plain(k)) + TagLen) /\ i = Front(k) + j
    <3> DEFINE n == Len(Plain(k)) + TagLen
    <3>1. n \in Nat /\ Front(k) \in Nat /\ Size(k) = Front(k) + n
      BY <1>1, <1>2
    <3> HIDE DEF n
    <3>2. j \in 1..n /\ i = Front(k) + j
      BY <1>5, <3>1
    <3> QED
      BY <3>2 DEF n
  <2> HIDE DEF j
  <2>2. k.blob[Front(k) + j] = Body(k)[j]
    BY <2>1, BlobParts DEF Parts
  <2>3. Body(k)[j] = <<"ct", SealKey(k), k.nonce, <<VERSION, 1>>, Plain(k), j>>
    BY <2>1 DEF Body, Encrypt
  <2> QED
    BY <2>1, <2>2, <2>3 DEF j
<1> QED
  BY <1>3, <1>4, <1>5

\* Every cell after the header is damaged or that of a keystore at its place.
FromMade(b, M) ==
    /\ Row(b, Len(b))
    /\ \A i \in 10..Len(b) :
          \/ b[i] = <<"damaged", i>>
          \/ \E k \in M : i \in 10..Size(k) /\ b[i] = k.blob[i]

\* A ciphertext that opens is the one some create() sealed, whole, and with the
\* parameters, salt and nonce it was sealed under.
AllSound(M) == \A k \in M : Sound(k)

OpensAsMade(b, pw, M) ==
    \E k \in M : /\ SameExcept(b, k.blob, Reserved)
                 /\ pw = k.password /\ Len(k.salt) = SaltLen
                 /\ Unpack(b, pw).seed = k.seed

LEMMA CiphertextCells ==
    ASSUME NEW b, Row(b, Len(b)), Len(b) >= HeaderLen + TagLen
    PROVE  /\ Ciphertext(b) = [i \in 1..(Len(b) - HeaderLen) |-> b[HeaderLen + i]]
           /\ Len(Ciphertext(b)) = Len(b) - HeaderLen
<1> DEFINE n == Len(b) - HeaderLen
           t == [i \in 1..n |-> b[HeaderLen + i]]
<1>1. HeaderLen \in Nat /\ TagLen \in Nat \ {0} /\ Len(b) \in Nat
  BY EnvelopeAssumption DEF EnvelopeAssumption, Row, HeaderLen, OffNonce, OffSalt
<1>2. n \in Nat \ {0}
  BY <1>1
<1>3. Row(t, n)
  BY <1>2 DEF Row
<1>4. \A i \in 1..n : t[i] = b[(HeaderLen + 1) - 1 + i]
  BY <1>1
<1> HIDE DEF t
<1>5. PartOf(t, n, b, Len(b), HeaderLen + 1, Len(b))
  BY <1>1, <1>2, <1>3, <1>4 DEF PartOf
<1>6. Ciphertext(b) = t
  BY <1>5, Slice DEF Ciphertext
<1> QED
  BY <1>2, <1>3, <1>6, RowIsSeq DEF t

\* The tag verifies.
SealOpens(b, pw) ==
    /\ Len(b) >= HeaderLen + TagLen /\ b[1] = MAGIC
    /\ Decrypts(DeriveKey(pw, UnpackParams(b), Salt(b)), Nonce(b), <<b[2], b[3]>>, Ciphertext(b))

SealedAsMade(b, pw, M) ==
    \E k \in M : /\ SameExcept(b, k.blob, Reserved)
                 /\ pw = k.password /\ Len(k.salt) = SaltLen
                 /\ Sealed(Ciphertext(b)) = Plain(k)

LEMMA SealedOnlyWhole ==
    ASSUME NEW M, AllSound(M), NEW b, FromMade(b, M), NEW pw, SealOpens(b, pw)
    PROVE  SealedAsMade(b, pw, M)
<1> USE DEF AllSound
<1> DEFINE ct  == Ciphertext(b)
           key == DeriveKey(pw, UnpackParams(b), Salt(b))
           top == HeaderLen + 1
<1>1. /\ Len(b) >= HeaderLen + TagLen /\ b[1] = MAGIC
      /\ Decrypts(key, Nonce(b), <<b[2], b[3]>>, ct)
  BY DEF SealOpens
<1>2. /\ SaltLen \in Nat \ {0} /\ NonceLen \in Nat \ {0} /\ TagLen \in Nat \ {0}
      /\ Len(b) \in Nat /\ HeaderLen = 9 + SaltLen + NonceLen
      /\ Len(b) >= HeaderLen + TagLen /\ top \in 10..Len(b)
  BY <1>1, EnvelopeAssumption
     DEF EnvelopeAssumption, FromMade, Row, HeaderLen, OffNonce, OffSalt
<1>3. /\ ct = [i \in 1..(Len(b) - HeaderLen) |-> b[HeaderLen + i]]
      /\ Len(ct) = Len(b) - HeaderLen
  BY <1>1, CiphertextCells DEF FromMade
<1>4. /\ ct = Encrypt(key, Nonce(b), <<b[2], b[3]>>, Sealed(ct))
      /\ ct[1] = b[top] /\ 1 \in DOMAIN ct
  BY <1>1, <1>2, <1>3 DEF Decrypts
<1>5. b[top] = <<"ct", key, Nonce(b), <<b[2], b[3]>>, Sealed(ct), 1>>
  BY <1>4 DEF Encrypt
<1>6. PICK k \in M : top \in 10..Size(k) /\ b[top] = k.blob[top]
  <2>1. b[top] # <<"damaged", top>>
    BY <1>5
  <2> QED
    BY <1>2, <2>1 DEF FromMade
<1>7. /\ top > Front(k)
      /\ k.blob[top] = <<"ct", SealKey(k), k.nonce, <<VERSION, 1>>, Plain(k), top - Front(k)>>
  <2>1. top <= 9 + Len(k.salt) => k.blob[top] = <<"salt", Id(k), top - 9>>
    BY <1>6, Cells
  <2>2. top > 9 + Len(k.salt) /\ top <= Front(k) =>
           k.blob[top] = <<"nonce", Id(k), top - (9 + Len(k.salt))>>
    BY <1>6, Cells
  <2>3. k.blob[top][1] = "ct"
    BY <1>5, <1>6
  <2>4. Len(k.salt) \in Nat /\ Front(k) \in Nat /\ top \in Nat
    BY <1>2, <1>6, Sizes
  <2>5. top > Front(k)
    BY <2>1, <2>2, <2>3, <2>4
  <2> QED
    BY <1>6, <2>5, Cells
<1>8. /\ key = SealKey(k) /\ Nonce(b) = k.nonce /\ <<b[2], b[3]>> = <<VERSION, 1>>
      /\ Sealed(ct) = Plain(k) /\ top - Front(k) = 1
  BY <1>5, <1>6, <1>7
<1>9. ct = Body(k) /\ Front(k) = HeaderLen /\ Len(k.salt) = SaltLen
  <2>1. ct = Body(k)
    BY <1>4, <1>8, Zenon DEF Body
  <2>2. Len(k.salt) \in Nat /\ Front(k) = 9 + Len(k.salt) + NonceLen
    BY <1>6 DEF Sound, Front
  <2> HIDE DEF ct
  <2>3. top = HeaderLen + 1 /\ Front(k) = HeaderLen
    <3>1. HeaderLen \in Nat /\ Front(k) \in Nat
      BY <1>2, <2>2
    <3>2. (HeaderLen + 1) - Front(k) = 1
      BY <1>8, Zenon
    <3> QED
      BY <3>1, <3>2
  <2>4. Len(k.salt) = SaltLen
    BY <1>2, <2>2, <2>3
  <2> QED
    BY <2>1, <2>3, <2>4
<1>10. pw = k.password /\ UnpackParams(b) = k.params /\ Salt(b) = k.salt
  BY <1>8 DEF SealKey, DeriveKey
<1>11. b[2] = VERSION /\ b[3] = 1
  BY <1>8
<1>12. Len(b) = Size(k)
  <2>1. DOMAIN Body(k) = 1..(Len(Plain(k)) + TagLen) /\ Len(Plain(k)) \in Nat
    BY <1>6, PlainCells DEF Body, Encrypt
  <2>2. DOMAIN ct = 1..(Len(b) - HeaderLen)
    BY <1>3
  <2>3. Len(Plain(k)) + TagLen = Len(b) - HeaderLen
    BY <1>2, <1>9, <2>1, <2>2
  <2> QED
    BY <1>2, <1>9, <2>1, <2>3 DEF Size
<1>13. ASSUME NEW i \in 1..Len(b), i # 9 PROVE b[i] = k.blob[i]
  <2>1. Row(b, Len(b)) /\ Row(k.blob, Len(b)) /\ Len(k.blob) = Len(b)
    BY <1>6, <1>12, BlobParts DEF Parts, FromMade
  <2>2. /\ k.blob[1] = MAGIC /\ k.blob[2] = VERSION /\ k.blob[3] = 1
        /\ UnpackParams(k.blob) = k.params
    BY <1>6, HeaderRead, OwnCopy
  <2>3. /\ Salt(k.blob) = k.salt /\ Nonce(k.blob) = k.nonce /\ Ciphertext(k.blob) = Body(k)
    BY <1>6, <1>9, BodyRead, OwnCopy
  <2>4. CASE i \in 1..3
    BY <1>1, <1>11, <2>2, <2>4
  <2>5. CASE i \in 4..8
    BY <1>10, <2>2, <2>5 DEF UnpackParams, OffKdf
  <2>6. CASE i \in 10..(9 + SaltLen)
    <3>1. SubSeq(b, 10, 9 + SaltLen) = SubSeq(k.blob, 10, 9 + SaltLen)
      <4>1. OffSalt = 10 /\ OffNonce - 1 = 9 + SaltLen
        BY <1>2 DEF OffSalt, OffNonce
      <4> QED
        BY <1>10, <2>3, <4>1 DEF Salt
    <3> QED
      BY <1>2, <2>1, <2>6, <3>1, SlicesAgree
  <2>7. CASE i \in (10 + SaltLen)..HeaderLen
    <3>1. SubSeq(b, 10 + SaltLen, HeaderLen) = SubSeq(k.blob, 10 + SaltLen, HeaderLen)
      BY <1>8, <2>3 DEF Nonce, OffNonce, OffSalt
    <3> QED
      BY <1>2, <2>1, <2>7, <3>1, SlicesAgree
  <2>8. CASE i \in (HeaderLen + 1)..Len(b)
    <3>1. SubSeq(b, HeaderLen + 1, Len(b)) = SubSeq(k.blob, HeaderLen + 1, Len(b))
      BY <1>9, <2>1, <2>3 DEF Ciphertext
    <3> QED
      BY <1>2, <2>1, <2>8, <3>1, SlicesAgree
  <2> QED
    BY <1>2, <1>13, <2>4, <2>5, <2>6, <2>7, <2>8
<1>14. SameExcept(b, k.blob, Reserved)
  <2>1. DOMAIN b = 1..Len(b)
    BY RowIsSeq DEF FromMade
  <2>2. Len(k.blob) = Len(b)
    BY <1>6, <1>12, BlobParts DEF Parts
  <2> QED
    BY <1>13, <2>1, <2>2 DEF SameExcept, Reserved
<1> QED
  BY <1>6, <1>8, <1>9, <1>10, <1>14 DEF SealedAsMade

LEMMA OpensOnlyWhole ==
    ASSUME NEW M, AllSound(M), NEW b, FromMade(b, M),
           NEW pw, Unpack(b, pw).status = "ok"
    PROVE  OpensAsMade(b, pw, M)
<1>1. /\ ~(Len(b) < HeaderLen + TagLen) /\ b[1] = MAGIC
      /\ Decrypts(DeriveKey(pw, UnpackParams(b), Salt(b)), Nonce(b), <<b[2], b[3]>>,
                  Ciphertext(b))
      /\ Unpack(b, pw) = UnpackPlaintext(Sealed(Ciphertext(b)))
  BY DEF Unpack, Raise
<1>2. Len(b) \in Nat /\ HeaderLen + TagLen \in Nat
  BY EnvelopeAssumption
     DEF EnvelopeAssumption, FromMade, Row, HeaderLen, OffNonce, OffSalt
<1>3. SealOpens(b, pw)
  BY <1>1, <1>2 DEF SealOpens
<1>4. SealedAsMade(b, pw, M)
  BY <1>3, SealedOnlyWhole
<1>5. \A k \in M : Sound(k)
  BY DEF AllSound
<1> QED
  BY <1>1, <1>4, <1>5, PlaintextRead DEF SealedAsMade, OpensAsMade

-----------------------------------------------------------------------------
\* Bytes keep their origin when keystores are added, when nothing is there, when
\* they are a keystore's own, and when one part is written over another.
LEMMA FromMore ==
    ASSUME NEW M, NEW N, M \subseteq N, NEW b, FromMade(b, M)
    PROVE  FromMade(b, N)
BY DEF FromMade

LEMMA FromNothing ==
    ASSUME NEW M
    PROVE  FromMade(<<>>, M) /\ FromMade(NoFile, M)
<1>1. Row(<<>>, 0) /\ Len(<<>>) = 0
  BY DEF Row
<1>2. Row(NoFile, 1) /\ Len(NoFile) = 1
  BY DEF Row, NoFile
<1> QED
  BY <1>1, <1>2 DEF FromMade

LEMMA FromItself ==
    ASSUME NEW M, NEW k \in M, Sound(k)
    PROVE  FromMade(k.blob, M) /\ k.blob # <<>> /\ Len(k.blob) = Size(k) /\ Size(k) \in Nat
<1>1. Row(k.blob, Size(k)) /\ Len(k.blob) = Size(k) /\ Size(k) \in Nat
  BY BlobParts DEF Parts, Row
<1>2. k.blob # <<>>
  <2>1. Size(k) > 10
    BY Sizes
  <2> QED
    BY <1>1, <2>1
<1> QED
  BY <1>1, <1>2 DEF FromMade

\* What write() leaves: the first n cells are new, the others what they were.
LEMMA Overwritten ==
    ASSUME NEW old, Row(old, Len(old)), NEW new, Row(new, Len(new)), NEW n \in 0..Len(new)
    PROVE  LET r == Overwrite(old, SubSeq(new, 1, n)) IN
           /\ Row(r, Len(r))
           /\ Len(r) = IF n < Len(old) THEN Len(old) ELSE n
           /\ \A i \in 1..n : r[i] = new[i]
           /\ \A i \in (n + 1)..Len(old) : r[i] = old[i]
<1> DEFINE head == SubSeq(new, 1, n)
           tail == SubSeq(old, n + 1, Len(old))
           m    == IF n < Len(old) THEN Len(old) - n ELSE 0
<1>1. /\ n \in Nat /\ Len(old) \in Nat /\ Len(new) \in Nat /\ n <= Len(new)
  BY DEF Row
<1>2. Row(head, n) /\ Len(head) = n /\ \A i \in 1..n : head[i] = new[i]
  <2> DEFINE t == [i \in 1..n |-> new[i]]
  <2>1. Row(t, n) /\ \A i \in 1..n : t[i] = new[1 - 1 + i]
    BY <1>1 DEF Row
  <2> HIDE DEF t
  <2> DEFINE lo == 1
  <2>2. PartOf(t, n, new, Len(new), lo, n)
    BY <1>1, <2>1 DEF PartOf
  <2> HIDE DEF lo
  <2>3. SubSeq(new, lo, n) = t
    BY <2>2, Slice
  <2>5. head = t
    BY <2>3 DEF lo
  <2>4. Len(t) = n /\ \A i \in 1..n : t[i] = new[i]
    BY <2>1, RowIsSeq DEF t
  <2> HIDE DEF head
  <2> QED
    BY <2>1, <2>4, <2>5
<1>3. Row(tail, m) /\ \A i \in 1..m : tail[i] = old[n + i]
  <2>1. CASE n < Len(old)
    <3> DEFINE t == [i \in 1..m |-> old[n + i]]
    <3>1. Row(t, m) /\ \A i \in 1..m : t[i] = old[n + 1 - 1 + i]
      BY <1>1, <2>1 DEF Row
    <3> HIDE DEF t
    <3>2. PartOf(t, m, old, Len(old), n + 1, Len(old))
      BY <1>1, <2>1, <3>1 DEF PartOf
    <3>3. tail = t
      BY <3>2, Slice
    <3> QED
      BY <1>1, <3>1, <3>3 DEF t
  <2>2. CASE ~(n < Len(old))
    <3>1. tail = <<>>
      BY <1>1, <2>2, SubSeqEmpty
    <3> QED
      BY <2>2, <3>1 DEF Row
  <2> QED
    BY <2>1, <2>2
<1> DEFINE r == head \o tail
<1>4. Overwrite(old, head) = r
  BY <1>2 DEF Overwrite
<1> HIDE DEF head, tail, m
<1>5. Joins(r, head, n, tail, m)
  BY <1>2, <1>3, Concatenation
<1> HIDE DEF r
<1>6. /\ Row(r, n + m) /\ Len(r) = n + m
      /\ \A i \in 1..n : r[i] = new[i]
      /\ \A i \in 1..m : r[n + i] = old[n + i]
  BY <1>2, <1>3, <1>5 DEF Joins
<1>7. n + m = IF n < Len(old) THEN Len(old) ELSE n
  BY <1>1 DEF m
<1>8. ASSUME NEW i \in (n + 1)..Len(old) PROVE r[i] = old[i]
  <2>1. i - n \in 1..m /\ n + (i - n) = i
    BY <1>1 DEF m
  <2> QED
    BY <1>6, <2>1
<1>9. Row(r, Len(r))
  BY <1>6
<1> QED
  BY <1>4, <1>6, <1>7, <1>8, <1>9 DEF head

LEMMA FromWriting ==
    ASSUME NEW M, NEW old, FromMade(old, M), NEW new, FromMade(new, M), NEW n \in 0..Len(new)
    PROVE  FromMade(Overwrite(old, SubSeq(new, 1, n)), M)
<1> DEFINE r == Overwrite(old, SubSeq(new, 1, n))
<1>1. /\ Row(r, Len(r))
      /\ Len(r) = IF n < Len(old) THEN Len(old) ELSE n
      /\ \A i \in 1..n : r[i] = new[i]
      /\ \A i \in (n + 1)..Len(old) : r[i] = old[i]
      /\ Len(old) \in Nat /\ Len(new) \in Nat
  BY Overwritten DEF FromMade, Row
<1> HIDE DEF r
<1>2. ASSUME NEW i \in 10..Len(r)
      PROVE  \/ r[i] = <<"damaged", i>>
             \/ \E k \in M : i \in 10..Size(k) /\ r[i] = k.blob[i]
  <2>1. CASE i <= n
    <3>1. i \in 1..n /\ i \in 10..Len(new)
      BY <1>1, <2>1
    <3>2. r[i] = new[i]
      BY <1>1, <3>1
    <3> QED
      BY <3>1, <3>2 DEF FromMade
  <2>2. CASE i > n
    <3>1. i \in (n + 1)..Len(old) /\ i \in 10..Len(old)
      BY <1>1, <2>2
    <3>2. r[i] = old[i]
      BY <1>1, <3>1
    <3> QED
      BY <3>1, <3>2 DEF FromMade
  <2> QED
    BY <1>1, <2>1, <2>2
<1> QED
  BY <1>1, <1>2 DEF FromMade, r

-----------------------------------------------------------------------------
\* Every keystore is what create() makes, from a draw of its own.
Created(M) ==
    /\ \A k \in M : Sound(k) /\ Id(k) < Cardinality(M)
    /\ \A k, l \in M : Id(k) = Id(l) => k = l

\* Whatever is read anywhere was written by some save, or damaged.
Origins ==
    /\ FromMade(file, made) /\ FromMade(disk, made)
    /\ \A p \in Readers : FromMade(ctx[p], made)

Domains ==
    /\ out = [p \in Savers |-> out[p]]
    /\ ctx = [p \in Readers |-> ctx[p]]
    /\ answer = [p \in Readers |-> answer[p]]

\* An answer is what unpack() makes of the blob that is still open.
AnswersCurrent ==
    \A p \in Readers :
        \/ answer[p].result.status = "none" \/ answer[p].password = ""
        \/ answer[p].result = Unpack(ctx[p], answer[p].password)

IInv ==
    /\ TypeOK
    /\ UnlockIsFaithful /\ AnswersCurrent
    /\ IsFiniteSet(made) /\ Created(made)
    /\ Origins
    /\ Domains

LEMMA Bounds == MaxKeystores \in Nat /\ MaxFaults \in Nat
BY KeystoreAssumption, Zenon DEF KeystoreAssumption

\* Keystore.create() makes a Sound keystore, from a draw nobody had before.
LEMMA CreateMakes ==
    ASSUME NEW pw \in Passwords, NEW seed \in Seeds, NEW params \in ParamSets,
           NEW salt_len \in SaltLens, NEW has_passphrase \in Passphrases,
           IsFiniteSet(made), Create(pw, seed, params, salt_len, has_passphrase)
    PROVE  \E k : /\ Sound(k) /\ Id(k) = Cardinality(made) /\ Len(k.salt) = salt_len
                  /\ made' = made \cup {k} /\ held' = held \cup {k}
                  /\ Cardinality(made) < MaxKeystores
                  /\ UNCHANGED <<file, disk, saving, out, ctx, answer, disturbed, whole, faults>>
<1> DEFINE id     == Cardinality(made)
           salt   == Random("salt", id, salt_len)
           nonce  == Random("nonce", id, NonceLen)
           flags  == IF has_passphrase THEN 1 ELSE 0
           packed == Pack(seed, pw, params, 1, flags, 0, salt, nonce)
           k      == [password |-> pw, seed |-> seed, params |-> params, flags |-> flags,
                      salt |-> salt, nonce |-> nonce, blob |-> packed.blob]
<1>1. /\ id < MaxKeystores /\ packed.status = "ok"
      /\ made' = made \cup {k} /\ held' = held \cup {k}
      /\ UNCHANGED <<file, disk, saving, out, ctx, answer, disturbed, whole, faults>>
  BY DEF Create
<1>2. id \in Nat
  BY FS_CardinalityType
<1>3. /\ Len(seed) <= MaxSeedLen /\ params.hash_len = KeyLen /\ Argon2Accepts(params)
      /\ packed.blob = PackHeader(1, params) \o salt \o nonce
                         \o Encrypt(DeriveKey(pw, params, salt), nonce, <<VERSION, 1>>,
                                    PackPlaintext(seed, 0, flags))
  <2>1. Len(seed) \in Nat
    <3>1. seed \in Seq(0..255)
      BY KeystoreAssumption DEF KeystoreAssumption
    <3> QED
      BY <3>1, LenProperties
  <2>2. ~(Len(seed) > MaxSeedLen) /\ params.hash_len = KeyLen /\ Argon2Accepts(params)
    BY <1>1 DEF Pack, Raise
  <2> QED
    BY <2>1, <2>2, EnvelopeAssumption DEF EnvelopeAssumption, Pack
<1>4. salt_len \in Nat \ {0} /\ NonceLen \in Nat \ {0} /\ flags \in {0, 1}
  BY KeystoreAssumption, EnvelopeAssumption DEF KeystoreAssumption, EnvelopeAssumption
<1> HIDE DEF id, flags, packed
<1>5. Len(salt) = salt_len /\ nonce[1] = <<"nonce", id, 1>>
  BY <1>4 DEF Random
<1> HIDE DEF salt, nonce
<1>6. /\ k.password = pw /\ k.seed = seed /\ k.params = params /\ k.flags = flags
      /\ k.salt = salt /\ k.nonce = nonce /\ k.blob = packed.blob
  OBVIOUS
<1> HIDE DEF k
<1>7. Id(k) = id /\ Len(k.salt) = salt_len
  BY <1>5, <1>6 DEF Id
<1>8. k.salt = Random("salt", Id(k), Len(k.salt)) /\ k.nonce = Random("nonce", Id(k), NonceLen)
  BY <1>6, <1>7 DEF salt, nonce
<1>9. k.blob = PackHeader(1, k.params) \o k.salt \o k.nonce \o Body(k)
  BY <1>3, <1>6, Zenon DEF Body, SealKey, Plain
<1>10. Sound(k)
  BY <1>2, <1>3, <1>4, <1>6, <1>7, <1>8, <1>9 DEF Sound
<1> QED
  BY <1>1, <1>7, <1>10 DEF id

LEMMA Initially == Init => IInv
<1> SUFFICES ASSUME Init PROVE IInv
  OBVIOUS
<1>1. IsFiniteSet(made) /\ Cardinality(made) = 0
  BY FS_EmptySet DEF Init
<1>2. TypeOK
  <2>1. Cardinality(made) <= MaxKeystores /\ faults \in 0..MaxFaults
    BY <1>1, Bounds DEF Init
  <2>2. \A p \in Savers : out[p] = <<>>
    BY DEF Init
  <2> QED
    BY <2>1, <2>2 DEF Init, TypeOK
<1>3. UnlockIsFaithful
  BY DEF Init, UnlockIsFaithful, NoAnswer, Raise
<1>4. Created(made)
  BY DEF Init, Created
<1>5. Origins
  BY FromNothing DEF Init, Origins
<1>6. Domains
  BY DEF Init, Domains
<1>7. AnswersCurrent
  BY DEF Init, AnswersCurrent, NoAnswer
<1> QED
  BY <1>1, <1>2, <1>3, <1>4, <1>5, <1>6, <1>7 DEF IInv

LEMMA AnswersKept ==
    ASSUME IInv, UNCHANGED <<ctx, answer>>
    PROVE  AnswersCurrent'
BY DEF IInv, AnswersCurrent

LEMMA CreateStep ==
    ASSUME IInv, NEW pw \in Passwords, NEW seed \in Seeds, NEW params \in ParamSets,
           NEW salt_len \in SaltLens, NEW has_passphrase \in Passphrases,
           Create(pw, seed, params, salt_len, has_passphrase)
    PROVE  IInv'
<1>1. PICK k : /\ Sound(k) /\ Id(k) = Cardinality(made)
               /\ made' = made \cup {k} /\ held' = held \cup {k}
               /\ Cardinality(made) < MaxKeystores
               /\ UNCHANGED <<file, disk, saving, out, ctx, answer, disturbed, whole, faults>>
  BY CreateMakes DEF IInv
<1>2. /\ IsFiniteSet(made) /\ Cardinality(made) \in Nat
      /\ \A l \in made : Id(l) < Cardinality(made) /\ Id(l) \in Nat
  BY FS_CardinalityType DEF IInv, Created, Sound
<1>3. k \notin made
  BY <1>1, <1>2
<1>4. IsFiniteSet(made') /\ Cardinality(made') = Cardinality(made) + 1
  BY <1>1, <1>2, <1>3, FS_AddElement
<1>5. Created(made')
  <2>1. \A l \in made' : Sound(l) /\ Id(l) < Cardinality(made')
    BY <1>1, <1>2, <1>4 DEF IInv, Created
  <2>2. \A l, m \in made' : Id(l) = Id(m) => l = m
    BY <1>1, <1>2 DEF IInv, Created
  <2> QED
    BY <2>1, <2>2 DEF Created
<1>6. TypeOK'
  <2>1. \A l \in made' : l.password \in Passwords /\ l.seed \in Seeds
    BY <1>5 DEF Created, Sound
  <2>2. Cardinality(made') <= MaxKeystores
    <3> DEFINE c == Cardinality(made)
    <3>1. /\ c \in Nat /\ MaxKeystores \in Nat /\ c < MaxKeystores
          /\ Cardinality(made') = c + 1
      BY <1>1, <1>2, <1>4, KeystoreAssumption DEF KeystoreAssumption
    <3> HIDE DEF c
    <3> QED
      BY <3>1
  <2> QED
    BY <1>1, <2>1, <2>2 DEF IInv, TypeOK
<1>7. UnlockIsFaithful'
  BY <1>1 DEF IInv, UnlockIsFaithful
<1>8. Origins'
  <2>1. made \subseteq made'
    BY <1>1
  <2> QED
    BY <1>1, <2>1, FromMore DEF IInv, Origins
<1>9. Domains'
  BY <1>1 DEF IInv, Domains
<1> QED
  BY <1>1, <1>4, <1>5, <1>6, <1>7, <1>8, <1>9, AnswersKept DEF IInv

LEMMA DamageStep ==
    ASSUME IInv, NEW i \in DOMAIN file, Damage(i)
    PROVE  IInv'
<1>1. PICK cell \in Damaged(i) :
        /\ faults < MaxFaults /\ faults' = faults + 1
        /\ file' = [file EXCEPT ![i] = cell] /\ disk' = file'
        /\ UNCHANGED <<made, held, saving, out, ctx, answer, disturbed, whole>>
  BY DEF Damage
<1>2. Row(file, Len(file)) /\ i \in 1..Len(file)
  BY RowIsSeq DEF IInv, Origins, FromMade
<1>3. FromMade(file', made)
  <2> DEFINE n == Len(file)
             f == [j \in 1..n |-> IF j = i THEN cell ELSE file[j]]
  <2>3. n \in Nat /\ Row(f, n)
    BY <1>2 DEF Row
  <2>4. file' = f
    BY <1>1, <1>2 DEF Row
  <2>5. Len(f) = n
    BY <2>3, RowIsSeq
  <2> HIDE DEF f
  <2>1. Row(file', Len(file')) /\ Len(file') = Len(file)
    BY <2>3, <2>4, <2>5
  <2>2. ASSUME NEW j \in 10..Len(file')
        PROVE  \/ file'[j] = <<"damaged", j>>
               \/ \E k \in made : j \in 10..Size(k) /\ file'[j] = k.blob[j]
    <3>1. CASE i = j
      <4>1. cell = <<"damaged", j>>
        BY <1>1, <3>1 DEF Damaged, OffKdf
      <4> QED
        BY <1>1, <1>2, <3>1, <4>1
    <3>2. CASE i # j
      <4>1. file'[j] = file[j]
        BY <1>1, <1>2, <2>1, <3>2
      <4> QED
        BY <2>1, <4>1 DEF IInv, Origins, FromMade
    <3> QED
      BY <3>1, <3>2
  <2> QED
    BY <2>1, <2>2 DEF FromMade
<1>4. TypeOK'
  <2>1. faults \in 0..MaxFaults
    BY DEF IInv, TypeOK
  <2>2. faults' \in 0..MaxFaults
    BY <1>1, <2>1, Bounds
  <2> QED
    BY <1>1, <2>2 DEF IInv, TypeOK
<1>5. UnlockIsFaithful'
  BY <1>1 DEF IInv, UnlockIsFaithful
<1>6. Origins'
  BY <1>1, <1>3 DEF IInv, Origins
<1>7. Domains'
  BY <1>1 DEF IInv, Domains
<1> QED
  BY <1>1, <1>4, <1>5, <1>6, <1>7, AnswersKept DEF IInv

LEMMA FlushStep == ASSUME IInv, Flush PROVE IInv'
<1>1. /\ disk' \in {file, <<>>}
      /\ UNCHANGED <<made, held, file, saving, out, ctx, answer, disturbed, whole, faults>>
  BY DEF Flush
<1>2. Origins'
  BY <1>1, FromNothing DEF IInv, Origins
<1> QED
  BY <1>1, <1>2, AnswersKept DEF IInv, TypeOK, UnlockIsFaithful, Domains

LEMMA PowerLossStep == ASSUME IInv, PowerLoss PROVE IInv'
<1>1. Origins'
  BY FromNothing DEF PowerLoss, IInv, Origins
<1>2. TypeOK'
  BY DEF PowerLoss, IInv, TypeOK
<1>3. UnlockIsFaithful'
  BY DEF PowerLoss, UnlockIsFaithful, NoAnswer, Raise
<1>4. Domains'
  BY DEF PowerLoss, Domains
<1>5. AnswersCurrent'
  BY DEF PowerLoss, AnswersCurrent, NoAnswer
<1> QED
  BY <1>1, <1>2, <1>3, <1>4, <1>5 DEF PowerLoss, IInv

LEMMA SaveOpenStep ==
    ASSUME IInv, NEW p \in Savers, NEW k \in held, SaveOpen(p, k)
    PROVE  IInv'
<1>1. k \in made /\ Sound(k)
  BY DEF IInv, TypeOK, Created
<1>2. TypeOK'
  <2>1. out' = [out EXCEPT ![p] = k.blob] /\ k.blob # <<>> /\ DOMAIN out = Savers
    BY <1>1, FromItself DEF SaveOpen, IInv, Domains
  <2>2. \A q \in Savers : out'[q] = IF q = p THEN k.blob ELSE out[q]
    BY <2>1
  <2>3. \A q \in Savers : out'[q] # <<>> <=> q \in saving'
    BY <2>1, <2>2 DEF SaveOpen, IInv, TypeOK
  <2>4. \A q \in Savers : out'[q] # <<>> => \E l \in made : out'[q] = l.blob
    BY <1>1, <2>2 DEF SaveOpen, IInv, TypeOK
  <2> QED
    BY <2>3, <2>4 DEF SaveOpen, IInv, TypeOK
<1>3. UnlockIsFaithful'
  BY DEF SaveOpen, IInv, UnlockIsFaithful
<1>4. Origins'
  BY FromNothing DEF SaveOpen, IInv, Origins
<1>5. Domains'
  BY DEF SaveOpen, IInv, Domains
<1> QED
  BY <1>2, <1>3, <1>4, <1>5, AnswersKept DEF SaveOpen, IInv

LEMMA SaveWriteStep ==
    ASSUME IInv, NEW p \in Savers, NEW n \in 0..Len(out[p]), SaveWrite(p, n)
    PROVE  IInv'
<1>1. PICK k \in made : out[p] = k.blob
  BY DEF SaveWrite, IInv, TypeOK
<1>2. FromMade(out[p], made)
  BY <1>1, FromItself DEF IInv, Created
<1>3. TypeOK'
  <2>1. out' = [out EXCEPT ![p] = <<>>] /\ DOMAIN out = Savers
    BY DEF SaveWrite, IInv, Domains
  <2>2. \A q \in Savers : out'[q] = IF q = p THEN <<>> ELSE out[q]
    BY <2>1
  <2>3. \A q \in Savers : out'[q] # <<>> <=> q \in saving'
    BY <2>2 DEF SaveWrite, IInv, TypeOK
  <2>4. \A q \in Savers : out'[q] # <<>> => \E l \in made : out'[q] = l.blob
    BY <2>2 DEF SaveWrite, IInv, TypeOK
  <2>5. disturbed' => saving' # {}
    BY DEF SaveWrite, IInv, TypeOK
  <2> QED
    BY <2>3, <2>4, <2>5 DEF SaveWrite, IInv, TypeOK
<1>4. UnlockIsFaithful'
  BY DEF SaveWrite, IInv, UnlockIsFaithful
<1>5. Origins'
  <2>1. FromMade(file', made)
    BY <1>2, FromWriting DEF SaveWrite, IInv, Origins
  <2> QED
    BY <2>1 DEF SaveWrite, IInv, Origins
<1>6. Domains'
  BY DEF SaveWrite, IInv, Domains
<1> QED
  BY <1>3, <1>4, <1>5, <1>6, AnswersKept DEF SaveWrite, IInv

LEMMA OpenStep == ASSUME IInv, NEW p \in Readers, Open(p) PROVE IInv'
<1>1. /\ \A q \in Readers : ctx'[q] = IF q = p THEN file ELSE ctx[q]
      /\ \A q \in Readers : answer'[q] = IF q = p THEN NoAnswer ELSE answer[q]
      /\ UNCHANGED <<made, held, file, disk, saving, out, disturbed, whole, faults>>
  BY DEF Open, IInv, Domains
<1>2. UnlockIsFaithful'
  <2> SUFFICES ASSUME NEW q \in Readers, answer'[q].result.status = "ok"
               PROVE  \E k \in made : /\ SameExcept(ctx'[q], k.blob, Reserved)
                                      /\ answer'[q].password = k.password
                                      /\ answer'[q].result.seed = k.seed
    BY <1>1 DEF UnlockIsFaithful
  <2>1. q # p
    <3>1. NoAnswer.result.status # "ok"
      BY DEF NoAnswer, Raise
    <3> QED
      BY <1>1, <3>1
  <2>2. answer'[q] = answer[q] /\ ctx'[q] = ctx[q]
    BY <1>1, <2>1
  <2> QED
    BY <2>2 DEF IInv, UnlockIsFaithful
<1>3. Origins'
  BY <1>1 DEF IInv, Origins
<1>4. Domains'
  BY DEF Open, IInv, Domains
<1>5. AnswersCurrent'
  <2>1. NoAnswer.password = ""
    BY DEF NoAnswer
  <2> QED
    BY <1>1, <2>1 DEF IInv, AnswersCurrent
<1> QED
  BY <1>1, <1>2, <1>3, <1>4, <1>5 DEF IInv, TypeOK

LEMMA UnlockStep ==
    ASSUME IInv, NEW p \in Readers, NEW pw \in Passwords \cup {""}, Unlock(p, pw)
    PROVE  IInv'
<1> DEFINE result == IF pw = "" THEN Raise("ValueError") ELSE Unpack(ctx[p], pw)
<1>1. /\ \A q \in Readers : answer'[q] = IF q = p THEN [password |-> pw, result |-> result]
                                                  ELSE answer[q]
      /\ UNCHANGED <<made, held, file, disk, saving, out, ctx, disturbed, whole, faults>>
  BY DEF Unlock, IInv, Domains
<1> HIDE DEF result
<1>2. answer'[p].password = pw /\ answer'[p].result = result
  <2> DEFINE r == [password |-> pw, result |-> result]
  <2>1. answer'[p] = r
    BY <1>1
  <2>2. r.password = pw /\ r.result = result
    OBVIOUS
  <2> HIDE DEF r
  <2> QED
    BY <2>1, <2>2
<1>3. ASSUME result.status = "ok"
      PROVE  \E k \in made : /\ SameExcept(ctx[p], k.blob, Reserved)
                             /\ pw = k.password /\ result.seed = k.seed
  <2>1. pw # ""
    BY <1>3 DEF result, Raise
  <2>2. result = Unpack(ctx[p], pw)
    BY <2>1 DEF result
  <2> DEFINE b == ctx[p]
  <2>3. AllSound(made) /\ FromMade(b, made)
    BY DEF IInv, Created, Origins, AllSound
  <2> HIDE DEF b
  <2>4. Unpack(b, pw).status = "ok" /\ result.seed = Unpack(b, pw).seed
    BY <1>3, <2>2 DEF b
  <2>5. OpensAsMade(b, pw, made)
    BY <2>3, <2>4, OpensOnlyWhole
  <2> QED
    BY <2>4, <2>5 DEF b, OpensAsMade
<1>4. UnlockIsFaithful'
  <2> SUFFICES ASSUME NEW q \in Readers, answer'[q].result.status = "ok"
               PROVE  \E k \in made : /\ SameExcept(ctx[q], k.blob, Reserved)
                                      /\ answer'[q].password = k.password
                                      /\ answer'[q].result.seed = k.seed
    BY <1>1 DEF UnlockIsFaithful
  <2>1. CASE q = p
    BY <1>2, <1>3, <2>1
  <2>2. CASE q # p
    BY <1>1, <2>2 DEF IInv, UnlockIsFaithful
  <2> QED
    BY <2>1, <2>2
<1>5. Domains'
  BY DEF Unlock, IInv, Domains
<1>6. AnswersCurrent'
  <2>1. pw = "" \/ result = Unpack(ctx[p], pw)
    BY DEF result
  <2>2. \A q \in Readers : q # p => answer'[q] = answer[q]
    BY <1>1
  <2> QED
    BY <1>1, <1>2, <2>1, <2>2 DEF IInv, AnswersCurrent
<1> QED
  BY <1>1, <1>4, <1>5, <1>6 DEF IInv, TypeOK, Origins

LEMMA Inductive == IInv /\ [Next]_vars => IInv'
<1> SUFFICES ASSUME IInv, [Next]_vars PROVE IInv'
  OBVIOUS
<1>1. ASSUME NEW pw \in Passwords, NEW seed \in Seeds, NEW params \in ParamSets,
             NEW salt_len \in SaltLens, NEW has_passphrase \in Passphrases,
             Create(pw, seed, params, salt_len, has_passphrase)
      PROVE  IInv'
  BY <1>1, CreateStep
<1>2. ASSUME NEW i \in DOMAIN file, Damage(i) PROVE IInv'
  BY <1>2, DamageStep
<1>3. ASSUME Flush PROVE IInv'
  BY <1>3, FlushStep
<1>4. ASSUME PowerLoss PROVE IInv'
  BY <1>4, PowerLossStep
<1>5. ASSUME NEW p \in Savers, NEW k \in held, SaveOpen(p, k) PROVE IInv'
  BY <1>5, SaveOpenStep
<1>6. ASSUME NEW p \in Savers, NEW n \in (Cuts \cap 0..Len(out[p])) \cup {Len(out[p])},
             SaveWrite(p, n)
      PROVE  IInv'
  <2>1. n \in 0..Len(out[p])
    <3>1. \E k \in made : out[p] = k.blob
      BY <1>6 DEF SaveWrite, IInv, TypeOK
    <3>2. Len(out[p]) \in Nat
      BY <3>1, FromItself DEF IInv, Created
    <3> QED
      BY <3>2
  <2> QED
    BY <1>6, <2>1, SaveWriteStep
<1>7. ASSUME NEW p \in Readers, Open(p) PROVE IInv'
  BY <1>7, OpenStep
<1>8. ASSUME NEW p \in Readers, NEW pw \in Passwords \cup {""}, Unlock(p, pw) PROVE IInv'
  BY <1>8, UnlockStep
<1>9. CASE UNCHANGED vars
  BY <1>9, AnswersKept DEF vars, IInv, TypeOK, UnlockIsFaithful, Origins, Domains
<1> QED
  BY <1>1, <1>2, <1>3, <1>4, <1>5, <1>6, <1>7, <1>8, <1>9 DEF Next

LEMMA Invariance == Spec => []IInv
BY Initially, Inductive, PTL DEF Spec

\* A process is inside save() exactly as long as it has a keystore's blob still
\* to write, overlapping saves are known only while one is under way, and the
\* bounds hold (Keystore.save(), and create()'s inputs).
THEOREM TypeCorrect == Spec => []TypeOK
<1>1. IInv => TypeOK
  BY DEF IInv
<1> QED
  BY <1>1, Invariance, PTL

\* KeystoreContext.unlock() gives a seed only for the bytes of some create(),
\* under its password, and then that keystore's seed.
THEOREM UnlocksAreFaithful == Spec => []UnlockIsFaithful
<1>1. IInv => UnlockIsFaithful
  BY DEF IInv
<1> QED
  BY <1>1, Invariance, PTL

\* With the parameters of a keystore unpack() gets to the tag.
LEMMA HeaderKept ==
    ASSUME NEW k, Sound(k), NEW b,
           \A i \in 1..8 : b[i] = k.blob[i],
           NEW pw, Len(b) \in Nat
    PROVE  Unpack(b, pw).status = "KeystoreDecryptionError" \/ SealOpens(b, pw)
<1>1. Copies(k.blob, k)
  BY OwnCopy
<1>2. /\ b[1] = MAGIC /\ b[2] = VERSION /\ b[3] = 1 /\ UnpackParams(b) = k.params
  BY <1>1, HeaderRead DEF UnpackParams, OffKdf
<1>3. Argon2Accepts(UnpackParams(b)) /\ UnpackParams(b).hash_len = KeyLen
  BY <1>2 DEF Sound
<1>4. HeaderLen + TagLen \in Nat
  BY EnvelopeAssumption DEF EnvelopeAssumption, HeaderLen, OffNonce, OffSalt
<1>5. Raise("KeystoreDecryptionError").status = "KeystoreDecryptionError"
  BY DEF Raise
<1>6. CASE Len(b) < HeaderLen + TagLen
  BY <1>5, <1>6 DEF Unpack
<1>7. CASE ~(Len(b) < HeaderLen + TagLen)
  <2>1. CASE Decrypts(DeriveKey(pw, UnpackParams(b), Salt(b)), Nonce(b), <<b[2], b[3]>>,
                      Ciphertext(b))
    BY <1>2, <1>4, <1>7, <2>1 DEF SealOpens
  <2>2. CASE ~Decrypts(DeriveKey(pw, UnpackParams(b), Salt(b)), Nonce(b), <<b[2], b[3]>>,
                       Ciphertext(b))
    <3>1. Unpack(b, pw) = Raise("KeystoreDecryptionError")
      BY <1>2, <1>3, <1>7, <2>2, Zenon DEF Unpack
    <3> QED
      BY <1>5, <3>1
  <2> QED
    BY <2>1, <2>2
<1> QED
  BY <1>6, <1>7

\* Bytes whose tag verifies are a whole blob of some keystore, once their
\* reserved cell is what create() writes.
LEMMA SealedIsBlob ==
    ASSUME NEW M, AllSound(M), NEW b, FromMade(b, M), NEW pw, SealOpens(b, pw), b[9] = 0
    PROVE  \E l \in M : b = l.blob
<1>1. PICK l \in M : SameExcept(b, l.blob, Reserved)
  BY SealedOnlyWhole DEF SealedAsMade
<1>2. Sound(l) /\ Row(b, Len(b))
  BY DEF AllSound, FromMade
<1>3. Copies(b, l) /\ Row(l.blob, Size(l)) /\ l.blob[9] = 0
  <2>1. l.blob[9] = PackHeader(1, l.params)[9]
    BY <1>2, BlobParts DEF Parts
  <2> QED
    BY <1>1, <1>2, <2>1, CopyIsSame, BlobParts DEF Parts, PackHeader
<1>4. \A i \in 1..Size(l) : b[i] = l.blob[i]
  BY <1>3 DEF Copies
<1>5. b = l.blob
  BY <1>3, <1>4 DEF Copies, Row
<1> QED
  BY <1>5

\* A file cut short holds the first cells of what was written.
LEMMA PrefixCells ==
    ASSUME NEW c, NEW n, Row(c, n), NEW b, Row(b, Len(b)), Len(b) < n,
           b = SubSeq(c, 1, Len(b))
    PROVE  \A i \in 1..Len(b) : b[i] = c[i]
<1> DEFINE m == Len(b)
           t == [i \in 1..m |-> c[i]]
           lo == 1
<1>1. m \in Nat /\ n \in Nat /\ m < n
  BY DEF Row
<1>2. Row(t, m)
  BY <1>1 DEF Row
<1> HIDE DEF m
<1>3. \A i \in 1..m : t[i] = c[i] /\ t[i] = c[1 - 1 + i]
  BY <1>1
<1> HIDE DEF t
<1>4. PartOf(t, m, c, n, lo, m)
  BY <1>1, <1>2, <1>3 DEF PartOf
<1> HIDE DEF lo
<1>5. SubSeq(c, lo, m) = t
  BY <1>4, Slice
<1>6. b = t
  BY <1>5 DEF lo, m
<1> QED
  BY <1>3, <1>6 DEF m

\* Two keystores with the same first byte of salt are one.
LEMMA SameDraw ==
    ASSUME NEW M, Created(M), NEW k \in M, NEW l \in M, k.blob[10] = l.blob[10]
    PROVE  k = l
<1>1. ASSUME NEW x \in M PROVE x.blob[10] = <<"salt", Id(x), 1>>
  <2>0. Sound(x)
    BY DEF Created
  <2>1. 10 \in 10..Size(x) /\ 10 <= 9 + Len(x.salt)
    BY <2>0, Sizes
  <2>2. PICK i \in 10..Size(x) : i = 10
    BY <2>1
  <2>3. x.blob[i] = <<"salt", Id(x), i - 9>>
    BY <2>0, <2>1, <2>2, Cells
  <2> QED
    BY <2>2, <2>3
<1>2. <<"salt", Id(k), 1>> = <<"salt", Id(l), 1>>
  BY <1>1
<1>3. Id(k) = Id(l)
  BY <1>2
<1> QED
  BY <1>3 DEF Created

\* The tag covers the length of what it seals.
LEMMA CutOpensNot ==
    ASSUME NEW M, Created(M), NEW k \in M, NEW b, FromMade(b, M),
           \A i \in 1..Len(b) : b[i] = k.blob[i], Len(b) < Size(k), NEW pw
    PROVE  ~SealOpens(b, pw)
<1> SUFFICES ASSUME SealOpens(b, pw) PROVE FALSE
  OBVIOUS
<1>1. AllSound(M) /\ Sound(k) /\ Row(b, Len(b))
  BY DEF Created, AllSound, FromMade
<1>2. PICK l \in M : SameExcept(b, l.blob, Reserved)
  BY <1>1, SealedOnlyWhole DEF SealedAsMade
<1>3. Copies(b, l) /\ Size(l) \in Nat /\ Size(l) > 10
  BY <1>1, <1>2, CopyIsSame, Sizes DEF AllSound
<1>4. b[10] = l.blob[10] /\ b[10] = k.blob[10]
  BY <1>3 DEF Copies
<1>5. k = l
  BY <1>4, SameDraw
<1> QED
  BY <1>3, <1>5 DEF Copies

\* A keystore with a salt of the header's length unlocks with its password to
\* its seed and flags: unpack() reads every part where pack() put it.  One with
\* a salt of any other length is sealed for good.
THEOREM KeystoresUnlock == Spec => []RoundTrip
<1>1. IInv => RoundTrip
  <2> SUFFICES ASSUME IInv, NEW k \in made
               PROVE  LET r == Unpack(k.blob, k.password)
                      IN  IF Len(k.salt) = SaltLen
                            THEN r.status = "ok" /\ r.seed = k.seed /\ r.flags = k.flags
                            ELSE r.status = "KeystoreDecryptionError"
    BY DEF RoundTrip
  <2>1. /\ Sound(k) /\ AllSound(made) /\ Created(made) /\ FromMade(k.blob, made)
        /\ Len(k.blob) \in Nat
    BY FromItself DEF IInv, Created, AllSound
  <2>2. CASE Len(k.salt) = SaltLen
    BY <2>1, <2>2, Unpacks, OwnCopy
  <2>3. CASE Len(k.salt) # SaltLen
    <3>1. ~SealOpens(k.blob, k.password)
      <4> SUFFICES ASSUME SealOpens(k.blob, k.password) PROVE FALSE
        OBVIOUS
      <4>1. PICK l \in made : SameExcept(k.blob, l.blob, Reserved) /\ Len(l.salt) = SaltLen
        BY <2>1, SealedOnlyWhole DEF SealedAsMade
      <4>2. Sound(l) /\ Row(k.blob, Len(k.blob))
        BY <2>1 DEF AllSound, FromMade
      <4>3. 10 \in 1..Size(l)
        BY <4>2, Sizes
      <4>4. Copies(k.blob, l)
        BY <4>1, <4>2, CopyIsSame
      <4>5. k.blob[10] = l.blob[10]
        BY <4>3, <4>4 DEF Copies
      <4>6. k = l
        BY <2>1, <4>5, SameDraw
      <4> QED
        BY <2>3, <4>1, <4>6
    <3> QED
      BY <2>1, <2>3, <3>1, HeaderKept
  <2> QED
    BY <2>2, <2>3
<1> QED
  BY <1>1, Invariance, PTL

\* SECURITY.md's table of failures, for the rows the code meets: an envelope cut
\* short or damaged after its header is a KeystoreDecryptionError, one whose
\* magic or version changed a KeystoreVersionError.
THEOREM DamageReported == Spec => []DamageIsReported
<1>1. IInv => DamageIsReported
  <2> SUFFICES ASSUME IInv, NEW p \in Readers, NEW k \in made,
                      answer[p].result.status # "none", answer[p].password = k.password
               PROVE  LET b      == ctx[p]
                          status == answer[p].result.status
                      IN  /\ Len(b) < Len(k.blob) /\ b = SubSeq(k.blob, 1, Len(b))
                                => status = "KeystoreDecryptionError"
                          /\ SameExcept(b, k.blob, OffSalt..Len(b)) /\ (\A l \in made : b # l.blob)
                                => status = "KeystoreDecryptionError"
                          /\ SameExcept(b, k.blob, DOMAIN b) /\ (b[1] # MAGIC \/ b[2] # VERSION)
                                                            /\ Len(k.salt) >= SaltLen
                                => status = "KeystoreVersionError"
    BY DEF DamageIsReported
  <2> DEFINE b      == ctx[p]
             status == answer[p].result.status
             pw     == k.password
  <2>1. /\ Sound(k) /\ Created(made) /\ AllSound(made) /\ FromMade(b, made) /\ Row(b, Len(b))
        /\ Len(b) \in Nat /\ DOMAIN b = 1..Len(b)
        /\ Len(k.blob) = Size(k) /\ Row(k.blob, Size(k)) /\ DOMAIN k.blob = 1..Size(k)
    BY BlobParts, RowIsSeq DEF IInv, Created, AllSound, Origins, FromMade, Row, Parts
  <2>2. pw # ""
    BY <2>1, KeystoreAssumption DEF KeystoreAssumption, Sound
  <2>3. status = Unpack(b, pw).status
    BY <2>2 DEF IInv, AnswersCurrent
  <2>4. Size(k) \in Nat /\ Size(k) > 10 /\ HeaderLen \in Nat
    BY <2>1, Sizes, EnvelopeAssumption
       DEF EnvelopeAssumption, HeaderLen, OffNonce, OffSalt
  <2> HIDE DEF b, status, pw
  <2>5. ASSUME Len(b) < Len(k.blob), b = SubSeq(k.blob, 1, Len(b))
        PROVE  status = "KeystoreDecryptionError"
    <3> DEFINE l == Len(b)
    <3>1. \A i \in 1..l : b[i] = k.blob[i]
      BY <2>1, <2>5, PrefixCells
    <3>2. l \in Nat /\ l < Size(k)
      BY <2>1, <2>5
    <3>3. CASE l < HeaderLen + TagLen
      BY <2>3, <3>3 DEF Unpack, Raise
    <3>4. CASE ~(l < HeaderLen + TagLen)
      <4>1. HeaderLen + TagLen \in Nat /\ HeaderLen >= 11 /\ TagLen \in Nat \ {0}
        BY EnvelopeAssumption DEF EnvelopeAssumption, HeaderLen, OffNonce, OffSalt
      <4> HIDE DEF l
      <4>4. \A i \in 1..8 : i \in 1..l
        BY <2>4, <3>2, <3>4, <4>1
      <4>2. \A i \in 1..8 : b[i] = k.blob[i]
        BY <3>1, <4>4
      <4>3. ~SealOpens(b, pw)
        BY <2>1, <3>1, <3>2, CutOpensNot DEF l
      <4> QED
        BY <2>1, <2>3, <4>2, <4>3, HeaderKept
    <3> QED
      BY <3>3, <3>4
  <2>6. ASSUME SameExcept(b, k.blob, OffSalt..Len(b)), \A l \in made : b # l.blob
        PROVE  status = "KeystoreDecryptionError"
    <3>1. /\ \A i \in 1..8 : b[i] = k.blob[i]
          /\ b[9] = k.blob[9]
      <4>1. Len(b) = Size(k) /\ \A i \in 1..9 : i \in DOMAIN b \ (10..Len(b))
        BY <2>1, <2>4, <2>6 DEF SameExcept
      <4> QED
        BY <2>6, <4>1 DEF SameExcept, OffSalt
    <3>2. k.blob[9] = 0
      <4>1. k.blob[9] = PackHeader(1, k.params)[9]
        BY <2>1, BlobParts DEF Parts
      <4> QED
        BY <4>1 DEF PackHeader
    <3>3. ~SealOpens(b, pw)
      BY <2>1, <2>6, <3>1, <3>2, SealedIsBlob
    <3> QED
      BY <2>1, <2>3, <3>1, <3>3, HeaderKept
  <2>7. ASSUME SameExcept(b, k.blob, DOMAIN b), b[1] # MAGIC \/ b[2] # VERSION,
               Len(k.salt) >= SaltLen
        PROVE  status = "KeystoreVersionError"
    <3>1. ~(Len(b) < HeaderLen + TagLen)
      <4>1. Size(k) >= HeaderLen + TagLen /\ HeaderLen + TagLen \in Nat
        <5> DEFINE n == Len(Plain(k))
                   m == Len(k.salt)
        <5>1. /\ n \in Nat /\ m \in Nat /\ m >= SaltLen
              /\ Size(k) = (9 + m + NonceLen) + (n + TagLen)
          BY <2>1, <2>7, Sizes
        <5> HIDE DEF n, m
        <5> QED
          BY <5>1, EnvelopeAssumption DEF EnvelopeAssumption, HeaderLen, OffNonce, OffSalt
      <4> QED
        BY <2>1, <2>4, <2>7, <4>1 DEF SameExcept
    <3>2. Unpack(b, pw) = Raise("KeystoreVersionError")
      BY <2>7, <3>1 DEF Unpack
    <3> QED
      BY <2>3, <3>2 DEF Raise
  <2> QED
    BY <2>5, <2>6, <2>7 DEF b, status
<1> QED
  BY <1>1, Invariance, PTL
=============================================================================
