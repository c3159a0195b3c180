-------------------------- MODULE MnemonicProofs ---------------------------
(***************************************************************************)
(* What Mnemonic promises, for every width of words, every set of          *)
(* strengths and every other length of entropy that MnemonicAssumption     *)
(* allows.                                                                 *)
(*                                                                         *)
(* The bits of the words, laid end to end, and the words cut from bits are *)
(* inverse to each other (BitsOfWords, WordsOfBits), and BIP-39's lengths  *)
(* leave no bit over: s bits of entropy and one of checksum for every      *)
(* EntUnit of them fill 3 words for each bit of checksum (StrengthSizes).  *)
(* So from_entropy writes what from_phrase takes and entropy reads back    *)
(* (Written), and from_phrase takes nothing else (Accepted).  Entropy of   *)
(* other lengths becomes words all the same (CutIntoWords), the last of    *)
(* them padded, and these words stand for some entropy (EntropyIsBits):    *)
(* not the one they were made from, but what a keystore stores of them.    *)
(***************************************************************************)
EXTENDS Mnemonic, Rows, TLAPS

Bit  == {0, 1}
Word == [1..WordBits -> Bit]

-----------------------------------------------------------------------------
(* Sizes.                                                                  *)

\* Bit j of word a of n, and where to find the k-th bit.
Place(a, j) == (a - 1) * WordBits + j
WordOf(k)   == ((k - 1) \div WordBits) + 1
BitOf(k)    == ((k - 1) % WordBits) + 1

LEMMA Places ==
    ASSUME NEW a \in Nat \ {0}, NEW j \in 1..WordBits
    PROVE  /\ WordOf(Place(a, j)) = a /\ BitOf(Place(a, j)) = j
           /\ \A n \in Nat : Place(a, j) \in 1..(n * WordBits) <=> a <= n
<1>1. WordBits \in Nat \ {0} /\ a - 1 \in Nat /\ j - 1 \in 0..(WordBits - 1)
  BY MnemonicAssumption DEF MnemonicAssumption
<1>2. Place(a, j) - 1 = (a - 1) * WordBits + (j - 1) /\ Place(a, j) \in Nat \ {0}
  BY <1>1 DEF Place
<1>3. WordOf(Place(a, j)) = a /\ BitOf(Place(a, j)) = j
  <2>1. PICK q \in Nat, r \in 0..(WordBits - 1) : q = a - 1 /\ r = j - 1
    BY <1>1
  <2>2. (q * WordBits + r) \div WordBits = q /\ (q * WordBits + r) % WordBits = r
    BY <1>1, DivMod
  <2>3. Place(a, j) - 1 = q * WordBits + r /\ q + 1 = a /\ r + 1 = j
    BY <1>2, <2>1
  <2> QED
    BY <2>2, <2>3 DEF WordOf, BitOf
<1>4. ASSUME NEW n \in Nat, a <= n PROVE Place(a, j) <= n * WordBits
  <2>1. PICK d \in Nat : n = (a - 1) + 1 + d
    BY <1>4, n - a \in Nat
  <2>2. n * WordBits = (a - 1) * WordBits + WordBits + d * WordBits /\ d * WordBits >= 0
    BY <1>1, <2>1
  <2> QED
    BY <1>1, <2>2 DEF Place
<1>5. ASSUME NEW n \in Nat, n < a PROVE Place(a, j) > n * WordBits
  <2>1. PICK d \in Nat : a - 1 = n + d
    BY <1>5, a - 1 - n \in Nat
  <2>2. (a - 1) * WordBits = n * WordBits + d * WordBits /\ d * WordBits >= 0
    BY <1>1, <2>1
  <2> QED
    BY <1>1, <2>2 DEF Place
<1>6. ASSUME NEW n \in Nat PROVE n * WordBits \in Nat
  BY <1>1
<1> QED
  BY <1>2, <1>3, <1>4, <1>5, <1>6

LEMMA EveryPlace ==
    ASSUME NEW n \in Nat, NEW k \in 1..(n * WordBits)
    PROVE  WordOf(k) \in 1..n /\ BitOf(k) \in 1..WordBits /\ Place(WordOf(k), BitOf(k)) = k
<1>1. WordBits \in Nat \ {0} /\ n * WordBits \in Nat /\ k - 1 \in Nat
  BY MnemonicAssumption DEF MnemonicAssumption
<1>2. /\ (k - 1) \div WordBits \in Nat /\ (k - 1) % WordBits \in 0..(WordBits - 1)
      /\ k - 1 = WordBits * ((k - 1) \div WordBits) + ((k - 1) % WordBits)
  BY <1>1
<1>3. PICK p \in Nat, s \in 0..(WordBits - 1) :
          p = (k - 1) \div WordBits /\ s = (k - 1) % WordBits
  BY <1>2
<1>4. WordOf(k) = p + 1 /\ BitOf(k) = s + 1 /\ k - 1 = p * WordBits + s
  BY <1>1, <1>2, <1>3 DEF WordOf, BitOf
<1>5. Place(WordOf(k), BitOf(k)) = k /\ BitOf(k) \in 1..WordBits /\ WordOf(k) \in Nat \ {0}
  BY <1>1, <1>4 DEF Place
<1> QED
  BY <1>5, Places

-----------------------------------------------------------------------------
(* Words to bits and back.                                                 *)

\* The bits of the first i words.
Bits(words, i) == [k \in 1..(i * WordBits) |-> words[WordOf(k)][BitOf(k)]]

LEMMA BitsCells ==
    ASSUME NEW n \in Nat, NEW words \in [1..n -> Word], NEW i \in 0..n
    PROVE  /\ Bits(words, i) \in [1..(i * WordBits) -> Bit]
           /\ Row(Bits(words, i), i * WordBits)
           /\ \A a \in 1..i, j \in 1..WordBits : Bits(words, i)[Place(a, j)] = words[a][j]
<1>1. WordBits \in Nat \ {0} /\ i \in Nat /\ i * WordBits \in Nat
  BY MnemonicAssumption DEF MnemonicAssumption
<1>2. ASSUME NEW k \in 1..(i * WordBits) PROVE words[WordOf(k)][BitOf(k)] \in Bit
  <2>1. WordOf(k) \in 1..i /\ BitOf(k) \in 1..WordBits
    BY <1>1, EveryPlace
  <2>2. words[WordOf(k)] \in Word
    BY <2>1
  <2> QED
    BY <2>1, <2>2 DEF Word
<1>3. Bits(words, i) \in [1..(i * WordBits) -> Bit]
  BY <1>2 DEF Bits
<1>4. ASSUME NEW a \in 1..i, NEW j \in 1..WordBits
      PROVE  Bits(words, i)[Place(a, j)] = words[a][j]
  <2>1. /\ WordOf(Place(a, j)) = a /\ BitOf(Place(a, j)) = j
        /\ Place(a, j) \in 1..(i * WordBits)
    BY <1>1, Places
  <2> QED
    BY <2>1 DEF Bits
<1> QED
  BY <1>1, <1>3, <1>4 DEF Row

LEMMA NextWord ==
    ASSUME NEW n \in Nat, NEW words \in [1..n -> Word], NEW i \in 0..(n - 1)
    PROVE  Bits(words, i + 1) = Bits(words, i) \o words[i + 1]
<1>1. PICK m \in 1..n : m = i + 1
  OBVIOUS
<1> DEFINE b == Bits(words, i)
           c == Bits(words, m)
           w == words[m]
           u == b \o w
<1>2. WordBits \in Nat \ {0} /\ i \in 0..n /\ i * WordBits \in Nat /\ m - 1 = i
  BY <1>1, MnemonicAssumption DEF MnemonicAssumption
<1>3. m * WordBits = i * WordBits + WordBits
  BY <1>1, <1>2
<1>4. w \in Word /\ Row(w, WordBits)
  BY <1>2 DEF Word, Row
<1>5. /\ Row(b, i * WordBits)
      /\ \A a \in 1..i, j \in 1..WordBits : b[Place(a, j)] = words[a][j]
  BY <1>2, BitsCells
<1>6. /\ Row(c, m * WordBits)
      /\ \A a \in 1..m, j \in 1..WordBits : c[Place(a, j)] = words[a][j]
  BY <1>2, BitsCells
<1> HIDE DEF b, c, w
<1>7. Joins(u, b, i * WordBits, w, WordBits)
  BY <1>4, <1>5, Concatenation
<1> HIDE DEF u
<1>8. ASSUME NEW k \in 1..(m * WordBits) PROVE u[k] = c[k]
  <2>1. PICK a \in 1..m, j \in 1..WordBits : Place(a, j) = k
    BY EveryPlace
  <2>2. c[k] = words[a][j]
    BY <1>6, <2>1
  <2>3. CASE a \in 1..i
    <3>1. k \in 1..(i * WordBits)
      BY <1>2, <2>1, <2>3, Places
    <3> QED
      BY <1>5, <1>7, <2>1, <2>2, <2>3, <3>1 DEF Joins
  <2>4. CASE a = m
    <3>1. k = i * WordBits + j
      BY <1>2, <2>1, <2>4 DEF Place
    <3>2. u[k] = w[j]
      BY <1>7, <3>1 DEF Joins
    <3> QED
      BY <2>2, <2>4, <3>2 DEF w
  <2> QED
    BY <1>2, <2>3, <2>4
<1>9. Row(u, m * WordBits)
  BY <1>3, <1>7 DEF Joins
<1>10. u = c
  BY <1>6, <1>8, <1>9, RowsEqual
<1> QED
  BY <1>1, <1>10 DEF u, b, c, w

\* FlattenSeq joins the words one by one.
Joining(f, words, n) ==
    f = [i \in 1..n |-> IF i = 1 THEN words[i] ELSE f[i - 1] \o words[i]]

LEMMA PhraseBitsIs ==
    ASSUME NEW n \in Nat \ {0}, NEW words \in [1..n -> Word]
    PROVE  PhraseBits(words) = Bits(words, n)
<1> DEFINE b == [i \in 1..n |-> Bits(words, i)]
           f == CHOOSE g : Joining(g, words, n)
<1>1. /\ b[1] = words[1]
      /\ \A i \in 1..n : i # 1 => b[i - 1] \in {b[k] : k \in 1..n} /\ b[i] = b[i - 1] \o words[i]
  <2>1. Bits(words, 1) = words[1]
    <3>1. 0 \in 0..(n - 1) /\ 0 + 1 = 1
      OBVIOUS
    <3>2. Bits(words, 0) = <<>>
      <4>1. 0 * WordBits = 0
        BY MnemonicAssumption DEF MnemonicAssumption
      <4> QED
        BY <4>1 DEF Bits
    <3>3. words[1] \in Seq(Bit)
      BY MnemonicAssumption DEF Word, MnemonicAssumption
    <3>4. Bits(words, 1) = <<>> \o words[1]
      BY <3>1, <3>2, NextWord
    <3> QED
      BY <3>3, <3>4
  <2>2. ASSUME NEW i \in 1..n, i # 1 PROVE Bits(words, i) = Bits(words, i - 1) \o words[i]
    <3>1. PICK m \in 0..(n - 1) : m = i - 1 /\ m + 1 = i
      BY <2>2
    <3> QED
      BY <3>1, NextWord
  <2> QED
    BY <2>1, <2>2
<1> HIDE DEF b
<1>2. Joining(b, words, n)
  <2>1. ASSUME NEW i \in 1..n
        PROVE  b[i] = IF i = 1 THEN words[i] ELSE b[i - 1] \o words[i]
    BY <1>1
  <2>2. b = [i \in 1..n |-> b[i]]
    BY DEF b
  <2> QED
    BY <2>1, <2>2 DEF Joining
<1>3. Joining(f, words, n)
  BY <1>2
<1> HIDE DEF f
<1>4. \A i \in 1..n : f[i] = IF i = 1 THEN words[i] ELSE f[i - 1] \o words[i]
  BY <1>3 DEF Joining
<1> DEFINE T == {i \in Nat : i \in 1..n /\ f[i] # b[i]}
<1>5. T = {}
  <2> SUFFICES ASSUME T # {} PROVE FALSE
    OBVIOUS
  <2>1. PICK i \in T : \A m \in T : i <= m
    <3>1. T \subseteq Nat
      OBVIOUS
    <3> QED
      BY <3>1, Least
  <2>2. i # 1
    BY <1>1, <1>4
  <2>3. i \in 1..n /\ i - 1 \in 1..n /\ f[i - 1] = b[i - 1]
    BY <2>1, <2>2
  <2>4. f[i] = f[i - 1] \o words[i]
    BY <1>4, <2>2, <2>3
  <2>5. b[i] = b[i - 1] \o words[i]
    BY <1>1, <2>2, <2>3
  <2>6. f[i] # b[i]
    BY <2>1
  <2> HIDE DEF T
  <2> QED
    BY <2>3, <2>4, <2>5, <2>6
<1>6. f[n] = b[n] /\ b[n] = Bits(words, n)
  <2>1. n \in 1..n /\ n \notin T
    BY <1>5
  <2> QED
    BY <2>1 DEF b
<1>7. Len(words) = n
  OBVIOUS
<1>8. PhraseBits(words) = f[n]
  BY <1>7 DEF PhraseBits, FlattenSeq, f, Joining
<1> QED
  BY <1>6, <1>8

LEMMA ToWordIs ==
    ASSUME NEW w \in Word
    PROVE  ToWord(w) = w
<1>1. w \in Seq(Bit) /\ Len(w) = WordBits /\ WordBits - WordBits = 0
  BY MnemonicAssumption DEF MnemonicAssumption, Word
<1>2. [i \in 1..(WordBits - Len(w)) |-> 0] = <<>>
  BY <1>1
<1> QED
  BY <1>1, <1>2 DEF ToWord

\* Bits that fill n words become those n words.
LEMMA WordsOf ==
    ASSUME NEW n \in Nat \ {0}, NEW bits \in [1..(n * WordBits) -> Bit]
    PROVE  /\ Words(bits) \in [1..n -> Word]
           /\ \A a \in 1..n, j \in 1..WordBits : Words(bits)[a][j] = bits[Place(a, j)]
<1> DEFINE L == n * WordBits
           word(a) == [j \in 1..WordBits |-> bits[Place(a, j)]]
<1>1. WordBits \in Nat \ {0} /\ L \in Nat
  BY MnemonicAssumption DEF MnemonicAssumption
<1>2. Len(bits) = L /\ Row(bits, L)
  BY <1>1 DEF Row
<1> HIDE DEF L
<1>3. (L + WordBits - 1) \div WordBits = n
  <2>1. WordBits - 1 \in 0..(WordBits - 1)
    BY <1>1
  <2>2. (n * WordBits + (WordBits - 1)) \div WordBits = n
    BY <1>1, <2>1, DivMod
  <2>3. L + WordBits - 1 = n * WordBits + (WordBits - 1)
    BY <1>1 DEF L
  <2> QED
    BY <2>2, <2>3
<1>4. ASSUME NEW a \in 1..n
      PROVE  /\ word(a) \in Word
             /\ ToWord(SubSeq(bits, (a - 1) * WordBits + 1,
                              IF a = n THEN L ELSE a * WordBits)) = word(a)
  <2>1. \A j \in 1..WordBits : Place(a, j) \in 1..L
    BY <1>1, Places DEF L
  <2>2. word(a) \in Word /\ Row(word(a), WordBits)
    BY <1>1, <2>1 DEF Word, Row, L
  <2>3. PICK lo \in Nat \ {0}, hi \in Nat :
            lo = (a - 1) * WordBits + 1 /\ hi = (IF a = n THEN L ELSE a * WordBits)
    <3>1. (a - 1) * WordBits \in Nat /\ a * WordBits \in Nat
      BY <1>1
    <3> QED
      BY <1>1, <3>1
  <2>4. hi = (a - 1) * WordBits + WordBits /\ hi <= L
    <3>1. hi = a * WordBits
      BY <2>3 DEF L
    <3>2. a * WordBits = (a - 1) * WordBits + WordBits
      BY <1>1
    <3>3. WordBits \in 1..WordBits /\ Place(a, WordBits) = hi
      BY <1>1, <3>1, <3>2 DEF Place
    <3> QED
      BY <2>1, <3>1, <3>2, <3>3
  <2>5. ASSUME NEW j \in 1..WordBits PROVE word(a)[j] = bits[lo - 1 + j]
    <3>1. Place(a, j) = lo - 1 + j
      BY <1>1, <2>3 DEF Place
    <3> QED
      BY <3>1
  <2> HIDE DEF word
  <2>6. PartOf(word(a), WordBits, bits, L, lo, hi)
    BY <1>1, <1>2, <2>2, <2>3, <2>4, <2>5 DEF PartOf
  <2>7. SubSeq(bits, lo, hi) = word(a)
    <3>1. PICK w, b, x, y : w = word(a) /\ b = bits /\ x = lo /\ y = hi
      OBVIOUS
    <3>2. PartOf(w, WordBits, b, L, x, y)
      BY <2>6, <3>1
    <3>3. SubSeq(b, x, y) = w
      BY <3>2, Slices
    <3> QED
      BY <3>1, <3>3
  <2> QED
    BY <2>2, <2>3, <2>7, ToWordIs
<1>5. Words(bits) = [a \in 1..n |-> word(a)]
  <2> HIDE DEF word
  <2> QED
    BY <1>2, <1>3, <1>4 DEF Words
<1> QED
  BY <1>4, <1>5

LEMMA BitsOfWords ==
    ASSUME NEW n \in Nat \ {0}, NEW bits \in [1..(n * WordBits) -> Bit]
    PROVE  PhraseBits(Words(bits)) = bits
<1> DEFINE c == Bits(Words(bits), n)
<1>1. WordBits \in Nat \ {0} /\ n * WordBits \in Nat /\ n \in 0..n /\ n \in Nat
  BY MnemonicAssumption DEF MnemonicAssumption
<1>2. /\ Words(bits) \in [1..n -> Word]
      /\ \A a \in 1..n, j \in 1..WordBits : Words(bits)[a][j] = bits[Place(a, j)]
  BY WordsOf
<1>3. /\ PhraseBits(Words(bits)) = c
      /\ Row(c, n * WordBits)
      /\ \A a \in 1..n, j \in 1..WordBits : c[Place(a, j)] = Words(bits)[a][j]
  BY <1>1, <1>2, PhraseBitsIs, BitsCells
<1> HIDE DEF c
<1>4. ASSUME NEW k \in 1..(n * WordBits) PROVE c[k] = bits[k]
  <2>1. PICK a \in 1..n, j \in 1..WordBits : Place(a, j) = k
    BY <1>1, EveryPlace
  <2> QED
    BY <1>2, <1>3, <2>1
<1>5. Row(bits, n * WordBits)
  BY <1>1 DEF Row
<1> QED
  BY <1>3, <1>4, <1>5, RowsEqual

LEMMA WordsOfBits ==
    ASSUME NEW n \in Nat \ {0}, NEW words \in [1..n -> Word]
    PROVE  /\ PhraseBits(words) \in [1..(n * WordBits) -> Bit]
           /\ Words(PhraseBits(words)) = words
<1> DEFINE b == Bits(words, n)
<1>1. WordBits \in Nat \ {0} /\ n \in 0..n /\ n \in Nat
  BY MnemonicAssumption DEF MnemonicAssumption
<1>2. /\ PhraseBits(words) = b
      /\ b \in [1..(n * WordBits) -> Bit]
      /\ \A a \in 1..n, j \in 1..WordBits : b[Place(a, j)] = words[a][j]
  BY <1>1, PhraseBitsIs, BitsCells
<1> HIDE DEF b
<1>3. /\ Words(b) \in [1..n -> Word]
      /\ \A a \in 1..n, j \in 1..WordBits : Words(b)[a][j] = b[Place(a, j)]
  BY <1>2, WordsOf
<1>4. ASSUME NEW a \in 1..n PROVE Words(b)[a] = words[a]
  <2>1. Words(b)[a] \in Word /\ words[a] \in Word
    BY <1>3
  <2>2. \A j \in 1..WordBits : Words(b)[a][j] = words[a][j]
    BY <1>2, <1>3
  <2>3. PICK u, w : u = Words(b)[a] /\ w = words[a]
    OBVIOUS
  <2>4. Row(u, WordBits) /\ Row(w, WordBits)
    BY <1>1, <2>1, <2>3 DEF Word, Row
  <2>5. u = w
    BY <2>2, <2>3, <2>4, RowsEqual
  <2> QED
    BY <2>3, <2>5
<1>5. Words(b) = words
  BY <1>3, <1>4
<1> QED
  BY <1>2, <1>5

-----------------------------------------------------------------------------
(* BIP-39's sizes.                                                         *)

\* s bits of entropy and c of checksum make 3 * c words.
Sizes(s, c) ==
    /\ s \in Nat \ {0} /\ c \in Nat \ {0}
    /\ s \div EntUnit = c
    /\ s + c = (3 * c) * WordBits
    /\ ((3 * c) * WordBits) \div (EntUnit + 1) = c
    /\ (s + c) \div WordBits = 3 * c
    /\ s % ByteBits = 0

LEMMA StrengthSizes ==
    ASSUME NEW s \in Strengths
    PROVE  \E c : Sizes(s, c)
<1>1. /\ ByteBits \in Nat \ {0} /\ WordBits \in Nat \ {0} /\ EntUnit \in Nat \ {0}
      /\ 3 * WordBits = EntUnit + 1
      /\ s \in Nat \ {0} /\ s % EntUnit = 0 /\ s % ByteBits = 0
  BY MnemonicAssumption DEF MnemonicAssumption
<1>2. PICK c \in Nat : c = s \div EntUnit
  BY <1>1
<1>3. s = EntUnit * c
  BY <1>1, <1>2
<1>4. c # 0
  BY <1>1, <1>3
<1>5. (3 * c) * WordBits = c * (3 * WordBits)
  BY <1>1
<1>6. c * (3 * WordBits) = c * (EntUnit + 1)
  BY <1>1
<1>7. c * (EntUnit + 1) = EntUnit * c + c
  BY <1>1
<1>8. s + c = (3 * c) * WordBits
  BY <1>3, <1>5, <1>6, <1>7
<1>9. ((3 * c) * WordBits) \div (EntUnit + 1) = c
  <2>1. PICK w \in Nat \ {0} : w = EntUnit + 1
    BY <1>1
  <2>2. (c * w + 0) \div w = c
    BY 0 \in 0..(w - 1), DivMod
  <2>3. (3 * c) * WordBits = c * w + 0
    BY <1>1, <1>5, <1>6, <2>1
  <2> QED
    BY <2>1, <2>2, <2>3
<1>10. (s + c) \div WordBits = 3 * c
  <2>1. PICK q \in Nat : q = 3 * c
    BY <1>1
  <2>2. (q * WordBits + 0) \div WordBits = q
    BY <1>1, 0 \in 0..(WordBits - 1), DivMod
  <2>3. s + c = q * WordBits + 0
    BY <1>1, <1>8, <2>1
  <2> QED
    BY <2>1, <2>2, <2>3
<1> QED
  BY <1>1, <1>2, <1>4, <1>8, <1>9, <1>10 DEF Sizes

LEMMA Sha256Bits ==
    ASSUME NEW m \in Nat, NEW ent \in [1..m -> Bit], NEW n \in Nat
    PROVE  Sha256(ent, n) \in [1..n -> Bit]
<1>1. ASSUME NEW i \in 1..n
      PROVE  Cardinality({j \in DOMAIN ent : ent[j] = 1 /\ (i + j) % 3 # 0}) % 2 \in Bit
  <2> DEFINE S == {j \in DOMAIN ent : ent[j] = 1 /\ (i + j) % 3 # 0}
  <2>1. IsFiniteSet(1..m) /\ S \subseteq 1..m
    <3>1. 1 \in Int /\ m \in Int
      OBVIOUS
    <3> QED
      BY <3>1, FS_Interval
  <2> HIDE DEF S
  <2>2. Cardinality(S) \in Nat
    BY <2>1, FS_Subset, FS_CardinalityType
  <2>3. Cardinality(S) % 2 \in Bit
    BY <2>2 DEF Bit
  <2> QED
    BY <2>3 DEF S
<1> QED
  BY <1>1 DEF Sha256

\* Of 3 * c words the first s bits are the entropy, whole bytes of it.
LEMMA PhraseParts ==
    ASSUME NEW s, NEW c, Sizes(s, c), NEW words \in [1..(3 * c) -> Word]
    PROVE  /\ PhraseBits(words) \in [1..(s + c) -> Bit]
           /\ ChecksumBits(words) = c
           /\ EntropyBits(words) \in [1..s -> Bit]
           /\ \A i \in 1..s : EntropyBits(words)[i] = PhraseBits(words)[i]
           /\ Entropy(words) = EntropyBits(words)
           /\ ~Overflows(words)
<1> DEFINE b == PhraseBits(words)
           e == [i \in 1..s |-> b[i]]
<1>1. /\ s \in Nat \ {0} /\ c \in Nat \ {0} /\ 3 * c \in Nat \ {0} /\ s + c \in Nat
      /\ s + c = (3 * c) * WordBits /\ (s + c) - c = s /\ s <= s + c
      /\ s % ByteBits = 0 /\ Len(words) = 3 * c
  BY DEF Sizes
<1>2. b \in [1..(s + c) -> Bit]
  <2>1. PICK n \in Nat \ {0} : n = 3 * c
    BY <1>1
  <2>2. b \in [1..(n * WordBits) -> Bit]
    BY <2>1, WordsOfBits
  <2> QED
    BY <1>1, <2>1, <2>2
<1> HIDE DEF b
<1>3. Row(b, s + c) /\ Len(b) = s + c
  BY <1>1, <1>2 DEF Row
<1>4. ChecksumBits(words) = c
  BY <1>1 DEF ChecksumBits, Sizes
<1>5. e \in [1..s -> Bit] /\ Row(e, s) /\ \A i \in 1..s : e[i] = b[i]
  <2>1. \A i \in 1..s : i \in 1..(s + c)
    BY <1>1
  <2> QED
    BY <1>1, <1>2, <2>1 DEF Row
<1> HIDE DEF e
<1>6. EntropyBits(words) = SubSeq(b, 1, s)
  BY <1>1, <1>3, <1>4 DEF EntropyBits, b
<1>7. PICK lo \in Nat \ {0} : lo = 1
  OBVIOUS
<1>8. SubSeq(b, lo, s) = e
  <2>1. \A i \in 1..s : e[i] = b[lo - 1 + i]
    BY <1>5, <1>7
  <2>2. PartOf(e, s, b, s + c, lo, s)
    BY <1>1, <1>3, <1>5, <1>7, <2>1 DEF PartOf
  <2> QED
    BY <2>2, Slices
<1>9. EntropyBits(words) = e
  BY <1>6, <1>7, <1>8
<1>10. SubSeq(e, lo, s) = e
  <2>1. \A i \in 1..s : e[i] = e[lo - 1 + i]
    BY <1>7
  <2>2. PartOf(e, s, e, s, lo, s)
    BY <1>1, <1>5, <1>7, <2>1 DEF PartOf
  <2> QED
    BY <2>2, Slices
<1>11. Len(e) = s
  BY <1>1, <1>5
<1>12. Entropy(words) = e
  <2>1. Entropy(words) = SubSeq(e, (s % ByteBits) + 1, s)
    BY <1>9, <1>11 DEF Entropy
  <2> QED
    BY <1>1, <1>7, <1>10, <2>1
<1>13. ~Overflows(words)
  <2>1. 1..(Len(e) % ByteBits) = {}
    BY <1>1, <1>11
  <2> QED
    BY <1>9, <2>1 DEF Overflows
<1> QED
  BY <1>2, <1>4, <1>5, <1>9, <1>12, <1>13 DEF b

\* from_entropy writes a phrase that from_phrase takes and entropy reads.
LEMMA Written ==
    ASSUME NEW s \in Strengths, NEW ent \in [1..s -> Bit]
    PROVE  /\ \E n \in Nat \ {0} : FromEntropy(ent) \in [1..n -> Word]
           /\ Entropy(FromEntropy(ent)) = ent
           /\ ~Overflows(FromEntropy(ent))
           /\ ValidPhrase(FromEntropy(ent))
<1>1. PICK c : Sizes(s, c)
  BY StrengthSizes
<1> DEFINE sha   == Sha256(ent, c)
           bits  == ent \o sha
           words == FromEntropy(ent)
<1>2. /\ s \in Nat \ {0} /\ c \in Nat \ {0} /\ 3 * c \in Nat \ {0} /\ s + c \in Nat
      /\ s + c = (3 * c) * WordBits /\ s \div EntUnit = c /\ Len(ent) = s
  BY <1>1 DEF Sizes
<1>3. sha \in [1..c -> Bit]
  BY <1>2, Sha256Bits
<1>4. words = Words(bits)
  BY <1>2 DEF FromEntropy
<1> HIDE DEF sha
<1>5. Row(ent, s) /\ Row(sha, c)
  BY <1>2, <1>3 DEF Row
<1>6. Joins(bits, ent, s, sha, c)
  BY <1>5, Concatenation
<1>7. bits \in [1..(s + c) -> Bit]
  <2>1. ent \in Seq(Bit) /\ sha \in Seq(Bit)
    BY <1>2, <1>3
  <2>2. bits \in Seq(Bit) /\ Len(bits) = s + c
    BY <1>6, <2>1 DEF Joins
  <2> HIDE DEF bits
  <2> QED
    BY <2>2
<1> HIDE DEF bits, words
<1>8. words \in [1..(3 * c) -> Word] /\ PhraseBits(words) = bits
  <2>1. PICK n \in Nat \ {0} : n = 3 * c
    BY <1>2
  <2>2. bits \in [1..(n * WordBits) -> Bit]
    BY <1>2, <1>7, <2>1
  <2>3. Words(bits) \in [1..n -> Word] /\ PhraseBits(Words(bits)) = bits
    BY <2>2, WordsOf, BitsOfWords
  <2> QED
    BY <1>4, <2>1, <2>3
<1>9. /\ ChecksumBits(words) = c /\ ~Overflows(words)
      /\ EntropyBits(words) \in [1..s -> Bit] /\ Entropy(words) = EntropyBits(words)
      /\ \A i \in 1..s : EntropyBits(words)[i] = bits[i]
  BY <1>1, <1>8, PhraseParts
<1>10. EntropyBits(words) = ent
  <2>1. PICK e : e = EntropyBits(words)
    OBVIOUS
  <2>2. Row(e, s) /\ \A i \in 1..s : e[i] = ent[i]
    BY <1>2, <1>6, <1>9, <2>1 DEF Row, Joins
  <2> QED
    BY <1>5, <2>1, <2>2, RowsEqual
<1>11. ValidPhrase(words)
  <2>1. Len(words) \in WordCounts
    <3>1. Len(words) = 3 * c /\ (s + (s \div EntUnit)) \div WordBits = 3 * c
      BY <1>1, <1>2, <1>8 DEF Sizes
    <3> QED
      BY <3>1, MnemonicAssumption DEF MnemonicAssumption
  <2>2. ASSUME NEW i \in DOMAIN words PROVE words[i] # <<>>
    <3>1. words[i] \in Word
      BY <1>8
    <3>2. Len(words[i]) # 0
      BY <3>1, MnemonicAssumption DEF Word, MnemonicAssumption
    <3> QED
      BY <3>2
  <2>3. PhraseBits(words) = EntropyBits(words) \o Sha256(Entropy(words), ChecksumBits(words))
    BY <1>8, <1>9, <1>10 DEF bits, sha
  <2> QED
    BY <2>1, <2>2, <2>3 DEF ValidPhrase
<1> QED
  BY <1>2, <1>8, <1>9, <1>10, <1>11 DEF words

\* What from_phrase takes is what from_entropy writes for its entropy.
LEMMA Accepted ==
    ASSUME NEW words \in Seq(Word \cup {<<>>}), ValidPhrase(words)
    PROVE  \E s \in Strengths : /\ Entropy(words) \in [1..s -> Bit]
                                /\ words = FromEntropy(Entropy(words))
<1>1. PICK s \in Strengths : Len(words) = (s + (s \div EntUnit)) \div WordBits
  BY MnemonicAssumption DEF ValidPhrase, MnemonicAssumption
<1>2. PICK c : Sizes(s, c)
  BY StrengthSizes
<1>3. /\ 3 * c \in Nat \ {0} /\ Len(words) = 3 * c
      /\ s \in Nat /\ s \div EntUnit = c /\ s + c = (3 * c) * WordBits
  BY <1>1, <1>2 DEF Sizes
<1>4. words \in [1..(3 * c) -> Word]
  BY <1>3 DEF ValidPhrase
<1>5. /\ ChecksumBits(words) = c
      /\ EntropyBits(words) \in [1..s -> Bit] /\ Entropy(words) = EntropyBits(words)
  BY <1>2, <1>4, PhraseParts
<1>6. Len(EntropyBits(words)) = s
  BY <1>3, <1>5
<1>7. FromEntropy(Entropy(words)) = Words(PhraseBits(words))
  BY <1>3, <1>5, <1>6 DEF FromEntropy, ValidPhrase
<1>8. Words(PhraseBits(words)) = words
  BY <1>3, <1>4, WordsOfBits
<1> QED
  BY <1>5, <1>7, <1>8

\* Up to WordBits bits make one word.
LEMMA PaddedWord ==
    ASSUME NEW b \in Seq(Bit), Len(b) <= WordBits
    PROVE  ToWord(b) \in Word
<1> DEFINE m     == WordBits - Len(b)
           zeros == [i \in 1..m |-> 0]
<1>1. m \in Nat /\ Len(b) \in Nat /\ m + Len(b) = WordBits
  BY MnemonicAssumption DEF MnemonicAssumption
<1> HIDE DEF m
<1>2. zeros \in Seq(Bit) /\ Len(zeros) = m
  BY <1>1 DEF Bit
<1> HIDE DEF zeros
<1>3. zeros \o b \in Seq(Bit) /\ Len(zeros \o b) = WordBits
  BY <1>1, <1>2
<1>4. PICK w \in Seq(Bit) : w = zeros \o b /\ Len(w) = WordBits
  BY <1>3
<1>5. w \in Word
  <2>1. PICK n \in Nat : n = Len(w) /\ w \in [1..n -> Bit]
    OBVIOUS
  <2> QED
    BY <1>4, <2>1 DEF Word
<1> QED
  BY <1>4, <1>5 DEF ToWord, zeros, m

\* Whatever their number, bits are cut into words of the list.
LEMMA CutIntoWords ==
    ASSUME NEW bits \in Seq(Bit)
    PROVE  Words(bits) \in Seq(Word)
<1> DEFINE L == Len(bits)
           n == (L + WordBits - 1) \div WordBits
           piece(i) == SubSeq(bits, (i - 1) * WordBits + 1,
                              IF i = n THEN L ELSE i * WordBits)
<1>1. WordBits \in Nat \ {0} /\ L \in Nat /\ L + WordBits - 1 \in Nat
  BY MnemonicAssumption DEF MnemonicAssumption
<1> HIDE DEF L
<1>2. n \in Nat /\ n * WordBits >= L /\ n * WordBits <= L + WordBits - 1
  <2>1. PICK t \in Nat : t = L + WordBits - 1
    BY <1>1
  <2>2. /\ t \div WordBits \in Nat /\ t % WordBits \in 0..(WordBits - 1)
        /\ t = WordBits * (t \div WordBits) + (t % WordBits)
    BY <1>1, <2>1
  <2>3. PICK q \in Nat, r \in 0..(WordBits - 1) : q = t \div WordBits /\ t = WordBits * q + r
    BY <2>2
  <2>4. q = n
    BY <2>1, <2>3
  <2>5. WordBits * q = q * WordBits /\ q * WordBits \in Nat
    BY <1>1
  <2> HIDE DEF n
  <2> QED
    BY <1>1, <2>1, <2>3, <2>4, <2>5
<1> HIDE DEF n
<1>3. ASSUME NEW i \in 1..n PROVE ToWord(piece(i)) \in Word
  <2>1. PICK lo \in Nat \ {0}, hi \in Nat :
            lo = (i - 1) * WordBits + 1 /\ hi = (IF i = n THEN L ELSE i * WordBits)
    <3>1. (i - 1) * WordBits \in Nat /\ i * WordBits \in Nat
      BY <1>1, <1>2
    <3> QED
      BY <1>1, <3>1
  <2>2. hi <= L /\ hi < lo + WordBits
    <3>1. i * WordBits = (i - 1) * WordBits + WordBits /\ (i - 1) * WordBits \in Nat
      BY <1>1, <1>2
    <3>2. CASE i = n
      BY <1>1, <1>2, <2>1, <3>1, <3>2
    <3>3. CASE i # n
      <4>1. PICK d \in Nat : n = i + 1 + d
        BY <1>2, <3>3, n - i - 1 \in Nat
      <4>2. n * WordBits = i * WordBits + WordBits + d * WordBits /\ d * WordBits >= 0
        BY <1>1, <4>1
      <4>3. i * WordBits <= L
        BY <1>1, <1>2, <3>1, <4>2
      <4> QED
        BY <1>1, <2>1, <3>1, <3>3, <4>3
    <3> QED
      BY <3>2, <3>3
  <2>3. \A k \in lo..hi : k \in 1..L /\ bits[k] \in Bit
    BY <1>1, <2>2 DEF L
  <2>4. SubSeq(bits, lo, hi) \in Seq(Bit)
    BY <2>3
  <2>5. Len(SubSeq(bits, lo, hi)) <= WordBits
    BY <1>1, <2>2, <2>3
  <2>6. PICK b \in Seq(Bit) : b = SubSeq(bits, lo, hi) /\ Len(b) <= WordBits
    BY <2>4, <2>5
  <2>7. piece(i) = b
    BY <2>1, <2>6 DEF L
  <2> QED
    BY <2>6, <2>7, PaddedWord
<1>4. Words(bits) = [i \in 1..n |-> ToWord(piece(i))]
  BY DEF Words, n, L
<1> HIDE DEF piece
<1>5. Words(bits) \in [1..n -> Word]
  BY <1>3, <1>4
<1> QED
  BY <1>2, <1>5

\* from_entropy writes words of the list for entropy of any length.
LEMMA AnyEntropyWords ==
    ASSUME NEW ent \in Seq(Bit)
    PROVE  FromEntropy(ent) \in Seq(Word)
<1>1. PICK c \in Nat : c = Len(ent) \div EntUnit
  BY MnemonicAssumption DEF MnemonicAssumption
<1>2. PICK m \in Nat : m = Len(ent) /\ ent \in [1..m -> Bit]
  OBVIOUS
<1>3. PICK sha \in [1..c -> Bit] : sha = Sha256(ent, c)
  BY <1>2, Sha256Bits
<1>4. sha \in Seq(Bit)
  OBVIOUS
<1>5. PICK bits \in Seq(Bit) : bits = ent \o sha
  <2>1. ent \o sha \in Seq(Bit)
    BY <1>4
  <2> QED
    BY <2>1
<1>6. FromEntropy(ent) = Words(bits)
  BY <1>1, <1>3, <1>5 DEF FromEntropy
<1> QED
  BY <1>6, CutIntoWords

\* And entropy reads bits from any words of the list.
LEMMA EntropyIsBits ==
    ASSUME NEW words \in Seq(Word)
    PROVE  Entropy(words) \in Seq(Bit)
<1>1. PhraseBits(words) \in Seq(Bit)
  <2>1. CASE Len(words) = 0
    <3>1. PhraseBits(words) = words /\ words = <<>>
      BY <2>1 DEF PhraseBits, FlattenSeq
    <3> QED
      BY <3>1
  <2>2. CASE Len(words) # 0
    <3>1. PICK n \in Nat \ {0} : n = Len(words) /\ words \in [1..n -> Word]
      BY <2>2
    <3>2. n * WordBits \in Nat
      BY MnemonicAssumption DEF MnemonicAssumption
    <3>3. PhraseBits(words) \in [1..(n * WordBits) -> Bit]
      BY <3>1, WordsOfBits
    <3> QED
      BY <3>2, <3>3
  <2> QED
    BY <2>1, <2>2
<1>2. PICK c \in Nat : c = ChecksumBits(words)
  <2>1. /\ Len(words) \in Nat /\ WordBits \in Nat \ {0} /\ EntUnit + 1 \in Nat \ {0}
    BY MnemonicAssumption DEF MnemonicAssumption
  <2>2. PICK t \in Nat, u \in Nat \ {0} : t = Len(words) * WordBits /\ u = EntUnit + 1
    BY <2>1
  <2>3. t \div u \in Nat
    OBVIOUS
  <2> QED
    BY <2>2, <2>3 DEF ChecksumBits
<1>3. PICK b \in Seq(Bit) : b = PhraseBits(words)
  BY <1>1
<1>4. EntropyBits(words) = SubSeq(b, 1, Len(b) - c)
  BY <1>2, <1>3 DEF EntropyBits
<1>5. SubSeq(b, 1, Len(b) - c) \in Seq(Bit)
  <2>1. \A i \in 1..(Len(b) - c) : i \in 1..Len(b)
    OBVIOUS
  <2> QED
    BY <2>1
<1>6. PICK e \in Seq(Bit) : e = EntropyBits(words)
  BY <1>4, <1>5
<1>7. PICK r \in Nat : r = Len(e) % ByteBits
  BY MnemonicAssumption DEF MnemonicAssumption
<1>8. SubSeq(e, r + 1, Len(e)) \in Seq(Bit)
  <2>1. \A i \in (r + 1)..Len(e) : i \in 1..Len(e)
    OBVIOUS
  <2> QED
    BY <2>1
<1> QED
  BY <1>6, <1>7, <1>8 DEF Entropy

-----------------------------------------------------------------------------
(* The mnemonics.                                                          *)

\* The unlocked wallet and the mnemonic in hand come from one entropy.
GrewFrom(s, ent) ==
    /\ ent \in [1..s -> Bit]
    /\ mn.words = FromEntropy(ent)
    /\ root = <<"entropy", ent>>

\* The mnemonic in hand is made of words; it is the one of its origin if that
\* has a BIP-39 length, and of the wallet's seed once it was unlocked.
IInv ==
    /\ slips \in 0..MaxSlips
    /\ mn.words \in Seq(Word) /\ mn.spacing \in {"single", "other"}
    /\ mn = [words |-> mn.words, spacing |-> mn.spacing]
    /\ origin \in Seq(Bit)
    /\ Len(origin) \in Strengths => mn.words = FromEntropy(origin)
    /\ mn # None /\ root # NoRoot => \E s \in Strengths, ent \in Seq(Bit) : GrewFrom(s, ent)

LEMMA NothingWritten ==
    /\ None.words = <<>> /\ None.spacing = "single"
    /\ ~ValidPhrase(<<>>)
<1>1. ~ValidPhrase(<<>>)
  <2> SUFFICES ASSUME ValidPhrase(<<>>) PROVE FALSE
    OBVIOUS
  <2>1. PICK s \in Strengths : Len(<<>>) = (s + (s \div EntUnit)) \div WordBits
    BY MnemonicAssumption DEF ValidPhrase, MnemonicAssumption
  <2>2. PICK c : Sizes(s, c)
    BY StrengthSizes
  <2>3. 3 * c = 0 /\ c \in Nat \ {0}
    BY <2>1, <2>2 DEF Sizes
  <2> QED
    BY <2>3
<1> QED
  BY <1>1 DEF None

\* The entropy of a BIP-39 length that a sequence of bits is.
LEMMA StrengthBits ==
    ASSUME NEW ent \in Seq(Bit), Len(ent) \in Strengths
    PROVE  \E s \in Strengths : Len(ent) = s /\ ent \in [1..s -> Bit]
OBVIOUS

\* FromEntropy of a BIP-39 entropy: accepted, read back, and not none.
LEMMA WrittenWords ==
    ASSUME NEW ent \in Seq(Bit), Len(ent) \in Strengths
    PROVE  /\ FromEntropy(ent) \in Seq(Word) /\ FromEntropy(ent) # <<>>
           /\ Entropy(FromEntropy(ent)) = ent /\ ~Overflows(FromEntropy(ent))
           /\ ValidPhrase(FromEntropy(ent))
<1>1. PICK s \in Strengths : ent \in [1..s -> Bit]
  BY StrengthBits
<1> QED
  BY <1>1, Written, NothingWritten, AnyEntropyWords

LEMMA InitIInv == Init => IInv
<1> SUFFICES ASSUME Init PROVE IInv
  OBVIOUS
<1>1. mn = None /\ root = NoRoot /\ origin = <<>> /\ slips = 0
  BY DEF Init
<1>2. Len(origin) \notin Strengths /\ slips \in 0..MaxSlips
  BY <1>1, MnemonicAssumption DEF MnemonicAssumption
<1>3. mn.words = <<>> /\ mn.spacing = "single" /\ mn = [words |-> mn.words, spacing |-> mn.spacing]
  BY <1>1, NothingWritten DEF None
<1> QED
  BY <1>1, <1>2, <1>3 DEF IInv

\* A mnemonic that was just written or typed in, before any unlock.
LEMMA NewMnemonic ==
    ASSUME NEW words \in Seq(Word), NEW spacing \in {"single", "other"},
           mn' = [words |-> words, spacing |-> spacing], root' = NoRoot,
           (slips \in 0..MaxSlips)', (origin \in Seq(Bit))',
           Len(origin') \in Strengths => words = FromEntropy(origin')
    PROVE  IInv'
<1>1. (mn').words = words /\ (mn').spacing = spacing
  OBVIOUS
<1> QED
  BY <1>1 DEF IInv

\* Whatever is typed, it is words of the list and others.
LEMMA TypedWords ==
    ASSUME NEW w \in Seq(Word), NEW t \in Typed(w)
    PROVE  t \in Seq(Word \cup {<<>>})
<1> DEFINE S == Word \cup {<<>>}
<1>1. w \in Seq(S)
  BY DEF Word
<1>2. NewWords \cup {<<>>} \subseteq S
  BY MnemonicAssumption DEF MnemonicAssumption, Word, Bit
<1> HIDE DEF S
<1>3. \A i \in DOMAIN w : w[i] \in S /\ i \in 1..Len(w)
  BY <1>1
<1>4. \A i \in DOMAIN w, x \in S : ReplaceAt(w, i, x) \in Seq(S)
  BY <1>1, <1>3 DEF ReplaceAt
<1>5. \A i \in DOMAIN w : RemoveAt(w, i) \in Seq(S)
  BY <1>1, <1>3 DEF RemoveAt
<1>6. \A i \in DOMAIN w : InsertAt(w, i, w[i]) \in Seq(S)
  BY <1>1, <1>3 DEF InsertAt
<1>7. ASSUME NEW i \in 1..(Len(w) - 1)
      PROVE  ReplaceAt(ReplaceAt(w, i, w[i + 1]), i + 1, w[i]) \in Seq(S)
  <2>1. i \in DOMAIN w /\ i + 1 \in DOMAIN w
    BY <1>1
  <2>2. PICK x \in S, y \in S, j \in DOMAIN w : x = w[i] /\ y = w[i + 1] /\ j = i + 1
    BY <1>3, <2>1
  <2>3. ReplaceAt(w, i, y) \in Seq(S) /\ DOMAIN ReplaceAt(w, i, y) = DOMAIN w
    BY <1>4, <2>1 DEF ReplaceAt
  <2>4. ReplaceAt(ReplaceAt(w, i, y), j, x) \in Seq(S)
    BY <2>3 DEF ReplaceAt
  <2> QED
    BY <2>2, <2>4
<1>8. t \in Seq(S)
  BY <1>1, <1>2, <1>4, <1>5, <1>6, <1>7 DEF Typed
<1> QED
  BY <1>8 DEF S

LEMMA StepIInv == IInv /\ [Next]_vars => IInv'
<1> SUFFICES ASSUME IInv, [Next]_vars PROVE IInv'
  OBVIOUS
<1>a. mn.words \in Seq(Word) /\ origin \in Seq(Bit) /\ slips \in 0..MaxSlips
  BY DEF IInv
<1>1. ASSUME NEW n \in Nat, NEW ent \in [1..n -> {0, 1}],
             mn' = [words |-> FromEntropy(ent), spacing |-> "single"],
             origin' = ent, root' = NoRoot, UNCHANGED slips
      PROVE  IInv'
  <2>1. ent \in Seq(Bit)
    BY DEF Bit
  <2>2. (origin \in Seq(Bit))' /\ (slips \in 0..MaxSlips)'
    BY <1>a, <1>1, <2>1
  <2>3. FromEntropy(ent) \in Seq(Word) /\ FromEntropy(ent) = FromEntropy(origin')
    BY <1>1, <2>1, AnyEntropyWords
  <2> QED
    BY <1>1, <2>2, <2>3, NewMnemonic
<1>2. ASSUME NEW s \in Strengths, NEW ent \in Draws(s), Generate(ent) PROVE IInv'
  <2>1. s \in Nat /\ ent \in [1..s -> {0, 1}]
    BY MnemonicAssumption DEF MnemonicAssumption
  <2> QED
    BY <1>1, <1>2, <2>1 DEF Generate
<1>3. ASSUME NEW b \in RawBits, NEW ent \in Draws(b), GenerateRaw(ent) PROVE IInv'
  <2>1. b \in Nat /\ ent \in [1..b -> {0, 1}]
    BY MnemonicAssumption DEF MnemonicAssumption
  <2> QED
    BY <1>1, <1>3, <2>1 DEF GenerateRaw
<1>4. ASSUME NEW words \in Typed(mn.words), NEW spacing \in {"single", "other"},
             FromPhrase(words, spacing)
      PROVE  IInv'
  <2>1. /\ ValidPhrase(words) /\ root' = NoRoot
        /\ mn' = [words |-> words, spacing |-> spacing]
    BY <1>4 DEF FromPhrase
  <2>2. (slips \in 0..MaxSlips)'
    BY <1>a, <1>4, MnemonicAssumption DEF FromPhrase, MnemonicAssumption
  <2>3. CASE words = mn.words
    <3>1. origin' = origin /\ (Len(origin') \in Strengths => words = FromEntropy(origin'))
      BY <1>4, <2>3 DEF FromPhrase, IInv
    <3>2. words \in Seq(Word) /\ (origin \in Seq(Bit))'
      BY <1>a, <2>3, <3>1
    <3> QED
      BY <2>1, <2>2, <3>1, <3>2, NewMnemonic
  <2>4. CASE words # mn.words
    <3>1. words \in Seq(Word \cup {<<>>})
      BY <1>a, TypedWords
    <3>2. words = FromEntropy(Entropy(words)) /\ Entropy(words) \in Seq(Bit)
      <4>1. PICK s \in Strengths : /\ Entropy(words) \in [1..s -> Bit]
                                   /\ words = FromEntropy(Entropy(words))
        BY <2>1, <3>1, Accepted
      <4>2. s \in Nat
        BY MnemonicAssumption DEF MnemonicAssumption
      <4> QED
        BY <4>1, <4>2
    <3>3. origin' = Entropy(words)
      BY <1>4, <2>4 DEF FromPhrase
    <3>4. words \in Seq(Word)
      BY <3>2, AnyEntropyWords
    <3> QED
      BY <2>1, <2>2, <3>2, <3>3, <3>4, NewMnemonic
  <2> QED
    BY <2>3, <2>4
<1>5. ASSUME StoreAndUnlock PROVE IInv'
  <2>1. PICK ent \in Seq(Bit) : ent = Entropy(mn.words)
    BY <1>a, EntropyIsBits
  <2>2. root' = <<"entropy", ent>> /\ UNCHANGED <<origin, slips>>
    BY <1>5, <2>1 DEF StoreAndUnlock
  <2>3. Len(origin) \in Strengths => mn.words = FromEntropy(origin) /\ origin = ent
    BY <1>a, <2>1, WrittenWords DEF IInv
  <2>4. (slips \in 0..MaxSlips)' /\ (origin \in Seq(Bit))'
    BY <1>a, <2>2
  <2>5. CASE Len(ent) \in Strengths
    <3>1. mn' = [words |-> FromEntropy(ent), spacing |-> "single"]
      BY <1>5, <2>1, <2>5 DEF StoreAndUnlock
    <3>2. (mn').words = FromEntropy(ent) /\ (mn').spacing = "single"
      BY <3>1
    <3>3. FromEntropy(ent) \in Seq(Word)
      BY AnyEntropyWords
    <3>4. \E s \in Strengths, e \in Seq(Bit) : GrewFrom(s, e)'
      <4>1. PICK s \in Strengths : ent \in [1..s -> Bit]
        BY <2>5, StrengthBits
      <4>2. GrewFrom(s, ent)'
        BY <2>2, <3>2, <4>1 DEF GrewFrom
      <4> QED
        BY <4>2
    <3>5. Len(origin') \in Strengths => (mn').words = FromEntropy(origin')
      BY <2>2, <2>3, <3>2
    <3> QED
      BY <2>4, <3>1, <3>2, <3>3, <3>4, <3>5 DEF IInv
  <2>6. CASE Len(ent) \notin Strengths
    <3>1. mn' = None
      BY <1>5, <2>1, <2>6 DEF StoreAndUnlock
    <3>2. Len(origin') \notin Strengths
      BY <2>2, <2>3, <2>6
    <3>3. /\ (mn').words = <<>> /\ (mn').spacing = "single"
          /\ mn' = [words |-> (mn').words, spacing |-> (mn').spacing]
      BY <3>1, NothingWritten DEF None
    <3>4. <<>> \in Seq(Word)
      OBVIOUS
    <3> QED
      BY <2>4, <3>1, <3>2, <3>3, <3>4 DEF IInv
  <2> QED
    BY <2>5, <2>6
<1>6. CASE UNCHANGED vars
  BY <1>6 DEF vars, IInv, GrewFrom
<1> QED
  BY <1>2, <1>3, <1>4, <1>5, <1>6 DEF Next

LEMMA Invariant == Spec => []IInv
BY InitIInv, StepIInv, PTL DEF Spec

\* Words are WordBits bits wide and the origin is a sequence of bits.
THEOREM TypeCorrect == Spec => []TypeOK
<1>1. IInv => TypeOK
  BY DEF IInv, TypeOK, Word, Bit
<1> QED
  BY <1>1, Invariant, PTL

\* No sequence of writing down, typing in, storing and unlocking changes the
\* entropy of a mnemonic of BIP-39's lengths, whatever the width of words and
\* the strengths; and an unlocked wallet grows from the entropy of its mnemonic
\* even if some other length was drawn.
THEOREM EntropyIsKept == Spec => []EntropyKept
<1>1. IInv => EntropyKept
  <2> SUFFICES ASSUME IInv PROVE EntropyKept
    OBVIOUS
  <2>1. ASSUME Len(origin) \in Strengths
        PROVE  mn # None /\ ~Overflows(mn.words) /\ Entropy(mn.words) = origin
    <3>1. origin \in Seq(Bit) /\ mn.words = FromEntropy(origin)
      BY <2>1 DEF IInv
    <3>2. /\ FromEntropy(origin) # <<>> /\ Entropy(FromEntropy(origin)) = origin
          /\ ~Overflows(FromEntropy(origin))
      BY <2>1, <3>1, WrittenWords
    <3> QED
      BY <3>1, <3>2, NothingWritten
  <2>2. ASSUME mn # None, root # NoRoot PROVE root = <<"entropy", Entropy(mn.words)>>
    <3>1. PICK s \in Strengths, ent \in Seq(Bit) : GrewFrom(s, ent)
      BY <2>2 DEF IInv
    <3> QED
      BY <3>1, Written DEF GrewFrom
  <2> QED
    BY <2>1, <2>2 DEF EntropyKept
<1> QED
  BY <1>1, Invariant, PTL

\* Phrases from_phrase takes and entropies of BIP-39's lengths are the same
\* thing, for all of them and not only those in hand: from_entropy and entropy
\* are inverse to each other, so an entropy has one phrase and a phrase one
\* entropy.
THEOREM OnePhrasePerEntropy ==
    /\ \A s \in Strengths : \A ent \in [1..s -> {0, 1}] :
          ValidPhrase(FromEntropy(ent)) /\ Entropy(FromEntropy(ent)) = ent
    /\ \A words \in Seq([1..WordBits -> {0, 1}] \cup {<<>>}) :
          ValidPhrase(words) => /\ \E s \in Strengths : Entropy(words) \in [1..s -> {0, 1}]
                                /\ FromEntropy(Entropy(words)) = words
<1>1. ASSUME NEW s \in Strengths, NEW ent \in [1..s -> {0, 1}]
      PROVE  ValidPhrase(FromEntropy(ent)) /\ Entropy(FromEntropy(ent)) = ent
  BY Written DEF Bit
<1>2. ASSUME NEW words \in Seq([1..WordBits -> {0, 1}] \cup {<<>>}), ValidPhrase(words)
      PROVE  /\ \E s \in Strengths : Entropy(words) \in [1..s -> {0, 1}]
             /\ FromEntropy(Entropy(words)) = words
  BY <1>2, Accepted DEF Word, Bit
<1> QED
  BY <1>1, <1>2

\* A mnemonic in hand that from_phrase takes is the phrase from_entropy writes
\* for its entropy, whatever length was drawn: from_phrase takes no other.
THEOREM AcceptedAreCanonical == Spec => []AcceptedIsCanonical
<1>1. IInv => AcceptedIsCanonical
  <2> SUFFICES ASSUME IInv, ValidPhrase(mn.words)
               PROVE  mn.words = FromEntropy(Entropy(mn.words))
    BY DEF AcceptedIsCanonical
  <2>1. mn.words \in Seq(Word \cup {<<>>})
    BY DEF IInv
  <2> QED
    BY <2>1, Accepted
<1> QED
  BY <1>1, Invariant, PTL

\* from_phrase takes back every mnemonic of BIP-39's lengths, and every one
\* that came out of a keystore.
THEOREM AllReimportable == Spec => []Reimportable
<1>1. IInv => Reimportable
  <2> SUFFICES ASSUME IInv, mn # None, Len(origin) \in Strengths \/ root # NoRoot
               PROVE  ValidPhrase(mn.words)
    BY DEF Reimportable
  <2>1. CASE Len(origin) \in Strengths
    BY <2>1, WrittenWords DEF IInv
  <2>2. CASE root # NoRoot
    <3>1. PICK s \in Strengths, ent \in Seq(Bit) : GrewFrom(s, ent)
      BY <2>2 DEF IInv
    <3> QED
      BY <3>1, Written DEF GrewFrom
  <2> QED
    BY <2>1, <2>2
<1> QED
  BY <1>1, Invariant, PTL

\* A phrase from_phrase takes, spelled with single spaces, comes out of its
\* keystore as it went in.
THEOREM PhrasesSurvive == Spec => PhraseSurvivesUnlock
<1> DEFINE Stored == StoreAndUnlock /\ ValidPhrase(mn.words) /\ mn.spacing = "single"
<1>1. IInv /\ Stored => mn' = mn
  <2> SUFFICES ASSUME IInv, Stored PROVE mn' = mn
    OBVIOUS
  <2>1. mn.words \in Seq(Word \cup {<<>>}) /\ mn = [words |-> mn.words, spacing |-> "single"]
    BY DEF IInv
  <2>2. PICK s \in Strengths : /\ Entropy(mn.words) \in [1..s -> Bit]
                               /\ mn.words = FromEntropy(Entropy(mn.words))
    BY <2>1, Accepted
  <2>3. Len(Entropy(mn.words)) = s
    BY <2>2, MnemonicAssumption DEF MnemonicAssumption
  <2>4. mn' = [words |-> FromEntropy(Entropy(mn.words)), spacing |-> "single"]
    BY <2>2, <2>3 DEF StoreAndUnlock
  <2> QED
    BY <2>1, <2>2, <2>4
<1>2. IInv => [Stored => mn' = mn]_vars
  BY <1>1
<1> QED
  BY <1>2, Invariant, PTL DEF PhraseSurvivesUnlock
=============================================================================
