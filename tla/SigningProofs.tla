--------------------------- MODULE SigningProofs ---------------------------
(***************************************************************************)
(* What Signing promises, for every byte base, width and set of components. *)
(*                                                                         *)
(* A component has a span, the number of digits up to its first nonzero    *)
(* one, and a DER integer is that many digits, or one more when the first  *)
(* has its high bit set.  From this: _der_to_rs gives the component's      *)
(* Width digits back (ComponentDigits, DerToRsIs), _rs_to_der the DER      *)
(* (EncodeDigits, RsToDerInverts), and _rs_to_der takes no two rows to one *)
(* (SignedInjective, RsToDerInjective).                                    *)
(***************************************************************************)
EXTENDS Signing, Rows, TLAPS

-----------------------------------------------------------------------------
\* The first n + 1 powers.
Powers(h, n) ==
    /\ h \in [0..n -> Nat]
    /\ h[0] = 1
    /\ \A i \in 1..n : h[i] = Base * h[i - 1]

LEMMA BaseIsEven ==
    /\ Base \in Nat /\ Base >= 2 /\ \E b \in Nat \ {0} : Base = 2 * b
    /\ Width \in Nat \ {0}
<1>1. PICK b \in 1..128 : Base = 2 * b
  BY SigningAssumption DEF SigningAssumption
<1>2. b \in Nat \ {0}
  OBVIOUS
<1> QED
  BY <1>1, <1>2, SigningAssumption DEF SigningAssumption

LEMMA PowersExist == \A n \in Nat : \E h : Powers(h, n)
<1> DEFINE T == {n \in Nat : ~\E h : Powers(h, n)}
<1> SUFFICES ASSUME T # {} PROVE FALSE
  OBVIOUS
<1>1. PICK n \in T : \A m \in T : n <= m
  <2>1. T \subseteq Nat
    OBVIOUS
  <2> QED
    BY <2>1, Least
<1>2. n # 0
  <2>1. Powers([i \in 0..0 |-> 1], 0)
    BY DEF Powers
  <2> QED
    BY <2>1
<1>3. n - 1 \in Nat /\ n - 1 \notin T
  BY <1>1, <1>2
<1>4. PICK h : Powers(h, n - 1)
  BY <1>3
<1> DEFINE g == [i \in 0..n |-> IF i = n THEN Base * h[n - 1] ELSE h[i]]
<1>5. Powers(g, n)
  <2>1. \A i \in 0..(n - 1) : h[i] \in Nat
    BY <1>4 DEF Powers
  <2>2. g \in [0..n -> Nat]
    BY <1>3, <2>1, BaseIsEven
  <2>3. g[0] = 1
    BY <1>2, <1>4 DEF Powers
  <2>4. ASSUME NEW i \in 1..n PROVE g[i] = Base * g[i - 1]
    BY <1>4 DEF Powers
  <2> QED
    BY <2>2, <2>3, <2>4 DEF Powers
<1> QED
  BY <1>1, <1>5

LEMMA PowersUnique ==
    ASSUME NEW n \in Nat, NEW m \in Nat, n <= m,
           NEW g, Powers(g, n), NEW h, Powers(h, m)
    PROVE  g[n] = h[n]
<1> DEFINE T == {i \in Nat : i <= n /\ g[i] # h[i]}
<1> SUFFICES ASSUME T # {} PROVE FALSE
  OBVIOUS
<1>1. PICK i \in T : \A j \in T : i <= j
  <2>1. T \subseteq Nat
    OBVIOUS
  <2> QED
    BY <2>1, Least
<1>2. i # 0
  BY DEF Powers
<1>3. i - 1 \in Nat /\ i - 1 <= n /\ g[i - 1] = h[i - 1]
  BY <1>1, <1>2
<1> QED
  BY <1>2, <1>3 DEF Powers

LEMMA PowerDef ==
    /\ Power[0] = 1
    /\ \A n \in Nat : Power[n] \in Nat /\ Power[n + 1] = Base * Power[n]
<1> DEFINE to(n) == CHOOSE h : Powers(h, n)
           power == [n \in Nat |-> to(n)[n]]
<1>1. \A n \in Nat : Powers(to(n), n)
  BY PowersExist
<1> HIDE DEF to
<1>2. power[0] = 1
  BY <1>1 DEF Powers
<1>3. ASSUME NEW n \in Nat PROVE power[n] \in Nat /\ power[n + 1] = Base * power[n]
  <2>1. Powers(to(n), n) /\ Powers(to(n + 1), n + 1)
    BY <1>1
  <2>2. to(n)[n] = to(n + 1)[n]
    BY <2>1, PowersUnique
  <2>3. to(n + 1)[n + 1] = Base * to(n + 1)[n] /\ to(n)[n] \in Nat
    BY <2>1 DEF Powers
  <2> QED
    BY <2>2, <2>3
<1>4. power = [k \in Nat |-> IF k = 0 THEN 1 ELSE Base * power[k - 1]]
  <2>1. ASSUME NEW k \in Nat PROVE power[k] = IF k = 0 THEN 1 ELSE Base * power[k - 1]
    <3>1. CASE k = 0
      BY <1>2, <3>1
    <3>2. CASE k # 0
      <4>1. k - 1 \in Nat /\ (k - 1) + 1 = k
        BY <3>2
      <4> QED
        BY <1>3, <3>2, <4>1
    <3> QED
      BY <3>1, <3>2
  <2> HIDE DEF to
  <2> QED
    BY <2>1
<1> HIDE DEF power
<1>5. Power = [k \in Nat |-> IF k = 0 THEN 1 ELSE Base * Power[k - 1]]
  BY <1>4 DEF Power
<1>6. Power[0] = 1
  BY <1>5
<1>7. \A n \in Nat : Power[n + 1] = Base * Power[n]
  BY <1>5
<1> DEFINE T == {n \in Nat : Power[n] \notin Nat}
<1>8. T = {}
  <2> SUFFICES ASSUME T # {} PROVE FALSE
    OBVIOUS
  <2>1. PICK n \in T : \A m \in T : n <= m
    <3>1. T \subseteq Nat
      OBVIOUS
    <3> QED
      BY <3>1, Least
  <2>2. n # 0
    BY <1>6
  <2>3. n - 1 \in Nat /\ Power[n - 1] \in Nat /\ (n - 1) + 1 = n
    BY <2>1, <2>2
  <2> QED
    BY <1>7, <2>3, BaseIsEven
<1> QED
  BY <1>6, <1>7, <1>8

LEMMA PowersGrow ==
    ASSUME NEW i \in Nat, NEW j \in Nat, i <= j
    PROVE  1 <= Power[i] /\ Power[i] <= Power[j]
<1>1. \A n \in Nat : 1 <= Power[n]
  <2> DEFINE T == {n \in Nat : ~(1 <= Power[n])}
  <2> SUFFICES ASSUME T # {} PROVE FALSE
    OBVIOUS
  <2>1. PICK n \in T : \A m \in T : n <= m
    <3>1. T \subseteq Nat
      OBVIOUS
    <3> QED
      BY <3>1, Least
  <2>2. n # 0
    BY PowerDef
  <2>3. n - 1 \in Nat /\ 1 <= Power[n - 1] /\ (n - 1) + 1 = n
    BY <2>1, <2>2
  <2>4. Power[n] = Base * Power[n - 1] /\ Power[n - 1] \in Nat
    BY <2>3, PowerDef
  <2> QED
    BY <2>3, <2>4, BaseIsEven
<1> DEFINE T == {n \in Nat : i <= n /\ ~(Power[i] <= Power[n])}
<1>2. T = {}
  <2> SUFFICES ASSUME T # {} PROVE FALSE
    OBVIOUS
  <2>1. PICK n \in T : \A m \in T : n <= m
    <3>1. T \subseteq Nat
      OBVIOUS
    <3> QED
      BY <3>1, Least
  <2>2. n # i /\ n # 0
    BY PowerDef
  <2>3. n - 1 \in Nat /\ i <= n - 1 /\ Power[i] <= Power[n - 1] /\ (n - 1) + 1 = n
    BY <2>1, <2>2
  <2>4. Power[n] = Base * Power[n - 1] /\ Power[n - 1] \in Nat /\ Power[i] \in Nat
    BY <2>3, PowerDef
  <2>5. Power[n - 1] <= Base * Power[n - 1]
    BY <2>4, BaseIsEven
  <2> QED
    BY <2>3, <2>4, <2>5, BaseIsEven
<1> QED
  BY <1>1, <1>2

-----------------------------------------------------------------------------
LEMMA Quotient ==
    ASSUME NEW n \in Nat, NEW d \in Nat, 1 <= d
    PROVE  /\ n \div d \in Nat /\ n % d \in Nat /\ n % d < d
           /\ n = d * (n \div d) + (n % d)
OBVIOUS

\* The first digit of a number of j + 1 digits.
LEMMA TopDigit ==
    ASSUME NEW n \in Nat, NEW j \in Nat, n < Power[j + 1]
    PROVE  /\ n \div Power[j] \in 0..(Base - 1)
           /\ (n \div Power[j]) % Base = n \div Power[j]
           /\ n \div Power[j] = 0 <=> n < Power[j]
           /\ 2 * (n \div Power[j]) >= Base <=> 2 * n >= Power[j + 1]
<1> DEFINE p == Power[j]
           q == n \div p
           r == n % p
<1>1. p \in Nat /\ 1 <= p /\ Power[j + 1] = Base * p
  BY PowerDef, PowersGrow
<1> HIDE DEF p
<1>2. q \in Nat /\ r \in Nat /\ r < p /\ n = p * q + r
  BY <1>1, Quotient
<1> HIDE DEF q, r
<1>3. q < Base
  <2> SUFFICES ASSUME q >= Base PROVE FALSE
    BY <1>2, BaseIsEven
  <2>1. p * q >= p * Base
    BY <1>1, <1>2, BaseIsEven
  <2> QED
    BY <1>1, <1>2, <2>1, BaseIsEven
<1>4. q = 0 <=> n < p
  <2>1. q >= 1 => p * q >= p
    BY <1>1, <1>2
  <2> QED
    BY <1>1, <1>2, <2>1
<1>5. 2 * q >= Base <=> 2 * n >= Base * p
  <2>1. PICK b \in Nat \ {0} : Base = 2 * b
    BY BaseIsEven
  <2>2. 2 * q >= Base <=> q >= b
    BY <1>2, <2>1
  <2>3. q >= b => p * q >= p * b
    BY <1>1, <1>2
  <2>4. q < b => p * (q + 1) <= p * b
    BY <1>1, <1>2
  <2>5. p * (q + 1) = p * q + p /\ Base * p = 2 * (p * b)
    BY <1>1, <1>2, <2>1
  <2>6. p * q \in Nat /\ p * b \in Nat
    BY <1>1, <1>2
  <2> QED
    BY <1>1, <1>2, <2>2, <2>3, <2>4, <2>5, <2>6
<1>6. q % Base = q
  BY <1>2, <1>3, BaseIsEven
<1>7. q \in 0..(Base - 1)
  BY <1>2, <1>3, BaseIsEven
<1>8. 2 * q >= Base <=> 2 * n >= Power[j + 1]
  BY <1>1, <1>5
<1> QED
  BY <1>4, <1>6, <1>7, <1>8, Zenon DEF p, q

\* n takes L bytes.
Spans(n, L) == L \in 1..Width /\ Power[L - 1] <= n /\ n < Power[L]

LEMMA SpanExists ==
    ASSUME NEW n \in Components
    PROVE  n \in Nat /\ n < Power[Width] /\ \E L \in 1..Width : Spans(n, L)
<1>1. n \in 1..(Power[Width] - 1) /\ Width \in Nat \ {0} /\ Power[Width] \in Nat
  BY SigningAssumption, PowerDef, BaseIsEven DEF SigningAssumption
<1> DEFINE T == {k \in Nat : n < Power[k]}
<1>2. PICK L \in T : \A m \in T : L <= m
  <2>1. T \subseteq Nat /\ Width \in T
    BY <1>1
  <2> QED
    BY <2>1, Least
<1>3. L <= Width /\ L # 0
  BY <1>1, <1>2, PowerDef
<1>4. L - 1 \in Nat /\ L - 1 \notin T /\ Power[L - 1] \in Nat
  BY <1>2, <1>3, PowerDef
<1> QED
  BY <1>1, <1>2, <1>3, <1>4 DEF Spans
-----------------------------------------------------------------------------
(* Bytes.                                                                  *)

Byte == 0..(Base - 1)

\* The byte of n that Power[j] is the weight of.
Digit(n, j) == (n \div Power[j]) % Base

LEMMA DigitsRow ==
    ASSUME NEW n \in Nat, NEW k \in Nat
    PROVE  /\ Row(Digits(n, k), k) /\ Len(Digits(n, k)) = k
           /\ Digits(n, k) \in [1..k -> Byte]
           /\ \A i \in 1..k : Digits(n, k)[i] = Digit(n, k - i)
<1>1. ASSUME NEW i \in 1..k PROVE Digit(n, k - i) \in Byte
  <2>1. k - i \in Nat
    OBVIOUS
  <2>2. Power[k - i] \in Nat /\ 1 <= Power[k - i]
    BY <2>1, PowerDef, PowersGrow
  <2>3. n \div Power[k - i] \in Nat
    BY <2>2, Quotient
  <2> QED
    BY <2>3, Quotient, BaseIsEven DEF Digit, Byte
<1>2. Digits(n, k) = [i \in 1..k |-> Digit(n, k - i)]
  BY DEF Digits, Digit
<1> QED
  BY <1>1, <1>2 DEF Row

\* The bytes of a number of L bytes.
LEMMA SpanDigits ==
    ASSUME NEW n \in Nat, NEW L, Spans(n, L)
    PROVE  /\ \A j \in Nat : j >= L => Digit(n, j) = 0
           /\ Digit(n, L - 1) # 0
           /\ 2 * Digit(n, L - 1) >= Base <=> 2 * n >= Power[L]
<1>1. /\ L - 1 \in Nat /\ L \in Nat /\ (L - 1) + 1 = L
      /\ Power[L - 1] <= n /\ n < Power[L]
      /\ Power[L - 1] \in Nat
  BY BaseIsEven, PowerDef DEF Spans
<1>2. ASSUME NEW j \in Nat, j >= L PROVE Digit(n, j) = 0
  <2>1. Power[L] <= Power[j] /\ Power[j] <= Power[j + 1]
    BY <1>1, <1>2, PowersGrow
  <2>2. Power[L] \in Nat /\ Power[j] \in Nat /\ Power[j + 1] \in Nat
    BY <1>1, PowerDef
  <2>3. n < Power[j] /\ n < Power[j + 1]
    BY <1>1, <2>1, <2>2
  <2> QED
    BY <2>3, TopDigit DEF Digit
<1>3. n < Power[(L - 1) + 1]
  BY <1>1
<1>4. /\ Digit(n, L - 1) = n \div Power[L - 1]
      /\ n \div Power[L - 1] = 0 <=> n < Power[L - 1]
      /\ 2 * (n \div Power[L - 1]) >= Base <=> 2 * n >= Power[(L - 1) + 1]
  BY <1>1, <1>3, TopDigit DEF Digit
<1>5. Digit(n, L - 1) # 0
  BY <1>1, <1>4
<1>6. 2 * Digit(n, L - 1) >= Base <=> 2 * n >= Power[L]
  BY <1>1, <1>4
<1> QED
  BY <1>2, <1>5, <1>6

\* One byte more than n takes, if the sign bit would be set.
SignedLen(n, L) == IF 2 * n < Power[L] THEN L ELSE L + 1

LEMMA DerLenOf ==
    ASSUME NEW n \in Nat, NEW L, Spans(n, L)
    PROVE  DerLen(n) = SignedLen(n, L) /\ DerLen(n) \in 1..(Width + 1)
<1> DEFINE Fits(k) == /\ 2 * n < Power[k]
                      /\ \A j \in 1..(k - 1) : 2 * n >= Power[j]
           K == SignedLen(n, L)
<1>1. /\ L \in 1..Width /\ L - 1 \in Nat /\ (L - 1) + 1 = L /\ Width \in Nat
      /\ Power[L - 1] <= n /\ n < Power[L]
  BY BaseIsEven DEF Spans
<1>2. Power[L] \in Nat /\ Power[L + 1] = Base * Power[L] /\ Power[L - 1] \in Nat
  BY <1>1, PowerDef
<1>3. K \in 1..(Width + 1)
  BY <1>1 DEF SignedLen
<1>4. 2 * n < Power[K]
  <2>1. 2 * Power[L] <= Base * Power[L]
    BY <1>2, BaseIsEven
  <2> QED
    BY <1>1, <1>2, <2>1, BaseIsEven DEF SignedLen
<1>5. ASSUME NEW j \in 1..(K - 1) PROVE 2 * n >= Power[j]
  <2>1. j \in Nat /\ Power[j] \in Nat
    BY PowerDef
  <2>2. CASE j <= L - 1
    <3>1. Power[j] <= Power[L - 1]
      BY <1>1, <2>1, <2>2, PowersGrow
    <3> QED
      BY <1>1, <1>2, <2>1, <3>1
  <2>3. CASE j > L - 1
    <3>1. j = L /\ ~(2 * n < Power[L])
      BY <1>1, <1>3, <2>3 DEF SignedLen
    <3> QED
      BY <1>2, <3>1
  <2> QED
    BY <1>1, <2>1, <2>2, <2>3
<1> HIDE DEF K
<1>6. Fits(K)
  BY <1>4, <1>5
<1>7. ASSUME NEW k \in 1..(Width + 1), Fits(k) PROVE k = K
  <2>1. ~(k < K)
    <3>1. k < K => k \in 1..(K - 1) /\ k \in Nat
      BY <1>3
    <3>2. Power[k] \in Nat
      BY PowerDef
    <3> QED
      BY <1>6, <1>7, <3>1, <3>2
  <2>2. ~(K < k)
    <3>1. K < k => K \in 1..(k - 1)
      BY <1>3
    <3>2. Power[K] \in Nat
      BY <1>3, PowerDef
    <3> QED
      BY <1>6, <1>7, <3>1, <3>2
  <2> QED
    BY <1>3, <2>1, <2>2
<1> HIDE DEF Fits
<1>8. (CHOOSE k \in 1..(Width + 1) : Fits(k)) = K
  BY <1>3, <1>6, <1>7
<1>9. DerLen(n) = CHOOSE k \in 1..(Width + 1) : Fits(k)
  BY DEF DerLen, Fits
<1> QED
  BY <1>3, <1>8, <1>9 DEF K
-----------------------------------------------------------------------------
(* encode_int, on n bytes.                                                 *)

IsFirst(x, i) ==
    /\ i \in DOMAIN x
    /\ \A j \in 1..(i - 1) : x[j] = 0
    /\ x[i] # 0 \/ i = Len(x)

LEMMA FirstByteOf ==
    ASSUME NEW n \in Nat \ {0}, NEW x \in [1..n -> Byte]
    PROVE  /\ Len(x) = n /\ Row(x, n)
           /\ FirstByte(x) \in 1..n /\ IsFirst(x, FirstByte(x))
           /\ \A i : IsFirst(x, i) => FirstByte(x) = i
<1>1. Len(x) = n /\ Row(x, n) /\ DOMAIN x = 1..n
  BY DEF Row
<1> DEFINE T == {i \in 1..n : x[i] # 0}
<1>2. \E i : IsFirst(x, i)
  <2>1. CASE T = {}
    <3>1. IsFirst(x, n)
      BY <1>1, <2>1 DEF IsFirst
    <3> QED
      BY <3>1
  <2>2. CASE T # {}
    <3>1. PICK i \in T : \A j \in T : i <= j
      <4>1. T \subseteq Nat
        OBVIOUS
      <4> QED
        BY <2>2, <4>1, Least
    <3>2. IsFirst(x, i)
      BY <1>1, <3>1 DEF IsFirst
    <3> QED
      BY <3>2
  <2> QED
    BY <2>1, <2>2
<1>3. FirstByte(x) = CHOOSE i \in DOMAIN x : IsFirst(x, i)
  BY DEF FirstByte, IsFirst
<1>4. IsFirst(x, FirstByte(x))
  <2>1. \E i \in DOMAIN x : IsFirst(x, i)
    BY <1>2 DEF IsFirst
  <2> QED
    BY <1>3, <2>1
<1>5. ASSUME NEW i, NEW k, IsFirst(x, i), IsFirst(x, k), i < k PROVE FALSE
  <2>1. i \in 1..n /\ k \in 1..n /\ i \in 1..(k - 1)
    BY <1>1, <1>5 DEF IsFirst
  <2>2. x[i] = 0 /\ i = n
    BY <1>1, <1>5, <2>1 DEF IsFirst
  <2> QED
    BY <1>5, <2>1, <2>2
<1>6. ASSUME NEW i, IsFirst(x, i) PROVE FirstByte(x) = i
  <2>1. PICK k : k = FirstByte(x)
    OBVIOUS
  <2>2. IsFirst(x, k)
    BY <1>4, <2>1
  <2>3. i \in 1..n /\ k \in 1..n
    BY <1>1, <1>6, <2>2 DEF IsFirst
  <2>4. ~(i < k) /\ ~(k < i)
    BY <1>5, <1>6, <2>2
  <2> QED
    BY <2>1, <2>3, <2>4
<1>7. FirstByte(x) \in 1..n
  BY <1>1, <1>4 DEF IsFirst
<1> QED
  BY <1>1, <1>4, <1>6, <1>7

\* Without its leading zeros, and with the one in front of a high bit.
Stripped(x) == SubSeq(x, FirstByte(x), Len(x))
Signed(x)   == IF 2 * Stripped(x)[1] >= Base THEN <<0>> \o Stripped(x) ELSE Stripped(x)

LEMMA EncodeIntOf == \A x : EncodeInt(x) = <<2, Len(Signed(x))>> \o Signed(x)
BY DEF EncodeInt, Signed, Stripped

LEMMA StrippedCells ==
    ASSUME NEW n \in Nat \ {0}, NEW x \in [1..n -> Byte]
    PROVE  LET f == FirstByte(x)
               m == n - f + 1
           IN  /\ f \in 1..n /\ m \in 1..n
               /\ Row(Stripped(x), m) /\ Stripped(x) \in [1..m -> Byte]
               /\ \A i \in 1..m : Stripped(x)[i] = x[f - 1 + i]
<1> DEFINE f == FirstByte(x)
           m == n - f + 1
           t == [i \in 1..m |-> x[f - 1 + i]]
<1>1. Len(x) = n /\ Row(x, n) /\ f \in 1..n
  BY FirstByteOf
<1> HIDE DEF f
<1>2. m \in 1..n /\ \A i \in 1..m : f - 1 + i \in 1..n
  BY <1>1
<1>3. t \in [1..m -> Byte] /\ Row(t, m) /\ \A i \in 1..m : t[i] = x[f - 1 + i]
  BY <1>2 DEF Row
<1>4. PartOf(t, m, x, n, f, n)
  BY <1>1, <1>2 DEF PartOf, Row
<1> HIDE DEF m, t
<1>5. SubSeq(x, f, n) = t
  BY <1>4, Slice
<1>6. Stripped(x) = t
  BY <1>1, <1>5 DEF Stripped, f
<1> QED
  BY <1>1, <1>2, <1>3, <1>6, Zenon DEF f, m

LEMMA SignedCells ==
    ASSUME NEW n \in Nat \ {0}, NEW x \in [1..n -> Byte]
    PROVE  /\ Len(Signed(x)) \in 1..(n + 1)
           /\ Row(Signed(x), Len(Signed(x)))
<1> DEFINE b == Stripped(x)
           m == n - FirstByte(x) + 1
<1>1. m \in 1..n /\ Row(b, m) /\ Len(b) = m
  BY StrippedCells, RowIsSeq
<1> HIDE DEF b, m
<1>2. Joins(<<0>> \o b, <<0>>, 1, b, m)
  <2>1. Row(<<0>>, 1)
    BY DEF Row
  <2> QED
    BY <1>1, <2>1, Concatenation
<1>3. Row(<<0>> \o b, 1 + m) /\ Len(<<0>> \o b) = 1 + m
  BY <1>2 DEF Joins
<1>4. CASE 2 * b[1] >= Base
  BY <1>1, <1>3, <1>4 DEF Signed, b
<1>5. CASE ~(2 * b[1] >= Base)
  BY <1>1, <1>5 DEF Signed, b
<1> QED
  BY <1>4, <1>5

\* No two rows of bytes are encoded alike.
LEMMA SignedInjective ==
    ASSUME NEW n \in Nat \ {0}, NEW x \in [1..n -> Byte], NEW y \in [1..n -> Byte],
           Signed(x) = Signed(y)
    PROVE  x = y
<1> DEFINE High(z) == 2 * Stripped(z)[1] >= Base
           m(z)    == n - FirstByte(z) + 1
<1>1. ASSUME NEW z \in [1..n -> Byte]
      PROVE  /\ m(z) \in 1..n /\ Row(Stripped(z), m(z)) /\ Len(Stripped(z)) = m(z)
             /\ Stripped(z)[1] = z[FirstByte(z)]
             /\ m(z) > 1 => Stripped(z)[1] # 0
  <2>1. /\ FirstByte(z) \in 1..n /\ m(z) \in 1..n
        /\ Row(Stripped(z), m(z)) /\ Len(Stripped(z)) = m(z)
        /\ \A i \in 1..m(z) : Stripped(z)[i] = z[FirstByte(z) - 1 + i]
    BY StrippedCells, RowIsSeq
  <2>2. IsFirst(z, FirstByte(z)) /\ Len(z) = n
    BY FirstByteOf
  <2>3. 1 \in 1..m(z) /\ FirstByte(z) - 1 + 1 = FirstByte(z)
    BY <2>1
  <2>4. Stripped(z)[1] = z[FirstByte(z)]
    BY <2>1, <2>3
  <2>5. m(z) > 1 => FirstByte(z) # n
    BY <2>1
  <2> QED
    BY <2>1, <2>2, <2>4, <2>5 DEF IsFirst
<1> HIDE DEF m
<1>2. ASSUME NEW z \in [1..n -> Byte], High(z)
      PROVE  /\ Signed(z) = <<0>> \o Stripped(z)
             /\ Len(Signed(z)) = 1 + m(z) /\ Signed(z)[1] = 0
  <2>1. Signed(z) = <<0>> \o Stripped(z)
    BY <1>2 DEF Signed
  <2>2. Joins(<<0>> \o Stripped(z), <<0>>, 1, Stripped(z), m(z))
    <3>1. Row(<<0>>, 1)
      BY DEF Row
    <3> QED
      BY <1>1, <3>1, Concatenation
  <2>3. <<0>>[1] = 0 /\ 1 \in 1..1
    OBVIOUS
  <2> QED
    BY <2>1, <2>2, <2>3 DEF Joins
<1>3. ASSUME NEW z \in [1..n -> Byte], ~High(z)
      PROVE  Signed(z) = Stripped(z) /\ Len(Signed(z)) = m(z)
  BY <1>1, <1>3 DEF Signed
<1> HIDE DEF High
<1>4. ASSUME NEW v \in [1..n -> Byte], NEW w \in [1..n -> Byte],
             High(v), ~High(w), Signed(v) = Signed(w)
      PROVE  FALSE
  <2>1. Signed(v)[1] = 0 /\ Len(Signed(v)) = 1 + m(v)
    BY <1>2, <1>4
  <2>2. Signed(w) = Stripped(w) /\ Len(Signed(w)) = m(w)
    BY <1>3, <1>4
  <2>3. m(w) > 1
    BY <1>1, <1>4, <2>1, <2>2
  <2> QED
    BY <1>1, <1>4, <2>1, <2>2, <2>3
<1>5. Stripped(x) = Stripped(y)
  <2>1. CASE High(x) /\ High(y)
    <3>1. <<0>> \o Stripped(x) = <<0>> \o Stripped(y)
      BY <1>2, <2>1
    <3>2. Row(<<0>>, 1)
      BY DEF Row
    <3> QED
      BY <1>1, <3>1, <3>2, PartsAgree
  <2>2. CASE ~High(x) /\ ~High(y)
    BY <1>3, <2>2
  <2> QED
    BY <1>4, <2>1, <2>2
<1>6. m(x) = m(y)
  BY <1>1, <1>5
<1>7. FirstByte(x) = FirstByte(y) /\ FirstByte(x) \in 1..n
  BY <1>6, FirstByteOf DEF m
<1>8. ASSUME NEW i \in 1..n PROVE x[i] = y[i]
  <2>1. CASE i < FirstByte(x)
    <3>1. i \in 1..(FirstByte(x) - 1)
      BY <1>7, <2>1
    <3> QED
      BY <1>7, <3>1, FirstByteOf DEF IsFirst
  <2>2. CASE i >= FirstByte(x)
    <3> DEFINE f == FirstByte(x)
    <3>1. \A k \in 1..(n - f + 1) : x[f - 1 + k] = y[f - 1 + k]
      BY <1>5, <1>7, StrippedCells
    <3>2. i - f + 1 \in 1..(n - f + 1) /\ f - 1 + (i - f + 1) = i
      BY <1>7, <2>2
    <3> QED
      BY <3>1, <3>2
  <2> QED
    BY <1>7, <2>1, <2>2
<1> QED
  BY <1>8

-----------------------------------------------------------------------------
(* Both conversions, on a component.                                       *)

LEMMA SpanStripped ==
    ASSUME NEW n \in Nat, NEW L, Spans(n, L)
    PROVE  Stripped(Digits(n, Width)) = Digits(n, L)
<1> DEFINE x == Digits(n, Width)
           f == Width - L + 1
<1>1. /\ Width \in Nat \ {0} /\ L \in 1..Width /\ f \in 1..Width
      /\ Width - f + 1 = L
  BY BaseIsEven DEF Spans
<1>2. /\ Row(x, Width) /\ Len(x) = Width /\ x \in [1..Width -> Byte]
      /\ \A i \in 1..Width : x[i] = Digit(n, Width - i)
  BY <1>1, DigitsRow
<1>3. /\ Row(Digits(n, L), L)
      /\ \A i \in 1..L : Digits(n, L)[i] = Digit(n, L - i)
  BY <1>1, DigitsRow
<1> HIDE DEF x
<1>4. IsFirst(x, f)
  <2>1. x[f] # 0
    <3>1. Width - f = L - 1
      BY <1>1
    <3>2. x[f] = Digit(n, L - 1)
      BY <1>1, <1>2, <3>1
    <3> QED
      BY <3>2, SpanDigits
  <2>2. ASSUME NEW j \in 1..(f - 1) PROVE x[j] = 0
    <3>1. j \in 1..Width /\ Width - j \in Nat /\ Width - j >= L
      BY <1>1
    <3> QED
      BY <1>2, <3>1, SpanDigits
  <2> QED
    BY <1>1, <1>2, <2>1, <2>2, RowIsSeq DEF IsFirst
<1>5. FirstByte(x) = f
  BY <1>1, <1>2, <1>4, FirstByteOf
<1> HIDE DEF f
<1>6. Row(Stripped(x), L) /\ \A i \in 1..L : Stripped(x)[i] = x[f - 1 + i]
  BY <1>1, <1>2, <1>5, StrippedCells
<1>7. ASSUME NEW i \in 1..L PROVE Stripped(x)[i] = Digits(n, L)[i]
  <2>1. f - 1 + i \in 1..Width /\ Width - (f - 1 + i) = L - i
    BY <1>1
  <2> QED
    BY <1>2, <1>3, <1>6, <2>1
<1>8. Stripped(x) = Digits(n, L)
  BY <1>3, <1>6, <1>7, RowsEqual
<1> QED
  BY <1>8 DEF x

LEMMA ExtraZero ==
    ASSUME NEW n \in Nat, NEW k \in Nat, Digit(n, k) = 0
    PROVE  Digits(n, k + 1) = <<0>> \o Digits(n, k)
<1> DEFINE d == Digits(n, k)
           e == Digits(n, k + 1)
<1>1. Row(d, k) /\ \A i \in 1..k : d[i] = Digit(n, k - i)
  BY DigitsRow
<1>2. Row(e, k + 1) /\ \A i \in 1..(k + 1) : e[i] = Digit(n, k + 1 - i)
  <2>1. PICK m \in Nat : m = k + 1
    OBVIOUS
  <2>2. Row(Digits(n, m), m) /\ \A i \in 1..m : Digits(n, m)[i] = Digit(n, m - i)
    BY DigitsRow
  <2> QED
    BY <2>1, <2>2
<1> HIDE DEF d, e
<1>3. Joins(<<0>> \o d, <<0>>, 1, d, k)
  <2>1. Row(<<0>>, 1)
    BY DEF Row
  <2> QED
    BY <1>1, <2>1, Concatenation
<1>4. Row(<<0>> \o d, k + 1)
  <2>1. 1 + k = k + 1
    OBVIOUS
  <2> QED
    BY <1>3, <2>1 DEF Joins
<1>5. ASSUME NEW i \in 1..(k + 1) PROVE e[i] = (<<0>> \o d)[i]
  <2>1. CASE i = 1
    <3>1. (<<0>> \o d)[1] = <<0>>[1] /\ <<0>>[1] = 0
      BY <1>3 DEF Joins
    <3>2. k + 1 - 1 = k /\ 1 \in 1..(k + 1)
      OBVIOUS
    <3> QED
      BY <1>2, <2>1, <3>1, <3>2
  <2>2. CASE i # 1
    <3>1. i - 1 \in 1..k /\ 1 + (i - 1) = i /\ k - (i - 1) = k + 1 - i
      BY <2>2
    <3>2. (<<0>> \o d)[1 + (i - 1)] = d[i - 1]
      BY <1>3, <3>1 DEF Joins
    <3> QED
      BY <1>1, <1>2, <3>1, <3>2
  <2> QED
    BY <2>1, <2>2
<1>6. e = <<0>> \o d
  BY <1>2, <1>4, <1>5, RowsEqual
<1> QED
  BY <1>6 DEF d, e

\* encode_int makes of a component what libsecp256k1 writes for it.
LEMMA EncodeDigits ==
    ASSUME NEW n \in Components
    PROVE  /\ Signed(Digits(n, Width)) = Digits(n, DerLen(n))
           /\ EncodeInt(Digits(n, Width)) = DerInteger(n)
<1>1. PICK L \in 1..Width : Spans(n, L) /\ n \in Nat
  BY SpanExists
<1>2. Stripped(Digits(n, Width)) = Digits(n, L)
  BY <1>1, SpanStripped
<1>3. L \in Nat /\ 1 \in 1..L
  BY BaseIsEven
<1>4. Digits(n, L)[1] = Digit(n, L - 1)
  BY <1>1, <1>3, DigitsRow
<1>5. Digit(n, L) = 0
  <2>1. L >= L
    BY <1>3
  <2> QED
    BY <1>1, <1>3, <2>1, SpanDigits
<1>6. Power[L] \in Nat
  BY <1>3, PowerDef
<1>7. Signed(Digits(n, Width)) = Digits(n, DerLen(n))
  <2>1. CASE 2 * n < Power[L]
    <3>1. DerLen(n) = L
      BY <1>1, <2>1, DerLenOf DEF SignedLen
    <3>2. ~(2 * n >= Power[L])
      BY <1>1, <1>6, <2>1
    <3>3. ~(2 * Digit(n, L - 1) >= Base)
      BY <1>1, <3>2, SpanDigits
    <3> QED
      BY <1>2, <1>4, <3>1, <3>3 DEF Signed
  <2>2. CASE ~(2 * n < Power[L])
    <3>1. DerLen(n) = L + 1
      BY <1>1, <2>2, DerLenOf DEF SignedLen
    <3>2. 2 * n >= Power[L]
      BY <1>1, <1>6, <2>2
    <3>3. 2 * Digit(n, L - 1) >= Base
      BY <1>1, <3>2, SpanDigits
    <3>4. Digits(n, L + 1) = <<0>> \o Digits(n, L)
      BY <1>1, <1>3, <1>5, ExtraZero
    <3> QED
      BY <1>2, <1>4, <3>1, <3>3, <3>4 DEF Signed
  <2> QED
    BY <2>1, <2>2
<1>8. DerLen(n) \in Nat
  BY <1>1, DerLenOf, BaseIsEven
<1>9. Len(Signed(Digits(n, Width))) = DerLen(n)
  BY <1>1, <1>7, <1>8, DigitsRow
<1>10. EncodeInt(Digits(n, Width)) = DerInteger(n)
  BY <1>7, <1>9, EncodeIntOf DEF DerInteger
<1> QED
  BY <1>7, <1>10

\* _der_to_rs makes of it Width bytes again.
LEMMA ComponentDigits ==
    ASSUME NEW n \in Components
    PROVE  Component(Digits(n, DerLen(n))) = Digits(n, Width)
<1> DEFINE k == DerLen(n)
           c == Digits(n, k)
           w == Digits(n, Width)
<1>1. PICK L \in 1..Width : Spans(n, L) /\ n \in Nat
  BY SpanExists
<1>2. k \in 1..(Width + 1) /\ k \in {L, L + 1} /\ Width \in Nat \ {0}
  BY <1>1, DerLenOf, BaseIsEven DEF SignedLen
<1> HIDE DEF k
<1>3. /\ Row(c, k) /\ Len(c) = k /\ c \in [1..k -> Byte]
      /\ \A i \in 1..k : c[i] = Digit(n, k - i)
  <2>1. k \in Nat
    BY <1>2
  <2> QED
    BY <1>1, <2>1, DigitsRow
<1>4. Row(w, Width) /\ Len(w) = Width /\ \A i \in 1..Width : w[i] = Digit(n, Width - i)
  BY <1>1, <1>2, DigitsRow
<1> HIDE DEF c, w
<1>5. \A j \in Nat : j >= L => Digit(n, j) = 0
  BY <1>1, SpanDigits
<1>6. ASSUME NEW body, Row(body, Len(body)), Len(body) \in 1..Width,
             \A i \in 1..Len(body) : body[i] = Digit(n, Len(body) - i),
             Len(body) >= L
      PROVE  [i \in 1..(Width - Len(body)) |-> 0] \o body = w
  <2> DEFINE b   == Len(body)
             pad == [i \in 1..(Width - b) |-> 0]
  <2>1. b \in 1..Width /\ Width - b \in Nat /\ (Width - b) + b = Width
    BY <1>2, <1>6
  <2>2. Row(pad, Width - b)
    BY <2>1 DEF Row
  <2>3. \A i \in 1..(Width - b) : pad[i] = 0
    OBVIOUS
  <2> HIDE DEF pad, b
  <2>4. Row(body, b) /\ b >= L /\ \A i \in 1..b : body[i] = Digit(n, b - i)
    BY <1>6 DEF b
  <2>5. Joins(pad \o body, pad, Width - b, body, b)
    BY <2>2, <2>4, Concatenation
  <2>6. Row(pad \o body, Width)
    BY <2>1, <2>5 DEF Joins
  <2>7. ASSUME NEW i \in 1..Width PROVE (pad \o body)[i] = w[i]
    <3>1. CASE i <= Width - b
      <4>1. i \in 1..(Width - b) /\ Width - i \in Nat /\ Width - i >= L
        BY <1>2, <2>1, <2>4, <3>1
      <4>2. (pad \o body)[i] = 0
        BY <2>3, <2>5, <4>1 DEF Joins
      <4> QED
        BY <1>4, <1>5, <4>1, <4>2
    <3>2. CASE i > Width - b
      <4>1. /\ i - (Width - b) \in 1..b /\ (Width - b) + (i - (Width - b)) = i
            /\ b - (i - (Width - b)) = Width - i
        BY <1>2, <2>1, <3>2
      <4>2. (pad \o body)[i] = body[i - (Width - b)]
        BY <2>5, <4>1 DEF Joins
      <4>3. body[i - (Width - b)] = Digit(n, Width - i)
        BY <2>4, <4>1
      <4>4. w[i] = Digit(n, Width - i)
        BY <1>4
      <4> QED
        BY <4>2, <4>3, <4>4, Zenon
    <3>3. i <= Width - b \/ i > Width - b
      BY <1>2, <2>1
    <3> QED
      BY <3>1, <3>2, <3>3, Zenon
  <2>8. pad \o body = w
    BY <1>4, <2>6, <2>7, RowsEqual
  <2> QED
    BY <2>8 DEF pad, b
<1>7. CASE k = Width + 1
  <2>1. c[1] = 0
    <3>1. 1 \in 1..k /\ k - 1 = Width /\ Width >= L
      BY <1>2, <1>7
    <3> QED
      BY <1>2, <1>3, <1>5, <3>1
  <2>2. /\ Row(Tail(c), Width) /\ Len(Tail(c)) = Width
        /\ \A i \in 1..Width : Tail(c)[i] = c[i + 1]
    <3>1. c \in Seq(Byte) /\ Len(c) = Width + 1 /\ c # <<>>
      BY <1>2, <1>3, <1>7
    <3>2. /\ Tail(c) \in Seq(Byte) /\ Len(Tail(c)) = Width
          /\ \A i \in 1..Width : Tail(c)[i] = c[i + 1]
      BY <1>2, <3>1, HeadTailProperties
    <3>3. PICK t \in Seq(Byte) : t = Tail(c)
      BY <3>2, Zenon
    <3>4. Row(t, Len(t))
      BY DEF Row
    <3> QED
      BY <3>2, <3>3, <3>4, Zenon
  <2>3. ASSUME NEW i \in 1..Width PROVE Tail(c)[i] = Digit(n, Width - i)
    <3>1. i + 1 \in 1..k /\ k - (i + 1) = Width - i
      BY <1>2, <1>7
    <3> QED
      BY <1>3, <2>2, <3>1
  <2> DEFINE t == Tail(c)
  <2>4. Row(t, Width) /\ Len(t) = Width /\ \A i \in 1..Width : t[i] = Digit(n, Width - i)
    BY <2>2, <2>3
  <2>5. Component(c) = [i \in 1..(Width - Len(t)) |-> 0] \o t
    BY <1>3, <1>7, <2>1 DEF Component
  <2> HIDE DEF t
  <2>6. Width \in 1..Width /\ Width >= L
    BY <1>2
  <2> QED
    BY <1>6, <2>4, <2>5, <2>6 DEF c, w, k
<1>8. CASE k # Width + 1
  <2>1. Component(c) = [i \in 1..(Width - Len(c)) |-> 0] \o c
    BY <1>3, <1>8 DEF Component
  <2>2. k \in 1..Width /\ k >= L
    BY <1>2, <1>8
  <2> QED
    BY <1>3, <1>6, <2>1, <2>2 DEF c, w, k
<1> QED
  BY <1>7, <1>8
-----------------------------------------------------------------------------
(* Both conversions, on whole signatures.                                  *)

\* Where the parts of <<48, length>> \o <<2, k>> \o d \o <<2, l>> \o e are.
Layout(der, d, k, e, l) ==
    /\ Row(der, k + l + 6) /\ Len(der) = k + l + 6
    /\ der[1] = 48 /\ der[2] = k + l + 4
    /\ der[3] = 2 /\ der[4] = k
    /\ \A i \in 1..k : der[4 + i] = d[i]
    /\ der[5 + k] = 2 /\ der[6 + k] = l
    /\ \A i \in 1..l : der[6 + k + i] = e[i]

\* Two encoded integers, as both sides put them together.
Wrapped(d, k, e, l) ==
    LET body == (<<2, k>> \o d) \o (<<2, l>> \o e) IN <<48, Len(body)>> \o body

LEMMA WrappedLayout ==
    ASSUME NEW d, NEW k, Row(d, k), NEW e, NEW l, Row(e, l)
    PROVE  Layout(Wrapped(d, k, e, l), d, k, e, l)
<1> DEFINE hd   == <<2, k>>
           he   == <<2, l>>
           D    == hd \o d
           E    == he \o e
           body == D \o E
           head == <<48, Len(body)>>
           der  == head \o body
<1>1. k \in Nat /\ l \in Nat
  BY DEF Row
<1>2. /\ Row(hd, 2) /\ hd[1] = 2 /\ hd[2] = k
      /\ Row(he, 2) /\ he[1] = 2 /\ he[2] = l
  BY DEF Row
<1>3. Row(head, 2) /\ head[1] = 48 /\ head[2] = Len(body)
  BY DEF Row
<1> HIDE DEF hd, he, head
<1>4. Joins(D, hd, 2, d, k)
  BY <1>2, Concatenation
<1>5. Joins(E, he, 2, e, l)
  BY <1>2, Concatenation
<1> HIDE DEF D, E
<1>6. Joins(body, D, 2 + k, E, 2 + l)
  <2>1. Row(D, 2 + k) /\ Row(E, 2 + l)
    BY <1>4, <1>5 DEF Joins
  <2> QED
    BY <2>1, Concatenation
<1> DEFINE m == (2 + k) + (2 + l)
<1>7. Row(body, m) /\ Len(body) = m
  BY <1>6 DEF Joins
<1> HIDE DEF body
<1>8. Joins(der, head, 2, body, m)
  BY <1>3, <1>7, Concatenation
<1> HIDE DEF der
<1>9. m = k + l + 4 /\ 2 + m = k + l + 6 /\ m \in Nat
  BY <1>1
<1> HIDE DEF m
<1>10. Row(der, k + l + 6) /\ Len(der) = k + l + 6
  BY <1>8, <1>9 DEF Joins
<1>11. der[1] = 48 /\ der[2] = k + l + 4
  <2>1. 1 \in 1..2 /\ 2 \in 1..2
    OBVIOUS
  <2> QED
    BY <1>3, <1>7, <1>8, <1>9, <2>1 DEF Joins
<1>12. ASSUME NEW i \in 1..(2 + k) PROVE der[2 + i] = D[i]
  <2>1. i \in 1..m
    BY <1>1, <1>9
  <2>2. der[2 + i] = body[i]
    BY <1>8, <2>1 DEF Joins
  <2> QED
    BY <1>6, <2>2 DEF Joins
<1>13. ASSUME NEW i \in 1..(2 + l) PROVE der[4 + k + i] = E[i]
  <2>1. (2 + k) + i \in 1..m /\ 2 + ((2 + k) + i) = 4 + k + i
    BY <1>1, <1>9
  <2>2. der[4 + k + i] = body[(2 + k) + i]
    BY <1>8, <2>1 DEF Joins
  <2> QED
    BY <1>6, <2>2 DEF Joins
<1>14. der[3] = 2 /\ der[4] = k
  <2>1. 1 \in 1..(2 + k) /\ 2 \in 1..(2 + k) /\ 2 + 1 = 3 /\ 2 + 2 = 4
    BY <1>1
  <2>2. D[1] = 2 /\ D[2] = k
    BY <1>2, <1>4 DEF Joins
  <2> QED
    BY <1>12, <2>1, <2>2
<1>15. ASSUME NEW i \in 1..k PROVE der[4 + i] = d[i]
  <2>1. 2 + i \in 1..(2 + k) /\ 2 + (2 + i) = 4 + i
    BY <1>1
  <2>2. D[2 + i] = d[i]
    BY <1>4 DEF Joins
  <2> QED
    BY <1>12, <2>1, <2>2
<1>16. der[5 + k] = 2 /\ der[6 + k] = l
  <2>1. 1 \in 1..(2 + l) /\ 2 \in 1..(2 + l) /\ 4 + k + 1 = 5 + k /\ 4 + k + 2 = 6 + k
    BY <1>1
  <2>2. E[1] = 2 /\ E[2] = l
    BY <1>2, <1>5 DEF Joins
  <2> QED
    BY <1>13, <2>1, <2>2
<1>17. ASSUME NEW i \in 1..l PROVE der[6 + k + i] = e[i]
  <2>1. 2 + i \in 1..(2 + l) /\ 4 + k + (2 + i) = 6 + k + i
    BY <1>1
  <2>2. E[2 + i] = e[i]
    BY <1>5 DEF Joins
  <2> QED
    BY <1>13, <2>1, <2>2
<1>18. Layout(der, d, k, e, l)
  BY <1>10, <1>11, <1>14, <1>15, <1>16, <1>17 DEF Layout
<1> QED
  BY <1>18, Zenon DEF Wrapped, der, head, body, D, E, hd, he
\* r || s
Raw(r, s) == Digits(r, Width) \o Digits(s, Width)

LEMMA BytesEqual ==
    ASSUME NEW n \in Nat, NEW f \in [1..n -> Byte], NEW g \in [1..n -> Byte],
           \A i \in 1..n : f[i] = g[i]
    PROVE  f = g
OBVIOUS

LEMMA Halves ==
    ASSUME NEW raw \in [1..(2 * Width) -> Byte]
    PROVE  /\ Len(raw) = 2 * Width /\ Row(raw, 2 * Width)
           /\ SubSeq(raw, 1, Width) \in [1..Width -> Byte]
           /\ SubSeq(raw, Width + 1, 2 * Width) \in [1..Width -> Byte]
           /\ \A i \in 1..Width : SubSeq(raw, 1, Width)[i] = raw[i]
           /\ \A i \in 1..Width : SubSeq(raw, Width + 1, 2 * Width)[i] = raw[Width + i]
<1> DEFINE t == [i \in 1..Width |-> raw[i]]
           u == [i \in 1..Width |-> raw[Width + i]]
<1>1. /\ Width \in Nat \ {0} /\ 2 * Width \in Nat /\ Width + 1 \in Nat \ {0}
      /\ Width <= 2 * Width /\ 2 * Width - (Width + 1) + 1 = Width
      /\ \A i \in 1..Width : i \in 1..(2 * Width) /\ Width + i \in 1..(2 * Width)
  BY BaseIsEven
<1>2. Row(raw, 2 * Width) /\ Len(raw) = 2 * Width
  BY <1>1 DEF Row
<1>3. /\ t \in [1..Width -> Byte] /\ Row(t, Width)
      /\ \A i \in 1..Width : t[i] = raw[i]
  BY <1>1 DEF Row
<1>4. /\ u \in [1..Width -> Byte] /\ Row(u, Width)
      /\ \A i \in 1..Width : u[i] = raw[Width + i]
  BY <1>1 DEF Row
<1> HIDE DEF t, u
<1>5. SubSeq(raw, 1, Width) = t
  <2>1. \A i \in 1..Width : t[i] = raw[1 - 1 + i]
    BY <1>3
  <2>2. PartOf(t, Width, raw, 2 * Width, 1, Width)
    BY <1>1, <1>2, <1>3, <2>1 DEF PartOf
  <2>3. \A m, n, lo, hi : PartOf(t, m, raw, n, lo, hi) => SubSeq(raw, lo, hi) = t
    BY Slice
  <2> QED
    BY <2>2, <2>3, Zenon
<1>6. SubSeq(raw, Width + 1, 2 * Width) = u
  <2>1. \A i \in 1..Width : u[i] = raw[Width + 1 - 1 + i]
    BY <1>1, <1>4
  <2>2. PartOf(u, Width, raw, 2 * Width, Width + 1, 2 * Width)
    BY <1>1, <1>2, <1>4, <2>1 DEF PartOf
  <2>3. \A m, n, lo, hi : PartOf(u, m, raw, n, lo, hi) => SubSeq(raw, lo, hi) = u
    BY Slice
  <2> QED
    BY <2>2, <2>3, Zenon
<1> QED
  BY <1>2, <1>3, <1>4, <1>5, <1>6

LEMMA RawHalves ==
    ASSUME NEW r \in Nat, NEW s \in Nat
    PROVE  /\ Raw(r, s) \in [1..(2 * Width) -> Byte]
           /\ SubSeq(Raw(r, s), 1, Width) = Digits(r, Width)
           /\ SubSeq(Raw(r, s), Width + 1, 2 * Width) = Digits(s, Width)
<1> DEFINE x == Digits(r, Width)
           y == Digits(s, Width)
           raw == x \o y
<1>1. Width \in Nat \ {0} /\ Width + Width = 2 * Width
  BY BaseIsEven
<1>2. /\ Row(x, Width) /\ x \in [1..Width -> Byte]
      /\ Row(y, Width) /\ y \in [1..Width -> Byte]
  BY <1>1, DigitsRow
<1> HIDE DEF x, y
<1>3. Joins(raw, x, Width, y, Width)
  BY <1>2, Concatenation
<1> HIDE DEF raw
<1>4. Row(raw, 2 * Width)
  BY <1>1, <1>3 DEF Joins
<1>5. ASSUME NEW i \in 1..(2 * Width) PROVE raw[i] \in Byte
  <2>1. i \in 1..Width \/ (i - Width \in 1..Width /\ Width + (i - Width) = i)
    BY <1>1
  <2>2. CASE i \in 1..Width
    BY <1>2, <1>3, <2>2 DEF Joins
  <2>3. CASE i - Width \in 1..Width /\ Width + (i - Width) = i
    <3>1. raw[Width + (i - Width)] = y[i - Width]
      BY <1>3, <2>3 DEF Joins
    <3> QED
      BY <1>2, <2>3, <3>1
  <2> QED
    BY <2>1, <2>2, <2>3
<1>6. raw \in [1..(2 * Width) -> Byte]
  BY <1>4, <1>5 DEF Row
<1>7. SubSeq(raw, 1, Width) = x
  <2>1. /\ SubSeq(raw, 1, Width) \in [1..Width -> Byte]
        /\ \A i \in 1..Width : SubSeq(raw, 1, Width)[i] = raw[i]
    BY <1>6, Halves
  <2>2. \A i \in 1..Width : raw[i] = x[i]
    BY <1>3 DEF Joins
  <2>3. \A i \in 1..Width : SubSeq(raw, 1, Width)[i] = x[i]
    BY <2>1, <2>2
  <2> QED
    BY <1>1, <1>2, <2>1, <2>3, BytesEqual
<1>8. SubSeq(raw, Width + 1, 2 * Width) = y
  <2>1. /\ SubSeq(raw, Width + 1, 2 * Width) \in [1..Width -> Byte]
        /\ \A i \in 1..Width : SubSeq(raw, Width + 1, 2 * Width)[i] = raw[Width + i]
    BY <1>6, Halves
  <2>2. \A i \in 1..Width : raw[Width + i] = y[i]
    BY <1>3 DEF Joins
  <2>3. \A i \in 1..Width : SubSeq(raw, Width + 1, 2 * Width)[i] = y[i]
    BY <2>1, <2>2
  <2> QED
    BY <1>1, <1>2, <2>1, <2>3, BytesEqual
<1> QED
  BY <1>6, <1>7, <1>8, Zenon DEF Raw, raw, x, y

LEMMA RsToDerOf ==
    ASSUME NEW raw \in [1..(2 * Width) -> Byte]
    PROVE  LET x == Signed(SubSeq(raw, 1, Width))
               y == Signed(SubSeq(raw, Width + 1, 2 * Width))
           IN  RsToDer(raw) = Wrapped(x, Len(x), y, Len(y))
<1>1. Len(raw) = 2 * Width
  BY Halves
<1> QED
  BY <1>1, EncodeIntOf DEF RsToDer, Wrapped

LEMMA DerOf ==
    \A r, s : Der(r, s) = Wrapped(Digits(r, DerLen(r)), DerLen(r), Digits(s, DerLen(s)), DerLen(s))
BY DEF Der, DerInteger, Wrapped

\* _rs_to_der gives back the DER the library made.
LEMMA RsToDerInverts ==
    ASSUME NEW r \in Components, NEW s \in Components
    PROVE  RsToDer(Raw(r, s)) = Der(r, s)
<1>1. r \in Nat /\ s \in Nat
  BY SpanExists
<1>2. DerLen(r) \in Nat /\ DerLen(s) \in Nat
  BY SpanExists, DerLenOf, BaseIsEven
<1>3. Signed(Digits(r, Width)) = Digits(r, DerLen(r)) /\ Len(Digits(r, DerLen(r))) = DerLen(r)
  BY <1>1, <1>2, EncodeDigits, DigitsRow
<1>4. Signed(Digits(s, Width)) = Digits(s, DerLen(s)) /\ Len(Digits(s, DerLen(s))) = DerLen(s)
  BY <1>1, <1>2, EncodeDigits, DigitsRow
<1>5. /\ Raw(r, s) \in [1..(2 * Width) -> Byte]
      /\ SubSeq(Raw(r, s), 1, Width) = Digits(r, Width)
      /\ SubSeq(Raw(r, s), Width + 1, 2 * Width) = Digits(s, Width)
  BY <1>1, RawHalves
<1> QED
  BY <1>3, <1>4, <1>5, RsToDerOf, DerOf, Zenon

\* _der_to_rs gives r || s, each in its own Width bytes.
LEMMA DerToRsIs ==
    ASSUME NEW r \in Components, NEW s \in Components
    PROVE  DerToRs(Der(r, s)) = Raw(r, s)
<1> DEFINE k   == DerLen(r)
           l   == DerLen(s)
           d   == Digits(r, k)
           e   == Digits(s, l)
           der == Der(r, s)
<1>1. r \in Nat /\ s \in Nat /\ Width \in Nat \ {0}
  BY SpanExists, BaseIsEven
<1>2. k \in Nat \ {0} /\ l \in Nat \ {0}
  BY SpanExists, DerLenOf, BaseIsEven
<1>3. Component(d) = Digits(r, Width) /\ Component(e) = Digits(s, Width)
  BY ComponentDigits
<1>4. Len(Digits(r, Width)) = Width /\ Len(Digits(s, Width)) = Width
  BY <1>1, DigitsRow
<1> HIDE DEF k, l
<1>5. Row(d, k) /\ Row(e, l)
  BY <1>1, <1>2, DigitsRow
<1>6. der = Wrapped(d, k, e, l)
  BY DerOf, Zenon DEF k, l
<1> HIDE DEF d, e, der
<1>7. Layout(der, d, k, e, l)
  BY <1>5, <1>6, WrappedLayout
<1>8. /\ der[1] = 48 /\ der[2] + 2 = Len(der) /\ der[3] = 2
      /\ der[4] = k /\ der[4 + k + 1] = 2 /\ der[4 + k + 2] = l
  <2>1. 4 + k + 1 = 5 + k /\ 4 + k + 2 = 6 + k /\ (k + l + 4) + 2 = k + l + 6
    BY <1>2
  <2> QED
    BY <1>7, <2>1 DEF Layout
<1>9. SubSeq(der, 5, 4 + k) = d
  <2>1. PartOf(d, k, der, k + l + 6, 5, 4 + k)
    <3>1. Row(der, k + l + 6) /\ \A i \in 1..k : d[i] = der[5 - 1 + i]
      BY <1>7 DEF Layout
    <3> QED
      BY <1>2, <1>5, <3>1 DEF PartOf
  <2> QED
    BY <2>1, Slice
<1>10. SubSeq(der, 4 + k + 3, 4 + k + 2 + l) = e
  <2>1. PartOf(e, l, der, k + l + 6, 4 + k + 3, 4 + k + 2 + l)
    <3>1. ASSUME NEW i \in 1..l PROVE e[i] = der[4 + k + 3 - 1 + i]
      <4>1. 4 + k + 3 - 1 + i = 6 + k + i
        BY <1>2
      <4> QED
        BY <1>7, <4>1 DEF Layout
    <3>2. Row(der, k + l + 6)
      BY <1>7 DEF Layout
    <3> QED
      BY <1>2, <1>5, <3>1, <3>2 DEF PartOf
  <2> QED
    BY <2>1, Slice
<1>11. DerToRs(der) = Component(d) \o Component(e)
  <2>1. ~(Len(Component(d)) > Width) /\ ~(Len(Component(e)) > Width)
    BY <1>1, <1>3, <1>4
  <2> QED
    BY <1>8, <1>9, <1>10, <2>1 DEF DerToRs
<1> QED
  BY <1>3, <1>11 DEF Raw, der

\* And two rows of bytes that become one DER signature are one.
LEMMA RsToDerInjective ==
    ASSUME NEW a \in [1..(2 * Width) -> Byte], NEW b \in [1..(2 * Width) -> Byte],
           RsToDer(a) = RsToDer(b)
    PROVE  a = b
<1> DEFINE x(raw) == SubSeq(raw, 1, Width)
           y(raw) == SubSeq(raw, Width + 1, 2 * Width)
           d(raw) == Signed(x(raw))
           e(raw) == Signed(y(raw))
           k(raw) == Len(d(raw))
           l(raw) == Len(e(raw))
<1>1. ASSUME NEW raw \in [1..(2 * Width) -> Byte]
      PROVE  /\ Row(d(raw), k(raw)) /\ Row(e(raw), l(raw))
             /\ Layout(RsToDer(raw), d(raw), k(raw), e(raw), l(raw))
  <2>1. x(raw) \in [1..Width -> Byte] /\ y(raw) \in [1..Width -> Byte] /\ Width \in Nat \ {0}
    BY Halves, BaseIsEven
  <2>2. Row(d(raw), k(raw)) /\ Row(e(raw), l(raw))
    BY <2>1, SignedCells
  <2>3. RsToDer(raw) = Wrapped(d(raw), k(raw), e(raw), l(raw))
    BY RsToDerOf
  <2> HIDE DEF d, e, k, l
  <2> QED
    BY <2>2, <2>3, WrappedLayout
<1> HIDE DEF d, e, k, l, x, y
<1>2. k(a) = k(b)
  BY <1>1 DEF Layout
<1>3. l(a) = l(b)
  BY <1>1, <1>2 DEF Layout
<1>4. d(a) = d(b)
  <2>1. \A i \in 1..k(a) : d(a)[i] = d(b)[i]
    BY <1>1, <1>2 DEF Layout
  <2> QED
    BY <1>1, <1>2, <2>1, RowsEqual
<1>5. e(a) = e(b)
  <2>1. \A i \in 1..l(a) : e(a)[i] = e(b)[i]
    BY <1>1, <1>2, <1>3 DEF Layout
  <2> QED
    BY <1>1, <1>3, <2>1, RowsEqual
<1>6. Width \in Nat \ {0}
  BY BaseIsEven
<1>7. x(a) = x(b)
  <2>1. x(a) \in [1..Width -> Byte] /\ x(b) \in [1..Width -> Byte]
    BY Halves DEF x
  <2> QED
    BY <1>4, <1>6, <2>1, SignedInjective DEF d
<1>8. y(a) = y(b)
  <2>1. y(a) \in [1..Width -> Byte] /\ y(b) \in [1..Width -> Byte]
    BY Halves DEF y
  <2> QED
    BY <1>5, <1>6, <2>1, SignedInjective DEF e
<1>9. ASSUME NEW i \in 1..(2 * Width) PROVE a[i] = b[i]
  <2>1. i \in 1..Width \/ (i - Width \in 1..Width /\ Width + (i - Width) = i)
    BY <1>6
  <2>2. CASE i \in 1..Width
    BY <1>7, <2>2, Halves DEF x
  <2>3. CASE i - Width \in 1..Width /\ Width + (i - Width) = i
    <3>1. PICK j \in 1..Width : Width + j = i
      BY <2>3
    <3>2. y(a)[j] = a[Width + j] /\ y(b)[j] = b[Width + j]
      BY Halves DEF y
    <3> QED
      BY <1>8, <3>1, <3>2
  <2> QED
    BY <2>1, <2>2, <2>3
<1>10. 2 * Width \in Nat
  BY <1>6
<1> QED
  BY <1>9, <1>10, BytesEqual

\* What has no DER is not taken for any.
LEMMA NoDer ==
    ASSUME NEW r \in Components, NEW s \in Components
    PROVE  <<"error">> # Der(r, s)
<1>1. DerLen(r) \in Nat /\ DerLen(s) \in Nat /\ r \in Nat /\ s \in Nat
  BY SpanExists, DerLenOf, BaseIsEven
<1>2. Row(Digits(r, DerLen(r)), DerLen(r)) /\ Row(Digits(s, DerLen(s)), DerLen(s))
  BY <1>1, DigitsRow
<1>3. Len(Der(r, s)) = DerLen(r) + DerLen(s) + 6
  BY <1>2, WrappedLayout, DerOf DEF Layout
<1>4. Len(<<"error">>) = 1
  OBVIOUS
<1> QED
  BY <1>1, <1>3, <1>4

-----------------------------------------------------------------------------
(* The signatures.                                                         *)

\* The bytes the library makes of r and s.
LibraryBytes(scheme, r, s) ==
    IF scheme = "ecdsa-secp256k1" THEN Der(r, s) ELSE Raw(r, s)

AccountMade ==
    account # None =>
        \E scheme \in Schemes, key \in Keys :
            account = [scheme |-> scheme, key |-> key, public_key |-> PublicKey(scheme, key)]

\* The one thing signed: r || s for this account, whatever its scheme.
SignedAs(r, s, msg) ==
    /\ issued = [sig |-> [scheme |-> account.scheme, public_key |-> account.public_key,
                          raw |-> Raw(r, s)],
                 message |-> msg]
    /\ signed = {[scheme |-> account.scheme, public_key |-> account.public_key,
                  message |-> msg, bytes |-> LibraryBytes(account.scheme, r, s)]}

SignatureMade ==
    issued # None =>
        account # None /\ \E r \in Components, s \in Components, msg \in Messages :
                              SignedAs(r, s, msg)

Carried(sg) ==
    sg.public_key \in PublicKeys /\ \E n \in Nat : sg.raw \in [1..n -> Byte]

SignatureCarried ==
    /\ sig = None <=> issued = None
    /\ sig # None => Carried(sig)

\* The verdict is that of verify() on the Signature now in hand.
VerdictGiven ==
    /\ asked = None => verdict = "none"
    /\ asked # None =>
          sig # None /\ verdict = Verify(sig, asked.message, VerifyKey(asked.public_key))

IInv == AccountMade /\ SignatureMade /\ SignatureCarried /\ VerdictGiven

LEMMA VerifyCases ==
    ASSUME NEW sg, NEW msg, NEW pk
    PROVE  /\ sg.scheme = "ecdsa-secp256k1" =>
                Verify(sg, msg, pk) =
                  Answer(LibraryAccepts(sg.scheme, pk, msg, RsToDer(sg.raw)))
           /\ sg.scheme = "schnorr-secp256k1" =>
                Verify(sg, msg, pk) =
                  Answer(Len(sg.raw) = 2 * Width /\ \E i \in DOMAIN sg.raw : sg.raw[i] # 0)
           /\ sg.scheme = "ed25519" =>
                Verify(sg, msg, pk) = Answer(LibraryAccepts(sg.scheme, pk, msg, sg.raw))
           /\ sg.scheme \notin Schemes => Verify(sg, msg, pk) = "SignatureError"
BY DEF Verify, Schemes

LEMMA AnswerIs ==
    ASSUME NEW P
    PROVE  /\ Answer(P) \in {"True", "False"}
           /\ Answer(P) = "True" <=> P
BY DEF Answer

LEMMA RecordsAreThere ==
    /\ \A a, b : [sig |-> a, message |-> b] # None
    /\ \A a, b : [message |-> a, public_key |-> b] # None
    /\ \A a, b, c : [scheme |-> a, key |-> b, public_key |-> c] # None
    /\ \A a, b, c : [scheme |-> a, public_key |-> b, raw |-> c] # None
<1>1. DOMAIN None = {}
  BY DEF None
<1>2. /\ \A a, b : DOMAIN [sig |-> a, message |-> b] # {}
      /\ \A a, b : DOMAIN [message |-> a, public_key |-> b] # {}
      /\ \A a, b, c : DOMAIN [scheme |-> a, key |-> b, public_key |-> c] # {}
      /\ \A a, b, c : DOMAIN [scheme |-> a, public_key |-> b, raw |-> c] # {}
  OBVIOUS
<1> HIDE DEF None
<1> QED
  BY <1>1, <1>2, Zenon

LEMMA InitIInv == Init => IInv
BY DEF Init, IInv, AccountMade, SignatureMade, SignatureCarried, VerdictGiven

\* Whatever arrives in place of the Signature issued.
LEMMA ReceiveIInv ==
    ASSUME IInv, NEW sg, Carried(sg), sg # None, Receive(sg)
    PROVE  IInv'
<1>1. /\ sig # None /\ sig' = sg /\ asked' = None /\ verdict' = "none"
      /\ UNCHANGED <<account, issued, signed>>
  BY DEF Receive
<1>2. AccountMade'
  BY <1>1 DEF IInv, AccountMade
<1>3. SignatureMade'
  BY <1>1 DEF IInv, SignatureMade, SignedAs
<1>4. SignatureCarried'
  BY <1>1 DEF IInv, SignatureCarried, Carried
<1>5. VerdictGiven'
  BY <1>1 DEF VerdictGiven
<1> QED
  BY <1>2, <1>3, <1>4, <1>5 DEF IInv

LEMMA SignIInv ==
    ASSUME IInv, NEW msg \in Messages, NEW r \in Components, NEW s \in Components,
           Sign(msg, r, s)
    PROVE  IInv'
<1> DEFINE scheme == account.scheme
           pk     == PublicKey(scheme, account.key)
           bytes  == IF scheme = "ecdsa-secp256k1" THEN Der(r, s)
                     ELSE Digits(r, Width) \o Digits(s, Width)
           raw    == IF scheme = "ecdsa-secp256k1" THEN DerToRs(bytes) ELSE bytes
<1>1. /\ account # None /\ sig = None
      /\ signed' = {[scheme |-> scheme, public_key |-> pk, message |-> msg,
                     bytes |-> bytes]}
      /\ sig' = [scheme |-> scheme, public_key |-> pk, raw |-> raw]
      /\ issued' = [sig |-> sig', message |-> msg]
      /\ UNCHANGED <<account, asked, verdict>>
  BY DEF Sign
<1>2. bytes = LibraryBytes(scheme, r, s)
  BY DEF LibraryBytes, Raw
<1>3. raw = Raw(r, s)
  BY DerToRsIs DEF Raw
<1>4. pk = account.public_key /\ pk \in PublicKeys
  BY <1>1 DEF IInv, AccountMade, PublicKeys
<1>5. Raw(r, s) \in [1..(2 * Width) -> Byte] /\ 2 * Width \in Nat
  BY SpanExists, RawHalves, BaseIsEven
<1> HIDE DEF bytes, raw, pk, scheme
<1>6. AccountMade'
  BY <1>1 DEF IInv, AccountMade
<1>7. SignedAs(r, s, msg)'
  BY <1>1, <1>2, <1>3, <1>4 DEF SignedAs, scheme
<1>8. SignatureMade'
  BY <1>1, <1>7 DEF SignatureMade
<1>9. sig' # None /\ issued' # None
  BY <1>1, RecordsAreThere
<1>10. Carried(sig)'
  BY <1>1, <1>3, <1>4, <1>5 DEF Carried
<1>11. SignatureCarried'
  BY <1>9, <1>10 DEF SignatureCarried
<1>12. VerdictGiven'
  BY <1>1 DEF IInv, VerdictGiven
<1> QED
  BY <1>6, <1>8, <1>11, <1>12 DEF IInv

LEMMA GarbleIInv ==
    ASSUME IInv, sig # None, Garble
    PROVE  IInv'
<1>1. PICK n \in Nat : sig.raw \in [1..n -> Byte]
  BY DEF IInv, SignatureCarried, Carried
<1>2. sig = issued.sig /\ issued # None
  BY DEF Garble, Receive, IInv, SignatureCarried
<1>3. PICK r \in Components, s \in Components, msg \in Messages : SignedAs(r, s, msg)
  BY <1>2 DEF IInv, SignatureMade
<1>4. /\ sig = [scheme |-> sig.scheme, public_key |-> sig.public_key, raw |-> sig.raw]
      /\ sig.public_key \in PublicKeys
  BY <1>2, <1>3 DEF SignedAs, IInv, SignatureCarried, Carried
<1>5. CASE Receive([sig EXCEPT !.raw = Front(@)])
  <2> DEFINE f  == Front(sig.raw)
             sg == [scheme |-> sig.scheme, public_key |-> sig.public_key, raw |-> f]
  <2>1. sg = [sig EXCEPT !.raw = Front(@)]
    BY <1>4
  <2>2. \E k \in Nat : f \in [1..k -> Byte]
    <3>1. sig.raw \in Seq(Byte)
      BY <1>1
    <3>2. f \in Seq(Byte)
      BY <3>1 DEF Front
    <3> QED
      BY <3>2
  <2> HIDE DEF f
  <2>3. Carried(sg) /\ sg # None
    BY <1>4, <2>2, RecordsAreThere DEF Carried
  <2> QED
    BY <1>5, <2>1, <2>3, ReceiveIInv
<1>6. ASSUME NEW i \in DOMAIN sig.raw, Receive([sig EXCEPT !.raw[i] = (@ + 1) % Base])
      PROVE  IInv'
  <2> DEFINE b  == (sig.raw[i] + 1) % Base
             f  == [sig.raw EXCEPT ![i] = b]
             sg == [scheme |-> sig.scheme, public_key |-> sig.public_key, raw |-> f]
  <2>1. sg = [sig EXCEPT !.raw[i] = (@ + 1) % Base]
    BY <1>4
  <2>2. b \in Byte
    <3>1. sig.raw[i] \in Nat /\ Base \in Nat /\ Base >= 2
      BY <1>1, BaseIsEven DEF Byte
    <3> QED
      BY <3>1, Quotient DEF Byte
  <2> HIDE DEF b
  <2>3. f \in [1..n -> Byte]
    BY <1>1, <2>2
  <2> HIDE DEF f
  <2>4. Carried(sg) /\ sg # None
    BY <1>4, <2>3, RecordsAreThere DEF Carried
  <2> QED
    BY <1>6, <2>1, <2>4, ReceiveIInv
<1> QED
  BY <1>5, <1>6 DEF Garble

LEMMA RebuildIInv ==
    ASSUME IInv, sig # None, NEW scheme, NEW pk \in PublicKeys, Rebuild(scheme, pk)
    PROVE  IInv'
<1> DEFINE sg == [scheme |-> scheme, public_key |-> pk, raw |-> AccountSign(sig.raw)]
<1>1. Carried(sg) /\ sg # None
  BY RecordsAreThere DEF IInv, SignatureCarried, Carried, AccountSign
<1> QED
  BY <1>1, ReceiveIInv DEF Rebuild

LEMMA StepIInv == IInv /\ [Next]_vars => IInv'
<1> SUFFICES ASSUME IInv, [Next]_vars PROVE IInv'
  OBVIOUS
<1>1. ASSUME NEW scheme, NEW key \in Keys, DeriveAccount(scheme, key) PROVE IInv'
  <2>1. /\ account = None /\ scheme \in Schemes
        /\ account' = [scheme |-> scheme, key |-> key, public_key |-> PublicKey(scheme, key)]
        /\ UNCHANGED <<sig, issued, signed, asked, verdict>>
    BY <1>1 DEF DeriveAccount
  <2>2. AccountMade'
    BY <2>1 DEF AccountMade
  <2>3. issued = None
    BY <2>1 DEF IInv, SignatureMade
  <2>4. SignatureMade'
    BY <2>1, <2>3 DEF SignatureMade
  <2>5. SignatureCarried'
    BY <2>1 DEF IInv, SignatureCarried, Carried
  <2>6. VerdictGiven'
    BY <2>1 DEF IInv, VerdictGiven, Verify, LibraryAccepts, VerifyKey
  <2> QED
    BY <2>2, <2>4, <2>5, <2>6 DEF IInv
<1>2. ASSUME NEW msg \in Messages, NEW r \in Components, NEW s \in Components, Sign(msg, r, s)
      PROVE  IInv'
  BY <1>2, SignIInv
<1>3. CASE sig # None /\ Garble
  BY <1>3, GarbleIInv
<1>4. ASSUME sig # None, NEW scheme, NEW pk \in PublicKeys, Rebuild(scheme, pk)
      PROVE  IInv'
  BY <1>4, RebuildIInv
<1>5. ASSUME NEW msg, NEW pk, VerifySig(msg, pk) PROVE IInv'
  <2>1. /\ sig # None
        /\ asked' = [message |-> msg, public_key |-> pk]
        /\ verdict' = Verify(sig, msg, VerifyKey(pk))
        /\ UNCHANGED <<account, sig, issued, signed>>
    BY <1>5 DEF VerifySig
  <2>2. AccountMade' /\ SignatureMade' /\ SignatureCarried'
    BY <2>1 DEF IInv, AccountMade, SignatureMade, SignedAs, SignatureCarried, Carried
  <2>3. asked' # None /\ (asked').message = msg /\ (asked').public_key = pk
    BY <2>1, RecordsAreThere
  <2>4. Verify(sig, msg, VerifyKey(pk)) = Verify(sig, msg, VerifyKey(pk))'
    BY <2>1 DEF Verify, LibraryAccepts, VerifyKey
  <2>5. VerdictGiven'
    BY <2>1, <2>3, <2>4 DEF VerdictGiven
  <2> QED
    BY <2>2, <2>5 DEF IInv
<1>6. CASE UNCHANGED vars
  BY <1>6 DEF vars, IInv, AccountMade, SignatureMade, SignedAs, SignatureCarried,
              Carried, VerdictGiven, Verify, LibraryAccepts, VerifyKey
<1> QED
  BY <1>1, <1>2, <1>3, <1>4, <1>5, <1>6 DEF Next

LEMMA Invariant == Spec => []IInv
BY InitIInv, StepIInv, PTL DEF Spec

\* _der_to_rs writes each component of a DER signature in its own Width bytes,
\* _rs_to_der gives the signature back, and it makes no other bytes into the
\* same signature.
THEOREM ConversionsInverse ==
    /\ \A r, s \in Components :
          /\ DerToRs(Der(r, s)) = Digits(r, Width) \o Digits(s, Width)
          /\ RsToDer(DerToRs(Der(r, s))) = Der(r, s)
    /\ \A a, b \in [1..(2 * Width) -> 0..(Base - 1)] : RsToDer(a) = RsToDer(b) => a = b
<1>1. ASSUME NEW r \in Components, NEW s \in Components
      PROVE  /\ DerToRs(Der(r, s)) = Digits(r, Width) \o Digits(s, Width)
             /\ RsToDer(DerToRs(Der(r, s))) = Der(r, s)
  BY DerToRsIs, RsToDerInverts DEF Raw
<1>2. ASSUME NEW a \in [1..(2 * Width) -> 0..(Base - 1)],
             NEW b \in [1..(2 * Width) -> 0..(Base - 1)], RsToDer(a) = RsToDer(b)
      PROVE  a = b
  BY <1>2, RsToDerInjective DEF Byte
<1> QED
  BY <1>1, <1>2

\* raw has 2 * Width bytes for every scheme, whatever leading zeros or sign
\* byte the components of the DER signature have, and no verdict is another
\* (class Signature of signing.py).
THEOREM TypeCorrect == Spec => []TypeOK
<1>1. IInv => TypeOK
  <2> SUFFICES ASSUME IInv PROVE TypeOK
    OBVIOUS
  <2>1. account # None => account.scheme \in Schemes /\ account.public_key \in PublicKeys
    BY DEF IInv, AccountMade, PublicKeys
  <2>2. ASSUME issued # None PROVE issued.sig.raw \in [1..(2 * Width) -> 0..(Base - 1)]
    <3>1. PICK r \in Components, s \in Components, msg \in Messages : SignedAs(r, s, msg)
      BY <2>2 DEF IInv, SignatureMade
    <3>2. issued.sig.raw = Raw(r, s)
      BY <3>1 DEF SignedAs
    <3> QED
      BY <3>2, SpanExists, RawHalves DEF Byte
  <2>3. sig # None => sig.public_key \in PublicKeys
    BY DEF IInv, SignatureCarried, Carried
  <2>4. verdict \in {"none", "True", "False", "SignatureError"}
    <3>1. \/ verdict = "none"
          \/ verdict = Verify(sig, asked.message, VerifyKey(asked.public_key))
      BY DEF IInv, VerdictGiven
    <3>2. ASSUME NEW msg, NEW pk
          PROVE  Verify(sig, msg, pk) \in {"True", "False", "SignatureError"}
      BY VerifyCases, AnswerIs DEF Schemes
    <3> QED
      BY <3>1, <3>2
  <2> QED
    BY <2>1, <2>2, <2>3, <2>4 DEF TypeOK
<1> QED
  BY <1>1, Invariant, PTL

\* r || s is never all zero: r is not.
LEMMA RawNotZero ==
    ASSUME NEW r \in Components, NEW s \in Components
    PROVE  Len(Raw(r, s)) = 2 * Width /\ \E i \in DOMAIN Raw(r, s) : Raw(r, s)[i] # 0
<1>1. r \in Nat /\ s \in Nat /\ Width \in Nat \ {0}
  BY SpanExists, BaseIsEven
<1>2. PICK L \in 1..Width : Spans(r, L)
  BY SpanExists
<1>3. PICK j \in 1..Width : j = Width - (L - 1)
  BY <1>1
<1>4. Digits(r, Width)[j] # 0
  <2>1. Width - j = L - 1
    BY <1>1, <1>3
  <2>2. Digits(r, Width)[j] = Digit(r, Width - j)
    BY <1>1, DigitsRow
  <2>3. Digit(r, L - 1) # 0
    BY <1>1, <1>2, SpanDigits
  <2> QED
    BY <2>1, <2>2, <2>3
<1>5. /\ Raw(r, s) \in [1..(2 * Width) -> Byte]
      /\ SubSeq(Raw(r, s), 1, Width) = Digits(r, Width)
  BY <1>1, RawHalves
<1>6. Raw(r, s)[j] = Digits(r, Width)[j] /\ Len(Raw(r, s)) = 2 * Width
  BY <1>5, Halves
<1>7. j \in DOMAIN Raw(r, s)
  BY <1>1, <1>5
<1> QED
  BY <1>4, <1>6, <1>7

\* What an account signs verifies for its message and public key, in every
\* scheme and from the raw bytes alone: for ECDSA because the code's two
\* conversions are inverse on every pair of components, at every width.
THEOREM OwnSignaturesVerify == Spec => []OwnSignatureVerifies
<1>1. IInv => OwnSignatureVerifies
  <2> SUFFICES ASSUME IInv, sig # None, sig.scheme = account.scheme,
                      sig.raw = AccountSign(issued.sig.raw),
                      AskedFor(account, issued.message)
               PROVE  verdict = "True"
    BY DEF OwnSignatureVerifies
  <2>1. issued # None
    BY DEF IInv, SignatureCarried
  <2>2. PICK r \in Components, s \in Components, msg \in Messages : SignedAs(r, s, msg)
    BY <2>1 DEF IInv, SignatureMade
  <2>3. issued.sig.raw = Raw(r, s) /\ issued.message = msg
    BY <2>2 DEF SignedAs
  <2>4. sig.raw = Raw(r, s)
    BY <2>3 DEF AccountSign
  <2>5. asked # None /\ asked.message = msg /\ VerifyKey(asked.public_key) = account.public_key
    BY <2>3 DEF AskedFor, VerifyKey
  <2>6. verdict = Verify(sig, msg, account.public_key)
    BY <2>5 DEF IInv, VerdictGiven
  <2>7. sig.scheme \in Schemes
    BY <2>1 DEF IInv, SignatureMade, AccountMade
  <2>8. LibraryAccepts(sig.scheme, account.public_key, msg, LibraryBytes(sig.scheme, r, s))
    BY <2>2 DEF SignedAs, LibraryAccepts
  <2>9. CASE sig.scheme = "ecdsa-secp256k1"
    <3>1. LibraryAccepts(sig.scheme, account.public_key, msg, RsToDer(sig.raw))
      BY <2>4, <2>8, <2>9, RsToDerInverts DEF LibraryBytes
    <3> QED
      BY <2>6, <2>9, <3>1, VerifyCases, AnswerIs
  <2>10. CASE sig.scheme = "schnorr-secp256k1"
    <3>1. Len(sig.raw) = 2 * Width /\ \E i \in DOMAIN sig.raw : sig.raw[i] # 0
      BY <2>4, RawNotZero
    <3> QED
      BY <2>6, <2>10, <3>1, VerifyCases, AnswerIs
  <2>11. CASE sig.scheme = "ed25519"
    <3>1. LibraryAccepts(sig.scheme, account.public_key, msg, sig.raw)
      BY <2>4, <2>8, <2>11 DEF LibraryBytes
    <3> QED
      BY <2>6, <2>11, <3>1, VerifyCases, AnswerIs
  <2> QED
    BY <2>7, <2>9, <2>10, <2>11 DEF Schemes
<1> QED
  BY <1>1, Invariant, PTL

\* verify() answers True, for ECDSA and Ed25519, only for the very bytes,
\* scheme, message and key that were signed: no two rows of bytes that
\* _rs_to_der takes become one DER signature.
THEOREM TrueMeansSigned == Spec => []VerifiedMeansSigned
<1>1. IInv => VerifiedMeansSigned
  <2> SUFFICES ASSUME IInv, verdict = "True", sig.scheme # "schnorr-secp256k1"
               PROVE  /\ sig.scheme = account.scheme
                      /\ sig.raw = issued.sig.raw
                      /\ AskedFor(account, issued.message)
    BY DEF VerifiedMeansSigned
  <2> DEFINE pk == VerifyKey(asked.public_key)
  <2>1. asked # None /\ sig # None /\ verdict = Verify(sig, asked.message, pk)
    BY DEF IInv, VerdictGiven
  <2>2. issued # None /\ \E n \in Nat : sig.raw \in [1..n -> Byte]
    BY <2>1 DEF IInv, SignatureCarried, Carried
  <2>3. PICK r \in Components, s \in Components, msg \in Messages : SignedAs(r, s, msg)
    BY <2>2 DEF IInv, SignatureMade
  <2>4. issued.sig.raw = Raw(r, s) /\ issued.message = msg
    BY <2>3 DEF SignedAs
  <2>5. ASSUME NEW bytes, LibraryAccepts(sig.scheme, pk, asked.message, bytes)
        PROVE  /\ sig.scheme = account.scheme /\ pk = account.public_key
               /\ asked.message = msg /\ bytes = LibraryBytes(account.scheme, r, s)
    BY <2>3, <2>5 DEF SignedAs, LibraryAccepts
  <2>6. pk = account.public_key /\ asked.message = msg => AskedFor(account, issued.message)
    BY <2>1, <2>4 DEF AskedFor, VerifyKey
  <2>7. sig.scheme \in {"ecdsa-secp256k1", "ed25519"}
    BY <2>1, VerifyCases DEF Schemes
  <2>8. CASE sig.scheme = "ecdsa-secp256k1"
    <3>1. LibraryAccepts(sig.scheme, pk, asked.message, RsToDer(sig.raw))
      BY <2>1, <2>8, VerifyCases, AnswerIs
    <3>2. sig.scheme = account.scheme /\ RsToDer(sig.raw) = Der(r, s)
      BY <2>5, <2>8, <3>1 DEF LibraryBytes
    <3>3. Len(sig.raw) = 2 * Width
      BY <3>2, NoDer DEF RsToDer
    <3>4. sig.raw \in [1..(2 * Width) -> Byte]
      BY <2>2, <3>3
    <3>5. Raw(r, s) \in [1..(2 * Width) -> Byte]
      BY SpanExists, RawHalves
    <3>6. sig.raw = Raw(r, s)
      BY <3>2, <3>4, <3>5, RsToDerInverts, RsToDerInjective
    <3> QED
      BY <2>4, <2>5, <2>6, <3>1, <3>6
  <2>9. CASE sig.scheme = "ed25519"
    <3>1. LibraryAccepts(sig.scheme, pk, asked.message, sig.raw)
      BY <2>1, <2>9, VerifyCases, AnswerIs
    <3>2. sig.scheme = account.scheme /\ sig.raw = Raw(r, s)
      BY <2>5, <2>9, <3>1 DEF LibraryBytes
    <3> QED
      BY <2>4, <2>5, <2>6, <3>1, <3>2
  <2> QED
    BY <2>7, <2>8, <2>9
<1> QED
  BY <1>1, Invariant, PTL
=============================================================================
