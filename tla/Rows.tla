-------------------------------- MODULE Rows --------------------------------
(***************************************************************************)
(* Lemmas about sequences cell by cell, whatever their cells are: what a   *)
(* concatenation and a slice hold at each place; and that a set of         *)
(* naturals has a first element, and the quotient of a number is unique.   *)
(***************************************************************************)
EXTENDS Integers, Sequences, SequenceTheorems, FiniteSetTheorems, TLAPS

\* A sequence of n cells, of whatever kinds.
Row(b, n) == n \in Nat /\ b = [i \in 1..n |-> b[i]]

\* u is s \o t, cell by cell.
Joins(u, s, m, t, n) ==
    /\ Row(u, m + n) /\ Len(u) = m + n
    /\ \A i \in 1..m : u[i] = s[i]
    /\ \A i \in 1..n : u[m + i] = t[i]

\* t is the part of b from lo to hi, cell by cell.
PartOf(t, m, b, n, lo, hi) ==
    /\ Row(b, n) /\ Row(t, m)
    /\ lo \in Nat \ {0} /\ hi \in Nat
    /\ lo <= hi + 1 /\ hi <= n /\ m = hi - lo + 1
    /\ \A i \in 1..m : t[i] = b[lo - 1 + i]

-----------------------------------------------------------------------------
LEMMA RowIsSeq ==
    ASSUME NEW b, NEW n, Row(b, n)
    PROVE  b \in Seq({b[i] : i \in 1..n}) /\ Len(b) = n /\ DOMAIN b = 1..n
BY DEF Row

LEMMA RowsEqual ==
    ASSUME NEW s, NEW t, NEW n, Row(s, n), Row(t, n), \A i \in 1..n : s[i] = t[i]
    PROVE  s = t
BY DEF Row

\* s \o t holds the cells of s, then those of t.
LEMMA Concatenation ==
    ASSUME NEW s, NEW t, NEW m, NEW n, Row(s, m), Row(t, n)
    PROVE  Joins(s \o t, s, m, t, n)
<1> DEFINE S == {s[i] : i \in 1..m} \cup {t[i] : i \in 1..n}
<1>a. (\A i \in 1..m : s[i] \in S) /\ (\A i \in 1..n : t[i] \in S) /\ m \in Nat /\ n \in Nat
  BY DEF Row
<1> HIDE DEF S
<1>b. s \in Seq(S) /\ Len(s) = m
  BY <1>a DEF Row
<1>c. t \in Seq(S) /\ Len(t) = n
  BY <1>a DEF Row
<1>1. s \in Seq(S) /\ Len(s) = m /\ t \in Seq(S) /\ Len(t) = n /\ m \in Nat /\ n \in Nat
  BY <1>a, <1>b, <1>c
<1>2. /\ s \o t \in Seq(S) /\ Len(s \o t) = m + n
      /\ \A i \in 1..(m + n) : (s \o t)[i] = IF i <= m THEN s[i] ELSE t[i - m]
  BY <1>1, ConcatProperties
<1>3. Row(s \o t, m + n)
  BY <1>1, <1>2 DEF Row
<1> QED
  BY <1>1, <1>2, <1>3 DEF Joins

\* SubSeq(b, lo, hi) is the part of b from lo to hi.
LEMMA Slice ==
    ASSUME NEW t, NEW m, NEW b, NEW n, NEW lo, NEW hi, PartOf(t, m, b, n, lo, hi)
    PROVE  SubSeq(b, lo, hi) = t
<1> DEFINE S == {b[i] : i \in 1..n}
<1>1. b \in Seq(S) /\ Len(b) = n
  BY RowIsSeq DEF PartOf
<1>2. /\ t = [i \in 1..m |-> t[i]] /\ m \in Nat /\ n \in Nat
      /\ lo \in Nat \ {0} /\ hi \in Nat /\ lo <= hi + 1 /\ hi <= n /\ m = hi - lo + 1
  BY DEF PartOf, Row
<1> HIDE DEF S
<1>3. /\ SubSeq(b, lo, hi) \in Seq(S) /\ Len(SubSeq(b, lo, hi)) = m
      /\ \A i \in 1..m : SubSeq(b, lo, hi)[i] = b[lo + i - 1]
  <2>1. \A i \in lo..hi : b[i] \in S
    BY <1>1, <1>2
  <2>2. lo \in Int /\ hi \in Int /\ (IF hi < lo THEN 0 ELSE hi - lo + 1) = m
    BY <1>2
  <2> QED
    BY <1>2, <2>1, <2>2, SubSeqProperties
<1>4. \A i \in 1..m : t[i] = b[lo + i - 1]
  BY <1>2 DEF PartOf
<1>5. Row(SubSeq(b, lo, hi), m)
  BY <1>3 DEF Row
<1>6. \A i \in 1..m : SubSeq(b, lo, hi)[i] = t[i]
  BY <1>3, <1>4
<1> QED
  BY <1>5, <1>6, RowsEqual DEF PartOf

LEMMA Slices ==
    \A t, m, b, n, lo, hi : PartOf(t, m, b, n, lo, hi) => SubSeq(b, lo, hi) = t
BY Slice

LEMMA SlicesAgree ==
    ASSUME NEW b, NEW m, Row(b, m), NEW c, NEW n, Row(c, n),
           NEW lo \in Nat \ {0}, NEW hi \in Nat, hi <= m, hi <= n,
           SubSeq(b, lo, hi) = SubSeq(c, lo, hi)
    PROVE  \A i \in lo..hi : b[i] = c[i]
<1> DEFINE S == {b[i] : i \in 1..m} \cup {c[i] : i \in 1..n}
<1>1. /\ \A i \in lo..hi : b[i] \in S /\ c[i] \in S
      /\ m \in Nat /\ n \in Nat
  BY DEF Row
<1> HIDE DEF S
<1>2. /\ \A i \in 1..(hi - lo + 1) : SubSeq(b, lo, hi)[i] = b[lo + i - 1]
      /\ \A i \in 1..(hi - lo + 1) : SubSeq(c, lo, hi)[i] = c[lo + i - 1]
  BY <1>1, SubSeqProperties
<1> TAKE i \in lo..hi
<1>3. i - lo + 1 \in 1..(hi - lo + 1) /\ lo + (i - lo + 1) - 1 = i
  OBVIOUS
<1> QED
  BY <1>2, <1>3

\* Sequences joined of parts of the same length have the same parts.
LEMMA PartsAgree ==
    ASSUME NEW s, NEW t, NEW u, NEW v, NEW m, NEW n, NEW k,
           Row(s, m), Row(t, n), Row(u, m), Row(v, k), s \o t = u \o v
    PROVE  s = u /\ t = v
<1>1. Joins(s \o t, s, m, t, n) /\ Joins(s \o t, u, m, v, k)
  BY Concatenation
<1>2. m \in Nat /\ n \in Nat /\ k \in Nat
  BY DEF Row
<1>3. n = k
  BY <1>1, <1>2 DEF Joins
<1>4. \A i \in 1..m : s[i] = u[i]
  BY <1>1 DEF Joins
<1>5. \A i \in 1..n : t[i] = v[i]
  BY <1>1, <1>3 DEF Joins
<1> QED
  BY <1>3, <1>4, <1>5, RowsEqual

\* A set of naturals has a first element.  (The library's own theorem takes
\* the set as a predicate.)
LEMMA Least ==
    ASSUME NEW T, T \subseteq Nat, T # {}
    PROVE  \E n \in T : \A m \in T : n <= m
<1> DEFINE Below(n) == 0..(n - 1)
           S        == {Below(n) : n \in T}
<1>1. IsWellFoundedOn(StrictSubsetOrdering(Nat), FiniteSubsetsOf(Nat))
  BY FS_StrictSubsetOrderingWellFounded
<1>2. ASSUME NEW n \in T PROVE Below(n) \subseteq Nat /\ IsFiniteSet(Below(n))
  <2>1. n - 1 \in Int /\ 0 \in Int
    OBVIOUS
  <2> QED
    BY <2>1, FS_Interval
<1>3. S # {} /\ S \subseteq FiniteSubsetsOf(Nat)
  BY <1>2 DEF FiniteSubsetsOf
<1> HIDE DEF S
<1>4. PICK x \in S : \A y \in S : <<y, x>> \notin StrictSubsetOrdering(Nat)
  BY <1>1, <1>3, WFMin
<1>5. PICK n \in T : x = Below(n)
  BY DEF S
<1>6. ASSUME NEW m \in T, m < n PROVE FALSE
  <2>1. Below(m) \in S
    BY DEF S
  <2>2. /\ Below(m) \subseteq Below(n) /\ Below(n) \subseteq Nat
        /\ m \in Below(n) /\ m \notin Below(m)
    BY <1>6
  <2>3. <<Below(m), Below(n)>> \in StrictSubsetOrdering(Nat)
    BY <2>2 DEF StrictSubsetOrdering
  <2> QED
    BY <1>4, <1>5, <2>1, <2>3
<1> QED
  BY <1>6

\* A quotient and a remainder are those of the division.
LEMMA DivMod ==
    ASSUME NEW w \in Nat \ {0}, NEW q \in Nat, NEW r \in 0..(w - 1)
    PROVE  (q * w + r) \div w = q /\ (q * w + r) % w = r
<1>1. PICK n \in Nat : n = q * w + r
  OBVIOUS
<1>2. /\ n \div w \in Nat /\ n % w \in 0..(w - 1)
      /\ n = w * (n \div w) + (n % w)
  OBVIOUS
<1>3. PICK p \in Nat, s \in 0..(w - 1) : p = n \div w /\ s = n % w
  BY <1>2
<1>4. n = w * p + s
  BY <1>2, <1>3
<1>5. ~(p < q)
  <2> SUFFICES ASSUME p < q PROVE FALSE
    OBVIOUS
  <2>1. PICK d \in Nat : q = p + 1 + d
    BY q - p - 1 \in Nat
  <2>2. q * w = p * w + w + d * w /\ d * w >= 0
    BY <2>1
  <2> QED
    BY <1>1, <1>4, <2>2
<1>6. ~(q < p)
  <2> SUFFICES ASSUME q < p PROVE FALSE
    OBVIOUS
  <2>1. PICK d \in Nat : p = q + 1 + d
    BY p - q - 1 \in Nat
  <2>2. w * p = q * w + w + d * w /\ d * w >= 0
    BY <2>1
  <2> QED
    BY <1>1, <1>4, <2>2
<1>7. p = q
  BY <1>5, <1>6
<1>8. s = r
  BY <1>1, <1>4, <1>7
<1> QED
  BY <1>1, <1>3, <1>7, <1>8
=============================================================================
