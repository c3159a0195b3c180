------------------------------- MODULE Base58 -------------------------------
(***************************************************************************)
(* _b58encode (derivation.py), for bytes 0..ByteBase-1 and an alphabet of  *)
(* Symbols characters, a character being its place in it, and the decoder  *)
(* every other wallet has.                                                 *)
(***************************************************************************)
EXTENDS Integers, Sequences, SequencesExt

CONSTANTS ByteBase,  \* 256
          Symbols    \* 58

ASSUME Base58Assumption ==
    /\ ByteBase \in Nat \ {0, 1}
    /\ Symbols \in Nat \ {0, 1}

\* int.from_bytes(data, "big")
Value(digits, base) ==
    LET value[i \in 0..Len(digits)] ==
            IF i = 0 THEN 0 ELSE value[i - 1] * base + digits[i]
    IN  value[Len(digits)]

\* The digits divmod yields, after out.reverse().
DigitsOf(n, base) ==
    LET digits[m \in Nat] ==
            IF m = 0 THEN <<>> ELSE Append(digits[m \div base], m % base)
    IN  digits[n]

LeadingZeros(data) ==
    LET nonzero == {i \in DOMAIN data : data[i] # 0}
    IN  IF nonzero = {} THEN Len(data) ELSE Min(nonzero) - 1

Zeroes(n) == [i \in 1..n |-> 0]

\* Data of zeros only becomes one character, whatever its length.
B58Encode(data) ==
    IF Value(data, ByteBase) = 0 THEN <<0>>
    ELSE Zeroes(LeadingZeros(data)) \o DigitsOf(Value(data, ByteBase), Symbols)

\* What the string means to a reader of base58.
B58Decode(str) ==
    Zeroes(LeadingZeros(str)) \o DigitsOf(Value(str, Symbols), ByteBase)
=============================================================================
