----------------------------- MODULE MCMnemonic -----------------------------
(* Mnemonic at two sizes: a small one, over all entropies of one strength,  *)
(* and BIP-39's own, over entropies that have zeros and ones at the ends.   *)
EXTENDS Mnemonic, TLC

SmallWords == [1..WordBits -> {0, 1}]
\* Every entropy of the smaller strength; of longer ones, those that repeat
\* four bits.
SmallDraws(n) ==
    IF n = 8 THEN [1..n -> {0, 1}]
    ELSE {[i \in 1..n |-> b[(i % 4) + 1]] : b \in [1..4 -> {0, 1}]}

BIP39Strengths  == {128, 160, 192, 224, 256}
BIP39WordCounts == {12, 15, 18, 21, 24}
RealDraws(n) == {[i \in 1..n |-> 0], [i \in 1..n |-> 1], [i \in 1..n |-> i % 2],
                 [i \in 1..n |-> IF i \in {1, n} THEN 1 ELSE 0],
                 [i \in 1..n |-> IF i \in {1, n} THEN 0 ELSE 1]}
RealWords == {[i \in 1..WordBits |-> 0], [i \in 1..WordBits |-> 1]}
=============================================================================
