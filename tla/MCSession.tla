----------------------------- MODULE MCSession -----------------------------
(* Session with as many buffers as one call needs beside a wallet and a    *)
(* secret of the caller's.                                                 *)
EXTENDS Session, TLC

CONSTANTS b1, b2, b3, b4, b5, w1, w2

FiveBuffers == {b1, b2, b3, b4, b5}
TwoWallets  == {w1, w2}
Interchangeable == Permutations(FiveBuffers) \cup Permutations(TwoWallets)
=============================================================================
