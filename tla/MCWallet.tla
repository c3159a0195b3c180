------------------------------ MODULE MCWallet ------------------------------
(* Wallet with small sets of threads.                                      *)
EXTENDS Wallet

CONSTANTS main, worker1, worker2

MainAndWorkers == {main, worker1, worker2}
OnlyMain       == {main}
=============================================================================
