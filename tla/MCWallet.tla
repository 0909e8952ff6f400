----------------------------- MODULE MCWallet -----------------------------
(* Instances of Wallet for TLC.                                            *)
EXTENDS Wallet, TLC

(* Requests are interchangeable.                                           *)
WalletSymmetry == Permutations(Requests)
============================================================================
