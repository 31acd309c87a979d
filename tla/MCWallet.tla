------------------------------ MODULE MCWallet ------------------------------
(* Instances of Wallet for TLC.                                            *)
EXTENDS Wallet

(* Amounts below, at and above what is left of the opening balance.        *)
AmountOf == [k \in Keys |-> IF k = "small" THEN 1 ELSE 2]
=============================================================================
