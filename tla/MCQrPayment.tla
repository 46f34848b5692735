---------------------------- MODULE MCQrPayment ----------------------------
(* Small instances of QrPayment for TLC: two attempts at one receipt.      *)
EXTENDS QrPayment, TLC

CONSTANTS i1, i2, r1

OneReceipt == [i \in Intents |-> r1]
Symmetry == Permutations(Intents)
=============================================================================
