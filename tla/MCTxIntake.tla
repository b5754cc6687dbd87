----------------------------- MODULE MCTxIntake -----------------------------
(* Instance of TxIntake for TLC: n1 and n2 tell of one transaction, which   *)
(* mentions two watched wallets; n3 brings another transaction whole.       *)
EXTENDS TxIntake
CONSTANTS n1, n2, n3, x1, x2, r1, r2, fw1, fw2, pw1, pw2
MCTxOf == [n \in Notice |-> IF n = n3 THEN x2 ELSE x1]
=============================================================================
