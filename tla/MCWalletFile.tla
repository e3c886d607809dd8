---------------------------- MODULE MCWalletFile ----------------------------
(***************************************************************************)
(* WalletFile with the lengths of the records that the amounts give; three *)
(* times 13 is above Exact and rounds up to 40, which can be typed too.    *)
(***************************************************************************)
EXTENDS WalletFile

MCAmounts == {13, 40}
MCLength == [a \in Amounts |-> IF a = 40 THEN 4 ELSE 5]
=============================================================================
