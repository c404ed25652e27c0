------------------------------ MODULE MCBills -------------------------------
(***************************************************************************)
(* Small instances of Bills: an electricity bill and an airtime bill of a  *)
(* wallet that covers one of them with its fee, and a desk.                *)
(***************************************************************************)
EXTENDS Bills, TLC

CONSTANTS w1, power, airtime, desk

OneWallet == {w1}
TwoBills == {power, airtime}
OneBill == {power}
OneDesk == {desk}

AllFromOne == [b \in Bills |-> w1]
Mixed == [b \in Bills |-> IF b = power THEN 1000 ELSE 100]
Fees == [b \in Bills |-> IF b = power THEN 100 ELSE 20]

\* What is left after one bill covers the other's amount, not its fee.
Scarce == [w \in Wallets |-> 1210]
NoCap == [w \in Wallets |-> 5000]
=============================================================================
