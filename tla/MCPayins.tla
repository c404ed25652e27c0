------------------------------ MODULE MCPayins ------------------------------
(***************************************************************************)
(* Small instances of Payins: two deliveries of one webhook at a time, two *)
(* workers, one deposit whose figures may or may not agree with VFD's.     *)
(***************************************************************************)
EXTENDS Payins, TLC

CONSTANTS w1, d1, h1, h2, k1, k2

OneWallet == {w1}
OneDeposit == {d1}
TwoHandlers == {h1, h2}
TwoWorkers == {k1, k2}

IntoOne == [d \in Deposits |-> w1]
Hundreds == [d \in Deposits |-> 300]
Empty == [w \in Wallets |-> 0]
=============================================================================
