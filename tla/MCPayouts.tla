----------------------------- MODULE MCPayouts ------------------------------
(***************************************************************************)
(* Small instances of Payouts.  One wallet with a free payout a day, a     *)
(* daily cap that holds one of the two payouts and a new-device limit, so  *)
(* that both bite; one desk; every actor may die.                          *)
(***************************************************************************)
EXTENDS Payouts, TLC

CONSTANTS w1, p1, p2, p3, desk

OneWallet == {w1}
OnePayout == {p1}
TwoPayouts == {p1, p2}
ThreePayouts == {p1, p2, p3}
NoDesk == {}
OneDesk == {desk}

AllFromOne == [p \in Payouts |-> w1]

\* 4,000 naira each: first fee tier, no stamp duty.
Small == [p \in Payouts |-> 4000 * Naira]

\* One of 10,000 naira, with stamp duty, and the others of 4,000.
Mixed == [p \in Payouts |-> IF p = p1 THEN 10000 * Naira ELSE 4000 * Naira]

\* Covers both small payouts when they are free, and only one with its fee.
Scarce == [w \in Wallets |-> 8005 * Naira]
Plenty == [w \in Wallets |-> 30000 * Naira]
NoCap  == [w \in Wallets |-> 100000 * Naira]

\* Two of the three payouts in a day, not all three and not the two small ones
\* with the large one over two days.
Cap14k == [w \in Wallets |-> 14000 * Naira]
Cap15k == [w \in Wallets |-> 15000 * Naira]

TwoSymmetry == Permutations({p1, p2})
SmallSymmetry == Permutations({p2, p3})
=============================================================================
