----------------------------- MODULE MCPostings -----------------------------
(***************************************************************************)
(* Small instances of Postings: two members of staff who may each request  *)
(* and decide, one unmatched deposit, two wallets it may be assigned to,   *)
(* and a wallet that covers one debit.                                     *)
(***************************************************************************)
EXTENDS Postings, TLC

CONSTANTS w1, w2, p1, p2, d1, ann, ben, c1, c2

TwoWallets == {w1, w2}
OnePosting == {p1}
TwoPostings == {p1, p2}
OneDeposit == {d1}
TwoStaff == {ann, ben}
TwoCalls == {c1, c2}

Held == [w \in Wallets |-> IF w = w1 THEN 300 ELSE 0]
Worth500 == [d \in Deposits |-> 500]

Draft(type, wallet, amount, source) ==
    [type |-> type, wallet |-> wallet, amount |-> amount, source |-> source]

EachKind ==
    { Draft("DEBIT", w1, 300, None), Draft("CREDIT", w1, 100, None),
      Draft("CREDIT", w1, 500, d1), Draft("CREDIT", w2, 500, d1) }
AnySymmetry ==
    Permutations({p1, p2}) \cup Permutations({c1, c2}) \cup Permutations({ann, ben})

OneDebit == { Draft("DEBIT", w1, 300, None) }
=============================================================================
