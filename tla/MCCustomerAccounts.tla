------------------------- MODULE MCCustomerAccounts -------------------------
(***************************************************************************)
(* Small instances of the customer's account and of what is around it.     *)
(***************************************************************************)
EXTENDS AccountsAndAround, TLC

\* Two requests of staff overlap.
CONSTANTS r1, r2, r3

TwoRequests == {r1, r2}
ThreeRequests == {r1, r2, r3}
RequestSymmetry == Permutations(Requests)
=============================================================================
