----------------------------- MODULE MCServices -----------------------------
(***************************************************************************)
(* Small instances of the parts in Services: two sign-ins, refreshes that  *)
(* may present the same token, and a request that ends sessions; three     *)
(* calls to VFD of two processes; one notice, and a broadcast to two       *)
(* customers in pages of one.                                              *)
(***************************************************************************)
EXTENDS Services, TLC

CONSTANTS s1, s2, r1, r2, e1, t1, t2, t3, t4

TwoSignIns == {s1, s2}
TwoRefreshes == {r1, r2}
OneEnd == {e1}
FourTokens == {t1, t2, t3, t4}

AnySymmetry ==
    Permutations(SignIns) \cup Permutations(Refreshes) \cup Permutations(Tokens)
=============================================================================
