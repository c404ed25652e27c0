--------------------------- MODULE MCCustomerSignIn ---------------------------
(***************************************************************************)
(* Small instances of CustomerSignIn.                                      *)
(***************************************************************************)
EXTENDS CustomerSignIn, TLC

CONSTANTS r1, r2, r3, d1, d2

TwoRequests == {r1, r2}
ThreeRequests == {r1, r2, r3}
OneDevice == {d1}
TwoDevices == {d1, d2}
AnySymmetry == Permutations(Requests) \cup Permutations(Devices)
=============================================================================
