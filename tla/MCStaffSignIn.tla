---------------------------- MODULE MCStaffSignIn ----------------------------
(***************************************************************************)
(* Small instances of StaffSignIn: any two or three of the requests race.  *)
(***************************************************************************)
EXTENDS StaffSignIn, TLC

CONSTANTS r1, r2, r3, d1, d2, d3, t1, t2, t3, s1, s2, c1, c2, c3

TwoRequests == {r1, r2}
ThreeRequests == {r1, r2, r3}
TwoDevices == {d1, d2}
ThreeDevices == {d1, d2, d3}
ThreeTokens == {t1, t2, t3}
TwoTokens == {t1, t2}
OneSecret == {s1}
TwoSecrets == {s1, s2}
TwoCodes == {c1, c2}
ThreeCodes == {c1, c2, c3}
TwoSteps == 1..2
Off == {{}}
AllOrNothing == {{}, {"totp", "device"}}
AnySymmetry ==
    Permutations(Requests) \cup Permutations(Devices) \cup Permutations(Tokens)
=============================================================================
