---------------------------- MODULE MCOnboarding ----------------------------
(***************************************************************************)
(* A small instance of Onboarding: two requests overlap, and one consumer  *)
(* that may die has messages delivered again.                              *)
(***************************************************************************)
EXTENDS Onboarding

CONSTANTS r1, r2, c1

TwoRequests == {r1, r2}
OneConsumer == {c1}
=============================================================================
