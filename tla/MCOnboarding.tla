--------------------------- MODULE MCOnboarding ---------------------------
(* The instance of Onboarding that TLC checks: npm prefixes are            *)
(* interchangeable.                                                        *)
EXTENDS Onboarding, TLC

Interchangeable == Permutations(Paths)
=============================================================================
