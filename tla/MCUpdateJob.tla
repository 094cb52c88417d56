---------------------------- MODULE MCUpdateJob -----------------------------
(* Instances of UpdateJob for TLC. *)
EXTENDS UpdateJob, TLC

CONSTANTS a, b, inet, inet6, p, q

OneFamily   == {inet}
TwoFamilies == {inet, inet6}
OnePolicy   == {a}
TwoPolicies == {a, b}
TwoRanges   == {p, q}
OneRange    == {p}
AnyResult   == RangesOf

=============================================================================
