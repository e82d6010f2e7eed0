---------------------------- MODULE MCValidation ----------------------------
EXTENDS ValidationState, TLC

CONSTANTS v1, v2

(* Two runs of the validator are interchangeable.                          *)
Runs == Permutations({v1, v2})
=============================================================================
