---------------------------- MODULE MCRunApproval ----------------------------
(* RunApproval with the constants TLC needs. *)
EXTENDS RunApproval, TLC

InputsAreAlike == Permutations(Inputs)
==============================================================================
