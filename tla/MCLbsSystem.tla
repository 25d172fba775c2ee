---------------------------- MODULE MCLbsSystem -----------------------------
(* The keys are interchangeable in every action and property of LbsSystem. *)
EXTENDS LbsSystem, TLC

Symmetry == Permutations(Keys)
=============================================================================
