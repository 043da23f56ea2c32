-------------------------- MODULE MCFindingIntake --------------------------
(* Instances of FindingIntake for TLC.                                     *)
EXTENDS FindingIntake, TLC

SaveKeySymmetry == Permutations(Saves) \cup Permutations(Keys)
=============================================================================
