------------------------------ MODULE MCSurvey ------------------------------
(* Model values, bounds and symmetry for Survey and what is exported of it.  *)
EXTENDS Export, TLC

CONSTANTS o1, o2, o3, o4, v1, v2, c1

Plain == {[writeIns |-> TRUE, comments |-> TRUE]}

AllSettings == [writeIns : BOOLEAN, comments : BOOLEAN]

Symmetry == Permutations(OptionId) \cup Permutations(Voter)
=============================================================================
