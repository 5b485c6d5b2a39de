---------------------------- MODULE MCTallyCache ----------------------------
(* Model values and symmetry for TallyCache.                                *)
EXTENDS TallyCache, TLC

CONSTANTS p1, p2, s1, s2, r1, r2, w1, w2

Symmetry == Permutations(Reader) \cup Permutations(Writer) \cup Permutations(SurveyId)
=============================================================================
