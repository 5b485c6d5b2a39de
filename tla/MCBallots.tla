------------------------------ MODULE MCBallots -----------------------------
(* Model values, bounds and symmetry for Ballots.                           *)
EXTENDS Ballots, TLC

CONSTANTS o1, o2, v1, c1

Plain == {[writeIns |-> TRUE, comments |-> TRUE]}

\* Comments may be turned off while one is on record.
CommentsOnOrOff == [writeIns : {TRUE}, comments : BOOLEAN]

OptionSymmetry == Permutations(OptionId)
=============================================================================
