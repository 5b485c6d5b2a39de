----------------------------- MODULE MCPortable -----------------------------
\* Portable with two options, one respondent and two restores at a time, and a
\* few documents nobody here wrote.
EXTENDS Portable, TLC

CONSTANTS o1, o2, v1, q1, q2

Plain == {[writeIns |-> TRUE, comments |-> TRUE]}

\* A backup of a closed survey in which v1 selected picks and was shown shown.
Backup(stat, into, picks, shown) ==
  [full |-> TRUE, state |-> "closed", opened |-> TRUE, closeAt |-> NoClose,
   settings |-> [writeIns |-> TRUE, comments |-> TRUE],
   status |-> stat, mergedInto |-> into, answered |-> {v1},
   choices |-> [v \in Voter |-> picks], seen |-> [v \in Voter |-> shown],
   comment |-> [v \in Voter |-> NoComment], origin |-> [v \in Voter |-> "public"]]

\* From a version that did not record exposure, with a suggestion in moderation;
\* and without one of the options, which yet is what the other is merged into, or
\* which was selected, or which was shown.  None has a circle of merges, so that
\* any circle would be new.
MCForeign ==
  LET Without(o, stat) == [x \in OptionId |-> IF x = o THEN "absent" ELSE stat]
      suggested == {[x \in OptionId |-> IF x = o THEN "pending" ELSE "approved"] : o \in OptionId}
  IN  {Backup(stat, Unmerged, OptionId, {}) : stat \in suggested}
      \cup {Backup(Without(o, "merged"), [x \in OptionId |-> IF x = o THEN NoOption ELSE o], {}, {}) :
              o \in OptionId}
      \cup {Backup(Without(o, "approved"), Unmerged, {o}, {o}) : o \in OptionId}
      \cup {Backup(Without(o, "approved"), Unmerged, {}, {o}) : o \in OptionId}

Symmetry == Permutations(OptionId) \cup Permutations(Restorer)
=============================================================================
