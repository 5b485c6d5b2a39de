------------------------------- MODULE Export -------------------------------
(***************************************************************************)
(* The two tab-separated files an editor downloads (internal/export/tsv.go *)
(* and handleExport), as functions of a survey's state: the wide table of  *)
(* one row to a response and one column to an option, and the summary.     *)
(* Quoting, headings and percentages are left out: what is kept of a cell  *)
(* is whether it is 1, 0 or blank, which is what a spreadsheet's AVERAGE   *)
(* and COUNT read.                                                         *)
(***************************************************************************)
EXTENDS Survey

\* Mutant: what is not on the ballot has no column.
BallotColumns == {o \in Listed(status) : status[o] = "approved"}

\* Merged options have no column of their own.
Columns == {o \in Listed(status) : status[o] # "merged"}

\* Mutant: the map holds where each merge points, not where it ends.
ResolveMapOneHop == [o \in {x \in OptionId : status[x] = "merged"} |-> mergedInto[o]]

\* resolveMap: only merged options are in the map.
ResolveMap == [o \in {x \in OptionId : status[x] = "merged"} |-> Resolve(o).to]

ResolveVia(map, id) == IF id \in DOMAIN map THEN map[id] ELSE id

\* resolvedSets: v's choices, or v's seen rows, as options they stand for now.
ResolvedSet(rows, v) == {ResolveVia(ResolveMap, id) : id \in rows[v]}

Cell(v, o) ==
  IF o \in ResolvedSet(choices, v) THEN "1"
  ELSE IF o \in ResolvedSet(seen, v) THEN "0"
  ELSE ""

\* The selections column of v's row.
Selections(v) == Cardinality({o \in Columns : Cell(v, o) = "1"})

\* The summary's row for an option that is on the ballot.  Its share of those
\* who were shown it is blank when there are none.
SummaryRow(o) ==
  [votes |-> Votes(o), shown |-> Shown(o), interest |-> Shown(o) > 0]

-----------------------------------------------------------------------------
(* Properties                                                              *)

\* The two files agree: down the column of an option that is on the ballot, the
\* ones are the summary's votes and the cells that are not blank are its
\* shown_to, so that a share computed in a spreadsheet is the share the summary
\* prints ("a column's AVERAGE in Sheets is the share of those who were shown
\* it and its COUNT is how many were").
ExportsAgree ==
  \A o \in Columns : status[o] = "approved" =>
    LET down(marks) == Cardinality({v \in answered : Cell(v, o) \in marks})
        row == SummaryRow(o)
    IN  /\ down({"1"}) = row.votes
        /\ down({"0", "1"}) = row.shown
        /\ row.interest <=> down({"0", "1"}) # 0

\* No vote falls between the columns: whatever a respondent selected is a 1 in
\* some column, merged through any chain or hidden since, and two selections
\* that were merged into one option are one.
NoVoteWithoutAColumn ==
  \A v \in answered :
    /\ \A id \in choices[v] : Resolve(id).to \in Columns /\ Cell(v, Resolve(id).to) = "1"
    /\ Selections(v) = Cardinality({Resolve(id).to : id \in choices[v]})
=============================================================================
