----------------------------- MODULE MCBackfill -----------------------------
\* Backfill with two processes and two surveys to go through.  The first has a
\* respondent and two options; either survey may be missing at first, and either
\* option may be added late.
EXTENDS Backfill, TLC

CONSTANTS p1, p2, a, b, r

MCProcess == {p1, p2}
MCSurveyId == 1..2
MCOptionId == {a, b}
MCResponseId == {r}
MCSurveyOf == a :> 1 @@ b :> 1 @@ r :> 1
=============================================================================
