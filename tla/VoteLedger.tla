----------------------------- MODULE VoteLedger -----------------------------
(***************************************************************************)
(* What the response store promises, with surveys, options, moderation and *)
(* forms taken away: for each respondent a set of votes and a set of       *)
(* options they have been shown.  A submission names a ballot, which has    *)
(* nothing on it that is hidden, replaces the votes on that ballot and     *)
(* leaves every other vote alone; exposure only grows; the whole ledger is *)
(* wiped at exactly two moments, the first publication and the deletion of *)
(* the survey.  What editors and moderators do to options moves them in    *)
(* and out of hiding and writes nothing else to the ledger.                *)
(***************************************************************************)
CONSTANTS Voter, OptionId

VARIABLES
  phase,      \* "trial" until the first publication, then "live", then "gone"
  hidden,     \* the options that are on nobody's ballot
  voted,      \* the respondents with an answer on record
  votes,      \* votes[v]: what v has selected
  exposed     \* exposed[v]: every option v was shown when answering

vars == <<phase, hidden, voted, votes, exposed>>

Blank == [v \in Voter |-> {}]

Init ==
  /\ phase = "trial"
  /\ hidden = {}
  /\ voted = {}
  /\ votes = Blank
  /\ exposed = Blank

Cast(v, ballot, picks) ==
  /\ phase # "gone"
  /\ ballot \cap hidden = {}
  /\ picks \subseteq ballot
  /\ voted' = voted \cup {v}
  /\ votes' = [votes EXCEPT ![v] = picks \cup (@ \ ballot)]
  /\ exposed' = [exposed EXCEPT ![v] = @ \cup ballot]
  /\ UNCHANGED <<phase, hidden>>

Wipe(next) ==
  /\ phase' = next
  /\ voted' = {}
  /\ votes' = Blank
  /\ exposed' = Blank

GoLive == phase = "trial" /\ Wipe("live") /\ UNCHANGED hidden

Vanish == phase # "gone" /\ Wipe("gone") /\ hidden' = {}

Curate ==
  /\ hidden' \in SUBSET OptionId
  /\ UNCHANGED <<phase, voted, votes, exposed>>

Next ==
  \/ Curate
  \/ GoLive
  \/ Vanish
  \/ \E v \in Voter, ballot \in SUBSET OptionId :
       \E picks \in SUBSET ballot : Cast(v, ballot, picks)

Spec == Init /\ [][Next]_vars
=============================================================================
