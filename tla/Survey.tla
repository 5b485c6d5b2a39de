------------------------------- MODULE Survey -------------------------------
(***************************************************************************)
(* One survey as the store keeps it (internal/store/survey.go and          *)
(* internal/store/response.go): its state, settings and options, and one   *)
(* response per respondent.  Every operation of the store runs in a single *)
(* BEGIN IMMEDIATE transaction, so each is one action here; an operation   *)
(* that returns an error rolls back and is the absence of a step.          *)
(*                                                                         *)
(* Identifiers stand for themselves.  Titles, option wording, timestamps   *)
(* and the order of options are left out: no operation below branches on   *)
(* them.                                                                   *)
(***************************************************************************)
EXTENDS Naturals, FiniteSets

CONSTANTS
  OptionId,             \* the option identifiers newID can mint
  Voter,                \* the per-survey respondent identifiers
  Comment,              \* the comments a respondent may type
  NoComment,            \* an empty comment box
  NoOption,             \* the empty merged_into column
  Editor,               \* author of the options an editor wrote
  MaxOptions,           \* maxOptions
  MaxWriteInsPerVoter,  \* maxWriteInsPerVoter
  MaxPendingPerSurvey,  \* maxPendingPerSurvey
  Settings,             \* the settings an edit form may carry
  CloseTimes,           \* the close times an edit form may carry
  StateChoices,         \* the states the state buttons may post, besides open
  PreviewFlags,         \* the preview flags the vote handlers may pass
  MaxNow                \* bound on the clock

ASSUME OptionsAssumption == IsFiniteSet(OptionId) /\ NoOption \notin OptionId
ASSUME AuthorsAssumption == Editor \notin Voter
ASSUME CommentAssumption == NoComment \notin Comment
ASSUME LimitsAssumption ==
  /\ MaxOptions \in Nat
  /\ MaxWriteInsPerVoter \in Nat
  /\ MaxPendingPerSurvey \in Nat
ASSUME ClockAssumption == CloseTimes \subseteq Nat /\ MaxNow \in Nat \ {0}
ASSUME RequestsAssumption == StateChoices \subseteq {"draft", "closed"} /\ PreviewFlags \subseteq BOOLEAN
ASSUME SettingsAssumption == Settings \subseteq [writeIns : BOOLEAN, comments : BOOLEAN]

VARIABLES
  state,       \* surveys.state, "none" before creation and "deleted" after
  opened,      \* surveys.first_opened_at is set
  closeAt,     \* surveys.close_at, NoClose when NULL
  settings,    \* allow_write_in and allow_comment
  status,      \* status[o]: options.status, "absent" when there is no row
  mergedInto,  \* mergedInto[o]: options.merged_into
  author,      \* history: who added option o
  answered,    \* the respondents with a row in responses
  choices,     \* choices[v]: v's rows in choices
  seen,        \* seen[v]: v's rows in seen
  comment,     \* comment[v]: v's comment column
  origin,      \* history: was v's answer last saved by SaveResponse or as a preview
  now          \* the clock of the machine

survey    == <<state, opened, closeAt, settings>>
options   == <<status, mergedInto, author>>
responses == <<answered, choices, seen, comment, origin>>
vars      == <<survey, options, responses, now>>

NoClose == 0   \* the zero time.Time

SurveyStates   == {"none", "draft", "open", "closed", "deleted"}
OptionStatuses == {"absent", "approved", "pending", "rejected", "removed", "merged"}

Exists == state \notin {"none", "deleted"}

\* The options loadOptions returns under a given status column.
Listed(stat) == {o \in OptionId : stat[o] # "absent"}

PendingOptions == {o \in OptionId : status[o] = "pending"}

TypeOK ==
  /\ state \in SurveyStates
  /\ opened \in BOOLEAN
  /\ closeAt \in Nat
  /\ settings \in [writeIns : BOOLEAN, comments : BOOLEAN]
  /\ status \in [OptionId -> OptionStatuses]
  /\ mergedInto \in [OptionId -> OptionId \cup {NoOption}]
  /\ author \in [OptionId -> Voter \cup {Editor}]
  /\ answered \in SUBSET Voter
  /\ choices \in [Voter -> SUBSET OptionId]
  /\ seen \in [Voter -> SUBSET OptionId]
  /\ comment \in [Voter -> Comment \cup {NoComment}]
  /\ origin \in [Voter -> {"none", "preview", "public"}]
  /\ now \in Nat

-----------------------------------------------------------------------------
(* Reading a survey                                                        *)

Accepting == state = "open" /\ (closeAt = NoClose \/ now < closeAt)

\* Mutant: a draft accepts whoever has its URL.
AcceptingFromAnyone(preview) == state = "draft" \/ Accepting

AcceptingFrom(preview) == (preview /\ state = "draft") \/ Accepting

\* Mutant: a single hop, as if merges were never chained.
ResolveOneHop(id) ==
  LET to == IF status[id] = "merged" THEN mergedInto[id] ELSE id
  IN  [to |-> to, counts |-> to \in OptionId /\ status[to] = "approved"]

\* The loop of Survey.Resolve from each option, with n passes left after this one.
Walk[n \in 0..Cardinality(OptionId)] ==
  [o \in OptionId |->
     IF status[o] = "merged" /\ mergedInto[o] # NoOption
     THEN IF n = 0 THEN [to |-> mergedInto[o], counts |-> FALSE]
                   ELSE Walk[n - 1][mergedInto[o]]
     ELSE [to |-> o, counts |-> status[o] = "approved"]]

\* Where a vote for id ends up after following merge pointers, and whether it
\* counts there.  The loop runs at most len(Options) + 1 times.
Resolve(id) == Walk[Cardinality(Listed(status))][id]

\* Mutant: every suggestion is on every ballot.
VisibleToAll(stat, v, allowPending) == {o \in OptionId : stat[o] \in {"approved", "pending"}}

\* What is on v's ballot.  allowPending is the write-in being proposed in the
\* same request, or NoOption.
VisibleTo(stat, v, allowPending) ==
  {o \in OptionId : \/ stat[o] = "approved"
                    \/ stat[o] = "pending" /\ (o = allowPending \/ o \in choices[v])}

\* countOnce: one respondent counts once for an option however many of their
\* rows resolve to it.
CountOnce(o, rows) ==
  {v \in answered : \E id \in rows[v] : Resolve(id) = [to |-> o, counts |-> TRUE]}

Votes(o) == Cardinality(CountOnce(o, choices))
\* Mutant: exposure is counted without following merges.
ShownUnmerged(o) == Cardinality({v \in answered : o \in seen[v]})

Shown(o) == Cardinality(CountOnce(o, seen))

-----------------------------------------------------------------------------
(* Writing a survey                                                        *)

\* Mutant: a survey that is taken back to draft loses the stamp of its opening.
SaveSurveyUnstamping(newState, first, stat, into) ==
  /\ Cardinality(Listed(stat)) > MaxOptions =>
       Cardinality(Listed(stat)) <= Cardinality(Listed(status))
  /\ state' = newState
  /\ opened' = (newState # "draft" /\ (first \/ newState = "open"))
  /\ status' = stat
  /\ mergedInto' = into

\* saveSurvey: the option ceiling and the FirstOpenedAt stamp that every write
\* of a survey passes through.
SaveSurvey(newState, first, stat, into) ==
  /\ Cardinality(Listed(stat)) > MaxOptions =>
       Cardinality(Listed(stat)) <= Cardinality(Listed(status))
  /\ state' = newState
  /\ opened' = (first \/ newState = "open")
  /\ status' = stat
  /\ mergedInto' = into

\* AddOption, once for each option of new: each is refused at the ceiling.
AddOptions(stat, new, as) ==
  [o \in OptionId |-> IF o \in new THEN as ELSE stat[o]]

RoomFor(new) == new # {} => Cardinality(Listed(status)) + Cardinality(new) <= MaxOptions

CreateSurvey(opts) ==
  /\ state = "none"
  /\ SaveSurvey("draft", FALSE, AddOptions(status, opts, "approved"), mergedInto)
  /\ closeAt' = NoClose
  /\ settings' = [writeIns |-> TRUE, comments |-> TRUE]
  /\ UNCHANGED <<author, responses, now>>

\* The edit form: settings, close time, a remove box for each option and boxes
\* for new ones.  Suggestions in moderation are not the form's to change.
EditSave(remove, new, s, close) ==
  /\ Exists
  /\ new \subseteq OptionId \ Listed(status)
  /\ RoomFor(new)
  /\ LET edited == [o \in OptionId |->
                      IF status[o] \notin {"approved", "removed"} THEN status[o]
                      ELSE IF o \in remove THEN "removed" ELSE "approved"]
     IN  SaveSurvey(state, opened, AddOptions(edited, new, "approved"), mergedInto)
  /\ settings' = s
  /\ closeAt' = close
  /\ author' = [o \in OptionId |-> IF o \in new THEN Editor ELSE author[o]]
  /\ UNCHANGED <<responses, now>>

\* handleSetState for the states that are not a publication.
SetState(newState) ==
  /\ Exists
  /\ SaveSurvey(newState, opened, status, mergedInto)
  /\ UNCHANGED <<closeAt, settings, author, responses, now>>

ClearResponses ==
  /\ answered' = {}
  /\ choices' = [v \in Voter |-> {}]
  /\ seen' = [v \in Voter |-> {}]
  /\ comment' = [v \in Voter |-> NoComment]
  /\ origin' = [v \in Voter |-> "none"]

\* Mutant: every publication clears the responses, not only the first.
PublishAlwaysClearing ==
  /\ Exists
  /\ SaveSurvey("open", TRUE, status, mergedInto)
  /\ closeAt' = IF closeAt # NoClose /\ now >= closeAt THEN NoClose ELSE closeAt
  /\ ClearResponses
  /\ UNCHANGED <<settings, author, now>>

Publish ==
  /\ Exists
  /\ SaveSurvey("open", TRUE, status, mergedInto)
  /\ closeAt' = IF closeAt # NoClose /\ now >= closeAt THEN NoClose ELSE closeAt
  /\ IF opened THEN UNCHANGED responses ELSE ClearResponses
  /\ UNCHANGED <<settings, author, now>>

\* Rows of options, responses, choices and seen go with the survey (ON DELETE
\* CASCADE).
DeleteSurvey ==
  /\ Exists
  /\ state' = "deleted"
  /\ status' = [o \in OptionId |-> "absent"]
  /\ mergedInto' = [o \in OptionId |-> NoOption]
  /\ ClearResponses
  /\ UNCHANGED <<opened, closeAt, settings, author, now>>

\* SetOptionStatus for the four statuses that are not a merge; the moderation
\* handler asks for approved, rejected and removed.
SetOptionStatus(o, stat) ==
  /\ Exists
  /\ status[o] # "absent"
  /\ SaveSurvey(state, opened, [status EXCEPT ![o] = stat],
                [mergedInto EXCEPT ![o] = NoOption])
  /\ UNCHANGED <<closeAt, settings, author, responses, now>>

\* Mutant: a merged option is taken as a target.
MergeIntoMerged(o, target) ==
  /\ Exists
  /\ target # o
  /\ status[o] # "absent"
  /\ status[target] # "absent"
  /\ SaveSurvey(state, opened, [status EXCEPT ![o] = "merged"],
                [mergedInto EXCEPT ![o] = target])
  /\ UNCHANGED <<closeAt, settings, author, responses, now>>

\* Mutant: what had been merged into o is let go of instead of following it.
MergeDroppingChain(o, target) ==
  /\ Exists
  /\ target # o
  /\ status[o] # "absent"
  /\ status[target] \notin {"absent", "merged"}
  /\ SaveSurvey(state, opened,
                [x \in OptionId |-> IF x = o THEN "merged"
                                    ELSE IF mergedInto[x] = o THEN "removed" ELSE status[x]],
                [x \in OptionId |-> IF x = o THEN target
                                    ELSE IF mergedInto[x] = o THEN NoOption ELSE mergedInto[x]])
  /\ UNCHANGED <<closeAt, settings, author, responses, now>>

Merge(o, target) ==
  /\ Exists
  /\ target # o
  /\ status[o] # "absent"
  /\ status[target] \notin {"absent", "merged"}
  /\ SaveSurvey(state, opened, [status EXCEPT ![o] = "merged"],
                [mergedInto EXCEPT ![o] = target])
  /\ UNCHANGED <<closeAt, settings, author, responses, now>>

-----------------------------------------------------------------------------
(* Answering                                                               *)

\* Mutant: the submission is the whole answer, and hidden votes are lost.
SaveResponseWithoutCarry(stat, v, picks, text, allowPending, preview) ==
  LET ballot == VisibleTo(stat, v, allowPending)
      shown  == (ballot \cup seen[v]) \cap Listed(stat)
  IN  /\ answered' = answered \cup {v}
      /\ choices' = [choices EXCEPT ![v] = picks \cap ballot]
      /\ seen' = [seen EXCEPT ![v] = @ \cup shown]
      /\ comment' = [comment EXCEPT ![v] = IF settings.comments THEN text ELSE NoComment]
      /\ origin' = [origin EXCEPT ![v] = IF preview THEN "preview" ELSE "public"]

\* Mutant: everything selected before is carried forward, on the ballot or not.
SaveResponseCarryingAll(stat, v, picks, text, allowPending, preview) ==
  LET ballot == VisibleTo(stat, v, allowPending)
      shown  == (ballot \cup seen[v]) \cap Listed(stat)
  IN  /\ answered' = answered \cup {v}
      /\ choices' = [choices EXCEPT ![v] = (picks \cap ballot) \cup @]
      /\ seen' = [seen EXCEPT ![v] = @ \cup shown]
      /\ comment' = [comment EXCEPT ![v] = IF settings.comments THEN text ELSE NoComment]
      /\ origin' = [origin EXCEPT ![v] = IF preview THEN "preview" ELSE "public"]

\* Mutant: the exposure set is written with the first answer and never again.
SaveResponseSeenOnce(stat, v, picks, text, allowPending, preview) ==
  LET ballot == VisibleTo(stat, v, allowPending)
      hidden == (choices[v] \cap Listed(stat)) \ ballot
  IN  /\ answered' = answered \cup {v}
      /\ choices' = [choices EXCEPT ![v] = (picks \cap ballot) \cup hidden]
      /\ seen' = [seen EXCEPT ![v] = IF v \in answered THEN @ ELSE ballot]
      /\ comment' = [comment EXCEPT ![v] = IF settings.comments THEN text ELSE NoComment]
      /\ origin' = [origin EXCEPT ![v] = IF preview THEN "preview" ELSE "public"]

\* saveResponseTx against the option rows stat.  What v could not see is carried
\* forward; what v could see is taken from the submission; seen rows are only
\* ever inserted, and only when the set got longer.
SaveResponseTx(stat, v, picks, text, allowPending, preview) ==
  LET ballot == VisibleTo(stat, v, allowPending)
      hidden == (choices[v] \cap Listed(stat)) \ ballot
      shown  == (ballot \cup seen[v]) \cap Listed(stat)
  IN  /\ answered' = answered \cup {v}
      /\ choices' = [choices EXCEPT ![v] = (picks \cap ballot) \cup hidden]
      /\ seen' = [seen EXCEPT ![v] =
                    IF v \notin answered \/ Cardinality(shown) # Cardinality(@)
                    THEN @ \cup shown ELSE @]
      /\ comment' = [comment EXCEPT ![v] = IF settings.comments THEN text ELSE NoComment]
      /\ origin' = [origin EXCEPT ![v] = IF preview THEN "preview" ELSE "public"]

\* SaveResponse, or PreviewResponse when preview is TRUE.
SaveResponse(v, picks, text, preview) ==
  /\ Exists
  /\ AcceptingFrom(preview)
  /\ SaveResponseTx(status, v, picks, text, NoOption, preview)
  /\ UNCHANGED <<survey, options, now>>

\* Mutant: the caps are compared after the fact, one suggestion too late.
MayProposeOneMore(v, preview) ==
  /\ Exists
  /\ settings.writeIns
  /\ AcceptingFrom(preview)
  /\ Cardinality(choices[v] \cap PendingOptions) <= MaxWriteInsPerVoter
  /\ Cardinality(PendingOptions) < MaxPendingPerSurvey
  /\ Cardinality(Listed(status)) < MaxOptions

\* addWriteIn's checks: how many of v's selections await review, how many
\* suggestions the survey has, and AddOption's ceiling.
MayPropose(v, preview) ==
  /\ Exists
  /\ settings.writeIns
  /\ AcceptingFrom(preview)
  /\ Cardinality(choices[v] \cap PendingOptions) < MaxWriteInsPerVoter
  /\ Cardinality(PendingOptions) < MaxPendingPerSurvey
  /\ Cardinality(Listed(status)) < MaxOptions

\* Mutant: only the suggestion is submitted, as if it were the whole ballot.
AddWriteInAlone(v, o, preview) ==
  /\ MayPropose(v, preview)
  /\ status[o] = "absent"
  /\ LET stat == AddOptions(status, {o}, "pending")
     IN  /\ SaveSurvey(state, opened, stat, mergedInto)
         /\ SaveResponseTx(stat, v, {o}, comment[v], o, preview)
  /\ author' = [author EXCEPT ![o] = v]
  /\ UNCHANGED <<closeAt, settings, now>>

\* AddWriteIn, or PreviewWriteIn: a new pending option and its author's vote.
AddWriteIn(v, o, preview) ==
  /\ MayPropose(v, preview)
  /\ status[o] = "absent"
  /\ LET stat == AddOptions(status, {o}, "pending")
     IN  /\ SaveSurvey(state, opened, stat, mergedInto)
         /\ SaveResponseTx(stat, v, choices[v] \cup {o}, comment[v], o, preview)
  /\ author' = [author EXCEPT ![o] = v]
  /\ UNCHANGED <<closeAt, settings, now>>

Tick == now < MaxNow /\ now' = now + 1 /\ UNCHANGED <<survey, options, responses>>

-----------------------------------------------------------------------------
Init ==
  /\ state = "none"
  /\ opened = FALSE
  /\ closeAt = NoClose
  /\ settings = [writeIns |-> TRUE, comments |-> TRUE]
  /\ status = [o \in OptionId |-> "absent"]
  /\ mergedInto = [o \in OptionId |-> NoOption]
  /\ author = [o \in OptionId |-> Editor]
  /\ answered = {}
  /\ choices = [v \in Voter |-> {}]
  /\ seen = [v \in Voter |-> {}]
  /\ comment = [v \in Voter |-> NoComment]
  /\ origin = [v \in Voter |-> "none"]
  /\ now = 1

\* handleNew and handleEditSave, handleSetState, handleDeleteSurvey.
EditorStep ==
  \/ \E opts \in SUBSET OptionId : CreateSurvey(opts)
  \/ \E remove \in SUBSET Listed(status), new \in SUBSET (OptionId \ Listed(status)),
        s \in Settings, close \in CloseTimes : EditSave(remove, new, s, close)
  \/ \E newState \in StateChoices : SetState(newState)
  \/ Publish
  \/ DeleteSurvey

\* Mutant: the verb on the button is stored as the status.
ModeratorStepStoringVerbs ==
  \/ \E o \in OptionId, verb \in {"approve", "reject", "remove"} : SetOptionStatus(o, verb)
  \/ \E o, target \in OptionId : Merge(o, target)

\* handleModerate.
ModeratorStep ==
  \/ \E o \in OptionId, stat \in {"approved", "rejected", "removed"} :
       SetOptionStatus(o, stat)
  \/ \E o, target \in OptionId : Merge(o, target)

\* handleVote and handleWriteIn.
RespondentStep ==
  \E v \in Voter, preview \in PreviewFlags :
    \/ \E picks \in SUBSET OptionId, text \in Comment \cup {NoComment} :
         SaveResponse(v, picks, text, preview)
    \/ \E o \in OptionId : AddWriteIn(v, o, preview)

Next == EditorStep \/ ModeratorStep \/ RespondentStep \/ Tick

Spec == Init /\ [][Next]_vars

-----------------------------------------------------------------------------
(* Properties                                                              *)

\* Every vote on record is for an option its owner is recorded as having been
\* shown, and nothing is recorded for an option that has no row.  This is what
\* makes Votes <= Shown, and what lets saveResponseTx take an unchanged length
\* for an unchanged seen set.
ChoicesWereShown ==
  \A v \in Voter :
    /\ choices[v] \subseteq seen[v]
    /\ seen[v] \subseteq Listed(status)
    /\ v \notin answered => seen[v] = {}

\* DESIGN.md: Votes <= Shown <= respondents holds for every option, through
\* merge chains and whatever was removed or restored since.
TallyIsBounded ==
  \A o \in OptionId :
    /\ Votes(o) <= Shown(o)
    /\ Shown(o) <= Cardinality(answered)

\* Merge pointers never form a cycle: any set of merged options has one whose
\* target is outside it.  Resolve's bounded loop then always reaches an option
\* that is not itself merged.
MergesEnd ==
  /\ \A o \in OptionId : status[o] = "merged" => mergedInto[o] \in Listed(status)
  /\ \A S \in SUBSET {o \in OptionId : status[o] = "merged"} :
       S # {} => \E o \in S : mergedInto[o] \notin S

\* The bound on Resolve's loop is never what ends it.
ResolveReachesAnEnd ==
  \A o \in OptionId : status[Resolve(o).to] # "merged"

\* A suggestion in moderation is on record for nobody but the person who made
\* it: README.md, "Only the person who suggested it can see it until it is
\* approved".
PendingIsPrivate ==
  \A o \in PendingOptions : \A v \in Voter : o \in seen[v] => author[o] = v

\* A survey that has never been open holds nothing but an editor's test
\* answers, which is why Publish may discard them.
NeverOpenedHoldsOnlyPreviews ==
  /\ state = "open" => opened
  /\ state = "none" => ~opened /\ answered = {}
  /\ \A v \in Voter : origin[v] = "none" <=> v \notin answered
  /\ ~opened => \A v \in answered : origin[v] = "preview"

\* Every path that adds options stops at the ceilings, which are counted in
\* three different places.
CeilingsHold ==
  /\ Cardinality(Listed(status)) <= MaxOptions
  /\ Cardinality(PendingOptions) <= MaxPendingPerSurvey
  /\ \A v \in Voter :
       Cardinality(choices[v] \cap PendingOptions) <= MaxWriteInsPerVoter

\* Once a respondent's answer counts as real, nothing short of deleting the
\* survey takes it away: not closing, reopening, redrafting or republishing.
RealAnswersAreKept ==
  [][\A v \in Voter : origin[v] = "public" => v \in answered' \/ state' = "deleted"]_vars

\* The respondents whose votes rest with o, counted or not.
Behind(o) == {v \in answered : \E id \in choices[v] : Resolve(id).to = o}

\* Merging moves everyone behind an option to its target, each respondent once,
\* and nobody else's vote moves: "Merging transfers votes without touching the
\* response log".
MergeMovesEveryVote ==
  [][\A o, target \in OptionId :
       (status[o] # "merged" /\ status'[o] = "merged" /\ mergedInto'[o] = target) =>
         /\ Behind(target)' = Behind(target) \cup Behind(o)
         /\ \A x \in OptionId \ {o, target} : Behind(x)' = Behind(x)]_vars

\* Options that are on nobody's ballot.
OffBallots(stat) == {o \in OptionId : stat[o] \in {"removed", "rejected", "merged"}}

\* The whole of what happens to votes and exposure is the ledger's: options that
\* are off the ballot keep their votes through a submission, exposure only
\* grows, and editors and moderators never touch a response.
Ledger == INSTANCE VoteLedger WITH
  hidden  <- OffBallots(status),
  phase   <- IF state = "deleted" THEN "gone" ELSE IF opened THEN "live" ELSE "trial",
  voted   <- answered,
  votes   <- choices,
  exposed <- seen

KeepsTheLedger == Ledger!Spec
=============================================================================
